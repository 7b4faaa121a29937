---------------------------- MODULE CorpusDiffProofs ----------------------------
(* diff-captures: its types, that a completed diff is the one of the        *)
(* contents the digests name, and that both captures still were those      *)
(* contents after the last row, for every length of the captures, any      *)
(* number of edits of each, any decoding and any limit.                    *)
EXTENDS CorpusDiff, CaptureContentProofs

Snapshot == {"open", "verify", "reads", "string", "array", "census", "recheck",
             "reopen", "rehash", "captured"}
Reading  == {"string", "array", "census"}
Final    == {"final", "finalOpen", "finalHash", "finalDone"}
Hashing  == {"verify", "rehash", "finalHash"}

(* The path no longer has what the index was built from, and, since no     *)
(* version comes back, never will.                                         *)
Lost(s) == \E c \in 1 .. HeapBytes(s) : Content(s)[c] # digest[s][c]

(* The hash of the file it has open will not be that of the index.         *)
Differs(s, c) ==
  /\ store[s][rfd][c] # digest[s][c]
  /\ c <= rpos => rsum[c] # digest[s][c]
WillDiffer(s) == \E c \in 1 .. HeapBytes(s) : Differs(s, c)

(* What a snapshot has when it has passed n chunks of the indexed content. *)
TextsUpTo(s, n) ==
  {Text[s][t][digest[s][t]] :
     t \in {Target[s][c][digest[s][c]] : c \in 1 .. n} \cap 1 .. HeapBytes(s)} \ {Rejected}
TallyUpTo(s, n) == {[chunk |-> c, ver |-> digest[s][c]] : c \in 1 .. n}

Whole(s) ==
  /\ strings[s] = TextsUpTo(s, HeapBytes(s))
  /\ tally[s] = TallyUpTo(s, HeapBytes(s))
Held(s) == \A c \in 1 .. HeapBytes(s) : last[s][c] = digest[s][c]

(* The descriptors in use are of files that exist; the hash covers the     *)
(* chunks up to `rpos'; a read of a changed chunk is of a lost capture.    *)
FdInv ==
  /\ pc \in Hashing =>
       rfd \in 1 .. clock[turn] /\ \A c \in Chunks : c > rpos => rsum[c] = Absent
  /\ pc \in Reading =>
       /\ file[turn] \in 1 .. clock[turn]
       /\ \A c \in 1 .. HeapBytes(turn) :
            store[turn][file[turn]][c] # digest[turn][c] => Content(turn)[c] # digest[turn][c]

(* The texts that were collected are finite in number, and those of a      *)
(* capture whose turn has not come are none.                               *)
PassInv ==
  /\ \A s \in Captures : IsFiniteSet(strings[s])
  /\ pc \in {"open", "verify", "reads"} => next = 0 /\ strings[turn] = {}
  /\ pc \in {"open", "verify", "reads", "string", "array"} => tally[turn] = {}
  /\ pc = "array" => next < HeapBytes(turn) /\ target \in 1 .. HeapBytes(turn)
  /\ pc \in Snapshot => rows = {}
  /\ pc \in Snapshot /\ turn = "before" => strings["after"] = {} /\ tally["after"] = {}
  /\ pc \in Snapshot /\ turn = "after" => Whole("before")
  /\ pc \in Final => next = 0
  /\ pc \in {"rows", "complete"} \cup Final => \A s \in Captures : Whole(s)
  /\ pc = "rows" => rows \subseteq Changed
  /\ pc \in {"complete"} \cup Final => rows = Changed

(* A snapshot is right so far, or its recheck will fail.                   *)
SnapInv ==
  /\ pc \in {"string", "array"} => Lost(turn) \/ strings[turn] = TextsUpTo(turn, next)
  /\ pc = "array" => Lost(turn) \/ target = Target[turn][next + 1][digest[turn][next + 1]]
  /\ pc = "census" =>
       Lost(turn) \/ (/\ strings[turn] = TextsUpTo(turn, HeapBytes(turn))
                      /\ tally[turn] = TallyUpTo(turn, next))
  /\ pc \in {"recheck", "reopen"} => Lost(turn) \/ Whole(turn)
  /\ pc = "rehash" => WillDiffer(turn) \/ Whole(turn)
  /\ pc = "captured" => Whole(turn)

(* The same of both captures after the last row.                           *)
LastInv ==
  /\ pc \in Final /\ turn = "before" => Lost("after") \/ Held("after")
  /\ pc \in Final /\ turn = "after" => Held("before")
  /\ pc \in {"final", "finalOpen"} => Lost(turn) \/ Held(turn)
  /\ pc = "finalHash" => WillDiffer(turn) \/ Held(turn)
  /\ pc = "finalDone" => Held(turn)
  /\ pc = "complete" => \A s \in Captures : Held(s)

IInv ==
  /\ TypeOK
  /\ ReaderBound
  /\ FdInv
  /\ PassInv
  /\ SnapInv
  /\ LastInv

(* -- the captures -------------------------------------------------------------- *)

(* Every capture starts as its index has it.                               *)
LEMMA ReaderInitInv == ReaderInit => ReaderInv
<1>. SUFFICES ASSUME ReaderInit PROVE ReaderInv
  OBVIOUS
<1>1. ASSUME NEW s \in Captures
      PROVE  /\ WellFormed(path[s], store[s], clock[s])
             /\ \E n \in Chunks : digest[s] = Original(n)
  <2>1. PICK n \in Chunks : digest[s] = Original(n)
    BY DEF ReaderInit
  <2>. QED  BY <1>1, <2>1, FirstFile DEF ReaderInit, Nothing
<1>2. Nothing \in Contents /\ \A n \in Chunks : Original(n) \in Contents
  BY CaptureFileAssumption DEF Nothing, Original, Contents, Versions, Absent, Chunks
<1>3. ReaderTypeOK
  BY <1>2, CaptureFileAssumption DEF ReaderInit, ReaderTypeOK, NoFile, Files
<1>. QED  BY <1>1, <1>3 DEF ReaderInv, ReaderBound

(* The chunks an index covers were all there when it was built.            *)
LEMMA Indexed ==
  ASSUME ReaderInv, NEW s \in Captures
  PROVE  /\ HeapBytes(s) \in Chunks
         /\ \A c \in 1 .. HeapBytes(s) : c \in Chunks /\ digest[s][c] = 1
<1>1. PICK n \in Chunks : digest[s] = Original(n)
  BY DEF ReaderInv, ReaderBound
<1>. QED  BY <1>1, SizeOriginal DEF HeapBytes

(* One change by a writer of s.                                            *)
LEMMA ReaderEdit ==
  ASSUME ReaderInv, NEW s \in Captures, Edit(s)
  PROVE  /\ clock[s] \in Nat /\ clock'[s] = clock[s] + 1
         /\ path'[s] \in {path[s], clock[s] + 1}
         /\ \A f \in Files : f # path'[s] => store'[s][f] = store[s][f]
         /\ ChangedBy(store[s][path[s]], store'[s][path'[s]], clock[s] + 1)
         /\ UNCHANGED <<digest, pc, file, rfd, rpos, rsum>>
         /\ ReaderInv'
<1>1. /\ path \in [Captures -> Files] /\ clock \in [Captures -> Files]
      /\ store \in [Captures -> [Files -> Contents]]
      /\ WellFormed(path[s], store[s], clock[s])
      /\ clock[s] \in Nat /\ clock[s] <= MaxEdits
  BY DEF ReaderInv, ReaderTypeOK, ReaderBound, Edit, Files
<1>2. /\ clock' = [clock EXCEPT ![s] = clock[s] + 1]
      /\ UNCHANGED <<digest, pc, file, rfd, rpos, rsum>>
  BY DEF Edit, hashVars
<1>3. \E st2, p2 :
        /\ path' = [path EXCEPT ![s] = p2] /\ store' = [store EXCEPT ![s] = st2]
        /\ Writes(path[s], store[s], clock[s], p2, st2)
  <2>1. CASE Rewrite(s)
    <3>1. PICK new \in InPlace(Content(s), clock[s] + 1) :
            store' = [store EXCEPT ![s] = [store[s] EXCEPT ![path[s]] = new]]
      BY <1>1, <2>1 DEF Rewrite
    <3>2. path' = [path EXCEPT ![s] = path[s]]
      BY <1>1, <2>1 DEF Rewrite
    <3>. QED  BY <3>1, <3>2 DEF Writes, Content
  <2>2. CASE Replace(s)
    <3>1. PICK new \in Copies(Content(s), clock[s] + 1) :
            store' = [store EXCEPT ![s] = [store[s] EXCEPT ![clock[s] + 1] = new]]
      BY <1>1, <2>2 DEF Replace
    <3>2. path' = [path EXCEPT ![s] = clock[s] + 1]
      BY <2>2 DEF Replace
    <3>. QED  BY <3>1, <3>2 DEF Writes, Content
  <2>. QED  BY <2>1, <2>2 DEF Edit
<1>4. PICK st2, p2 :
        /\ path' = [path EXCEPT ![s] = p2] /\ store' = [store EXCEPT ![s] = st2]
        /\ Writes(path[s], store[s], clock[s], p2, st2)
  BY <1>3
<1>5. /\ clock[s] + 1 \in Files
      /\ WellFormed(p2, st2, clock[s] + 1)
      /\ p2 \in {path[s], clock[s] + 1}
      /\ \A f \in Files : f # p2 => st2[f] = store[s][f]
      /\ ChangedBy(store[s][path[s]], st2[p2], clock[s] + 1)
  BY <1>1, <1>4, WriteChanges
<1>6. path'[s] = p2 /\ store'[s] = st2 /\ clock'[s] = clock[s] + 1
  BY <1>1, <1>2, <1>4
<1>7. ReaderTypeOK'
  BY <1>1, <1>2, <1>4, <1>5 DEF ReaderInv, ReaderTypeOK, WellFormed
<1>8. ASSUME NEW t \in Captures
      PROVE  WellFormed(path'[t], store'[t], clock'[t])
  <2>1. CASE t = s
    BY <1>5, <1>6, <2>1
  <2>2. CASE t # s
    BY <1>1, <1>2, <1>4, <2>2 DEF ReaderInv, ReaderBound
  <2>. QED  BY <2>1, <2>2
<1>9. ReaderBound'
  BY <1>2, <1>8 DEF ReaderInv, ReaderBound
<1>. QED  BY <1>1, <1>2, <1>5, <1>6, <1>7, <1>9 DEF ReaderInv

(* -- the texts and the tally of a content ------------------------------------ *)

LEMMA NothingYet ==
  ASSUME NEW s
  PROVE  TextsUpTo(s, 0) = {} /\ TallyUpTo(s, 0) = {}
<1>1. 1 .. 0 = {}
  OBVIOUS
<1>. QED  BY <1>1 DEF TextsUpTo, TallyUpTo

LEMMA OneMore ==
  ASSUME NEW s, NEW n \in Nat
  PROVE  /\ Target[s][n + 1][digest[s][n + 1]] \notin 1 .. HeapBytes(s) =>
              TextsUpTo(s, n + 1) = TextsUpTo(s, n)
         /\ \A t \in 1 .. HeapBytes(s) :
              t = Target[s][n + 1][digest[s][n + 1]] =>
                TextsUpTo(s, n + 1) =
                  TextsUpTo(s, n) \cup ({Text[s][t][digest[s][t]]} \ {Rejected})
         /\ TallyUpTo(s, n + 1) = TallyUpTo(s, n) \cup {[chunk |-> n + 1, ver |-> digest[s][n + 1]]}
<1>1. 1 .. n + 1 = (1 .. n) \cup {n + 1}
  OBVIOUS
<1>. DEFINE To(c) == Target[s][c][digest[s][c]]
            Is(t) == Text[s][t][digest[s][t]]
            Fact(c) == [chunk |-> c, ver |-> digest[s][c]]
<1>2. /\ TextsUpTo(s, n) = {Is(t) : t \in {To(c) : c \in 1 .. n} \cap 1 .. HeapBytes(s)} \ {Rejected}
      /\ TextsUpTo(s, n + 1) =
           {Is(t) : t \in {To(c) : c \in 1 .. n + 1} \cap 1 .. HeapBytes(s)} \ {Rejected}
  BY DEF TextsUpTo
<1>3. TallyUpTo(s, n) = {Fact(c) : c \in 1 .. n} /\ TallyUpTo(s, n + 1) = {Fact(c) : c \in 1 .. n + 1}
  BY DEF TallyUpTo
<1>. HIDE DEF To, Is, Fact
<1>4. {To(c) : c \in 1 .. n + 1} = {To(c) : c \in 1 .. n} \cup {To(n + 1)}
  BY <1>1
<1>5. To(n + 1) \notin 1 .. HeapBytes(s) => TextsUpTo(s, n + 1) = TextsUpTo(s, n)
  BY <1>2, <1>4
<1>6. ASSUME To(n + 1) \in 1 .. HeapBytes(s)
      PROVE  TextsUpTo(s, n + 1) = TextsUpTo(s, n) \cup ({Is(To(n + 1))} \ {Rejected})
  <2>1. {To(c) : c \in 1 .. n + 1} \cap 1 .. HeapBytes(s) =
          ({To(c) : c \in 1 .. n} \cap 1 .. HeapBytes(s)) \cup {To(n + 1)}
    BY <1>4, <1>6
  <2>. QED  BY <1>2, <2>1
<1>7. TallyUpTo(s, n + 1) = TallyUpTo(s, n) \cup {Fact(n + 1)}
  BY <1>1, <1>3
<1>. QED  BY <1>5, <1>6, <1>7 DEF To, Is, Fact

(* -- what the hash finds ------------------------------------------------------- *)

LEMMA TurnTypes ==
  ASSUME IInv
  PROVE  /\ ReaderInv /\ turn \in Captures
         /\ digest[turn] \in Contents
         /\ path[turn] \in Files /\ clock[turn] \in Files /\ path[turn] \in 1 .. clock[turn]
         /\ store[turn] \in [Files -> Contents]
         /\ 1 .. clock[turn] \subseteq Files
         /\ HeapBytes(turn) \in Chunks /\ HeapBytes(turn) \in Nat
         /\ \A c \in 1 .. HeapBytes(turn) : c \in Chunks /\ digest[turn][c] # Absent
<1>. USE CaptureFileAssumption
<1>1. ReaderInv /\ turn \in Captures
  BY DEF IInv, TypeOK, ReaderInv
<1>2. /\ digest[turn] \in Contents
      /\ path[turn] \in Files /\ clock[turn] \in Files
      /\ store[turn] \in [Files -> Contents]
      /\ path[turn] <= clock[turn]
  BY <1>1 DEF ReaderInv, ReaderTypeOK, ReaderBound, WellFormed
<1>3. path[turn] \in 1 .. clock[turn] /\ 1 .. clock[turn] \subseteq Files
  BY <1>2 DEF Files
<1>4. HeapBytes(turn) \in Chunks /\ \A c \in 1 .. HeapBytes(turn) : c \in Chunks /\ digest[turn][c] # Absent
  BY <1>1, Indexed DEF Absent
<1>. QED  BY <1>1, <1>2, <1>3, <1>4 DEF Chunks

LEMMA HashOpenFacts ==
  ASSUME IInv, NEW from, NEW to, HashOpen(turn, from, to), to \in Hashing, UNCHANGED turn
  PROVE  /\ ReaderTypeOK' /\ ReaderBound'
         /\ rfd' \in 1 .. clock[turn] /\ \A c \in Chunks : c > rpos' => rsum'[c] = Absent
         /\ Lost(turn) => WillDiffer(turn)'
<1>. USE CaptureFileAssumption DEF HashOpen, captureVars
<1>1. Nothing \in Contents /\ 0 \in 0 .. MaxChunks
  BY DEF Nothing, Original, Contents, Versions, Absent, Chunks
<1>2. ReaderTypeOK' /\ ReaderBound'
  BY TurnTypes, <1>1 DEF IInv, TypeOK, ReaderTypeOK, ReaderBound
<1>3. rfd' \in 1 .. clock[turn] /\ \A c \in Chunks : c > rpos' => rsum'[c] = Absent
  BY TurnTypes DEF Nothing, Original, Absent, Chunks
<1>4. Lost(turn) => WillDiffer(turn)'
  <2>1. ASSUME NEW c \in 1 .. HeapBytes(turn), Content(turn)[c] # digest[turn][c]
        PROVE  Differs(turn, c)'
    BY <2>1 DEF Differs, Content
  <2>. QED  BY <2>1 DEF Lost, WillDiffer, HeapBytes
<1>. QED  BY <1>2, <1>3, <1>4

LEMMA HashChunkFacts ==
  ASSUME IInv, NEW at \in Hashing, HashChunk(turn, at), UNCHANGED turn
  PROVE  /\ ReaderTypeOK' /\ ReaderBound'
         /\ \A c \in Chunks : c > rpos' => rsum'[c] = Absent
         /\ WillDiffer(turn) => WillDiffer(turn)'
<1>. USE CaptureFileAssumption DEF HashChunk, captureVars
<1>1. /\ rfd \in Files /\ rpos + 1 \in Chunks /\ rpos \in Nat
      /\ store[turn][rfd] \in Contents
      /\ rsum \in Contents
  <2>1. rpos \in 0 .. MaxChunks /\ rpos # MaxChunks /\ rsum \in Contents
    BY DEF EndOfFile, IInv, TypeOK, ReaderTypeOK
  <2>2. rfd \in Files
    BY TurnTypes DEF IInv, FdInv
  <2>3. rpos + 1 \in Chunks /\ rpos \in Nat
    BY <2>1 DEF Chunks
  <2>. QED  BY TurnTypes, <2>1, <2>2, <2>3
<1>2. ReaderTypeOK' /\ ReaderBound'
  BY <1>1 DEF IInv, TypeOK, ReaderTypeOK, Contents, Chunks, ReaderBound
<1>3. \A c \in Chunks : c > rpos' => rsum'[c] = Absent
  BY <1>1 DEF IInv, FdInv, Contents, Chunks
<1>4. WillDiffer(turn) => WillDiffer(turn)'
  <2>1. ASSUME NEW c \in 1 .. HeapBytes(turn), Differs(turn, c) PROVE Differs(turn, c)'
    BY <1>1, <2>1, TurnTypes DEF Differs, Contents, Chunks
  <2>. QED  BY <2>1 DEF WillDiffer, HeapBytes
<1>. QED  BY <1>2, <1>3, <1>4

LEMMA HashVerdictFacts ==
  ASSUME IInv, pc \in Hashing, rsum = digest[turn]
  PROVE  ~ WillDiffer(turn)
<1>1. SUFFICES ASSUME NEW c \in 1 .. HeapBytes(turn) PROVE ~ Differs(turn, c)
  BY DEF WillDiffer
<1>2. c \in Chunks /\ digest[turn][c] # Absent /\ rpos \in Nat /\ c \in Nat
  BY TurnTypes, CaptureFileAssumption DEF IInv, TypeOK, ReaderTypeOK, Chunks
<1>3. c <= rpos
  BY <1>2 DEF IInv, FdInv
<1>. QED  BY <1>3 DEF Differs

LEMMA InitIInv == Init => IInv
<1>. SUFFICES ASSUME Init PROVE IInv
  OBVIOUS
<1>. USE CaptureFileAssumption, CorpusAssumption DEF Init
<1>1. ReaderInv
  BY ReaderInitInv
<1>2. HeapBytes("before") \in Nat
  BY <1>1, Indexed DEF Chunks
<1>3. Nothing \in Contents
  BY DEF Nothing, Original, Contents, Versions, Absent, Chunks
<1>4. IsFiniteSet({}) /\ Cardinality({}) = 0
  BY FS_EmptySet
<1>5. TypeOK
  BY <1>1, <1>2, <1>3, <1>4 DEF TypeOK, ReaderInv, PCs
<1>6. FdInv /\ PassInv /\ SnapInv /\ LastInv
  BY <1>4 DEF FdInv, PassInv, SnapInv, LastInv, Snapshot, Reading, Final, Hashing
<1>. QED  BY <1>1, <1>5, <1>6 DEF IInv, ReaderInv

(* -- Reader::open and the rechecks --------------------------------------------- *)

(* Steps that change neither the captures nor the snapshots.               *)
LEMMA SameViews ==
  ASSUME UNCHANGED <<captureVars, diffVars>>
  PROVE  /\ HeapBytes(turn)' = HeapBytes(turn)
         /\ \A s : /\ HeapBytes(s)' = HeapBytes(s)
                   /\ Lost(s)' <=> Lost(s)
                   /\ Whole(s)' <=> Whole(s)
                   /\ Held(s)' <=> Held(s)
         /\ \A s, n : TextsUpTo(s, n)' = TextsUpTo(s, n) /\ TallyUpTo(s, n)' = TallyUpTo(s, n)
         /\ Changed' = Changed
<1>. USE DEF captureVars, diffVars, snapshotVars
<1>1. HeapBytes(turn)' = HeapBytes(turn)
  BY DEF HeapBytes
<1>2. Changed' = Changed
  BY DEF Changed, Only
<1>3. \A s, n : TextsUpTo(s, n)' = TextsUpTo(s, n) /\ TallyUpTo(s, n)' = TallyUpTo(s, n)
  BY DEF TextsUpTo, TallyUpTo, HeapBytes
<1>4. \A s : HeapBytes(s)' = HeapBytes(s)
  BY DEF HeapBytes
<1>5. \A s : Whole(s)' <=> Whole(s)
  BY <1>3, <1>4 DEF Whole
<1>6. \A s : (Lost(s)' <=> Lost(s)) /\ (Held(s)' <=> Held(s))
  BY <1>4 DEF Lost, Held, Content
<1>. QED  BY <1>1, <1>2, <1>3, <1>4, <1>5, <1>6

LEMMA HashOpenIInv ==
  ASSUME IInv, UNCHANGED diffVars,
         \/ HashOpen(turn, "open", "verify")
         \/ HashOpen(turn, "reopen", "rehash")
         \/ HashOpen(turn, "finalOpen", "finalHash")
  PROVE  IInv'
<1>. PICK from \in {"open", "reopen", "finalOpen"}, to \in {"verify", "rehash", "finalHash"} :
        /\ HashOpen(turn, from, to)
        /\ <<from, to>> \in {<<"open", "verify">>, <<"reopen", "rehash">>, <<"finalOpen", "finalHash">>}
  OBVIOUS
<1>1. /\ pc = from /\ pc' = to /\ UNCHANGED <<captureVars, file, diffVars, turn>>
      /\ to \in Hashing
  BY DEF HashOpen, Hashing, diffVars
<1>2. /\ ReaderTypeOK' /\ ReaderBound'
      /\ rfd' \in 1 .. clock[turn] /\ \A c \in Chunks : c > rpos' => rsum'[c] = Absent
      /\ Lost(turn) => WillDiffer(turn)'
  BY <1>1, HashOpenFacts
<1>3. TypeOK' /\ ReaderBound'
  BY <1>1, <1>2, SameViews DEF IInv, TypeOK, PCs, diffVars, snapshotVars
<1>4. FdInv'
  BY <1>1, <1>2 DEF FdInv, Hashing, Reading, captureVars
<1>5. PassInv'
  BY <1>1, SameViews DEF IInv, PassInv, Snapshot, Final, diffVars, snapshotVars
<1>6. SnapInv' /\ LastInv'
  BY <1>1, <1>2, SameViews DEF IInv, SnapInv, LastInv, Final
<1>. QED  BY <1>3, <1>4, <1>5, <1>6 DEF IInv

LEMMA HashChunkIInv ==
  ASSUME IInv, UNCHANGED diffVars,
         HashChunk(turn, "verify") \/ HashChunk(turn, "rehash") \/ HashChunk(turn, "finalHash")
  PROVE  IInv'
<1>. PICK at \in Hashing : HashChunk(turn, at)
  BY DEF Hashing
<1>1. /\ pc = at /\ UNCHANGED <<captureVars, file, rfd, pc, diffVars, turn>>
  BY DEF HashChunk, diffVars
<1>2. /\ ReaderTypeOK' /\ ReaderBound'
      /\ \A c \in Chunks : c > rpos' => rsum'[c] = Absent
      /\ WillDiffer(turn) => WillDiffer(turn)'
  BY <1>1, HashChunkFacts
<1>3. TypeOK' /\ ReaderBound'
  BY <1>1, <1>2, SameViews DEF IInv, TypeOK, diffVars, snapshotVars
<1>4. FdInv'
  BY <1>1, <1>2 DEF IInv, FdInv, Hashing, Reading, captureVars
<1>5. PassInv'
  BY <1>1, SameViews DEF IInv, PassInv, diffVars, snapshotVars
<1>6. SnapInv' /\ LastInv'
  BY <1>1, <1>2, SameViews DEF IInv, SnapInv, LastInv, Final, Hashing
<1>. QED  BY <1>3, <1>4, <1>5, <1>6 DEF IInv

(* The verdict on a hash, the length checks and the opening for the reads. *)
LEMMA VerdictIInv ==
  ASSUME IInv, UNCHANGED diffVars,
         \/ HashVerdict(turn, "verify", "reads")
         \/ OpenReads(turn, "reads", "string")
         \/ RecheckSize(turn, "recheck", "reopen")
         \/ HashVerdict(turn, "rehash", "captured")
         \/ RecheckSize(turn, "final", "finalOpen")
         \/ HashVerdict(turn, "finalHash", "finalDone")
  PROVE  IInv'
<1>1. UNCHANGED <<captureVars, hashVars, diffVars, turn>>
  BY DEF HashVerdict, OpenReads, RecheckSize, diffVars
<1>2. \/ pc' = "failed" /\ UNCHANGED file
      \/ pc = "verify" /\ pc' = "reads" /\ UNCHANGED file
      \/ pc = "reads" /\ pc' = "string" /\ file' = [file EXCEPT ![turn] = path[turn]]
      \/ pc = "reads" /\ pc' = "failed" /\ file' = [file EXCEPT ![turn] = path[turn]]
      \/ pc = "recheck" /\ pc' = "reopen" /\ UNCHANGED file
      \/ pc = "rehash" /\ pc' = "captured" /\ rsum = digest[turn] /\ UNCHANGED file
      \/ pc = "final" /\ pc' = "finalOpen" /\ UNCHANGED file
      \/ pc = "finalHash" /\ pc' = "finalDone" /\ rsum = digest[turn] /\ UNCHANGED file
  BY DEF HashVerdict, OpenReads, RecheckSize
<1>3. file' \in [Captures -> Files \cup {NoFile}]
  BY <1>2, TurnTypes DEF IInv, TypeOK, ReaderTypeOK
<1>4. TypeOK' /\ ReaderBound'
  BY <1>1, <1>2, <1>3, SameViews
     DEF IInv, TypeOK, ReaderTypeOK, ReaderBound, PCs, diffVars, snapshotVars, captureVars, hashVars
<1>5. FdInv'
  <2>1. pc' = "string" => file'[turn] = path[turn]
    BY <1>2, TurnTypes DEF IInv, TypeOK, ReaderTypeOK
  <2>. QED  BY <1>1, <1>2, <2>1, TurnTypes DEF FdInv, Hashing, Reading, Content, captureVars
<1>6. PassInv'
  BY <1>1, <1>2, SameViews DEF IInv, PassInv, Snapshot, Final, diffVars, snapshotVars
<1>7. pc \in {"rehash", "finalHash"} /\ rsum = digest[turn] => ~ WillDiffer(turn)
  BY HashVerdictFacts DEF Hashing
<1>8. pc' = "string" => strings[turn] = TextsUpTo(turn, next)
  BY <1>2, NothingYet DEF IInv, PassInv
<1>9. SnapInv' /\ LastInv'
  BY <1>1, <1>2, <1>7, <1>8, SameViews DEF IInv, SnapInv, LastInv, Final, diffVars, snapshotVars
<1>. QED  BY <1>4, <1>5, <1>6, <1>9 DEF IInv

(* -- the reads --------------------------------------------------------------- *)

(* What is read of a capture that is not lost is the indexed content.      *)
LEMMA ReadFacts ==
  ASSUME IInv, pc \in Reading, NEW c, CanRead(turn, c)
  PROVE  /\ c \in 1 .. HeapBytes(turn) /\ c \in Chunks
         /\ Read(turn, c) \in Versions
         /\ Lost(turn) \/ Read(turn, c) = digest[turn][c]
<1>1. c \in 1 .. HeapBytes(turn) /\ c \in Chunks
  BY TurnTypes DEF CanRead
<1>2. store[turn][file[turn]] \in Contents
  BY TurnTypes DEF IInv, FdInv
<1>3. Lost(turn) \/ Read(turn, c) = digest[turn][c]
  BY <1>1 DEF IInv, FdInv, Read, Lost
<1>. QED  BY <1>1, <1>2, <1>3 DEF Contents, Read

(* The steps of the reads leave the captures and the descriptors alone.    *)
LEMMA ReadFrame ==
  ASSUME IInv, pc \in Reading, pc' \in Reading \cup {"failed"},
         UNCHANGED <<captureVars, file, hashVars, turn, rows, last>>,
         next' \in 0 .. HeapBytes(turn),
         target' \in 0 .. MaxChunks,
         strings' \in [Captures -> SUBSET Texts],
         \A s \in Captures : IsFiniteSet(strings'[s]) /\ Cardinality(strings'[s]) <= MaxUnique,
         \A s \in Captures : s # turn => strings'[s] = strings[s] /\ tally'[s] = tally[s],
         tally' \in [Captures -> SUBSET Facts],
         pc' \in {"string", "array"} => tally'[turn] = {},
         pc' = "array" => next' < HeapBytes(turn) /\ target' \in 1 .. HeapBytes(turn)
  PROVE  /\ TypeOK' /\ ReaderBound' /\ FdInv' /\ PassInv' /\ LastInv'
         /\ Lost(turn)' <=> Lost(turn)
         /\ HeapBytes(turn)' = HeapBytes(turn)
         /\ \A s, n : TextsUpTo(s, n)' = TextsUpTo(s, n) /\ TallyUpTo(s, n)' = TallyUpTo(s, n)
<1>1. /\ \A s : HeapBytes(s)' = HeapBytes(s)
      /\ \A s, n : TextsUpTo(s, n)' = TextsUpTo(s, n) /\ TallyUpTo(s, n)' = TallyUpTo(s, n)
      /\ Lost(turn)' <=> Lost(turn)
  BY DEF captureVars, HeapBytes, TextsUpTo, TallyUpTo, Lost, Content
<1>2. TypeOK' /\ ReaderBound'
  BY <1>1 DEF IInv, TypeOK, ReaderTypeOK, ReaderBound, PCs, Reading, captureVars, hashVars
<1>3. FdInv'
  BY <1>1 DEF IInv, FdInv, Reading, Hashing, Content, captureVars, hashVars
<1>4. PassInv'
  <2>1. turn = "after" => (Whole("before")' <=> Whole("before"))
    BY <1>1, CorpusAssumption DEF Whole
  <2>2. turn = "before" => strings'["after"] = strings["after"] /\ tally'["after"] = tally["after"]
    BY CorpusAssumption
  <2>. QED  BY <1>1, <2>1, <2>2, CorpusAssumption DEF IInv, PassInv, Reading, Snapshot, Final
<1>5. LastInv'
  BY DEF LastInv, Reading, Final
<1>. QED  BY <1>1, <1>2, <1>3, <1>4, <1>5

LEMMA RoomForOne ==
  ASSUME NEW n \in Nat, NEW m \in Nat, n <= m, n # m
  PROVE  n + 1 <= m
OBVIOUS

LEMMA StringIInv == IInv /\ (ReadHeader \/ ReadArray \/ StringsDone) => IInv'
<1>. SUFFICES ASSUME IInv, ReadHeader \/ ReadArray \/ StringsDone PROVE IInv'
  OBVIOUS
<1>. USE CaptureFileAssumption, CorpusAssumption
<1>0. /\ turn \in Captures /\ HeapBytes(turn) \in Nat /\ HeapBytes(turn) \in Chunks
      /\ next \in 0 .. HeapBytes(turn)
      /\ strings \in [Captures -> SUBSET Texts] /\ tally \in [Captures -> SUBSET Facts]
      /\ \A s \in Captures : IsFiniteSet(strings[s]) /\ Cardinality(strings[s]) <= MaxUnique
      /\ target \in 0 .. MaxChunks
  BY TurnTypes DEF IInv, TypeOK, PassInv
<1>1. CASE ReadHeader
  <2>. USE <1>1 DEF ReadHeader, snapshotVars
  <2>. DEFINE c == next + 1
  <2>1. /\ c \in 1 .. HeapBytes(turn) /\ c \in Chunks /\ Read(turn, c) \in Versions
        /\ Lost(turn) \/ Read(turn, c) = digest[turn][c]
    BY ReadFacts DEF Reading
  <2>2. target' \in 0 .. MaxChunks
    BY <1>0, <2>1
  <2>3. /\ next' \in 0 .. HeapBytes(turn)
        /\ pc' = "array" => next' < HeapBytes(turn) /\ target' \in 1 .. HeapBytes(turn)
        /\ pc' \in {"string", "array"} /\ tally[turn] = {}
    BY <1>0 DEF IInv, PassInv
  <2>4. /\ TypeOK' /\ ReaderBound' /\ FdInv' /\ PassInv' /\ LastInv'
        /\ Lost(turn)' <=> Lost(turn)
        /\ HeapBytes(turn)' = HeapBytes(turn)
        /\ \A s, n : TextsUpTo(s, n)' = TextsUpTo(s, n) /\ TallyUpTo(s, n)' = TallyUpTo(s, n)
    BY <1>0, <2>2, <2>3, ReadFrame DEF Reading
  <2>5. SnapInv'
    <3>1. Lost(turn) \/ /\ strings[turn] = TextsUpTo(turn, next)
                        /\ target' = Target[turn][c][digest[turn][c]]
      BY <2>1 DEF IInv, SnapInv
    <3>2. target' = Target[turn][c][digest[turn][c]] /\ target' \notin 1 .. HeapBytes(turn) =>
            TextsUpTo(turn, c) = TextsUpTo(turn, next)
      <4>1. next \in Nat
        BY <1>0
      <4>. QED  BY <4>1, OneMore
    <3>3. \/ pc' = "array" /\ next' = next
          \/ pc' = "string" /\ next' = c /\ target' \notin 1 .. HeapBytes(turn)
      OBVIOUS
    <3>4. UNCHANGED <<turn, strings, digest>>
      BY DEF captureVars
    <3>. QED  BY <2>4, <3>1, <3>2, <3>3, <3>4 DEF SnapInv
  <2>. QED  BY <2>4, <2>5 DEF IInv
<1>2. CASE ReadArray
  <2>. USE <1>2 DEF ReadArray
  <2>1. /\ next < HeapBytes(turn) /\ target \in 1 .. HeapBytes(turn) /\ target \in Chunks
        /\ Read(turn, target) \in Versions
        /\ Lost(turn) \/ Read(turn, target) = digest[turn][target]
    BY ReadFacts DEF Reading, IInv, PassInv
  <2>2. Found \in Texts \cup {Rejected}
    BY <1>0, <2>1 DEF Found
  <2>3. /\ strings' \in [Captures -> SUBSET Texts]
        /\ \A s \in Captures : IsFiniteSet(strings'[s]) /\ Cardinality(strings'[s]) <= MaxUnique
        /\ \A s \in Captures : s # turn => strings'[s] = strings[s]
        /\ pc' = "string" => strings'[turn] = strings[turn] \cup ({Found} \ {Rejected})
        /\ pc' \in {"string", "failed"}
    <3>1. CASE Found \in strings[turn] \cup {Rejected}
      BY <1>0, <3>1
    <3>2. CASE Found \notin strings[turn] \cup {Rejected} /\ Cardinality(strings[turn]) = MaxUnique
      BY <1>0, <3>2
    <3>3. CASE Found \notin strings[turn] \cup {Rejected} /\ Cardinality(strings[turn]) # MaxUnique
      <4>1. /\ strings' = [strings EXCEPT ![turn] = strings[turn] \cup {Found}] /\ pc' = "string"
            /\ Found \in Texts /\ Found # Rejected
        BY <2>2, <3>3
      <4>2. /\ IsFiniteSet(strings[turn] \cup {Found})
            /\ Cardinality(strings[turn] \cup {Found}) = Cardinality(strings[turn]) + 1
            /\ Cardinality(strings[turn]) \in Nat
        BY <1>0, <3>3, FS_AddElement, FS_CardinalityType
      <4>3. Cardinality(strings[turn] \cup {Found}) <= MaxUnique
        <5>1. Cardinality(strings[turn]) <= MaxUnique /\ Cardinality(strings[turn]) # MaxUnique
          BY <1>0, <3>3
        <5>2. MaxUnique \in Nat
          OBVIOUS
        <5>. QED  BY <4>2, <5>1, <5>2, RoomForOne
      <4>4. /\ strings'[turn] = strings[turn] \cup {Found}
            /\ \A s \in Captures : s # turn => strings'[s] = strings[s]
            /\ strings' \in [Captures -> SUBSET Texts]
        BY <1>0, <4>1
      <4>5. ASSUME NEW s \in Captures
            PROVE  IsFiniteSet(strings'[s]) /\ Cardinality(strings'[s]) <= MaxUnique
        <5>1. CASE s = turn
          BY <4>2, <4>3, <4>4, <5>1
        <5>2. CASE s # turn
          BY <1>0, <4>4, <5>2
        <5>. QED  BY <5>1, <5>2
      <4>. QED  BY <4>1, <4>4, <4>5
    <3>. QED  BY <3>1, <3>2, <3>3
  <2>4. /\ next' \in 0 .. HeapBytes(turn) /\ next' = next + 1
        /\ UNCHANGED <<tally, target>> /\ tally[turn] = {}
    BY <1>0, <2>1 DEF IInv, PassInv
  <2>5. /\ TypeOK' /\ ReaderBound' /\ FdInv' /\ PassInv' /\ LastInv'
        /\ Lost(turn)' <=> Lost(turn)
        /\ HeapBytes(turn)' = HeapBytes(turn)
        /\ \A s, n : TextsUpTo(s, n)' = TextsUpTo(s, n) /\ TallyUpTo(s, n)' = TallyUpTo(s, n)
    BY <1>0, <2>3, <2>4, ReadFrame DEF Reading
  <2>6. SnapInv'
    <3>1. Lost(turn) \/ /\ strings[turn] = TextsUpTo(turn, next)
                        /\ target = Target[turn][next + 1][digest[turn][next + 1]]
                        /\ Found = Text[turn][target][digest[turn][target]]
      BY <2>1 DEF IInv, SnapInv, Found
    <3>2. target = Target[turn][next + 1][digest[turn][next + 1]] =>
            TextsUpTo(turn, next + 1) =
              TextsUpTo(turn, next) \cup ({Text[turn][target][digest[turn][target]]} \ {Rejected})
      <4>1. next \in Nat
        BY <1>0
      <4>. QED  BY <2>1, <4>1, OneMore
    <3>. QED  BY <2>3, <2>4, <2>5, <3>1, <3>2 DEF SnapInv
  <2>. QED  BY <2>5, <2>6 DEF IInv
<1>3. CASE StringsDone
  <2>. USE <1>3 DEF StringsDone, snapshotVars
  <2>1. /\ TypeOK' /\ ReaderBound' /\ FdInv' /\ PassInv' /\ LastInv'
        /\ Lost(turn)' <=> Lost(turn)
        /\ HeapBytes(turn)' = HeapBytes(turn)
        /\ \A s, n : TextsUpTo(s, n)' = TextsUpTo(s, n) /\ TallyUpTo(s, n)' = TallyUpTo(s, n)
    BY <1>0, ReadFrame DEF Reading
  <2>2. tally[turn] = TallyUpTo(turn, 0)
    BY NothingYet DEF IInv, PassInv
  <2>3. SnapInv'
    BY <2>1, <2>2 DEF IInv, SnapInv
  <2>. QED  BY <2>1, <2>3 DEF IInv
<1>. QED  BY <1>1, <1>2, <1>3

LEMMA CensusIInv == IInv /\ (CollectArray \/ CensusDone) => IInv'
<1>. SUFFICES ASSUME IInv, CollectArray \/ CensusDone PROVE IInv'
  OBVIOUS
<1>. USE CaptureFileAssumption, CorpusAssumption
<1>0. /\ turn \in Captures /\ HeapBytes(turn) \in Nat
      /\ next \in 0 .. HeapBytes(turn) /\ next \in Nat
      /\ strings \in [Captures -> SUBSET Texts] /\ tally \in [Captures -> SUBSET Facts]
      /\ \A s \in Captures : IsFiniteSet(strings[s]) /\ Cardinality(strings[s]) <= MaxUnique
      /\ target \in 0 .. MaxChunks
  BY TurnTypes DEF IInv, TypeOK, PassInv
<1>1. CASE CollectArray
  <2>. USE <1>1 DEF CollectArray
  <2>. DEFINE fact == [chunk |-> next + 1, ver |-> Read(turn, next + 1)]
  <2>1. /\ next + 1 \in 1 .. HeapBytes(turn) /\ next + 1 \in Chunks
        /\ Read(turn, next + 1) \in Versions
        /\ Lost(turn) \/ Read(turn, next + 1) = digest[turn][next + 1]
    BY ReadFacts DEF Reading
  <2>2. fact \in Facts
    BY <2>1 DEF Facts
  <2>3. /\ tally' = [tally EXCEPT ![turn] = tally[turn] \cup {fact}]
        /\ UNCHANGED <<captureVars, pc, file, hashVars, turn, target, strings, rows, last>>
        /\ next' = next + 1 /\ next < HeapBytes(turn) /\ pc = "census"
    OBVIOUS
  <2>. HIDE DEF fact
  <2>4. /\ tally' \in [Captures -> SUBSET Facts] /\ tally'[turn] = tally[turn] \cup {fact}
        /\ \A s \in Captures : s # turn => tally'[s] = tally[s]
        /\ next' \in 0 .. HeapBytes(turn)
    BY <1>0, <2>2, <2>3
  <2>5. /\ TypeOK' /\ ReaderBound' /\ FdInv' /\ PassInv' /\ LastInv'
        /\ Lost(turn)' <=> Lost(turn)
        /\ HeapBytes(turn)' = HeapBytes(turn)
        /\ \A s, n : TextsUpTo(s, n)' = TextsUpTo(s, n) /\ TallyUpTo(s, n)' = TallyUpTo(s, n)
    BY <1>0, <2>3, <2>4, ReadFrame DEF Reading
  <2>6. SnapInv'
    <3>1. Lost(turn) \/ /\ strings[turn] = TextsUpTo(turn, HeapBytes(turn))
                        /\ tally[turn] = TallyUpTo(turn, next)
                        /\ fact = [chunk |-> next + 1, ver |-> digest[turn][next + 1]]
      BY <2>1 DEF IInv, SnapInv, fact
    <3>2. TallyUpTo(turn, next + 1) =
            TallyUpTo(turn, next) \cup {[chunk |-> next + 1, ver |-> digest[turn][next + 1]]}
      BY <1>0, OneMore
    <3>3. UNCHANGED <<turn, strings, pc>>
      BY <2>3
    <3>. QED  BY <2>3, <2>4, <2>5, <3>1, <3>2, <3>3 DEF SnapInv
  <2>. QED  BY <2>5, <2>6 DEF IInv
<1>2. CASE CensusDone
  <2>1. /\ UNCHANGED <<captureVars, file, hashVars, diffVars, turn>>
        /\ pc = "census" /\ pc' = "recheck" /\ next = HeapBytes(turn)
    BY <1>2 DEF CensusDone, diffVars
  <2>2. TypeOK' /\ ReaderBound'
    BY <2>1, SameViews DEF IInv, TypeOK, ReaderTypeOK, ReaderBound, PCs, diffVars, snapshotVars,
                           captureVars, hashVars
  <2>3. FdInv' /\ PassInv' /\ LastInv'
    BY <2>1, SameViews DEF IInv, FdInv, PassInv, LastInv, Hashing, Reading, Snapshot, Final,
                           diffVars, snapshotVars
  <2>4. SnapInv'
    BY <2>1, SameViews DEF IInv, SnapInv, Whole
  <2>. QED  BY <2>2, <2>3, <2>4 DEF IInv
<1>. QED  BY <1>1, <1>2

(* -- the turn of a capture, the rows, the end --------------------------------- *)

LEMMA CapturedIInv == IInv /\ Captured => IInv'
<1>. SUFFICES ASSUME IInv, Captured PROVE IInv'
  OBVIOUS
<1>. USE CorpusAssumption
<1>1. /\ pc = "captured" /\ UNCHANGED <<captureVars, file, hashVars, target, snapshotVars, rows, last>>
      /\ \/ turn = "before" /\ turn' = "after" /\ next' = 0 /\ pc' = "open"
         \/ turn = "after" /\ turn' = "after" /\ next' = next /\ pc' = "rows"
  BY DEF Captured, IInv, TypeOK
<1>2. \A s : /\ HeapBytes(s)' = HeapBytes(s)
             /\ Whole(s)' <=> Whole(s)
  BY <1>1 DEF HeapBytes, Whole, TextsUpTo, TallyUpTo, captureVars, snapshotVars
<1>3. \A s \in Captures : HeapBytes(s) \in Nat
  BY Indexed DEF IInv, TypeOK, ReaderInv, Chunks
<1>4. next' \in 0 .. HeapBytes(turn)'
  BY <1>1, <1>2, <1>3 DEF IInv, TypeOK, HeapBytes, captureVars
<1>5. TypeOK' /\ ReaderBound'
  BY <1>1, <1>4 DEF IInv, TypeOK, ReaderTypeOK, ReaderBound, PCs, captureVars, hashVars, snapshotVars
<1>6. FdInv' /\ SnapInv' /\ LastInv'
  BY <1>1 DEF FdInv, SnapInv, LastInv, Hashing, Reading, Final
<1>7. PassInv'
  <2>1. Whole(turn) /\ rows = {}
    BY <1>1 DEF IInv, SnapInv, PassInv, Snapshot
  <2>2. turn = "after" => Whole("before")
    BY <1>1 DEF IInv, PassInv, Snapshot
  <2>3. turn = "before" => strings["after"] = {} /\ tally["after"] = {}
    BY <1>1 DEF IInv, PassInv, Snapshot
  <2>. QED  BY <1>1, <1>2, <2>1, <2>2, <2>3 DEF IInv, PassInv, Snapshot, Final, snapshotVars
<1>. QED  BY <1>5, <1>6, <1>7 DEF IInv

LEMMA RowsIInv == IInv /\ (WriteRow \/ RowsDone) => IInv'
<1>. SUFFICES ASSUME IInv, WriteRow \/ RowsDone PROVE IInv'
  OBVIOUS
<1>. USE CorpusAssumption
<1>1. /\ pc = "rows" /\ UNCHANGED <<captureVars, file, hashVars, target, snapshotVars>>
      /\ \/ rows \subseteq rows' /\ rows' \subseteq rows \cup Changed /\ UNCHANGED <<pc, turn, next, last>>
         \/ /\ UNCHANGED rows /\ Changed \subseteq rows
            /\ pc' = "final" /\ turn' = "before" /\ next' = 0
            /\ last' = [s \in Captures |-> Content(s)]
  BY DEF WriteRow, RowsDone
<1>2. /\ Changed' = Changed
      /\ \A s : /\ HeapBytes(s)' = HeapBytes(s)
                /\ Whole(s)' <=> Whole(s)
  <2>1. Changed' = Changed
    BY <1>1 DEF Changed, Only, snapshotVars
  <2>2. \A s : HeapBytes(s)' = HeapBytes(s)
    BY <1>1 DEF HeapBytes, captureVars
  <2>3. \A s : Whole(s)' <=> Whole(s)
    BY <1>1 DEF HeapBytes, Whole, TextsUpTo, TallyUpTo, captureVars, snapshotVars
  <2>. QED  BY <2>1, <2>2, <2>3
<1>3. Changed \subseteq Changes
  BY DEF IInv, TypeOK, Changed, Only, Changes
<1>4. rows' \subseteq Changes
  BY <1>1, <1>3 DEF IInv, TypeOK
<1>5. \A s \in Captures : HeapBytes(s) \in Nat /\ Content(s) \in Contents
  BY Indexed DEF IInv, TypeOK, ReaderInv, ReaderTypeOK, Chunks, Content
<1>6. TypeOK' /\ ReaderBound'
  <2>1. next' \in 0 .. HeapBytes(turn)' /\ turn' \in Captures
    BY <1>1, <1>2, <1>5 DEF IInv, TypeOK, HeapBytes, captureVars
  <2>2. last' \in [Captures -> Contents]
    BY <1>1, <1>5 DEF IInv, TypeOK
  <2>. QED  BY <1>1, <1>4, <2>1, <2>2
            DEF IInv, TypeOK, ReaderTypeOK, ReaderBound, PCs, captureVars, hashVars, snapshotVars
<1>7. FdInv' /\ SnapInv'
  BY <1>1 DEF FdInv, SnapInv, Hashing, Reading
<1>8. PassInv'
  BY <1>1, <1>2 DEF IInv, PassInv, Snapshot, Final, snapshotVars
<1>9. LastInv'
  <2>1. ASSUME pc' = "final", NEW s \in Captures PROVE Lost(s)' \/ Held(s)'
    <3>1. last'[s] = Content(s) /\ Content(s)' = Content(s) /\ HeapBytes(s)' = HeapBytes(s)
      BY <1>1, <1>2, <2>1 DEF Content, captureVars
    <3>. QED  BY <1>1, <3>1 DEF Lost, Held, captureVars
  <2>2. ("before" \in Captures) /\ ("after" \in Captures)
    OBVIOUS
  <2>. QED  BY <1>1, <2>1, <2>2 DEF LastInv, Final
<1>. QED  BY <1>6, <1>7, <1>8, <1>9 DEF IInv

LEMMA EndIInv == IInv /\ (Revalidated \/ Fail) => IInv'
<1>. SUFFICES ASSUME IInv, Revalidated \/ Fail PROVE IInv'
  OBVIOUS
<1>. USE CorpusAssumption
<1>1. /\ UNCHANGED <<captureVars, file, hashVars, next, target, snapshotVars, rows, last>>
      /\ \/ pc = "finalDone" /\ turn = "before" /\ turn' = "after" /\ pc' = "final"
         \/ pc = "finalDone" /\ turn = "after" /\ turn' = "after" /\ pc' = "complete"
         \/ turn' = turn /\ pc' = "failed"
  BY DEF Revalidated, Fail, Abort, diffVars, IInv, TypeOK
<1>2. /\ Changed' = Changed
      /\ \A s : HeapBytes(s)' = HeapBytes(s) /\ (Whole(s)' <=> Whole(s))
      /\ \A s : (Lost(s)' <=> Lost(s)) /\ (Held(s)' <=> Held(s))
  <2>1. Changed' = Changed
    BY <1>1 DEF Changed, Only, snapshotVars
  <2>2. \A s : HeapBytes(s)' = HeapBytes(s)
    BY <1>1 DEF HeapBytes, captureVars
  <2>3. \A s : Whole(s)' <=> Whole(s)
    BY <1>1 DEF HeapBytes, Whole, TextsUpTo, TallyUpTo, captureVars, snapshotVars
  <2>4. \A s : (Lost(s)' <=> Lost(s)) /\ (Held(s)' <=> Held(s))
    BY <1>1, <2>2 DEF Lost, Held, Content, captureVars
  <2>. QED  BY <2>1, <2>2, <2>3, <2>4
<1>3. next' \in 0 .. HeapBytes(turn)' /\ turn' \in Captures
  <2>1. \A s \in Captures : HeapBytes(s) \in Nat
    BY Indexed DEF IInv, TypeOK, ReaderInv, Chunks
  <2>2. pc = "finalDone" => next = 0
    BY DEF IInv, PassInv, Final
  <2>3. HeapBytes(turn)' = HeapBytes(turn')
    BY <1>1 DEF HeapBytes, captureVars
  <2>. QED  BY <1>1, <2>1, <2>2, <2>3 DEF IInv, TypeOK
<1>4. TypeOK' /\ ReaderBound'
  BY <1>1, <1>3 DEF IInv, TypeOK, ReaderTypeOK, ReaderBound, PCs, captureVars, hashVars, snapshotVars
<1>5. FdInv' /\ SnapInv'
  BY <1>1 DEF FdInv, SnapInv, Hashing, Reading
<1>6. PassInv'
  BY <1>1, <1>2 DEF IInv, PassInv, Snapshot, Final, snapshotVars
<1>7. LastInv'
  BY <1>1, <1>2 DEF IInv, LastInv, Final
<1>. QED  BY <1>4, <1>5, <1>6, <1>7 DEF IInv

(* -- the writers ----------------------------------------------------------------- *)

(* A change of one capture leaves the others alone, and makes in its own a *)
(* version that no index is of.                                            *)
LEMMA EditOfOne ==
  ASSUME ReaderInv, NEW s \in Captures, Edit(s), NEW t \in Captures
  PROVE  /\ UNCHANGED <<digest, pc, file, rfd, rpos, rsum>> /\ ReaderInv'
         /\ 1 .. clock[t] \subseteq (1 .. clock[t])'
         /\ \A c \in 1 .. HeapBytes(t) :
              /\ Content(t)[c] # digest[t][c] => (Content(t)[c] # digest[t][c])'
              /\ \A f \in 1 .. clock[t] :
                   /\ store[t][f][c] # digest[t][c] => (store[t][f][c] # digest[t][c])'
                   /\ store[t][f][c] # digest[t][c] \/ Content(t)[c] # digest[t][c]
                        \/ (store[t][f][c] # digest[t][c] => Content(t)[c] # digest[t][c])'
<1>1. /\ clock[s] \in Nat /\ clock'[s] = clock[s] + 1
      /\ path'[s] \in {path[s], clock[s] + 1}
      /\ \A f \in Files : f # path'[s] => store'[s][f] = store[s][f]
      /\ ChangedBy(store[s][path[s]], store'[s][path'[s]], clock[s] + 1)
      /\ UNCHANGED <<digest, pc, file, rfd, rpos, rsum>>
      /\ ReaderInv'
  BY ReaderEdit
<1>2. CASE t # s
  <2>1. path'[t] = path[t] /\ store'[t] = store[t] /\ clock'[t] = clock[t]
    <3>1. /\ path \in [Captures -> Files] /\ clock \in [Captures -> Files]
          /\ store \in [Captures -> [Files -> Contents]]
      BY DEF ReaderInv, ReaderTypeOK
    <3>2. clock'[t] = clock[t]
      BY <1>2, <3>1 DEF Edit
    <3>3. path'[t] = path[t] /\ store'[t] = store[t]
      BY <1>2, <3>1 DEF Edit, Rewrite, Replace
    <3>. QED  BY <3>2, <3>3
  <2>. QED  BY <1>1, <2>1 DEF Content
<1>3. CASE t = s
  <2>1. clock[s] \in Files /\ 1 .. clock[s] \subseteq Files /\ clock[s] + 1 # 1
        /\ clock[s] + 1 \notin 1 .. clock[s]
    BY <1>1, CaptureFileAssumption DEF ReaderInv, ReaderTypeOK, Files
  <2>2. ASSUME NEW c \in 1 .. HeapBytes(s)
        PROVE  Content(s)[c] # digest[s][c] => (Content(s)[c] # digest[s][c])'
    <3>1. c \in Chunks /\ digest[s][c] = 1 /\ digest[s][c] # Absent
      BY Indexed DEF Absent
    <3>2. store'[s][path'[s]][c] \in {store[s][path[s]][c], Absent, clock[s] + 1}
      BY <1>1, <3>1 DEF ChangedBy
    <3>. QED  BY <1>1, <2>1, <3>1, <3>2 DEF Content
  <2>3. ASSUME NEW f \in 1 .. clock[s]
        PROVE  \/ store'[s][f] = store[s][f]
               \/ /\ f = path[s] /\ f = path'[s]
                  /\ store[s][f] = Content(s) /\ store'[s][f] = Content(s)'
    BY <1>1, <2>1 DEF Content
  <2>4. 1 .. clock[s] \subseteq 1 .. clock'[s]
    BY <1>1
  <2>5. ASSUME NEW c \in 1 .. HeapBytes(s), NEW f \in 1 .. clock[s]
        PROVE  /\ store[s][f][c] # digest[s][c] => (store[s][f][c] # digest[s][c])'
               /\ store[s][f][c] # digest[s][c] \/ Content(s)[c] # digest[s][c]
                    \/ (store[s][f][c] # digest[s][c] => Content(s)[c] # digest[s][c])'
    BY <1>1, <2>2, <2>3 DEF Content
  <2>. QED  BY <1>1, <1>3, <2>2, <2>4, <2>5
<1>. QED  BY <1>2, <1>3

LEMMA WritersIInv == IInv /\ Writers => IInv'
<1>. SUFFICES ASSUME IInv, Writers PROVE IInv'
  OBVIOUS
<1>. PICK s \in Captures : Edit(s)
  BY DEF Writers
<1>1. UNCHANGED <<turn, next, target, strings, tally, rows, last>>
  BY DEF Writers, diffVars, snapshotVars
<1>2. ReaderInv /\ turn \in Captures
  BY TurnTypes
<1>3. UNCHANGED <<digest, pc, file, rfd, rpos, rsum>> /\ ReaderInv'
  BY <1>2, EditOfOne
<1>4. /\ Changed' = Changed
      /\ \A u, n : TextsUpTo(u, n)' = TextsUpTo(u, n) /\ TallyUpTo(u, n)' = TallyUpTo(u, n)
      /\ \A u : HeapBytes(u)' = HeapBytes(u)
      /\ \A u : (Whole(u)' <=> Whole(u)) /\ (Held(u)' <=> Held(u))
  <2>1. Changed' = Changed
    BY <1>1 DEF Changed, Only
  <2>2. \A u : HeapBytes(u)' = HeapBytes(u)
    BY <1>3 DEF HeapBytes
  <2>3. \A u, n : TextsUpTo(u, n)' = TextsUpTo(u, n) /\ TallyUpTo(u, n)' = TallyUpTo(u, n)
    BY <1>3, <2>2 DEF TextsUpTo, TallyUpTo
  <2>4. \A u : (Whole(u)' <=> Whole(u)) /\ (Held(u)' <=> Held(u))
    BY <1>1, <1>3, <2>2, <2>3 DEF Whole, Held
  <2>. QED  BY <2>1, <2>2, <2>3, <2>4
<1>5. TypeOK' /\ ReaderBound'
  <2>1. ReaderTypeOK' /\ ReaderBound'
    BY <1>3 DEF ReaderInv
  <2>2. next' \in 0 .. HeapBytes(turn)'
    BY <1>1, <1>3 DEF IInv, TypeOK, HeapBytes
  <2>. QED  BY <1>1, <1>3, <2>1, <2>2 DEF IInv, TypeOK
<1>6. \A t \in Captures : Lost(t) => Lost(t)'
  <2>1. ASSUME NEW t \in Captures, NEW c \in 1 .. HeapBytes(t), Content(t)[c] # digest[t][c]
        PROVE  Lost(t)'
    <3>1. (Content(t)[c] # digest[t][c])'
      BY <1>2, <2>1, EditOfOne
    <3>2. HeapBytes(t)' = HeapBytes(t)
      BY <1>4
    <3>. QED  BY <2>1, <3>1, <3>2 DEF Lost
  <2>. QED  BY <2>1 DEF Lost
<1>7. pc \in Hashing /\ WillDiffer(turn) => WillDiffer(turn)'
  <2>1. ASSUME pc \in Hashing, NEW c \in 1 .. HeapBytes(turn), Differs(turn, c)
        PROVE  WillDiffer(turn)'
    <3>1. rfd \in 1 .. clock[turn] /\ store[turn][rfd][c] # digest[turn][c]
      BY <2>1 DEF IInv, FdInv, Differs
    <3>2. store'[turn][rfd][c] # digest'[turn][c]
      BY <1>2, <1>3, <3>1, EditOfOne
    <3>3. Differs(turn, c)'
      BY <1>1, <1>3, <2>1, <3>2 DEF Differs
    <3>4. HeapBytes(turn)' = HeapBytes(turn)
      BY <1>1, <1>3 DEF HeapBytes
    <3>. QED  BY <3>3, <3>4 DEF WillDiffer
  <2>. QED  BY <2>1 DEF WillDiffer
<1>8. FdInv'
  <2>1. 1 .. clock[turn] \subseteq 1 .. clock'[turn]
    BY <1>2, EditOfOne
  <2>2. ASSUME pc \in Reading, NEW c \in 1 .. HeapBytes(turn),
               store'[turn][file[turn]][c] # digest[turn][c]
        PROVE  (Content(turn)[c] # digest[turn][c])'
    <3>1. /\ file[turn] \in 1 .. clock[turn]
          /\ store[turn][file[turn]][c] # digest[turn][c] => Content(turn)[c] # digest[turn][c]
      BY <2>2 DEF IInv, FdInv
    <3>2. CASE Content(turn)[c] # digest[turn][c]
      <4>1. (Content(turn)[c])' # digest'[turn][c]
        <5>1. \A t \in Captures : t = turn =>
                (Content(t)[c] # digest[t][c] => (Content(t)[c] # digest[t][c])')
          BY <2>2, EditOfOne, <1>2
        <5>. QED  BY <1>1, <1>2, <3>2, <5>1 DEF Content
      <4>. QED  BY <1>1, <1>3, <4>1
    <3>3. CASE Content(turn)[c] = digest[turn][c]
      <4>1. store[turn][file[turn]][c] = digest[turn][c]
        BY <3>1, <3>3
      <4>2. \A t \in Captures, f \in 1 .. clock[turn] : t = turn /\ f = file[turn] =>
              \/ store[t][f][c] # digest[t][c] \/ Content(t)[c] # digest[t][c]
              \/ (store'[t][f][c] # digest'[t][c] => store'[t][path'[t]][c] # digest'[t][c])
        BY <2>2, EditOfOne, <1>2 DEF Content
      <4>. QED  BY <1>1, <1>2, <1>3, <2>2, <3>1, <3>3, <4>1, <4>2 DEF Content
    <3>. QED  BY <3>2, <3>3
  <2>3. HeapBytes(turn)' = HeapBytes(turn)
    BY <1>1, <1>3 DEF HeapBytes
  <2>. QED  BY <1>1, <1>3, <2>1, <2>2, <2>3 DEF IInv, FdInv
<1>9. PassInv'
  BY <1>1, <1>3, <1>4 DEF IInv, PassInv, HeapBytes
<1>10. Lost(turn) => Lost(turn)'
  <2>1. \A t \in Captures : t = turn => (Lost(t) => Lost(t)')
    BY <1>6
  <2>2. Lost(turn)' <=> \E c \in 1 .. Size(digest'[turn]) : store'[turn][path'[turn]][c] # digest'[turn][c]
    BY <1>1 DEF Lost, Content, HeapBytes
  <2>. QED  BY <1>2, <2>1, <2>2 DEF Lost, Content, HeapBytes
<1>11. SnapInv'
  <2>1. HeapBytes(turn)' = HeapBytes(turn) /\ (Whole(turn)' <=> Whole(turn))
    BY <1>1, <1>3, <1>4 DEF HeapBytes, Whole, TextsUpTo, TallyUpTo
  <2>2. /\ \A n : TextsUpTo(turn, n)' = TextsUpTo(turn, n)
        /\ \A n : TallyUpTo(turn, n)' = TallyUpTo(turn, n)
    BY <1>1, <1>3 DEF TextsUpTo, TallyUpTo, HeapBytes
  <2>. QED  BY <1>1, <1>3, <1>7, <1>10, <2>1, <2>2 DEF IInv, SnapInv, Hashing
<1>12. LastInv'
  <2>1. Held(turn)' <=> Held(turn)
    BY <1>1, <1>3 DEF Held, HeapBytes
  <2>2. /\ \A u \in Captures : Held(u) => Held(u)'
        /\ Lost("after") => Lost("after")'
    BY <1>4, <1>6, CorpusAssumption
  <2>3. Held("before") => Held("before")'
    BY <1>4
  <2>4. Held("after") => Held("after")'
    BY <1>4
  <2>. QED  BY <1>1, <1>3, <1>7, <1>10, <2>1, <2>2, <2>3, <2>4 DEF IInv, LastInv, Hashing
<1>. QED  BY <1>5, <1>8, <1>9, <1>11, <1>12 DEF IInv

LEMMA NextIInv == IInv /\ [Next]_vars => IInv'
<1>. SUFFICES ASSUME IInv, [Next]_vars PROVE IInv'
  OBVIOUS
<1>1. CASE OpenReader \/ RecheckSnapshot \/ RecheckBoth
  BY <1>1, HashOpenIInv, HashChunkIInv, VerdictIInv DEF OpenReader, RecheckSnapshot, RecheckBoth
<1>2. CASE Command
  BY <1>1, <1>2, StringIInv, CensusIInv, CapturedIInv, RowsIInv, EndIInv DEF Command
<1>3. CASE Writers
  BY <1>3, WritersIInv
<1>4. CASE UNCHANGED vars
  <2>1. UNCHANGED <<captureVars, pc, file, hashVars, diffVars, turn>>
    BY <1>4 DEF vars, diffVars
  <2>2. TypeOK' /\ ReaderBound'
    BY <2>1, SameViews DEF IInv, TypeOK, ReaderTypeOK, ReaderBound, PCs, diffVars, snapshotVars,
                           captureVars, hashVars
  <2>3. FdInv'
    BY <2>1, SameViews DEF IInv, FdInv, Content, captureVars, hashVars
  <2>4. PassInv'
    BY <2>1, SameViews DEF IInv, PassInv, diffVars, snapshotVars
  <2>5. WillDiffer(turn)' <=> WillDiffer(turn)
    BY <2>1 DEF WillDiffer, Differs, HeapBytes, captureVars, hashVars
  <2>6. SnapInv' /\ LastInv'
    BY <2>1, <2>5, SameViews DEF IInv, SnapInv, LastInv, diffVars, snapshotVars, captureVars
  <2>. QED  BY <2>2, <2>3, <2>4, <2>6 DEF IInv
<1>. QED  BY <1>2, <1>3, <1>4 DEF Next

LEMMA DiffIInv == Spec => []IInv
BY InitIInv, NextIInv, PTL DEF Spec

(* Positions, limits and descriptors stay in range (corpus.rs: snapshot,   *)
(* diff_captures).                                                         *)
THEOREM DiffTypes == Spec => []TypeOK
<1>1. IInv => TypeOK
  BY DEF IInv
<1>. QED  BY <1>1, DiffIInv, PTL

(* A completed diff is the difference of the contents its digests name, and *)
(* its censuses are theirs (corpus.rs: snapshot, diff_captures).           *)
THEOREM DiffIsOfDigests == Spec => []DiffOfDigests
<1>1. \A s : TextsUpTo(s, HeapBytes(s)) = StringsOf(s, digest[s])
  BY DEF TextsUpTo, StringsOf, HeapBytes
<1>2. IInv => DiffOfDigests
  <2>1. SUFFICES ASSUME IInv, pc = "complete" PROVE DiffOfDigests
    BY DEF DiffOfDigests
  <2>2. /\ \A s \in Captures : Whole(s)
        /\ rows = Changed
    BY <2>1 DEF IInv, PassInv
  <2>3. /\ strings["before"] = StringsOf("before", digest["before"])
        /\ strings["after"] = StringsOf("after", digest["after"])
    BY <1>1, <2>2, CorpusAssumption DEF Whole
  <2>. QED  BY <2>2, <2>3 DEF DiffOfDigests, Changed, Only, Whole, TallyUpTo
<1>. QED  BY <1>2, DiffIInv, PTL

(* After the last row both captures still were, at one instant, what the   *)
(* digests name (corpus.rs: diff_captures).                                *)
THEOREM DiffStillTheDigests == Spec => []BothStillTheDigests
<1>1. IInv => BothStillTheDigests
  BY DEF IInv, LastInv, Held, BothStillTheDigests
<1>. QED  BY <1>1, DiffIInv, PTL
================================================================================
