-------------------------- MODULE ReaderCommandsProofs --------------------------
(* census, dump and carve: their types, how far what they print may be     *)
(* from the indexed capture, which files carve names, and that census is a *)
(* checksummed report, for every length of the capture, any number of      *)
(* edits and every index.                                                  *)
EXTENDS ReaderCommands, CaptureContentProofs

Passing  == {"object", "body", "extract", "copy"}
Checking == {"recheck", "reopen", "rehash"}
Reading  == {"dir"} \cup Passing \cup Checking
Reads    == Reading \cup {"complete"}

(* The descriptors in use are of files that exist, and the rehash covers   *)
(* the chunks up to `rpos'.                                                *)
FdInv ==
  /\ pc \in {"verify", "rehash"} =>
       rfd \in 1 .. clock[Heap] /\ \A c \in Chunks : c > rpos => rsum[c] = Absent
  /\ pc \in Reads => file[Heap] \in 1 .. clock[Heap]

(* The control points of each command.                                     *)
PassInv ==
  /\ objects \in Indexes
  /\ pc \in {"body", "extract", "copy"} => next < Len(objects)
  /\ pc \in {"dir", "extract", "copy"} => command = "carve"
  /\ pc \in Checking => command = "census"
  /\ pc \in {"open", "verify", "reads", "dir"} => lines = {} /\ facts = {} /\ next = 0
  /\ pc \in Passing /\ command = "carve" => dir = "ours"
  /\ pc \in {"open", "verify", "reads"} => snapshot = Nothing
  /\ pc = "open" => opened = 0

(* A version of a chunk that a command may read: the indexed one, or one   *)
(* made since the command started to hash the file.                        *)
Allowed(c, v) == v \in {Absent, digest[Heap][c]} \/ v > opened

(* The hash of the file it has open will not be that of the index.         *)
Found(c) ==
  /\ store[Heap][rfd][c] # digest[Heap][c]
  /\ c <= rpos => rsum[c] # digest[Heap][c]

(* What has changed before Reader::open is found by it; what was changed   *)
(* since is recent.                                                        *)
DriftInv ==
  /\ opened <= clock[Heap]
  /\ pc = "verify" =>
       \A c \in 1 .. HeapBytes(Heap) : Allowed(c, Content(Heap)[c]) \/ Found(c)
  /\ pc \in {"reads"} \cup Reads =>
       \A c \in 1 .. HeapBytes(Heap) : Allowed(c, Content(Heap)[c])
  /\ pc \in Reads =>
       \A c \in 1 .. HeapBytes(Heap) : Allowed(c, store[Heap][file[Heap]][c])
  /\ \A fact \in facts :
       /\ fact.chunk \in 1 .. HeapBytes(Heap)
       /\ fact.ver # Absent
       /\ Allowed(fact.chunk, fact.ver)

(* A file that carve has named is left alone.                              *)
LineInv ==
  \A i \in lines : i <= next /\ dir = "ours" /\ parts[i] = Length(objects[i])

(* A chunk of which something read, or the instant reported on, is not as  *)
(* indexed.                                                                *)
Spoiled(c) ==
  \/ snapshot[c] # digest[Heap][c]
  \/ \E fact \in facts : fact.chunk = c /\ fact.ver # digest[Heap][c]

(* ... is one that the recheck of census will find.                        *)
SpoilInv ==
  command = "census" =>
    /\ pc \in Passing \cup {"recheck", "reopen"} =>
         \A c \in 1 .. HeapBytes(Heap) :
           Spoiled(c) \/ store[Heap][file[Heap]][c] # digest[Heap][c] =>
             Content(Heap)[c] # digest[Heap][c]
    /\ pc = "rehash" => \A c \in 1 .. HeapBytes(Heap) : Spoiled(c) => Found(c)
    /\ pc = "complete" => \A c \in 1 .. HeapBytes(Heap) : ~ Spoiled(c)

IInv ==
  /\ TypeOK
  /\ ReaderBound
  /\ FdInv
  /\ PassInv
  /\ DriftInv
  /\ LineInv
  /\ SpoilInv

(* Every capture starts as its index has it.                               *)
LEMMA ReaderInitInv == ReaderInit => ReaderInv
<1>. SUFFICES ASSUME ReaderInit PROVE ReaderInv
  OBVIOUS
<1>1. ASSUME NEW s \in Captures
      PROVE  /\ WellFormed(path[s], store[s], clock[s])
             /\ \E n \in Chunks : digest[s] = Original(n)
  <2>1. PICK n \in Chunks : digest[s] = Original(n)
    BY DEF ReaderInit
  <2>. QED  BY <1>1, <2>1, FirstFile DEF ReaderInit, Nothing
<1>2. Nothing \in Contents /\ \A n \in Chunks : Original(n) \in Contents
  BY CaptureFileAssumption DEF Nothing, Original, Contents, Versions, Absent, Chunks
<1>3. ReaderTypeOK
  BY <1>2, CaptureFileAssumption DEF ReaderInit, ReaderTypeOK, NoFile, Files
<1>. QED  BY <1>1, <1>3 DEF ReaderInv, ReaderBound

(* The chunks an index covers were all there when it was built.            *)
LEMMA Indexed ==
  ASSUME ReaderInv, NEW s \in Captures
  PROVE  /\ HeapBytes(s) \in Chunks
         /\ \A c \in 1 .. HeapBytes(s) : c \in Chunks /\ digest[s][c] = 1
<1>1. PICK n \in Chunks : digest[s] = Original(n)
  BY DEF ReaderInv, ReaderBound
<1>. QED  BY <1>1, SizeOriginal DEF HeapBytes

(* One change by a writer of s.                                            *)
LEMMA ReaderEdit ==
  ASSUME ReaderInv, NEW s \in Captures, Edit(s)
  PROVE  /\ clock[s] \in Nat /\ clock'[s] = clock[s] + 1
         /\ path'[s] \in {path[s], clock[s] + 1}
         /\ \A f \in Files : f # path'[s] => store'[s][f] = store[s][f]
         /\ ChangedBy(store[s][path[s]], store'[s][path'[s]], clock[s] + 1)
         /\ UNCHANGED <<digest, pc, file, rfd, rpos, rsum>>
         /\ ReaderInv'
<1>1. /\ path \in [Captures -> Files] /\ clock \in [Captures -> Files]
      /\ store \in [Captures -> [Files -> Contents]]
      /\ WellFormed(path[s], store[s], clock[s])
      /\ clock[s] \in Nat /\ clock[s] <= MaxEdits
  BY DEF ReaderInv, ReaderTypeOK, ReaderBound, Edit, Files
<1>2. /\ clock' = [clock EXCEPT ![s] = clock[s] + 1]
      /\ UNCHANGED <<digest, pc, file, rfd, rpos, rsum>>
  BY DEF Edit, hashVars
<1>3. \E st2, p2 :
        /\ path' = [path EXCEPT ![s] = p2] /\ store' = [store EXCEPT ![s] = st2]
        /\ Writes(path[s], store[s], clock[s], p2, st2)
  <2>1. CASE Rewrite(s)
    <3>1. PICK new \in InPlace(Content(s), clock[s] + 1) :
            store' = [store EXCEPT ![s] = [store[s] EXCEPT ![path[s]] = new]]
      BY <1>1, <2>1 DEF Rewrite
    <3>2. path' = [path EXCEPT ![s] = path[s]]
      BY <1>1, <2>1 DEF Rewrite
    <3>. QED  BY <3>1, <3>2 DEF Writes, Content
  <2>2. CASE Replace(s)
    <3>1. PICK new \in Copies(Content(s), clock[s] + 1) :
            store' = [store EXCEPT ![s] = [store[s] EXCEPT ![clock[s] + 1] = new]]
      BY <1>1, <2>2 DEF Replace
    <3>2. path' = [path EXCEPT ![s] = clock[s] + 1]
      BY <2>2 DEF Replace
    <3>. QED  BY <3>1, <3>2 DEF Writes, Content
  <2>. QED  BY <2>1, <2>2 DEF Edit
<1>4. PICK st2, p2 :
        /\ path' = [path EXCEPT ![s] = p2] /\ store' = [store EXCEPT ![s] = st2]
        /\ Writes(path[s], store[s], clock[s], p2, st2)
  BY <1>3
<1>5. /\ clock[s] + 1 \in Files
      /\ WellFormed(p2, st2, clock[s] + 1)
      /\ p2 \in {path[s], clock[s] + 1}
      /\ \A f \in Files : f # p2 => st2[f] = store[s][f]
      /\ ChangedBy(store[s][path[s]], st2[p2], clock[s] + 1)
  BY <1>1, <1>4, WriteChanges
<1>6. path'[s] = p2 /\ store'[s] = st2 /\ clock'[s] = clock[s] + 1
  BY <1>1, <1>2, <1>4
<1>7. ReaderTypeOK'
  BY <1>1, <1>2, <1>4, <1>5 DEF ReaderInv, ReaderTypeOK, WellFormed
<1>8. ASSUME NEW t \in Captures
      PROVE  WellFormed(path'[t], store'[t], clock'[t])
  <2>1. CASE t = s
    BY <1>5, <1>6, <2>1
  <2>2. CASE t # s
    BY <1>1, <1>2, <1>4, <2>2 DEF ReaderInv, ReaderBound
  <2>. QED  BY <2>1, <2>2
<1>9. ReaderBound'
  BY <1>2, <1>8 DEF ReaderInv, ReaderBound
<1>. QED  BY <1>1, <1>2, <1>5, <1>6, <1>7, <1>9 DEF ReaderInv

(* An index is a sequence of objects.                                      *)
LEMMA IndexTypes ==
  ASSUME NEW s \in Indexes
  PROVE  /\ Len(s) \in 0 .. MaxObjects
         /\ \A i \in 1 .. Len(s) : s[i] \in Objects /\ s[i].last <= HeapBytes(Heap)
<1>1. PICK n \in 0 .. MaxObjects : s \in [1 .. n -> Objects]
  BY DEF Indexes
<1>2. n \in Nat /\ Len(s) = n
  BY <1>1, ReaderAssumption
<1>. QED  BY <1>1, <1>2 DEF Indexes

(* The fields of an object are in one chunk or two, after its header.      *)
LEMMA ObjectTypes ==
  ASSUME NEW o \in Objects
  PROVE  /\ o.head \in Chunks /\ o.first \in Chunks /\ o.last \in Chunks
         /\ Length(o) \in 1 .. 2
BY CaptureFileAssumption DEF Objects, Length, Chunks

LEMMA InitIInv == Init => IInv
<1>. SUFFICES ASSUME Init PROVE IInv
  OBVIOUS
<1>. USE CaptureFileAssumption, ReaderAssumption DEF Init
<1>1. ReaderInv
  BY ReaderInitInv
<1>2. Len(objects) \in 0 .. MaxObjects
  BY IndexTypes
<1>3. Nothing \in Contents
  BY DEF Nothing, Original, Contents, Versions, Absent, Chunks
<1>4. TypeOK
  BY <1>1, <1>2, <1>3 DEF TypeOK, ReaderInv, Commands, PCs, Facts
<1>5. FdInv /\ PassInv /\ LineInv /\ SpoilInv
  BY <1>2 DEF FdInv, PassInv, LineInv, SpoilInv, Passing, Checking, Reading, Reads
<1>6. DriftInv
  BY <1>1 DEF DriftInv, ReaderInv, ReaderTypeOK, Reading, Passing, Checking, Reads, Files
<1>. QED  BY <1>1, <1>4, <1>5, <1>6 DEF IInv, ReaderInv

(* The index is read once.                                                 *)
LEMMA SameIndexes ==
  UNCHANGED digest => HeapBytes(Heap)' = HeapBytes(Heap) /\ Indexes' = Indexes
BY DEF HeapBytes, Indexes

(* -- Reader::open ------------------------------------------------------------ *)

LEMMA HashIndexedIInv == IInv /\ HashIndexed => IInv'
<1>. SUFFICES ASSUME IInv, HashIndexed PROVE IInv'
  OBVIOUS
<1>. USE CaptureFileAssumption, ReaderAssumption
     DEF HashIndexed, IInv, captureVars, resultVars
<1>0. /\ Heap \in Captures
      /\ digest[Heap] \in Contents
      /\ ReaderInv
      /\ path[Heap] \in Files /\ clock[Heap] \in Files
      /\ store[Heap] \in [Files -> Contents]
  BY DEF TypeOK, ReaderTypeOK, ReaderInv
<1>1. CASE HashOpen(Heap, "open", "verify") /\ opened' = clock[Heap]
  <2>. USE <1>1 DEF HashOpen
  <2>1. TypeOK' /\ ReaderBound'
    <3>1. Nothing \in Contents /\ 0 \in 0 .. MaxChunks /\ clock[Heap] \in 0 .. MaxEdits + 1
      BY <1>0 DEF Nothing, Original, Contents, Versions, Absent, Chunks, Files
    <3>. QED  BY <1>0, <3>1 DEF TypeOK, ReaderTypeOK, PCs, ReaderBound
  <2>2. FdInv'
    BY <1>0 DEF FdInv, ReaderBound, WellFormed, Files, Nothing, Original, Absent, Chunks,
                Reads, Reading, Passing, Checking
  <2>3. PassInv' /\ LineInv' /\ SpoilInv'
    BY SameIndexes DEF PassInv, LineInv, SpoilInv, Passing, Checking
  <2>4. DriftInv'
    <3>1. facts = {} /\ opened' = clock[Heap] /\ clock' = clock /\ clock[Heap] \in Nat
      BY <1>0 DEF PassInv, Files
    <3>2. ASSUME NEW c \in 1 .. HeapBytes(Heap)
          PROVE  store[Heap][path[Heap]][c] = digest[Heap][c]
                   \/ (store[Heap][path[Heap]][c] # digest[Heap][c] /\ ~ (c <= 0))
      OBVIOUS
    <3>3. rfd' = path[Heap] /\ rpos' = 0 /\ pc' = "verify"
      OBVIOUS
    <3>. QED  BY <3>1, <3>2, <3>3
              DEF DriftInv, Allowed, Found, HeapBytes, Content, Reads, Reading, Passing, Checking
  <2>. QED  BY <2>1, <2>2, <2>3, <2>4
<1>2. CASE HashChunk(Heap, "verify") /\ UNCHANGED opened
  <2>. USE <1>2 DEF HashChunk
  <2>1. /\ rfd \in Files /\ rpos + 1 \in Chunks /\ rpos \in Nat
        /\ store[Heap][rfd] \in Contents
        /\ rsum \in Contents
    <3>1. rpos \in 0 .. MaxChunks /\ rpos # MaxChunks
      BY DEF EndOfFile, TypeOK, ReaderTypeOK
    <3>2. rfd \in Files
      BY <1>0 DEF FdInv, Files
    <3>. QED  BY <1>0, <3>1, <3>2 DEF Chunks, TypeOK, ReaderTypeOK
  <2>2. TypeOK' /\ ReaderBound'
    BY <2>1 DEF TypeOK, ReaderTypeOK, Contents, Chunks, ReaderBound
  <2>3. FdInv'
    BY <2>1 DEF FdInv, Contents, Chunks, Reads, Reading, Passing, Checking
  <2>4. PassInv' /\ LineInv' /\ SpoilInv'
    BY SameIndexes DEF PassInv, LineInv, SpoilInv, Passing, Checking
  <2>5. DriftInv'
    <3>1. \A c \in 1 .. HeapBytes(Heap) : Found(c) => Found(c)'
      BY <2>1, <1>0, Indexed DEF Found, Contents, Chunks
    <3>. QED  BY <3>1 DEF DriftInv, Allowed, HeapBytes, Content, Reads, Reading, Passing, Checking
  <2>. QED  BY <2>2, <2>3, <2>4, <2>5
<1>3. CASE HashVerdict(Heap, "verify", "reads") /\ UNCHANGED opened
  <2>. USE <1>3 DEF HashVerdict, hashVars
  <2>1. TypeOK' /\ ReaderBound'
    BY DEF TypeOK, ReaderTypeOK, PCs, ReaderBound
  <2>2. FdInv' /\ PassInv' /\ LineInv' /\ SpoilInv'
    BY SameIndexes DEF FdInv, PassInv, LineInv, SpoilInv, Reads, Reading, Passing, Checking
  <2>3. ASSUME rsum = digest[Heap], NEW c \in 1 .. HeapBytes(Heap)
        PROVE  ~ Found(c)
    <3>1. c \in Chunks /\ digest[Heap][c] # Absent /\ rpos \in Nat /\ c \in Nat
      BY <1>0, Indexed DEF Absent, TypeOK, ReaderTypeOK, Chunks
    <3>2. c <= rpos
      BY <2>3, <3>1 DEF FdInv
    <3>. QED  BY <2>3, <3>2 DEF Found
  <2>4. DriftInv'
    BY <2>3 DEF DriftInv, Allowed, HeapBytes, Content, Reads, Reading, Passing, Checking
  <2>. QED  BY <2>1, <2>2, <2>4
<1>. QED  BY <1>1, <1>2, <1>3

LEMMA OpenHeapIInv == IInv /\ OpenHeap => IInv'
<1>. SUFFICES ASSUME IInv, OpenHeap PROVE IInv'
  OBVIOUS
<1>. USE CaptureFileAssumption, ReaderAssumption
     DEF OpenHeap, OpenReads, IInv, captureVars, hashVars, resultVars
<1>1. /\ path[Heap] \in Files /\ clock[Heap] \in Files /\ path[Heap] <= clock[Heap]
      /\ Content(Heap) \in Contents /\ Heap \in Captures
      /\ file'[Heap] = path[Heap]
      /\ file' \in [Captures -> Files \cup {NoFile}]
  BY DEF TypeOK, ReaderTypeOK, ReaderBound, WellFormed, Content
<1>2. TypeOK' /\ ReaderBound'
  BY <1>1 DEF TypeOK, ReaderTypeOK, PCs, ReaderBound
<1>3. FdInv' /\ LineInv'
  BY <1>1 DEF FdInv, LineInv, Files, Reads, Reading, Passing, Checking
<1>4. PassInv'
  BY SameIndexes DEF PassInv, Passing, Checking
<1>5. DriftInv'
  BY <1>1 DEF DriftInv, Allowed, HeapBytes, Content, Reads, Reading, Passing, Checking
<1>6. SpoilInv'
  BY <1>1 DEF SpoilInv, Spoiled, PassInv, HeapBytes, Content, Passing
<1>. QED  BY <1>2, <1>3, <1>4, <1>5, <1>6

(* -- steps that read nothing -------------------------------------------------- *)

LEMMA MoveIInv ==
  IInv /\ (MakeDir \/ ShowDone \/ Extracted \/ Collected \/ Fail) => IInv'
<1>. SUFFICES ASSUME IInv, MakeDir \/ ShowDone \/ Extracted \/ Collected \/ Fail
              PROVE  IInv'
  OBVIOUS
<1>. USE CaptureFileAssumption, ReaderAssumption
     DEF IInv, captureVars, hashVars, resultVars, historyVars, commandVars
<1>1. /\ UNCHANGED <<captureVars, file, hashVars, command, objects, facts, parts, historyVars>>
      /\ \/ /\ pc = "dir" /\ dir' = "ours" /\ pc' = "object" /\ UNCHANGED <<next, lines>>
         \/ /\ pc = "body" /\ command = "dump" /\ pc' = "object" /\ next' = next + 1
            /\ UNCHANGED <<dir, lines>>
         \/ /\ pc = "copy" /\ pc' = "object" /\ next' = next + 1 /\ UNCHANGED dir
            /\ lines' = lines \cup {next + 1} /\ parts[next + 1] = Length(objects[next + 1])
         \/ /\ pc = "object" /\ command = "census" /\ pc' = "recheck"
            /\ UNCHANGED <<next, dir, lines>>
         \/ /\ pc = "object" /\ command # "census" /\ pc' = "complete"
            /\ UNCHANGED <<next, dir, lines>>
         \/ pc' = "failed" /\ UNCHANGED <<next, dir, lines>>
  BY DEF MakeDir, ShowDone, NextObject, Extracted, CopiedAll, Copied, Object, Collected, Fail, Abort
<1>2. Len(objects) \in Nat /\ next \in 0 .. Len(objects)
  BY IndexTypes DEF PassInv, TypeOK
<1>3. next' \in 0 .. Len(objects) /\ lines' \subseteq 1 .. next' /\ dir' \in {"none", "other", "ours"}
  <2>1. next' = next \/ (next' = next + 1 /\ next < Len(objects))
    BY <1>1 DEF PassInv
  <2>2. next' \in 0 .. Len(objects) /\ next <= next'
    BY <1>2, <2>1
  <2>3. lines' \subseteq 1 .. next'
    <3>1. lines' = lines \/ (lines' = lines \cup {next + 1} /\ next' = next + 1)
      BY <1>1
    <3>2. lines \subseteq 1 .. next
      BY DEF TypeOK
    <3>3. next \in Nat /\ next' \in Nat /\ 1 .. next \subseteq 1 .. next'
      BY <1>2, <2>2
    <3>4. CASE lines' = lines
      BY <3>2, <3>3, <3>4
    <3>5. CASE lines' = lines \cup {next + 1} /\ next' = next + 1
      <4>1. next + 1 \in 1 .. next'
        BY <3>3, <3>5
      <4>. QED  BY <3>2, <3>3, <3>5, <4>1
    <3>. QED  BY <3>1, <3>4, <3>5
  <2>. QED  BY <1>1, <2>2, <2>3 DEF TypeOK
<1>4. TypeOK' /\ ReaderBound'
  BY <1>1, <1>3 DEF TypeOK, ReaderTypeOK, PCs, ReaderBound
<1>5. FdInv' /\ DriftInv'
  BY <1>1 DEF FdInv, DriftInv, Allowed, Found, HeapBytes, Content, Reads, Reading, Passing, Checking
<1>6. PassInv'
  BY <1>1, SameIndexes DEF PassInv, Passing, Checking
<1>7. LineInv'
  <2>1. CASE pc = "copy" /\ lines' = lines \cup {next + 1} /\ next' = next + 1
             /\ parts[next + 1] = Length(objects[next + 1]) /\ UNCHANGED dir
    <3>1. dir = "ours"
      BY <2>1 DEF PassInv, Passing
    <3>2. \A i \in lines : i \in Nat
      BY <1>2 DEF TypeOK
    <3>. QED  BY <1>1, <1>2, <2>1, <3>1, <3>2 DEF LineInv
  <2>2. CASE lines' = lines /\ next' \in {next, next + 1}
    <3>1. lines # {} => dir' = dir
      BY <1>1 DEF PassInv
    <3>2. \A i \in lines : i \in Nat
      BY <1>2 DEF TypeOK
    <3>. QED  BY <1>1, <1>2, <2>2, <3>1, <3>2 DEF LineInv
  <2>. QED  BY <1>1, <2>1, <2>2
<1>8. SpoilInv'
  BY <1>1 DEF SpoilInv, Spoiled, Found, PassInv, HeapBytes, Content, Passing, Checking
<1>. QED  BY <1>4, <1>5, <1>6, <1>7, <1>8

(* -- reads -------------------------------------------------------------------- *)

(* What is read is of the file that Reader::open opened last.              *)
LEMMA FetchFacts ==
  ASSUME IInv, pc \in Passing, NEW span, Fetch(span), UNCHANGED <<captureVars, file, opened>>
  PROVE  /\ facts' \subseteq Facts
         /\ \A fact \in facts' : fact \in facts \/
              /\ fact.chunk \in 1 .. HeapBytes(Heap)
              /\ fact.ver = store[Heap][file[Heap]][fact.chunk]
              /\ fact.ver # Absent
              /\ Allowed(fact.chunk, fact.ver)
<1>. DEFINE Got(c) == [chunk |-> c, ver |-> Read(Heap, c)]
<1>1. /\ store[Heap][file[Heap]] \in Contents
      /\ HeapBytes(Heap) \in Nat /\ 1 .. HeapBytes(Heap) \subseteq Chunks
  <2>1. Heap \in Captures /\ ReaderInv /\ clock[Heap] \in Files
    BY ReaderAssumption DEF IInv, TypeOK, ReaderTypeOK, ReaderInv
  <2>2. file[Heap] \in Files
    BY <2>1, CaptureFileAssumption DEF IInv, FdInv, Reads, Reading, Files
  <2>. QED  BY <2>1, <2>2, Indexed, CaptureFileAssumption DEF ReaderInv, ReaderTypeOK, Chunks
<1>2. ASSUME NEW c \in span
      PROVE  /\ c \in 1 .. HeapBytes(Heap) /\ Got(c) \in Facts
             /\ Read(Heap, c) # Absent
             /\ Allowed(c, Read(Heap, c))
  <2>1. /\ c \in 1 .. HeapBytes(Heap) /\ Read(Heap, c) = store[Heap][file[Heap]][c]
        /\ Read(Heap, c) # Absent
    BY DEF Fetch, CanRead, Read
  <2>2. Read(Heap, c) \in Versions
    BY <1>1, <2>1 DEF Contents
  <2>3. Allowed(c, Read(Heap, c))
    BY <2>1 DEF IInv, DriftInv, Reads, Reading
  <2>. QED  BY <1>1, <2>1, <2>2, <2>3 DEF Facts
<1>3. facts' = facts \cup {Got(c) : c \in span}
  BY DEF Fetch
<1>4. facts' \subseteq Facts
  <2>. HIDE DEF Got
  <2>. QED  BY <1>2, <1>3 DEF IInv, TypeOK
<1>5. ASSUME NEW fact \in facts', fact \notin facts
      PROVE  /\ fact.chunk \in 1 .. HeapBytes(Heap)
             /\ fact.ver = store[Heap][file[Heap]][fact.chunk]
             /\ fact.ver # Absent
             /\ Allowed(fact.chunk, fact.ver)
  <2>1. PICK c \in span : fact = Got(c)
    BY <1>3, <1>5
  <2>. QED  BY <1>2, <2>1 DEF Read
<1>. QED  BY <1>4, <1>5

LEMMA FetchIInv ==
  ASSUME IInv, pc \in Passing, pc' \in Passing,
         NEW span, Fetch(span),
         UNCHANGED <<captureVars, file, hashVars, command, objects, historyVars, dir, lines>>,
         next' \in {next, next + 1}, next' \in 0 .. Len(objects),
         pc' \in {"body", "extract", "copy"} => next' < Len(objects),
         pc' \in {"extract", "copy"} => command = "carve",
         parts' \in [1 .. MaxObjects -> 0 .. 2],
         \A i \in lines : parts'[i] = parts[i]
  PROVE  IInv'
<1>. USE CaptureFileAssumption, ReaderAssumption DEF IInv, captureVars, hashVars, historyVars
<1>1. /\ facts' \subseteq Facts
      /\ \A fact \in facts' : fact \in facts \/
           /\ fact.chunk \in 1 .. HeapBytes(Heap)
           /\ fact.ver = store[Heap][file[Heap]][fact.chunk]
           /\ fact.ver # Absent
           /\ Allowed(fact.chunk, fact.ver)
  BY FetchFacts
<1>2. Len(objects) \in Nat /\ next \in 0 .. Len(objects) /\ lines \subseteq 1 .. next
  BY IndexTypes DEF PassInv, TypeOK
<1>3. lines' \subseteq 1 .. next' /\ \A i \in lines : i \in Nat /\ i <= next'
  BY <1>2
<1>4. TypeOK' /\ ReaderBound'
  BY <1>1, <1>3 DEF TypeOK, ReaderTypeOK, PCs, Passing, ReaderBound
<1>5. FdInv'
  BY DEF FdInv, Reads, Reading, Passing, Checking
<1>6. PassInv'
  BY SameIndexes DEF PassInv, Passing, Checking
<1>7. DriftInv'
  BY <1>1 DEF DriftInv, Allowed, HeapBytes, Content, Reads, Reading, Passing, Checking
<1>8. LineInv'
  BY <1>3 DEF LineInv
<1>9. SpoilInv'
  <2>1. \A c \in 1 .. HeapBytes(Heap) :
          Spoiled(c)' => Spoiled(c) \/ store[Heap][file[Heap]][c] # digest[Heap][c]
    BY <1>1 DEF Spoiled
  <2>. QED  BY <2>1 DEF SpoilInv, HeapBytes, Content, Passing, Checking
<1>. QED  BY <1>4, <1>5, <1>6, <1>7, <1>8, <1>9

LEMMA ReadIInv ==
  IInv /\ (ValidateObject \/ Classify \/ ShowScalar \/ Sniff \/ StartCopy \/ CopyChunk) => IInv'
<1>. SUFFICES ASSUME IInv,
                     ValidateObject \/ Classify \/ ShowScalar \/ Sniff \/ StartCopy \/ CopyChunk
              PROVE  IInv'
  OBVIOUS
<1>1. /\ UNCHANGED <<captureVars, file, hashVars, command, objects, historyVars, dir, lines>>
      /\ \E span : Fetch(span)
  BY DEF ValidateObject, Classify, ShowScalar, Sniff, StartCopy, CopyChunk
<1>2. /\ Len(objects) \in Nat /\ Len(objects) <= MaxObjects /\ next \in 0 .. Len(objects)
      /\ lines \subseteq 1 .. next /\ parts \in [1 .. MaxObjects -> 0 .. 2]
      /\ pc \in {"body", "extract", "copy"} => next < Len(objects)
      /\ pc \in {"extract", "copy"} => command = "carve"
  BY IndexTypes, ReaderAssumption DEF IInv, PassInv, TypeOK
<1>3. /\ pc \in Passing /\ pc' \in Passing
      /\ next' = next \/ (next' = next + 1 /\ pc' = "object" /\ pc = "body")
      /\ pc' \in {"body", "extract", "copy"} =>
           pc \in {"body", "extract", "copy"} \/ next < Len(objects)
      /\ pc' \in {"extract", "copy"} => command = "carve"
  BY <1>2 DEF ValidateObject, Classify, ShowScalar, Sniff, StartCopy, CopyChunk, NextObject, Passing
<1>4. /\ next' \in {next, next + 1} /\ next' \in 0 .. Len(objects)
      /\ pc' \in {"body", "extract", "copy"} => next' < Len(objects)
  BY <1>2, <1>3
<1>5. parts' \in [1 .. MaxObjects -> 0 .. 2] /\ \A i \in lines : parts'[i] = parts[i]
  <2>1. CASE CopyChunk
    <3>1. next + 1 \in 1 .. Len(objects) /\ next + 1 \in 1 .. MaxObjects
      BY <1>2, <2>1, ReaderAssumption DEF CopyChunk
    <3>2. Length(objects[next + 1]) \in 1 .. 2
      BY <3>1, IndexTypes, ObjectTypes DEF IInv, PassInv
    <3>3. parts[next + 1] + 1 \in 0 .. 2
      BY <1>2, <2>1, <3>1, <3>2 DEF CopyChunk, Copied, Object
    <3>4. parts' = [parts EXCEPT ![next + 1] = parts[next + 1] + 1]
      BY <2>1 DEF CopyChunk
    <3>5. \A i \in lines : i # next + 1 /\ i \in 1 .. MaxObjects
      BY <1>2, ReaderAssumption
    <3>. QED  BY <1>2, <3>3, <3>4, <3>5
  <2>2. CASE ~ CopyChunk
    <3>1. parts' = parts
      BY <2>2 DEF ValidateObject, Classify, ShowScalar, Sniff, StartCopy
    <3>. QED  BY <1>2, <3>1
  <2>. QED  BY <2>1, <2>2
<1>. QED  BY <1>1, <1>3, <1>4, <1>5, FetchIInv

(* -- the recheck of census, and the writers ------------------------------------- *)

LEMMA RecheckIInv == IInv /\ Recheck => IInv'
<1>. SUFFICES ASSUME IInv, Recheck PROVE IInv'
  OBVIOUS
<1>. USE CaptureFileAssumption, ReaderAssumption
     DEF Recheck, IInv, captureVars, commandVars, resultVars, historyVars
<1>0. /\ Heap \in Captures /\ ReaderInv
      /\ path[Heap] \in Files /\ clock[Heap] \in Files
      /\ store[Heap] \in [Files -> Contents]
      /\ command = "census" \/ pc \notin Checking
  BY DEF TypeOK, ReaderTypeOK, ReaderInv, PassInv
<1>1. CASE RecheckSize(Heap, "recheck", "reopen")
  <2>. USE <1>1 DEF RecheckSize, hashVars
  <2>1. TypeOK' /\ ReaderBound' /\ LineInv'
    BY DEF TypeOK, ReaderTypeOK, PCs, ReaderBound, LineInv
  <2>2. FdInv' /\ PassInv' /\ DriftInv' /\ SpoilInv'
    BY SameIndexes DEF FdInv, PassInv, DriftInv, SpoilInv, Spoiled, Allowed, HeapBytes, Content,
                       Reads, Reading, Passing, Checking
  <2>. QED  BY <2>1, <2>2
<1>2. CASE HashOpen(Heap, "reopen", "rehash")
  <2>. USE <1>2 DEF HashOpen
  <2>1. TypeOK' /\ ReaderBound' /\ LineInv'
    <3>1. Nothing \in Contents /\ 0 \in 0 .. MaxChunks
      BY DEF Nothing, Original, Contents, Versions, Absent, Chunks
    <3>. QED  BY <1>0, <3>1 DEF TypeOK, ReaderTypeOK, PCs, ReaderBound, LineInv
  <2>2. FdInv'
    BY <1>0 DEF FdInv, ReaderBound, WellFormed, Files, Nothing, Original, Absent, Chunks,
                Reads, Reading, Passing, Checking
  <2>3. PassInv' /\ DriftInv'
    BY SameIndexes DEF PassInv, DriftInv, Allowed, HeapBytes, Content, Reads, Reading, Passing, Checking
  <2>4. SpoilInv'
    <3>1. rfd' = path[Heap] /\ rpos' = 0 /\ pc' = "rehash" /\ HeapBytes(Heap)' = HeapBytes(Heap)
      BY SameIndexes
    <3>2. \A c \in 1 .. HeapBytes(Heap) : Spoiled(c) => Content(Heap)[c] # digest[Heap][c]
      BY <1>0 DEF SpoilInv, Checking
    <3>. QED  BY <3>1, <3>2 DEF SpoilInv, Spoiled, Found, Content, Passing
  <2>. QED  BY <2>1, <2>2, <2>3, <2>4
<1>3. CASE HashChunk(Heap, "rehash")
  <2>. USE <1>3 DEF HashChunk
  <2>1. /\ rfd \in Files /\ rpos + 1 \in Chunks /\ rpos \in Nat
        /\ store[Heap][rfd] \in Contents
        /\ rsum \in Contents
    <3>1. rpos \in 0 .. MaxChunks /\ rpos # MaxChunks
      BY DEF EndOfFile, TypeOK, ReaderTypeOK
    <3>2. rfd \in Files
      BY <1>0 DEF FdInv, Files
    <3>. QED  BY <1>0, <3>1, <3>2 DEF Chunks, TypeOK, ReaderTypeOK
  <2>2. TypeOK' /\ ReaderBound' /\ LineInv'
    BY <2>1 DEF TypeOK, ReaderTypeOK, Contents, Chunks, ReaderBound, LineInv
  <2>3. FdInv'
    BY <2>1 DEF FdInv, Contents, Chunks, Reads, Reading, Passing, Checking
  <2>4. PassInv' /\ DriftInv'
    BY SameIndexes DEF PassInv, DriftInv, Allowed, HeapBytes, Content, Reads, Reading, Passing, Checking
  <2>5. SpoilInv'
    <3>1. \A c \in 1 .. HeapBytes(Heap) : Found(c) => Found(c)'
      BY <2>1, <1>0, Indexed DEF Found, Contents, Chunks
    <3>. QED  BY <3>1 DEF SpoilInv, Spoiled, HeapBytes, Passing
  <2>. QED  BY <2>2, <2>3, <2>4, <2>5
<1>4. CASE HashVerdict(Heap, "rehash", "complete")
  <2>. USE <1>4 DEF HashVerdict, hashVars
  <2>1. TypeOK' /\ ReaderBound' /\ LineInv'
    BY DEF TypeOK, ReaderTypeOK, PCs, ReaderBound, LineInv
  <2>2. FdInv' /\ PassInv' /\ DriftInv'
    BY SameIndexes DEF FdInv, PassInv, DriftInv, Allowed, HeapBytes, Content, Reads, Reading, Passing, Checking
  <2>3. ASSUME rsum = digest[Heap], NEW c \in 1 .. HeapBytes(Heap)
        PROVE  ~ Found(c)
    <3>1. c \in Chunks /\ digest[Heap][c] # Absent /\ rpos \in Nat /\ c \in Nat
      BY <1>0, Indexed DEF Absent, TypeOK, ReaderTypeOK, Chunks
    <3>2. c <= rpos
      BY <2>3, <3>1 DEF FdInv
    <3>. QED  BY <2>3, <3>2 DEF Found
  <2>4. SpoilInv'
    BY <1>0, <2>3 DEF SpoilInv, Spoiled, HeapBytes, Passing
  <2>. QED  BY <2>1, <2>2, <2>4
<1>. QED  BY <1>1, <1>2, <1>3, <1>4

(* A writer makes a version that is recent, and that no index is of.       *)
LEMMA WritersIInv == IInv /\ Writers => IInv'
<1>. SUFFICES ASSUME IInv, Writers PROVE IInv'
  OBVIOUS
<1>. USE DEF Writers, commandVars, resultVars, historyVars
<1>1. Heap \in Captures /\ ReaderInv /\ Edit(Heap) /\ clock[Heap] \in Files
  BY ReaderAssumption DEF IInv, TypeOK, ReaderInv, ReaderTypeOK
<1>2. /\ clock[Heap] \in Nat /\ clock'[Heap] = clock[Heap] + 1
      /\ path'[Heap] \in {path[Heap], clock[Heap] + 1}
      /\ \A f \in Files : f # path'[Heap] => store'[Heap][f] = store[Heap][f]
      /\ ChangedBy(store[Heap][path[Heap]], store'[Heap][path'[Heap]], clock[Heap] + 1)
      /\ UNCHANGED <<digest, pc, file, rfd, rpos, rsum>>
      /\ ReaderInv'
  BY <1>1, ReaderEdit
<1>3. HeapBytes(Heap)' = HeapBytes(Heap) /\ Indexes' = Indexes
  BY <1>2, SameIndexes
<1>4. TypeOK' /\ ReaderBound'
  BY <1>2 DEF IInv, TypeOK, ReaderInv
<1>5. FdInv' /\ PassInv' /\ LineInv'
  BY <1>2, <1>3 DEF IInv, FdInv, PassInv, LineInv
<1>6. ASSUME NEW c \in 1 .. HeapBytes(Heap)
      PROVE  /\ c \in Chunks /\ digest[Heap][c] = 1 /\ clock[Heap] + 1 # 1
             /\ store'[Heap][path'[Heap]][c] \in {Content(Heap)[c], Absent, clock[Heap] + 1}
  BY <1>1, <1>2, Indexed DEF ChangedBy, Content, Files
<1>7. ASSUME NEW c \in 1 .. HeapBytes(Heap)
      PROVE  /\ Content(Heap)[c] # digest[Heap][c] => (Content(Heap)[c] # digest[Heap][c])'
             /\ \A f \in 1 .. clock[Heap] :
                  store[Heap][f][c] # digest[Heap][c] => (store[Heap][f][c] # digest[Heap][c])'
  <2>1. Content(Heap)[c] # digest[Heap][c] => (Content(Heap)[c] # digest[Heap][c])'
    BY <1>2, <1>6 DEF Content, Absent
  <2>2. ASSUME NEW f \in 1 .. clock[Heap], store[Heap][f][c] # digest[Heap][c]
        PROVE  (store[Heap][f][c] # digest[Heap][c])'
    <3>1. f \in Files /\ f # clock[Heap] + 1
      BY <1>1, <1>2, CaptureFileAssumption DEF Files
    <3>2. CASE f # path'[Heap]
      BY <1>2, <2>2, <3>1, <3>2
    <3>3. CASE f = path'[Heap]
      <4>1. f = path[Heap]
        BY <1>2, <3>1, <3>3
      <4>. QED  BY <1>2, <2>1, <2>2, <3>3, <4>1 DEF Content
    <3>. QED  BY <3>2, <3>3
  <2>. QED  BY <2>1, <2>2
<1>8. ASSUME NEW c \in 1 .. HeapBytes(Heap)
      PROVE  /\ Allowed(c, Content(Heap)[c]) => Allowed(c, Content(Heap)[c])'
             /\ \A f \in 1 .. clock[Heap] :
                  Allowed(c, store[Heap][f][c]) => Allowed(c, store[Heap][f][c])'
  <2>1. clock[Heap] + 1 > opened /\ opened' = opened /\ digest' = digest
    BY <1>1, <1>2 DEF IInv, DriftInv, TypeOK
  <2>2. Allowed(c, Content(Heap)[c]) => Allowed(c, Content(Heap)[c])'
    BY <1>2, <1>6, <2>1 DEF Content, Allowed
  <2>3. ASSUME NEW f \in 1 .. clock[Heap], Allowed(c, store[Heap][f][c])
        PROVE  Allowed(c, store[Heap][f][c])'
    <3>1. f \in Files /\ f # clock[Heap] + 1
      BY <1>1, <1>2, CaptureFileAssumption DEF Files
    <3>2. CASE f # path'[Heap]
      BY <1>2, <2>1, <2>3, <3>1, <3>2 DEF Allowed
    <3>3. CASE f = path'[Heap]
      <4>1. f = path[Heap]
        BY <1>2, <3>1, <3>3
      <4>. QED  BY <1>2, <2>2, <2>3, <3>3, <4>1 DEF Content, Allowed
    <3>. QED  BY <3>2, <3>3
  <2>. QED  BY <2>2, <2>3
(* What the hash has found so far it will still find.                      *)
<1>9. ASSUME pc \in {"verify", "rehash"}, NEW c \in 1 .. HeapBytes(Heap), Found(c)
      PROVE  Found(c)'
  <2>1. rfd \in 1 .. clock[Heap]
    BY <1>9 DEF IInv, FdInv
  <2>. QED  BY <1>2, <1>7, <1>9, <2>1 DEF Found
<1>10. DriftInv'
  <2>1. (opened <= clock[Heap])'
    BY <1>2 DEF IInv, DriftInv, TypeOK
  <2>2. (pc = "verify" =>
           \A c \in 1 .. HeapBytes(Heap) : Allowed(c, Content(Heap)[c]) \/ Found(c))'
    <3>1. ASSUME pc = "verify", NEW c \in 1 .. HeapBytes(Heap)
          PROVE  Allowed(c, Content(Heap)[c])' \/ Found(c)'
      <4>1. CASE Found(c)
        BY <1>9, <3>1, <4>1
      <4>2. CASE ~ Found(c)
        BY <1>8, <3>1, <4>2 DEF IInv, DriftInv
      <4>. QED  BY <4>1, <4>2
    <3>. QED  BY <1>2, <1>3, <3>1
  <2>3. (pc \in {"reads"} \cup Reads =>
           \A c \in 1 .. HeapBytes(Heap) : Allowed(c, Content(Heap)[c]))'
    BY <1>2, <1>3, <1>8 DEF IInv, DriftInv
  <2>4. (pc \in Reads => \A c \in 1 .. HeapBytes(Heap) : Allowed(c, store[Heap][file[Heap]][c]))'
    <3>1. ASSUME pc \in Reads, NEW c \in 1 .. HeapBytes(Heap)
          PROVE  Allowed(c, store'[Heap][file[Heap]][c])
      <4>1. file[Heap] \in 1 .. clock[Heap] /\ Allowed(c, store[Heap][file[Heap]][c])
        BY <3>1 DEF IInv, FdInv, DriftInv
      <4>2. Allowed(c, store[Heap][file[Heap]][c])'
        BY <1>2, <1>8, <4>1
      <4>. QED  BY <1>2, <4>2 DEF Allowed
    <3>. QED  BY <1>2, <1>3, <3>1 DEF Allowed
  <2>5. (\A fact \in facts : /\ fact.chunk \in 1 .. HeapBytes(Heap)
                             /\ fact.ver # Absent
                             /\ Allowed(fact.chunk, fact.ver))'
    BY <1>2, <1>3 DEF IInv, DriftInv, Allowed
  <2>. QED  BY <2>1, <2>2, <2>3, <2>4, <2>5 DEF DriftInv
<1>11. SpoilInv'
  <2>1. SUFFICES ASSUME command = "census", NEW c \in 1 .. HeapBytes(Heap)
                 PROVE  /\ /\ pc \in Passing \cup {"recheck", "reopen"}
                           /\ Spoiled(c) \/ store'[Heap][file[Heap]][c] # digest[Heap][c]
                           => (Content(Heap)[c] # digest[Heap][c])'
                        /\ pc = "rehash" /\ Spoiled(c) => Found(c)'
                        /\ pc = "complete" => ~ Spoiled(c)
    <3>1. \A c \in 1 .. HeapBytes(Heap) : Spoiled(c)' <=> Spoiled(c)
      BY <1>2 DEF Spoiled
    <3>. QED  BY <1>2, <1>3, <3>1 DEF SpoilInv
  <2>2. pc = "complete" => ~ Spoiled(c)
    BY <2>1 DEF IInv, SpoilInv
  <2>3. pc = "rehash" /\ Spoiled(c) => Found(c)'
    BY <1>9, <2>1 DEF IInv, SpoilInv
  <2>4. ASSUME pc \in Passing \cup {"recheck", "reopen"},
               Spoiled(c) \/ store'[Heap][file[Heap]][c] # digest[Heap][c]
        PROVE  (Content(Heap)[c] # digest[Heap][c])'
    <3>1. file[Heap] \in 1 .. clock[Heap]
      BY <2>4 DEF IInv, FdInv, Reads, Reading, Checking
    <3>2. Spoiled(c) \/ store[Heap][file[Heap]][c] # digest[Heap][c]
            => Content(Heap)[c] # digest[Heap][c]
      BY <2>1, <2>4 DEF IInv, SpoilInv
    <3>3. CASE Content(Heap)[c] # digest[Heap][c]
      BY <1>7, <3>3
    <3>4. CASE Content(Heap)[c] = digest[Heap][c]
      <4>1. /\ store[Heap][file[Heap]][c] = digest[Heap][c]
            /\ store'[Heap][file[Heap]][c] # digest[Heap][c]
        BY <2>4, <3>2, <3>4
      <4>2. file[Heap] \in Files
        BY <1>1, <3>1, CaptureFileAssumption DEF Files
      <4>3. file[Heap] = path'[Heap]
        BY <1>2, <4>1, <4>2
      <4>. QED  BY <1>2, <4>1, <4>3 DEF Content
    <3>. QED  BY <3>3, <3>4
  <2>. QED  BY <2>2, <2>3, <2>4
<1>. QED  BY <1>4, <1>5, <1>10, <1>11 DEF IInv

LEMMA NextIInv == IInv /\ [Next]_vars => IInv'
<1>. SUFFICES ASSUME IInv, [Next]_vars PROVE IInv'
  OBVIOUS
<1>1. CASE Command
  BY <1>1, HashIndexedIInv, OpenHeapIInv, MoveIInv, ReadIInv, RecheckIInv DEF Command
<1>2. CASE Writers
  BY <1>2, WritersIInv
<1>3. CASE UNCHANGED vars
  <2>. USE <1>3 DEF vars, captureVars, hashVars, commandVars, resultVars, historyVars, IInv
  <2>1. TypeOK' /\ ReaderBound' /\ LineInv'
    BY DEF TypeOK, ReaderTypeOK, ReaderBound, LineInv
  <2>2. FdInv' /\ PassInv'
    BY SameIndexes DEF FdInv, PassInv
  <2>3. DriftInv' /\ SpoilInv'
    BY DEF DriftInv, SpoilInv, Spoiled, Found, Allowed, HeapBytes, Content
  <2>. QED  BY <2>1, <2>2, <2>3
<1>. QED  BY <1>1, <1>2, <1>3 DEF Next

LEMMA ReaderIInv == Spec => []IInv
BY InitIInv, NextIInv, PTL DEF Spec

(* Indexes, counters and descriptors stay in range (lib.rs: Reader::open,  *)
(* validate_object, show, extract; census.rs: census; analysis.rs: carve). *)
THEOREM ReaderTypes == Spec => []TypeOK
<1>1. IInv => TypeOK
  BY DEF IInv
<1>. QED  BY <1>1, ReaderIInv, PTL

(* What a command reads is as indexed, or was written after Reader::open   *)
(* had opened the file to hash it (lib.rs: Reader::open).                  *)
THEOREM ReaderDrift == Spec => []DriftIsRecent
<1>1. IInv => DriftIsRecent
  BY DEF IInv, DriftInv, Allowed, DriftIsRecent
<1>. QED  BY <1>1, ReaderIInv, PTL

(* A line of carve names a file that holds the whole payload, in a         *)
(* directory that carve made (analysis.rs: carve; lib.rs: extract).        *)
THEOREM ReaderLines == Spec => []LinesNameWholeFiles
<1>1. IInv => LinesNameWholeFiles
  BY DEF IInv, LineInv, LinesNameWholeFiles
<1>. QED  BY <1>1, ReaderIInv, PTL

(* -- refinement --------------------------------------------------------------- *)

LEMMA SameContent ==
  /\ Report!Current = Content(Heap)
  /\ Report!Chunks = Chunks /\ Report!Files = Files /\ Report!Versions = Versions
  /\ Report!Contents = Contents /\ Report!Absent = Absent
  /\ Report!Nothing = Nothing
  /\ Report!InPlace(Content(Heap), clock[Heap] + 1) = InPlace(Content(Heap), clock[Heap] + 1)
  /\ Report!Copies(Content(Heap), clock[Heap] + 1) = Copies(Content(Heap), clock[Heap] + 1)
<1>1. /\ Report!Current = Content(Heap)
      /\ Report!Chunks = Chunks /\ Report!Files = Files /\ Report!Versions = Versions
      /\ Report!Absent = Absent
  BY DEF Report!Current, Content, Report!Chunks, Chunks, Report!Files, Files,
         Report!Versions, Versions, Report!Absent, Absent
<1>2. Report!Present(Content(Heap)) = Present(Content(Heap))
  BY <1>1 DEF Report!Present, Present
<1>3. Report!Size(Content(Heap)) = Size(Content(Heap))
  BY <1>2 DEF Report!Size, Size, Cardinality, Report!Cardinality
<1>4. Report!Contents = Contents
  BY <1>1 DEF Report!Contents, Contents
<1>5. Report!Nothing = Nothing
  <2>1. Nothing = [c \in Chunks |-> Absent]
    BY CaptureFileAssumption DEF Nothing, Original, Chunks
  <2>. QED  BY <1>1, <2>1 DEF Report!Nothing
<1>6. /\ Report!Overwrites(Content(Heap), clock[Heap] + 1) = Overwrites(Content(Heap), clock[Heap] + 1)
      /\ Report!Truncations(Content(Heap)) = Truncations(Content(Heap))
      /\ Report!Appends(Content(Heap), clock[Heap] + 1) = Appends(Content(Heap), clock[Heap] + 1)
  BY <1>1, <1>2, <1>3 DEF Overwrites, Report!Overwrites, Truncations, Report!Truncations,
                          Appends, Report!Appends, Prefix, Report!Prefix
<1>7. Report!InPlace(Content(Heap), clock[Heap] + 1) = InPlace(Content(Heap), clock[Heap] + 1)
  BY <1>6 DEF InPlace, Report!InPlace
<1>8. Report!Copies(Content(Heap), clock[Heap] + 1) = Copies(Content(Heap), clock[Heap] + 1)
  BY <1>1, <1>2, <1>3 DEF Copies, Report!Copies, Copy, Report!Copy
<1>. QED  BY <1>1, <1>4, <1>5, <1>7, <1>8

LEMMA SameEdit == IInv /\ Edit(Heap) => Report!Edit
<1>. SUFFICES ASSUME IInv, Edit(Heap) PROVE Report!Edit
  OBVIOUS
<1>1. /\ Heap \in Captures /\ path[Heap] \in Files /\ clock[Heap] + 1 \in Files
      /\ path \in [Captures -> Files] /\ clock \in [Captures -> Files]
      /\ store \in [Captures -> [Files -> Contents]]
  BY CaptureFileAssumption, ReaderAssumption DEF IInv, TypeOK, ReaderTypeOK, Edit, Files
<1>2. clock[Heap] <= MaxEdits /\ clock'[Heap] = clock[Heap] + 1
  BY <1>1 DEF Edit
<1>3. CASE Rewrite(Heap)
  <2>1. PICK new \in InPlace(Content(Heap), clock[Heap] + 1) :
          store' = [store EXCEPT ![Heap][path[Heap]] = new] /\ path' = path
    BY <1>3 DEF Rewrite
  <2>2. store'[Heap] = [store[Heap] EXCEPT ![path[Heap]] = new] /\ path'[Heap] = path[Heap]
    BY <1>1, <2>1
  <2>3. Report!Rewrite
    BY <2>2, SameContent DEF Report!Rewrite
  <2>. QED  BY <1>2, <2>3 DEF Report!Edit
<1>4. CASE Replace(Heap)
  <2>1. PICK new \in Copies(Content(Heap), clock[Heap] + 1) :
          /\ store' = [store EXCEPT ![Heap][clock[Heap] + 1] = new]
          /\ path' = [path EXCEPT ![Heap] = clock[Heap] + 1]
          /\ "replace" \in EditKinds
    BY <1>4 DEF Replace
  <2>2. store'[Heap] = [store[Heap] EXCEPT ![clock[Heap] + 1] = new]
        /\ path'[Heap] = clock[Heap] + 1
    BY <1>1, <2>1
  <2>3. Report!Replace
    BY <2>1, <2>2, SameContent DEF Report!Replace
  <2>. QED  BY <1>2, <2>3 DEF Report!Edit
<1>. QED  BY <1>3, <1>4 DEF Edit

LEMMA RefinesInit == Init => Report!Init
<1>. SUFFICES ASSUME Init PROVE Report!Init
  OBVIOUS
<1>1. Heap \in Captures
  BY ReaderAssumption
<1>2. PICK n \in Chunks : digest[Heap] = Original(n)
  BY <1>1 DEF Init, ReaderInit
<1>3. store[Heap] = [f \in Files |-> IF f = 1 THEN Original(n) ELSE Original(0)]
  BY <1>1, <1>2 DEF Init, ReaderInit, Nothing
<1>4. path[Heap] = 1 /\ clock[Heap] = 1
  BY <1>1 DEF Init, ReaderInit
<1>5. \A m : Report!Original(m) = Original(m)
  BY SameContent DEF Original, Report!Original
<1>6. Report!FileInit
  BY <1>3, <1>4, <1>5, SameContent DEF Report!FileInit
<1>. QED  BY <1>6, SameContent DEF Init, Report!Init, Ended

(* What a completed census publishes is true of the snapshot.              *)
Truthful ==
  /\ digest[Heap] \in Report!Contents
  /\ Report!DigestOf(digest[Heap], snapshot)
  /\ facts \in SUBSET {f \in Report!Facts : Report!True(f, snapshot)}

LEMMA CompleteIsTrue == IInv /\ pc = "complete" /\ command = "census" => Truthful
<1>. SUFFICES ASSUME IInv, pc = "complete", command = "census" PROVE Truthful
  OBVIOUS
<1>0. ReaderInv /\ Heap \in Captures
  BY ReaderAssumption DEF IInv, TypeOK, ReaderInv
<1>1. \A c \in 1 .. HeapBytes(Heap) : ~ Spoiled(c)
  BY DEF IInv, SpoilInv
<1>2. \A c \in Chunks : digest[Heap][c] # Absent => c \in 1 .. HeapBytes(Heap)
  <2>1. PICK n \in Chunks : digest[Heap] = Original(n)
    BY <1>0 DEF ReaderInv, ReaderBound
  <2>2. HeapBytes(Heap) = n
    BY <2>1, SizeOriginal DEF HeapBytes
  <2>. QED  BY <2>1, <2>2, CaptureFileAssumption DEF Original, Chunks
<1>3. \A f \in facts : f \in Facts /\ f.chunk \in 1 .. HeapBytes(Heap)
  BY DEF IInv, DriftInv, TypeOK
<1>4. Report!DigestOf(digest[Heap], snapshot)
  BY <1>1, <1>2, SameContent DEF Report!DigestOf, Spoiled
<1>5. \A f \in facts : f \in Report!Facts /\ Report!True(f, snapshot)
  BY <1>1, <1>3, SameContent DEF Spoiled, Report!True, Facts, Report!Facts
<1>6. digest[Heap] \in Report!Contents
  BY <1>0, SameContent DEF ReaderInv, ReaderTypeOK
<1>. QED  BY <1>4, <1>5, <1>6 DEF Truthful

LEMMA RefinesNext ==
  IInv /\ [Next]_vars => [Report!Next]_<<Report!fileVars, Report!reportVars>>
<1>. SUFFICES ASSUME IInv, [Next]_vars
              PROVE  [Report!Next]_<<Report!fileVars, Report!reportVars>>
  OBVIOUS
<1>0. IInv'
  BY NextIInv
<1>. USE DEF Report!fileVars, Report!reportVars, captureVars, hashVars, Ended
(* A step that neither opens the file, nor ends, nor edits is a stutter;   *)
(* so are the ends of dump and carve.                                      *)
<1>1. ASSUME UNCHANGED <<captureVars, snapshot, command>>, ~ Ended,
             pc' \notin {"complete", "failed"} \/ command # "census"
      PROVE  UNCHANGED <<Report!fileVars, Report!reportVars>>
  BY <1>1
<1>2. ASSUME UNCHANGED <<captureVars, snapshot, command>>, ~ Ended, command = "census",
             pc' = "failed"
      PROVE  Report!Abandon
  BY <1>2 DEF Report!Abandon
<1>3. ASSUME UNCHANGED <<captureVars, snapshot, command>>, ~ Ended, pc' # "complete"
      PROVE  [Report!Next]_<<Report!fileVars, Report!reportVars>>
  BY <1>1, <1>2, <1>3 DEF Report!Next
<1>4. CASE HashIndexed \/ MakeDir \/ ValidateObject \/ Classify \/ ShowScalar \/ ShowDone
           \/ Sniff \/ StartCopy \/ CopyChunk \/ Extracted \/ Fail
  <2>1. UNCHANGED <<captureVars, snapshot, command>> /\ ~ Ended /\ pc' # "complete"
    BY <1>4 DEF HashIndexed, HashOpen, HashChunk, HashVerdict, MakeDir, ValidateObject, Classify,
         ShowScalar, ShowDone, NextObject, Sniff, StartCopy, CopyChunk, Extracted, Fail, Abort,
         commandVars, resultVars, historyVars
  <2>. QED  BY <1>3, <2>1
<1>5. CASE OpenHeap
  <2>1. snapshot = Report!Nothing /\ pc = "reads" /\ UNCHANGED <<captureVars, command>>
    BY <1>5, SameContent DEF OpenHeap, OpenReads, IInv, PassInv
  <2>2. CASE pc' = "failed"
    BY <1>3, <1>5, <2>1, <2>2 DEF OpenHeap
  <2>3. CASE pc' # "failed"
    <3>1. snapshot' = Report!Current /\ pc' # "complete"
      BY <1>5, <2>3, SameContent DEF OpenHeap, OpenReads
    <3>2. Report!Snap
      BY <2>1, <2>3, <3>1 DEF Report!Snap
    <3>. QED  BY <3>2 DEF Report!Next
  <2>. QED  BY <2>2, <2>3
<1>6. CASE Collected \/ Recheck
  <2>1. UNCHANGED <<captureVars, snapshot, command, facts>> /\ ~ Ended
    BY <1>6 DEF Collected, Recheck, RecheckSize, HashOpen, HashChunk, HashVerdict,
         commandVars, resultVars, historyVars
  <2>2. CASE pc' = "complete" /\ command = "census"
    <3>1. (IInv /\ pc = "complete" /\ command = "census" => Truthful)'
      BY CompleteIsTrue, PTL
    <3>2. Report!Publish
      BY <1>0, <2>1, <2>2, <3>1 DEF Report!Publish, Truthful, Report!DigestOf, Report!True,
         Report!Contents, Report!Facts, Report!Chunks, Report!Versions, Report!Absent
    <3>. QED  BY <3>2 DEF Report!Next
  <2>3. CASE pc' = "complete" /\ command # "census"
    BY <1>1, <2>1, <2>3
  <2>. QED  BY <1>3, <2>1, <2>2, <2>3
<1>7. CASE Writers
  <2>1. Report!Edit /\ UNCHANGED Report!reportVars
    BY <1>7, SameEdit DEF Writers, Edit, commandVars, resultVars, historyVars
  <2>. QED  BY <2>1 DEF Report!Next
<1>8. CASE UNCHANGED vars
  BY <1>8 DEF vars, commandVars, resultVars, historyVars
<1>. QED  BY <1>4, <1>5, <1>6, <1>7, <1>8 DEF Next, Command

(* census is a correct checksummed report: whatever it completes with was  *)
(* read from one state the capture was in, the indexed one (census.rs:     *)
(* census; lib.rs: Reader::open; raw_strings.rs: recheck).                 *)
THEOREM CensusImplementsReport == Spec => ImplementsSnapshotReport
BY ReaderIInv, RefinesInit, RefinesNext, PTL DEF Spec, Report!Spec, ImplementsSnapshotReport
================================================================================
