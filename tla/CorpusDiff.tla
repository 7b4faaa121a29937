------------------------------- MODULE CorpusDiff -------------------------------
(***************************************************************************)
(* corpus::diff_captures: a snapshot of each capture in turn (Reader::open, *)
(* the indexed Strings, the census, recheck), then one row per String that *)
(* only one of them has, then recheck of both, then the footer.            *)
(*                                                                         *)
(* What a chunk holds decides what is decoded from it: `Target' says which  *)
(* chunk the String header in a chunk refers to, `Text' what text the      *)
(* array there makes.                                                      *)
(***************************************************************************)
EXTENDS CaptureReader

CONSTANTS
  Texts,       (* the texts that can be decoded and are long enough         *)
  Rejected,    (* anything that is counted under a reason instead           *)
  Target,      (* capture -> chunk -> version -> chunk, or 0: rejected      *)
  Text,        (* capture -> chunk -> version -> text, or Rejected          *)
  MaxUnique    (* --max-unique or --max-text-bytes, per capture             *)

ASSUME CorpusAssumption ==
  /\ Captures = {"before", "after"}
  /\ Rejected \notin Texts
  /\ Target \in [Captures -> [Chunks -> [Versions -> 0 .. MaxChunks]]]
  /\ Text \in [Captures -> [Chunks -> [Versions -> Texts \cup {Rejected}]]]
  /\ MaxUnique \in Nat

VARIABLES
  turn,      (* the capture in hand                                         *)
  next,      (* chunks of it passed                                         *)
  target,    (* the chunk the String in hand refers to                      *)
  strings,   (* capture -> texts decoded                                    *)
  tally,     (* capture -> what its census was read from                    *)
  rows,      (* string-change rows written                                  *)
  last       (* history: both captures when the last row had been written   *)

snapshotVars == <<strings, tally>>
diffVars     == <<turn, next, target, snapshotVars, rows, last>>
vars         == <<captureVars, pc, file, hashVars, diffVars>>

Facts   == [chunk : Chunks, ver : Versions]
Changes == {"new", "gone"} \X Texts
PCs     == {"open", "verify", "reads", "string", "array", "census", "recheck",
            "reopen", "rehash", "captured", "rows", "final", "finalOpen",
            "finalHash", "finalDone", "complete", "failed"}

(* One type invariant of the two snapshots and the diff.                   *)
TypeOK ==
  /\ ReaderTypeOK
  /\ pc \in PCs
  /\ turn \in Captures
  /\ next \in 0 .. HeapBytes(turn)
  /\ target \in 0 .. MaxChunks
  /\ strings \in [Captures -> SUBSET Texts]
  /\ \A s \in Captures : Cardinality(strings[s]) <= MaxUnique
  /\ tally \in [Captures -> SUBSET Facts]
  /\ rows \subseteq Changes
  /\ last \in [Captures -> Contents]

Init ==
  /\ ReaderInit
  /\ pc = "open"
  /\ turn = "before"
  /\ next = 0
  /\ target = 0
  /\ strings = [s \in Captures |-> {}]
  /\ tally = [s \in Captures |-> {}]
  /\ rows = {}
  /\ last = [s \in Captures |-> Nothing]

(* -- snapshot of the capture in hand -------------------------------------- *)

OpenReader ==
  /\ \/ HashOpen(turn, "open", "verify")
     \/ HashChunk(turn, "verify")
     \/ HashVerdict(turn, "verify", "reads")
     \/ OpenReads(turn, "reads", "string")
  /\ UNCHANGED diffVars

(* decode_at reads the header of an indexed String, one in each chunk: it  *)
(* is rejected, or refers to an array ...                                  *)
ReadHeader ==
  /\ pc = "string"
  /\ next < HeapBytes(turn)
  /\ CanRead(turn, next + 1)
  /\ target' = Target[turn][next + 1][Read(turn, next + 1)]
  /\ IF target' \in 1 .. HeapBytes(turn)
     THEN pc' = "array" /\ UNCHANGED next
     ELSE pc' = "string" /\ next' = next + 1
  /\ UNCHANGED <<captureVars, file, hashVars, turn, snapshotVars, rows, last>>

Found == Text[turn][target][Read(turn, target)]

(* mutant: past the limit the texts are dropped, and the command goes on.  *)
ReadArrayLossy ==
  /\ pc = "array"
  /\ CanRead(turn, target)
  /\ next' = next + 1
  /\ strings' = [strings EXCEPT ![turn] =
                   IF Found = Rejected \/ Cardinality(@) = MaxUnique THEN @ ELSE @ \cup {Found}]
  /\ pc' = "string"
  /\ UNCHANGED <<captureVars, file, hashVars, turn, target, tally, rows, last>>
(* mutant: the limit is compared after the insertion.                      *)
ReadArrayLate ==
  /\ pc = "array"
  /\ CanRead(turn, target)
  /\ next' = next + 1
  /\ strings' = [strings EXCEPT ![turn] = IF Found = Rejected THEN @ ELSE @ \cup {Found}]
  /\ pc' = IF Cardinality(strings'[turn]) > MaxUnique THEN "failed" ELSE "string"
  /\ UNCHANGED <<captureVars, file, hashVars, turn, target, tally, rows, last>>

(* ... whose payload is the text.  A text beyond the limit ends the command.*)
ReadArray ==
  /\ pc = "array"
  /\ CanRead(turn, target)
  /\ next' = next + 1
  /\ IF Found \in strings[turn] \cup {Rejected}
     THEN pc' = "string" /\ UNCHANGED strings
     ELSE IF Cardinality(strings[turn]) = MaxUnique
     THEN pc' = "failed" /\ UNCHANGED strings
     ELSE pc' = "string" /\ strings' = [strings EXCEPT ![turn] = @ \cup {Found}]
  /\ UNCHANGED <<captureVars, file, hashVars, turn, target, tally, rows, last>>

StringsDone ==
  /\ pc = "string"
  /\ next = HeapBytes(turn)
  /\ next' = 0
  /\ pc' = "census"
  /\ UNCHANGED <<captureVars, file, hashVars, turn, target, snapshotVars, rows, last>>

(* census::collect, an array in each chunk.                                *)
CollectArray ==
  /\ pc = "census"
  /\ next < HeapBytes(turn)
  /\ CanRead(turn, next + 1)
  /\ tally' = [tally EXCEPT ![turn] =
                 @ \cup {[chunk |-> next + 1, ver |-> Read(turn, next + 1)]}]
  /\ next' = next + 1
  /\ UNCHANGED <<captureVars, pc, file, hashVars, turn, target, strings, rows, last>>

CensusDone ==
  /\ pc = "census"
  /\ next = HeapBytes(turn)
  /\ pc' = "recheck"
  /\ UNCHANGED <<captureVars, file, hashVars, diffVars>>

RecheckSnapshot ==
  /\ \/ RecheckSize(turn, "recheck", "reopen")
     \/ HashOpen(turn, "reopen", "rehash")
     \/ HashChunk(turn, "rehash")
     \/ HashVerdict(turn, "rehash", "captured")
  /\ UNCHANGED diffVars

(* The other capture's turn, then the metadata row.  Captures that cannot   *)
(* be compared end the command (Abort).                                    *)
Captured ==
  /\ pc = "captured"
  /\ IF turn = "before"
     THEN turn' = "after" /\ next' = 0 /\ pc' = "open"
     ELSE UNCHANGED <<turn, next>> /\ pc' = "rows"
  /\ UNCHANGED <<captureVars, file, hashVars, target, snapshotVars, rows, last>>

(* -- the diff ------------------------------------------------------------- *)

Only(s, other) == strings[s] \ strings[other]
Changed == ({"new"} \X Only("after", "before")) \cup ({"gone"} \X Only("before", "after"))

(* The rows, the new ones first.                                           *)
WriteRow ==
  /\ pc = "rows"
  /\ \E row \in Changed \ rows :
       /\ row[1] = "gone" => {"new"} \X Only("after", "before") \subseteq rows
       /\ rows' = rows \cup {row}
  /\ UNCHANGED <<captureVars, pc, file, hashVars, turn, next, target, snapshotVars, last>>

(* mutant: each snapshot has been rechecked, so the footer follows.        *)
RowsDoneTrusting ==
  /\ pc = "rows"
  /\ Changed \subseteq rows
  /\ last' = [s \in Captures |-> Content(s)]
  /\ turn' = "before"
  /\ pc' = "complete"
  /\ UNCHANGED <<captureVars, file, hashVars, next, target, snapshotVars, rows>>

RowsDone ==
  /\ pc = "rows"
  /\ Changed \subseteq rows
  /\ last' = [s \in Captures |-> Content(s)]
  /\ turn' = "before"
  /\ next' = 0
  /\ pc' = "final"
  /\ UNCHANGED <<captureVars, file, hashVars, target, snapshotVars, rows>>

(* Both captures are rechecked, then the footer is written.                *)
RecheckBoth ==
  /\ \/ RecheckSize(turn, "final", "finalOpen")
     \/ HashOpen(turn, "finalOpen", "finalHash")
     \/ HashChunk(turn, "finalHash")
     \/ HashVerdict(turn, "finalHash", "finalDone")
  /\ UNCHANGED diffVars

Revalidated ==
  /\ pc = "finalDone"
  /\ IF turn = "before"
     THEN turn' = "after" /\ pc' = "final"
     ELSE UNCHANGED turn /\ pc' = "complete"
  /\ UNCHANGED <<captureVars, file, hashVars, next, target, snapshotVars, rows, last>>

Fail == Abort /\ UNCHANGED diffVars

Command ==
  \/ OpenReader \/ ReadHeader \/ ReadArray \/ StringsDone
  \/ CollectArray \/ CensusDone \/ RecheckSnapshot \/ Captured
  \/ WriteRow \/ RowsDone \/ RecheckBoth \/ Revalidated
  \/ Fail

Writers == (\E s \in Captures : Edit(s)) /\ UNCHANGED diffVars

Next == Command \/ Writers

Spec == Init /\ [][Next]_vars

(***************************************************************************)
(* Properties.                                                             *)
(***************************************************************************)

(* What the Strings of a content are, read in one instant.                 *)
StringsOf(s, content) ==
  LET size == Size(content)
      Arrays == {Target[s][c][content[c]] : c \in 1 .. size} \cap 1 .. size
  IN  {Text[s][t][content[t]] : t \in Arrays} \ {Rejected}

(* A completed diff is the difference of the two contents its digests name, *)
(* and its censuses are theirs: no row and no tally comes from bytes that a *)
(* writer changed between the hashing and the reads, or while the other    *)
(* capture was being read; and none is lost to the limit (corpus.rs,       *)
(* snapshot and diff_captures).                                            *)
DiffOfDigests ==
  pc = "complete" =>
    LET old == StringsOf("before", digest["before"])
        new == StringsOf("after", digest["after"])
    IN  /\ rows = ({"new"} \X (new \ old)) \cup ({"gone"} \X (old \ new))
        /\ \A s \in Captures :
             tally[s] = {[chunk |-> c, ver |-> digest[s][c]] : c \in 1 .. HeapBytes(s)}

(* The footer revalidates both captures: when the last row had been written *)
(* both still held, at one and the same instant, what their digests name,  *)
(* though by then the first had been left alone for as long as the second  *)
(* took to read (corpus.rs, diff_captures: the two final rechecks).        *)
BothStillTheDigests ==
  pc = "complete" =>
    \A s \in Captures : \A c \in 1 .. HeapBytes(s) : last[s][c] = digest[s][c]
================================================================================
