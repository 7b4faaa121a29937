----------------------------- MODULE ReaderCommands -----------------------------
(***************************************************************************)
(* The commands that pass over the objects of an index: census             *)
(* (census::census), dump (Reader::show for each object; show is a dump of  *)
(* one) and carve (analysis.rs, Reader::extract for each byte array that   *)
(* looks like a file; extract is a carve of one).  All start with          *)
(* Reader::open and validate each object's header before they read more of *)
(* it.  Only census rechecks the capture and reports a digest of it.       *)
(***************************************************************************)
EXTENDS CaptureReader, Sequences

CONSTANTS
  Heap,        (* the one capture of the command                            *)
  MaxObjects   (* bound of the model: objects in the index                  *)

ASSUME ReaderAssumption ==
  /\ Captures = {Heap}
  /\ MaxObjects \in Nat

VARIABLES
  command,   (* which command runs                                          *)
  objects,   (* the objects of the index, in its order                      *)
  next,      (* objects passed                                              *)
  facts,     (* what was read of the objects                                *)
  dir,       (* the directory carve is to make: "none", "other" or "ours" *)
  parts,     (* object -> chunks of its payload in its extracted file       *)
  lines,     (* objects a line of carve's output names                      *)
  snapshot,  (* history: the capture when Reader::open opened it            *)
  opened     (* history: the clock when Reader::open opened it to hash it   *)

resultVars  == <<next, facts, dir, parts, lines>>
historyVars == <<snapshot, opened>>
commandVars == <<command, objects, resultVars, historyVars>>
vars        == <<captureVars, pc, file, hashVars, commandVars>>

Commands == {"census", "dump", "carve"}

(* An object is known by the chunk its header starts in and the chunks its *)
(* fields or its payload start and end in.                                 *)
Objects == {o \in [head : Chunks, first : Chunks, last : Chunks] :
              o.first \in {o.head, o.head + 1} /\ o.last \in {o.first, o.first + 1}}
Length(o) == o.last + 1 - o.first

Facts == [chunk : Chunks, ver : Versions]
PCs   == {"open", "verify", "reads", "dir", "object", "body", "extract", "copy", "recheck",
          "reopen", "rehash", "complete", "failed"}

(* One type invariant of the pass over the index.                          *)
TypeOK ==
  /\ ReaderTypeOK
  /\ pc \in PCs
  /\ command \in Commands
  /\ next \in 0 .. Len(objects)
  /\ facts \subseteq Facts
  /\ dir \in {"none", "other", "ours"}
  /\ parts \in [1 .. MaxObjects -> 0 .. 2]
  /\ lines \subseteq 1 .. next
  /\ snapshot \in Contents
  /\ opened \in 0 .. MaxEdits + 1

(* The indexed objects are in the heap, in increasing order.               *)
Indexes ==
  {s \in UNION {[1 .. n -> Objects] : n \in 0 .. MaxObjects} :
     /\ \A i \in DOMAIN s : s[i].last <= HeapBytes(Heap)
     /\ \A i, j \in DOMAIN s : i < j => s[i].head <= s[j].head}

Init ==
  /\ ReaderInit
  /\ pc = "open"
  /\ command \in Commands
  /\ objects \in Indexes
  /\ next = 0
  /\ facts = {}
  /\ dir \in {"none", "other"}
  /\ parts = [i \in 1 .. MaxObjects |-> 0]
  /\ lines = {}
  /\ snapshot = Nothing
  /\ opened = 0

(* -- Reader::open --------------------------------------------------------- *)

HashIndexed ==
  /\ \/ HashOpen(Heap, "open", "verify") /\ opened' = clock[Heap]
     \/ HashChunk(Heap, "verify") /\ UNCHANGED opened
     \/ HashVerdict(Heap, "verify", "reads") /\ UNCHANGED opened
  /\ UNCHANGED <<command, objects, resultVars, snapshot>>

OpenHeap ==
  /\ OpenReads(Heap, "reads", IF command = "carve" THEN "dir" ELSE "object")
  /\ snapshot' = IF pc' = "failed" THEN snapshot ELSE Content(Heap)
  /\ UNCHANGED <<command, objects, resultVars, opened>>

(* carve makes its directory, which must not exist.                        *)
MakeDir ==
  /\ pc = "dir"
  /\ IF dir = "none" THEN dir' = "ours" /\ pc' = "object"
                     ELSE pc' = "failed" /\ UNCHANGED dir
  /\ UNCHANGED <<command, objects, next, facts, parts, lines, historyVars,
                 captureVars, file, hashVars>>

(* -- the pass over the objects --------------------------------------------- *)

Object == objects[next + 1]

Fetch(span) ==
  /\ \A c \in span : CanRead(Heap, c)
  /\ facts' = facts \cup {[chunk |-> c, ver |-> Read(Heap, c)] : c \in span}

(* validate_object: the klass, the length and the mark word, in a read     *)
(* each; a header that is not the indexed one fails the command.           *)
ValidateObject ==
  /\ pc = "object"
  /\ next < Len(objects)
  /\ \E span \in {{Object.head}, Object.head .. Object.first} : Fetch(span)
  /\ pc' = "body"
  /\ UNCHANGED <<command, objects, next, dir, parts, lines, historyVars,
                 captureVars, file, hashVars>>

NextObject == next' = next + 1 /\ pc' = "object"

(* mutant: an array over the limit is passed twice.                        *)
ClassifyTwice ==
  /\ pc = "body"
  /\ command = "census"
  /\ \E span \in {{Object.first}, Object.first .. Object.last} : Fetch(span)
  /\ next' \in {next + 1, next + 2}
  /\ pc' = "object"
  /\ UNCHANGED <<command, objects, dir, parts, lines, historyVars,
                 captureVars, file, hashVars>>

(* census: the payload, or the first bytes of one over the limit, is read   *)
(* and classified.                                                         *)
Classify ==
  /\ pc = "body"
  /\ command = "census"
  /\ \E span \in {{Object.first}, Object.first .. Object.last} : Fetch(span)
  /\ NextObject
  /\ UNCHANGED <<command, objects, dir, parts, lines, historyVars,
                 captureVars, file, hashVars>>

(* dump: a field, an element or, behind a reference, the header and text   *)
(* of another indexed object, of whatever class.  A text that cannot be    *)
(* read is an error in the row and not of the command.                     *)
ShowScalar ==
  /\ pc = "body"
  /\ command = "dump"
  /\ \E c \in 1 .. HeapBytes(Heap) : Fetch({c})
  /\ UNCHANGED <<pc, command, objects, next, dir, parts, lines, historyVars,
                 captureVars, file, hashVars>>

ShowDone ==
  /\ pc = "body"
  /\ command = "dump"
  /\ NextObject
  /\ UNCHANGED <<command, objects, facts, dir, parts, lines, historyVars,
                 captureVars, file, hashVars>>

(* carve: the start of the payload is sniffed; an array that looks like no *)
(* file is passed over, for another a file is created.                     *)
Sniff ==
  /\ pc = "body"
  /\ command = "carve"
  /\ \E span \in {{Object.first}, Object.first .. Object.last} : Fetch(span)
  /\ \/ NextObject
     \/ pc' = "extract" /\ UNCHANGED next
  /\ UNCHANGED <<command, objects, dir, parts, lines, historyVars,
                 captureVars, file, hashVars>>

(* extract validates the header for itself and creates the file.           *)
StartCopy ==
  /\ pc = "extract"
  /\ \E span \in {{Object.head}, Object.head .. Object.first} : Fetch(span)
  /\ pc' = "copy"
  /\ UNCHANGED <<command, objects, next, dir, parts, lines, historyVars,
                 captureVars, file, hashVars>>

(* extract: io::copy of the payload, which ends early at the end of the    *)
(* file.                                                                   *)
Copied == parts[next + 1]
CopyChunk ==
  /\ pc = "copy"
  /\ Copied < Length(Object)
  /\ Fetch({Object.first + Copied})
  /\ parts' = [parts EXCEPT ![next + 1] = @ + 1]
  /\ UNCHANGED <<pc, command, objects, next, dir, lines, historyVars,
                 captureVars, file, hashVars>>

(* mutant: the number of bytes copied is not compared.                     *)
CopiedSome == Copied = Length(Object) \/ ~ CanRead(Heap, Object.first + Copied)
CopiedAll  == Copied = Length(Object)

(* All was copied, and the line that names the file is written.  A copy    *)
(* that ended early fails the command and leaves the file (Fail).          *)
Extracted ==
  /\ pc = "copy"
  /\ CopiedAll
  /\ lines' = lines \cup {next + 1}
  /\ NextObject
  /\ UNCHANGED <<command, objects, facts, dir, parts, historyVars,
                 captureVars, file, hashVars>>

(* -- the end ---------------------------------------------------------------- *)

Collected ==
  /\ pc = "object"
  /\ next = Len(objects)
  /\ pc' = IF command = "census" THEN "recheck" ELSE "complete"
  /\ UNCHANGED <<captureVars, file, hashVars, commandVars>>

Recheck ==
  /\ \/ RecheckSize(Heap, "recheck", "reopen")
     \/ HashOpen(Heap, "reopen", "rehash")
     \/ HashChunk(Heap, "rehash")
     \/ HashVerdict(Heap, "rehash", "complete")
  /\ UNCHANGED commandVars

Fail == Abort /\ UNCHANGED commandVars

Command ==
  \/ HashIndexed \/ OpenHeap \/ MakeDir
  \/ ValidateObject \/ Classify \/ ShowScalar \/ ShowDone
  \/ Sniff \/ StartCopy \/ CopyChunk \/ Extracted
  \/ Collected \/ Recheck \/ Fail

Writers == Edit(Heap) /\ UNCHANGED commandVars

Next == Command \/ Writers

Spec == Init /\ [][Next]_vars

(***************************************************************************)
(* Properties.                                                             *)
(***************************************************************************)

(* A completed census is of one state of the capture, the one the index    *)
(* was built from, though the file is hashed before and after the reads    *)
(* and read through a third descriptor (census.rs, census).                *)
Report == INSTANCE SnapshotReport WITH
  path     <- path[Heap],
  store    <- store[Heap],
  clock    <- clock[Heap],
  outcome  <- IF Ended /\ command = "census" THEN pc ELSE "running",
  digest   <- IF pc = "complete" /\ command = "census" THEN digest[Heap] ELSE Nothing,
  evidence <- IF pc = "complete" /\ command = "census" THEN facts ELSE {}

ImplementsSnapshotReport == Report!Spec

(* README.md:432 "show, dump and extract verify the heap and sidecars      *)
(* again": they do not look at it once more after that, so what they print  *)
(* may differ from the indexed capture, but only by what was written after *)
(* Reader::open had opened it to hash it.  What had changed before is      *)
(* never read, by any of the descriptors (lib.rs, Reader::open).           *)
DriftIsRecent ==
  \A fact \in facts :
    fact.ver # digest[Heap][fact.chunk] => fact.ver > opened

(* A line of carve names a file in a directory of its own that holds the   *)
(* whole payload; what a failure leaves half-written has no line           *)
(* (analysis.rs, carve; lib.rs, extract).                                  *)
LinesNameWholeFiles ==
  \A i \in lines : dir = "ours" /\ parts[i] = Length(objects[i])
================================================================================
