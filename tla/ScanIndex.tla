------------------------------- MODULE ScanIndex -------------------------------
(***************************************************************************)
(* scan and scan-raw with a layout: lib.rs scan_with, which looks for       *)
(* object headers at every word of the heap through windows that overlap,  *)
(* the JSON-lines stream, write_index, and load_index in a later command.  *)
(*                                                                         *)
(* The heap is a sequence of 8-byte words.  A header is a mark word and a   *)
(* class pointer; an array has its length in the word after.  A word is     *)
(* known by the part it can play in a header.                              *)
(***************************************************************************)
EXTENDS Heap, Sequences, FiniteSets, Functions

CONSTANTS
  MaxLength,    (* the longest array the words of the model can ask for     *)
  ChunkWords,   (* CHUNK, in words                                          *)
  MaxObjects,   (* MAX_OBJECTS                                              *)
  Only,         (* the class pointers selected (--only)                     *)
  Modes,        (* whether the runs are given --jsonl: TRUE, FALSE or either *)
  Bundle,       (* the scan is of a bundle, with a checksum to meet         *)
  MaxEdits,     (* bound of the model: words changed during the scan        *)
  MaxRuns       (* bound of the model: how often the command is started     *)

(* Words up to MaxLength are plain, and are a length where one is expected. *)
Mark      == MaxLength + 1         (* an unlocked or hash mark word         *)
Instance  == MaxLength + 2         (* pointer to the instance class         *)
Array     == MaxLength + 3         (* pointer to the array class            *)
Word      == 0 .. Array
Classes   == {Instance, Array}

ASSUME ScanAssumption ==
  /\ HeapWords \in Nat \ 0 .. 2
  /\ MaxLength \in Nat
  /\ ChunkWords \in Nat \ {0}
  /\ MaxObjects \in Nat
  /\ Only \subseteq Classes
  /\ Modes \subseteq BOOLEAN
  /\ Bundle \in BOOLEAN
  /\ MaxEdits \in Nat
  /\ MaxRuns \in Nat \ {0}

VARIABLES
  heap,       (* word -> what it holds now                                  *)
  expected,   (* what SHA256SUMS has the digest of                          *)
  edits,      (* words changed so far                                       *)
  pc,         (* control point of the command                               *)
  runs,       (* times it was started                                       *)
  streamed,   (* --jsonl was given to it                                    *)
  base,       (* first word of the window                                   *)
  buffer,     (* the words of the window, as read                           *)
  pos,        (* the next header of the window                              *)
  hash,       (* the words hashed                                           *)
  objects,    (* the objects found, for the index                           *)
  counts,     (* class -> objects found                                     *)
  rejected,   (* headers rejected                                           *)
  stream,     (* the --jsonl file: whose it is, its rows, its footer        *)
  index,      (* the index file: none, or whose it is and what is in it     *)
  loaded      (* what load_index said of the index file last                *)

heapVars  == <<heap, expected, edits>>
scanVars  == <<streamed, base, buffer, pos, hash, objects, counts, rejected>>
fileVars  == <<stream, index, loaded>>
vars      == <<heapVars, pc, runs, scanVars, fileVars>>

Heaps       == [Words -> Word]
ObjectRec   == [offset : Words, size : 2 .. HeapWords, class : Classes]
NoStream    == [owner |-> 0, rows |-> <<>>, complete |-> FALSE]
NoIndex     == [state |-> "none", streamed |-> FALSE, objects |-> <<>>, counts |-> [c \in Classes |-> 0]]
IndexStates == {"none", "rival", "partial", "whole"}
PCs         == {"start", "open", "window", "header", "end", "footer", "create",
                "write", "complete", "failed"}

(* One type invariant of the scan and its files.                           *)
TypeOK ==
  /\ heap \in Heaps /\ expected \in Heaps /\ edits \in 0 .. MaxEdits
  /\ pc \in PCs /\ runs \in 0 .. MaxRuns /\ streamed \in BOOLEAN
  /\ base \in 0 .. HeapWords
  /\ buffer \in Seq(Word) /\ Len(buffer) <= HeapWords
  /\ pos \in 0 .. ChunkWords
  /\ hash \in Seq(Word) /\ Len(hash) <= HeapWords
  /\ objects \in Seq(ObjectRec) /\ Len(objects) <= MaxObjects
  /\ counts \in [Classes -> 0 .. HeapWords] /\ rejected \in 0 .. HeapWords
  /\ stream.owner \in 0 .. MaxRuns /\ stream.rows \in Seq(ObjectRec)
  /\ index.state \in IndexStates
  /\ loaded \in {"never", "malformed", "refused", "loaded"}

FreshScan(mode) ==
  /\ streamed' = mode
  /\ base' = 0
  /\ buffer' = <<>>
  /\ pos' = 0
  /\ hash' = <<>>
  /\ objects' = <<>>
  /\ counts' = [c \in Classes |-> 0]
  /\ rejected' = 0

Init ==
  /\ heap \in Heaps
  /\ expected = heap
  /\ edits = 0
  /\ pc = "start"
  /\ runs = 0
  /\ streamed = FALSE
  /\ base = 0
  /\ buffer = <<>>
  /\ pos = 0
  /\ hash = <<>>
  /\ objects = <<>>
  /\ counts = [c \in Classes |-> 0]
  /\ rejected = 0
  /\ stream = NoStream
  /\ index = NoIndex
  /\ loaded = "never"

(* -- the command ---------------------------------------------------------- *)

(* main.rs: the index must not exist yet, and the stream is created.       *)
Start ==
  /\ pc \in {"start", "failed"}
  /\ runs < MaxRuns
  /\ runs' = runs + 1
  /\ \E mode \in Modes :
       IF index.state = "none" /\ (mode => stream.owner = 0)
       THEN /\ pc' = "window"
            /\ stream' = IF mode THEN [stream EXCEPT !.owner = runs + 1] ELSE stream
            /\ FreshScan(mode)
       ELSE pc' = "failed" /\ UNCHANGED <<stream, scanVars>>
  /\ UNCHANGED <<heapVars, index, loaded>>

Least(m, n) == IF m < n THEN m ELSE n
Overlap     == 3                                   (* words: the 24 bytes   *)

(* mutant: the windows do not overlap.                                     *)
WindowAlone == Least(HeapWords - base, ChunkWords)
WindowLen   == Least(HeapWords - base, ChunkWords + Overlap)
Main        == Least(Len(buffer), ChunkWords)

(* A window is read and its main part hashed.                              *)
ReadWindow ==
  /\ pc = "window"
  /\ base < HeapWords
  /\ buffer' = [i \in 1 .. WindowLen |-> heap[base + i - 1]]
  /\ hash' = hash \o SubSeq(buffer', 1, Least(WindowLen, ChunkWords))
  /\ pos' = 0
  /\ pc' = "header"
  /\ UNCHANGED <<heapVars, runs, streamed, base, objects, counts, rejected, fileVars>>

NextWindow ==
  /\ pc = "header"
  /\ pos = Main \/ pos + 2 > Len(buffer)
  /\ base' = base + Main
  /\ pc' = "window"
  /\ UNCHANGED <<heapVars, runs, streamed, buffer, pos, hash, objects, counts, rejected,
                 fileVars>>

ScanEnd ==
  /\ pc = "window"
  /\ base = HeapWords
  /\ pc' = "end"
  /\ UNCHANGED <<heapVars, runs, scanVars, fileVars>>

(* -- one header ----------------------------------------------------------- *)

HeaderWord == buffer[pos + 1]
ClassWord  == buffer[pos + 2]
LengthSeen == pos + 3 <= Len(buffer)
LengthWord == buffer[pos + 3]

(* The size of an object, in words: none for a length that is none.        *)
Sizes(class, length) ==
  IF class = Instance THEN {2} ELSE {3 + length : l \in {length} \cap 0 .. MaxLength}

AtHeader == pc = "header" /\ pos < Main /\ pos + 2 <= Len(buffer)

(* The sizes the object could have: its own, or none if it is rejected.    *)
Fitting ==
  IF HeaderWord # Mark \/ (ClassWord = Array /\ ~ LengthSeen) THEN {}
  ELSE {n \in Sizes(ClassWord, IF ClassWord = Array THEN LengthWord ELSE 0) :
          base + pos + n <= HeapWords}

NoHeader ==
  /\ AtHeader
  /\ ClassWord \notin Only
  /\ pos' = pos + 1
  /\ UNCHANGED <<heapVars, pc, runs, streamed, base, buffer, hash, objects, counts, rejected,
                 fileVars>>

RejectHeader ==
  /\ AtHeader
  /\ ClassWord \in Only
  /\ Fitting = {}
  /\ rejected' = rejected + 1
  /\ pos' = pos + 1
  /\ UNCHANGED <<heapVars, pc, runs, streamed, base, buffer, hash, objects, counts, fileVars>>

(* mutant: the limit is off by one.                                        *)
FullLate == ~ streamed /\ Len(objects) > MaxObjects
(* An index is never longer than the limit: the command fails.             *)
Full == ~ streamed /\ Len(objects) >= MaxObjects

IndexFull ==
  /\ AtHeader
  /\ ClassWord \in Only
  /\ Fitting # {}
  /\ Full
  /\ pc' = "failed"
  /\ UNCHANGED <<heapVars, runs, scanVars, fileVars>>

AcceptHeader ==
  /\ AtHeader
  /\ ClassWord \in Only
  /\ ~ Full
  /\ \E n \in Fitting :
       LET object == [offset |-> base + pos, size |-> n, class |-> ClassWord]
       IN  IF streamed
           THEN stream' = [stream EXCEPT !.rows = Append(@, object)] /\ UNCHANGED objects
           ELSE objects' = Append(objects, object) /\ UNCHANGED stream
  /\ counts' = [counts EXCEPT ![ClassWord] = @ + 1]
  /\ pos' = pos + 1
  /\ UNCHANGED <<heapVars, pc, runs, streamed, base, buffer, hash, rejected, index, loaded>>

(* -- the end -------------------------------------------------------------- *)

(* mutant: the checksum is not compared.                                   *)
DigestIgnored == TRUE
DigestAgrees  == Bundle => \A w \in Words : hash[w + 1] = expected[w]

(* mutant: the checksum is compared after the footer has been written.     *)
VerifyLate ==
  /\ pc = "end"
  /\ pc' = IF streamed THEN "footer" ELSE IF ~ DigestAgrees THEN "failed" ELSE "create"
  /\ UNCHANGED <<heapVars, runs, scanVars, fileVars>>

(* The digest is verified before the footer and before the index.          *)
Verify ==
  /\ pc = "end"
  /\ pc' = IF ~ DigestAgrees THEN "failed" ELSE IF streamed THEN "footer" ELSE "create"
  /\ UNCHANGED <<heapVars, runs, scanVars, fileVars>>

Footer ==
  /\ pc = "footer"
  /\ stream' = [stream EXCEPT !.complete = TRUE]
  /\ pc' = "create"
  /\ UNCHANGED <<heapVars, runs, scanVars, index, loaded>>

(* mutant: the index is created as File::create does, over what is there.  *)
TruncateIndex ==
  /\ pc = "create"
  /\ index' = [NoIndex EXCEPT !.state = "partial"]
  /\ pc' = "write"
  /\ UNCHANGED <<heapVars, runs, scanVars, stream, loaded>>

(* write_index: exclusive creation ...                                     *)
CreateIndex ==
  /\ pc = "create"
  /\ IF index.state = "none"
     THEN index' = [index EXCEPT !.state = "partial"] /\ pc' = "write"
     ELSE pc' = "failed" /\ UNCHANGED index
  /\ UNCHANGED <<heapVars, runs, scanVars, stream, loaded>>

(* ... and the JSON, whole only at the end.                                *)
WriteIndex ==
  /\ pc = "write"
  /\ index' = [state |-> "whole", streamed |-> streamed, objects |-> objects, counts |-> counts]
  /\ pc' = "complete"
  /\ UNCHANGED <<heapVars, runs, scanVars, stream, loaded>>

(* An error or a crash: what has been written stays on disk.               *)
Fail ==
  /\ pc \notin {"start", "complete", "failed"}
  /\ pc' = "failed"
  /\ UNCHANGED <<heapVars, runs, scanVars, fileVars>>

(* -- others --------------------------------------------------------------- *)

(* A writer changes a word: never to what the checksum was taken of.       *)
Edit ==
  /\ edits < MaxEdits
  /\ edits' = edits + 1
  /\ \E w \in Words : \E v \in Word \ {heap[w], expected[w]} :
       heap' = [heap EXCEPT ![w] = v]
  /\ UNCHANGED <<expected, pc, runs, scanVars, fileVars>>

(* Another command writes an index of its own at the path, between the     *)
(* check that there is none and the creation.                              *)
Rival ==
  /\ index.state = "none"
  /\ index' = [index EXCEPT !.state = "rival"]
  /\ UNCHANGED <<heapVars, pc, runs, scanVars, stream, loaded>>

TotalOf(n) == n[Instance] + n[Array]
CountIn(seq) == [c \in Classes |-> Cardinality({i \in DOMAIN seq : seq[i].class = c})]

(* What load_index asks of an index that is whole JSON.                    *)
Loadable ==
  /\ Len(index.objects) <= MaxObjects
  /\ TotalOf(index.counts) <= HeapWords
  /\ index.streamed => index.objects = <<>>
  /\ \A i \in 1 .. Len(index.objects) - 1 : index.objects[i].offset < index.objects[i + 1].offset
  /\ \A i \in DOMAIN index.objects : index.objects[i].offset + index.objects[i].size <= HeapWords
  /\ ~ index.streamed /\ TotalOf(index.counts) > 0 => CountIn(index.objects) = index.counts

(* A later command, or one running now, loads the index.                   *)
Load ==
  /\ index.state \in {"partial", "whole"}
  /\ loaded' = IF index.state = "partial" THEN "malformed"
               ELSE IF Loadable THEN "loaded" ELSE "refused"
  /\ UNCHANGED <<heapVars, pc, runs, scanVars, stream, index>>

Scan ==
  \/ Start \/ ReadWindow \/ NextWindow \/ ScanEnd
  \/ NoHeader \/ RejectHeader \/ IndexFull \/ AcceptHeader
  \/ Verify \/ Footer \/ CreateIndex \/ WriteIndex \/ Fail

Next == Scan \/ Edit \/ Rival \/ Load

Spec == Init /\ [][Next]_vars

(***************************************************************************)
(* Properties.                                                             *)
(***************************************************************************)

(* The objects of a heap by the definition of a header, with no window.    *)
ObjectsOf(h) ==
  {o \in ObjectRec :
     /\ o.class \in Only
     /\ o.offset + o.size <= HeapWords
     /\ h[o.offset] = Mark
     /\ h[o.offset + 1] = o.class
     /\ \/ o.class = Instance /\ o.size = 2
        \/ o.class = Array /\ o.size > 2 /\ o.size = 3 + h[o.offset + 2]
                            /\ h[o.offset + 2] <= MaxLength}

(* A scan that passes its checksum found every object of the heap that the *)
(* checksum names, in the order of their offsets, and nothing else: none   *)
(* is lost or found twice where two windows meet, and none has a header    *)
(* of which a part was read before and a part after a change (lib.rs,      *)
(* scan_with).                                                             *)
ScanFindsTheObjects ==
  pc \in {"footer", "create", "write", "complete"} =>
    LET found == IF streamed THEN stream.rows ELSE objects
    IN  /\ Range(found) = ObjectsOf(expected)
        /\ \A i, j \in DOMAIN found : i < j => found[i].offset < found[j].offset
        /\ counts = CountIn(found)

(* A stream with a footer is the whole scan of one run, and an index that  *)
(* loads is too: a crash, a failed run or a retry leaves neither behind    *)
(* (README.md, Failed/interrupted streams remain on disk without that      *)
(* footer; lib.rs, write_index).                                           *)
OnlyWholeScansPass ==
  /\ stream.complete => Range(stream.rows) = ObjectsOf(expected)
  /\ loaded = "loaded" /\ ~ index.streamed => Range(index.objects) = ObjectsOf(expected)

(* load_index refuses no index that write_index completed.                 *)
WrittenIndexLoads == loaded # "refused"

(* An existing index is never replaced: what any command has created stays *)
(* its own to complete (lib.rs, write_index; README.md, Existing output    *)
(* files are refused).                                                     *)
IndexNeverReplaced ==
  [][/\ index.state \in {"rival", "whole"} => UNCHANGED index
     /\ index.state = "partial" /\ index'.state = "whole" => pc = "write"]_vars
================================================================================
