----------------------------- MODULE VerifyBindings -----------------------------
(***************************************************************************)
(* verify-bindings (raw_strings::verify): a walk that only chooses which   *)
(* String headers to look at, a uniform reservoir of their offsets, then   *)
(* the random reads that decode each of them through a descriptor opened   *)
(* after the walk, then the recheck.  Only then is anything reported.      *)
(*                                                                         *)
(* Where a header points is data of the capture, so any chunk of the file  *)
(* may follow.                                                             *)
(***************************************************************************)
EXTENDS KlassWalk, Sequences

CONSTANT Samples   (* --samples: the capacity of the reservoir              *)

ASSUME VerifyAssumption == Samples \in Nat \ {0}

VARIABLES
  selected,   (* the reservoir: places of the headers kept                  *)
  todo,       (* slots whose place is still to be decoded                   *)
  file,       (* the file the random reads go to                            *)
  pairs,      (* slots decoded to a String/byte[] pair                      *)
  rejected,   (* slots counted under a rejection reason                     *)
  evidence,   (* what the random reads returned                             *)
  snapshot    (* history: the capture when the recheck took its length      *)

sampleVars == <<klassVars, selected>>
readVars   == <<todo, file, pairs, rejected, evidence, snapshot>>
vars       == <<fileVars, pc, walkVars, recheckVars, sampleVars, readVars>>

Slots    == DOMAIN selected
Facts    == [chunk : Chunks, ver : Versions]
PCs      == {"open", "walk", "visit", "openFile", "next", "header", "array",
             "payload", "recheck", "reopen", "rehash", "complete", "failed"}

(* One type invariant: the reservoir stays within --samples, and counts and *)
(* slots within what was found.                                            *)
TypeOK ==
  /\ FileTypeOK
  /\ WalkTypeOK
  /\ KlassTypeOK
  /\ pc \in PCs
  /\ selected \in Seq(Places) /\ Len(selected) <= Samples
  /\ todo \subseteq Slots /\ pairs \subseteq Slots /\ rejected \subseteq Slots
  /\ file \in Files \cup {NoFile}
  /\ evidence \subseteq Facts
  /\ snapshot \in Contents

Init ==
  /\ FileInit
  /\ WalkInit
  /\ KlassInit
  /\ pc = "open"
  /\ selected = <<>>
  /\ todo = {}
  /\ file = NoFile
  /\ pairs = {}
  /\ rejected = {}
  /\ evidence = {}
  /\ snapshot = [c \in Chunks |-> Absent]

(* -- the walk ----------------------------------------------------------- *)

Open == WalkOpen("open", "walk") /\ UNCHANGED <<sampleVars, readVars>>

Window == KlassWindow("String", "walk", "visit") /\ UNCHANGED <<selected, readVars>>

(* mutant: a full reservoir gets one more slot for a place drawn beyond it. *)
KeepOneMore(seen, p) ==
  \E slot \in 1 .. seen :
    selected' = IF slot \in Slots THEN [selected EXCEPT ![slot] = p]
                ELSE IF slot = Samples + 1 THEN Append(selected, p)
                ELSE selected

(* rng.below(seen) lands on a slot of the reservoir, or past its end.      *)
Keep(seen, p) ==
  \E slot \in 1 .. seen :
    selected' = IF slot \in Slots THEN [selected EXCEPT ![slot] = p]
                ELSE selected

(* The closure `verify' hands to walk; its `seen' is the walk's count.     *)
Select ==
  /\ \E p \in ahead :
       /\ Visit(p, "visit", "visit")
       /\ IF Len(selected) < Samples THEN selected' = Append(selected, p)
          ELSE Keep(count + 1, p)
  /\ UNCHANGED readVars

NoMoreHeaders == WindowDone("visit", "walk") /\ UNCHANGED <<selected, readVars>>

WalkDone == WalkEnd("walk", "openFile") /\ UNCHANGED <<sampleVars, readVars>>

(* -- the random reads --------------------------------------------------- *)

(* The offsets are sorted and the capture is opened for the reads.         *)
OpenFile ==
  /\ pc = "openFile"
  /\ file' = path
  /\ todo' = Slots
  /\ pc' = "next"
  /\ UNCHANGED <<pairs, rejected, evidence, snapshot, walkVars, recheckVars,
                 sampleVars, fileVars>>

(* The slot whose turn it is: offsets are taken in ascending order.        *)
Lowest(slot) == \A other \in todo : selected[slot] <= selected[other]

(* read_at: within the walked length, from the descriptor.  A file that    *)
(* has become too short ends the command.                                  *)
Read(span) ==
  /\ span \subseteq 1 .. size
  /\ \A d \in span : store[file][d] # Absent
  /\ evidence' = evidence \cup {[chunk |-> d, ver |-> store[file][d]] : d \in span}

(* A read wherever a reference points: one chunk or two neighbours.        *)
ReadAnywhere == \E c \in Chunks : \E span \in {{c}, {c, c + 1}} : Read(span)

StartSample ==
  /\ pc = "next"
  /\ todo # {}
  /\ pc' = "header"
  /\ UNCHANGED <<walkVars, recheckVars, sampleVars, readVars, fileVars>>

(* mutant: a sample that does not decode is passed over uncounted.         *)
FinishDecoded(slot, ok) ==
  /\ todo' = todo \ {slot}
  /\ pairs' = IF ok THEN pairs \cup {slot} ELSE pairs
  /\ rejected' = rejected
  /\ pc' = "next"

(* The sample is reported, under a rejection reason or a hash status.      *)
FinishSample(slot, ok) ==
  /\ todo' = todo \ {slot}
  /\ pairs' = IF ok THEN pairs \cup {slot} ELSE pairs
  /\ rejected' = IF ok THEN rejected ELSE rejected \cup {slot}
  /\ pc' = "next"

(* decode_at reads the header again, at the place: what is no header of a   *)
(* String any more, or never was one, is rejected; so are odd fields ...   *)
ReadHeader ==
  /\ pc = "header"
  /\ \E slot \in todo : LET p == selected[slot] IN
       /\ Lowest(slot)
       /\ Read(Touched(p))
       /\ \/ /\ Bytes(store[file], p) \in IsHeader["String"][p]
             /\ pc' = "array"
             /\ UNCHANGED <<todo, pairs, rejected>>
          \/ FinishSample(slot, FALSE)
  /\ UNCHANGED <<file, snapshot, walkVars, recheckVars, sampleVars, fileVars>>

(* ... the byte[] header wherever the reference points ...                 *)
ReadArray ==
  /\ pc = "array"
  /\ ReadAnywhere
  /\ \/ pc' = "payload" /\ UNCHANGED <<todo, pairs, rejected>>
     \/ \E slot \in todo : Lowest(slot) /\ FinishSample(slot, FALSE)
  /\ UNCHANGED <<file, snapshot, walkVars, recheckVars, sampleVars, fileVars>>

(* ... and its payload, which settles the hash status.                     *)
ReadPayload ==
  /\ pc = "payload"
  /\ ReadAnywhere
  /\ \E slot \in todo : Lowest(slot) /\ FinishSample(slot, TRUE)
  /\ UNCHANGED <<file, snapshot, walkVars, recheckVars, sampleVars, fileVars>>

(* A reference that leads nowhere in the file is rejected unread.          *)
RejectUnread ==
  /\ pc = "array"
  /\ \E slot \in todo : Lowest(slot) /\ FinishSample(slot, FALSE)
  /\ UNCHANGED <<file, evidence, snapshot, walkVars, recheckVars, sampleVars,
                 fileVars>>

SamplesDone ==
  /\ pc = "next"
  /\ todo = {}
  /\ pc' = "recheck"
  /\ UNCHANGED <<walkVars, recheckVars, sampleVars, readVars, fileVars>>

(* -- the recheck -------------------------------------------------------- *)

(* The length of the path is taken: the instant the report is about.       *)
TakeLength ==
  /\ RecheckSize("recheck")
  /\ snapshot' = IF SizeMatches THEN Current ELSE snapshot
  /\ UNCHANGED <<todo, file, pairs, rejected, evidence>>

Recheck ==
  /\ \/ TakeLength
     \/ RecheckOpen /\ UNCHANGED readVars
     \/ RehashChunk /\ UNCHANGED readVars
     \/ RecheckVerdict("complete") /\ UNCHANGED readVars
  /\ UNCHANGED sampleVars

Fail == Abort /\ UNCHANGED <<sampleVars, readVars>>

Command ==
  \/ Open \/ Window \/ Select \/ NoMoreHeaders \/ WalkDone
  \/ OpenFile \/ StartSample \/ ReadHeader \/ ReadArray \/ ReadPayload
  \/ RejectUnread \/ SamplesDone
  \/ Recheck
  \/ Fail

Writers == Edit /\ UNCHANGED <<pc, walkVars, recheckVars, sampleVars, readVars>>

Next == Command \/ Writers

Spec == Init /\ [][Next]_vars
(* The command is one thread that the operating system keeps running.      *)
FairSpec == Spec /\ WF_vars(Command)

(***************************************************************************)
(* Properties.                                                             *)
(***************************************************************************)

(* A completed report describes one instant: when the recheck took its      *)
(* length, the capture was, from beginning to end, what the digest is of,  *)
(* every byte the samples were judged by was in it, and every sample called *)
(* a pair is a String header of it; though the capture is hashed before    *)
(* the reads and again after them, through three descriptors, with writers *)
(* at work all along.  The population is counted before that, in part by   *)
(* bytes that are hashed with a later window: it is that of the digest if  *)
(* those were hashed as they had been seen (raw_strings.rs, walk_klass,    *)
(* verify and recheck).                                                    *)
ReportIsOneSnapshot ==
  pc = "complete" =>
    /\ hash = snapshot
    /\ \A fact \in evidence : hash[fact.chunk] = fact.ver
    /\ \A s \in pairs : selected[s] \in Headers("String", hash)
    /\ OverlapsHashed => count = Cardinality(Headers("String", hash))

(* Selection comes before resolution: the walk visits every header its     *)
(* windows show, once, and the reservoir keeps min(population, --samples)  *)
(* different ones of them, whichever are drawn; each is then reported once, *)
(* whether or not it decodes.                                              *)
SamplesAccountedFor ==
  pc \in {"recheck", "reopen", "rehash", "complete"} =>
    /\ count = Cardinality(Met("String"))
    /\ Len(selected) = IF count < Samples THEN count ELSE Samples
    /\ \A s \in Slots : selected[s] \in Met("String")
    /\ \A s, t \in Slots : selected[s] = selected[t] => s = t
    /\ pairs \cup rejected = Slots /\ pairs \cap rejected = {}

(* verify keeps the promise of an abstract checksummed report: the rows of *)
(* its samples are of one state, the one whose digest it gives.            *)
Report == INSTANCE SnapshotReport WITH
  outcome  <- IF Ended THEN pc ELSE "running",
  digest   <- IF pc = "complete" THEN hash ELSE [c \in Chunks |-> Absent],
  evidence <- IF pc = "complete" THEN evidence ELSE {}

ImplementsSnapshotReport == Report!Spec

(* The command ends, with a report or an error, however the writers        *)
(* interfere: neither the reads nor the rehash go on for ever. The rehash  *)
(* reads to the end of the file wherever it has moved to, so this leans on *)
(* MaxEdits: a file that grows for ever is never hashed to its end.        *)
Terminates == <>Ended
================================================================================
