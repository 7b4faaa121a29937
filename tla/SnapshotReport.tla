----------------------------- MODULE SnapshotReport -----------------------------
(***************************************************************************)
(* What a checksummed report promises of the rows it gives, whatever way   *)
(* they are made: it names one state the capture was really in, and every  *)
(* row was read from that state.  A command that cannot keep the promise   *)
(* fails instead.                                                          *)
(***************************************************************************)
EXTENDS CaptureFile

VARIABLES
  outcome,    (* "running", "complete" or "failed"                          *)
  snapshot,   (* the content of the capture at the instant reported on      *)
  digest,     (* what the report's heap_sha256 is the digest of             *)
  evidence    (* the chunk versions the report's rows were read from        *)

reportVars == <<outcome, snapshot, digest, evidence>>

Nothing   == [c \in Chunks |-> Absent]
Facts     == [chunk : Chunks, ver : Versions]
True(fact, content) == content[fact.chunk] = fact.ver

(* A digest is of a state if it agrees with it on every chunk it covers.   *)
DigestOf(sum, content) ==
  \A c \in Chunks : sum[c] # Absent => sum[c] = content[c]

Init ==
  /\ FileInit
  /\ outcome = "running"
  /\ snapshot = Nothing
  /\ digest = Nothing
  /\ evidence = {}

(* The instant the report is about.                                        *)
Snap ==
  /\ outcome = "running"
  /\ snapshot = Nothing
  /\ snapshot' = Current
  /\ UNCHANGED <<outcome, digest, evidence, fileVars>>

Publish ==
  /\ outcome = "running"
  /\ outcome' = "complete"
  /\ digest' \in Contents
  /\ DigestOf(digest', snapshot)
  /\ evidence' \in SUBSET {f \in Facts : True(f, snapshot)}
  /\ UNCHANGED <<snapshot, fileVars>>

Abandon ==
  /\ outcome = "running"
  /\ outcome' = "failed"
  /\ UNCHANGED <<snapshot, digest, evidence, fileVars>>

Next ==
  \/ Snap
  \/ Publish
  \/ Abandon
  \/ Edit /\ UNCHANGED reportVars

Spec == Init /\ [][Next]_<<fileVars, reportVars>>
================================================================================
