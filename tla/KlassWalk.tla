-------------------------------- MODULE KlassWalk --------------------------------
(***************************************************************************)
(* walk_klass as a whole: every window is searched for headers of a class, *)
(* and each is handed to the command, in ascending order, as it is met.    *)
(***************************************************************************)
EXTENDS HashedWalk

(* The classes a walk can be bound to: that of strings and verify-bindings, *)
(* and that of the nodes of dictionaries.                                  *)
Bound == {"String", "Node"}

CONSTANT IsHeader   (* class -> place -> the bytes that are its header       *)

ASSUME HeaderAssumption ==
  IsHeader \in [Bound -> [Places -> SUBSET (Versions \X Versions)]]

VARIABLES
  ahead,     (* headers of the window that are still to be visited          *)
  count      (* headers visited                                             *)

klassVars == <<ahead, count>>

(* The headers of a content that is `size' long, by definition ...         *)
Headers(k, content) == {p \in Places : Fits(p) /\ Bytes(content, p) \in IsHeader[k][p]}
(* ... and those the windows have shown so far.                            *)
Met(k) == {p \in Places : Fits(p) /\ ChunkOf[p] <= pos /\ View(p) \in IsHeader[k][p]}

KlassTypeOK == ahead \subseteq Places /\ count \in 0 .. Cardinality(Places)

KlassInit == ahead = {} /\ count = 0

(* mutant: the loop over a window does not stop at the end of its main part. *)
InWholeWindow(k) ==
  {p \in Places : /\ Fits(p) /\ ChunkOf[p] \in {pos, pos + 1}
                  /\ \/ View(p) \in IsHeader[k][p]
                     \/ ChunkOf[p] = pos + 1 /\ p \notin Split
                        /\ <<overlap[pos + 1], Absent>> \in IsHeader[k][p]}
(* mutant: a window is read without the header_bytes that follow it.       *)
InMainPart(k) == {p \in Met(k) : ChunkOf[p] = pos /\ p \notin Split}

(* `for pos in (0..main)': the headers that begin in the main part, whole  *)
(* or with their end in the overlap.                                       *)
InMain(k) == {p \in Met(k) : ChunkOf[p] = pos}

KlassWindow(k, from, to) ==
  /\ WalkWindow(from, to)
  /\ ahead' = InMain(k)'
  /\ UNCHANGED count

(* The next header of the window, in ascending order, is counted.          *)
Visit(p, from, to) ==
  /\ pc = from
  /\ p \in ahead
  /\ \A q \in ahead : p <= q
  /\ ahead' = ahead \ {p}
  /\ count' = count + 1
  /\ pc' = to
  /\ UNCHANGED <<walkVars, recheckVars, fileVars>>

WindowDone(from, to) ==
  /\ pc = from
  /\ ahead = {}
  /\ pc' = to
  /\ UNCHANGED <<klassVars, walkVars, recheckVars, fileVars>>
================================================================================
