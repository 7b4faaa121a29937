----------------------------- MODULE CaptureContent -----------------------------
(***************************************************************************)
(* What a capture file holds, and what one change by a writer can make of  *)
(* it.  Content is cut in the 1 MiB chunks the program reads, and a chunk  *)
(* is known by its version only.                                           *)
(***************************************************************************)
EXTENDS Naturals, FiniteSets

CONSTANTS
  MaxChunks,   (* the longest capture, in chunks (MAX_FILE in the code)     *)
  MaxEdits,    (* bound of the model: how often the writers change anything *)
  EditKinds    (* which changes the writers of this instance make           *)

AllKinds == {"overwrite", "truncate", "append", "replace"}

ASSUME CaptureFileAssumption ==
  /\ MaxChunks \in Nat \ {0}
  /\ MaxEdits \in Nat
  /\ EditKinds \subseteq AllKinds

Chunks   == 1 .. MaxChunks
Absent   == 0                       (* the version of a chunk past the end  *)
Versions == 0 .. MaxEdits + 1
Files    == 1 .. MaxEdits + 1
Contents == [Chunks -> Versions]

Present(content) == {c \in Chunks : content[c] # Absent}
Size(content)    == Cardinality(Present(content))

(* The first n chunks as they are, and nothing after them.                 *)
Prefix(content, n) == [c \in Chunks |-> IF c <= n THEN content[c] ELSE Absent]

(* A capture of n chunks as it was written.                                *)
Original(n) == [c \in Chunks |-> IF c <= n THEN 1 ELSE Absent]

(* The files of a capture: the path p names one of them, and none and no    *)
(* version in them is later than the last change ck.                       *)
WellFormed(p, st, ck) ==
  /\ p \in Files /\ p <= ck
  /\ st \in [Files -> Contents]
  /\ \A f \in Files, c \in Chunks : st[f][c] <= ck

(* What a writer can make of a file, at version v, without replacing it.   *)
Overwrites(content, v) == {[content EXCEPT ![c] = v] : c \in Present(content)}
Truncations(content)   == {Prefix(content, n) : n \in {m \in 0 .. MaxChunks : m < Size(content)}}
Appends(content, v)    == {[content EXCEPT ![c] = v] : c \in {Size(content) + 1} \cap Chunks}

InPlace(content, v) ==
  {new \in Overwrites(content, v) : "overwrite" \in EditKinds}
    \cup {new \in Truncations(content) : "truncate" \in EditKinds}
    \cup {new \in Appends(content, v) : "append" \in EditKinds}

(* What a file that is renamed over the capture holds: a copy in which some *)
(* chunks are new.                                                         *)
Copy(content, n, fresh, v) ==
  [c \in Chunks |-> IF c > n THEN Absent
                    ELSE IF c \in fresh \/ content[c] = Absent THEN v
                    ELSE content[c]]
Copies(content, v) == {Copy(content, n, fresh, v) : n \in Chunks, fresh \in SUBSET Chunks}
================================================================================
