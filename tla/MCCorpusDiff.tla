------------------------------ MODULE MCCorpusDiff ------------------------------
(* Two captures of up to three chunks each, with one edit of any kind to   *)
(* each.  As first written they share the text b, a header refers to its   *)
(* own chunk in the first capture and to the mirror one in the second,     *)
(* which reaches the limit; a rewritten chunk refers and decodes otherwise. *)
EXTENDS CorpusDiff
MCEditKinds == AllKinds
MCCaptures == {"before", "after"}
MCTexts == {"a", "b", "c", "d"}
MCTarget ==
  [s \in MCCaptures |-> [c \in Chunks |-> [v \in Versions |->
     IF v = 1 THEN (IF s = "before" THEN c ELSE 4 - c) ELSE (c + v) % 4]]]
MCText ==
  [s \in MCCaptures |-> [c \in Chunks |-> [v \in Versions |->
     IF v = 1 THEN (IF s = "before" THEN <<"a", "b", "b">>[c] ELSE <<"c", "b", "d">>[c])
     ELSE IF c = 1 THEN "none" ELSE "a"]]]
================================================================================
