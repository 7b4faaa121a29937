------------------------------- MODULE MCSpacing -------------------------------
(* Every sequence of hits of four words, in at most two of four groups.     *)
EXTENDS Spacing
MCKlasses == {1, 2}
================================================================================
