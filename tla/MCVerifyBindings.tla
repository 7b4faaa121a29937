---------------------------- MODULE MCVerifyBindings ----------------------------
(* verify-bindings over a capture of up to two chunks, with Strings at three *)
(* places as first written; the second goes on in the second chunk.  A     *)
(* rewritten first chunk has lost its String at 1, the second chunk has one *)
(* at 3 whatever it is, and the String at 2 is one if its end is as first  *)
(* written or as written last.                                             *)
EXTENDS VerifyBindings
MCEditKinds == AllKinds
MCPlaces    == 1 .. 3
MCChunkOf   == [p \in MCPlaces |-> IF p = 3 THEN 2 ELSE 1]
Changed     == Versions \ {Absent}
Strings     == <<{<<1, Absent>>}, Changed \X (Changed \ {2}), Changed \X {Absent}>>
MCIsHeader  == [k \in Bound |-> IF k = "String" THEN Strings ELSE [p \in MCPlaces |-> {}]]
================================================================================
