-------------------------------- MODULE MCTrawl --------------------------------
(* strings and dictionaries over a capture of up to two chunks, under every *)
(* kind of writer, or only those that change the file in place.  There is  *)
(* a String at 1 that goes on in the second chunk, unless its end was      *)
(* rewritten first, and one at 3, in the second chunk, which comes and     *)
(* goes; there is a node at 2, across the chunks as well.                  *)
EXTENDS Trawl
MCEditKinds == AllKinds
MCInPlace   == AllKinds \ {"replace"}
MCPlaces    == 1 .. 3
MCChunkOf   == [p \in MCPlaces |-> IF p = 3 THEN 2 ELSE 1]
Changed     == Versions \ {Absent}
MCIsHeader  ==
  [String |-> <<Changed \X (Changed \ {2}), {}, {<<v, Absent>> : v \in Changed \ {2}}>>,
   Node   |-> <<{}, Changed \X (Changed \ {2}), {}>>]
(* One String, which points ahead.                                         *)
MCOneHeader ==
  [String |-> <<{}, {<<1, Absent>>}, {}>>, Node |-> [p \in MCPlaces |-> {}]]
================================================================================
