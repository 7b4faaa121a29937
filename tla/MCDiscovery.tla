------------------------------- MODULE MCDiscovery -------------------------------
(* A capture of up to two chunks.  As first written it has Strings (class 1) *)
(* at 1, 2, 6 and 7, of which 1 and 7 share an array and 2 has no cached    *)
(* hash, byte arrays (2) at 3 and 8, Strings of an imitating class (3) at 5 *)
(* and 10, nodes (4) at 4 and 9.  The header of 5 ends in the next chunk.   *)
(* One gap of a group is listed: that of 2, and 6 is not followed.          *)
(* The second hypothesis misses the array at 3, the third agrees with the   *)
(* first.  In a rewritten chunk the nodes have one key and 5 is of class 1, *)
(* and then every text is another.                                         *)
EXTENDS Discovery
MCEditKinds == AllKinds
MCPlaces  == 1 .. 10
MCChunkOf == [p \in MCPlaces |-> IF p <= 5 THEN 1 ELSE 2]
MCKlasses == 1 .. 4
MCRefs    == 0 .. 10
MCTarget  == <<[r \in MCRefs |-> r], [r \in MCRefs |-> IF r = 3 THEN 0 ELSE r],
              [r \in MCRefs |-> r]>>
String(k, ref, text) ==
  [kind |-> "string", klass |-> k, text |-> text, ref |-> ref, value |-> 0, next |-> 0]
ByteArray(text) ==
  [kind |-> "array", klass |-> 2, text |-> text, ref |-> 0, value |-> 0, next |-> 0]
Node(text, key, value, next) ==
  [kind |-> "node", klass |-> 4, text |-> text, ref |-> key, value |-> value, next |-> next]
Written == <<String(1, 8, "a"), String(1, 3, "none"), ByteArray("b"), Node("a", 1, 2, 9),
             String(3, 8, "a"), String(1, 3, "b"), String(1, 8, "a"), ByteArray("a"),
             Node("b", 6, 0, 0), String(3, 3, "b")>>
Third(p) == [Written[p] EXCEPT !.text = IF @ = "none" THEN @ ELSE "c"]
MCHolds == [p \in MCPlaces |-> [v \in Versions \X Versions |->
              LET last == IF p = 5 THEN v[2] ELSE v[1]
              IN  IF p = 5 /\ last = Absent
                  THEN [Written[p] EXCEPT !.kind = "other", !.klass = NoKlass]
                  ELSE IF last < 2 THEN Written[p]
                  ELSE IF last = 2
                  THEN IF p \in {4, 9} THEN Node("a", 1, 6, 0)
                       ELSE IF p = 5 THEN String(1, 8, "a") ELSE Written[p]
                  ELSE Third(p)]]
================================================================================
