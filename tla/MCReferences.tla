------------------------------ MODULE MCReferences ------------------------------
(* A heap of 32 bytes whose maps have up to three lines, two of them for   *)
(* the heap: in parts, in views of the same offsets, with gaps, next to    *)
(* each other, overlapping, in any order; and words with every remap       *)
(* nibble, for addresses up to the last mapping and past it.               *)
EXTENDS References
Spans   == {<<16, 32>>, <<16, 24>>, <<24, 32>>, <<32, 48>>, <<40, 48>>, <<64, 64>>}
MCLines == {[start |-> s[1], end |-> s[2], offset |-> o, heap |-> TRUE] : s \in Spans, o \in {0, 8, 24}}
             \cup {[start |-> 16, end |-> 32, offset |-> 0, heap |-> FALSE]}
Coloured == {4096 * hi : hi \in 0 .. 56 * 16} \cup {4096 * hi + low : hi \in 0 .. 144, low \in {1, 16, 2048}}
MCBits == {2 ^ k : k \in 0 .. 12}
MCRaws == [l \in Layouts |-> IF l = "nongen" THEN (0 .. 80) \cup (272 .. 280) ELSE Coloured]
================================================================================
