---------------------------------- MODULE Heap ----------------------------------
(* The heap file as a scan goes through it: some number of 8-byte words.   *)
EXTENDS Naturals

CONSTANT HeapWords   (* the length of the heap, in words                   *)

Words == 0 .. HeapWords - 1
================================================================================
