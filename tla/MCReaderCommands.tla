----------------------------- MODULE MCReaderCommands ---------------------------
(* A capture of two chunks and two objects, with two edits of any kind.    *)
EXTENDS ReaderCommands
MCEditKinds == AllKinds
MCCaptures  == {Heap}
================================================================================
