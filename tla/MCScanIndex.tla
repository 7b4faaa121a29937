------------------------------ MODULE MCScanIndex ------------------------------
(* scan over every heap of a few words, in windows of two.                 *)
EXTENDS ScanIndex
MCIndexed == {FALSE}
MCEither  == BOOLEAN
================================================================================
