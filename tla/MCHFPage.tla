------------------------------ MODULE MCHFPage ------------------------------
(***************************************************************************)
(* Pages of 9 bytes with slots of 2 bytes and records of 1 to 3 bytes:     *)
(* the page fills, holes are reused, trailing holes are given back, and    *)
(* the directory meets the records.                                        *)
(***************************************************************************)
EXTENDS HFPage

CONSTANTS a, b, c
MCLengthOf == [r \in {a, b, c} |-> CASE r = a -> 1 [] r = b -> 2 [] r = c -> 3]
=============================================================================
