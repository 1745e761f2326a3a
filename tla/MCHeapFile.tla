----------------------------- MODULE MCHeapFile -----------------------------
(***************************************************************************)
(* Data pages with room for two short records or one long one, directory   *)
(* pages with room for two entries.                                        *)
(***************************************************************************)
EXTENDS HeapFile, TLC

CONSTANTS short, other, long
MCLengthOf == [v \in {short, other, long} |-> IF v = long THEN 2 ELSE 1]
MCSymmetry == Permutations({short, other})
=============================================================================
