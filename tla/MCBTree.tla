------------------------------ MODULE MCBTree -------------------------------
(***************************************************************************)
(* Leaves of three entries under a root of three: leaves split in the      *)
(* middle and at both ends, lose all their entries and fill again, and a   *)
(* fourth leaf overflows the root.                                         *)
(***************************************************************************)
EXTENDS BTree

MCKeys == 1..6
MCBounds == {2, 5}
=============================================================================
