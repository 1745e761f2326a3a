---------------------------- MODULE MCHelpQueue ----------------------------
(* Instances of HelpQueue for TLC.                                         *)
EXTENDS HelpQueue

MCSymmetry == Permutations(Workstations)
=============================================================================
