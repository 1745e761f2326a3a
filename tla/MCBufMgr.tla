----------------------------- MODULE MCBufMgr -------------------------------
(* Instances of BufMgr for TLC.                                            *)
EXTENDS BufMgr, TLC

MCSymmetry == Permutations(Clients) \cup Permutations(Data)
=============================================================================
