------------------------ MODULE MCPwospfNeighbors --------------------------
(* The instance of PwospfNeighbors for TLC: one interface, whose neighbour *)
(* comes and goes, and two timer threads.                                  *)
EXTENDS PwospfNeighbors
=============================================================================
