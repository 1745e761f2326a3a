------------------------ MODULE MCPwospfTopology ---------------------------
(* Instances of PwospfTopology for TLC.                                    *)
EXTENDS PwospfTopology

CONSTANTS v1, v2, v3, v4, inet, s12, s13, s23, s34, srv1

If(s, p) == [subnet |-> s, peer |-> p]

(* The gateway's rtable.net has a static default route.                    *)
MCDefaultRoute == Default :> [interface |-> 1, gw |-> None]

(* A triangle with a fourth router behind v3: without the link v1 - v3 its *)
(* subnet srv1 is four links away.                                         *)
MCKite ==
  (v1 :> <<If(inet, None), If(s12, v2), If(s13, v3)>>) @@
  (v2 :> <<If(s23, v3), If(s12, v1)>>) @@
  (v3 :> <<If(s34, v4), If(s13, v1), If(s23, v2)>>) @@
  (v4 :> <<If(s34, v3), If(srv1, None)>>)

(* v2 has not heard eth0's neighbour yet, or loses it again; v3 has one of *)
(* its links of the triangle or the other.                                 *)
MCKiteLsus ==
  (v1 :> {}) @@
  (v2 :> {Lsu(v2, {2}, {2}), Lsu(v2, {1, 2}, {1, 2}), Lsu(v2, {1, 2}, {2})}) @@
  (v3 :> {Lsu(v3, Peered(v3), A) : A \in {{1, 2}, {1, 3}}}) @@
  (v4 :> {Lsu(v4, {1}, {1})})
=============================================================================
