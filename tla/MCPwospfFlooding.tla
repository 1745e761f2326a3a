-------------------------- MODULE MCPwospfFlooding --------------------------
(* The triangle of the course's topology (vhost1, vhost2, vhost3).          *)
EXTENDS PwospfFlooding

CONSTANTS v1, v2, v3

MCTriangle ==
  [r \in Routers |-> CASE r = v1 -> <<v2, v3>>
                      [] r = v2 -> <<v1, v3>>
                      [] r = v3 -> <<v1, v2>>]
=============================================================================
