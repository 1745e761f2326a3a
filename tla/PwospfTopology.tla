--------------------------- MODULE PwospfTopology ---------------------------
(***************************************************************************)
(* What one PWOSPF router does with the LSUs of the others                 *)
(* (src/Pee-Wee-OSPF/sr_pwospf.c): the graph of routers and subnets, the   *)
(* shortest paths from the router itself, and the routing table.  All of   *)
(* it is written by the thread that receives packets, so a packet is one   *)
(* action.  An LSU lists one advertisement per interface of its sender, as *)
(* send_lsu builds it; it may arrive late, twice, or after a restart of    *)
(* the sender.  Its flooding to other routers is module PwospfFlooding's.  *)
(***************************************************************************)
EXTENDS Naturals, SequencesExt

CONSTANTS
  Routers,        (* the router ids                                        *)
  Self,           (* global_rid                                            *)
  Subnets,
  Default,        (* the subnet 0.0.0.0                                    *)
  None,           (* the router id 0, and the gateway 0.0.0.0              *)
  Interfaces,     (* router -> sequence of [subnet, peer], eth0 first      *)
  Static,         (* subnet -> route read from the rtable file             *)
  Arriving,       (* bound: router -> set of its LSUs that may arrive      *)
  INF,            (* distance from which a vertex counts as unreachable    *)
  MaxSeq          (* bound: sequence numbers of the LSUs                   *)

Vertices == Routers \cup Subnets

VARIABLES
  vList,          (* the vertices, newest first                            *)
  edges,          (* pairs <<from, to>>                                    *)
  latestSeqNum,   (* router -> of its last LSU taken, 0 if none            *)
  routes,         (* subnet -> [interface, gw]                             *)
  heard,          (* own interfaces whose neighbour has sent a HELLO       *)
  lastLsu         (* history: router -> its last LSU taken, <<>> if none   *)

graph == <<vList, edges, latestSeqNum>>
vars  == <<graph, routes, heard, lastLsu>>

-----------------------------------------------------------------------------
(* The LSU r sends when it has heard the neighbours on the interfaces K and *)
(* those on A are alive.                                                    *)
Peered(r) == {i \in DOMAIN Interfaces[r] : Interfaces[r][i].peer # None}

Lsu(r, K, A) ==
  [i \in DOMAIN Interfaces[r] |->
     [subnet |-> IF i = 1 /\ i \notin K THEN Default ELSE Interfaces[r][i].subnet,
      rid    |-> IF i \in K \cap A THEN Interfaces[r][i].peer ELSE None]]

Lsus(r) == {Lsu(r, K, A) : K, A \in SUBSET Peered(r)}

ASSUME TopologyAssumption ==
  /\ Self \in Routers
  /\ Default \in Subnets
  /\ Routers \cap Subnets = {}
  /\ None \notin Vertices
  /\ Interfaces \in [Routers -> Seq([subnet : Subnets \ {Default}, peer : Routers \cup {None}])]
  /\ \A r \in Routers : /\ Interfaces[r] # <<>>
                         /\ \A i \in DOMAIN Interfaces[r] : Interfaces[r][i].peer # r
  /\ DOMAIN Static \subseteq Subnets
  /\ \A i, j \in DOMAIN Interfaces[Self] :
       Interfaces[Self][i].subnet = Interfaces[Self][j].subnet => i = j
  /\ \A i \in DOMAIN Interfaces[Self] : Interfaces[Self][i].subnet \notin DOMAIN Static
  /\ \A r \in Routers : Arriving[r] \subseteq Lsus(r)
  /\ INF \in Nat \ {0} /\ MaxSeq \in Nat

Advertised(lsu) == {lsu[i].subnet : i \in DOMAIN lsu}
Listed(lsu)     == {lsu[i].rid : i \in DOMAIN lsu} \ {None}

(* An advertisement without a router makes the receiver look for edges to  *)
(* routers that are no longer listed.                                      *)
Invalidates(lsu) == \E i \in DOMAIN lsu : lsu[i].rid = None /\ lsu[i].subnet # Default

-----------------------------------------------------------------------------
(* Missing vertices are added in the order in which the LSU names them.    *)
add_vertex(list, v) == IF v \in ToSet(list) THEN list ELSE <<v>> \o list

(* Mutant: without the test of lsa[i].rid != 0.                            *)
WithAdvertisementZero(list, lsa) == add_vertex(add_vertex(list, lsa.subnet), lsa.rid)

WithAdvertisement(list, lsa) ==
  LET known == add_vertex(list, lsa.subnet)
  IN  IF lsa.rid = None THEN known ELSE add_vertex(known, lsa.rid)

WithVertices(list, r, lsu) ==
  LET upTo[n \in 0..Len(lsu)] ==
        IF n = 0 THEN add_vertex(list, r) ELSE WithAdvertisement(upTo[n - 1], lsu[n])
  IN  upTo[Len(lsu)]

(* Mutant: nothing is invalidated.                                         *)
StaleNever(E, r, lsu) == {}

(* The routers r is linked to in the graph and lists no more.              *)
Stale(E, r, lsu) ==
  IF Invalidates(lsu) THEN {x \in Routers : <<r, x>> \in E} \ Listed(lsu) ELSE {}

BothWays(r, X) == {<<r, x>> : x \in X} \cup {<<x, r>> : x \in X}

(* Mutant: the reverse edges stay.                                         *)
WithEdgesOneWay(E, r, lsu) ==
  (E \cup {<<r, s>> : s \in Advertised(lsu)} \cup BothWays(r, Listed(lsu)))
    \ {<<r, x>> : x \in Stale(E, r, lsu)}

WithEdges(E, r, lsu) ==
  (E \cup {<<r, s>> : s \in Advertised(lsu)} \cup BothWays(r, Listed(lsu)))
    \ BothWays(r, Stale(E, r, lsu))

-----------------------------------------------------------------------------
(* Dijkstra's algorithm from Self.  Of several nearest vertices the newest *)
(* is taken, and a later path of the same length does not replace a parent.*)
InitSingleSource(list) ==
  [d      |-> [v \in ToSet(list) |-> IF v = Self THEN 0 ELSE INF],
   parent |-> [v \in ToSet(list) |-> None],
   open   |-> ToSet(list)]

Least(list, q) ==
  list[CHOOSE i \in DOMAIN list :
         /\ list[i] \in q.open
         /\ \A j \in DOMAIN list :
              list[j] \in q.open => \/ q.d[list[i]] < q.d[list[j]]
                                    \/ q.d[list[i]] = q.d[list[j]] /\ i <= j]

(* Mutant: >= for >.                                                       *)
RelaxNotStrict(list, E, q) ==
  LET u      == Least(list, q)
      closer == {v \in ToSet(list) : <<u, v>> \in E /\ q.d[v] >= q.d[u] + 1}
  IN  [d      |-> [v \in ToSet(list) |-> IF v \in closer THEN q.d[u] + 1 ELSE q.d[v]],
       parent |-> [v \in ToSet(list) |-> IF v \in closer THEN u ELSE q.parent[v]],
       open   |-> q.open \ {u}]

Relax(list, E, q) ==
  LET u      == Least(list, q)
      closer == {v \in ToSet(list) : <<u, v>> \in E /\ q.d[v] > q.d[u] + 1}
  IN  [d      |-> [v \in ToSet(list) |-> IF v \in closer THEN q.d[u] + 1 ELSE q.d[v]],
       parent |-> [v \in ToSet(list) |-> IF v \in closer THEN u ELSE q.parent[v]],
       open   |-> q.open \ {u}]

dijkstra_algorithm(list, E) ==
  LET q[n \in 0..Len(list)] ==
        IF n = 0 THEN InitSingleSource(list) ELSE Relax(list, E, q[n - 1])
  IN  q[Len(list)].parent

(* The neighbour of Self on the path to subnet s, None if there is no path *)
(* or s is directly connected.                                             *)
FirstHop(parent, s) ==
  LET hop[v \in DOMAIN parent] ==
        IF parent[v] = Self THEN v ELSE IF parent[v] = None THEN None ELSE hop[parent[v]]
  IN  IF parent[s] \in {None, Self} THEN None ELSE hop[parent[s]]

(* A neighbour that is not in the table is taken for the one on eth0.      *)
Gateway(i) == IF i \in heard THEN Interfaces[Self][i].peer ELSE None

RouteVia(x) ==
  LET is == {i \in heard : Interfaces[Self][i].peer = x}
      i  == IF is = {} THEN 1 ELSE CHOOSE j \in is : \A k \in is : j <= k
  IN  [interface |-> i, gw |-> Gateway(i)]

(* Routes are added and changed, none is removed.                          *)
WithRoutes(list, E) ==
  LET parent == dijkstra_algorithm(list, E)
      found  == {s \in Subnets \cap ToSet(list) : FirstHop(parent, s) # None}
  IN  [s \in found \cup DOMAIN routes |->
         IF s \in found THEN RouteVia(FirstHop(parent, s)) ELSE routes[s]]

-----------------------------------------------------------------------------
(* An LSU of r arrives.  Those of Self and outdated ones are dropped.      *)
ReceiveLsu(r, seq, lsu) ==
  /\ r # Self
  /\ seq >= latestSeqNum[r]
  /\ latestSeqNum' = [latestSeqNum EXCEPT ![r] = seq]
  /\ lastLsu' = [lastLsu EXCEPT ![r] = lsu]
  /\ vList' = WithVertices(vList, r, lsu)
  /\ edges' = WithEdges(edges, r, lsu)
  /\ routes' = WithRoutes(vList', edges')
  /\ UNCHANGED heard

(* The first HELLO on an interface (module PwospfNeighbors).               *)
HearNeighbor(i) ==
  /\ i \notin heard
  /\ heard' = heard \cup {i}
  /\ UNCHANGED <<graph, routes, lastLsu>>

Own(i) == Interfaces[Self][i].subnet

Init ==
  /\ vList = Reverse(<<Self>> \o [i \in DOMAIN Interfaces[Self] |-> Own(i)])
  /\ edges = {<<Self, Own(i)>> : i \in DOMAIN Interfaces[Self]}
  /\ latestSeqNum = [r \in Routers |-> 0]
  /\ routes = [s \in {Own(i) : i \in DOMAIN Interfaces[Self]} \cup DOMAIN Static |->
                 IF s \in DOMAIN Static THEN Static[s]
                 ELSE [interface |-> CHOOSE i \in DOMAIN Interfaces[Self] : Own(i) = s,
                       gw |-> None]]
  /\ heard = {}
  /\ lastLsu = [r \in Routers |-> <<>>]

Next ==
  \/ \E r \in Routers : \E seq \in 1..MaxSeq : \E lsu \in Arriving[r] : ReceiveLsu(r, seq, lsu)
  \/ \E i \in Peered(Self) : HearNeighbor(i)

Spec == Init /\ [][Next]_vars

-----------------------------------------------------------------------------
(* The vertices fewer than INF edges away from u, each with the number of  *)
(* edges on a shortest path to it: the reference for dijkstra_algorithm.   *)
Layer(A, n, E) ==
  LET known == {p[1] : p \in A}
  IN  A \cup {<<v, n>> : v \in {v \in Vertices \ known : \E w \in known : <<w, v>> \in E}}

Distances(E, u) ==
  LET within[n \in 0..INF - 1] == IF n = 0 THEN {<<u, 0>>} ELSE Layer(within[n - 1], n, E)
  IN  within[INF - 1]

(* The neighbours of Self on its paths of that length to s.                *)
NextHops(E, s, length) ==
  {x \in Routers : <<Self, x>> \in E /\ <<s, length - 1>> \in Distances(E, x)}

Recomputed == latestSeqNum' # latestSeqNum \/ lastLsu' # lastLsu

TypeOK ==
  /\ vList \in Seq(Vertices) /\ IsInjective(vList)
  /\ edges \subseteq (Routers \cap ToSet(vList)) \X ToSet(vList)
  /\ latestSeqNum \in [Routers -> 0..MaxSeq]
  /\ DOMAIN routes \subseteq Subnets
  /\ \A s \in DOMAIN routes \ DOMAIN Static :
       routes[s].interface \in DOMAIN Interfaces[Self] /\ routes[s].gw \in Routers \cup {None}
  /\ heard \subseteq Peered(Self)

(* Routers are linked both ways or not at all: the invalidation frees the  *)
(* reverse edge without testing that get_edge found one (357).             *)
EdgesSymmetric ==
  \A e \in edges : e[2] \in Routers => <<e[2], e[1]>> \in edges

Lists(a, b) == b \in Listed(lastLsu[a])

(* The last LSU of r cannot invalidate anything: all its interfaces have a *)
(* live neighbour, except eth0 if none was ever heard there.               *)
Withholds(r) == lastLsu[r] # <<>> /\ ~Invalidates(lastLsu[r])

(* No link outlives its advertisements: one end still lists the other, or  *)
(* the invalidation was withheld.  LSUs arrive late and in any order.      *)
EdgesAreAdvertised ==
  \A a, b \in Routers :
    <<a, b>> \in edges => \/ Lists(a, b) \/ Lists(b, a)
                          \/ Withholds(a) \/ Withholds(b)

(* The edges and the LSUs they come from, as far as the links depend on     *)
(* them: with the two invariants above the inductive invariant of the proofs*)
GraphTypeOK ==
  /\ edges \subseteq Routers \X Vertices
  /\ lastLsu = [r \in Routers |-> lastLsu[r]]

(* After an LSU, exactly the subnets that are not directly connected and    *)
(* nearer than INF have had their route set, and it follows a shortest path *)
(* in the graph.  What an LSU adds, revives or invalidates moves many paths *)
(* at once.                                                                 *)
RoutesAreShortest ==
  [][Recomputed =>
       LET far == {p \in Distances(edges', Self) : p[1] \in Subnets /\ p[2] > 1} IN
       /\ \A p \in far : \E x \in NextHops(edges', p[1], p[2]) : routes'[p[1]] = RouteVia(x)
       /\ \A s \in Subnets \ {p[1] : p \in far} :
            /\ s \in DOMAIN routes' <=> s \in DOMAIN routes
            /\ s \in DOMAIN routes => routes'[s] = routes[s]]_vars

-----------------------------------------------------------------------------
(* PWOSPF - Description 2021.pdf, page 3: "Static routes are read in from   *)
(* the routing table (rtable) and should never be removed or modified."     *)
StaticRoutesKept == \A s \in DOMAIN Static : routes[s] = Static[s]
=============================================================================
