---------------------------- MODULE Pwospf_proofs ---------------------------
(***************************************************************************)
(* Proofs about the state that the threads of a PWOSPF router share.       *)
(*                                                                         *)
(* The neighbour table and its threads (PwospfNeighbors), for any          *)
(* interfaces, any timeout and any number of timer threads: the types, the *)
(* mutexes, and that every known live neighbour has exactly one timer.     *)
(*                                                                         *)
(* The topology database (PwospfTopology), for any topology, router and    *)
(* LSUs.  Links are symmetric, and none outlives its advertisements.  The  *)
(* two need each other: an LSU finds the links to withdraw from its        *)
(* sender's side only.                                                     *)
(*                                                                         *)
(* The vertices stay a list without repetition that holds the router       *)
(* itself.  On such a list dijkstra_algorithm ends with a tree of shortest *)
(* paths, so the routes that an LSU sets are along shortest paths.  The    *)
(* functions these are computed by are defined by recursion on a number of *)
(* steps; they exist by StepByStep, and what they compute is shown by      *)
(* induction on that number (UpTo).                                        *)
(***************************************************************************)
EXTENDS PwospfNeighbors, PwospfTopology, FiniteSetTheorems, WellFoundedInduction, TLAPS

(***************************************************************************)
(* The topology database.                                                  *)
(***************************************************************************)
GraphInv == GraphTypeOK /\ EdgesSymmetric /\ EdgesAreAdvertised

(* An interface is on a real subnet, and its peer is another router.       *)
LEMMA InterfaceContents ==
  ASSUME NEW r \in Routers, NEW i \in DOMAIN Interfaces[r]
  PROVE  /\ Interfaces[r][i].subnet \in Subnets
         /\ Interfaces[r][i].peer \in (Routers \cup {None}) \ {r}
<1> DEFINE Interface == [subnet : Subnets \ {Default}, peer : Routers \cup {None}]
           is        == Interfaces[r]
<1>1. is \in Seq(Interface) /\ is[i].peer # r
  BY TopologyAssumption
<1>2. is[i] \in Interface
  <2> HIDE DEF Interface
  <2>1. is \in [1..Len(is) -> Interface] /\ DOMAIN is = 1..Len(is)
    BY <1>1
  <2> QED
    BY <2>1
<1> QED
  BY <1>1, <1>2

(* What an LSU that may arrive lists: subnets, and routers other than its  *)
(* sender.                                                                 *)
LEMMA LsuContents ==
  ASSUME NEW r \in Routers, NEW lsu \in Arriving[r]
  PROVE  /\ lsu # <<>>
         /\ Advertised(lsu) \subseteq Subnets
         /\ Listed(lsu) \subseteq Routers \ {r}
<1> USE TopologyAssumption
<1>1. PICK K \in SUBSET Peered(r), A \in SUBSET Peered(r) : lsu = Lsu(r, K, A)
  <2>1. lsu \in Lsus(r)
    OBVIOUS
  <2> QED
    BY <2>1 DEF Lsus
<1>2. /\ Interfaces[r] \in Seq([subnet : Subnets \ {Default}, peer : Routers \cup {None}])
      /\ Interfaces[r] # <<>>
  OBVIOUS
<1>3. \A i \in DOMAIN Interfaces[r] :
        Interfaces[r][i].subnet \in Subnets /\ Interfaces[r][i].peer \in (Routers \cup {None}) \ {r}
  BY InterfaceContents
<1>4. DOMAIN lsu = DOMAIN Interfaces[r] /\ DOMAIN Interfaces[r] # {}
  BY <1>1, <1>2 DEF Lsu
<1>5. \A i \in DOMAIN lsu : lsu[i].subnet \in Subnets /\ lsu[i].rid \in (Routers \cup {None}) \ {r}
  <2> SUFFICES ASSUME NEW i \in DOMAIN lsu
               PROVE  lsu[i].subnet \in Subnets /\ lsu[i].rid \in (Routers \cup {None}) \ {r}
    OBVIOUS
  <2>1. lsu[i] = [subnet |-> IF i = 1 /\ i \notin K THEN Default ELSE Interfaces[r][i].subnet,
                  rid    |-> IF i \in K \cap A THEN Interfaces[r][i].peer ELSE None]
    BY <1>1, <1>4 DEF Lsu
  <2>2. None # r
    BY DEF Vertices
  <2> QED
    BY <2>1, <2>2, <1>3, <1>4
<1>6. lsu # <<>>
  BY <1>4
<1> QED
  BY <1>5, <1>6 DEF Advertised, Listed

-----------------------------------------------------------------------------
(* What an LSU does to the links: those of other routers stay, and r is    *)
(* linked to x afterwards if x is listed, or was linked before and nothing *)
(* is invalidated.                                                         *)
LEMMA LinksAfterLsu ==
  ASSUME GraphTypeOK, EdgesSymmetric,
         NEW r \in Routers, NEW lsu \in Arriving[r]
  PROVE  LET E == WithEdges(edges, r, lsu) IN
         /\ E \subseteq Routers \X Vertices
         /\ \A a, b \in Routers :
              IF r \notin {a, b} THEN <<a, b>> \in E <=> <<a, b>> \in edges
              ELSE LET x == IF a = r THEN b ELSE a IN
                   <<a, b>> \in E <=> \/ x \in Listed(lsu)
                                      \/ <<r, x>> \in edges /\ ~Invalidates(lsu)
<1> DEFINE E == WithEdges(edges, r, lsu)
           L == Listed(lsu)
<1> USE TopologyAssumption
<1>1. lsu # <<>> /\ Advertised(lsu) \subseteq Subnets /\ L \subseteq Routers \ {r}
  BY LsuContents
<1>2. edges \subseteq Routers \X Vertices
  BY DEF GraphTypeOK
<1>3. \A a, b \in Routers : <<a, b>> \in edges <=> <<b, a>> \in edges
  BY <1>2 DEF EdgesSymmetric
<1>4. E \subseteq Routers \X Vertices
  BY <1>1, <1>2 DEF WithEdges, BothWays, Vertices
<1>5. ASSUME NEW a \in Routers, NEW b \in Routers
      PROVE  <<a, b>> \in E <=>
               /\ <<a, b>> \in edges \/ (a = r /\ b \in L) \/ (b = r /\ a \in L)
               /\ ~(a = r /\ b \in Stale(edges, r, lsu))
               /\ ~(b = r /\ a \in Stale(edges, r, lsu))
  <2>1. b \notin Advertised(lsu)
    BY <1>1
  <2> QED
    BY <2>1 DEF WithEdges, BothWays
<1>6. \A x \in Routers : x \in Stale(edges, r, lsu) <=>
                           Invalidates(lsu) /\ <<r, x>> \in edges /\ x \notin L
  BY DEF Stale
<1>7. ASSUME NEW a \in Routers, NEW b \in Routers, r \notin {a, b}
      PROVE  <<a, b>> \in E <=> <<a, b>> \in edges
  BY <1>5, <1>7
<1>8. ASSUME NEW x \in Routers
      PROVE  /\ <<r, x>> \in E <=> x \in L \/ (<<r, x>> \in edges /\ ~Invalidates(lsu))
             /\ <<x, r>> \in E <=> x \in L \/ (<<r, x>> \in edges /\ ~Invalidates(lsu))
  BY <1>1, <1>3, <1>5, <1>6
<1> QED
  BY <1>4, <1>7, <1>8

-----------------------------------------------------------------------------
LEMMA GraphInit == Init => GraphInv
<1> SUFFICES ASSUME Init PROVE GraphInv
  OBVIOUS
<1> USE TopologyAssumption
<1>1. \A i \in DOMAIN Interfaces[Self] : Own(i) \in Subnets
  BY InterfaceContents DEF Own
<1>2. edges \subseteq {Self} \X Subnets
  BY <1>1 DEF Init
<1>3. GraphTypeOK
  BY <1>2 DEF GraphTypeOK, Init, Vertices
<1> QED
  BY <1>2, <1>3 DEF GraphInv, EdgesSymmetric, EdgesAreAdvertised

LEMMA GraphReceiveLsu ==
  ASSUME GraphInv,
         NEW r \in Routers, NEW seq \in 1..MaxSeq, NEW lsu \in Arriving[r],
         ReceiveLsu(r, seq, lsu)
  PROVE  GraphInv'
<1> DEFINE L == Listed(lsu)
<1> USE DEF GraphInv
<1>1. lsu # <<>> /\ L \subseteq Routers \ {r}
  BY LsuContents
<1>2. edges' = WithEdges(edges, r, lsu)
  BY DEF ReceiveLsu
<1>3. /\ edges' \subseteq Routers \X Vertices
      /\ \A a, b \in Routers : r \notin {a, b} => (<<a, b>> \in edges' <=> <<a, b>> \in edges)
      /\ \A x \in Routers :
           /\ <<r, x>> \in edges' <=> x \in L \/ (<<r, x>> \in edges /\ ~Invalidates(lsu))
           /\ <<x, r>> \in edges' <=> x \in L \/ (<<r, x>> \in edges /\ ~Invalidates(lsu))
  BY <1>2, LinksAfterLsu
<1>4. lastLsu' = [lastLsu EXCEPT ![r] = lsu]
  BY DEF ReceiveLsu
<1>5. /\ lastLsu'[r] = lsu
      /\ \A x \in Routers \ {r} : lastLsu'[x] = lastLsu[x]
  BY <1>4 DEF GraphTypeOK
<1>6. GraphTypeOK'
  BY <1>3, <1>4 DEF GraphTypeOK
<1>7. EdgesSymmetric'
  <2> SUFFICES ASSUME NEW a \in Routers, NEW b \in Routers, <<a, b>> \in edges'
               PROVE  <<b, a>> \in edges'
    BY <1>3 DEF EdgesSymmetric
  <2>1. CASE r \notin {a, b}
    BY <2>1, <1>3 DEF EdgesSymmetric
  <2>2. CASE r \in {a, b}
    BY <2>2, <1>3
  <2> QED
    BY <2>1, <2>2
<1>8. EdgesAreAdvertised'
  <2> SUFFICES ASSUME NEW a \in Routers, NEW b \in Routers, <<a, b>> \in edges'
               PROVE  \/ Lists(a, b)' \/ Lists(b, a)'
                      \/ Withholds(a)' \/ Withholds(b)'
    BY DEF EdgesAreAdvertised
  <2>1. CASE r \notin {a, b}
    <3>1. lastLsu'[a] = lastLsu[a] /\ lastLsu'[b] = lastLsu[b] /\ <<a, b>> \in edges
      BY <2>1, <1>3, <1>5
    <3> QED
      BY <3>1 DEF EdgesAreAdvertised, Lists, Withholds
  <2>2. ASSUME NEW x \in Routers, <<r, x>> \in edges' \/ <<x, r>> \in edges'
        PROVE  Lists(r, x)' \/ Withholds(r)'
    <3>1. x \in L \/ ~Invalidates(lsu)
      BY <2>2, <1>3
    <3> QED
      BY <3>1, <1>1, <1>5 DEF Lists, Withholds
  <2>3. CASE r \in {a, b}
    BY <2>2, <2>3
  <2> QED
    BY <2>1, <2>3
<1> QED
  BY <1>6, <1>7, <1>8

LEMMA GraphStep == GraphInv /\ [Next]_vars => GraphInv'
<1> SUFFICES ASSUME GraphInv, [Next]_vars PROVE GraphInv'
  OBVIOUS
<1>1. ASSUME NEW r \in Routers, NEW seq \in 1..MaxSeq, NEW lsu \in Arriving[r],
             ReceiveLsu(r, seq, lsu)
      PROVE  GraphInv'
  BY <1>1, GraphReceiveLsu
<1>2. ASSUME UNCHANGED <<edges, lastLsu>>
      PROVE  GraphInv'
  BY <1>2 DEF GraphInv, GraphTypeOK, EdgesSymmetric, EdgesAreAdvertised, Lists, Withholds
<1>3. ASSUME NEW i \in Peered(Self), HearNeighbor(i)
      PROVE  GraphInv'
  BY <1>2, <1>3 DEF HearNeighbor, graph
<1>4. CASE UNCHANGED vars
  BY <1>2, <1>4 DEF vars, graph
<1> QED
  BY <1>1, <1>3, <1>4 DEF Next

(* The links of the graph are consistent in every reachable state.         *)
THEOREM GraphInvariant == Spec => []GraphInv
<1>1. GraphInv /\ [Next]_vars => GraphInv'
  BY GraphStep
<1> QED
  BY GraphInit, <1>1, PTL DEF Spec

(* Routers are linked both ways or not at all, so delete_node is never     *)
(* given a NULL edge.                                                      *)
THEOREM LinksAreSymmetric == Spec => []EdgesSymmetric
<1>1. GraphInv => EdgesSymmetric
  BY DEF GraphInv
<1> QED
  BY GraphInvariant, <1>1, PTL

(* No link outlives its advertisements, unless an LSU without a trigger    *)
(* withheld the invalidation.                                              *)
THEOREM LinksAreAdvertised == Spec => []EdgesAreAdvertised
<1>1. GraphInv => EdgesAreAdvertised
  BY DEF GraphInv
<1> QED
  BY GraphInvariant, <1>1, PTL

-----------------------------------------------------------------------------
(* Every non-empty set of naturals has a least element.                    *)
LEMMA NatMin ==
  ASSUME NEW T \in SUBSET Nat, T # {}
  PROVE  \E m \in T : \A k \in T : m <= k
<1>1. PICK m \in T : \A k \in T : ~ (<< k, m >> \in OpToRel(<, Nat))
  BY NatLessThanWellFounded, WFMin
<1>2. \A k \in T : ~ (k < m)
  BY <1>1 DEF OpToRel
<1> QED
  BY <1>2

(* Induction up to a bound, over a set.                                    *)
LEMMA UpTo ==
  ASSUME NEW N \in Nat, NEW T, 0 \in T, \A n \in 1..N : n - 1 \in T => n \in T
  PROVE  0..N \subseteq T
<1> DEFINE U == (0..N) \ T
<1> SUFFICES ASSUME U # {} PROVE FALSE
  OBVIOUS
<1>1. U \in SUBSET Nat
  OBVIOUS
<1>2. PICK m \in U : \A k \in U : m <= k
  <2> HIDE DEF U
  <2> QED
    BY <1>1, NatMin
<1>3. m \in 1..N /\ m - 1 \in 0..N
  BY <1>2
<1>4. m - 1 \notin U
  BY <1>2, <1>3
<1> QED
  BY <1>2, <1>3, <1>4

(* A function that is given step by step exists.                           *)
Steps(N, S, b, G, f) ==
  /\ f \in [0..N -> S] /\ f[0] = b
  /\ \A n \in 1..N : f[n] = G[<<n, f[n - 1]>>]

LEMMA StepByStep ==
  ASSUME NEW N \in Nat, NEW S, NEW b \in S, NEW G \in [(1..N) \X S -> S]
  PROVE  \E f : Steps(N, S, b, G, f)
<1> DEFINE Good(m, f) == f[0] = b /\ \A n \in 1..m : f[n] = G[<<n, f[n - 1]>>]
           T == {m \in 0..N : \E f \in [0..m -> S] : Good(m, f)}
<1>1. 0 \in T
  <2> DEFINE f == [i \in 0..0 |-> b]
  <2>1. f \in [0..0 -> S] /\ Good(0, f)
    OBVIOUS
  <2> HIDE DEF f, Good
  <2>2. 0 \in 0..N
    OBVIOUS
  <2> QED
    BY <2>1, <2>2
<1>2. ASSUME NEW n \in 1..N, n - 1 \in T PROVE n \in T
  <2>1. PICK f \in [0..n - 1 -> S] : Good(n - 1, f)
    BY <1>2
  <2> DEFINE g == [i \in 0..n |-> IF i = n THEN G[<<n, f[n - 1]>>] ELSE f[i]]
  <2>2. n - 1 \in 0..n - 1 /\ n \in 0..n /\ n \in 0..N /\ 0 \in 0..n /\ 0 # n
    OBVIOUS
  <2>3. f[n - 1] \in S /\ <<n, f[n - 1]>> \in (1..N) \X S
    BY <2>2
  <2>4. g \in [0..n -> S]
    <3>1. G[<<n, f[n - 1]>>] \in S
      BY <2>3
    <3>2. \A i \in 0..n : i # n => i \in 0..n - 1
      OBVIOUS
    <3> QED
      BY <3>1, <3>2
  <2>5. g[0] = b
    BY <2>1, <2>2
  <2>6. ASSUME NEW i \in 1..n PROVE g[i] = G[<<i, g[i - 1]>>]
    <3>1. i \in 0..n /\ i - 1 \in 0..n /\ i - 1 # n
      OBVIOUS
    <3>2. g[i - 1] = f[i - 1]
      BY <3>1
    <3>3. CASE i = n
      BY <3>1, <3>2, <3>3
    <3>4. CASE i # n
      <4>1. i \in 1..n - 1
        BY <3>4
      <4> QED
        BY <2>1, <3>1, <3>2, <3>4, <4>1
    <3> QED
      BY <3>3, <3>4
  <2> HIDE DEF g
  <2> QED
    BY <2>2, <2>4, <2>5, <2>6
<1>3. 0..N \subseteq T
  <2> HIDE DEF T
  <2> QED
    BY <1>1, <1>2, UpTo
<1>4. N \in T
  <2> HIDE DEF T
  <2> QED
    BY <1>3
<1>5. PICK f \in [0..N -> S] : Good(N, f)
  BY <1>4
<1> QED
  BY <1>5 DEF Steps

-----------------------------------------------------------------------------
(* The lists of vertices: each vertex once.                                *)
VertexLists == {l \in Seq(Vertices) : IsInjective(l)}

LEMMA AddVertex ==
  ASSUME NEW list \in VertexLists, NEW v \in Vertices
  PROVE  /\ add_vertex(list, v) \in VertexLists
         /\ ToSet(add_vertex(list, v)) = ToSet(list) \cup {v}
<1>1. CASE v \in ToSet(list)
  BY <1>1 DEF add_vertex
<1>2. CASE v \notin ToSet(list)
  <2> DEFINE new == <<v>> \o list
  <2>1. add_vertex(list, v) = new
    BY <1>2 DEF add_vertex
  <2>2. PICK n \in Nat : n = Len(list)
    BY DEF VertexLists
  <2>3. /\ list \in Seq(Vertices) /\ DOMAIN list = 1..n /\ \A i \in 1..n : list[i] # v
        /\ \A i, j \in 1..n : list[i] = list[j] => i = j
    <3>1. list \in Seq(Vertices) /\ IsInjective(list)
      BY DEF VertexLists
    <3>2. DOMAIN list = 1..n
      BY <3>1, <2>2
    <3> QED
      BY <1>2, <3>1, <3>2 DEF ToSet, IsInjective
  <2>4. new \in Seq(Vertices) /\ Len(new) = n + 1
    BY <2>2, <2>3
  <2>5. DOMAIN new = 1..n + 1
    BY <2>4
  <2>6. new[1] = v /\ \A i \in 2..n + 1 : new[i] = list[i - 1]
    BY <2>2, <2>3
  <2> HIDE DEF new
  <2>7. IsInjective(new)
    <3> SUFFICES ASSUME NEW i \in 1..n + 1, NEW j \in 1..n + 1, new[i] = new[j] PROVE i = j
      BY <2>5 DEF IsInjective
    <3>1. i = 1 \/ (i \in 2..n + 1 /\ i - 1 \in 1..n)
      OBVIOUS
    <3>2. j = 1 \/ (j \in 2..n + 1 /\ j - 1 \in 1..n)
      OBVIOUS
    <3>3. i # 1 /\ j # 1 => i - 1 = j - 1
      BY <2>3, <2>6, <3>1, <3>2
    <3> QED
      BY <2>3, <2>6, <3>1, <3>2, <3>3
  <2>8. ToSet(new) = ToSet(list) \cup {v}
    <3>1. \A i \in 1..n : i + 1 \in 2..n + 1 /\ i + 1 \in 1..n + 1 /\ (i + 1) - 1 = i
      OBVIOUS
    <3>2. \A i \in 1..n : new[i + 1] = list[i]
      BY <2>6, <3>1
    <3>3. \A i \in 1..n + 1 : i = 1 \/ (i \in 2..n + 1 /\ i - 1 \in 1..n)
      OBVIOUS
    <3>4. ToSet(new) = {new[i] : i \in 1..n + 1} /\ ToSet(list) = {list[i] : i \in 1..n}
      BY <2>3, <2>5 DEF ToSet
    <3>5. 1 \in 1..n + 1
      OBVIOUS
    <3> QED
      BY <2>6, <3>1, <3>2, <3>3, <3>4, <3>5
  <2> QED
    BY <2>1, <2>4, <2>7, <2>8 DEF VertexLists
<1> QED
  BY <1>1, <1>2

Lsas == [subnet : Subnets, rid : Routers \cup {None}]

LEMMA AddAdvertisement ==
  ASSUME NEW list \in VertexLists, NEW lsa \in Lsas
  PROVE  /\ WithAdvertisement(list, lsa) \in VertexLists
         /\ ToSet(WithAdvertisement(list, lsa)) = (ToSet(list) \cup {lsa.subnet, lsa.rid}) \ {None}
<1>1. lsa.subnet \in Vertices /\ (lsa.rid = None \/ lsa.rid \in Vertices) /\ None \notin Vertices
  BY TopologyAssumption DEF Lsas, Vertices
<1>2. PICK extended \in VertexLists : extended = add_vertex(list, lsa.subnet)
  BY <1>1, AddVertex
<1>3. ToSet(extended) = ToSet(list) \cup {lsa.subnet}
  BY <1>1, <1>2, AddVertex
<1>4. None \notin ToSet(list)
  BY <1>1 DEF VertexLists, ToSet
<1>5. CASE lsa.rid = None
  BY <1>1, <1>2, <1>3, <1>4, <1>5 DEF WithAdvertisement
<1>6. CASE lsa.rid # None
  <2>1. WithAdvertisement(list, lsa) = add_vertex(extended, lsa.rid)
    BY <1>2, <1>6 DEF WithAdvertisement
  <2>2. /\ add_vertex(extended, lsa.rid) \in VertexLists
        /\ ToSet(add_vertex(extended, lsa.rid)) = ToSet(extended) \cup {lsa.rid}
    BY <1>1, <1>6, AddVertex
  <2> QED
    BY <1>1, <1>3, <1>4, <1>6, <2>1, <2>2
<1> QED
  BY <1>5, <1>6

(* An LSU adds its sender and what it names, each vertex once.             *)
LEMMA VerticesAfterLsu ==
  ASSUME NEW list \in VertexLists, NEW r \in Routers, NEW lsu \in Seq(Lsas)
  PROVE  /\ WithVertices(list, r, lsu) \in VertexLists
         /\ ToSet(list) \cup {r} \cup Advertised(lsu) \cup Listed(lsu)
              \subseteq ToSet(WithVertices(list, r, lsu))
<1> DEFINE N == Len(lsu)
           S == VertexLists
           b == add_vertex(list, r)
           G == [p \in (1..N) \X S |-> WithAdvertisement(p[2], lsu[p[1]])]
           body(g) == [n \in 0..N |-> IF n = 0 THEN b ELSE WithAdvertisement(g[n - 1], lsu[n])]
           upTo == CHOOSE g : g = body(g)
<1>1. N \in Nat /\ \A n \in 1..N : lsu[n] \in Lsas
  OBVIOUS
<1>2. b \in S /\ ToSet(b) = ToSet(list) \cup {r}
  BY AddVertex DEF Vertices
<1>3. G \in [(1..N) \X S -> S]
  BY <1>1, AddAdvertisement
<1>4. PICK f : Steps(N, S, b, G, f)
  <2>1. N \in Nat /\ b \in S
    BY <1>1, <1>2
  <2> HIDE DEF N, S, b, G
  <2> QED
    BY <2>1, <1>3, StepByStep
<1>5. f = body(f)
  <2>1. ASSUME NEW n \in 1..N PROVE f[n] = WithAdvertisement(f[n - 1], lsu[n])
    <3>1. n - 1 \in 0..N /\ f[n - 1] \in S
      BY <1>1, <1>4 DEF Steps
    <3>2. <<n, f[n - 1]>> \in (1..N) \X S
      BY <3>1
    <3> QED
      BY <1>4, <3>2 DEF Steps
  <2>2. \A n \in 0..N : n = 0 \/ n \in 1..N
    BY <1>1
  <2>3. \A n \in 0..N : f[n] = IF n = 0 THEN b ELSE WithAdvertisement(f[n - 1], lsu[n])
    BY <1>4, <2>1, <2>2 DEF Steps
  <2> HIDE DEF S, b
  <2>4. f = [n \in 0..N |-> f[n]]
    BY <1>4 DEF Steps
  <2> QED
    BY <2>3, <2>4
<1>6. upTo = body(upTo)
  BY <1>5
<1>7. /\ upTo[0] = b
      /\ \A n \in 1..N : upTo[n] = WithAdvertisement(upTo[n - 1], lsu[n])
  <2> HIDE DEF upTo
  <2> QED
    BY <1>1, <1>6
<1>8. WithVertices(list, r, lsu) = upTo[N]
  BY DEF WithVertices
<1> HIDE DEF upTo
<1> DEFINE Named(n) == /\ upTo[n] \in S
                       /\ ToSet(list) \cup {r} \subseteq ToSet(upTo[n])
                       /\ \A i \in 1..n : {lsu[i].subnet, lsu[i].rid} \ {None} \subseteq ToSet(upTo[n])
           T == {n \in 0..N : Named(n)}
<1>9. 0 \in T
  BY <1>1, <1>2, <1>7
<1>10. ASSUME NEW n \in 1..N, n - 1 \in T PROVE n \in T
  <2>1. Named(n - 1) /\ n \in 0..N
    BY <1>1, <1>10
  <2>2. lsu[n] \in Lsas /\ upTo[n] = WithAdvertisement(upTo[n - 1], lsu[n])
    BY <1>1, <1>7
  <2>3. /\ upTo[n] \in S
        /\ ToSet(upTo[n]) = (ToSet(upTo[n - 1]) \cup {lsu[n].subnet, lsu[n].rid}) \ {None}
    BY <2>1, <2>2, AddAdvertisement
  <2>4. None \notin ToSet(upTo[n - 1])
    BY <2>1, TopologyAssumption DEF VertexLists, ToSet
  <2>5. \A i \in 1..n : i = n \/ i \in 1..n - 1
    BY <1>1
  <2> HIDE DEF S
  <2>6. Named(n)
    BY <2>1, <2>3, <2>4, <2>5
  <2> QED
    BY <2>1, <2>6
<1>11. Named(N)
  <2> HIDE DEF T
  <2>1. 0..N \subseteq T
    BY <1>1, <1>9, <1>10, UpTo
  <2>2. N \in 0..N
    BY <1>1
  <2> QED
    BY <2>1, <2>2 DEF T
<1>12. Advertised(lsu) \cup Listed(lsu) \subseteq ToSet(upTo[N])
  <2>1. DOMAIN lsu = 1..N
    OBVIOUS
  <2>2. \A i \in 1..N : lsu[i].subnet # None
    BY <1>1, TopologyAssumption DEF Lsas, Vertices
  <2> HIDE DEF N
  <2> QED
    BY <1>11, <2>1, <2>2 DEF Advertised, Listed
<1> QED
  BY <1>8, <1>11, <1>12

-----------------------------------------------------------------------------
(* An LSU that may arrive is a list of advertisements.                     *)
LEMMA LsuType ==
  ASSUME NEW r \in Routers, NEW lsu \in Arriving[r]
  PROVE  lsu \in Seq(Lsas)
<1> USE TopologyAssumption
<1>1. PICK K \in SUBSET Peered(r), A \in SUBSET Peered(r) : lsu = Lsu(r, K, A)
  <2>1. lsu \in Lsus(r)
    OBVIOUS
  <2> QED
    BY <2>1 DEF Lsus
<1>2. Interfaces[r] \in Seq([subnet : Subnets \ {Default}, peer : Routers \cup {None}])
  OBVIOUS
<1>3. PICK n \in Nat : DOMAIN Interfaces[r] = 1..n
  BY <1>2
<1>4. lsu = [i \in 1..n |->
               [subnet |-> IF i = 1 /\ i \notin K THEN Default ELSE Interfaces[r][i].subnet,
                rid    |-> IF i \in K \cap A THEN Interfaces[r][i].peer ELSE None]]
  BY <1>1, <1>3 DEF Lsu
<1>5. \A i \in 1..n : Interfaces[r][i].subnet \in Subnets /\ Interfaces[r][i].peer \in Routers \cup {None}
  BY <1>3, InterfaceContents
<1>6. lsu \in [1..n -> Lsas]
  BY <1>4, <1>5 DEF Lsas
<1> QED
  BY <1>6

-----------------------------------------------------------------------------
(* The type invariant, with the router itself in its graph.                *)
TopologyInv == TypeOK /\ Self \in ToSet(vList)

(* The vertices that are there at first: the router and its subnets.       *)
LEMMA FirstVertices ==
  ASSUME Init
  PROVE  /\ vList \in VertexLists /\ Self \in ToSet(vList)
         /\ \A i \in DOMAIN Interfaces[Self] : Own(i) \in ToSet(vList) \cap Subnets
<1> USE TopologyAssumption
<1>1. Interfaces[Self] \in Seq([subnet : Subnets \ {Default}, peer : Routers \cup {None}])
  OBVIOUS
<1>2. PICK n \in Nat : DOMAIN Interfaces[Self] = 1..n
  BY <1>1
<1> DEFINE own == [i \in 1..n |-> Own(i)]
           s == <<Self>> \o own
<1>3. \A i \in 1..n : Own(i) \in Subnets /\ Own(i) # Self
  BY <1>2, InterfaceContents DEF Own
<1>4. own \in Seq(Vertices) /\ Len(own) = n
  <2>1. own \in [1..n -> Vertices]
    BY <1>3 DEF Vertices
  <2> QED
    BY <2>1
<1>5. /\ s \in Seq(Vertices) /\ Len(s) = n + 1 /\ s[1] = Self
      /\ \A i \in 1..n : s[i + 1] = Own(i)
  <2>1. Self \in Vertices /\ \A i \in 1..n : own[i] = Own(i)
    BY DEF Vertices
  <2> HIDE DEF own
  <2>2. s \in Seq(Vertices) /\ Len(s) = n + 1 /\ s[1] = Self
    BY <1>4, <2>1
  <2>3. \A i \in 1..n : s[i + 1] = own[i]
    BY <1>4
  <2> QED
    BY <2>1, <2>2, <2>3
<1>6. vList = Reverse(s)
  BY <1>2 DEF Init
<1> HIDE DEF s
<1>7. vList = [i \in 1..n + 1 |-> s[(n + 1 - i) + 1]]
  BY <1>5, <1>6 DEF Reverse
<1>8. \A i \in 1..n : s[i + 1] \in Subnets \ {Self}
  BY <1>3, <1>5
<1>9. \A i, j \in 1..n + 1 : s[i] = s[j] => i = j
  <2> SUFFICES ASSUME NEW i \in 1..n + 1, NEW j \in 1..n + 1, s[i] = s[j] PROVE i = j
    OBVIOUS
  <2>1. \A k \in 1..n + 1 : k = 1 \/ (k - 1 \in 1..n /\ k = (k - 1) + 1)
    OBVIOUS
  <2>2. \A k \in 1..n + 1 : k # 1 => s[k] = Own(k - 1) /\ s[k] # Self
    <3> SUFFICES ASSUME NEW k \in 1..n + 1, k # 1 PROVE s[k] = Own(k - 1) /\ s[k] # Self
      OBVIOUS
    <3>1. PICK m \in 1..n : m = k - 1 /\ k = m + 1
      BY <2>1
    <3> QED
      BY <1>3, <1>5, <3>1
  <2>3. i = 1 <=> j = 1
    BY <2>2, <1>5
  <2>4. CASE i # 1
    <3>1. Own(i - 1) = Own(j - 1) /\ i - 1 \in 1..n /\ j - 1 \in 1..n
      BY <2>1, <2>2, <2>3, <2>4
    <3>2. \A k, l \in 1..n : Own(k) = Own(l) => k = l
      BY <1>2 DEF Own
    <3>3. i - 1 = j - 1
      BY <3>1, <3>2
    <3> QED
      BY <3>3
  <2> QED
    BY <2>3, <2>4
<1>10. vList \in Seq(Vertices)
  <2>1. DOMAIN s = 1..n + 1
    BY <1>5
  <2>2. \A i \in 1..n + 1 : s[i] \in Vertices
    BY <1>5
  <2>3. \A i \in 1..n + 1 : (n + 1 - i) + 1 \in 1..n + 1
    OBVIOUS
  <2>4. vList \in [1..n + 1 -> Vertices]
    BY <1>7, <2>2, <2>3
  <2> QED
    BY <2>4
<1>11. DOMAIN vList = 1..n + 1
  BY <1>7
<1>12. IsInjective(vList)
  <2> SUFFICES ASSUME NEW i \in 1..n + 1, NEW j \in 1..n + 1, vList[i] = vList[j] PROVE i = j
    BY <1>11 DEF IsInjective
  <2> DEFINE k == (n + 1 - i) + 1
             l == (n + 1 - j) + 1
  <2>1. k \in 1..n + 1 /\ l \in 1..n + 1
    OBVIOUS
  <2>2. s[k] = s[l]
    BY <1>7
  <2>3. k = l
    <3> HIDE DEF k, l
    <3> QED
      BY <1>9, <2>1, <2>2
  <2> QED
    BY <2>3
<1>13. \A i \in 1..n + 1 : s[i] \in ToSet(vList)
  <2> SUFFICES ASSUME NEW i \in 1..n + 1 PROVE s[i] \in ToSet(vList)
    OBVIOUS
  <2>1. PICK k \in 1..n + 1 : k = (n + 1 - i) + 1 /\ (n + 1 - k) + 1 = i
    OBVIOUS
  <2>2. vList[k] = s[i]
    BY <1>7, <2>1
  <2> QED
    BY <1>11, <2>2 DEF ToSet
<1>14. \A i \in 1..n : Own(i) \in ToSet(vList)
  <2>1. \A i \in 1..n : i + 1 \in 1..n + 1
    OBVIOUS
  <2> QED
    BY <1>5, <1>13, <2>1
<1>15. Self \in ToSet(vList)
  <2>1. 1 \in 1..n + 1
    OBVIOUS
  <2> QED
    BY <1>5, <1>13, <2>1
<1> QED
  BY <1>2, <1>3, <1>10, <1>12, <1>14, <1>15 DEF VertexLists

LEMMA TopologyInit == Init => TopologyInv
<1> SUFFICES ASSUME Init PROVE TopologyInv
  OBVIOUS
<1> USE TopologyAssumption
<1>1. /\ vList \in VertexLists /\ Self \in ToSet(vList)
      /\ \A i \in DOMAIN Interfaces[Self] : Own(i) \in ToSet(vList) \cap Subnets
  BY FirstVertices
<1>2. edges \subseteq (Routers \cap ToSet(vList)) \X ToSet(vList)
  <2>1. edges = {<<Self, Own(i)>> : i \in DOMAIN Interfaces[Self]}
    BY DEF Init
  <2> QED
    BY <1>1, <2>1
<1>3. latestSeqNum \in [Routers -> 0..MaxSeq]
  BY DEF Init
<1>4. DOMAIN routes = {Own(i) : i \in DOMAIN Interfaces[Self]} \cup DOMAIN Static
  BY DEF Init
<1>5. DOMAIN routes \subseteq Subnets
  BY <1>1, <1>4
<1>6. ASSUME NEW s \in DOMAIN routes \ DOMAIN Static
      PROVE  routes[s].interface \in DOMAIN Interfaces[Self] /\ routes[s].gw \in Routers \cup {None}
  <2>1. routes[s] = [interface |-> CHOOSE i \in DOMAIN Interfaces[Self] : Own(i) = s, gw |-> None]
    BY <1>4 DEF Init
  <2>2. \E i \in DOMAIN Interfaces[Self] : Own(i) = s
    BY <1>4
  <2>3. (CHOOSE i \in DOMAIN Interfaces[Self] : Own(i) = s) \in DOMAIN Interfaces[Self]
    BY <2>2
  <2> QED
    BY <2>1, <2>3
<1>7. heard = {}
  BY DEF Init
<1> QED
  BY <1>1, <1>2, <1>3, <1>5, <1>6, <1>7 DEF TopologyInv, TypeOK, VertexLists

(* A route goes over an interface, to the neighbour heard there or to none.*)
LEMMA RouteType ==
  ASSUME heard \subseteq Peered(Self), NEW x
  PROVE  /\ RouteVia(x).interface \in DOMAIN Interfaces[Self]
         /\ RouteVia(x).gw \in Routers \cup {None}
<1> USE TopologyAssumption
<1> DEFINE is == {i \in heard : Interfaces[Self][i].peer = x}
           i == IF is = {} THEN 1 ELSE CHOOSE j \in is : \A k \in is : j <= k
<1>1. /\ Interfaces[Self] \in Seq([subnet : Subnets \ {Default}, peer : Routers \cup {None}])
      /\ Interfaces[Self] # <<>>
  OBVIOUS
<1>2. PICK n \in Nat : DOMAIN Interfaces[Self] = 1..n /\ n # 0
  BY <1>1
<1>3. is \subseteq 1..n
  BY <1>2 DEF Peered
<1>4. i \in 1..n
  <2>1. CASE is = {}
    BY <1>2, <2>1
  <2>2. CASE is # {}
    <3>1. is \in SUBSET Nat
      BY <1>3
    <3>2. \E j \in is : \A k \in is : j <= k
      <4> HIDE DEF is
      <4> QED
        BY <2>2, <3>1, NatMin
    <3> QED
      BY <1>3, <2>2, <3>2
  <2> QED
    BY <2>1, <2>2
<1>5. RouteVia(x) = [interface |-> i, gw |-> Gateway(i)]
  BY DEF RouteVia
<1>6. Gateway(i) \in Routers \cup {None}
  <2> HIDE DEF i
  <2> QED
    BY <1>2, <1>4, InterfaceContents DEF Gateway
<1> HIDE DEF i
<1> QED
  BY <1>2, <1>4, <1>5, <1>6

LEMMA TopologyReceiveLsu ==
  ASSUME TopologyInv,
         NEW r \in Routers, NEW seq \in 1..MaxSeq, NEW lsu \in Arriving[r],
         ReceiveLsu(r, seq, lsu)
  PROVE  TopologyInv'
<1> USE TopologyAssumption
<1>1. /\ vList' = WithVertices(vList, r, lsu) /\ edges' = WithEdges(edges, r, lsu)
      /\ latestSeqNum' = [latestSeqNum EXCEPT ![r] = seq]
      /\ routes' = WithRoutes(vList', edges') /\ heard' = heard
  BY DEF ReceiveLsu
<1>2. vList \in VertexLists
  BY DEF TopologyInv, TypeOK, VertexLists
<1>3. /\ vList' \in VertexLists
      /\ ToSet(vList) \cup {r} \cup Advertised(lsu) \cup Listed(lsu) \subseteq ToSet(vList')
  BY <1>1, <1>2, LsuType, VerticesAfterLsu
<1>4. Listed(lsu) \subseteq Routers
  BY LsuContents
<1>5. edges' \subseteq (Routers \cap ToSet(vList')) \X ToSet(vList')
  BY <1>1, <1>3, <1>4 DEF TopologyInv, TypeOK, WithEdges, BothWays
<1>6. latestSeqNum' \in [Routers -> 0..MaxSeq]
  BY <1>1 DEF TopologyInv, TypeOK
<1>7. heard \subseteq Peered(Self)
  BY DEF TopologyInv, TypeOK
<1> DEFINE parent == dijkstra_algorithm(vList', edges')
           found == {s \in Subnets \cap ToSet(vList') : FirstHop(parent, s) # None}
<1>8. routes' = [s \in found \cup DOMAIN routes |->
                   IF s \in found THEN RouteVia(FirstHop(parent, s)) ELSE routes[s]]
  BY <1>1 DEF WithRoutes
<1> HIDE DEF parent
<1>9. DOMAIN routes' \subseteq Subnets
  BY <1>8 DEF TopologyInv, TypeOK
<1>10. ASSUME NEW s \in DOMAIN routes' \ DOMAIN Static
       PROVE  routes'[s].interface \in DOMAIN Interfaces[Self] /\ routes'[s].gw \in Routers \cup {None}
  <2>1. CASE s \in found
    <3>1. routes'[s] = RouteVia(FirstHop(parent, s))
      BY <1>8, <2>1
    <3> QED
      BY <1>7, <3>1, RouteType
  <2>2. CASE s \notin found
    <3>1. s \in DOMAIN routes /\ routes'[s] = routes[s]
      BY <1>8, <1>10, <2>2
    <3> QED
      BY <1>10, <3>1 DEF TopologyInv, TypeOK
  <2> QED
    BY <2>1, <2>2
<1>11. heard' \subseteq Peered(Self)
  BY <1>1, <1>7
<1>12. Self \in ToSet(vList')
  BY <1>3 DEF TopologyInv
<1> QED
  BY <1>3, <1>5, <1>6, <1>9, <1>10, <1>11, <1>12 DEF TopologyInv, TypeOK, VertexLists

LEMMA TopologyStep == TopologyInv /\ [Next]_vars => TopologyInv'
<1> SUFFICES ASSUME TopologyInv, [Next]_vars PROVE TopologyInv'
  OBVIOUS
<1>1. ASSUME NEW r \in Routers, NEW seq \in 1..MaxSeq, NEW lsu \in Arriving[r],
             ReceiveLsu(r, seq, lsu)
      PROVE  TopologyInv'
  BY <1>1, TopologyReceiveLsu
<1>2. ASSUME NEW i \in Peered(Self), HearNeighbor(i)
      PROVE  TopologyInv'
  BY <1>2 DEF HearNeighbor, graph, TopologyInv, TypeOK
<1>3. CASE UNCHANGED vars
  BY <1>3 DEF vars, graph, TopologyInv, TypeOK
<1> QED
  BY <1>1, <1>2, <1>3 DEF Next

(* The vertices of the graph are a list without repetition, links lead to  *)
(* vertices, and a route leads over an interface of the router.            *)
THEOREM TopologyTypes == Spec => []TypeOK
<1>1. TopologyInv => TypeOK
  BY DEF TopologyInv
<1> QED
  BY <1>1, TopologyInit, TopologyStep, PTL DEF Spec

-----------------------------------------------------------------------------
(* What makes d the distances from u in the graph E on V, up to INF.       *)
IsDistance(V, E, u, d) ==
  /\ d \in [V -> 0..INF]
  /\ \A v \in V : d[v] = 0 <=> v = u
  /\ \A w, v \in V : <<w, v>> \in E => d[v] <= d[w] + 1
  /\ \A v \in V : d[v] \in 1..INF - 1 => \E w \in V : <<w, v>> \in E /\ d[w] = d[v] - 1

(* The distances from a neighbour x of u are at most one shorter.          *)
LEMMA NeighbourIsNear ==
  ASSUME NEW V, NEW E, NEW u \in V, NEW x \in V, <<u, x>> \in E,
         NEW d, IsDistance(V, E, u, d), NEW dx, IsDistance(V, E, x, dx)
  PROVE  \A v \in V : d[v] <= dx[v] + 1
<1> DEFINE T == {n \in 0..INF : \A v \in V : dx[v] = n => d[v] <= n + 1}
<1>1. INF \in Nat
  BY TopologyAssumption
<1>2. \A v \in V : d[v] \in 0..INF /\ dx[v] \in 0..INF
  BY DEF IsDistance
<1>3. 0 \in T
  <2>1. d[x] <= d[u] + 1 /\ d[u] = 0
    BY DEF IsDistance
  <2>2. \A v \in V : dx[v] = 0 => v = x
    BY DEF IsDistance
  <2> QED
    BY <1>1, <2>1, <2>2
<1>4. ASSUME NEW n \in 1..INF, n - 1 \in T PROVE n \in T
  <2>1. CASE n = INF
    BY <1>1, <1>2, <2>1
  <2>2. CASE n # INF
    <3> SUFFICES ASSUME NEW v \in V, dx[v] = n PROVE d[v] <= n + 1
      BY <1>1
    <3>1. dx[v] \in 1..INF - 1
      BY <1>1, <2>2
    <3>2. PICK w \in V : <<w, v>> \in E /\ dx[w] = n - 1
      BY <3>1 DEF IsDistance
    <3>3. d[w] <= (n - 1) + 1
      BY <1>4, <3>2
    <3>4. d[v] <= d[w] + 1
      BY <3>2 DEF IsDistance
    <3> QED
      BY <1>2, <3>3, <3>4
  <2> QED
    BY <2>1, <2>2
<1>5. 0..INF \subseteq T
  <2> HIDE DEF T
  <2> QED
    BY <1>1, <1>3, <1>4, UpTo
<1> QED
  BY <1>2, <1>5

(* Distances are unique.                                                   *)
LEMMA DistanceAtMost ==
  ASSUME NEW V, NEW E, NEW u \in V,
         NEW d, IsDistance(V, E, u, d), NEW e, IsDistance(V, E, u, e)
  PROVE  \A v \in V : d[v] <= e[v]
<1> DEFINE T == {n \in 0..INF : \A v \in V : e[v] = n => d[v] <= n}
<1>1. INF \in Nat
  BY TopologyAssumption
<1>2. \A v \in V : d[v] \in 0..INF /\ e[v] \in 0..INF
  BY DEF IsDistance
<1>3. 0 \in T
  <2>1. \A v \in V : e[v] = 0 => d[v] = 0
    BY DEF IsDistance
  <2> QED
    BY <1>1, <2>1
<1>4. ASSUME NEW n \in 1..INF, n - 1 \in T PROVE n \in T
  <2>1. CASE n = INF
    BY <1>1, <1>2, <2>1
  <2>2. CASE n # INF
    <3> SUFFICES ASSUME NEW v \in V, e[v] = n PROVE d[v] <= n
      BY <1>1
    <3>1. e[v] \in 1..INF - 1
      BY <1>1, <2>2
    <3>2. PICK w \in V : <<w, v>> \in E /\ e[w] = n - 1
      BY <3>1 DEF IsDistance
    <3>3. d[w] <= n - 1
      BY <1>4, <3>2
    <3>4. d[v] <= d[w] + 1
      BY <3>2 DEF IsDistance
    <3> QED
      BY <1>2, <3>3, <3>4
  <2> QED
    BY <2>1, <2>2
<1>5. 0..INF \subseteq T
  <2> HIDE DEF T
  <2> QED
    BY <1>1, <1>3, <1>4, UpTo
<1> QED
  BY <1>2, <1>5

LEMMA DistanceIsUnique ==
  ASSUME NEW V, NEW E, NEW u \in V,
         NEW d, IsDistance(V, E, u, d), NEW e, IsDistance(V, E, u, e)
  PROVE  \A v \in V : d[v] = e[v]
<1>1. \A v \in V : d[v] <= e[v] /\ e[v] <= d[v]
  BY DistanceAtMost
<1>2. \A v \in V : d[v] \in 0..INF /\ e[v] \in 0..INF
  BY DEF IsDistance
<1> QED
  BY <1>1, <1>2, TopologyAssumption

-----------------------------------------------------------------------------
(* The pairs of a vertex and its distance, up to distance n.               *)
Layered(V, E, u, n, A) ==
  /\ A \subseteq V \X (0..n)
  /\ \A v \in V : \A i, j \in 0..n : <<v, i>> \in A /\ <<v, j>> \in A => i = j
  /\ \A v \in V : <<v, 0>> \in A <=> v = u
  /\ \A v \in V : \A k \in 1..n : <<v, k>> \in A => \E w \in V : <<w, v>> \in E /\ <<w, k - 1>> \in A
  /\ \A w, v \in V : \A k \in 0..n - 1 :
       <<w, k>> \in A /\ <<w, v>> \in E => \E j \in 0..k + 1 : <<v, j>> \in A

LEMMA LayerAdds ==
  ASSUME NEW V, V \subseteq Vertices, NEW E, E \subseteq V \X V, NEW u \in V,
         NEW n \in Nat, n > 0, NEW A, Layered(V, E, u, n - 1, A)
  PROVE  Layered(V, E, u, n, Layer(A, n, E))
<1> DEFINE reached == {p[1] : p \in A}
           new == {v \in Vertices \ reached : \E w \in reached : <<w, v>> \in E}
<1>0. PICK B : B = Layer(A, n, E)
  OBVIOUS
<1>8. A \subseteq V \X (0..n - 1)
  BY DEF Layered
<1>16. \A w, v \in V : \A k \in 0..(n - 1) - 1 :
         <<w, k>> \in A /\ <<w, v>> \in E => \E j \in 0..k + 1 : <<v, j>> \in A
  BY DEF Layered
<1>1. \A v \in V : v \in reached <=> \E j \in 0..n - 1 : <<v, j>> \in A
  <2> SUFFICES ASSUME NEW v \in V PROVE v \in reached <=> \E j \in 0..n - 1 : <<v, j>> \in A
    OBVIOUS
  <2>1. ASSUME v \in reached PROVE \E j \in 0..n - 1 : <<v, j>> \in A
    <3>1. PICK p \in A : p[1] = v
      BY <2>1
    <3>2. p = <<v, p[2]>> /\ p[2] \in 0..n - 1
      BY <1>8, <3>1
    <3> QED
      BY <3>1, <3>2
  <2>2. ASSUME NEW j \in 0..n - 1, <<v, j>> \in A PROVE v \in reached
    <3>1. <<v, j>>[1] = v
      OBVIOUS
    <3> QED
      BY <2>2, <3>1
  <2> QED
    BY <2>1, <2>2
<1>2. reached \subseteq V
  BY DEF Layered
<1>3. B = A \cup {<<v, n>> : v \in new}
  BY <1>0 DEF Layer
<1>4. \A v \in V : v \in new <=> v \notin reached /\ \E w \in reached : <<w, v>> \in E
  OBVIOUS
<1>5. new \subseteq V
  BY <1>2
<1> HIDE DEF reached, new
<1>6. \A j \in 0..n - 1 : j \in 0..n /\ j # n /\ j \in Nat
  OBVIOUS
<1>7. n \in 0..n /\ \A j \in 0..n : j = n \/ j \in 0..n - 1
  OBVIOUS
<1>9. \A v \in V : \A j \in 0..n : <<v, j>> \in B <=> IF j = n THEN v \in new ELSE <<v, j>> \in A
  BY <1>3, <1>5, <1>6, <1>7, <1>8
<1>10. B \subseteq V \X (0..n)
  BY <1>3, <1>5, <1>6, <1>7, <1>8
<1>11. \A v \in V : \A i, j \in 0..n : <<v, i>> \in B /\ <<v, j>> \in B => i = j
  <2> SUFFICES ASSUME NEW v \in V, NEW i \in 0..n, NEW j \in 0..n, <<v, i>> \in B, <<v, j>> \in B
               PROVE  i = j
    OBVIOUS
  <2>1. CASE i # n /\ j # n
    BY <1>7, <1>9, <2>1 DEF Layered
  <2>2. CASE i = n \/ j = n
    BY <1>1, <1>4, <1>7, <1>9, <2>2
  <2> QED
    BY <2>1, <2>2
<1>12. \A v \in V : <<v, 0>> \in B <=> v = u
  <2>1. 0 \in 0..n /\ 0 # n
    OBVIOUS
  <2> QED
    BY <1>9, <2>1 DEF Layered
<1>13. \A w, v \in V : \A k \in 0..n - 1 :
         <<w, k>> \in B /\ <<w, v>> \in E => \E j \in 0..k + 1 : <<v, j>> \in B
  <2> SUFFICES ASSUME NEW w \in V, NEW v \in V, NEW k \in 0..n - 1, <<w, k>> \in B, <<w, v>> \in E
               PROVE  \E j \in 0..k + 1 : <<v, j>> \in B
    OBVIOUS
  <2>1. <<w, k>> \in A
    BY <1>6, <1>9
  <2>2. CASE k = n - 1
    <3>1. k + 1 = n
      BY <2>2
    <3>2. CASE v \in reached
      <4>1. PICK j \in 0..n - 1 : <<v, j>> \in A
        BY <1>1, <3>2
      <4> QED
        BY <1>3, <1>6, <3>1, <4>1
    <3>3. CASE v \notin reached
      <4>1. w \in reached
        BY <1>1, <2>1
      <4> QED
        BY <1>4, <1>7, <1>9, <3>1, <3>3, <4>1
    <3> QED
      BY <3>2, <3>3
  <2>3. CASE k # n - 1
    <3>1. k \in 0..(n - 1) - 1
      BY <2>3
    <3>2. PICK j \in 0..k + 1 : <<v, j>> \in A
      BY <1>16, <2>1, <3>1
    <3> QED
      BY <1>3, <3>2
  <2> QED
    BY <2>2, <2>3
<1>14. \A v \in V : \A k \in 1..n : <<v, k>> \in B => \E w \in V : <<w, v>> \in E /\ <<w, k - 1>> \in B
  <2> SUFFICES ASSUME NEW v \in V, NEW k \in 1..n, <<v, k>> \in B
               PROVE  \E w \in V : <<w, v>> \in E /\ <<w, k - 1>> \in A
    BY <1>3
  <2>1. CASE k = n
    <3>1. v \in new
      BY <1>7, <1>9, <2>1
    <3>2. PICK w \in reached : <<w, v>> \in E /\ v \notin reached
      BY <1>4, <3>1
    <3>3. w \in V
      BY <1>2
    <3>4. PICK j \in 0..n - 1 : <<w, j>> \in A
      BY <1>1, <3>3
    <3>5. CASE j = n - 1
      BY <2>1, <3>2, <3>3, <3>4, <3>5
    <3>6. CASE j # n - 1
      <4>1. j \in 0..(n - 1) - 1
        BY <3>6
      <4>2. PICK i \in 0..j + 1 : <<v, i>> \in A
        BY <3>2, <3>3, <3>4, <4>1, <1>16
      <4>3. i \in 0..n - 1
        BY <4>1
      <4> QED
        BY <1>1, <3>2, <4>2, <4>3
    <3> QED
      BY <3>5, <3>6
  <2>2. CASE k # n
    <3>1. k \in 1..n - 1 /\ k \in 0..n
      BY <2>2
    <3>2. <<v, k>> \in A
      BY <1>9, <2>2, <3>1
    <3> QED
      BY <3>1, <3>2 DEF Layered
  <2> QED
    BY <2>1, <2>2
<1>15. Layered(V, E, u, n, B)
  BY <1>10, <1>11, <1>12, <1>13, <1>14 DEF Layered
<1> QED
  BY <1>0, <1>15

-----------------------------------------------------------------------------
(* The pairs D hold the distances d below INF.                             *)
AreDistances(V, E, u, D, d) ==
  /\ IsDistance(V, E, u, d)
  /\ D \subseteq V \X (0..INF - 1)
  /\ \A v \in V : \A k \in 0..INF - 1 : <<v, k>> \in D <=> d[v] = k

LEMMA LayeredDistances ==
  ASSUME NEW V, NEW E, NEW u \in V, NEW A, Layered(V, E, u, INF - 1, A)
  PROVE  \E d : AreDistances(V, E, u, A, d)
<1> DEFINE d == [v \in V |-> IF \E k \in 0..INF - 1 : <<v, k>> \in A
                              THEN CHOOSE k \in 0..INF - 1 : <<v, k>> \in A
                              ELSE INF]
<1>0. INF \in Nat \ {0}
  BY TopologyAssumption
<1>1. /\ A \subseteq V \X (0..INF - 1)
      /\ \A v \in V : \A i, j \in 0..INF - 1 : <<v, i>> \in A /\ <<v, j>> \in A => i = j
      /\ \A v \in V : <<v, 0>> \in A <=> v = u
  BY DEF Layered
<1>2. \A v \in V : \A k \in 1..INF - 1 :
        <<v, k>> \in A => \E w \in V : <<w, v>> \in E /\ <<w, k - 1>> \in A
  BY DEF Layered
<1>3. \A w, v \in V : \A k \in 0..(INF - 1) - 1 :
        <<w, k>> \in A /\ <<w, v>> \in E => \E j \in 0..k + 1 : <<v, j>> \in A
  BY DEF Layered
<1>4. ASSUME NEW v \in V
      PROVE  /\ d[v] \in 0..INF
             /\ \A k \in 0..INF - 1 : <<v, k>> \in A <=> d[v] = k
  <2>1. CASE \E k \in 0..INF - 1 : <<v, k>> \in A
    <3>1. d[v] = CHOOSE k \in 0..INF - 1 : <<v, k>> \in A
      BY <2>1
    <3> HIDE DEF d
    <3>2. d[v] \in 0..INF - 1 /\ <<v, d[v]>> \in A
      BY <2>1, <3>1
    <3>3. 0..INF - 1 \subseteq 0..INF
      BY <1>0
    <3> QED
      BY <1>1, <3>2, <3>3
  <2>2. CASE ~ \E k \in 0..INF - 1 : <<v, k>> \in A
    <3>1. d[v] = INF
      BY <2>2
    <3> HIDE DEF d
    <3>2. INF \in 0..INF /\ \A k \in 0..INF - 1 : k # INF
      BY <1>0
    <3> QED
      BY <2>2, <3>1, <3>2
  <2> QED
    BY <2>1, <2>2
<1>5. d \in [V -> 0..INF]
  <2>1. d = [v \in V |-> d[v]]
    OBVIOUS
  <2> HIDE DEF d
  <2> QED
    BY <1>4, <2>1
<1> HIDE DEF d
<1>6. \A v \in V : d[v] = 0 <=> v = u
  <2>1. 0 \in 0..INF - 1
    BY <1>0
  <2> QED
    BY <1>1, <1>4, <2>1
<1>7. ASSUME NEW w \in V, NEW v \in V, <<w, v>> \in E PROVE d[v] <= d[w] + 1
  <2>1. d[w] \in 0..INF /\ d[v] \in 0..INF
    BY <1>4
  <2>2. CASE d[w] \in 0..(INF - 1) - 1
    <3>1. <<w, d[w]>> \in A
      <4>1. d[w] \in 0..INF - 1
        BY <1>0, <2>2
      <4> QED
        BY <1>4, <4>1
    <3>2. PICK j \in 0..d[w] + 1 : <<v, j>> \in A
      BY <1>3, <1>7, <2>2, <3>1
    <3>3. j \in 0..INF - 1
      BY <1>0, <2>2
    <3>4. d[v] = j
      BY <1>4, <3>2, <3>3
    <3> QED
      BY <2>2, <3>4
  <2>3. CASE d[w] \notin 0..(INF - 1) - 1
    BY <1>0, <2>1, <2>3
  <2> QED
    BY <2>2, <2>3
<1>8. ASSUME NEW v \in V, d[v] \in 1..INF - 1
      PROVE  \E w \in V : <<w, v>> \in E /\ d[w] = d[v] - 1
  <2>1. PICK k \in 1..INF - 1 : k = d[v]
    BY <1>8
  <2>2. k \in 0..INF - 1 /\ k - 1 \in 0..INF - 1
    BY <1>0
  <2>3. <<v, k>> \in A
    BY <1>4, <2>1, <2>2
  <2>4. PICK w \in V : <<w, v>> \in E /\ <<w, k - 1>> \in A
    BY <1>2, <2>3
  <2>5. d[w] = k - 1
    BY <1>4, <2>2, <2>4
  <2> QED
    BY <2>1, <2>4, <2>5
<1>9. IsDistance(V, E, u, d)
  BY <1>5, <1>6, <1>7, <1>8 DEF IsDistance
<1> QED
  BY <1>1, <1>4, <1>9 DEF AreDistances

(* Distances computes the distances.                                       *)
LEMMA DistancesAre ==
  ASSUME NEW V, V \subseteq Vertices, NEW E, E \subseteq V \X V, NEW u \in V
  PROVE  \E d : AreDistances(V, E, u, Distances(E, u), d)
<1> DEFINE N == INF - 1
           S == SUBSET (Vertices \X (0..N))
           b == {<<u, 0>>}
           G == [p \in (1..N) \X S |-> Layer(p[2], p[1], E)]
           body(g) == [n \in 0..N |-> IF n = 0 THEN b ELSE Layer(g[n - 1], n, E)]
           within == CHOOSE g : g = body(g)
<1>1. N \in Nat
  BY TopologyAssumption
<1>2. b \in S
  BY <1>1
<1>3. G \in [(1..N) \X S -> S]
  <2>1. ASSUME NEW n \in 1..N, NEW A \in S PROVE Layer(A, n, E) \in S
    <3>1. n \in 0..N
      BY <1>1
    <3> QED
      BY <3>1 DEF Layer
  <2> HIDE DEF S
  <2> QED
    BY <2>1
<1>4. PICK f : Steps(N, S, b, G, f)
  <2> HIDE DEF N, S, b, G
  <2> QED
    BY <1>1, <1>2, <1>3, StepByStep
<1>5. f = body(f)
  <2>1. ASSUME NEW n \in 1..N PROVE f[n] = Layer(f[n - 1], n, E)
    <3>1. n - 1 \in 0..N /\ f[n - 1] \in S
      BY <1>1, <1>4 DEF Steps
    <3> HIDE DEF S
    <3>2. <<n, f[n - 1]>> \in (1..N) \X S
      BY <3>1
    <3> QED
      BY <1>4, <3>2 DEF Steps
  <2>2. \A n \in 0..N : n = 0 \/ n \in 1..N
    BY <1>1
  <2>3. \A n \in 0..N : f[n] = IF n = 0 THEN b ELSE Layer(f[n - 1], n, E)
    BY <1>4, <2>1, <2>2 DEF Steps
  <2> HIDE DEF S, b
  <2>4. f = [n \in 0..N |-> f[n]]
    BY <1>4 DEF Steps
  <2> QED
    BY <2>3, <2>4
<1>6. within = body(within)
  BY <1>5
<1>7. within[0] = b /\ \A n \in 1..N : within[n] = Layer(within[n - 1], n, E)
  <2> HIDE DEF within, b, N
  <2>1. \A n \in 0..N : within[n] = IF n = 0 THEN b ELSE Layer(within[n - 1], n, E)
    BY <1>6
  <2>2. 0 \in 0..N /\ \A n \in 1..N : n \in 0..N /\ n # 0
    BY <1>1
  <2> QED
    BY <2>1, <2>2
<1>8. Distances(E, u) = within[N]
  BY DEF Distances
<1> HIDE DEF within
<1> DEFINE T == {n \in 0..N : Layered(V, E, u, n, within[n])}
<1>9. 0 \in T
  <2>1. 0 \in 0..N /\ 0 \in 0..0 /\ \A i \in 0..0 : i = 0
    BY <1>1
  <2>2. within[0] = {<<u, 0>>}
    BY <1>7
  <2>3. 0..0 - 1 = {} /\ 1..0 = {}
    OBVIOUS
  <2>4. Layered(V, E, u, 0, within[0])
    BY <2>1, <2>2, <2>3 DEF Layered
  <2> QED
    BY <2>1, <2>4
<1>10. ASSUME NEW n \in 1..N, n - 1 \in T PROVE n \in T
  <2>1. n \in 0..N /\ n \in Nat /\ n > 0
    BY <1>1
  <2>2. PICK A : A = within[n - 1]
    OBVIOUS
  <2>3. Layered(V, E, u, n - 1, A) /\ within[n] = Layer(A, n, E)
    BY <1>7, <1>10, <2>2
  <2>4. Layered(V, E, u, n, Layer(A, n, E))
    BY <2>1, <2>3, LayerAdds
  <2> QED
    BY <2>1, <2>3, <2>4
<1>11. N \in T
  <2> HIDE DEF T
  <2>1. 0..N \subseteq T
    BY <1>1, <1>9, <1>10, UpTo
  <2> QED
    BY <1>1, <2>1
<1>12. Layered(V, E, u, INF - 1, Distances(E, u))
  BY <1>8, <1>11
<1> QED
  BY <1>12, LayeredDistances

-----------------------------------------------------------------------------
(* What holds of d, parent and the open vertices between two steps: d is   *)
(* final for the closed ones, and a parent is one closer.                  *)
Nearing(V, E, q) ==
  /\ q \in [d : [V -> 0..INF], parent : [V -> V \cup {None}], open : SUBSET V]
  /\ \A v \in V : q.d[v] = 0 <=> v = Self
  /\ \A c \in V \ q.open, o \in q.open : q.d[c] <= q.d[o]
  /\ \A c \in V \ q.open, v \in V : <<c, v>> \in E => q.d[v] <= q.d[c] + 1
  /\ \A v \in V : IF q.d[v] \in 1..INF - 1
                   THEN /\ q.parent[v] \in V \ q.open /\ <<q.parent[v], v>> \in E
                        /\ q.d[q.parent[v]] = q.d[v] - 1
                   ELSE q.parent[v] = None

(* The vertex taken is open, and no open one is closer.                    *)
LEMMA LeastIs ==
  ASSUME NEW list \in VertexLists, NEW E, NEW q, Nearing(ToSet(list), E, q), q.open # {}
  PROVE  /\ Least(list, q) \in q.open
         /\ \A o \in q.open : q.d[Least(list, q)] <= q.d[o]
<1> DEFINE V == ToSet(list)
           P(i) == /\ list[i] \in q.open
                   /\ \A j \in DOMAIN list :
                        list[j] \in q.open => \/ q.d[list[i]] < q.d[list[j]]
                                              \/ q.d[list[i]] = q.d[list[j]] /\ i <= j
           D == {q.d[o] : o \in q.open}
<1>1. q.open \subseteq V /\ \A v \in V : q.d[v] \in 0..INF
  BY DEF Nearing
<1>2. \A i \in DOMAIN list : list[i] \in V
  BY DEF ToSet
<1>3. PICK m \in D : \A k \in D : m <= k
  <2>1. D \in SUBSET Nat /\ D # {}
    BY <1>1
  <2> HIDE DEF D
  <2> QED
    BY <2>1, NatMin
<1> DEFINE I == {i \in DOMAIN list : list[i] \in q.open /\ q.d[list[i]] = m}
<1>4. PICK i \in I : \A j \in I : i <= j
  <2>1. I # {}
    <3>1. PICK o \in q.open : q.d[o] = m
      BY <1>3
    <3>2. PICK i \in DOMAIN list : list[i] = o
      BY <1>1, <3>1 DEF ToSet
    <3> QED
      BY <3>1, <3>2
  <2>2. I \in SUBSET Nat
    <3>1. DOMAIN list \subseteq Nat
      BY DEF VertexLists
    <3> QED
      BY <3>1
  <2> HIDE DEF I
  <2> QED
    BY <2>1, <2>2, NatMin
<1>5. P(i)
  <2> SUFFICES ASSUME NEW j \in DOMAIN list, list[j] \in q.open
               PROVE  \/ q.d[list[i]] < q.d[list[j]]
                      \/ q.d[list[i]] = q.d[list[j]] /\ i <= j
    BY <1>4
  <2>1. m <= q.d[list[j]] /\ q.d[list[i]] = m
    BY <1>3, <1>4
  <2>2. q.d[list[j]] \in Nat /\ m \in Nat
    BY <1>1, <1>2, <1>4
  <2>3. q.d[list[j]] = m => i <= j
    BY <1>4
  <2> QED
    BY <2>1, <2>2, <2>3
<1> DEFINE c == CHOOSE k \in DOMAIN list : P(k)
<1>6. c \in DOMAIN list /\ P(c)
  <2>1. i \in DOMAIN list
    BY <1>4
  <2> HIDE DEF P
  <2> QED
    BY <1>5, <2>1
<1>7. Least(list, q) = list[c]
  BY DEF Least
<1> HIDE DEF c
<1>8. ASSUME NEW o \in q.open PROVE q.d[list[c]] <= q.d[o]
  <2>1. PICK j \in DOMAIN list : list[j] = o
    BY <1>1 DEF ToSet
  <2>2. q.d[o] \in Nat /\ q.d[list[c]] \in Nat
    BY <1>1, <1>6
  <2>3. q.d[list[c]] < q.d[o] \/ q.d[list[c]] = q.d[o]
    BY <1>6, <2>1
  <2> QED
    BY <2>2, <2>3
<1> QED
  BY <1>6, <1>7, <1>8

LEMMA SourceIsNear ==
  ASSUME NEW list, Self \in ToSet(list), NEW E
  PROVE  Nearing(ToSet(list), E, InitSingleSource(list))
<1> DEFINE V == ToSet(list)
           q == InitSingleSource(list)
<1>0. INF \in Nat \ {0}
  BY TopologyAssumption
<1>1. /\ q.d = [v \in V |-> IF v = Self THEN 0 ELSE INF]
      /\ q.parent = [v \in V |-> None] /\ q.open = V
      /\ q = [d |-> q.d, parent |-> q.parent, open |-> q.open]
  BY DEF InitSingleSource
<1>2. 0 \in 0..INF /\ INF \in 0..INF /\ 0 \notin 1..INF - 1 /\ INF \notin 1..INF - 1 /\ INF # 0
  BY <1>0
<1>3. q.d \in [V -> 0..INF] /\ q.parent \in [V -> V \cup {None}] /\ q.open \in SUBSET V
  BY <1>1, <1>2
<1> HIDE DEF q
<1>4. q \in [d : [V -> 0..INF], parent : [V -> V \cup {None}], open : SUBSET V]
  BY <1>1, <1>3
<1>5. Nearing(V, E, q)
  BY <1>1, <1>2, <1>4 DEF Nearing
<1> QED
  BY <1>5 DEF q

(* A step closes one vertex and keeps what holds between two steps.        *)
LEMMA RelaxKeeps ==
  ASSUME NEW list \in VertexLists, None \notin ToSet(list), NEW E,
         NEW q, Nearing(ToSet(list), E, q), q.open # {}
  PROVE  /\ Nearing(ToSet(list), E, Relax(list, E, q))
         /\ \E u \in q.open : Relax(list, E, q).open = q.open \ {u}
<1> DEFINE V == ToSet(list)
           Q == [d : [V -> 0..INF], parent : [V -> V \cup {None}], open : SUBSET V]
<1>0. INF \in Nat \ {0}
  BY TopologyAssumption
<1>1. PICK u : u = Least(list, q)
  OBVIOUS
<1> DEFINE closer == {v \in V : <<u, v>> \in E /\ q.d[v] > q.d[u] + 1}
           nd == [v \in V |-> IF v \in closer THEN q.d[u] + 1 ELSE q.d[v]]
           np == [v \in V |-> IF v \in closer THEN u ELSE q.parent[v]]
           no == q.open \ {u}
<1>2. Relax(list, E, q) = [d |-> nd, parent |-> np, open |-> no]
  BY <1>1 DEF Relax
<1>3. u \in q.open /\ \A o \in q.open : q.d[u] <= q.d[o]
  BY <1>1, LeastIs
<1>4. /\ q.open \subseteq V /\ u \in V
      /\ \A v \in V : q.d[v] \in 0..INF
      /\ \A v \in V : q.parent[v] \in V \cup {None}
  BY <1>3 DEF Nearing
<1>5. /\ \A v \in V : q.d[v] = 0 <=> v = Self
      /\ \A c \in V \ q.open, o \in q.open : q.d[c] <= q.d[o]
      /\ \A c \in V \ q.open, v \in V : <<c, v>> \in E => q.d[v] <= q.d[c] + 1
  BY DEF Nearing
<1>6. \A v \in V : IF q.d[v] \in 1..INF - 1
                   THEN /\ q.parent[v] \in V \ q.open /\ <<q.parent[v], v>> \in E
                        /\ q.d[q.parent[v]] = q.d[v] - 1
                   ELSE q.parent[v] = None
  BY DEF Nearing
<1>7. \A v \in V : v \in closer <=> <<u, v>> \in E /\ q.d[v] > q.d[u] + 1
  OBVIOUS
<1>8. \A v \in V : /\ nd[v] = IF v \in closer THEN q.d[u] + 1 ELSE q.d[v]
                   /\ np[v] = IF v \in closer THEN u ELSE q.parent[v]
  OBVIOUS
<1>9. \A v \in V : v \in closer => v \in no /\ q.d[u] + 1 \in 1..INF - 1
  <2> SUFFICES ASSUME NEW v \in V, v \in closer PROVE v \in no /\ q.d[u] + 1 \in 1..INF - 1
    OBVIOUS
  <2>1. q.d[v] > q.d[u] + 1 /\ q.d[u] \in 0..INF /\ q.d[v] \in 0..INF
    BY <1>4, <1>7
  <2>2. q.d[u] + 1 \in 1..INF - 1
    BY <1>0, <2>1
  <2>3. v # u
    BY <2>1
  <2>4. v \in q.open
    <3> SUFFICES ASSUME v \notin q.open PROVE FALSE
      OBVIOUS
    <3>1. q.d[v] <= q.d[u]
      BY <1>3, <1>5
    <3> QED
      BY <2>1, <3>1
  <2> QED
    BY <2>2, <2>3, <2>4
<1>10. \A v \in V : nd[v] \in 0..INF /\ nd[v] <= q.d[v] /\ (v \notin no => nd[v] = q.d[v])
  <2> SUFFICES ASSUME NEW v \in V
               PROVE  nd[v] \in 0..INF /\ nd[v] <= q.d[v] /\ (v \notin no => nd[v] = q.d[v])
    OBVIOUS
  <2>1. CASE v \in closer
    <3>1. nd[v] = q.d[u] + 1 /\ q.d[v] > q.d[u] + 1 /\ q.d[u] \in 0..INF /\ q.d[v] \in 0..INF
      BY <1>4, <1>7, <1>8, <2>1
    <3> QED
      BY <1>0, <1>9, <2>1, <3>1
  <2>2. CASE v \notin closer
    <3>1. nd[v] = q.d[v] /\ q.d[v] \in 0..INF
      BY <1>4, <1>8, <2>2
    <3> QED
      BY <3>1
  <2> QED
    BY <2>1, <2>2
<1>11. [d |-> nd, parent |-> np, open |-> no] \in Q
  <2>1. nd \in [V -> 0..INF]
    <3>1. nd = [v \in V |-> nd[v]]
      OBVIOUS
    <3> HIDE DEF nd
    <3> QED
      BY <1>10, <3>1
  <2>2. np \in [V -> V \cup {None}] /\ no \in SUBSET V
    BY <1>4
  <2> HIDE DEF nd, np, no
  <2> QED
    BY <2>1, <2>2
<1>12. \A v \in V : v \in V \ no <=> v = u \/ v \in V \ q.open
  BY <1>3, <1>4
<1>13. no \subseteq q.open
  OBVIOUS
<1> HIDE DEF nd, np, no, closer
<1>14. \A v \in V : nd[v] = 0 <=> v = Self
  <2> SUFFICES ASSUME NEW v \in V PROVE nd[v] = 0 <=> v = Self
    OBVIOUS
  <2>1. CASE v \in closer
    <3>1. nd[v] = q.d[u] + 1 /\ q.d[v] > q.d[u] + 1 /\ q.d[u] \in 0..INF /\ q.d[v] \in 0..INF
      BY <1>4, <1>7, <1>8, <2>1
    <3>2. nd[v] # 0 /\ q.d[v] # 0
      BY <1>0, <3>1
    <3> QED
      BY <1>5, <3>2
  <2>2. CASE v \notin closer
    BY <1>5, <1>8, <2>2
  <2> QED
    BY <2>1, <2>2
<1>15. ASSUME NEW c \in V \ no, NEW o \in no PROVE nd[c] <= nd[o]
  <2>1. nd[c] = q.d[c] /\ q.d[c] <= q.d[u] /\ q.d[c] <= q.d[o]
    <3>1. q.d[c] <= q.d[u] /\ q.d[c] <= q.d[o]
      <4>1. CASE c = u
        BY <1>3, <1>4, <1>13, <4>1
      <4>2. CASE c \in V \ q.open
        BY <1>3, <1>5, <1>13, <4>2
      <4> QED
        BY <1>12, <4>1, <4>2
    <3> QED
      BY <1>10, <3>1
  <2>2. nd[o] = q.d[o] \/ nd[o] = q.d[u] + 1
    BY <1>4, <1>8, <1>13
  <2>3. q.d[c] \in Nat /\ q.d[u] \in Nat /\ q.d[o] \in Nat
    BY <1>4, <1>13
  <2> QED
    BY <2>1, <2>2, <2>3
<1>16. ASSUME NEW c \in V \ no, NEW v \in V, <<c, v>> \in E PROVE nd[v] <= nd[c] + 1
  <2>1. nd[c] = q.d[c] /\ nd[v] <= q.d[v] /\ q.d[c] \in Nat /\ q.d[v] \in Nat /\ nd[v] \in Nat
    BY <1>4, <1>10
  <2>2. CASE c \in V \ q.open
    <3>1. q.d[v] <= q.d[c] + 1
      BY <1>5, <1>16, <2>2
    <3> QED
      BY <2>1, <3>1
  <2>3. CASE c = u
    <3>1. CASE v \in closer
      BY <1>8, <2>1, <2>3, <3>1
    <3>2. CASE v \notin closer
      <4>1. ~ (q.d[v] > q.d[c] + 1)
        BY <1>7, <1>16, <2>3, <3>2
      <4> QED
        BY <2>1, <4>1
    <3> QED
      BY <3>1, <3>2
  <2> QED
    BY <1>12, <2>2, <2>3
<1>17. ASSUME NEW v \in V
       PROVE  IF nd[v] \in 1..INF - 1
              THEN np[v] \in V \ no /\ <<np[v], v>> \in E /\ nd[np[v]] = nd[v] - 1
              ELSE np[v] = None
  <2>1. CASE v \in closer
    <3>1. np[v] = u /\ nd[v] = q.d[u] + 1 /\ nd[v] \in 1..INF - 1 /\ <<u, v>> \in E
      BY <1>7, <1>8, <1>9, <2>1
    <3>2. u \in V \ no /\ nd[u] = q.d[u]
      BY <1>4, <1>10, <1>12
    <3>3. q.d[u] \in Nat
      BY <1>4
    <3>4. nd[u] = nd[v] - 1
      BY <3>1, <3>2, <3>3
    <3> QED
      BY <3>1, <3>2, <3>4
  <2>2. CASE v \notin closer
    <3>1. np[v] = q.parent[v] /\ nd[v] = q.d[v]
      BY <1>8, <2>2
    <3>2. CASE nd[v] \in 1..INF - 1
      <4>1. q.parent[v] \in V \ q.open /\ <<q.parent[v], v>> \in E /\ q.d[q.parent[v]] = q.d[v] - 1
        BY <1>6, <3>1, <3>2
      <4>2. q.parent[v] \in V \ no
        BY <1>12, <4>1
      <4>3. nd[q.parent[v]] = q.d[q.parent[v]]
        BY <1>10, <4>2
      <4> QED
        BY <3>1, <3>2, <4>1, <4>2, <4>3
    <3>3. CASE nd[v] \notin 1..INF - 1
      BY <1>6, <3>1, <3>3
    <3> QED
      BY <3>2, <3>3
  <2> QED
    BY <2>1, <2>2
<1>18. Nearing(V, E, [d |-> nd, parent |-> np, open |-> no])
  <2> DEFINE r == [d |-> nd, parent |-> np, open |-> no]
  <2>1. r \in Q /\ r.d = nd /\ r.parent = np /\ r.open = no
    BY <1>11
  <2> HIDE DEF r
  <2>2. Nearing(V, E, r)
    BY <1>14, <1>15, <1>16, <1>17, <2>1 DEF Nearing
  <2> QED
    BY <2>2 DEF r
<1>19. Relax(list, E, q).open = q.open \ {u}
  BY <1>2 DEF no
<1> QED
  BY <1>2, <1>3, <1>18, <1>19

-----------------------------------------------------------------------------
(* A vertex below INF has a parent one closer to Self, the others none.    *)
ShortestTree(V, E, d, parent) ==
  /\ IsDistance(V, E, Self, d)
  /\ parent \in [V -> V \cup {None}]
  /\ \A v \in V : IF d[v] \in 1..INF - 1
                   THEN /\ parent[v] \in V /\ <<parent[v], v>> \in E
                        /\ d[parent[v]] = d[v] - 1
                   ELSE parent[v] = None

LEMMA NearestIsTree ==
  ASSUME NEW V, None \notin V, NEW E, NEW q, Nearing(V, E, q), q.open = {}
  PROVE  ShortestTree(V, E, q.d, q.parent)
<1>1. /\ q.d \in [V -> 0..INF] /\ q.parent \in [V -> V \cup {None}]
      /\ \A v \in V : q.d[v] = 0 <=> v = Self
      /\ \A c, v \in V : <<c, v>> \in E => q.d[v] <= q.d[c] + 1
      /\ \A v \in V : IF q.d[v] \in 1..INF - 1
                       THEN /\ q.parent[v] \in V /\ <<q.parent[v], v>> \in E
                            /\ q.d[q.parent[v]] = q.d[v] - 1
                       ELSE q.parent[v] = None
  BY DEF Nearing
<1>2. \A v \in V : q.d[v] \in 1..INF - 1 => \E w \in V : <<w, v>> \in E /\ q.d[w] = q.d[v] - 1
  BY <1>1
<1>3. IsDistance(V, E, Self, q.d)
  BY <1>1, <1>2 DEF IsDistance
<1> QED
  BY <1>1, <1>3 DEF ShortestTree

LEMMA ListCardinality ==
  ASSUME NEW list \in VertexLists
  PROVE  IsFiniteSet(ToSet(list)) /\ Cardinality(ToSet(list)) = Len(list)
<1> DEFINE V == ToSet(list)
<1>1. PICK n \in Nat : n = Len(list)
  BY DEF VertexLists
<1>2. /\ DOMAIN list = 1..n /\ V = {list[i] : i \in 1..n}
      /\ \A i, j \in 1..n : list[i] = list[j] => i = j
  <2>1. list \in Seq(Vertices) /\ IsInjective(list)
    BY DEF VertexLists
  <2>2. DOMAIN list = 1..n
    BY <1>1, <2>1
  <2> QED
    BY <2>1, <2>2 DEF ToSet, IsInjective
<1> DEFINE f == [i \in 1..n |-> list[i]]
<1>3. f \in Bijection(1..n, V)
  <2>1. f \in [1..n -> V]
    BY <1>2
  <2>2. \A i, j \in 1..n : f[i] = f[j] => i = j
    BY <1>2
  <2>3. \A v \in V : \E i \in 1..n : f[i] = v
    BY <1>2
  <2> HIDE DEF f, V
  <2> QED
    BY <2>1, <2>2, <2>3 DEF Bijection, Injection, Surjection, IsInjective
<1>4. ExistsBijection(1..n, V)
  <2> HIDE DEF f, V
  <2> QED
    BY <1>3 DEF ExistsBijection
<1>5. IsFiniteSet(1..n) /\ Cardinality(1..n) = n
  <2>1. 1 \in Int /\ n \in Int
    OBVIOUS
  <2>2. IsFiniteSet(1..n) /\ Cardinality(1..n) = IF 1 > n THEN 0 ELSE n - 1 + 1
    BY <2>1, FS_Interval
  <2> QED
    BY <2>2
<1>6. IsFiniteSet(V) /\ Cardinality(V) = Cardinality(1..n)
  <2> HIDE DEF V
  <2> QED
    BY <1>4, <1>5, FS_Bijection
<1> QED
  BY <1>1, <1>5, <1>6

(* dijkstra_algorithm computes a tree of shortest paths.                   *)
LEMMA DijkstraIs ==
  ASSUME NEW list \in VertexLists, Self \in ToSet(list), NEW E
  PROVE  \E d : ShortestTree(ToSet(list), E, d, dijkstra_algorithm(list, E))
<1> DEFINE N == Len(list)
           V == ToSet(list)
           Q == [d : [V -> 0..INF], parent : [V -> V \cup {None}], open : SUBSET V]
           S == {q \in Q : Nearing(V, E, q)}
           b == InitSingleSource(list)
           G == [p \in (1..N) \X S |-> IF p[2].open = {} THEN p[2] ELSE Relax(list, E, p[2])]
           body(g) == [n \in 0..N |-> IF n = 0 THEN b ELSE Relax(list, E, g[n - 1])]
           q == CHOOSE g : g = body(g)
<1>1. N \in Nat
  BY DEF VertexLists
<1>2. None \notin V
  BY TopologyAssumption DEF VertexLists, ToSet
<1>3. b \in S
  <2>1. Nearing(V, E, b)
    BY SourceIsNear
  <2> HIDE DEF b, V
  <2> QED
    BY <2>1 DEF Nearing
<1>4. \A r : Nearing(V, E, r) => r \in S
  BY DEF Nearing
<1>5. ASSUME NEW r \in S, r.open # {}
      PROVE  Relax(list, E, r) \in S /\ \E u \in r.open : Relax(list, E, r).open = r.open \ {u}
  <2>1. Nearing(V, E, r)
    OBVIOUS
  <2>2. Nearing(V, E, Relax(list, E, r)) /\ \E u \in r.open : Relax(list, E, r).open = r.open \ {u}
    BY <1>2, <1>5, <2>1, RelaxKeeps
  <2> HIDE DEF S
  <2> QED
    BY <1>4, <2>2
<1>6. G \in [(1..N) \X S -> S]
  <2> HIDE DEF S
  <2> QED
    BY <1>5
<1>7. PICK f : Steps(N, S, b, G, f)
  <2> HIDE DEF N, S, b, G
  <2> QED
    BY <1>1, <1>3, <1>6, StepByStep
<1>8. \A n \in 1..N : n - 1 \in 0..N /\ f[n - 1] \in S
  <2>1. f \in [0..N -> S]
    BY <1>7 DEF Steps
  <2> HIDE DEF S
  <2>2. \A n \in 1..N : n - 1 \in 0..N
    BY <1>1
  <2> QED
    BY <2>1, <2>2
<1>9. \A n \in 1..N : f[n] = IF f[n - 1].open = {} THEN f[n - 1] ELSE Relax(list, E, f[n - 1])
  <2> SUFFICES ASSUME NEW n \in 1..N
               PROVE  f[n] = IF f[n - 1].open = {} THEN f[n - 1] ELSE Relax(list, E, f[n - 1])
    OBVIOUS
  <2>1. <<n, f[n - 1]>> \in (1..N) \X S
    <3> HIDE DEF S
    <3> QED
      BY <1>8
  <2>2. f[n] = G[<<n, f[n - 1]>>]
    BY <1>7 DEF Steps
  <2> HIDE DEF S
  <2> QED
    BY <2>1, <2>2
<1>10. f[0] = b /\ f[0] \in S
  BY <1>3, <1>7 DEF Steps
<1> DEFINE T == {n \in 0..N : IsFiniteSet(f[n].open) /\ Cardinality(f[n].open) = N - n}
<1>11. 0 \in T
  <2>1. f[0].open = V
    BY <1>10 DEF InitSingleSource
  <2>2. IsFiniteSet(V) /\ Cardinality(V) = N
    BY ListCardinality
  <2> HIDE DEF N, V
  <2> QED
    BY <1>1, <2>1, <2>2
<1>12. ASSUME NEW n \in 1..N, n - 1 \in T PROVE n \in T
  <2>1. n \in 0..N /\ N - (n - 1) # 0
    BY <1>1
  <2>2. IsFiniteSet(f[n - 1].open) /\ Cardinality(f[n - 1].open) = N - (n - 1)
    BY <1>12
  <2>3. f[n - 1].open # {}
    BY <2>1, <2>2, FS_EmptySet
  <2>4. f[n] = Relax(list, E, f[n - 1])
    BY <1>9, <2>3
  <2>5. PICK u \in f[n - 1].open : f[n].open = f[n - 1].open \ {u}
    <3> HIDE DEF S
    <3>1. PICK r \in S : r = f[n - 1]
      BY <1>8
    <3>2. \E u \in r.open : Relax(list, E, r).open = r.open \ {u}
      BY <1>5, <2>3, <3>1
    <3> QED
      BY <2>4, <3>1, <3>2
  <2>6. IsFiniteSet(f[n].open) /\ Cardinality(f[n].open) = (N - (n - 1)) - 1
    <3> HIDE DEF N
    <3>1. PICK O : O = f[n - 1].open
      OBVIOUS
    <3>2. IsFiniteSet(O) /\ u \in O /\ f[n].open = O \ {u}
      BY <2>2, <2>5, <3>1
    <3>3. IsFiniteSet(O \ {u}) /\ Cardinality(O \ {u}) = Cardinality(O) - 1
      BY <3>2, FS_RemoveElement
    <3> QED
      BY <2>2, <3>1, <3>2, <3>3
  <2>7. (N - (n - 1)) - 1 = N - n
    BY <1>1
  <2> HIDE DEF N
  <2> QED
    BY <2>1, <2>6, <2>7
<1>13. 0..N \subseteq T
  <2> HIDE DEF T, N
  <2> QED
    BY <1>1, <1>11, <1>12, UpTo
<1>14. f = body(f)
  <2>1. ASSUME NEW n \in 1..N PROVE f[n] = Relax(list, E, f[n - 1])
    <3>1. n - 1 \in T
      <4> HIDE DEF T
      <4> QED
        BY <1>8, <1>13
    <3>2. Cardinality(f[n - 1].open) = N - (n - 1) /\ N - (n - 1) # 0
      BY <1>1, <3>1
    <3>3. f[n - 1].open # {}
      BY <3>2, FS_EmptySet
    <3> QED
      BY <1>9, <3>3
  <2>2. \A n \in 0..N : n = 0 \/ n \in 1..N
    BY <1>1
  <2> HIDE DEF S, b, N
  <2>3. \A n \in 0..N : f[n] = IF n = 0 THEN b ELSE Relax(list, E, f[n - 1])
    BY <1>10, <2>1, <2>2
  <2>4. f = [n \in 0..N |-> f[n]]
    BY <1>7 DEF Steps
  <2> QED
    BY <2>3, <2>4
<1>15. q = body(q)
  BY <1>14
<1>16. q[0] = b /\ \A n \in 1..N : q[n] = Relax(list, E, q[n - 1])
  <2> HIDE DEF q, b, N
  <2>1. \A n \in 0..N : q[n] = IF n = 0 THEN b ELSE Relax(list, E, q[n - 1])
    BY <1>15
  <2>2. 0 \in 0..N /\ \A n \in 1..N : n \in 0..N /\ n # 0
    BY <1>1
  <2> QED
    BY <2>1, <2>2
<1>17. f[0] = b /\ \A n \in 1..N : f[n] = Relax(list, E, f[n - 1])
  <2> HIDE DEF q, b, N
  <2>1. \A n \in 0..N : f[n] = IF n = 0 THEN b ELSE Relax(list, E, f[n - 1])
    BY <1>14
  <2>2. 0 \in 0..N /\ \A n \in 1..N : n \in 0..N /\ n # 0
    BY <1>1
  <2> QED
    BY <2>1, <2>2
<1>18. q[N] = f[N]
  <2> DEFINE U == {n \in 0..N : q[n] = f[n]}
  <2> HIDE DEF q, b, N
  <2>1. 0 \in U
    BY <1>1, <1>16, <1>17
  <2>2. ASSUME NEW n \in 1..N, n - 1 \in U PROVE n \in U
    <3>1. n \in 0..N
      BY <1>1
    <3> QED
      BY <1>16, <1>17, <2>2, <3>1
  <2>3. 0..N \subseteq U
    <3> HIDE DEF U
    <3> QED
      BY <1>1, <2>1, <2>2, UpTo
  <2>4. N \in 0..N
    BY <1>1
  <2> QED
    BY <2>3, <2>4
<1>19. dijkstra_algorithm(list, E) = q[N].parent
  BY DEF dijkstra_algorithm
<1>20. Nearing(V, E, f[N]) /\ f[N].open = {}
  <2>1. N \in 0..N /\ N - N = 0
    BY <1>1
  <2>2. f[N] \in S
    <3>1. f \in [0..N -> S]
      BY <1>7 DEF Steps
    <3> HIDE DEF S, N
    <3> QED
      BY <2>1, <3>1
  <2>3. IsFiniteSet(f[N].open) /\ Cardinality(f[N].open) = 0
    <3>1. N \in T
      <4> HIDE DEF T, N
      <4> QED
        BY <1>13, <2>1
    <3> QED
      BY <2>1, <3>1
  <2>4. f[N].open = {}
    BY <2>3, FS_EmptySet
  <2> QED
    BY <2>2, <2>4
<1>21. ShortestTree(V, E, f[N].d, f[N].parent)
  <2> HIDE DEF V, N
  <2> QED
    BY <1>2, <1>20, NearestIsTree
<1> QED
  BY <1>18, <1>19, <1>21

-----------------------------------------------------------------------------
(* The function that FirstHop defines by recursion along the parents.      *)
HopBody(parent, h) ==
  [v \in DOMAIN parent |->
     IF parent[v] = Self THEN v ELSE IF parent[v] = None THEN None ELSE h[parent[v]]]

LEMMA HopExists ==
  ASSUME NEW V, None \notin V, NEW E, NEW d, NEW parent, ShortestTree(V, E, d, parent)
  PROVE  \E h : h = HopBody(parent, h)
<1> DEFINE F == [V -> V \cup {None}]
           rhs(h, v) == IF parent[v] = Self THEN v
                        ELSE IF parent[v] = None THEN None ELSE h[parent[v]]
           T == {k \in 0..INF :
                   \E h \in F : \A v \in V : d[v] <= k \/ d[v] = INF => h[v] = rhs(h, v)}
<1>0. INF \in Nat \ {0} /\ None # Self
  BY TopologyAssumption DEF Vertices
<1>1. /\ parent \in F /\ \A v \in V : d[v] \in 0..INF
      /\ \A v \in V : IF d[v] \in 1..INF - 1
                       THEN parent[v] \in V /\ d[parent[v]] = d[v] - 1
                       ELSE parent[v] = None
  BY DEF ShortestTree, IsDistance
<1>2. 0 \in T
  <2> DEFINE h == [v \in V |-> None]
  <2>1. h \in F /\ \A v \in V : h[v] = None
    OBVIOUS
  <2>2. \A v \in V : d[v] <= 0 \/ d[v] = INF => parent[v] = None
    <3> SUFFICES ASSUME NEW v \in V, d[v] <= 0 \/ d[v] = INF PROVE parent[v] = None
      OBVIOUS
    <3>1. d[v] \notin 1..INF - 1
      BY <1>0, <1>1
    <3> QED
      BY <1>1, <3>1
  <2> HIDE DEF h, F
  <2>3. \A v \in V : d[v] <= 0 \/ d[v] = INF => h[v] = rhs(h, v)
    BY <1>0, <2>1, <2>2
  <2>4. 0 \in 0..INF
    BY <1>0
  <2> HIDE DEF rhs
  <2> QED
    BY <2>1, <2>3, <2>4
<1>3. ASSUME NEW k \in 1..INF, k - 1 \in T PROVE k \in T
  <2>1. PICK h \in F : \A v \in V : d[v] <= k - 1 \/ d[v] = INF => h[v] = rhs(h, v)
    BY <1>3
  <2> DEFINE g == [v \in V |-> IF d[v] = k THEN rhs(h, v) ELSE h[v]]
  <2>2. g \in F
    <3>1. \A v \in V : rhs(h, v) \in V \cup {None}
      BY <1>1
    <3> HIDE DEF rhs
    <3> QED
      BY <3>1
  <2>3. \A v \in V : g[v] = IF d[v] = k THEN rhs(h, v) ELSE h[v]
    OBVIOUS
  <2> HIDE DEF g
  <2>4. ASSUME NEW v \in V, d[v] <= k \/ d[v] = INF PROVE g[v] = rhs(g, v)
    <3>1. CASE d[v] \notin 1..INF - 1
      <4>1. parent[v] = None /\ (d[v] = 0 \/ d[v] = INF)
        BY <1>0, <1>1, <3>1
      <4>2. h[v] = None
        <5>1. d[v] <= k - 1 \/ d[v] = INF
          BY <4>1
        <5>2. h[v] = rhs(h, v)
          BY <2>1, <5>1
        <5> QED
          BY <1>0, <4>1, <5>2
      <4> QED
        BY <1>0, <2>3, <4>1, <4>2
    <3>2. CASE d[v] \in 1..INF - 1
      <4>1. parent[v] \in V /\ d[parent[v]] = d[v] - 1 /\ d[v] <= k
        BY <1>0, <1>1, <2>4, <3>2
      <4>2. d[parent[v]] # k
        BY <3>2, <4>1
      <4>3. g[parent[v]] = h[parent[v]]
        BY <2>3, <4>1, <4>2
      <4>4. rhs(g, v) = rhs(h, v)
        BY <4>3
      <4>5. g[v] = rhs(h, v)
        <5>1. CASE d[v] = k
          BY <2>3, <5>1
        <5>2. CASE d[v] # k
          <6>1. d[v] <= k - 1
            BY <3>2, <4>1, <5>2
          <6>2. h[v] = rhs(h, v)
            BY <2>1, <6>1
          <6> QED
            BY <2>3, <5>2, <6>2
        <5> QED
          BY <5>1, <5>2
      <4> QED
        BY <4>4, <4>5
    <3> QED
      BY <3>1, <3>2
  <2>5. k \in 0..INF
    OBVIOUS
  <2> HIDE DEF F, rhs
  <2> QED
    BY <2>2, <2>4, <2>5
<1>4. INF \in T
  <2> HIDE DEF T
  <2>1. 0..INF \subseteq T
    BY <1>0, <1>2, <1>3, UpTo
  <2> QED
    BY <1>0, <2>1
<1>5. PICK h \in F : \A v \in V : d[v] <= INF \/ d[v] = INF => h[v] = rhs(h, v)
  BY <1>4
<1>6. \A v \in V : h[v] = rhs(h, v)
  <2>1. \A v \in V : d[v] <= INF
    BY <1>0, <1>1
  <2> HIDE DEF rhs
  <2> QED
    BY <1>5, <2>1
<1>7. DOMAIN parent = V /\ h = [v \in V |-> h[v]]
  BY <1>1
<1>8. h = HopBody(parent, h)
  BY <1>6, <1>7 DEF HopBody
<1> QED
  BY <1>8

(* FirstHop by its recursion.                                              *)
LEMMA HopIs ==
  ASSUME NEW V, None \notin V, NEW E, NEW d, NEW parent, ShortestTree(V, E, d, parent)
  PROVE  \E h : /\ \A v \in V :
                     h[v] = IF parent[v] = Self THEN v
                            ELSE IF parent[v] = None THEN None ELSE h[parent[v]]
                /\ \A s \in V : FirstHop(parent, s) =
                     IF parent[s] \in {None, Self} THEN None ELSE h[parent[s]]
<1> DEFINE body(g) == [v \in DOMAIN parent |->
                         IF parent[v] = Self THEN v
                         ELSE IF parent[v] = None THEN None ELSE g[parent[v]]]
           hop == CHOOSE g : g = body(g)
<1>1. \E g : g = body(g)
  BY HopExists DEF HopBody
<1>2. hop = body(hop)
  BY <1>1
<1>3. DOMAIN parent = V
  BY DEF ShortestTree
<1>4. \A s \in V : FirstHop(parent, s) =
        IF parent[s] \in {None, Self} THEN None ELSE hop[parent[s]]
  BY DEF FirstHop
<1> HIDE DEF hop
<1>5. \A v \in V : hop[v] = IF parent[v] = Self THEN v
                            ELSE IF parent[v] = None THEN None ELSE hop[parent[v]]
  BY <1>2, <1>3
<1> QED
  BY <1>4, <1>5

-----------------------------------------------------------------------------
(* Following the parents of a router leads to a neighbour of Self that is  *)
(* one closer to that router than Self.                                    *)
LEMMA HopIsOnTheWay ==
  ASSUME NEW V, None \notin V, V \subseteq Vertices,
         NEW E, E \subseteq (Routers \cap V) \X V,
         NEW d, NEW parent, ShortestTree(V, E, d, parent),
         NEW h,
         \A v \in V : h[v] = IF parent[v] = Self THEN v
                              ELSE IF parent[v] = None THEN None ELSE h[parent[v]]
  PROVE  \A v \in Routers \cap V : d[v] \in 1..INF - 1 =>
           /\ h[v] \in Routers \cap V /\ <<Self, h[v]>> \in E
           /\ \A dx : IsDistance(V, E, h[v], dx) => dx[v] <= d[v] - 1
<1> DEFINE OnTheWay(v) == /\ h[v] \in Routers \cap V /\ <<Self, h[v]>> \in E
                          /\ \A dx : IsDistance(V, E, h[v], dx) => dx[v] <= d[v] - 1
           T == {k \in 0..INF - 1 : \A v \in Routers \cap V : d[v] = k /\ k # 0 => OnTheWay(v)}
<1>0. INF \in Nat \ {0} /\ None # Self
  BY TopologyAssumption DEF Vertices
<1>1. /\ \A v \in V : d[v] \in 0..INF
      /\ \A v \in V : d[v] = 0 <=> v = Self
      /\ \A v \in V : d[v] \in 1..INF - 1 =>
           parent[v] \in V /\ <<parent[v], v>> \in E /\ d[parent[v]] = d[v] - 1
  BY DEF ShortestTree, IsDistance
<1>2. 0 \in T
  BY <1>0
<1>3. ASSUME NEW k \in 1..INF - 1, k - 1 \in T PROVE k \in T
  <2>1. k \in 0..INF - 1
    BY <1>0
  <2>2. ASSUME NEW v \in Routers \cap V, d[v] = k PROVE OnTheWay(v)
    <3>1. PICK w : w = parent[v]
      OBVIOUS
    <3>2. w \in Routers \cap V /\ <<w, v>> \in E /\ d[w] = k - 1 /\ w # None
      BY <1>1, <2>2, <3>1
    <3>3. CASE w = Self
      <4>1. h[v] = v /\ <<Self, v>> \in E
        BY <3>1, <3>2, <3>3
      <4>2. \A dx : IsDistance(V, E, v, dx) => dx[v] = 0
        BY DEF IsDistance
      <4>3. 0 <= d[v] - 1
        BY <2>2
      <4> QED
        BY <4>1, <4>2, <4>3
    <3>4. CASE w # Self
      <4>1. h[v] = h[w]
        BY <3>1, <3>2, <3>4
      <4>2. k - 1 # 0
        BY <1>1, <3>2, <3>4
      <4>3. OnTheWay(w)
        BY <1>3, <3>2, <4>2
      <4>4. ASSUME NEW dx, IsDistance(V, E, h[v], dx) PROVE dx[v] <= d[v] - 1
        <5>1. dx[w] <= d[w] - 1
          BY <4>1, <4>3, <4>4
        <5>2. dx[v] <= dx[w] + 1 /\ dx[v] \in 0..INF /\ dx[w] \in 0..INF
          BY <3>2, <4>4 DEF IsDistance
        <5>3. d[w] = k - 1 /\ d[v] = k
          BY <2>2, <3>2
        <5> QED
          BY <5>1, <5>2, <5>3
      <4> QED
        BY <4>1, <4>3, <4>4
    <3> QED
      BY <3>3, <3>4
  <2> HIDE DEF OnTheWay
  <2> QED
    BY <2>1, <2>2
<1>4. 0..INF - 1 \subseteq T
  <2> HIDE DEF T
  <2>1. INF - 1 \in Nat
    BY <1>0
  <2>2. PICK N \in Nat : N = INF - 1
    BY <2>1
  <2>3. \A n \in 1..N : n - 1 \in T => n \in T
    BY <1>3, <2>2
  <2>4. 0..N \subseteq T
    BY <1>2, <2>3, UpTo
  <2> QED
    BY <2>2, <2>4
<1>5. ASSUME NEW v \in Routers \cap V, d[v] \in 1..INF - 1 PROVE OnTheWay(v)
  <2>1. d[v] \in T /\ d[v] # 0
    <3> HIDE DEF T
    <3> QED
      BY <1>0, <1>4, <1>5
  <2> HIDE DEF OnTheWay
  <2> QED
    BY <2>1
<1> QED
  BY <1>5

(* The first hop towards a subnet that is not directly connected is the    *)
(* neighbour on a shortest path; there is none towards the others.         *)
LEMMA FirstHopIs ==
  ASSUME NEW V, None \notin V, V \subseteq Vertices, Self \in V,
         NEW E, E \subseteq (Routers \cap V) \X V,
         NEW d, NEW parent, ShortestTree(V, E, d, parent), NEW s \in V
  PROVE  IF d[s] \in 2..INF - 1
         THEN FirstHop(parent, s) \in NextHops(E, s, d[s])
         ELSE FirstHop(parent, s) = None
<1>0. INF \in Nat \ {0} /\ None # Self
  BY TopologyAssumption DEF Vertices
<1>1. PICK h : /\ \A v \in V : h[v] = IF parent[v] = Self THEN v
                            ELSE IF parent[v] = None THEN None ELSE h[parent[v]]
               /\ \A v \in V : FirstHop(parent, v) =
                     IF parent[v] \in {None, Self} THEN None ELSE h[parent[v]]
  BY HopIs
<1>2. /\ IsDistance(V, E, Self, d)
      /\ \A v \in V : d[v] \in 0..INF /\ (d[v] = 0 <=> v = Self)
      /\ \A v \in V : IF d[v] \in 1..INF - 1
                       THEN /\ parent[v] \in V /\ <<parent[v], v>> \in E
                            /\ d[parent[v]] = d[v] - 1
                       ELSE parent[v] = None
  BY DEF ShortestTree, IsDistance
<1>5. \A v \in V : h[v] = IF parent[v] = Self THEN v
                          ELSE IF parent[v] = None THEN None ELSE h[parent[v]]
  BY <1>1
<1>6. \A v \in Routers \cap V : d[v] \in 1..INF - 1 =>
        /\ h[v] \in Routers \cap V /\ <<Self, h[v]>> \in E
        /\ \A dx : IsDistance(V, E, h[v], dx) => dx[v] <= d[v] - 1
  BY <1>5, HopIsOnTheWay
<1>3. CASE d[s] \in 2..INF - 1
  <2>1. PICK w : w = parent[s]
    OBVIOUS
  <2>2. d[s] \in 1..INF - 1
    BY <1>3
  <2>3. w \in Routers \cap V /\ <<w, s>> \in E /\ d[w] = d[s] - 1
    BY <1>2, <2>1, <2>2
  <2>4. d[w] \in 1..INF - 1
    BY <1>0, <1>3, <2>3
  <2>5. w # Self /\ w # None
    BY <1>2, <2>3, <2>4
  <2>6. PICK x : x = h[w]
    OBVIOUS
  <2>7. FirstHop(parent, s) = x
    BY <1>1, <2>1, <2>5, <2>6
  <2>8. /\ x \in Routers \cap V /\ <<Self, x>> \in E
        /\ \A dx : IsDistance(V, E, x, dx) => dx[w] <= d[w] - 1
    BY <1>6, <2>3, <2>4, <2>6
  <2>9. PICK D : D = Distances(E, x)
    OBVIOUS
  <2>10. PICK dx : AreDistances(V, E, x, D, dx)
    <3>1. E \subseteq V \X V /\ x \in V
      BY <2>8
    <3> QED
      BY <2>9, <3>1, DistancesAre
  <2>11. IsDistance(V, E, x, dx) /\ \A k \in 0..INF - 1 : <<s, k>> \in D <=> dx[s] = k
    BY <2>10 DEF AreDistances
  <2>12. dx[s] <= dx[w] + 1 /\ dx[s] \in 0..INF /\ dx[w] \in 0..INF
    BY <2>3, <2>11 DEF IsDistance
  <2>13. dx[w] <= d[w] - 1
    BY <2>8, <2>11
  <2>14. d[s] <= dx[s] + 1
    BY <1>2, <2>8, <2>11, NeighbourIsNear
  <2>15. PICK k \in 2..INF - 1 : k = d[s]
    BY <1>3
  <2>16. dx[s] = k - 1
    BY <2>3, <2>12, <2>13, <2>14, <2>15
  <2>17. k - 1 \in 0..INF - 1
    BY <1>0
  <2>18. <<s, d[s] - 1>> \in D
    BY <2>11, <2>15, <2>16, <2>17
  <2> QED
    BY <1>3, <2>7, <2>8, <2>9, <2>18 DEF NextHops
<1>4. CASE d[s] \notin 2..INF - 1
  <2>1. CASE d[s] \in 1..INF - 1
    <3>1. d[s] = 1
      BY <1>4, <2>1
    <3>2. parent[s] \in V /\ d[parent[s]] = d[s] - 1
      BY <1>2, <2>1
    <3>3. d[parent[s]] = 0
      BY <3>1, <3>2
    <3>4. parent[s] = Self
      BY <1>2, <3>2, <3>3
    <3> QED
      BY <1>1, <1>4, <3>4
  <2>2. CASE d[s] \notin 1..INF - 1
    BY <1>1, <1>2, <1>4, <2>2
  <2> QED
    BY <2>1, <2>2
<1> QED
  BY <1>3, <1>4

-----------------------------------------------------------------------------
(* An LSU that is taken sets the routes along shortest paths.              *)
RoutesFollow(E, old, new) ==
  LET far == {p \in Distances(E, Self) : p[1] \in Subnets /\ p[2] > 1} IN
  /\ \A p \in far : \E x \in NextHops(E, p[1], p[2]) : new[p[1]] = RouteVia(x)
  /\ \A s \in Subnets \ {p[1] : p \in far} :
       /\ s \in DOMAIN new <=> s \in DOMAIN old
       /\ s \in DOMAIN old => new[s] = old[s]

LEMMA WithRoutesFollows ==
  ASSUME NEW list \in VertexLists, Self \in ToSet(list),
         NEW E, E \subseteq (Routers \cap ToSet(list)) \X ToSet(list)
  PROVE  RoutesFollow(E, routes, WithRoutes(list, E))
<1> DEFINE V == ToSet(list)
           D == Distances(E, Self)
           far == {p \in D : p[1] \in Subnets /\ p[2] > 1}
           parent == dijkstra_algorithm(list, E)
           found == {s \in Subnets \cap V : FirstHop(parent, s) # None}
           new == WithRoutes(list, E)
<1>0. INF \in Nat \ {0} /\ None \notin Routers
  BY TopologyAssumption DEF Vertices
<1>1. V \subseteq Vertices /\ None \notin V
  BY TopologyAssumption DEF VertexLists, ToSet
<1>2. PICK d : ShortestTree(V, E, d, parent)
  <2> HIDE DEF parent
  <2> QED
    BY DijkstraIs DEF parent
<1>3. PICK e : AreDistances(V, E, Self, D, e)
  <2>1. E \subseteq V \X V
    OBVIOUS
  <2> HIDE DEF V
  <2> QED
    BY <1>1, <2>1, DistancesAre DEF V
<1>4. \A v \in V : d[v] = e[v] /\ d[v] \in 0..INF
  <2>1. IsDistance(V, E, Self, d) /\ IsDistance(V, E, Self, e)
    BY <1>2, <1>3 DEF ShortestTree, AreDistances
  <2> HIDE DEF V
  <2>2. \A v \in V : d[v] = e[v]
    BY <2>1, DistanceIsUnique DEF V
  <2> QED
    BY <2>1, <2>2 DEF IsDistance
<1>5. D \subseteq V \X (0..INF - 1) /\ \A v \in V : \A k \in 0..INF - 1 : <<v, k>> \in D <=> d[v] = k
  BY <1>3, <1>4 DEF AreDistances
<1>6. \A s \in V : IF d[s] \in 2..INF - 1
                   THEN FirstHop(parent, s) \in NextHops(E, s, d[s])
                   ELSE FirstHop(parent, s) = None
  <2> HIDE DEF V, parent
  <2> QED
    BY <1>1, <1>2, FirstHopIs DEF V
<1>7. /\ new = [s \in found \cup DOMAIN routes |->
                  IF s \in found THEN RouteVia(FirstHop(parent, s)) ELSE routes[s]]
      /\ found \subseteq Subnets
  BY DEF WithRoutes
<1> HIDE DEF V, D, parent, new
<1>8. \A s \in Subnets : s \in found <=> s \in V /\ d[s] \in 2..INF - 1
  <2> SUFFICES ASSUME NEW s \in Subnets, s \in V
               PROVE  FirstHop(parent, s) # None <=> d[s] \in 2..INF - 1
    OBVIOUS
  <2>1. \A x \in NextHops(E, s, d[s]) : x # None
    BY <1>0 DEF NextHops
  <2> QED
    BY <1>6, <2>1
<1> HIDE DEF found
<1>9. ASSUME NEW p \in far
      PROVE  /\ p[1] \in found
             /\ \E x \in NextHops(E, p[1], p[2]) : new[p[1]] = RouteVia(x)
  <2>1. PICK s \in V, k \in 0..INF - 1 : p = <<s, k>>
    BY <1>5
  <2>2. s \in Subnets /\ k > 1 /\ p[1] = s /\ p[2] = k /\ <<s, k>> \in D
    BY <2>1
  <2>3. k \in 2..INF - 1
    BY <2>2
  <2>4. d[s] = k
    BY <1>5, <2>2
  <2>5. s \in found /\ FirstHop(parent, s) \in NextHops(E, s, k)
    BY <1>6, <1>8, <2>2, <2>3, <2>4
  <2>6. new[s] = RouteVia(FirstHop(parent, s))
    BY <1>7, <2>5
  <2> QED
    BY <2>2, <2>5, <2>6
<1>10. ASSUME NEW s \in Subnets \ {p[1] : p \in far} PROVE s \notin found
  <2> SUFFICES ASSUME s \in found PROVE FALSE
    OBVIOUS
  <2>1. s \in V /\ d[s] \in 2..INF - 1
    BY <1>8
  <2>2. PICK k \in 2..INF - 1 : k = d[s]
    BY <2>1
  <2>3. k \in 0..INF - 1 /\ k > 1
    BY <1>0
  <2>4. <<s, k>> \in D
    BY <1>5, <2>1, <2>2, <2>3
  <2>5. <<s, k>> \in far /\ <<s, k>>[1] = s
    BY <2>3, <2>4
  <2> QED
    BY <2>5
<1>11. ASSUME NEW s \in Subnets \ {p[1] : p \in far}
       PROVE  /\ s \in DOMAIN new <=> s \in DOMAIN routes
              /\ s \in DOMAIN routes => new[s] = routes[s]
  BY <1>7, <1>10
<1> QED
  BY <1>9, <1>11 DEF RoutesFollow, D, new

LEMMA RoutesStep ==
  ASSUME TopologyInv, TopologyInv', Next
  PROVE  Recomputed => RoutesFollow(edges', routes, routes')
<1>1. ASSUME NEW r \in Routers, NEW seq \in 1..MaxSeq, NEW lsu \in Arriving[r],
             ReceiveLsu(r, seq, lsu)
      PROVE  RoutesFollow(edges', routes, routes')
  <2>1. PICK list, E : list = vList' /\ E = edges'
    OBVIOUS
  <2>2. list \in VertexLists /\ Self \in ToSet(list) /\ E \subseteq (Routers \cap ToSet(list)) \X ToSet(list)
    BY <2>1 DEF TopologyInv, TypeOK, VertexLists
  <2>3. routes' = WithRoutes(list, E)
    BY <1>1, <2>1 DEF ReceiveLsu
  <2> QED
    BY <2>1, <2>2, <2>3, WithRoutesFollows
<1>2. ASSUME NEW i \in Peered(Self), HearNeighbor(i) PROVE ~Recomputed
  BY <1>2 DEF HearNeighbor, graph, Recomputed
<1> QED
  BY <1>1, <1>2 DEF Next

(* The routing table follows shortest paths after every LSU that is taken: *)
(* what sr_rt_update writes agrees with the graph that the LSU left.       *)
THEOREM RoutesFollowShortestPaths == Spec => RoutesAreShortest
<1>1. TopologyInv /\ TopologyInv' /\ [Next]_vars =>
        [Recomputed =>
           LET far == {p \in Distances(edges', Self) : p[1] \in Subnets /\ p[2] > 1} IN
           /\ \A p \in far : \E x \in NextHops(edges', p[1], p[2]) : routes'[p[1]] = RouteVia(x)
           /\ \A s \in Subnets \ {p[1] : p \in far} :
                /\ s \in DOMAIN routes' <=> s \in DOMAIN routes
                /\ s \in DOMAIN routes => routes'[s] = routes[s]]_vars
  BY RoutesStep DEF RoutesFollow
<1> QED
  BY <1>1, TopologyInit, TopologyStep, PTL DEF Spec, RoutesAreShortest

(***************************************************************************)
(* The neighbour table and its threads.                                    *)
(***************************************************************************)
(* What the packet thread has established when it is at a step.            *)
PacketKnows ==
  LET i == iface["packet"] IN
  /\ pc["packet"] = "new" => ~known[i]
  /\ pc["packet"] \in {"known", "testAlive", "revive", "timerOfNew", "timerOfRevived"} => known[i]
  /\ pc["packet"] = "revive" => ~is_alive[i]

(* AliveMeansWatched without cardinalities.                                *)
OneTimerEach ==
  \A i \in Ifaces :
    /\ \A t, u \in Timers : Watching(t, i) /\ Watching(u, i) => t = u
    /\ \A t \in Timers : Watching(t, i) => known[i] /\ is_alive[i] /\ ~CreatingTimer(i)
    /\ CreatingTimer(i) => known[i] /\ is_alive[i]
    /\ known[i] /\ is_alive[i] /\ ~CreatingTimer(i) => \E t \in Timers : Watching(t, i)

(* A timer that is about to count has seen the counter below the limit.    *)
CountsBelow ==
  \A t \in Timers : pc[t] = "sleep" => timeCounter[iface[t]] < OSPF_NEIGHBOR_TIMEOUT

NInv == NeighborsTypeOK /\ LockDiscipline /\ PacketKnows /\ OneTimerEach /\ CountsBelow

USE NeighborsAssumption

(* The threads that are not timers are not among the timers.               *)
LEMMA ThreadsDiffer ==
  /\ "packet" \notin Timers /\ "lsu" \notin Timers /\ "hello" \notin Timers
  /\ "subsystem" \notin Timers /\ Free \notin Timers
  /\ Timers \subseteq Threads /\ LsuCallers \subseteq Threads
  /\ {"packet", "hello", "lsu", "subsystem"} \subseteq Threads
  /\ Free \notin Threads
BY DEF Threads, LsuCallers, Free

LEMMA InitTypes == NeighborsInit => NeighborsTypeOK
BY ThreadsDiffer DEF NeighborsInit, NeighborsTypeOK, PacketSteps, TimerSteps, ThreadSteps, Threads

LEMMA InitNInv == NeighborsInit => NInv
<1> SUFFICES ASSUME NeighborsInit PROVE NInv
  OBVIOUS
<1>1. NeighborsTypeOK
  BY InitTypes
<1>2. LockDiscipline
  BY ThreadsDiffer DEF NeighborsInit, LockDiscipline, Threads
<1>3. PacketKnows /\ CountsBelow
  BY ThreadsDiffer DEF NeighborsInit, PacketKnows, CountsBelow, Threads
<1>4. OneTimerEach
  BY ThreadsDiffer DEF NeighborsInit, OneTimerEach, Watching, CreatingTimer, Threads
<1> QED
  BY <1>1, <1>2, <1>3, <1>4 DEF NInv

(* The steps of the packet thread up to the start of a timer.              *)
LEMMA PacketSteps_Inv ==
  ASSUME NInv, NewNeighbor \/ ResetCounter \/ TestAlive \/ Revive \/ \E i \in Ifaces : ReceiveHello(i)
  PROVE  NInv'
<1> USE ThreadsDiffer DEF NInv, Goto, table
<1>1. ASSUME NEW i \in Ifaces, ReceiveHello(i) PROVE NInv'
  <2>1. NeighborsTypeOK'
    BY <1>1 DEF NeighborsTypeOK, ReceiveHello, PacketSteps, TimerSteps, ThreadSteps
  <2>4. LockDiscipline'
    BY <1>1 DEF NeighborsTypeOK, LockDiscipline, ReceiveHello
  <2>2. PacketKnows' /\ CountsBelow'
    BY <1>1 DEF NeighborsTypeOK, PacketKnows, CountsBelow, ReceiveHello
  <2>3. OneTimerEach'
    BY <1>1 DEF NeighborsTypeOK, OneTimerEach, Watching, CreatingTimer, ReceiveHello
  <2> QED
    BY <2>1, <2>2, <2>3, <2>4
<1>2. ASSUME NewNeighbor PROVE NInv'
  <2>1. NeighborsTypeOK'
    BY <1>2 DEF NeighborsTypeOK, NewNeighbor, PacketSteps, TimerSteps, ThreadSteps
  <2>4. LockDiscipline'
    BY <1>2 DEF NeighborsTypeOK, LockDiscipline, NewNeighbor
  <2>2. PacketKnows' /\ CountsBelow'
    BY <1>2 DEF NeighborsTypeOK, PacketKnows, CountsBelow, NewNeighbor
  <2>3. OneTimerEach'
    BY <1>2 DEF NeighborsTypeOK, OneTimerEach, PacketKnows, Watching, CreatingTimer, NewNeighbor
  <2> QED
    BY <2>1, <2>2, <2>3, <2>4
<1>3. ASSUME ResetCounter PROVE NInv'
  <2>1. NeighborsTypeOK'
    BY <1>3 DEF NeighborsTypeOK, ResetCounter, PacketSteps, TimerSteps, ThreadSteps
  <2>4. LockDiscipline'
    BY <1>3 DEF NeighborsTypeOK, LockDiscipline, ResetCounter
  <2>2. PacketKnows' /\ CountsBelow'
    BY <1>3 DEF NeighborsTypeOK, PacketKnows, CountsBelow, ResetCounter
  <2>3. OneTimerEach'
    BY <1>3 DEF NeighborsTypeOK, OneTimerEach, Watching, CreatingTimer, ResetCounter
  <2> QED
    BY <2>1, <2>2, <2>3, <2>4
<1>4. ASSUME TestAlive PROVE NInv'
  <2>1. NeighborsTypeOK'
    BY <1>4 DEF NeighborsTypeOK, TestAlive, PacketSteps, TimerSteps, ThreadSteps
  <2>4. LockDiscipline'
    BY <1>4 DEF NeighborsTypeOK, LockDiscipline, TestAlive
  <2>2. PacketKnows' /\ CountsBelow'
    BY <1>4 DEF NeighborsTypeOK, PacketKnows, CountsBelow, TestAlive
  <2>3. OneTimerEach'
    BY <1>4 DEF NeighborsTypeOK, OneTimerEach, Watching, CreatingTimer, TestAlive
  <2> QED
    BY <2>1, <2>2, <2>3, <2>4
<1>5. ASSUME Revive PROVE NInv'
  <2>1. NeighborsTypeOK'
    BY <1>5 DEF NeighborsTypeOK, Revive, PacketSteps, TimerSteps, ThreadSteps
  <2>4. LockDiscipline'
    BY <1>5 DEF NeighborsTypeOK, LockDiscipline, Revive
  <2>2. PacketKnows' /\ CountsBelow'
    BY <1>5 DEF NeighborsTypeOK, PacketKnows, CountsBelow, Revive
  <2>3. OneTimerEach'
    BY <1>5 DEF NeighborsTypeOK, OneTimerEach, PacketKnows, Watching, CreatingTimer, Revive
  <2> QED
    BY <2>1, <2>2, <2>3, <2>4
<1> QED
  BY <1>1, <1>2, <1>3, <1>4, <1>5

(* Starting, running and ending a timer.                                   *)
LEMMA TimerSteps_Inv ==
  ASSUME NInv, CreateTimer \/ \E t \in Timers : TimerNext(t)
  PROVE  NInv'
<1> USE ThreadsDiffer DEF NInv, Goto, table
<1>1. ASSUME CreateTimer PROVE NInv'
  <2>1. NeighborsTypeOK'
    BY <1>1 DEF NeighborsTypeOK, CreateTimer, PacketSteps, TimerSteps, ThreadSteps, CountsBelow
  <2>2. LockDiscipline'
    BY <1>1 DEF NeighborsTypeOK, LockDiscipline, CreateTimer
  <2>3. PacketKnows' /\ CountsBelow'
    BY <1>1 DEF NeighborsTypeOK, PacketKnows, CountsBelow, CreateTimer
  <2>4. OneTimerEach'
    BY <1>1 DEF NeighborsTypeOK, OneTimerEach, Watching, CreatingTimer, CreateTimer
  <2> QED
    BY <2>1, <2>2, <2>3, <2>4
<1>2. ASSUME NEW t \in Timers, TimerTest(t) PROVE NInv'
  <2>1. NeighborsTypeOK'
    BY <1>2 DEF NeighborsTypeOK, TimerTest, PacketSteps, TimerSteps, ThreadSteps, CountsBelow
  <2>2. LockDiscipline'
    BY <1>2 DEF NeighborsTypeOK, LockDiscipline, TimerTest
  <2>3. PacketKnows' /\ CountsBelow'
    BY <1>2 DEF NeighborsTypeOK, PacketKnows, CountsBelow, TimerTest
  <2>4. OneTimerEach'
    BY <1>2 DEF NeighborsTypeOK, OneTimerEach, Watching, CreatingTimer, TimerTest
  <2> QED
    BY <2>1, <2>2, <2>3, <2>4
<1>3. ASSUME NEW t \in Timers, TimerCount(t) PROVE NInv'
  <2>1. NeighborsTypeOK'
    BY <1>3 DEF NeighborsTypeOK, TimerCount, PacketSteps, TimerSteps, ThreadSteps, CountsBelow
  <2>2. LockDiscipline'
    BY <1>3 DEF NeighborsTypeOK, LockDiscipline, TimerCount
  <2>3. PacketKnows' /\ CountsBelow'
    BY <1>3 DEF NeighborsTypeOK, PacketKnows, CountsBelow, TimerCount, OneTimerEach, Watching
  <2>4. OneTimerEach'
    BY <1>3 DEF NeighborsTypeOK, OneTimerEach, Watching, CreatingTimer, TimerCount
  <2> QED
    BY <2>1, <2>2, <2>3, <2>4
<1>4. ASSUME NEW t \in Timers, TimerExpire(t) PROVE NInv'
  <2>1. NeighborsTypeOK'
    BY <1>4 DEF NeighborsTypeOK, TimerExpire, PacketSteps, TimerSteps, ThreadSteps, CountsBelow
  <2>2. LockDiscipline'
    BY <1>4 DEF NeighborsTypeOK, LockDiscipline, TimerExpire
  <2>3. PacketKnows' /\ CountsBelow'
    BY <1>4 DEF NeighborsTypeOK, PacketKnows, CountsBelow, TimerExpire
  <2>4. OneTimerEach'
    BY <1>4 DEF NeighborsTypeOK, OneTimerEach, Watching, CreatingTimer, TimerExpire
  <2> QED
    BY <2>1, <2>2, <2>3, <2>4
<1> QED
  BY <1>1, <1>2, <1>3, <1>4 DEF TimerNext

(* Sending LSUs, and the other users of the mutexes.                       *)
LEMMA LockSteps_Inv ==
  ASSUME NInv,
         \/ \E t \in LsuCallers : LsuNext(t)
         \/ LsuPeriod \/ HelloNext \/ SubsystemNext \/ LockRoutes \/ RoutesWritten
         \/ \E i \in Ifaces : NeighborFlips(i)
         \/ UNCHANGED neighborsVars
  PROVE  NInv'
<1> USE ThreadsDiffer DEF NInv, Goto, table, LsuCallers
<1>1. ASSUME NEW t \in LsuCallers, AcquireForLsu(t) PROVE NInv'
  <2>1. NeighborsTypeOK'
    BY <1>1 DEF NeighborsTypeOK, AcquireForLsu, PacketSteps, TimerSteps, ThreadSteps, CountsBelow
  <2>2. LockDiscipline'
    BY <1>1 DEF NeighborsTypeOK, LockDiscipline, AcquireForLsu
  <2>3. PacketKnows' /\ CountsBelow'
    BY <1>1 DEF NeighborsTypeOK, PacketKnows, CountsBelow, AcquireForLsu
  <2>4. OneTimerEach'
    BY <1>1 DEF NeighborsTypeOK, OneTimerEach, Watching, CreatingTimer, AcquireForLsu
  <2> QED
    BY <2>1, <2>2, <2>3, <2>4
<1>2. ASSUME NEW t \in LsuCallers, ReleaseAfterLsu(t) PROVE NInv'
  <2>1. NeighborsTypeOK'
    BY <1>2 DEF NeighborsTypeOK, ReleaseAfterLsu, PacketSteps, TimerSteps, ThreadSteps, CountsBelow
  <2>2. LockDiscipline'
    BY <1>2 DEF NeighborsTypeOK, LockDiscipline, ReleaseAfterLsu
  <2>3. PacketKnows' /\ CountsBelow'
    BY <1>2 DEF NeighborsTypeOK, PacketKnows, CountsBelow, ReleaseAfterLsu
  <2>4. OneTimerEach'
    BY <1>2 DEF NeighborsTypeOK, OneTimerEach, Watching, CreatingTimer, ReleaseAfterLsu
  <2> QED
    BY <2>1, <2>2, <2>3, <2>4
<1>3. ASSUME NEW t \in LsuCallers, NEW k \in Ifaces, SendLsuOn(t, k) PROVE NInv'
  <2>1. NeighborsTypeOK'
    BY <1>3 DEF NeighborsTypeOK, SendLsuOn, PacketSteps, TimerSteps, ThreadSteps, CountsBelow
  <2>2. LockDiscipline'
    BY <1>3 DEF NeighborsTypeOK, LockDiscipline, SendLsuOn
  <2>3. PacketKnows' /\ CountsBelow'
    BY <1>3 DEF NeighborsTypeOK, PacketKnows, CountsBelow, SendLsuOn
  <2>4. OneTimerEach'
    BY <1>3 DEF NeighborsTypeOK, OneTimerEach, Watching, CreatingTimer, SendLsuOn
  <2> QED
    BY <2>1, <2>2, <2>3, <2>4
<1>4. ASSUME LsuPeriod \/ HelloPeriod \/ HelloSent PROVE NInv'
  <2>1. NeighborsTypeOK'
    BY <1>4 DEF NeighborsTypeOK, LsuPeriod, HelloPeriod, HelloSent, Free, PacketSteps,
       TimerSteps, ThreadSteps, CountsBelow
  <2>2. LockDiscipline'
    BY <1>4 DEF NeighborsTypeOK, LockDiscipline, LsuPeriod, HelloPeriod, HelloSent, Free
  <2>3. PacketKnows' /\ CountsBelow'
    BY <1>4 DEF NeighborsTypeOK, PacketKnows, CountsBelow, LsuPeriod, HelloPeriod, HelloSent, Free
  <2>4. OneTimerEach'
    BY <1>4 DEF NeighborsTypeOK, OneTimerEach, Watching, CreatingTimer, LsuPeriod, HelloPeriod,
       HelloSent, Free
  <2> QED
    BY <2>1, <2>2, <2>3, <2>4
<1>5. ASSUME SubsystemAwake \/ SubsystemLocks \/ SubsystemUnlocks PROVE NInv'
  <2>1. NeighborsTypeOK'
    BY <1>5 DEF NeighborsTypeOK, SubsystemAwake, SubsystemLocks, SubsystemUnlocks, Free,
       PacketSteps, TimerSteps, ThreadSteps, CountsBelow
  <2>2. LockDiscipline'
    BY <1>5 DEF NeighborsTypeOK, LockDiscipline, SubsystemAwake, SubsystemLocks,
       SubsystemUnlocks, Free
  <2>3. PacketKnows' /\ CountsBelow'
    BY <1>5 DEF NeighborsTypeOK, PacketKnows, CountsBelow, SubsystemAwake, SubsystemLocks,
       SubsystemUnlocks, Free
  <2>4. OneTimerEach'
    BY <1>5 DEF NeighborsTypeOK, OneTimerEach, Watching, CreatingTimer, SubsystemAwake,
       SubsystemLocks, SubsystemUnlocks, Free
  <2> QED
    BY <2>1, <2>2, <2>3, <2>4
<1>6. ASSUME LockRoutes \/ RoutesWritten PROVE NInv'
  <2>1. NeighborsTypeOK'
    BY <1>6 DEF NeighborsTypeOK, LockRoutes, RoutesWritten, Free, PacketSteps, TimerSteps,
       ThreadSteps, CountsBelow
  <2>2. LockDiscipline'
    BY <1>6 DEF NeighborsTypeOK, LockDiscipline, LockRoutes, RoutesWritten, Free
  <2>3. PacketKnows' /\ CountsBelow'
    BY <1>6 DEF NeighborsTypeOK, PacketKnows, CountsBelow, LockRoutes, RoutesWritten, Free
  <2>4. OneTimerEach'
    BY <1>6 DEF NeighborsTypeOK, OneTimerEach, Watching, CreatingTimer, LockRoutes,
       RoutesWritten, Free
  <2> QED
    BY <2>1, <2>2, <2>3, <2>4
<1>7. ASSUME UNCHANGED neighborsVars \/ \E i \in Ifaces : NeighborFlips(i) PROVE NInv'
  <2>1. NeighborsTypeOK'
    BY <1>7 DEF NeighborsTypeOK, NeighborFlips, neighborsVars, PacketSteps, TimerSteps,
       ThreadSteps, CountsBelow
  <2>2. LockDiscipline'
    BY <1>7 DEF NeighborsTypeOK, LockDiscipline, NeighborFlips, neighborsVars
  <2>3. PacketKnows' /\ CountsBelow'
    BY <1>7 DEF NeighborsTypeOK, PacketKnows, CountsBelow, NeighborFlips, neighborsVars
  <2>4. OneTimerEach'
    BY <1>7 DEF NeighborsTypeOK, OneTimerEach, Watching, CreatingTimer, NeighborFlips, neighborsVars
  <2> QED
    BY <2>1, <2>2, <2>3, <2>4
<1> QED
  BY <1>1, <1>2, <1>3, <1>4, <1>5, <1>6, <1>7 DEF LsuNext, HelloNext, SubsystemNext

LEMMA StepNInv == NInv /\ [NeighborsNext]_neighborsVars => NInv'
BY PacketSteps_Inv, TimerSteps_Inv, LockSteps_Inv DEF NeighborsNext, PacketNext

(* The inductive invariant: types, mutexes, what the packet thread knows    *)
(* between its steps, one timer per live neighbour.                         *)
THEOREM NeighborsInvariant == NeighborsSpec => []NInv
BY InitNInv, StepNInv, PTL DEF NeighborsSpec

(* Every variable keeps its type; a counter never passes the timeout.       *)
THEOREM NeighborsAreTyped == NeighborsSpec => []NeighborsTypeOK
<1>1. NInv => NeighborsTypeOK
  BY DEF NInv
<1> QED
  BY <1>1, NeighborsInvariant, PTL

(* A thread between lock and unlock of a mutex is its holder, with any      *)
(* number of timers.                                                        *)
THEOREM MutexesAreHeld == NeighborsSpec => []LockDiscipline
<1>1. NInv => LockDiscipline
  BY DEF NInv
<1> QED
  BY <1>1, NeighborsInvariant, PTL

(* Exactly one timer watches a known live neighbour and none a dead one,    *)
(* with any number of interfaces and timers.                                *)
THEOREM LiveNeighborsAreWatched == NeighborsSpec => []AliveMeansWatched
<1>1. ASSUME OneTimerEach, NEW i \in Ifaces
      PROVE  Cardinality({t \in Timers : Watching(t, i)}) + (IF CreatingTimer(i) THEN 1 ELSE 0)
               = (IF known[i] /\ is_alive[i] THEN 1 ELSE 0)
  <2> DEFINE W == {t \in Timers : Watching(t, i)}
  <2>1. CASE \E t \in Timers : Watching(t, i)
    <3>1. PICK t \in Timers : Watching(t, i)
      BY <2>1
    <3>2. W = {t} /\ known[i] /\ is_alive[i] /\ ~CreatingTimer(i)
      BY <1>1, <3>1 DEF OneTimerEach
    <3>3. Cardinality(W) = 1
      BY <3>2, FS_Singleton
    <3> QED
      BY <3>2, <3>3
  <2>2. CASE ~\E t \in Timers : Watching(t, i)
    <3>1. W = {} /\ (CreatingTimer(i) <=> known[i] /\ is_alive[i])
      BY <1>1, <2>2 DEF OneTimerEach
    <3>2. Cardinality(W) = 0
      BY <3>1, FS_EmptySet
    <3> QED
      BY <3>1, <3>2
  <2> QED
    BY <2>1, <2>2
<1>2. NInv => AliveMeansWatched
  BY <1>1 DEF NInv, AliveMeansWatched
<1> QED
  BY <1>2, NeighborsInvariant, PTL
=============================================================================
