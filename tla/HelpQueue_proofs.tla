-------------------------- MODULE HelpQueue_proofs --------------------------
(***************************************************************************)
(* IInv is an inductive invariant of HelpQueue, and implies what the runs  *)
(* check.  First the sort (its recursive functions exist and keep the      *)
(* vector's length), then the types, one lemma for each kind of thread;    *)
(* then, part by part of IInv, again a lemma for each kind of thread.      *)
(***************************************************************************)
EXTENDS HelpQueue, FiniteSetTheorems, SequenceTheorems, WellFoundedInduction, TLAPS

(* A nonempty set of natural numbers has a least element.                  *)
LEMMA NatMin ==
  ASSUME NEW T \in SUBSET Nat, T # {}
  PROVE  \E x \in T : \A y \in T : x <= y
<1>1. IsWellFoundedOn(OpToRel(<, Nat), Nat)
  BY NatLessThanWellFounded
<1>2. PICK x \in T : \A y \in T : ~ (<<y, x>> \in OpToRel(<, Nat))
  BY <1>1, WFMin
<1>3. \A y \in T : ~ (y < x)
  BY <1>2 DEF OpToRel
<1> QED BY <1>3

(* A function of 0..n given by its first value and a step from one value   *)
(* to the next exists.                                                     *)
Iterates(f, n, A, a, G) ==
  /\ f \in [0..n -> A]
  /\ f[0] = a
  /\ \A k \in 1..n : f[k] = G[k][f[k - 1]]

(* Its steps determine such a function, so it can be built from 0 up.      *)
LEMMA Iteration ==
  ASSUME NEW n \in Nat, NEW A, NEW a \in A, NEW G \in [1..n -> [A -> A]]
  PROVE  \E f : Iterates(f, n, A, a, G)
<1> DEFINE Good(f, m) == f[0] = a /\ \A k \in 1..m : f[k] = G[k][f[k - 1]]
           Upto(m) == \E f \in [0..m -> A] : Good(f, m)
           T == {m \in 0..n : ~ Upto(m)}
<1>1. Upto(0)
  <2>1. [k \in 0..0 |-> a] \in [0..0 -> A] /\ Good([k \in 0..0 |-> a], 0)
    OBVIOUS
  <2> QED BY <2>1
<1>2. ASSUME NEW m \in 1..n, Upto(m - 1) PROVE Upto(m)
  <2>1. PICK f \in [0..(m - 1) -> A] : Good(f, m - 1)
    BY <1>2
  <2>2. m \in Nat /\ m - 1 \in 0..(m - 1)
    OBVIOUS
  <2> DEFINE g == [k \in 0..m |-> IF k < m THEN f[k] ELSE G[m][f[m - 1]]]
  <2>3. G[m][f[m - 1]] \in A
    <3>1. f[m - 1] \in A
      BY <2>2
    <3> QED BY <3>1
  <2>4. g \in [0..m -> A]
    <3>1. ASSUME NEW k \in 0..m, k < m PROVE f[k] \in A
      <4>1. k \in 0..(m - 1)
        BY <3>1
      <4> QED BY <4>1
    <3> QED BY <2>3, <3>1
  <2>5. g[0] = f[0]
    BY <2>2
  <2>6. ASSUME NEW k \in 1..m PROVE g[k] = G[k][g[k - 1]]
    <3>1. k - 1 \in 0..m /\ k - 1 < m /\ g[k - 1] = f[k - 1]
      OBVIOUS
    <3>2. CASE k = m
      BY <3>1, <3>2
    <3>3. CASE k # m
      <4>1. k \in 1..(m - 1) /\ k \in 0..m /\ k < m
        BY <3>3
      <4>2. f[k] = G[k][f[k - 1]]
        BY <2>1, <4>1
      <4> QED BY <3>1, <4>1, <4>2
    <3> QED BY <3>2, <3>3
  <2>7. Good(g, m)
    BY <2>1, <2>5, <2>6
  <2> QED BY <2>4, <2>7
<1> HIDE DEF Upto
<1>3. T = {}
  <2>1. SUFFICES ASSUME T # {} PROVE FALSE
    OBVIOUS
  <2>2. T \in SUBSET Nat
    OBVIOUS
  <2>3. PICK m \in T : \A j \in T : m <= j
    BY <2>1, <2>2, NatMin
  <2>4. m # 0 /\ m \in 0..n /\ ~ Upto(m)
    BY <1>1, <2>3
  <2>5. m \in 1..n /\ m - 1 \in 0..n /\ m - 1 \notin T
    BY <2>3, <2>4
  <2> QED BY <1>2, <2>4, <2>5
<1>4. Upto(n)
  BY <1>3
<1> QED BY <1>4 DEF Upto, Iterates

(* Binary search ends at a place where an element can be inserted.         *)
LEMMA InsertionPointInRange ==
  ASSUME NEW s \in Seq(Workstations), NEW x
  PROVE  InsertionPoint(s, x) \in 1..(Len(s) + 1)
<1> DEFINE n == Len(s)
           A == {b \in (1..(n + 1)) \X (1..(n + 1)) : b[1] <= b[2]}
           mid(b) == (b[1] + b[2] - 2) \div 2 + 1
           half(b) == IF b[1] >= b[2] THEN b
                      ELSE IF Before(x, s[mid(b)]) THEN <<b[1], mid(b)>> ELSE <<mid(b) + 1, b[2]>>
           G == [k \in 1..n |-> [b \in A |-> half(b)]]
           body(f) == [k \in 0..n |-> IF k = 0 THEN <<1, n + 1>> ELSE half(f[k - 1])]
           bounds == CHOOSE f : f = body(f)
<1>1. n \in Nat /\ <<1, n + 1>> \in A
  OBVIOUS
<1>2. ASSUME NEW b \in A PROVE half(b) \in A
  <2>1. PICK l \in 1..(n + 1), r \in 1..(n + 1) : b = <<l, r>> /\ l <= r
    OBVIOUS
  <2>2. CASE l >= r
    BY <2>1, <2>2
  <2>3. CASE l < r
    <3>1. PICK m \in Int : m = (l + r - 2) \div 2 + 1
      BY <1>1
    <3>2. l <= m /\ m < r
      BY <1>1, <2>3, <3>1
    <3>3. <<l, m>> \in A /\ <<m + 1, r>> \in A
      BY <1>1, <2>3, <3>2
    <3> QED BY <2>1, <2>3, <3>1, <3>3
  <2> QED BY <1>1, <2>2, <2>3
<1>3. G \in [1..n -> [A -> A]]
  BY <1>2
<1> HIDE DEF half
<1>4. \A k \in 1..n : \A b \in A : G[k][b] = half(b)
  OBVIOUS
<1> HIDE DEF G
<1>5. PICK f : Iterates(f, n, A, <<1, n + 1>>, G)
  <2> HIDE DEF n, A
  <2> QED BY <1>1, <1>3, Iteration
<1> USE DEF Iterates
<1>6. ASSUME NEW k \in 1..n PROVE f[k] = half(f[k - 1])
  <2>1. k - 1 \in 0..n /\ f[k - 1] \in A
    <3> HIDE DEF n, A
    <3> QED BY <1>1, <1>5
  <2> HIDE DEF n, A
  <2> QED BY <1>4, <1>5, <2>1
<1>7. f = body(f)
  <2> HIDE DEF A
  <2> QED BY <1>1, <1>5, <1>6
<1>8. bounds = body(bounds)
  BY <1>7
<1>9. bounds[n] \in A
  <2> DEFINE T == {k \in 0..n : bounds[k] \notin A}
  <2> HIDE DEF bounds, A
  <2>1. SUFFICES ASSUME T # {} PROVE FALSE
    BY <1>1
  <2>2. T \in SUBSET Nat
    OBVIOUS
  <2>3. PICK m \in T : \A j \in T : m <= j
    BY <2>1, <2>2, NatMin
  <2>4. m # 0
    BY <1>1, <1>8, <2>3
  <2>5. m \in 1..n /\ m - 1 \in 0..n /\ m - 1 \notin T
    BY <1>1, <2>3, <2>4
  <2>6. bounds[m] = half(bounds[m - 1]) /\ bounds[m - 1] \in A
    <3>1. m \in 0..n /\ m # 0
      BY <2>4, <2>5
    <3>2. bounds[m] = half(bounds[m - 1])
      <4> HIDE DEF n
      <4> QED BY <1>8, <3>1
    <3> QED BY <2>5, <3>2
  <2> QED BY <1>2, <2>3, <2>6
<1>10. InsertionPoint(s, x) = bounds[n][1]
  BY DEF InsertionPoint, half
<1> QED BY <1>9, <1>10

(* A vector that is not empty has a leading run.                           *)
LEMMA LeadingRunInRange ==
  ASSUME NEW s \in Seq(Workstations), s # <<>>
  PROVE  LeadingRun(s) \in 1..Len(s)
<1> DEFINE down == Len(s) > 1 /\ Before(s[2], s[1])
           T == {n \in 1..Len(s) : n < Len(s) => Before(s[n + 1], s[n]) # down}
<1>1. Len(s) \in Nat \ {0}
  OBVIOUS
<1>2. T \in SUBSET Nat /\ Len(s) \in T
  BY <1>1
<1>3. PICK n \in T : \A m \in T : n <= m
  BY <1>2, NatMin
<1>4. ASSUME NEW i \in 2..n PROVE Before(s[i], s[i - 1]) = down
  <2>1. i - 1 \in 1..Len(s) /\ i - 1 < n /\ i - 1 < Len(s) /\ (i - 1) + 1 = i
    BY <1>3, <1>1
  <2>2. i - 1 \notin T
    BY <1>3, <2>1
  <2> QED BY <2>1, <2>2
<1>5. n < Len(s) => Before(s[n + 1], s[n]) # down
  BY <1>3
<1> QED BY <1>3, <1>4, <1>5 DEF LeadingRun

(* A display's sort keeps the vector a vector of as many workstations.      *)
LEMMA SortKeepsLength ==
  ASSUME NEW s \in Seq(Workstations)
  PROVE  TimSort(s) \in Seq(Workstations) /\ Len(TimSort(s)) = Len(s)
<1> DEFINE N    == Len(s)
           n    == LeadingRun(s)
           run  == SubSeq(s, 1, n)
           down == n > 1 /\ Before(s[2], s[1])
           first == IF down THEN Reverse(run) ELSE run
           A == Seq(Workstations)
           step(k, x) == IF k <= n THEN first ELSE InsertSorted(x, s[k])
           G == [k \in 1..N |-> [x \in A |-> step(k, x)]]
           body(f) == [k \in 0..N |-> IF k <= n THEN first ELSE InsertSorted(f[k - 1], s[k])]
           sorted == CHOOSE f : f = body(f)
<1>1. CASE s = <<>>
  BY <1>1 DEF TimSort
<1>2. CASE s # <<>>
  <2>1. N \in Nat /\ n \in 1..N
    BY <1>2, LeadingRunInRange
  <2>2. first \in A /\ Len(first) = n
    <3>1. run \in A /\ Len(run) = n
      BY <2>1
    <3>2. \A i \in 1..Len(run) : run[(Len(run) - i) + 1] \in Workstations
      BY <2>1, <3>1
    <3>3. Reverse(run) \in A /\ Len(Reverse(run)) = n
      <4> HIDE DEF run, n, N
      <4>1. Reverse(run) \in [1..n -> Workstations]
        BY <2>1, <3>1, <3>2 DEF Reverse
      <4> QED BY <2>1, <4>1
    <3> QED BY <3>1, <3>3
  <2>3. ASSUME NEW k \in 1..N, NEW x \in A
        PROVE  InsertSorted(x, s[k]) \in A /\ Len(InsertSorted(x, s[k])) = Len(x) + 1
    <3>1. InsertionPoint(x, s[k]) \in 1..(Len(x) + 1) /\ s[k] \in Workstations
      BY InsertionPointInRange
    <3> QED BY <3>1 DEF InsertSorted, InsertAt
  <2>4. ASSUME NEW k \in 1..N, NEW x \in A PROVE step(k, x) \in A
    BY <2>2, <2>3
  <2>5. G \in [1..N -> [A -> A]]
    BY <2>4
  <2>6. \A k \in 1..N : \A x \in A : G[k][x] = step(k, x)
    OBVIOUS
  <2> HIDE DEF G, n, first, A
  <2>7. PICK f : Iterates(f, N, A, first, G)
    <3> HIDE DEF N
    <3> QED BY <2>1, <2>2, <2>5, Iteration
  <2>8. ASSUME NEW k \in 1..N
        PROVE  f[k] = IF k <= n THEN first ELSE InsertSorted(f[k - 1], s[k])
    <3>1. k - 1 \in 0..N /\ f[k - 1] \in A
      <4> HIDE DEF N
      <4> QED BY <2>1, <2>7 DEF Iterates
    <3> QED BY <2>6, <2>7, <3>1 DEF Iterates
  <2>9. f = body(f)
    BY <2>1, <2>7, <2>8 DEF Iterates
  <2>10. sorted = body(sorted)
    BY <2>9
  <2> HIDE DEF sorted
  <2>11. sorted[N] \in A /\ Len(sorted[N]) = N
    <3> DEFINE T == {k \in n..N : ~ (sorted[k] \in A /\ Len(sorted[k]) = k)}
    <3>1. SUFFICES ASSUME T # {} PROVE FALSE
      BY <2>1
    <3>2. T \in SUBSET Nat
      BY <2>1
    <3>3. PICK m \in T : \A j \in T : m <= j
      BY <3>1, <3>2, NatMin
    <3>4. sorted[n] = first
      BY <2>1, <2>10
    <3>5. m # n
      BY <2>1, <2>2, <3>3, <3>4
    <3>6. m \in 1..N /\ m \in 0..N /\ ~ (m <= n) /\ m - 1 \in n..N /\ m - 1 \notin T
      BY <2>1, <3>3, <3>5
    <3>7. sorted[m] = InsertSorted(sorted[m - 1], s[m])
      BY <2>10, <3>6
    <3>8. sorted[m - 1] \in A /\ Len(sorted[m - 1]) = m - 1
      BY <3>6
    <3>9. sorted[m] \in A /\ Len(sorted[m]) = m
      BY <2>3, <3>6, <3>7, <3>8
    <3> QED BY <3>3, <3>9
  <2>12. TimSort(s) = sorted[N]
    BY <1>2 DEF TimSort, sorted, first, n
  <2> QED BY <2>11, <2>12 DEF A
<1> QED BY <1>1, <1>2
-----------------------------------------------------------------------------
(* The kinds of threads are disjoint.                                      *)
LEMMA ThreadKinds ==
  /\ Acceptor \in Threads /\ Acceptor \notin Conns /\ Acceptor \notin Admins \cup Updaters
  /\ Conns \subseteq Threads /\ Conns \cap (Admins \cup Updaters) = {}
  /\ Admins \subseteq Threads /\ Updaters \subseteq Threads
  BY HelpQueueAssumption DEF Threads, Conns, Acceptor

(* TypeOK and LocalsOK, taken apart by whose variables they are about.      *)
RecordsOK ==
  /\ clientVector \in Seq(Workstations)
  /\ online  \in [Workstations -> BOOLEAN]
  /\ helping \in [Workstations -> BOOLEAN]
  /\ date    \in [Workstations -> 0..MaxRequests]
  /\ handler \in [Workstations -> 0..MaxConnections]
  /\ requests \in 0..MaxRequests
EventsOK ==
  /\ tables \subseteq Tables
  /\ open \in [Workstations -> Int]
  /\ sqlFaults \in 0..MaxSqlFaults
  /\ resets \in 0..MaxResets
ConnsOK ==
  /\ peer \in [Conns -> Workstations \cup {NoOne}]
  /\ conns \in 0..MaxConnections
LocalVarsOK ==
  /\ pc \in [Threads -> AcceptorSteps \cup ServingSteps \cup InitSteps
                           \cup {"new", "lookup", "getData", "cancelGet", "statement"}]
  /\ cd \in [Threads -> Workstations \cup {NoOne}]
  /\ idx \in [Threads -> Nat]

AcceptorOK ==
  /\ pc[Acceptor] \in AcceptorSteps
  /\ pc[Acceptor] \in Busy => conns # 0 /\ peer[conns] \in Workstations
  /\ pc[Acceptor] = "get" => idx[Acceptor] \in DOMAIN clientVector
  /\ pc[Acceptor] \in {"setHandler", "checkOnline", "setOnline"} => cd[Acceptor] \in Workstations

ClientOK(h) ==
  /\ pc[h] \in {"new", "lookup", "getData", "dead"} \cup ServingSteps
  /\ pc[h] \in ServingSteps => cd[h] \in Workstations
  /\ pc[h] = "getData" => idx[h] \in DOMAIN clientVector

HelperOK(t) ==
  /\ pc[t] \in {"ready", "cancelGet", "statement"} \cup CancelSteps \cup InitSteps
  /\ pc[t] \in {"cancelGet"} \cup (InitSteps \ {"initCheck"}) => idx[t] \in DOMAIN clientVector
  /\ pc[t] = "initCheck" => idx[t] # 0
  /\ pc[t] = "statement" => idx[t] \in DOMAIN Statements /\ "event" \in AdminOps
  /\ pc[t] \in CancelSteps => cd[t] \in Workstations
  /\ idx[t] = 0 => pc[t] = "ready"

VarsOK == RecordsOK /\ EventsOK /\ ConnsOK /\ LocalVarsOK
ThreadsOK == AcceptorOK /\ (\A h \in Conns : ClientOK(h)) /\ (\A t \in Admins \cup Updaters : HelperOK(t))

(* Together they say what TypeOK and LocalsOK say.                         *)
LEMMA Parts == TypeOK /\ LocalsOK <=> VarsOK /\ ThreadsOK
  BY DEF TypeOK, LocalsOK, VarsOK, RecordsOK, EventsOK, ConnsOK, LocalVarsOK, ThreadsOK,
         AcceptorOK, ClientOK, HelperOK

(* Whoever did not take the step keeps its part.                           *)
Kept(u) == pc'[u] = pc[u] /\ cd'[u] = cd[u] /\ idx'[u] = idx[u]

(* A thread's part is not disturbed while the vector does not shrink.      *)
LEMMA OthersKeepTypes ==
  ASSUME ThreadsOK, DOMAIN clientVector \subseteq DOMAIN clientVector'
  PROVE  /\ Kept(Acceptor) /\ UNCHANGED <<conns, peer>> => AcceptorOK'
         /\ \A h \in Conns : Kept(h) => ClientOK(h)'
         /\ \A t \in Admins \cup Updaters : Kept(t) => HelperOK(t)'
  BY DEF ThreadsOK, AcceptorOK, ClientOK, HelperOK, Kept

(* A step of thread t: its locals change, nobody else's.                   *)
Local(t) == \A u \in Threads \ {t} : Kept(u)

(* The elements of the vector.                                             *)
LEMMA VectorElements ==
  ASSUME RecordsOK
  PROVE  /\ DOMAIN clientVector = 1..Len(clientVector) /\ Len(clientVector) \in Nat
         /\ \A i \in DOMAIN clientVector : i \in Nat \ {0} /\ clientVector[i] \in Workstations
  BY DEF RecordsOK

(* Answering a client counts no more resets than there may be.             *)
LEMMA AnsweredTypes ==
  ASSUME EventsOK, NEW next, Answered(next) PROVE resets' \in 0..MaxResets
<1>1. PICK r \in 0..MaxResets : r = resets
  BY DEF EventsOK
<1>2. CASE resets' = resets
  BY <1>1, <1>2
<1>3. CASE r < MaxResets /\ resets' = r + 1
  <2>1. r + 1 \in 0..MaxResets
    BY <1>3, HelpQueueAssumption
  <2> QED BY <1>3, <2>1
<1> QED BY <1>1, <1>2, <1>3 DEF Answered

(* Types, for each step of the accepting thread.                           *)
LEMMA AcceptorTypes ==
  ASSUME VarsOK, ThreadsOK, AcceptorNext
  PROVE  VarsOK' /\ ThreadsOK'
<1> USE ThreadKinds, HelpQueueAssumption DEF VarsOK, clientData, events, Goto
<1>0. pc[Acceptor] \in Busy => conns \in Conns /\ peer[conns] \in Workstations
  BY DEF ThreadsOK, AcceptorOK, ConnsOK, Conns
<1>1. ASSUME NEW w \in Workstations, Accept(w) PROVE VarsOK' /\ ThreadsOK'
  <2>0. conns + 1 \in Conns /\ conns + 1 \in 0..MaxConnections
    BY <1>1 DEF Accept, Conns, ConnsOK
  <2>1. RecordsOK' /\ EventsOK'
    BY <1>1 DEF RecordsOK, EventsOK, Accept
  <2>2. ConnsOK'
    BY <1>1, <2>0 DEF ConnsOK, Accept
  <2>3. LocalVarsOK'
    <3>1. pc' \in [Threads -> {"add", "get"} \cup {pc[t] : t \in Threads}]
      BY <1>1 DEF LocalVarsOK, Accept
    <3>2. idx' \in [Threads -> Nat]
      <4>1. CASE idx' = idx
        BY <4>1 DEF LocalVarsOK
      <4>2. ASSUME NEW i \in DOMAIN clientVector, idx' = [idx EXCEPT ![Acceptor] = i]
            PROVE  idx' \in [Threads -> Nat]
        BY <4>2, VectorElements DEF LocalVarsOK
      <4> QED BY <1>1, <4>1, <4>2 DEF Accept
    <3> QED BY <1>1, <3>1, <3>2 DEF LocalVarsOK, Accept, AcceptorSteps
  <2>4. AcceptorOK'
    BY <1>1, <2>0 DEF LocalVarsOK, AcceptorOK, RecordsOK, ConnsOK, Accept, IsFirst, AcceptorSteps, Busy
  <2>5. Local(Acceptor)
    BY <1>1 DEF Local, Kept, LocalVarsOK, Accept
  <2> QED BY <1>1, <2>1, <2>2, <2>3, <2>4, <2>5, OthersKeepTypes DEF ThreadsOK, Local, Accept
<1>2. CASE Register
  <2>0. conns \in Conns /\ peer[conns] \in Workstations
    BY <1>0, <1>2 DEF Register, Busy, AcceptorSteps
  <2>1. RecordsOK' /\ EventsOK' /\ ConnsOK'
    BY <1>2, <2>0 DEF RecordsOK, EventsOK, ConnsOK, Register
  <2>2. LocalVarsOK'
    BY <1>2, <2>0 DEF LocalVarsOK, Register, AcceptorSteps
  <2>3. AcceptorOK'
    BY <1>2, <2>0 DEF LocalVarsOK, ThreadsOK, AcceptorOK, Register, AcceptorSteps, Busy
  <2>4. Local(Acceptor)
    BY <1>2 DEF Local, Kept, LocalVarsOK, Register
  <2> QED BY <1>2, <2>1, <2>2, <2>3, <2>4, OthersKeepTypes DEF ThreadsOK, Local, Register
<1>3. CASE StartNew
  <2>0. conns \in Conns /\ peer[conns] \in Workstations
    BY <1>0, <1>3 DEF StartNew, Busy, AcceptorSteps
  <2>1. RecordsOK' /\ EventsOK' /\ ConnsOK'
    BY <1>3, <2>0 DEF RecordsOK, EventsOK, ConnsOK, StartNew, Answered
  <2>2. LocalVarsOK'
    BY <1>3, <2>0 DEF LocalVarsOK, StartNew, Answered, AcceptorSteps
  <2>3. AcceptorOK'
    BY <1>3, <2>0 DEF LocalVarsOK, ThreadsOK, AcceptorOK, StartNew, Answered, AcceptorSteps, Busy
  <2>4. \A u \in Threads \ {Acceptor, conns} : Kept(u)
    BY <1>3 DEF Kept, LocalVarsOK, StartNew, Answered
  <2>5. ClientOK(conns)'
    BY <1>3, <2>0 DEF LocalVarsOK, ClientOK, ServingSteps, RequestSteps, CancelSteps, EndSteps, StartNew, Answered
  <2>6. \A h \in Conns : ClientOK(h)'
    BY <1>3, <2>0, <2>4, <2>5, OthersKeepTypes DEF StartNew
  <2> QED BY <1>3, <2>0, <2>1, <2>2, <2>3, <2>4, <2>6, OthersKeepTypes DEF ThreadsOK, StartNew
<1>9. pc[Acceptor] = "get" => clientVector[idx[Acceptor]] \in Workstations
  BY VectorElements DEF ThreadsOK, AcceptorOK
<1>4. CASE GetRecord
  <2>0. conns \in Conns /\ peer[conns] \in Workstations
    BY <1>0, <1>4 DEF GetRecord, Busy, AcceptorSteps
  <2>1. RecordsOK' /\ EventsOK' /\ ConnsOK'
    BY <1>4, <2>0 DEF RecordsOK, EventsOK, ConnsOK, GetRecord
  <2>2. LocalVarsOK'
    BY <1>4, <2>0, <1>9 DEF LocalVarsOK, GetRecord, AcceptorSteps
  <2>3. AcceptorOK'
    BY <1>4, <2>0, <1>9 DEF LocalVarsOK, ThreadsOK, AcceptorOK, GetRecord, AcceptorSteps, Busy
  <2>4. Local(Acceptor)
    BY <1>4 DEF Local, Kept, LocalVarsOK, GetRecord
  <2> QED BY <1>4, <2>1, <2>2, <2>3, <2>4, OthersKeepTypes DEF ThreadsOK, Local, GetRecord
<1>5. CASE SetHandler
  <2>0. conns \in Conns /\ peer[conns] \in Workstations
    BY <1>0, <1>5 DEF SetHandler, Busy, AcceptorSteps
  <2>1. RecordsOK' /\ EventsOK' /\ ConnsOK'
    BY <1>5, <2>0 DEF RecordsOK, EventsOK, ConnsOK, SetHandler
  <2>2. LocalVarsOK'
    BY <1>5, <2>0 DEF LocalVarsOK, SetHandler, AcceptorSteps
  <2>3. AcceptorOK'
    BY <1>5, <2>0 DEF LocalVarsOK, ThreadsOK, AcceptorOK, SetHandler, AcceptorSteps, Busy
  <2>4. Local(Acceptor)
    BY <1>5 DEF Local, Kept, LocalVarsOK, SetHandler
  <2> QED BY <1>5, <2>1, <2>2, <2>3, <2>4, OthersKeepTypes DEF ThreadsOK, Local, SetHandler
<1>6. CASE Refuse
  <2>0. conns \in Conns /\ peer[conns] \in Workstations
    BY <1>0, <1>6 DEF Refuse, Busy, AcceptorSteps
  <2>1. RecordsOK' /\ EventsOK' /\ ConnsOK'
    <3>1. resets' \in 0..MaxResets
      BY <1>6, AnsweredTypes DEF Refuse, AnswerThen
    <3> QED BY <1>6, <2>0, <3>1 DEF RecordsOK, EventsOK, ConnsOK, Refuse, AnswerThen
  <2>2. LocalVarsOK'
    BY <1>6, <2>0 DEF LocalVarsOK, Refuse, Answered, AnswerThen, AcceptorSteps
  <2>3. AcceptorOK'
    BY <1>6, <2>0 DEF LocalVarsOK, ThreadsOK, AcceptorOK, Refuse, Answered, AnswerThen, AcceptorSteps, Busy
  <2>4. Local(Acceptor)
    BY <1>6 DEF Local, Kept, LocalVarsOK, Refuse, Answered, AnswerThen
  <2> QED BY <1>6, <2>1, <2>2, <2>3, <2>4, OthersKeepTypes DEF ThreadsOK, Local, Refuse
<1>7. CASE StartAgain
  <2>0. conns \in Conns /\ peer[conns] \in Workstations
    BY <1>0, <1>7 DEF StartAgain, Busy, AcceptorSteps
  <2>1. RecordsOK' /\ EventsOK' /\ ConnsOK'
    BY <1>7, <2>0 DEF RecordsOK, EventsOK, ConnsOK, StartAgain
  <2>2. LocalVarsOK'
    BY <1>7, <2>0 DEF LocalVarsOK, StartAgain, AcceptorSteps
  <2>3. AcceptorOK'
    BY <1>7, <2>0 DEF LocalVarsOK, ThreadsOK, AcceptorOK, StartAgain, AcceptorSteps, Busy
  <2>4. \A u \in Threads \ {Acceptor, conns} : Kept(u)
    BY <1>7 DEF Kept, LocalVarsOK, StartAgain
  <2>5. ClientOK(conns)'
    BY <1>7, <2>0 DEF LocalVarsOK, ClientOK, ServingSteps, RequestSteps, CancelSteps, EndSteps, StartAgain
  <2>6. \A h \in Conns : ClientOK(h)'
    BY <1>7, <2>0, <2>4, <2>5, OthersKeepTypes DEF StartAgain
  <2> QED BY <1>7, <2>0, <2>1, <2>2, <2>3, <2>4, <2>6, OthersKeepTypes DEF ThreadsOK, StartAgain
<1>8. CASE SetOnline
  <2>0. conns \in Conns /\ peer[conns] \in Workstations
    BY <1>0, <1>8 DEF SetOnline, Busy, AcceptorSteps
  <2>1. RecordsOK' /\ EventsOK' /\ ConnsOK'
    <3>1. resets' \in 0..MaxResets
      BY <1>8, AnsweredTypes DEF SetOnline, AnswerThen
    <3> QED BY <1>8, <2>0, <3>1 DEF RecordsOK, EventsOK, ConnsOK, SetOnline, AnswerThen
  <2>2. LocalVarsOK'
    BY <1>8, <2>0 DEF LocalVarsOK, SetOnline, Answered, AnswerThen, AcceptorSteps
  <2>3. AcceptorOK'
    BY <1>8, <2>0 DEF LocalVarsOK, ThreadsOK, AcceptorOK, SetOnline, Answered, AnswerThen, AcceptorSteps, Busy
  <2>4. Local(Acceptor)
    BY <1>8 DEF Local, Kept, LocalVarsOK, SetOnline, Answered, AnswerThen
  <2> QED BY <1>8, <2>1, <2>2, <2>3, <2>4, OthersKeepTypes DEF ThreadsOK, Local, SetOnline
<1> QED BY <1>1, <1>2, <1>3, <1>4, <1>5, <1>6, <1>7, <1>8 DEF AcceptorNext

(* What the SQL statements of an event change.                             *)
LEMMA EventTypes ==
  ASSUME EventsOK, NEW t, NEW w \in Workstations, NEW change \in Int, NEW ok, NEW failed,
         InsertEvent(t, w, change, ok, failed)
  PROVE  /\ tables' = tables /\ sqlFaults' \in 0..MaxSqlFaults
         /\ open' \in [Workstations -> Int]
         /\ Goto(t, ok) \/ Goto(t, failed)
<1>1. PICK n \in 0..MaxSqlFaults : n = sqlFaults
  BY DEF EventsOK
<1>2. n < MaxSqlFaults => n + 1 \in 0..MaxSqlFaults
  BY HelpQueueAssumption
<1>3. [open EXCEPT ![w] = @ + change] \in [Workstations -> Int]
  BY DEF EventsOK
<1> QED BY <1>1, <1>2, <1>3 DEF InsertEvent, EventsOK, events

(* A CANCEL row, or none if the record has no date.                        *)
LEMMA CancelTypes ==
  ASSUME EventsOK, NEW t, NEW w \in Workstations, NEW ok, NEW failed,
         InsertCancel(t, w, ok, failed)
  PROVE  /\ tables' = tables /\ sqlFaults' \in 0..MaxSqlFaults
         /\ open' \in [Workstations -> Int]
         /\ Goto(t, ok) \/ Goto(t, failed)
<1>1. CASE date[w] = NoDate
  BY <1>1 DEF InsertCancel, EventsOK, events
<1>2. CASE date[w] # NoDate
  BY <1>2, EventTypes DEF InsertCancel
<1> QED BY <1>1, <1>2

(* A thread that is about to stamp a request may.                          *)
LEMMA RequestingFinite == IsFiniteSet(Requesting) /\ Cardinality(Requesting) \in Nat
<1>1. Requesting \subseteq 1..MaxConnections
  BY DEF Requesting, Conns
<1>2. IsFiniteSet(1..MaxConnections)
  BY HelpQueueAssumption, FS_Interval
<1> QED BY <1>1, <1>2, FS_Subset, FS_CardinalityType

(* A thread that is about to stamp its request finds the clock below bound.*)
LEMMA MayStamp ==
  ASSUME RecordsOK, RequestsOK, NEW h \in Conns, pc[h] = "reqDate"
  PROVE  requests + 1 \in 0..MaxRequests
<1>1. h \in Requesting
  BY DEF Requesting
<1>2. Cardinality(Requesting) # 0
  BY <1>1, RequestingFinite, FS_EmptySet
<1> QED BY <1>2, RequestingFinite, HelpQueueAssumption DEF RequestsOK, RecordsOK

(* Types, for each step of a client thread.                                *)
LEMMA ClientTypes ==
  ASSUME VarsOK, ThreadsOK, RequestsOK, NEW h \in Conns, ClientNext(h)
  PROVE  VarsOK' /\ ThreadsOK' /\ Local(h)
<1> USE ThreadKinds, HelpQueueAssumption DEF VarsOK, clientData, events, Goto
<1>0. /\ ClientOK(h)
      /\ pc[h] \in ServingSteps => cd[h] \in Workstations
      /\ {"ready"} \cup RequestSteps \cup EndSteps \cup CancelSteps \subseteq ServingSteps
  BY DEF ThreadsOK, ClientOK, ServingSteps
(* All but the step's own thread are as they were.                          *)
<1>a. ASSUME Local(h), ClientOK(h)', UNCHANGED <<clientVector, conns, peer>>
      PROVE  ThreadsOK'
  BY <1>a, OthersKeepTypes DEF ThreadsOK, Local
<1>1. CASE LookupFound(h)
  <2>1. RecordsOK' /\ EventsOK' /\ ConnsOK'
    BY <1>0, <1>1, VectorElements DEF RecordsOK, EventsOK, ConnsOK, LookupFound, IsFirst
  <2>2. LocalVarsOK'
    BY <1>0, <1>1, VectorElements DEF LocalVarsOK, LookupFound, IsFirst, AcceptorSteps, ServingSteps, RequestSteps, EndSteps, CancelSteps
  <2>3. ClientOK(h)'
    BY <1>0, <1>1, VectorElements DEF LocalVarsOK, ClientOK, LookupFound, IsFirst, ServingSteps, RequestSteps, EndSteps, CancelSteps
  <2>4. Local(h)
    BY <1>1, VectorElements DEF Local, Kept, LocalVarsOK, LookupFound, IsFirst
  <2> QED BY <1>a, <1>1, <2>1, <2>2, <2>3, <2>4 DEF LookupFound
<1>2. CASE LookupFailed(h)
  <2>1. RecordsOK' /\ EventsOK' /\ ConnsOK'
    BY <1>0, <1>2 DEF RecordsOK, EventsOK, ConnsOK, LookupFailed
  <2>2. LocalVarsOK'
    BY <1>0, <1>2 DEF LocalVarsOK, LookupFailed, AcceptorSteps, ServingSteps, RequestSteps, EndSteps, CancelSteps
  <2>3. ClientOK(h)'
    BY <1>0, <1>2 DEF LocalVarsOK, ClientOK, LookupFailed, ServingSteps, RequestSteps, EndSteps, CancelSteps
  <2>4. Local(h)
    BY <1>2 DEF Local, Kept, LocalVarsOK, LookupFailed
  <2> QED BY <1>a, <1>2, <2>1, <2>2, <2>3, <2>4 DEF LookupFailed
<1>3. CASE GetData(h)
  <2>0. clientVector[idx[h]] \in Workstations
    BY <1>0, <1>3, VectorElements DEF ClientOK, GetData
  <2>1. RecordsOK' /\ EventsOK' /\ ConnsOK'
    BY <1>0, <1>3, <2>0 DEF RecordsOK, EventsOK, ConnsOK, GetData
  <2>2. LocalVarsOK'
    BY <1>0, <1>3, <2>0 DEF LocalVarsOK, GetData, AcceptorSteps, ServingSteps, RequestSteps, EndSteps, CancelSteps
  <2>3. ClientOK(h)'
    BY <1>0, <1>3, <2>0 DEF LocalVarsOK, ClientOK, GetData, ServingSteps, RequestSteps, EndSteps, CancelSteps
  <2>4. Local(h)
    BY <1>3, <2>0 DEF Local, Kept, LocalVarsOK, GetData
  <2> QED BY <1>a, <1>3, <2>1, <2>2, <2>3, <2>4 DEF GetData
<1>4. CASE Request(h)
  <2>1. RecordsOK' /\ EventsOK' /\ ConnsOK'
    BY <1>0, <1>4 DEF RecordsOK, EventsOK, ConnsOK, Request
  <2>2. LocalVarsOK'
    BY <1>0, <1>4 DEF LocalVarsOK, Request, AcceptorSteps, ServingSteps, RequestSteps, EndSteps, CancelSteps
  <2>3. ClientOK(h)'
    BY <1>0, <1>4 DEF LocalVarsOK, ClientOK, Request, ServingSteps, RequestSteps, EndSteps, CancelSteps
  <2>4. Local(h)
    BY <1>4 DEF Local, Kept, LocalVarsOK, Request
  <2> QED BY <1>a, <1>4, <2>1, <2>2, <2>3, <2>4 DEF Request
<1>5. CASE RequestHelping(h)
  <2>0. pc[h] \in ServingSteps /\ cd[h] \in Workstations
    BY <1>0, <1>5 DEF RequestHelping, RequestSteps
  <2>1. RecordsOK' /\ EventsOK' /\ ConnsOK'
    BY <1>0, <1>5, <2>0 DEF RecordsOK, EventsOK, ConnsOK, RequestHelping, SetHelping
  <2>2. LocalVarsOK'
    BY <1>0, <1>5, <2>0 DEF LocalVarsOK, RequestHelping, SetHelping, AcceptorSteps, ServingSteps, RequestSteps, EndSteps, CancelSteps
  <2>3. ClientOK(h)'
    BY <1>0, <1>5, <2>0 DEF LocalVarsOK, ClientOK, RequestHelping, SetHelping, ServingSteps, RequestSteps, EndSteps, CancelSteps
  <2>4. Local(h)
    BY <1>5, <2>0 DEF Local, Kept, LocalVarsOK, RequestHelping, SetHelping
  <2> QED BY <1>a, <1>5, <2>1, <2>2, <2>3, <2>4 DEF RequestHelping
<1>6. CASE RequestDate(h)
  <2>0. pc[h] \in ServingSteps /\ cd[h] \in Workstations
    BY <1>0, <1>6 DEF RequestDate, RequestSteps
  <2>9. requests + 1 \in 0..MaxRequests
    BY <1>6, MayStamp DEF RequestDate
  <2>1. RecordsOK' /\ EventsOK' /\ ConnsOK'
    BY <1>0, <1>6, <2>0, <2>9 DEF RecordsOK, EventsOK, ConnsOK, RequestDate, SetDate
  <2>2. LocalVarsOK'
    BY <1>0, <1>6, <2>0, <2>9 DEF LocalVarsOK, RequestDate, SetDate, AcceptorSteps, ServingSteps, RequestSteps, EndSteps, CancelSteps
  <2>3. ClientOK(h)'
    BY <1>0, <1>6, <2>0, <2>9 DEF LocalVarsOK, ClientOK, RequestDate, SetDate, ServingSteps, RequestSteps, EndSteps, CancelSteps
  <2>4. Local(h)
    BY <1>6, <2>0, <2>9 DEF Local, Kept, LocalVarsOK, RequestDate, SetDate
  <2> QED BY <1>a, <1>6, <2>1, <2>2, <2>3, <2>4 DEF RequestDate
<1>7. CASE RequestInsert(h)
  <2>0. pc[h] \in ServingSteps /\ cd[h] \in Workstations
    BY <1>0, <1>7 DEF RequestInsert, RequestSteps
  <2>9. /\ tables' = tables /\ sqlFaults' \in 0..MaxSqlFaults
        /\ open' \in [Workstations -> Int]
        /\ Goto(h, "ready")
    <3>1. CASE date[cd[h]] = NoDate
      BY <1>7, <3>1 DEF RequestInsert, EventsOK
    <3>2. CASE InsertEvent(h, cd[h], 1, "ready", "ready")
      <4>1. 1 \in Int OBVIOUS
      <4> HIDE DEF Goto
      <4> QED BY <2>0, <3>2, <4>1, EventTypes, Zenon
    <3> QED BY <1>7, <3>1, <3>2 DEF RequestInsert
  <2>1. RecordsOK' /\ EventsOK' /\ ConnsOK'
    BY <1>0, <1>7, <2>0, <2>9 DEF RecordsOK, EventsOK, ConnsOK, RequestInsert
  <2>2. LocalVarsOK'
    BY <1>0, <1>7, <2>0, <2>9 DEF LocalVarsOK, RequestInsert, AcceptorSteps, ServingSteps, RequestSteps, EndSteps, CancelSteps
  <2>3. ClientOK(h)'
    BY <1>0, <1>7, <2>0, <2>9 DEF LocalVarsOK, ClientOK, RequestInsert, ServingSteps, RequestSteps, EndSteps, CancelSteps
  <2>4. Local(h)
    BY <1>7, <2>0, <2>9 DEF Local, Kept, LocalVarsOK, RequestInsert
  <2> QED BY <1>a, <1>7, <2>1, <2>2, <2>3, <2>4 DEF RequestInsert
<1>8. CASE Leave(h)
  <2>1. RecordsOK' /\ EventsOK' /\ ConnsOK'
    BY <1>0, <1>8 DEF RecordsOK, EventsOK, ConnsOK, Leave
  <2>2. LocalVarsOK'
    BY <1>0, <1>8 DEF LocalVarsOK, Leave, AcceptorSteps, ServingSteps, RequestSteps, EndSteps, CancelSteps
  <2>3. ClientOK(h)'
    BY <1>0, <1>8 DEF LocalVarsOK, ClientOK, Leave, ServingSteps, RequestSteps, EndSteps, CancelSteps
  <2>4. Local(h)
    BY <1>8 DEF Local, Kept, LocalVarsOK, Leave
  <2> QED BY <1>a, <1>8, <2>1, <2>2, <2>3, <2>4 DEF Leave
<1>9. CASE EndInsert(h)
  <2>0. pc[h] \in ServingSteps /\ cd[h] \in Workstations
    BY <1>0, <1>9 DEF EndInsert, EndSteps
  <2>9. /\ tables' = tables /\ sqlFaults' \in 0..MaxSqlFaults
        /\ open' \in [Workstations -> Int]
        /\ \E p \in {"endHelping", "dead"} : pc' = [pc EXCEPT ![h] = p]
    BY <1>9, <2>0, CancelTypes DEF EndInsert, EventsOK
  <2>1. RecordsOK' /\ EventsOK' /\ ConnsOK'
    BY <1>0, <1>9, <2>0, <2>9 DEF RecordsOK, EventsOK, ConnsOK, EndInsert
  <2>2. LocalVarsOK'
    BY <1>0, <1>9, <2>0, <2>9 DEF LocalVarsOK, EndInsert, AcceptorSteps, ServingSteps, RequestSteps, EndSteps, CancelSteps
  <2>3. ClientOK(h)'
    BY <1>0, <1>9, <2>0, <2>9 DEF LocalVarsOK, ClientOK, EndInsert, ServingSteps, RequestSteps, EndSteps, CancelSteps
  <2>4. Local(h)
    BY <1>9, <2>0, <2>9 DEF Local, Kept, LocalVarsOK, EndInsert
  <2> QED BY <1>a, <1>9, <2>1, <2>2, <2>3, <2>4 DEF EndInsert
<1>10. CASE EndHelping(h)
  <2>0. pc[h] \in ServingSteps /\ cd[h] \in Workstations
    BY <1>0, <1>10 DEF EndHelping, EndSteps
  <2>1. RecordsOK' /\ EventsOK' /\ ConnsOK'
    BY <1>0, <1>10, <2>0 DEF RecordsOK, EventsOK, ConnsOK, EndHelping, SetHelping
  <2>2. LocalVarsOK'
    BY <1>0, <1>10, <2>0 DEF LocalVarsOK, EndHelping, SetHelping, AcceptorSteps, ServingSteps, RequestSteps, EndSteps, CancelSteps
  <2>3. ClientOK(h)'
    BY <1>0, <1>10, <2>0 DEF LocalVarsOK, ClientOK, EndHelping, SetHelping, ServingSteps, RequestSteps, EndSteps, CancelSteps
  <2>4. Local(h)
    BY <1>10, <2>0 DEF Local, Kept, LocalVarsOK, EndHelping, SetHelping
  <2> QED BY <1>a, <1>10, <2>1, <2>2, <2>3, <2>4 DEF EndHelping
<1>11. CASE EndDate(h)
  <2>0. pc[h] \in ServingSteps /\ cd[h] \in Workstations
    BY <1>0, <1>11 DEF EndDate, EndSteps
  <2>1. RecordsOK' /\ EventsOK' /\ ConnsOK'
    BY <1>0, <1>11, <2>0 DEF RecordsOK, EventsOK, ConnsOK, EndDate, SetDate, NoDate
  <2>2. LocalVarsOK'
    BY <1>0, <1>11, <2>0 DEF LocalVarsOK, EndDate, SetDate, NoDate, AcceptorSteps, ServingSteps, RequestSteps, EndSteps, CancelSteps
  <2>3. ClientOK(h)'
    BY <1>0, <1>11, <2>0 DEF LocalVarsOK, ClientOK, EndDate, SetDate, NoDate, ServingSteps, RequestSteps, EndSteps, CancelSteps
  <2>4. Local(h)
    BY <1>11, <2>0 DEF Local, Kept, LocalVarsOK, EndDate, SetDate, NoDate
  <2> QED BY <1>a, <1>11, <2>1, <2>2, <2>3, <2>4 DEF EndDate
<1>12. CASE EndOnline(h)
  <2>0. pc[h] \in ServingSteps /\ cd[h] \in Workstations
    BY <1>0, <1>12 DEF EndOnline, EndSteps
  <2>1. RecordsOK' /\ EventsOK' /\ ConnsOK'
    BY <1>0, <1>12, <2>0 DEF RecordsOK, EventsOK, ConnsOK, EndOnline
  <2>2. LocalVarsOK'
    BY <1>0, <1>12, <2>0 DEF LocalVarsOK, EndOnline, AcceptorSteps, ServingSteps, RequestSteps, EndSteps, CancelSteps
  <2>3. ClientOK(h)'
    BY <1>0, <1>12, <2>0 DEF LocalVarsOK, ClientOK, EndOnline, ServingSteps, RequestSteps, EndSteps, CancelSteps
  <2>4. Local(h)
    BY <1>12, <2>0 DEF Local, Kept, LocalVarsOK, EndOnline
  <2> QED BY <1>a, <1>12, <2>1, <2>2, <2>3, <2>4 DEF EndOnline
<1>13. CASE ClientCancel(h)
  <2>1. RecordsOK' /\ EventsOK' /\ ConnsOK'
    BY <1>0, <1>13 DEF RecordsOK, EventsOK, ConnsOK, ClientCancel
  <2>2. LocalVarsOK'
    BY <1>0, <1>13 DEF LocalVarsOK, ClientCancel, AcceptorSteps, ServingSteps, RequestSteps, EndSteps, CancelSteps
  <2>3. ClientOK(h)'
    BY <1>0, <1>13 DEF LocalVarsOK, ClientOK, ClientCancel, ServingSteps, RequestSteps, EndSteps, CancelSteps
  <2>4. Local(h)
    BY <1>13 DEF Local, Kept, LocalVarsOK, ClientCancel
  <2> QED BY <1>a, <1>13, <2>1, <2>2, <2>3, <2>4 DEF ClientCancel
<1> QED BY <1>1, <1>2, <1>3, <1>4, <1>5, <1>6, <1>7, <1>8, <1>9, <1>10, <1>11, <1>12, <1>13
       DEF ClientNext

(* Types, for each step of a cancellation.                                 *)
LEMMA CancelStepTypes ==
  ASSUME VarsOK, ThreadsOK, NEW t \in Conns \cup Admins, CancelNext(t)
  PROVE  VarsOK' /\ ThreadsOK' /\ Local(t)
<1> USE ThreadKinds, HelpQueueAssumption DEF VarsOK, clientData, events, Goto
<1>0. /\ t \in Conns => ClientOK(t)
      /\ t \in Admins => HelperOK(t)
      /\ pc[t] \in CancelSteps => cd[t] \in Workstations
      /\ t \in Threads
  BY DEF ThreadsOK, ClientOK, HelperOK, ServingSteps
<1>a. ASSUME Local(t), t \in Conns => ClientOK(t)', t \in Admins => HelperOK(t)',
             UNCHANGED <<clientVector, conns, peer>>
      PROVE  ThreadsOK'
  BY <1>a, OthersKeepTypes DEF ThreadsOK, Local
<1>1. CASE CancelCheck(t)
  <2>0. pc[t] \in CancelSteps /\ cd[t] \in Workstations
    BY <1>0, <1>1 DEF CancelCheck, CancelSteps
  <2>1. RecordsOK' /\ EventsOK' /\ ConnsOK'
    BY <1>1, <2>0 DEF RecordsOK, EventsOK, ConnsOK, CancelCheck
  <2>2. LocalVarsOK'
    BY <1>0, <1>1 DEF LocalVarsOK, CancelCheck, ServingSteps, RequestSteps, EndSteps, CancelSteps, InitSteps
  <2>3. t \in Conns => ClientOK(t)'
    BY <1>0, <1>1, <2>0 DEF LocalVarsOK, ClientOK, CancelCheck, ServingSteps, RequestSteps, EndSteps, CancelSteps, InitSteps
  <2>4. t \in Admins => HelperOK(t)'
    BY <1>0, <1>1, <2>0 DEF LocalVarsOK, HelperOK, CancelCheck, ServingSteps, RequestSteps, EndSteps, CancelSteps, InitSteps
  <2>5. Local(t)
    BY <1>1 DEF Local, Kept, LocalVarsOK, CancelCheck
  <2> QED BY <1>a, <1>1, <2>1, <2>2, <2>3, <2>4, <2>5 DEF CancelCheck
<1>2. CASE CancelInsert(t)
  <2>0. pc[t] \in CancelSteps /\ cd[t] \in Workstations
    BY <1>0, <1>2 DEF CancelInsert, CancelSteps
  <2>9. /\ tables' = tables /\ sqlFaults' \in 0..MaxSqlFaults
        /\ open' \in [Workstations -> Int]
        /\ \E p \in {"cancelHelping", "ready"} : pc' = [pc EXCEPT ![t] = p]
    BY <1>2, <2>0, CancelTypes DEF CancelInsert
  <2>1. RecordsOK' /\ EventsOK' /\ ConnsOK'
    BY <1>2, <2>0, <2>9 DEF RecordsOK, EventsOK, ConnsOK, CancelInsert
  <2>2. LocalVarsOK'
    BY <1>0, <1>2, <2>9 DEF LocalVarsOK, CancelInsert, ServingSteps, RequestSteps, EndSteps, CancelSteps, InitSteps
  <2>3. t \in Conns => ClientOK(t)'
    BY <1>0, <1>2, <2>0, <2>9 DEF LocalVarsOK, ClientOK, CancelInsert, ServingSteps, RequestSteps, EndSteps, CancelSteps, InitSteps
  <2>4. t \in Admins => HelperOK(t)'
    BY <1>0, <1>2, <2>0, <2>9 DEF LocalVarsOK, HelperOK, CancelInsert, ServingSteps, RequestSteps, EndSteps, CancelSteps, InitSteps
  <2>5. Local(t)
    BY <1>2, <2>9 DEF Local, Kept, LocalVarsOK, CancelInsert
  <2> QED BY <1>a, <1>2, <2>1, <2>2, <2>3, <2>4, <2>5 DEF CancelInsert
<1>3. CASE CancelHelping(t)
  <2>0. pc[t] \in CancelSteps /\ cd[t] \in Workstations
    BY <1>0, <1>3 DEF CancelHelping, CancelSteps
  <2>1. RecordsOK' /\ EventsOK' /\ ConnsOK'
    BY <1>3, <2>0 DEF RecordsOK, EventsOK, ConnsOK, CancelHelping, SetHelping
  <2>2. LocalVarsOK'
    BY <1>0, <1>3 DEF LocalVarsOK, CancelHelping, SetHelping, ServingSteps, RequestSteps, EndSteps, CancelSteps, InitSteps
  <2>3. t \in Conns => ClientOK(t)'
    BY <1>0, <1>3, <2>0 DEF LocalVarsOK, ClientOK, CancelHelping, SetHelping, ServingSteps, RequestSteps, EndSteps, CancelSteps, InitSteps
  <2>4. t \in Admins => HelperOK(t)'
    BY <1>0, <1>3, <2>0 DEF LocalVarsOK, HelperOK, CancelHelping, SetHelping, ServingSteps, RequestSteps, EndSteps, CancelSteps, InitSteps
  <2>5. Local(t)
    BY <1>3 DEF Local, Kept, LocalVarsOK, CancelHelping, SetHelping
  <2> QED BY <1>a, <1>3, <2>1, <2>2, <2>3, <2>4, <2>5 DEF CancelHelping
<1>4. CASE CancelDate(t)
  <2>0. pc[t] \in CancelSteps /\ cd[t] \in Workstations
    BY <1>0, <1>4 DEF CancelDate, CancelSteps
  <2>1. RecordsOK' /\ EventsOK' /\ ConnsOK'
    BY <1>4, <2>0 DEF RecordsOK, EventsOK, ConnsOK, CancelDate, SetDate, NoDate
  <2>2. LocalVarsOK'
    BY <1>0, <1>4 DEF LocalVarsOK, CancelDate, SetDate, NoDate, ServingSteps, RequestSteps, EndSteps, CancelSteps, InitSteps
  <2>3. t \in Conns => ClientOK(t)'
    BY <1>0, <1>4, <2>0 DEF LocalVarsOK, ClientOK, CancelDate, SetDate, NoDate, ServingSteps, RequestSteps, EndSteps, CancelSteps, InitSteps
  <2>4. t \in Admins => HelperOK(t)'
    BY <1>0, <1>4, <2>0 DEF LocalVarsOK, HelperOK, CancelDate, SetDate, NoDate, ServingSteps, RequestSteps, EndSteps, CancelSteps, InitSteps
  <2>5. Local(t)
    BY <1>4 DEF Local, Kept, LocalVarsOK, CancelDate, SetDate, NoDate
  <2> QED BY <1>a, <1>4, <2>1, <2>2, <2>3, <2>4, <2>5 DEF CancelDate
<1> QED BY <1>1, <1>2, <1>3, <1>4 DEF CancelNext

(* Types, for each step of an administrator's thread or the timer.         *)
LEMMA HelperTypes ==
  ASSUME VarsOK, ThreadsOK, NEW t \in Admins \cup Updaters,
         (t \in Admins /\ AdminNext(t)) \/ InitializeNext(t)
  PROVE  VarsOK' /\ ThreadsOK' /\ Local(t)
<1> USE ThreadKinds, HelpQueueAssumption DEF VarsOK, clientData, events, Goto
<1>0. HelperOK(t) /\ t \in Threads
  BY DEF ThreadsOK
<1>a. ASSUME Local(t), HelperOK(t)', UNCHANGED <<clientVector, conns, peer>>
      PROVE  ThreadsOK'
  BY <1>a, OthersKeepTypes DEF ThreadsOK, Local
<1>b. pc[t] \in {"cancelGet"} \cup (InitSteps \ {"initCheck"}) =>
        idx[t] \in DOMAIN clientVector /\ idx[t] + 1 \in Nat \ {0} /\ Element(t) \in Workstations
  BY <1>0, VectorElements DEF HelperOK, Element
<1>1. ASSUME NEW w \in Workstations, AdminCancel(t, w)
      PROVE  VarsOK' /\ ThreadsOK' /\ Local(t)
  <2>1. RecordsOK' /\ EventsOK' /\ ConnsOK'
    BY <1>1, VectorElements DEF RecordsOK, EventsOK, ConnsOK, AdminCancel, IsFirst
  <2>2. LocalVarsOK'
    BY <1>1, VectorElements DEF LocalVarsOK, AdminCancel, IsFirst, ServingSteps, RequestSteps, EndSteps, CancelSteps, InitSteps
  <2>3. HelperOK(t)'
    BY <1>0, <1>1, VectorElements DEF LocalVarsOK, HelperOK, AdminCancel, IsFirst, ServingSteps, RequestSteps, EndSteps, CancelSteps, InitSteps
  <2>4. Local(t)
    BY <1>1, VectorElements DEF Local, Kept, LocalVarsOK, AdminCancel, IsFirst
  <2> QED BY <1>a, <1>1, <2>1, <2>2, <2>3, <2>4 DEF AdminCancel
<1>2. CASE CancelGet(t)
  <2>0. clientVector[idx[t]] \in Workstations
    BY <1>b, <1>2 DEF CancelGet, Element
  <2>1. RecordsOK' /\ EventsOK' /\ ConnsOK'
    BY <1>2, <2>0 DEF RecordsOK, EventsOK, ConnsOK, CancelGet
  <2>2. LocalVarsOK'
    BY <1>2, <2>0 DEF LocalVarsOK, CancelGet, ServingSteps, RequestSteps, EndSteps, CancelSteps, InitSteps
  <2>3. HelperOK(t)'
    BY <1>0, <1>2, <2>0 DEF LocalVarsOK, HelperOK, CancelGet, ServingSteps, RequestSteps, EndSteps, CancelSteps, InitSteps
  <2>4. Local(t)
    BY <1>2, <2>0 DEF Local, Kept, LocalVarsOK, CancelGet
  <2> QED BY <1>a, <1>2, <2>1, <2>2, <2>3, <2>4 DEF CancelGet
<1>3. CASE InitializeEvent(t)
  <2>1. RecordsOK' /\ EventsOK' /\ ConnsOK'
    BY <1>3 DEF RecordsOK, EventsOK, ConnsOK, InitializeEvent, Statements
  <2>2. LocalVarsOK'
    BY <1>3 DEF LocalVarsOK, InitializeEvent, Statements, ServingSteps, RequestSteps, EndSteps, CancelSteps, InitSteps
  <2>3. HelperOK(t)'
    BY <1>0, <1>3 DEF LocalVarsOK, HelperOK, InitializeEvent, Statements, ServingSteps, RequestSteps, EndSteps, CancelSteps, InitSteps
  <2>4. Local(t)
    BY <1>3 DEF Local, Kept, LocalVarsOK, InitializeEvent, Statements
  <2> QED BY <1>a, <1>3, <2>1, <2>2, <2>3, <2>4 DEF InitializeEvent
<1>4. CASE ExecuteStatement(t)
  <2>0. PICK k \in 1..4, s \in {Statements[i] : i \in 1..4} : k = idx[t] /\ s = Statements[idx[t]]
    <3>1. idx[t] \in 1..4
      BY <1>0, <1>4 DEF HelperOK, ExecuteStatement, Statements
    <3> QED BY <3>1
  <2>1. Len(Statements) = 4 /\ DOMAIN Statements = 1..4 /\ s.table \in Tables
    BY DEF Statements, Tables
  <2>2. PICK n \in 0..MaxSqlFaults : n = sqlFaults
    BY DEF EventsOK
  <2>3. n < MaxSqlFaults => n + 1 \in 0..MaxSqlFaults
    BY HelpQueueAssumption
  <2>4. RecordsOK' /\ ConnsOK'
    BY <1>4 DEF RecordsOK, ConnsOK, ExecuteStatement
  <2>5. EventsOK'
    BY <1>4, <2>0, <2>1, <2>2, <2>3 DEF EventsOK, ExecuteStatement
  <2>6. LocalVarsOK'
    <3>1. idx' \in [Threads -> Nat]
      <4>1. k + 1 \in Nat
        OBVIOUS
      <4> QED BY <1>0, <1>4, <2>0, <4>1 DEF LocalVarsOK, ExecuteStatement
    <3>2. PICK p \in {"ready", "statement"} : pc' = [pc EXCEPT ![t] = p]
      BY <1>4 DEF ExecuteStatement
    <3>3. p \in ServingSteps \cup {"statement"}
      BY DEF ServingSteps
    <3>4. cd' = cd
      BY <1>4 DEF ExecuteStatement
    <3> QED BY <1>0, <3>1, <3>2, <3>3, <3>4 DEF LocalVarsOK
  <2>7. HelperOK(t)'
    BY <1>0, <1>4, <2>0, <2>1 DEF LocalVarsOK, HelperOK, ExecuteStatement, InitSteps, CancelSteps
  <2>8. Local(t)
    BY <1>4 DEF Local, Kept, LocalVarsOK, ExecuteStatement
  <2> QED BY <1>a, <1>4, <2>4, <2>5, <2>6, <2>7, <2>8 DEF ExecuteStatement
<1>5. CASE InitializeQueue(t)
  <2>1. RecordsOK' /\ EventsOK' /\ ConnsOK'
    BY <1>5 DEF RecordsOK, EventsOK, ConnsOK, InitializeQueue
  <2>2. LocalVarsOK'
    BY <1>5 DEF LocalVarsOK, InitializeQueue, ServingSteps, RequestSteps, EndSteps, CancelSteps, InitSteps
  <2>3. HelperOK(t)'
    BY <1>0, <1>5 DEF LocalVarsOK, HelperOK, InitializeQueue, ServingSteps, RequestSteps, EndSteps, CancelSteps, InitSteps
  <2>4. Local(t)
    BY <1>5 DEF Local, Kept, LocalVarsOK, InitializeQueue
  <2> QED BY <1>a, <1>5, <2>1, <2>2, <2>3, <2>4 DEF InitializeQueue
<1>6. CASE InitCheck(t)
  <2>1. RecordsOK' /\ EventsOK' /\ ConnsOK'
    BY <1>6, <1>0, VectorElements DEF RecordsOK, EventsOK, ConnsOK, InitCheck, Element
  <2>2. LocalVarsOK'
    BY <1>6, <1>0, VectorElements DEF LocalVarsOK, InitCheck, Element, ServingSteps, RequestSteps, EndSteps, CancelSteps, InitSteps
  <2>3. HelperOK(t)'
    BY <1>0, <1>6, <1>0, VectorElements DEF LocalVarsOK, HelperOK, InitCheck, Element, ServingSteps, RequestSteps, EndSteps, CancelSteps, InitSteps
  <2>4. Local(t)
    BY <1>6, <1>0, VectorElements DEF Local, Kept, LocalVarsOK, InitCheck, Element
  <2> QED BY <1>a, <1>6, <2>1, <2>2, <2>3, <2>4 DEF InitCheck
<1>7. CASE InitHelping(t)
  <2>0. idx[t] \in DOMAIN clientVector /\ idx[t] + 1 \in Nat \ {0} /\ Element(t) \in Workstations
    BY <1>b, <1>7 DEF InitHelping, InitSteps
  <2>1. RecordsOK' /\ EventsOK' /\ ConnsOK'
    BY <1>7, <2>0 DEF RecordsOK, EventsOK, ConnsOK, InitHelping, SetHelping
  <2>2. LocalVarsOK'
    BY <1>7, <2>0 DEF LocalVarsOK, InitHelping, SetHelping, ServingSteps, RequestSteps, EndSteps, CancelSteps, InitSteps
  <2>3. HelperOK(t)'
    BY <1>0, <1>7, <2>0 DEF LocalVarsOK, HelperOK, InitHelping, SetHelping, ServingSteps, RequestSteps, EndSteps, CancelSteps, InitSteps
  <2>4. Local(t)
    BY <1>7, <2>0 DEF Local, Kept, LocalVarsOK, InitHelping, SetHelping
  <2> QED BY <1>a, <1>7, <2>1, <2>2, <2>3, <2>4 DEF InitHelping
<1>8. CASE InitInsert(t)
  <2>0. idx[t] \in DOMAIN clientVector /\ idx[t] + 1 \in Nat \ {0} /\ Element(t) \in Workstations
    BY <1>b, <1>8 DEF InitInsert, InitSteps
  <2>9. /\ tables' = tables /\ sqlFaults' \in 0..MaxSqlFaults
        /\ open' \in [Workstations -> Int]
        /\ \E p \in {"initHelping2", "ready"} : pc' = [pc EXCEPT ![t] = p]
    BY <1>8, <2>0, CancelTypes DEF InitInsert
  <2>1. RecordsOK' /\ EventsOK' /\ ConnsOK'
    BY <1>8, <2>0, <2>9 DEF RecordsOK, EventsOK, ConnsOK, InitInsert
  <2>2. LocalVarsOK'
    BY <1>8, <2>0, <2>9 DEF LocalVarsOK, InitInsert, ServingSteps, RequestSteps, EndSteps, CancelSteps, InitSteps
  <2>3. HelperOK(t)'
    BY <1>0, <1>8, <2>0, <2>9 DEF LocalVarsOK, HelperOK, InitInsert, ServingSteps, RequestSteps, EndSteps, CancelSteps, InitSteps
  <2>4. Local(t)
    BY <1>8, <2>0, <2>9 DEF Local, Kept, LocalVarsOK, InitInsert
  <2> QED BY <1>a, <1>8, <2>1, <2>2, <2>3, <2>4 DEF InitInsert
<1>9. CASE InitDate(t)
  <2>0. idx[t] \in DOMAIN clientVector /\ idx[t] + 1 \in Nat \ {0} /\ Element(t) \in Workstations
    BY <1>b, <1>9 DEF InitDate, InitSteps
  <2>9. date' \in [Workstations -> 0..MaxRequests]
    <3>1. NoDate \in 0..MaxRequests
      BY DEF NoDate
    <3> QED BY <1>9, <2>0, <3>1 DEF InitDate, SetDate, RecordsOK
  <2>1. RecordsOK' /\ EventsOK' /\ ConnsOK'
    BY <1>9, <2>0, <2>9 DEF RecordsOK, EventsOK, ConnsOK, InitDate
  <2>2. LocalVarsOK'
    BY <1>9, <2>0, <2>9 DEF LocalVarsOK, InitDate, ServingSteps, RequestSteps, EndSteps, CancelSteps, InitSteps
  <2>3. HelperOK(t)'
    BY <1>0, <1>9, <2>0, <2>9 DEF LocalVarsOK, HelperOK, InitDate, ServingSteps, RequestSteps, EndSteps, CancelSteps, InitSteps
  <2>4. Local(t)
    BY <1>9, <2>0, <2>9 DEF Local, Kept, LocalVarsOK, InitDate
  <2> QED BY <1>a, <1>9, <2>1, <2>2, <2>3, <2>4 DEF InitDate
<1> QED BY <1>1, <1>2, <1>3, <1>4, <1>5, <1>6, <1>7, <1>8, <1>9 DEF AdminNext, InitializeNext

(* Types, when a display sorts the vector.                                 *)
LEMMA DisplayTypes ==
  ASSUME VarsOK, ThreadsOK, DisplayUpdate
  PROVE  VarsOK' /\ ThreadsOK'
<1>1. clientVector' \in Seq(Workstations) /\ DOMAIN clientVector' = DOMAIN clientVector
  BY SortKeepsLength DEF DisplayUpdate, VarsOK, RecordsOK
<1>2. VarsOK'
  BY <1>1 DEF DisplayUpdate, VarsOK, RecordsOK, EventsOK, ConnsOK, LocalVarsOK, clientData, events
<1>3. \A u : Kept(u)
  BY DEF DisplayUpdate, Kept
<1>4. ThreadsOK'
  BY <1>1, <1>3, OthersKeepTypes DEF ThreadsOK, DisplayUpdate
<1> QED BY <1>2, <1>4

-----------------------------------------------------------------------------
(* What the steps of one kind of thread change, for the invariants below.  *)
ClientStep(h) == ClientNext(h) \/ CancelNext(h)
HelperStep(t) == (t \in Admins /\ (AdminNext(t) \/ CancelNext(t))) \/ InitializeNext(t)

(* An administrator or the timer only ever clears requests.                *)
LEMMA HelperEffects ==
  ASSUME VarsOK, ThreadsOK, NEW t \in Admins \cup Updaters, HelperStep(t)
  PROVE  /\ Local(t) /\ idx'[t] # 0
         /\ UNCHANGED <<clientVector, online, handler, peer, conns, requests>>
         /\ \A w \in Workstations : /\ helping'[w] => helping[w]
                                    /\ date'[w] # NoDate => date[w] # NoDate
         /\ "event" \notin AdminOps => tables' = tables
<1> USE ThreadKinds, HelpQueueAssumption DEF VarsOK, clientData, events, Goto
<1>0. HelperOK(t) /\ t \in Threads
  BY DEF ThreadsOK
<1>b. pc[t] \in {"cancelGet"} \cup (InitSteps \ {"initCheck"}) =>
        idx[t] + 1 \in Nat \ {0} /\ Element(t) \in Workstations
  BY <1>0, VectorElements DEF HelperOK, Element
<1>1. Local(t)
  BY CancelStepTypes, HelperTypes DEF HelperStep
<1>2. CASE CancelNext(t)
  <2>1. pc[t] \in CancelSteps /\ cd[t] \in Workstations /\ idx'[t] # 0
    BY <1>0, <1>2 DEF HelperOK, CancelNext, CancelCheck, CancelInsert, CancelHelping, CancelDate, CancelSteps
  <2>2. CASE CancelCheck(t)
    BY <1>1, <2>1, <2>2 DEF CancelCheck
  <2>3. CASE CancelInsert(t)
    BY <1>1, <2>1, <2>3, CancelTypes DEF CancelInsert
  <2>4. CASE CancelHelping(t)
    BY <1>1, <2>1, <2>4 DEF CancelHelping, SetHelping, RecordsOK
  <2>5. CASE CancelDate(t)
    BY <1>1, <2>1, <2>5 DEF CancelDate, SetDate, RecordsOK
  <2> QED BY <1>2, <2>2, <2>3, <2>4, <2>5 DEF CancelNext
<1>3. CASE t \in Admins /\ AdminNext(t)
  <2>1. ASSUME NEW w \in Workstations, AdminCancel(t, w) PROVE idx'[t] # 0
    BY <2>1, VectorElements DEF AdminCancel, IsFirst, LocalVarsOK
  <2>2. CASE \E w \in Workstations : AdminCancel(t, w)
    BY <1>1, <2>1, <2>2 DEF AdminCancel
  <2>3. CASE CancelGet(t)
    BY <1>0, <1>1, <2>3, VectorElements DEF CancelGet, HelperOK
  <2>4. CASE InitializeEvent(t)
    BY <1>0, <1>1, <2>4 DEF InitializeEvent, LocalVarsOK
  <2>5. CASE ExecuteStatement(t)
    <3>1. PICK k \in 1..4 : k = idx[t]
      BY <1>0, <2>5 DEF HelperOK, ExecuteStatement, Statements
    <3>2. k + 1 # 0 /\ "event" \in AdminOps
      BY <1>0, <2>5 DEF HelperOK, ExecuteStatement
    <3> QED BY <1>0, <1>1, <2>5, <3>1, <3>2 DEF ExecuteStatement, LocalVarsOK
  <2> QED BY <1>3, <2>2, <2>3, <2>4, <2>5 DEF AdminNext
<1>4. CASE InitializeNext(t)
  <2>1. CASE InitializeQueue(t)
    BY <1>0, <1>1, <2>1 DEF InitializeQueue, LocalVarsOK
  <2>2. CASE InitCheck(t)
    BY <1>0, <1>1, <2>2 DEF InitCheck, HelperOK, LocalVarsOK
  <2>3. pc[t] \in InitSteps \ {"initCheck"} => idx[t] # 0 /\ Element(t) \in Workstations /\ idx[t] + 1 # 0
    BY <1>0, <1>b, VectorElements DEF HelperOK
  <2>4. CASE InitHelping(t)
    BY <1>1, <2>3, <2>4 DEF InitHelping, InitSteps, SetHelping, RecordsOK
  <2>5. CASE InitInsert(t)
    BY <1>1, <2>3, <2>5, CancelTypes DEF InitInsert, InitSteps
  <2>6. CASE InitDate(t)
    <3>1. idx'[t] # 0
      BY <1>0, <2>3, <2>6 DEF InitDate, InitSteps, LocalVarsOK
    <3> QED BY <1>1, <2>3, <2>6, <3>1 DEF InitDate, InitSteps, SetDate, RecordsOK
  <2> QED BY <1>4, <2>1, <2>2, <2>4, <2>5, <2>6 DEF InitializeNext
<1> QED BY <1>2, <1>3, <1>4 DEF HelperStep

(* A client thread lives until it ends, and keeps the record it works on.  *)
LEMMA ClientEffects ==
  ASSUME VarsOK, ThreadsOK, RequestsOK, NEW h \in Conns, ClientStep(h)
  PROVE  /\ Local(h) /\ Live(h) /\ pc'[h] # "new"
         /\ UNCHANGED <<clientVector, handler, peer, conns, resets>>
         /\ pc'[h] = "getData" => IsFirst(idx'[h], HandledBy(h))
         /\ pc'[h] \in ServingSteps => \/ pc[h] \in ServingSteps /\ cd'[h] = cd[h]
                                       \/ pc[h] = "getData" /\ cd'[h] = clientVector[idx[h]]
         /\ \/ online' = online
            \/ /\ pc[h] = "endOnline" /\ pc'[h] = "dead"
               /\ online' = [online EXCEPT ![cd[h]] = FALSE]
<1> USE ThreadKinds, HelpQueueAssumption DEF VarsOK, clientData, events, Goto
<1>0. /\ ClientOK(h)
      /\ pc[h] \in ServingSteps => cd[h] \in Workstations
      /\ {"ready"} \cup RequestSteps \cup EndSteps \cup CancelSteps \subseteq ServingSteps
      /\ {"new", "dead", "lookup", "getData"} \cap ServingSteps = {}
  BY DEF ThreadsOK, ClientOK, ServingSteps, RequestSteps, EndSteps, CancelSteps
<1>1. Local(h)
  BY CancelStepTypes, ClientTypes DEF ClientStep
<1>2. CASE LookupFound(h)
  BY <1>0, <1>1, <1>2 DEF LookupFound, Live, LocalVarsOK, RequestSteps, EndSteps, CancelSteps
<1>3. CASE LookupFailed(h)
  BY <1>0, <1>1, <1>3 DEF LookupFailed, Live, LocalVarsOK, RequestSteps, EndSteps, CancelSteps
<1>4. CASE GetData(h)
  BY <1>0, <1>1, <1>4 DEF GetData, Live, LocalVarsOK, RequestSteps, EndSteps, CancelSteps
<1>5. CASE Request(h)
  BY <1>0, <1>1, <1>5 DEF Request, Live, LocalVarsOK, RequestSteps, EndSteps, CancelSteps
<1>6. CASE RequestHelping(h)
  BY <1>0, <1>1, <1>6 DEF RequestHelping, SetHelping, Live, LocalVarsOK, RequestSteps, EndSteps, CancelSteps
<1>7. CASE RequestDate(h)
  BY <1>0, <1>1, <1>7 DEF RequestDate, SetDate, Live, LocalVarsOK, RequestSteps, EndSteps, CancelSteps
<1>8. CASE RequestInsert(h)
  <2>1. pc'[h] = "ready"
    BY <1>8 DEF RequestInsert, InsertEvent, LocalVarsOK
  <2> QED BY <1>0, <1>1, <1>8, <2>1 DEF RequestInsert, Live, RequestSteps
<1>9. CASE Leave(h)
  BY <1>0, <1>1, <1>9 DEF Leave, Live, LocalVarsOK, RequestSteps, EndSteps, CancelSteps
<1>10. CASE EndInsert(h)
  <2>1. pc[h] \in ServingSteps /\ cd[h] \in Workstations
    BY <1>0, <1>10 DEF EndInsert, EndSteps, CancelSteps
  <2>2. pc'[h] \in {"endHelping", "dead", "cancelHelping", "ready"}
    BY <1>10, <2>1, CancelTypes DEF EndInsert, LocalVarsOK
  <2> QED BY <1>0, <1>1, <1>10, <2>1, <2>2 DEF EndInsert, Live, EndSteps, CancelSteps
<1>11. CASE EndHelping(h)
  BY <1>0, <1>1, <1>11 DEF EndHelping, SetHelping, Live, LocalVarsOK, RequestSteps, EndSteps, CancelSteps
<1>12. CASE EndDate(h)
  BY <1>0, <1>1, <1>12 DEF EndDate, SetDate, Live, LocalVarsOK, RequestSteps, EndSteps, CancelSteps
<1>13. CASE EndOnline(h)
  BY <1>0, <1>1, <1>13 DEF EndOnline, Live, LocalVarsOK, RequestSteps, EndSteps, CancelSteps
<1>14. CASE ClientCancel(h)
  BY <1>0, <1>1, <1>14 DEF ClientCancel, Live, LocalVarsOK, RequestSteps, EndSteps, CancelSteps
<1>15. CASE CancelCheck(h)
  BY <1>0, <1>1, <1>15 DEF CancelCheck, Live, LocalVarsOK, RequestSteps, EndSteps, CancelSteps
<1>16. CASE CancelInsert(h)
  <2>1. pc[h] \in ServingSteps /\ cd[h] \in Workstations
    BY <1>0, <1>16 DEF CancelInsert, EndSteps, CancelSteps
  <2>2. pc'[h] \in {"endHelping", "dead", "cancelHelping", "ready"}
    BY <1>16, <2>1, CancelTypes DEF CancelInsert, LocalVarsOK
  <2> QED BY <1>0, <1>1, <1>16, <2>1, <2>2 DEF CancelInsert, Live, EndSteps, CancelSteps
<1>17. CASE CancelHelping(h)
  BY <1>0, <1>1, <1>17 DEF CancelHelping, SetHelping, Live, LocalVarsOK, RequestSteps, EndSteps, CancelSteps
<1>18. CASE CancelDate(h)
  BY <1>0, <1>1, <1>18 DEF CancelDate, SetDate, Live, LocalVarsOK, RequestSteps, EndSteps, CancelSteps
<1> QED BY <1>2, <1>3, <1>4, <1>5, <1>6, <1>7, <1>8, <1>9, <1>10,
          <1>11, <1>12, <1>13, <1>14, <1>15, <1>16, <1>17, <1>18 DEF ClientStep, ClientNext, CancelNext

(* The accepting thread touches no request, and only starts a thread.      *)
LEMMA AcceptorEffects ==
  ASSUME VarsOK, ThreadsOK, AcceptorNext
  PROVE  /\ UNCHANGED <<helping, date, requests, tables, open, sqlFaults>>
         /\ \A u \in Threads \ {Acceptor, conns} : Kept(u)
         /\ cd'[conns] = cd[conns] \/ conns = 0
         /\ \/ Kept(conns)
            \/ conns = 0
            \/ pc[Acceptor] \in {"startNew", "checkOnline"} /\ pc'[conns] = "lookup"
<1> USE ThreadKinds, HelpQueueAssumption DEF VarsOK, clientData, events, Goto
<1>0. /\ pc[Acceptor] \in Busy => conns \in Conns
      /\ conns \in Conns \cup {0} /\ (conns = 0 <=> conns = Acceptor)
  BY DEF ThreadsOK, AcceptorOK, ConnsOK, Conns, Acceptor
<1>1. CASE \E w \in Workstations : Accept(w)
  BY <1>0, <1>1 DEF Accept, Kept, LocalVarsOK, Busy, AcceptorSteps
<1>2. CASE Register
  BY <1>0, <1>2 DEF Register, Kept, LocalVarsOK, Busy, AcceptorSteps
<1>3. CASE StartNew
  BY <1>0, <1>3 DEF StartNew, Answered, Kept, LocalVarsOK, Busy, AcceptorSteps
<1>4. CASE GetRecord
  BY <1>0, <1>4 DEF GetRecord, Kept, LocalVarsOK, Busy, AcceptorSteps
<1>5. CASE SetHandler
  BY <1>0, <1>5 DEF SetHandler, Kept, LocalVarsOK, Busy, AcceptorSteps
<1>6. CASE Refuse
  BY <1>0, <1>6 DEF Refuse, Answered, AnswerThen, Kept, LocalVarsOK, Busy, AcceptorSteps
<1>7. CASE StartAgain
  BY <1>0, <1>7 DEF StartAgain, Kept, LocalVarsOK, Busy, AcceptorSteps
<1>8. CASE SetOnline
  BY <1>0, <1>8 DEF SetOnline, Answered, AnswerThen, Kept, LocalVarsOK, Busy, AcceptorSteps
<1> QED BY <1>1, <1>2, <1>3, <1>4, <1>5, <1>6, <1>7, <1>8 DEF AcceptorNext

(* Requests begun and stamped stay within the bound.                       *)
LEMMA RequestsKept ==
  ASSUME RequestsOK, RecordsOK, requests' = requests, Requesting' \subseteq Requesting
  PROVE  RequestsOK'
<1>1. PICK n \in Nat : n = Cardinality(Requesting')
  BY RequestingFinite, FS_Subset, FS_CardinalityType
<1>2. n <= Cardinality(Requesting)
  BY <1>1, RequestingFinite, FS_Subset
<1> QED BY <1>1, <1>2, RequestingFinite, HelpQueueAssumption DEF RequestsOK, RecordsOK

(* The bound, for each step of a client thread.                            *)
LEMMA ClientRequests ==
  ASSUME VarsOK, ThreadsOK, RequestsOK, NEW h \in Conns, ClientStep(h)
  PROVE  RequestsOK'
<1> USE ThreadKinds, HelpQueueAssumption DEF VarsOK, clientData, events, Goto
<1>0. /\ Local(h) /\ h \in Threads
      /\ \A g \in Conns \ {h} : pc'[g] = pc[g]
  BY ClientEffects DEF Local, Kept
<1>1. CASE Request(h)
  <2>1. CASE helping[cd[h]]
    <3>1. Requesting' = Requesting
      BY <1>1, <2>1 DEF Request, Requesting, LocalVarsOK
    <3> QED BY <1>1, <3>1, RequestsKept DEF Request
  <2>2. CASE ~helping[cd[h]]
    <3>1. Requesting' = Requesting \cup {h} /\ h \notin Requesting
      BY <1>0, <1>1, <2>2 DEF Request, Requesting, LocalVarsOK
    <3>2. Cardinality(Requesting \cup {h}) = Cardinality(Requesting) + 1
      BY <3>1, RequestingFinite, FS_AddElement
    <3>3. requests + Cardinality(Requesting) < MaxRequests
      BY <1>1 DEF Request, Requesting
    <3> QED BY <1>1, <3>1, <3>2, <3>3, RequestingFinite DEF Request, RequestsOK, RecordsOK
  <2> QED BY <2>1, <2>2
<1>2. CASE RequestDate(h)
  <2>1. Requesting' = Requesting \ {h} /\ h \in Requesting
    BY <1>0, <1>2 DEF RequestDate, Requesting, LocalVarsOK
  <2>2. Cardinality(Requesting \ {h}) = Cardinality(Requesting) - 1
    BY <2>1, RequestingFinite, FS_RemoveElement
  <2>3. PICK n \in Nat : n = requests
    BY DEF RecordsOK
  <2>4. requests' = n + 1
    BY <1>2, <2>3 DEF RequestDate
  <2> QED BY <2>1, <2>2, <2>3, <2>4, RequestingFinite DEF RequestsOK
<1>3. ASSUME requests' = requests,
             pc'[h] \in {"reqHelping", "reqDate"} => pc[h] \in {"reqHelping", "reqDate"}
      PROVE  RequestsOK'
  <2>1. Requesting' \subseteq Requesting
    BY <1>0, <1>3 DEF Requesting
  <2> QED BY <1>3, <2>1, RequestsKept
<1>4. CASE LookupFound(h)
  BY <1>3, <1>4 DEF LookupFound, LocalVarsOK
<1>5. CASE LookupFailed(h)
  BY <1>3, <1>5 DEF LookupFailed, LocalVarsOK
<1>6. CASE GetData(h)
  BY <1>3, <1>6 DEF GetData, LocalVarsOK
<1>7. CASE RequestHelping(h)
  BY <1>3, <1>7 DEF RequestHelping, LocalVarsOK
<1>8. CASE RequestInsert(h)
  BY <1>3, <1>8 DEF RequestInsert, InsertEvent, LocalVarsOK
<1>9. CASE Leave(h)
  BY <1>3, <1>9 DEF Leave, LocalVarsOK
<1>10. CASE EndInsert(h)
  BY <1>3, <1>10 DEF EndInsert, InsertCancel, InsertEvent, LocalVarsOK
<1>11. CASE EndHelping(h)
  BY <1>3, <1>11 DEF EndHelping, LocalVarsOK
<1>12. CASE EndDate(h)
  BY <1>3, <1>12 DEF EndDate, LocalVarsOK
<1>13. CASE EndOnline(h)
  BY <1>3, <1>13 DEF EndOnline, LocalVarsOK
<1>14. CASE ClientCancel(h)
  BY <1>3, <1>14 DEF ClientCancel, LocalVarsOK
<1>15. CASE CancelCheck(h)
  BY <1>3, <1>15 DEF CancelCheck, LocalVarsOK
<1>16. CASE CancelInsert(h)
  BY <1>3, <1>16 DEF CancelInsert, InsertCancel, InsertEvent, LocalVarsOK
<1>17. CASE CancelHelping(h)
  BY <1>3, <1>17 DEF CancelHelping, LocalVarsOK
<1>18. CASE CancelDate(h)
  BY <1>3, <1>18 DEF CancelDate, LocalVarsOK
<1> QED BY <1>1, <1>2, <1>4, <1>5, <1>6, <1>7, <1>8, <1>9, <1>10,
          <1>11, <1>12, <1>13, <1>14, <1>15, <1>16, <1>17, <1>18 DEF ClientStep, ClientNext, CancelNext

-----------------------------------------------------------------------------
(* Types, for every step.                                                  *)
Typed == VarsOK /\ ThreadsOK /\ RequestsOK

(* Every step is one of an accepting, a client or a helping thread, or of a*)
(* display.                                                                *)
LEMMA WhoSteps ==
  ASSUME Next
  PROVE  \/ AcceptorNext
         \/ \E h \in Conns : ClientStep(h)
         \/ \E t \in Admins \cup Updaters : HelperStep(t)
         \/ DisplayUpdate
  BY DEF Next, ClientStep, HelperStep

(* Types, to begin with.                                                   *)
LEMMA TypedInit == Init => Typed
<1> SUFFICES ASSUME Init PROVE Typed
  OBVIOUS
<1> USE ThreadKinds, HelpQueueAssumption DEF Init
<1>1. RecordsOK
  BY DEF RecordsOK, NoDate
<1>2. EventsOK /\ ConnsOK
  BY DEF EventsOK, ConnsOK
<1>3. LocalVarsOK
  BY DEF LocalVarsOK, AcceptorSteps, ServingSteps
<1>4. ThreadsOK
  BY DEF ThreadsOK, AcceptorOK, ClientOK, HelperOK, AcceptorSteps, ServingSteps, RequestSteps, EndSteps,
         CancelSteps, InitSteps, Busy
<1>5. Requesting = {}
  BY DEF Requesting
<1>6. RequestsOK
  BY <1>5, FS_EmptySet DEF RequestsOK
<1> QED BY <1>1, <1>2, <1>3, <1>4, <1>6 DEF Typed, VarsOK

(* Every step keeps the types.                                             *)
LEMMA TypedStep == Typed /\ [Next]_vars => Typed'
<1> SUFFICES ASSUME Typed, [Next]_vars PROVE Typed'
  OBVIOUS
<1> USE ThreadKinds DEF Typed
<1>1. CASE AcceptorNext
  <2>1. VarsOK' /\ ThreadsOK'
    BY <1>1, AcceptorTypes
  <2>2. Requesting' \subseteq Requesting /\ requests' = requests
    <3>1. 0 \notin Conns
      BY DEF Conns
    <3>2. ASSUME NEW h \in Conns, pc'[h] \in {"reqHelping", "reqDate"} PROVE pc'[h] = pc[h]
      <4>1. CASE h = conns
        BY <1>1, <3>1, <3>2, <4>1, AcceptorEffects DEF Kept
      <4>2. CASE h # conns
        BY <1>1, <3>1, <4>2, AcceptorEffects DEF Kept, Acceptor
      <4> QED BY <4>1, <4>2
    <3> QED BY <1>1, <3>2, AcceptorEffects DEF Requesting
  <2> QED BY <2>1, <2>2, RequestsKept DEF VarsOK
<1>2. ASSUME NEW h \in Conns, ClientStep(h) PROVE Typed'
  BY <1>2, ClientTypes, CancelStepTypes, ClientRequests DEF ClientStep
<1>3. ASSUME NEW t \in Admins \cup Updaters, HelperStep(t) PROVE Typed'
  <2>1. VarsOK' /\ ThreadsOK'
    BY <1>3, HelperTypes, CancelStepTypes DEF HelperStep
  <2>2. Requesting' \subseteq Requesting /\ requests' = requests
    BY <1>3, HelperEffects DEF Requesting, Kept, Local
  <2> QED BY <2>1, <2>2, RequestsKept DEF VarsOK
<1>4. CASE DisplayUpdate
  <2>1. VarsOK' /\ ThreadsOK'
    BY <1>4, DisplayTypes
  <2>2. Requesting' \subseteq Requesting /\ requests' = requests
    BY <1>4 DEF Requesting, DisplayUpdate
  <2> QED BY <2>1, <2>2, RequestsKept DEF VarsOK
<1>5. CASE UNCHANGED vars
  BY <1>5 DEF vars, clientData, events, VarsOK, ThreadsOK, RequestsOK, RecordsOK, EventsOK, ConnsOK,
              LocalVarsOK, AcceptorOK, ClientOK, HelperOK, Requesting
<1> QED BY <1>1, <1>2, <1>3, <1>4, <1>5, WhoSteps

-----------------------------------------------------------------------------
(* The invariants that hold while no display sorts the vector.             *)
LEMMA ServingLive ==
  ASSUME VarsOK, ThreadsOK, NEW h \in Conns
  PROVE  /\ Live(h) <=> pc[h] \in {"lookup", "getData"} \cup ServingSteps
         /\ pc[h] \in ServingSteps => Live(h) /\ cd[h] \in Workstations
  BY DEF ThreadsOK, ClientOK, Live, ServingSteps, RequestSteps, EndSteps, CancelSteps

(* The accepting thread starts a connection's thread once.                 *)
LEMMA StartAcceptor ==
  ASSUME VarsOK, ThreadsOK, StartInv, AcceptorNext
  PROVE  StartInv'
<1> USE ThreadKinds, HelpQueueAssumption DEF VarsOK, clientData, events, Goto
<1>0. /\ pc[Acceptor] \in Busy => conns \in Conns
      /\ \A u \in Conns : u \in Nat \ {0} /\ u # Acceptor
      /\ conns \in Nat
  BY DEF ThreadsOK, AcceptorOK, ConnsOK, Conns, Acceptor
<1>1. ASSUME NEW w \in Workstations, Accept(w) PROVE StartInv'
  <2>1. conns + 1 \in Conns /\ conns + 1 > conns /\ pc[conns + 1] = "new"
    BY <1>0, <1>1 DEF Accept, ConnsOK, Conns, StartInv
  <2>2. conns' = conns + 1 /\ \A h \in Conns : pc'[h] = pc[h]
    BY <1>0, <1>1 DEF Accept, LocalVarsOK
  <2>3. \A h \in Conns : h > conns + 1 => h > conns
    BY <1>0
  <2> QED BY <2>1, <2>2, <2>3 DEF StartInv
<1>2. ASSUME conns' = conns, pc[Acceptor] \in Busy,
             \A h \in Conns \ {conns} : pc'[h] = pc[h],
             \/ pc'[Acceptor] \in {"accept", "dead", "setOnline"}
             \/ pc'[conns] = pc[conns] /\ pc[Acceptor] # "setOnline"
      PROVE  StartInv'
  <2>1. ~ (conns > conns)
    BY <1>0
  <2> QED BY <1>0, <1>2, <2>1 DEF StartInv, Busy
<1>3. \A h \in Conns \ {conns} : pc'[h] = pc[h]
  BY <1>0, AcceptorEffects DEF Kept
<1>4. CASE Register
  BY <1>0, <1>2, <1>3, <1>4 DEF Register, LocalVarsOK, Busy, AcceptorSteps
<1>5. CASE StartNew
  BY <1>0, <1>2, <1>3, <1>5 DEF StartNew, LocalVarsOK, Busy, AcceptorSteps
<1>6. CASE GetRecord
  BY <1>0, <1>2, <1>3, <1>6 DEF GetRecord, LocalVarsOK, Busy, AcceptorSteps
<1>7. CASE SetHandler
  BY <1>0, <1>2, <1>3, <1>7 DEF SetHandler, LocalVarsOK, Busy, AcceptorSteps
<1>8. CASE Refuse
  <2>1. pc'[Acceptor] \in {"accept", "dead"}
    BY <1>8 DEF Refuse, AnswerThen, LocalVarsOK
  <2> QED BY <1>0, <1>2, <1>3, <1>8, <2>1 DEF Refuse, Busy, AcceptorSteps
<1>9. CASE StartAgain
  BY <1>0, <1>2, <1>3, <1>9 DEF StartAgain, LocalVarsOK, Busy, AcceptorSteps
<1>10. CASE SetOnline
  <2>1. pc'[Acceptor] \in {"accept", "dead"}
    BY <1>10 DEF SetOnline, AnswerThen, LocalVarsOK
  <2> QED BY <1>0, <1>2, <1>3, <1>10, <2>1 DEF SetOnline, Busy, AcceptorSteps
<1> QED BY <1>1, <1>4, <1>5, <1>6, <1>7, <1>8, <1>9, <1>10 DEF AcceptorNext

(* Nobody else starts a thread.                                            *)
LEMMA StartOthers ==
  ASSUME VarsOK, ThreadsOK, RequestsOK, StartInv, NEW t \in Threads,
         (t \in Conns /\ ClientStep(t)) \/ (t \in Admins \cup Updaters /\ HelperStep(t))
  PROVE  StartInv'
<1> USE ThreadKinds
<1>1. pc[Acceptor] \in Busy => conns \in Conns
  BY DEF VarsOK, ThreadsOK, AcceptorOK, ConnsOK, Conns
<1>2. conns' = conns /\ \A u \in (Conns \cup {Acceptor}) \ {t} : Kept(u)
  BY ClientEffects, HelperEffects DEF Local
<1>3. t \in Conns => pc[t] # "new"
  BY ClientEffects DEF Live
<1> QED BY <1>1, <1>2, <1>3 DEF StartInv, Kept

(* What is looked up: the accepting thread stores what it found.           *)
LEMMA HandlersAcceptor ==
  ASSUME VarsOK, ThreadsOK, StartInv, HandlersInv, AcceptorNext
  PROVE  HandlersInv'
<1> USE ThreadKinds, HelpQueueAssumption DEF VarsOK, clientData, events, Goto
<1>0. /\ pc[Acceptor] \in Busy => conns \in Conns /\ peer[conns] \in Workstations
      /\ \A u \in Conns : u \in Nat \ {0} /\ u # Acceptor
      /\ conns \in Nat
  BY DEF ThreadsOK, AcceptorOK, ConnsOK, Conns, Acceptor
<1>1. ASSUME NEW w \in Workstations, Accept(w) PROVE HandlersInv'
  <2>1. conns + 1 \in Conns /\ conns + 1 > conns /\ pc[conns + 1] = "new"
    BY <1>0, <1>1 DEF Accept, ConnsOK, Conns, StartInv
  <2>2. \A h \in Conns : pc'[h] = pc[h] /\ cd'[h] = cd[h] /\ idx'[h] = idx[h]
    BY <1>0, <1>1 DEF Accept, LocalVarsOK
  <2>3. \A h \in Conns : pc[h] # "new" => peer'[h] = peer[h] /\ h <= conns
    BY <1>0, <1>1, <2>1 DEF Accept, ConnsOK, StartInv
  <2>4. peer'[conns'] = w /\ conns' = conns + 1
    BY <1>1, <2>1 DEF Accept, ConnsOK
  <2>6. \/ pc'[Acceptor] = "add"
        \/ pc'[Acceptor] = "get" /\ clientVector'[idx'[Acceptor]] = w
    <3>1. ASSUME Goto(Acceptor, "add") PROVE pc'[Acceptor] = "add"
      BY <3>1 DEF LocalVarsOK
    <3>2. ASSUME NEW i \in DOMAIN clientVector, IsFirst(i, {w}),
                 idx' = [idx EXCEPT ![Acceptor] = i], Goto(Acceptor, "get")
          PROVE  pc'[Acceptor] = "get" /\ clientVector'[idx'[Acceptor]] = w
      <4>1. clientVector' = clientVector /\ idx'[Acceptor] = i /\ pc'[Acceptor] = "get"
        BY <1>1, <3>2 DEF Accept, LocalVarsOK
      <4> QED BY <3>2, <4>1 DEF IsFirst
    <3>3. \/ Goto(Acceptor, "add")
          \/ \E i \in DOMAIN clientVector :
               IsFirst(i, {w}) /\ idx' = [idx EXCEPT ![Acceptor] = i] /\ Goto(Acceptor, "get")
      BY <1>1 DEF Accept
    <3> QED BY <3>1, <3>2, <3>3
  <2>7. \A v \in Workstations : handler'[v] # 0 => handler'[v] <= conns' /\ peer'[handler'[v]] = v
    <3> SUFFICES ASSUME NEW v \in Workstations, handler[v] # 0
                 PROVE  handler[v] <= conns + 1 /\ peer'[handler[v]] = v
      BY <1>1, <2>4 DEF Accept
    <3>1. handler[v] \in Conns /\ handler[v] <= conns /\ peer[handler[v]] = v
      BY DEF HandlersInv, RecordsOK, Conns
    <3>2. handler[v] # conns + 1 /\ handler[v] <= conns + 1
      BY <1>0, <3>1
    <3> QED BY <1>1, <3>1, <3>2 DEF Accept, ConnsOK
  <2>8. \A h \in Conns : pc'[h] = "getData" => clientVector'[idx'[h]] = peer'[h]
    BY <1>1, <2>2, <2>3 DEF Accept, HandlersInv
  <2>9. HandlerServesItsWorkstation'
    BY <2>2, <2>3 DEF HandlersInv, HandlerServesItsWorkstation, ServingSteps, RequestSteps, EndSteps, CancelSteps
  <2> QED BY <2>4, <2>6, <2>7, <2>8, <2>9 DEF HandlersInv
<1>a. \A h \in Conns : pc'[h] # pc[h] => h = conns /\ pc'[h] = "lookup"
  <2> SUFFICES ASSUME NEW h \in Conns, pc'[h] # pc[h] PROVE h = conns /\ pc'[h] = "lookup"
    OBVIOUS
  <2> QED BY <1>0, AcceptorEffects DEF Kept
<1>b. \A h \in Conns : cd'[h] = cd[h]
  <2> SUFFICES ASSUME NEW h \in Conns PROVE cd'[h] = cd[h]
    OBVIOUS
  <2> QED BY <1>0, AcceptorEffects DEF Kept
<1>c. ASSUME UNCHANGED <<peer, conns, idx>>,
             \A i \in DOMAIN clientVector : clientVector'[i] = clientVector[i]
      PROVE  /\ \A h \in Conns : pc'[h] = "getData" => clientVector'[idx'[h]] = peer'[h]
             /\ HandlerServesItsWorkstation'
  <2>1. \A h \in Conns : pc'[h] = "getData" => idx[h] \in DOMAIN clientVector
    BY <1>a DEF ThreadsOK, ClientOK
  <2> QED BY <1>a, <1>b, <1>c, <2>1
          DEF HandlersInv, HandlerServesItsWorkstation, ServingSteps, RequestSteps, EndSteps, CancelSteps
<1>2. CASE Register
  <2>0. conns \in Conns /\ peer[conns] \in Workstations
    BY <1>0, <1>2 DEF Register, Busy, AcceptorSteps
  <2>1. \A i \in DOMAIN clientVector : clientVector'[i] = clientVector[i]
    BY <1>2, <2>0, VectorElements DEF Register, RecordsOK
  <2>2. pc'[Acceptor] = "startNew"
    BY <1>2 DEF Register, LocalVarsOK
  <2>3. \A v \in Workstations : handler'[v] # 0 => handler'[v] <= conns' /\ peer'[handler'[v]] = v
    BY <1>0, <1>2, <2>0 DEF Register, RecordsOK, HandlersInv
  <2> QED BY <1>2, <1>c, <2>1, <2>2, <2>3 DEF HandlersInv, Register
<1>3. CASE StartNew
  <2>1. pc'[Acceptor] \in {"accept", "dead"}
    BY <1>0, <1>3 DEF StartNew, LocalVarsOK, Busy, AcceptorSteps
  <2> QED BY <1>3, <1>c, <2>1 DEF StartNew, HandlersInv, Busy
<1>4. CASE GetRecord
  <2>1. pc'[Acceptor] = "setHandler" /\ cd'[Acceptor] = peer'[conns']
    BY <1>0, <1>4 DEF GetRecord, LocalVarsOK, HandlersInv, Busy, AcceptorSteps
  <2> QED BY <1>4, <1>c, <2>1 DEF GetRecord, HandlersInv, Busy
<1>5. CASE SetHandler
  <2>1. pc'[Acceptor] = "checkOnline" /\ cd'[Acceptor] = peer'[conns']
    BY <1>0, <1>5 DEF SetHandler, LocalVarsOK, HandlersInv, Busy, AcceptorSteps
  <2>2. \A v \in Workstations : handler'[v] # 0 => handler'[v] <= conns' /\ peer'[handler'[v]] = v
    <3>1. cd[Acceptor] = peer[conns] /\ conns <= conns
      BY <1>0, <1>5 DEF SetHandler, HandlersInv
    <3> QED BY <1>5, <3>1 DEF SetHandler, RecordsOK, HandlersInv
  <2> QED BY <1>5, <1>c, <2>1, <2>2 DEF SetHandler, HandlersInv, Busy
<1>6. CASE Refuse
  <2>1. pc'[Acceptor] \in {"accept", "dead"}
    BY <1>6 DEF Refuse, AnswerThen, LocalVarsOK
  <2> QED BY <1>6, <1>c, <2>1 DEF Refuse, HandlersInv, Busy
<1>7. CASE StartAgain
  <2>1. pc'[Acceptor] = "setOnline" /\ cd'[Acceptor] = peer'[conns']
    BY <1>0, <1>7 DEF StartAgain, LocalVarsOK, HandlersInv, Busy, AcceptorSteps
  <2> QED BY <1>7, <1>c, <2>1 DEF StartAgain, HandlersInv, Busy
<1>8. CASE SetOnline
  <2>1. pc'[Acceptor] \in {"accept", "dead"}
    BY <1>8 DEF SetOnline, AnswerThen, LocalVarsOK
  <2> QED BY <1>8, <1>c, <2>1 DEF SetOnline, HandlersInv, Busy
<1> QED BY <1>1, <1>2, <1>3, <1>4, <1>5, <1>6, <1>7, <1>8 DEF AcceptorNext

(* A client thread finds by handler what was stored by address.            *)
LEMMA HandlersClient ==
  ASSUME VarsOK, ThreadsOK, RequestsOK, StartInv, HandlersInv, NEW h \in Conns, ClientStep(h)
  PROVE  HandlersInv'
<1> USE ThreadKinds, HelpQueueAssumption DEF VarsOK
<1>0. /\ \A u \in Conns : u \in Nat \ {0}
      /\ \A u \in (Conns \cup {Acceptor}) \ {h} : Kept(u)
  BY ClientEffects DEF Conns, Local
<1>1. UNCHANGED <<clientVector, handler, peer, conns>>
  BY ClientEffects
<1>4. pc'[h] = "getData" => clientVector[idx'[h]] = peer[h]
  <2> SUFFICES ASSUME pc'[h] = "getData" PROVE clientVector[idx'[h]] = peer[h]
    OBVIOUS
  <2>1. IsFirst(idx'[h], HandledBy(h))
    BY ClientEffects
  <2> QED BY <1>0, <2>1 DEF IsFirst, HandledBy, HandlersInv
<1>5. pc'[h] \in ServingSteps => cd'[h] = peer[h]
  BY ClientEffects DEF HandlersInv, HandlerServesItsWorkstation
<1>6. \A g \in Conns \ {h} : /\ pc'[g] = "getData" => clientVector[idx'[g]] = peer[g]
                             /\ pc'[g] \in ServingSteps => cd'[g] = peer[g]
  BY <1>0 DEF HandlersInv, HandlerServesItsWorkstation, Kept
<1>7. /\ pc'[Acceptor] = "get" => clientVector[idx'[Acceptor]] = peer[conns]
      /\ pc'[Acceptor] \in {"setHandler", "checkOnline", "setOnline"} => cd'[Acceptor] = peer[conns]
  BY <1>0 DEF HandlersInv, Kept
<1>8. \A w \in Workstations : handler[w] # 0 => handler[w] <= conns /\ peer[handler[w]] = w
  BY DEF HandlersInv
<1> QED BY <1>1, <1>4, <1>5, <1>6, <1>7, <1>8 DEF HandlersInv, HandlerServesItsWorkstation

(* Helpers leave vector, handlers and connections alone.                   *)
LEMMA HandlersHelper ==
  ASSUME VarsOK, ThreadsOK, StartInv, HandlersInv, NEW t \in Admins \cup Updaters, HelperStep(t)
  PROVE  HandlersInv'
<1>1. \A u \in Conns \cup {Acceptor} : Kept(u)
  BY ThreadKinds, HelperEffects DEF Local
<1>2. UNCHANGED <<clientVector, handler, peer, conns>>
  BY HelperEffects
<1>3. pc[Acceptor] \in Busy => conns \in Conns
  BY DEF VarsOK, ThreadsOK, AcceptorOK, ConnsOK, Conns
<1> QED BY <1>1, <1>2, <1>3 DEF HandlersInv, HandlerServesItsWorkstation, Kept

(* The check of isOnline lets a thread start only if no other is live.     *)
LEMMA LiveAcceptor ==
  ASSUME VarsOK, ThreadsOK, StartInv, HandlersInv, LiveInv, AcceptorNext
  PROVE  LiveInv'
<1> USE ThreadKinds, HelpQueueAssumption DEF VarsOK, clientData, events, Goto
<1>0. /\ pc[Acceptor] \in Busy => conns \in Conns /\ peer[conns] \in Workstations
      /\ \A u \in Conns : u \in Nat \ {0} /\ u # Acceptor
      /\ conns \in Nat
  BY DEF ThreadsOK, AcceptorOK, ConnsOK, Conns, Acceptor
<1>1. ASSUME NEW w \in Workstations, Accept(w) PROVE LiveInv'
  <2>1. \A h \in Conns : Live(h)' <=> Live(h)
    BY <1>0, <1>1 DEF Accept, LocalVarsOK, Live
  <2>2. \A h \in Conns : Live(h) => peer'[h] = peer[h]
    <3>1. \A h \in Conns : Live(h) => h # conns + 1
      BY <1>0 DEF StartInv, Live
    <3> QED BY <1>1, <3>1 DEF Accept, ConnsOK
  <2>3. \A v : InVector(v)' <=> InVector(v)
    BY <1>1 DEF Accept, InVector
  <2>4. \/ pc'[Acceptor] = "add" /\ ~InVector(w)
        \/ pc'[Acceptor] = "get" /\ InVector(w)
    <3>1. ASSUME Goto(Acceptor, "add"), \A i \in DOMAIN clientVector : clientVector[i] # w
          PROVE  pc'[Acceptor] = "add" /\ ~InVector(w)
      <4>1. pc'[Acceptor] = "add"
        BY <3>1 DEF LocalVarsOK
      <4> QED BY <3>1, <4>1 DEF InVector
    <3>2. ASSUME NEW i \in DOMAIN clientVector, IsFirst(i, {w}), Goto(Acceptor, "get")
          PROVE  pc'[Acceptor] = "get" /\ InVector(w)
      BY <3>2 DEF IsFirst, LocalVarsOK, InVector
    <3>3. \/ Goto(Acceptor, "add") /\ \A i \in DOMAIN clientVector : clientVector[i] # w
          \/ \E i \in DOMAIN clientVector : IsFirst(i, {w}) /\ Goto(Acceptor, "get")
      BY <1>1 DEF Accept
    <3> QED BY <3>1, <3>2, <3>3
  <2>5. peer'[conns'] = w
    <3>1. conns + 1 \in Conns
      BY <1>1 DEF Accept, ConnsOK, Conns
    <3> QED BY <1>1, <3>1 DEF Accept, ConnsOK
  <2>6. online' = online /\ \A v : ~Reconnecting(v)
    BY <1>1 DEF Accept, Reconnecting
  <2>7. pc'[Acceptor] # "startNew"
    BY <2>4
  <2>8. \A h \in Conns : Live(h)' =>
          InVector(peer[h])' /\ (online'[peer'[h]] \/ Reconnecting(peer[h])')
    BY <2>1, <2>2, <2>3, <2>6 DEF LiveInv
  <2>9. \A g, h \in Conns : Live(g)' /\ Live(h)' /\ peer'[g] = peer'[h] => g = h
    BY <2>1, <2>2 DEF LiveInv
  <2> QED BY <2>1, <2>2, <2>3, <2>4, <2>5, <2>7, <2>8, <2>9 DEF LiveInv
<1>a. \A h \in Conns : pc'[h] # pc[h] => h = conns /\ pc'[h] = "lookup"
  <2> SUFFICES ASSUME NEW h \in Conns, pc'[h] # pc[h] PROVE h = conns /\ pc'[h] = "lookup"
    OBVIOUS
  <2> QED BY <1>0, AcceptorEffects DEF Kept
<1>2. CASE Register
  <2>0. conns \in Conns /\ peer[conns] \in Workstations /\ ~InVector(peer[conns])
    BY <1>0, <1>2 DEF Register, Busy, AcceptorSteps, LiveInv
  <2>1. /\ \A v : InVector(v) => InVector(v)'
        /\ InVector(peer[conns])'
    <3>1. /\ DOMAIN clientVector' = 1..(Len(clientVector) + 1)
          /\ \A i \in DOMAIN clientVector : clientVector'[i] = clientVector[i]
          /\ clientVector'[Len(clientVector) + 1] = peer[conns]
      BY <1>2, <2>0 DEF Register, RecordsOK
    <3>2. Len(clientVector) + 1 \in DOMAIN clientVector' /\ DOMAIN clientVector \subseteq DOMAIN clientVector'
      BY <3>1, VectorElements
    <3>3. ASSUME NEW v, InVector(v) PROVE InVector(v)'
      <4>1. PICK i \in DOMAIN clientVector : clientVector[i] = v
        BY <3>3 DEF InVector
      <4> QED BY <3>1, <3>2, <4>1 DEF InVector
    <3>4. InVector(peer[conns])'
      <4>1. peer' = peer /\ conns' = conns
        BY <1>2 DEF Register
      <4> QED BY <3>1, <3>2, <4>1 DEF InVector
    <3> QED BY <3>3, <3>4
  <2>2. /\ pc'[Acceptor] = "startNew" /\ conns' = conns /\ peer' = peer
        /\ \A h \in Conns : pc'[h] = pc[h]
    BY <1>0, <1>2, <2>0 DEF Register, LocalVarsOK
  <2>3. \A v \in Workstations : online'[v] <=> online[v] \/ v = peer[conns]
    BY <1>2, <2>0 DEF Register, RecordsOK
  <2>4. \A h \in Conns : Live(h) => peer[h] # peer[conns] /\ peer[h] \in Workstations
    BY <2>0 DEF LiveInv, InVector, RecordsOK
  <2>5. \A v : ~Reconnecting(v)
    BY <1>2 DEF Register, Reconnecting
  <2> QED BY <2>0, <2>1, <2>2, <2>3, <2>4, <2>5 DEF LiveInv, Live
<1>3. CASE StartNew
  <2>0. conns \in Conns /\ InVector(peer[conns]) /\ online[peer[conns]]
    BY <1>0, <1>3 DEF StartNew, Busy, AcceptorSteps, LiveInv
  <2>1. /\ pc'[Acceptor] \in {"accept", "dead"}
        /\ UNCHANGED <<clientVector, online, conns, peer, cd>>
    BY <1>0, <1>3, <2>0 DEF StartNew, LocalVarsOK, Busy, AcceptorSteps
  <2>2. \A h \in Conns : Live(h)' => Live(h) \/ h = conns
    BY <1>a DEF Live
  <2>3. \A v : (InVector(v)' <=> InVector(v)) /\ ~Reconnecting(v)
    BY <1>3, <2>1 DEF InVector, Reconnecting, StartNew
  <2>4. \A h \in Conns : Live(h) => peer[h] # peer[conns]
    BY <1>3 DEF LiveInv, StartNew
  <2> QED BY <2>0, <2>1, <2>2, <2>3, <2>4 DEF LiveInv, Busy
<1>4. CASE GetRecord
  <2>1. /\ pc[Acceptor] = "get" /\ pc'[Acceptor] = "setHandler"
        /\ UNCHANGED <<clientVector, online, conns, peer>>
        /\ \A h \in Conns : pc'[h] = pc[h]
    BY <1>0, <1>4 DEF GetRecord, LocalVarsOK
  <2> QED BY <2>1 DEF LiveInv, Live, InVector, Reconnecting, Busy, AcceptorSteps
<1>5. CASE SetHandler
  <2>1. /\ pc[Acceptor] = "setHandler" /\ pc'[Acceptor] = "checkOnline"
        /\ UNCHANGED <<clientVector, online, conns, peer>>
        /\ \A h \in Conns : pc'[h] = pc[h]
    BY <1>0, <1>5 DEF SetHandler, LocalVarsOK
  <2> QED BY <2>1 DEF LiveInv, Live, InVector, Reconnecting, Busy, AcceptorSteps
<1>6. CASE Refuse
  <2>1. /\ pc[Acceptor] = "checkOnline" /\ pc'[Acceptor] \in {"accept", "dead"}
        /\ UNCHANGED <<clientVector, online, conns, peer>>
        /\ \A h \in Conns : pc'[h] = pc[h]
    BY <1>0, <1>6 DEF Refuse, AnswerThen, LocalVarsOK
  <2> QED BY <2>1 DEF LiveInv, Live, InVector, Reconnecting, Busy, AcceptorSteps
<1>7. CASE StartAgain
  <2>0. conns \in Conns /\ cd[Acceptor] = peer[conns] /\ InVector(peer[conns]) /\ ~online[peer[conns]]
    BY <1>0, <1>7 DEF StartAgain, Busy, AcceptorSteps, LiveInv, HandlersInv
  <2>1. /\ pc'[Acceptor] = "setOnline"
        /\ UNCHANGED <<clientVector, online, conns, peer, cd>>
    BY <1>0, <1>7, <2>0 DEF StartAgain, LocalVarsOK, Busy, AcceptorSteps
  <2>2. \A h \in Conns : Live(h)' => Live(h) \/ h = conns
    BY <1>a DEF Live
  <2>3. /\ \A v : (InVector(v)' <=> InVector(v)) /\ ~Reconnecting(v)
        /\ Reconnecting(peer[conns])'
    BY <1>7, <2>0, <2>1 DEF InVector, Reconnecting, StartAgain
  <2>4. \A h \in Conns : Live(h) => peer[h] # peer[conns]
    BY <2>0, <2>3 DEF LiveInv
  <2>5. \A h \in Conns : Live(h)' => InVector(peer[h])' /\ (online'[peer'[h]] \/ Reconnecting(peer[h])')
    BY <2>0, <2>1, <2>2, <2>3 DEF LiveInv
  <2>6. \A g, h \in Conns : Live(g)' /\ Live(h)' /\ peer'[g] = peer'[h] => g = h
    BY <2>1, <2>2, <2>4 DEF LiveInv
  <2> QED BY <2>1, <2>5, <2>6 DEF LiveInv, Busy
<1>8. CASE SetOnline
  <2>0. cd[Acceptor] \in Workstations
    BY <1>8 DEF SetOnline, ThreadsOK, AcceptorOK
  <2>1. /\ pc[Acceptor] = "setOnline" /\ pc'[Acceptor] \in {"accept", "dead"}
        /\ UNCHANGED <<clientVector, conns, peer>>
        /\ \A h \in Conns : pc'[h] = pc[h]
    BY <1>0, <1>8 DEF SetOnline, AnswerThen, LocalVarsOK
  <2>2. \A v \in Workstations : online'[v] <=> online[v] \/ v = cd[Acceptor]
    BY <1>8, <2>0 DEF SetOnline, RecordsOK
  <2>3. \A h \in Conns : Live(h) => online'[peer[h]]
    <3>1. \A h \in Conns : Live(h) => peer[h] \in Workstations
      BY DEF LiveInv, InVector, RecordsOK
    <3> QED BY <2>0, <2>2, <3>1 DEF LiveInv, Reconnecting
  <2> QED BY <2>1, <2>2, <2>3 DEF LiveInv, Live, InVector, Busy, AcceptorSteps
<1> QED BY <1>1, <1>2, <1>3, <1>4, <1>5, <1>6, <1>7, <1>8 DEF AcceptorNext

(* A client thread puts its workstation offline with its last step.        *)
LEMMA LiveClient ==
  ASSUME VarsOK, ThreadsOK, RequestsOK, StartInv, HandlersInv, LiveInv, NEW h \in Conns, ClientStep(h)
  PROVE  LiveInv'
<1> USE ThreadKinds, HelpQueueAssumption DEF VarsOK
<1>0. /\ \A u \in (Conns \cup {Acceptor}) \ {h} : Kept(u)
      /\ Live(h) /\ h # Acceptor
      /\ UNCHANGED <<clientVector, handler, peer, conns>>
  BY ClientEffects DEF Local
<1>1. /\ \A g \in Conns : Live(g)' => Live(g)
      /\ \A v : InVector(v)' <=> InVector(v)
      /\ \A v : Reconnecting(v)' <=> Reconnecting(v)
  BY <1>0 DEF Live, Kept, InVector, Reconnecting
<1>2. \A g \in Conns : Live(g) => peer[g] \in Workstations
  BY DEF LiveInv, InVector, RecordsOK
<1>3. \A v \in Workstations : online[v] => online'[v] \/ (v = peer[h] /\ pc'[h] = "dead")
  <2>1. CASE online' = online
    BY <2>1
  <2>2. CASE pc[h] = "endOnline" /\ pc'[h] = "dead" /\ online' = [online EXCEPT ![cd[h]] = FALSE]
    <3>1. cd[h] = peer[h]
      BY <2>2 DEF HandlersInv, HandlerServesItsWorkstation, ServingSteps, EndSteps
    <3> QED BY <2>2, <3>1 DEF RecordsOK
  <2> QED BY <2>1, <2>2, ClientEffects
<1>4. /\ pc'[Acceptor] = pc[Acceptor]
      /\ \A v : Reconnecting(v)' <=> Reconnecting(v)
  BY <1>0 DEF Kept, Reconnecting
<1>5. pc[Acceptor] = "startNew" => online'[peer[conns]] /\ peer[h] # peer[conns]
  <2>1. pc[Acceptor] = "startNew" => peer[conns] \in Workstations
    BY DEF ThreadsOK, AcceptorOK, Busy, AcceptorSteps
  <2> QED BY <1>0, <1>3, <2>1 DEF LiveInv
<1>6. \A g \in Conns : Live(g)' => online'[peer[g]] \/ Reconnecting(peer[g])
  <2> SUFFICES ASSUME NEW g \in Conns, Live(g)', ~Reconnecting(peer[g]) PROVE online'[peer[g]]
    OBVIOUS
  <2>1. Live(g) /\ online[peer[g]] /\ peer[g] \in Workstations
    BY <1>1, <1>2 DEF LiveInv
  <2>2. g # h \/ pc'[h] # "dead"
    BY DEF Live
  <2> QED BY <1>0, <1>3, <2>1, <2>2 DEF LiveInv
<1> QED BY <1>0, <1>1, <1>4, <1>5, <1>6 DEF LiveInv

(* Helpers start and end no client thread.                                 *)
LEMMA LiveHelper ==
  ASSUME VarsOK, ThreadsOK, LiveInv, NEW t \in Admins \cup Updaters, HelperStep(t)
  PROVE  LiveInv'
<1>1. \A u \in Conns \cup {Acceptor} : Kept(u)
  BY ThreadKinds, HelperEffects DEF Local
<1>2. UNCHANGED <<clientVector, online, peer, conns>>
  BY HelperEffects
<1> QED BY <1>1, <1>2 DEF LiveInv, Live, InVector, Reconnecting, Kept

(* Two live threads do not share a record.                                 *)
LEMMA OneServes ==
  ASSUME VarsOK, ThreadsOK, StartInv, HandlersInv, LiveInv,
         NEW g \in Conns, NEW h \in Conns, Live(g), pc[h] \in ServingSteps, peer[g] = cd[h]
  PROVE  g = h
  BY ServingLive DEF HandlersInv, HandlerServesItsWorkstation, LiveInv

-----------------------------------------------------------------------------
(* What the steps do to the requests of the workstations.                  *)
LEMMA OfflineAcceptor ==
  ASSUME VarsOK, ThreadsOK, StartInv, HandlersInv, OfflineInv, AcceptorNext
  PROVE  OfflineInv'
<1> USE ThreadKinds, HelpQueueAssumption DEF VarsOK, clientData, events, Goto
<1>0. /\ \A u \in Conns : u \in Nat \ {0} /\ u # Acceptor
      /\ UNCHANGED <<helping, date>>
  BY AcceptorEffects DEF Conns, Acceptor
<1>1. \A h \in Conns : /\ pc'[h] # pc[h] => pc'[h] = "lookup"
                       /\ cd'[h] = cd[h]
  <2> SUFFICES ASSUME NEW h \in Conns PROVE (pc'[h] # pc[h] => pc'[h] = "lookup") /\ cd'[h] = cd[h]
    OBVIOUS
  <2> QED BY <1>0, AcceptorEffects DEF Kept
<1>2. \A w \in Workstations : online[w] \/ Reconnecting(w) => online'[w] \/ Reconnecting(w)'
  <2>1. CASE \E w \in Workstations : Accept(w)
    BY <2>1 DEF Accept, Reconnecting
  <2>2. CASE Register
    BY <2>2 DEF Register, Reconnecting, RecordsOK
  <2>3. CASE StartNew
    BY <2>3 DEF StartNew, Reconnecting
  <2>4. CASE GetRecord
    BY <2>4 DEF GetRecord, Reconnecting
  <2>5. CASE SetHandler
    BY <2>5 DEF SetHandler, Reconnecting
  <2>6. CASE Refuse
    BY <2>6 DEF Refuse, Reconnecting
  <2>7. CASE StartAgain
    BY <2>7 DEF StartAgain, Reconnecting
  <2>8. CASE SetOnline
    BY <2>8 DEF SetOnline, Reconnecting, RecordsOK
  <2> QED BY <2>1, <2>2, <2>3, <2>4, <2>5, <2>6, <2>7, <2>8 DEF AcceptorNext
<1> QED BY <1>0, <1>1, <1>2 DEF OfflineInv, OfflineNotQueued

(* A client thread changes only the record it serves.                      *)
LEMMA ClientRecords ==
  ASSUME VarsOK, ThreadsOK, NEW h \in Conns, ClientStep(h)
  PROVE  /\ tables' = tables /\ (sqlFaults' = 0 => sqlFaults = 0)
         /\ \A w \in Workstations :
              Serving(h, w) \/ (helping'[w] = helping[w] /\ date'[w] = date[w] /\ open'[w] = open[w])
<1> USE ThreadKinds, HelpQueueAssumption DEF VarsOK, clientData, events
<1>0. /\ {"ready"} \cup RequestSteps \cup EndSteps \cup CancelSteps \subseteq ServingSteps
      /\ pc[h] \in ServingSteps => cd[h] \in Workstations
  BY DEF ServingSteps, RequestSteps, EndSteps, CancelSteps, ThreadsOK, ClientOK
<1>a. ASSUME pc[h] \in ServingSteps, NEW change \in Int, NEW ok, NEW failed,
             InsertEvent(h, cd[h], change, ok, failed)
      PROVE  /\ tables' = tables /\ (sqlFaults' = 0 => sqlFaults = 0)
             /\ \A w \in Workstations \ {cd[h]} : open'[w] = open[w]
  <2>1. PICK n \in Nat : n = sqlFaults
    BY DEF EventsOK
  <2> QED BY <1>0, <1>a, <2>1 DEF InsertEvent, EventsOK
<1>b. ASSUME pc[h] \in ServingSteps, NEW ok, NEW failed, InsertCancel(h, cd[h], ok, failed)
      PROVE  /\ tables' = tables /\ (sqlFaults' = 0 => sqlFaults = 0)
             /\ \A w \in Workstations \ {cd[h]} : open'[w] = open[w]
  BY <1>a, <1>b, -1 \in Int DEF InsertCancel
<1>2. CASE LookupFound(h) \/ LookupFailed(h) \/ GetData(h) \/ Request(h) \/ Leave(h)
           \/ ClientCancel(h) \/ CancelCheck(h) \/ EndOnline(h)
  BY <1>2 DEF LookupFound, LookupFailed, GetData, Request, Leave, ClientCancel, CancelCheck, EndOnline
<1>3. CASE RequestHelping(h) \/ EndHelping(h) \/ CancelHelping(h)
  BY <1>0, <1>3 DEF RequestHelping, EndHelping, CancelHelping, SetHelping, Serving, RecordsOK,
                    RequestSteps, EndSteps, CancelSteps
<1>4. CASE RequestDate(h) \/ EndDate(h) \/ CancelDate(h)
  BY <1>0, <1>4 DEF RequestDate, EndDate, CancelDate, SetDate, Serving, RecordsOK,
                    RequestSteps, EndSteps, CancelSteps
<1>5. CASE RequestInsert(h)
  <2>1. pc[h] \in ServingSteps
    BY <1>0, <1>5 DEF RequestInsert, RequestSteps
  <2> QED BY <1>5, <2>1, <1>a DEF RequestInsert, Serving
<1>6. CASE EndInsert(h) \/ CancelInsert(h)
  <2>1. pc[h] \in ServingSteps
    BY <1>0, <1>6 DEF EndInsert, CancelInsert, EndSteps, CancelSteps
  <2> QED BY <1>6, <2>1, <1>b DEF EndInsert, CancelInsert, Serving
<1> QED BY <1>2, <1>3, <1>4, <1>5, <1>6 DEF ClientStep, ClientNext, CancelNext

(* How far a client thread has come with the record it serves.             *)
LEMMA ClientProgress ==
  ASSUME VarsOK, ThreadsOK, NEW h \in Conns, ClientStep(h)
  PROVE  /\ pc[h] \in ServingSteps =>
              /\ helping'[cd[h]] /\ ~helping[cd[h]] => pc[h] = "reqHelping"
              /\ date'[cd[h]] # NoDate /\ date[cd[h]] = NoDate => pc[h] = "reqDate"
         /\ pc'[h] = "endDate" => pc[h] = "endHelping" /\ ~helping'[cd[h]]
         /\ pc'[h] = "endOnline" =>
              pc[h] = "endDate" /\ date'[cd[h]] = NoDate /\ helping'[cd[h]] = helping[cd[h]]
<1> USE ThreadKinds, HelpQueueAssumption DEF VarsOK, clientData, events, Goto
<1>0. pc[h] \in {"ready"} \cup RequestSteps \cup EndSteps \cup CancelSteps => cd[h] \in Workstations
  BY DEF ServingSteps, RequestSteps, EndSteps, CancelSteps, ThreadsOK, ClientOK
<1>1. CASE LookupFound(h) \/ LookupFailed(h) \/ GetData(h) \/ Request(h) \/ Leave(h)
           \/ ClientCancel(h) \/ CancelCheck(h) \/ EndOnline(h)
  <2>1. pc'[h] \notin {"endDate", "endOnline"}
    BY <1>1 DEF LookupFound, LookupFailed, GetData, Request, Leave, ClientCancel, CancelCheck,
                EndOnline, LocalVarsOK
  <2> QED BY <1>1, <2>1 DEF LookupFound, LookupFailed, GetData, Request, Leave, ClientCancel, CancelCheck,
                            EndOnline
<1>2. CASE RequestHelping(h)
  BY <1>0, <1>2 DEF RequestHelping, SetHelping, RecordsOK, LocalVarsOK, RequestSteps
<1>3. CASE EndHelping(h) \/ CancelHelping(h)
  BY <1>0, <1>3 DEF EndHelping, CancelHelping, SetHelping, RecordsOK, LocalVarsOK, EndSteps, CancelSteps
<1>4. CASE RequestDate(h)
  BY <1>0, <1>4 DEF RequestDate, SetDate, RecordsOK, LocalVarsOK, RequestSteps
<1>5. CASE EndDate(h) \/ CancelDate(h)
  BY <1>0, <1>5 DEF EndDate, CancelDate, SetDate, RecordsOK, LocalVarsOK, EndSteps, CancelSteps
<1>6. CASE RequestInsert(h) \/ EndInsert(h) \/ CancelInsert(h)
  <2>1. pc'[h] \notin {"endDate", "endOnline"}
    BY <1>6 DEF RequestInsert, EndInsert, CancelInsert, InsertCancel, InsertEvent, LocalVarsOK
  <2> QED BY <1>6, <2>1 DEF RequestInsert, EndInsert, CancelInsert
<1> QED BY <1>1, <1>2, <1>3, <1>4, <1>5, <1>6 DEF ClientStep, ClientNext, CancelNext

(* A client thread clears flag and date before it goes offline, and nobody *)
(* else sets them.                                                         *)
LEMMA OfflineClient ==
  ASSUME VarsOK, ThreadsOK, RequestsOK, StartInv, HandlersInv, LiveInv, OfflineInv, ~Displays,
         NEW h \in Conns, ClientStep(h)
  PROVE  OfflineInv'
<1> USE ThreadKinds, HelpQueueAssumption DEF VarsOK
<1>0. /\ \A u \in (Conns \cup {Acceptor}) \ {h} : Kept(u)
      /\ Live(h) /\ h # Acceptor
  BY ClientEffects DEF Local
<1>1. \A w \in Workstations : Reconnecting(w)' <=> Reconnecting(w)
  BY <1>0 DEF Kept, Reconnecting
<1>2. ASSUME NEW w \in Workstations, ~online'[w], ~Reconnecting(w)'
      PROVE  ~helping'[w] /\ date'[w] = NoDate
  <2>1. CASE online[w]
    <3>1. pc[h] = "endOnline" /\ cd[h] = w
      BY <1>2, <2>1, ClientEffects DEF RecordsOK
    <3>2. ~helping[w] /\ date[w] = NoDate
      BY <3>1 DEF OfflineInv
    <3>3. pc[h] \in ServingSteps
      BY <3>1 DEF ServingSteps, EndSteps
    <3> QED BY <3>1, <3>2, <3>3, ClientProgress DEF RecordsOK
  <2>2. CASE ~online[w]
    <3>1. ~helping[w] /\ date[w] = NoDate /\ ~Reconnecting(w)
      BY <1>1, <1>2, <2>2 DEF OfflineInv, OfflineNotQueued
    <3>2. ~Serving(h, w)
      BY <1>0, <2>2, <3>1 DEF Serving, HandlersInv, HandlerServesItsWorkstation, LiveInv
    <3> QED BY <3>1, <3>2, ClientRecords
  <2> QED BY <2>1, <2>2
<1>3. ASSUME NEW g \in Conns, pc'[g] \in {"endDate", "endOnline"}
      PROVE  ~helping'[cd'[g]] /\ (pc'[g] = "endOnline" => date'[cd'[g]] = NoDate)
  <2>1. CASE g = h
    <3>1. cd'[h] = cd[h] /\ pc[h] \in {"endHelping", "endDate"} /\ cd[h] \in Workstations
      BY <1>3, <2>1, ClientEffects, ClientProgress, ServingLive DEF ServingSteps, EndSteps
    <3> QED BY <1>3, <2>1, <3>1, ClientProgress DEF OfflineInv
  <2>2. CASE g # h
    <3>1. pc[g] = pc'[g] /\ cd'[g] = cd[g] /\ pc[g] \in ServingSteps /\ cd[g] \in Workstations
      BY <1>0, <1>3, <2>2, ServingLive DEF Kept, ServingSteps, EndSteps
    <3>2. ~Serving(h, cd[g])
      BY <1>0, <2>2, <3>1, OneServes DEF Serving, HandlersInv, HandlerServesItsWorkstation
    <3> QED BY <1>3, <3>1, <3>2, ClientRecords DEF OfflineInv
  <2> QED BY <2>1, <2>2
<1> QED BY <1>2, <1>3 DEF OfflineInv, OfflineNotQueued

(* Helpers only clear.                                                     *)
LEMMA OfflineHelper ==
  ASSUME VarsOK, ThreadsOK, StartInv, HandlersInv, OfflineInv, ~Displays, NEW t \in Admins \cup Updaters, HelperStep(t)
  PROVE  OfflineInv'
<1>1. \A u \in Conns \cup {Acceptor} : Kept(u)
  BY ThreadKinds, HelperEffects DEF Local
<1>2. \A h \in Conns : pc[h] \in {"endDate", "endOnline"} => cd[h] \in Workstations
  BY ServingLive DEF ServingSteps, EndSteps
<1>3. /\ online' = online
      /\ \A w \in Workstations : /\ helping'[w] => helping[w]
                                 /\ date'[w] # NoDate => date[w] # NoDate
  BY HelperEffects
<1> QED BY <1>1, <1>2, <1>3 DEF OfflineInv, OfflineNotQueued, Reconnecting, Kept

(* How far the request of a workstation has come, from step to step.       *)
LEMMA ServesAlone ==
  ASSUME VarsOK, ThreadsOK, StartInv, HandlersInv, LiveInv,
         NEW g \in Conns, NEW h \in Conns, NEW w \in Workstations, Live(h), peer[h] = w, Serving(g, w)
  PROVE  g = h
  BY OneServes DEF Serving, HandlersInv, HandlerServesItsWorkstation

(* With its tables and no fault, an event is inserted.                     *)
LEMMA InsertSucceeds ==
  ASSUME VarsOK, tables = Tables, sqlFaults = 0, sqlFaults' = 0,
         NEW t, NEW w \in Workstations, NEW change \in Int, NEW ok, NEW failed,
         InsertEvent(t, w, change, ok, failed)
  PROVE  Goto(t, ok) /\ open' = [open EXCEPT ![w] = @ + change]
  BY DEF InsertEvent, EventsOK, VarsOK, events

(* So is a CANCEL event of a record that has a date.                       *)
LEMMA CancelSucceeds ==
  ASSUME VarsOK, tables = Tables, sqlFaults = 0, sqlFaults' = 0,
         NEW t, NEW w \in Workstations, date[w] # NoDate, NEW ok, NEW failed,
         InsertCancel(t, w, ok, failed)
  PROVE  Goto(t, ok) /\ open' = [open EXCEPT ![w] = @ - 1]
<1>1. -1 \in Int
  OBVIOUS
<1>2. InsertEvent(t, w, -1, ok, failed)
  BY DEF InsertCancel
<1>3. Goto(t, ok) /\ open' = [open EXCEPT ![w] = @ + (-1)]
  BY <1>1, <1>2, InsertSucceeds
<1>4. open[w] \in Int
  BY DEF VarsOK, EventsOK
<1>5. open[w] + (-1) = open[w] - 1
  BY <1>4
<1> QED BY <1>3, <1>5

(* The step of a client thread takes the request from stage to stage.      *)
LEMMA StageStep ==
  ASSUME VarsOK, ThreadsOK, RequestsOK, NEW h \in Conns, ClientStep(h),
         NEW w \in Workstations, Serving(h, w), Stage(h, w), tables = Tables, sqlFaults = 0, sqlFaults' = 0
  PROVE  \/ Serving(h, w)' /\ Stage(h, w)'
         \/ pc'[h] = "dead" /\ Free(w)'
<1> USE ThreadKinds, HelpQueueAssumption DEF VarsOK, clientData, events
<1>0. /\ {"ready"} \cup RequestSteps \cup EndSteps \cup CancelSteps \subseteq ServingSteps
      /\ cd[h] = w
      /\ pc[h] \notin {"lookup", "getData"}
  BY DEF Serving, ServingSteps, RequestSteps, EndSteps, CancelSteps, ThreadsOK, ClientOK
<1>a. ASSUME UNCHANGED <<helping, date, open, cd>>, NEW p, Goto(h, p),
             p = "ready" => Free(w) \/ Waits(w), p = "cancelCheck" => Free(w) \/ Waits(w),
             p = "reqHelping" => Free(w), p \in {"cancelInsert", "endInsert"} => Waits(w),
             p = "endHelping" => Free(w),
             p \in {"ready", "cancelCheck", "reqHelping", "cancelInsert", "endInsert", "endHelping"}
      PROVE  Serving(h, w)' /\ Stage(h, w)'
  <2>1. pc'[h] = p
    BY <1>a DEF Goto, LocalVarsOK
  <2>2. p \in ServingSteps
    BY <1>a, <1>0 DEF RequestSteps, EndSteps, CancelSteps
  <2> QED BY <1>0, <1>a, <2>1, <2>2 DEF Serving, Stage, Free, Waits
<1>1. CASE Request(h)
  <2>1. Free(w) \/ Waits(w)
    BY <1>0, <1>1 DEF Request, Stage
  <2> QED BY <1>0, <1>1, <1>a, <2>1 DEF Request, Free, Waits
<1>2. CASE Leave(h)
  <2>1. Free(w) \/ Waits(w)
    BY <1>0, <1>2 DEF Leave, Stage
  <2> QED BY <1>0, <1>2, <1>a, <2>1 DEF Leave, Free, Waits
<1>3. CASE ClientCancel(h)
  <2>1. Free(w) \/ Waits(w)
    BY <1>0, <1>3 DEF ClientCancel, Stage
  <2> QED BY <1>0, <1>3, <1>a, <2>1 DEF ClientCancel, Free, Waits
<1>4. CASE CancelCheck(h)
  <2>1. Free(w) \/ Waits(w)
    BY <1>0, <1>4 DEF CancelCheck, Stage
  <2> QED BY <1>0, <1>4, <1>a, <2>1 DEF CancelCheck, Free, Waits
<1>b. ASSUME UNCHANGED cd, NEW p, Goto(h, p), p \in RequestSteps \cup EndSteps \cup CancelSteps \cup {"ready"}
      PROVE  pc'[h] = p /\ Serving(h, w)'
  BY <1>0, <1>b DEF Goto, LocalVarsOK, Serving
<1>5. CASE RequestHelping(h)
  <2>1. pc'[h] = "reqDate" /\ Serving(h, w)'
    BY <1>5, <1>b DEF RequestHelping, RequestSteps
  <2> QED BY <1>0, <1>5, <2>1 DEF RequestHelping, SetHelping, RecordsOK, Stage, Free
<1>6. CASE RequestDate(h)
  <2>1. pc'[h] = "reqInsert" /\ Serving(h, w)'
    BY <1>6, <1>b DEF RequestDate, RequestSteps
  <2>2. date'[w] = requests + 1 /\ requests + 1 # NoDate
    BY <1>0, <1>6 DEF RequestDate, SetDate, RecordsOK, NoDate
  <2> QED BY <1>0, <1>6, <2>1, <2>2 DEF RequestDate, Stage
<1>7. CASE RequestInsert(h)
  <2>1. helping[w] /\ date[w] # NoDate /\ open[w] = 0
    BY <1>0, <1>7 DEF RequestInsert, Stage
  <2>2. Goto(h, "ready") /\ open' = [open EXCEPT ![w] = @ + 1]
    BY <1>0, <1>7, <2>1, InsertSucceeds DEF RequestInsert
  <2>3. pc'[h] = "ready" /\ Serving(h, w)'
    BY <1>7, <2>2, <1>b DEF RequestInsert
  <2> QED BY <1>0, <1>7, <2>1, <2>2, <2>3 DEF RequestInsert, EventsOK, Stage, Waits
<1>8. CASE EndInsert(h)
  <2>1. helping[w] /\ date[w] # NoDate /\ open[w] = 1
    BY <1>0, <1>8 DEF EndInsert, Stage, Waits
  <2>2. Goto(h, "endHelping") /\ open' = [open EXCEPT ![w] = @ - 1]
    BY <1>0, <1>8, <2>1, CancelSucceeds DEF EndInsert
  <2>3. pc'[h] = "endHelping" /\ Serving(h, w)'
    BY <1>8, <2>2, <1>b DEF EndInsert, EndSteps
  <2> QED BY <1>0, <1>8, <2>1, <2>2, <2>3 DEF EndInsert, EventsOK, Stage
<1>9. CASE CancelInsert(h)
  <2>1. helping[w] /\ date[w] # NoDate /\ open[w] = 1
    BY <1>0, <1>9 DEF CancelInsert, Stage, Waits
  <2>2. Goto(h, "cancelHelping") /\ open' = [open EXCEPT ![w] = @ - 1]
    BY <1>0, <1>9, <2>1, CancelSucceeds DEF CancelInsert
  <2>3. pc'[h] = "cancelHelping" /\ Serving(h, w)'
    BY <1>9, <2>2, <1>b DEF CancelInsert, CancelSteps
  <2> QED BY <1>0, <1>9, <2>1, <2>2, <2>3 DEF CancelInsert, EventsOK, Stage
<1>10. CASE EndHelping(h)
  <2>1. pc'[h] = "endDate" /\ Serving(h, w)'
    BY <1>10, <1>b DEF EndHelping, EndSteps
  <2> QED BY <1>0, <1>10, <2>1 DEF EndHelping, SetHelping, RecordsOK, Stage
<1>11. CASE CancelHelping(h)
  <2>1. pc'[h] = "cancelDate" /\ Serving(h, w)'
    BY <1>11, <1>b DEF CancelHelping, CancelSteps
  <2> QED BY <1>0, <1>11, <2>1 DEF CancelHelping, SetHelping, RecordsOK, Stage
<1>12. CASE EndDate(h)
  <2>1. pc'[h] = "endOnline" /\ Serving(h, w)'
    BY <1>12, <1>b DEF EndDate, EndSteps
  <2> QED BY <1>0, <1>12, <2>1 DEF EndDate, SetDate, RecordsOK, Stage, Free, NoDate
<1>13. CASE CancelDate(h)
  <2>1. pc'[h] = "ready" /\ Serving(h, w)'
    BY <1>13, <1>b DEF CancelDate
  <2> QED BY <1>0, <1>13, <2>1 DEF CancelDate, SetDate, RecordsOK, Stage, Free, NoDate
<1>14. CASE EndOnline(h)
  <2>1. Free(w)
    BY <1>14 DEF EndOnline, Stage
  <2> QED BY <1>14, <2>1 DEF EndOnline, Free, Goto, LocalVarsOK
<1>15. ~ (LookupFound(h) \/ LookupFailed(h) \/ GetData(h))
  BY <1>0 DEF LookupFound, LookupFailed, GetData
<1> QED BY <1>1, <1>2, <1>3, <1>4, <1>5, <1>6, <1>7, <1>8, <1>9, <1>10, <1>11, <1>12, <1>13, <1>14, <1>15
        DEF ClientStep, ClientNext, CancelNext

(* Connecting moves no request from its stage.                             *)
LEMMA AgreeAcceptor ==
  ASSUME VarsOK, ThreadsOK, StartInv, HandlersInv, AgreeInv, AcceptorNext
  PROVE  AgreeInv'
<1> USE ThreadKinds, HelpQueueAssumption DEF VarsOK
<1>0. /\ UNCHANGED <<helping, date, tables, open, sqlFaults>>
      /\ \A u \in Conns : u # Acceptor
      /\ \A t \in Admins \cup Updaters : t # conns
  BY AcceptorEffects DEF ConnsOK, Acceptor, Conns
<1>1. \A t \in Admins \cup Updaters : idx'[t] = idx[t]
  BY <1>0, AcceptorEffects DEF Kept
<1>2. pc[Acceptor] \in {"startNew", "checkOnline"} => pc[conns] = "new"
  BY DEF StartInv, Busy, AcceptorSteps
<1>3. ASSUME NEW h \in Conns
      PROVE  /\ \A w \in Workstations : Serving(h, w)' <=> Serving(h, w)
             /\ pc[h] \in ServingSteps => pc'[h] = pc[h]
  <2>1. /\ cd'[h] = cd[h]
        /\ \/ pc'[h] = pc[h]
           \/ pc[h] = "new" /\ pc'[h] = "lookup"
    <3>1. CASE h # conns
      BY <1>0, <3>1, AcceptorEffects DEF Kept
    <3>2. CASE h = conns
      <4>1. conns # 0
        BY <3>2 DEF Conns
      <4> QED BY <1>2, <3>2, <4>1, AcceptorEffects DEF Kept
    <3> QED BY <3>1, <3>2
  <2>2. pc[h] \in ServingSteps <=> pc'[h] \in ServingSteps
    BY <2>1 DEF ServingSteps, RequestSteps, EndSteps, CancelSteps
  <2>3. pc[h] \in ServingSteps => pc[h] # "new"
    BY DEF ServingSteps, RequestSteps, EndSteps, CancelSteps
  <2> QED BY <2>1, <2>2, <2>3 DEF Serving
<1>4. ASSUME ClientsAlone' PROVE ClientsAlone
  BY <1>0, <1>1, <1>4 DEF ClientsAlone
<1>5. ASSUME NEW h \in Conns, NEW w \in Workstations, Serving(h, w), Stage(h, w) PROVE Stage(h, w)'
  <2>1. pc'[h] = pc[h]
    BY <1>3, <1>5 DEF Serving
  <2> QED BY <1>0, <1>5, <2>1 DEF Stage, Free, Waits
<1>6. \A w \in Workstations : (Free(w)' <=> Free(w)) /\ (Waits(w)' <=> Waits(w))
  BY <1>0 DEF Free, Waits
<1> QED BY <1>0, <1>3, <1>4, <1>5, <1>6 DEF AgreeInv

(* A client thread moves the request of its own workstation only.          *)
LEMMA AgreeClient ==
  ASSUME VarsOK, ThreadsOK, RequestsOK, StartInv, HandlersInv, LiveInv, AgreeInv, NEW h \in Conns, ClientStep(h)
  PROVE  AgreeInv'
<1> USE ThreadKinds, HelpQueueAssumption DEF VarsOK
<1>0. /\ \A u \in Threads \ {h} : Kept(u)
      /\ Live(h)
  BY ClientEffects DEF Local
<1>1. ASSUME ClientsAlone'
      PROVE  ClientsAlone /\ sqlFaults = 0 /\ sqlFaults' = 0 /\ tables = Tables /\ tables' = Tables
  BY <1>0, <1>1, ClientRecords DEF ClientsAlone, Kept, AgreeInv
<1>2. ASSUME NEW w \in Workstations, ~Serving(h, w)
      PROVE  /\ Free(w)' <=> Free(w)
             /\ Waits(w)' <=> Waits(w)
             /\ \A g \in Conns \ {h} : /\ Serving(g, w)' <=> Serving(g, w)
                                       /\ Stage(g, w)' <=> Stage(g, w)
  <2>1. helping'[w] = helping[w] /\ date'[w] = date[w] /\ open'[w] = open[w]
    BY <1>2, ClientRecords
  <2> QED BY <1>0, <2>1 DEF Free, Waits, Serving, Stage, Kept
<1>3. ASSUME ClientsAlone', NEW w \in Workstations
      PROVE  /\ \A g \in Conns : Serving(g, w)' => Stage(g, w)'
             /\ (\A g \in Conns : ~Serving(g, w)') => Free(w)' \/ Waits(w)'
  <2>1. CASE Serving(h, w)
    <3>1. w = cd[h] /\ pc[h] \in ServingSteps /\ Stage(h, w)
      BY <1>1, <1>3, <2>1 DEF Serving, AgreeInv
    <3>2. \/ Serving(h, w)' /\ Stage(h, w)'
          \/ pc'[h] = "dead" /\ Free(w)'
      BY <1>1, <1>3, <3>1, StageStep DEF Serving
    <3>3. \A g \in Conns \ {h} : ~Serving(g, w)'
      <4>1. peer[h] = w
        BY <3>1 DEF HandlersInv, HandlerServesItsWorkstation
      <4>2. \A g \in Conns \ {h} : ~Serving(g, w)
        BY <1>0, <4>1, ServesAlone
      <4> QED BY <1>0, <4>2 DEF Serving, Kept
    <3>4. pc'[h] = "dead" => ~Serving(h, w)'
      BY DEF Serving, ServingSteps, RequestSteps, EndSteps, CancelSteps
    <3> QED BY <3>2, <3>3, <3>4
  <2>2. CASE ~Serving(h, w) /\ Serving(h, w)'
    <3>1. pc[h] = "getData" /\ cd'[h] = clientVector[idx[h]] /\ GetData(h)
      <4>1. pc[h] = "getData" /\ cd'[h] = clientVector[idx[h]]
        BY <2>2, ClientEffects DEF Serving
      <4> QED BY <4>1 DEF ClientStep, ClientNext, CancelNext, LookupFound, LookupFailed, Request,
                 RequestHelping, RequestDate, RequestInsert, Leave, EndInsert, EndHelping, EndDate,
                 EndOnline, ClientCancel, CancelCheck, CancelInsert, CancelHelping, CancelDate
    <3>2. peer[h] = w /\ pc'[h] = "ready"
      BY <2>2, <3>1 DEF HandlersInv, Serving, GetData, Goto, LocalVarsOK
    <3>3. \A g \in Conns : ~Serving(g, w)
      BY <1>0, <2>2, <3>2, ServesAlone
    <3>4. Free(w)' \/ Waits(w)'
      BY <1>1, <1>2, <1>3, <3>3 DEF AgreeInv
    <3>5. Stage(h, w)'
      BY <3>2, <3>4 DEF Stage
    <3> QED BY <1>2, <3>3, <3>4, <3>5
  <2>3. CASE ~Serving(h, w) /\ ~Serving(h, w)'
    BY <1>1, <1>2, <1>3, <2>3 DEF AgreeInv
  <2> QED BY <2>1, <2>2, <2>3
<1> QED BY <1>1, <1>3 DEF AgreeInv

(* After a helper's step clients are not alone any more.                   *)
LEMMA AgreeHelper ==
  ASSUME VarsOK, ThreadsOK, NEW t \in Admins \cup Updaters, HelperStep(t)
  PROVE  AgreeInv'
  BY HelperEffects DEF AgreeInv, ClientsAlone

(* A date stays only with a thread that will clear it.                     *)
LEMMA GoneAcceptor ==
  ASSUME VarsOK, ThreadsOK, StartInv, GoneInv, AcceptorNext
  PROVE  GoneInv'
<1> USE ThreadKinds
<1>1. pc[Acceptor] \in {"startNew", "checkOnline"} => pc[conns] = "new"
  BY DEF StartInv, Busy, AcceptorSteps
<1>2. ASSUME NEW h \in Conns, pc[h] \in ServingSteps PROVE pc'[h] = pc[h] /\ cd'[h] = cd[h]
  <2>1. pc[h] # "new" /\ h # 0 /\ h # Acceptor
    BY <1>2 DEF ServingSteps, RequestSteps, EndSteps, CancelSteps, Conns, Acceptor
  <2>2. CASE h = conns
    BY <1>1, <2>1, <2>2, AcceptorEffects DEF Kept
  <2>3. CASE h # conns
    BY <2>1, <2>3, AcceptorEffects DEF Kept
  <2> QED BY <2>2, <2>3
<1>3. date' = date /\ tables' = tables
  BY AcceptorEffects
<1> QED BY <1>2, <1>3 DEF GoneInv, Serving

(* With SQL at work, a client thread keeps or clears a date.                *)
LEMMA DateStep ==
  ASSUME VarsOK, ThreadsOK, RequestsOK, NEW h \in Conns, ClientStep(h),
         NEW w \in Workstations, Serving(h, w), pc[h] # "endOnline", date'[w] # NoDate,
         tables = Tables, MaxSqlFaults = 0
  PROVE  Serving(h, w)' /\ pc'[h] # "endOnline"
<1> USE ThreadKinds, HelpQueueAssumption DEF VarsOK, clientData, events, Goto
<1>0. /\ pc[h] \in ServingSteps /\ cd[h] = w
      /\ {"ready"} \cup RequestSteps \cup EndSteps \cup CancelSteps = ServingSteps
      /\ pc'[h] \in ServingSteps => cd'[h] = cd[h]
  BY ClientEffects DEF Serving, ServingSteps, RequestSteps, EndSteps, CancelSteps
<1>1. pc'[h] # "endOnline"
  BY <1>0, ClientProgress
<1>2. pc'[h] \in {"ready"} \cup RequestSteps \cup EndSteps \cup CancelSteps
  <2>1. sqlFaults = 0
    BY DEF EventsOK
  <2>2. CASE EndInsert(h) \/ CancelInsert(h)
    <3>1. date[w] # NoDate
      BY <2>2 DEF EndInsert, CancelInsert
    <3>2. PICK failed : InsertCancel(h, w, "endHelping", failed) \/ InsertCancel(h, w, "cancelHelping", failed)
      BY <1>0, <2>2 DEF EndInsert, CancelInsert
    <3>3. \A ok : InsertCancel(h, w, ok, failed) => Goto(h, ok)
      BY <2>1, <3>1 DEF InsertCancel, InsertEvent
    <3> QED BY <3>2, <3>3 DEF LocalVarsOK, EndSteps, CancelSteps
  <2>3. CASE RequestInsert(h)
    BY <2>3 DEF RequestInsert, InsertEvent, LocalVarsOK
  <2>4. ~ (LookupFound(h) \/ LookupFailed(h) \/ GetData(h) \/ EndOnline(h))
    BY <1>0 DEF LookupFound, LookupFailed, GetData, EndOnline, RequestSteps, EndSteps, CancelSteps
  <2>5. CASE Request(h) \/ Leave(h) \/ ClientCancel(h) \/ CancelCheck(h)
    BY <2>5 DEF Request, Leave, ClientCancel, CancelCheck, LocalVarsOK, RequestSteps, EndSteps, CancelSteps
  <2>6. CASE RequestHelping(h) \/ RequestDate(h)
    BY <2>6 DEF RequestHelping, RequestDate, LocalVarsOK, RequestSteps
  <2>7. CASE EndHelping(h) \/ CancelHelping(h)
    BY <2>7 DEF EndHelping, CancelHelping, LocalVarsOK, EndSteps, CancelSteps
  <2>8. CASE EndDate(h) \/ CancelDate(h)
    BY <2>8 DEF EndDate, CancelDate, LocalVarsOK, EndSteps
  <2> QED BY <2>2, <2>3, <2>4, <2>5, <2>6, <2>7, <2>8 DEF ClientStep, ClientNext, CancelNext
<1> QED BY <1>0, <1>1, <1>2 DEF Serving

(* A date set is the date of the thread that set it.                       *)
LEMMA GoneClient ==
  ASSUME VarsOK, ThreadsOK, RequestsOK, GoneInv, NEW h \in Conns, ClientStep(h)
  PROVE  GoneInv'
<1> SUFFICES ASSUME MaxSqlFaults = 0, "event" \notin AdminOps
             PROVE  /\ tables' = Tables
                    /\ \A w \in Workstations : date'[w] # NoDate =>
                         \E g \in Conns : Serving(g, w)' /\ pc'[g] # "endOnline"
  BY DEF GoneInv
<1>0. /\ tables = Tables /\ tables' = tables
      /\ \A g \in Conns \ {h} : Kept(g)
  BY ThreadKinds, ClientEffects, ClientRecords DEF GoneInv, Local
<1>1. ASSUME NEW w \in Workstations, date'[w] # NoDate
      PROVE  \E g \in Conns : Serving(g, w)' /\ pc'[g] # "endOnline"
  <2>1. CASE date[w] = NoDate
    <3>1. Serving(h, w)
      BY <1>1, <2>1, ClientRecords
    <3>2. pc[h] = "reqDate"
      BY <1>1, <2>1, <3>1, ClientProgress DEF Serving
    <3> QED BY <1>0, <1>1, <3>1, <3>2, DateStep
  <2>2. CASE date[w] # NoDate
    <3>1. PICK g \in Conns : Serving(g, w) /\ pc[g] # "endOnline"
      BY <2>2 DEF GoneInv
    <3>2. CASE g = h
      BY <1>0, <1>1, <3>1, <3>2, DateStep
    <3>3. CASE g # h
      BY <1>0, <3>1, <3>3 DEF Kept, Serving
    <3> QED BY <3>2, <3>3
  <2> QED BY <2>1, <2>2
<1> QED BY <1>0, <1>1

(* Helpers set no date.                                                    *)
LEMMA GoneHelper ==
  ASSUME VarsOK, ThreadsOK, GoneInv, NEW t \in Admins \cup Updaters, HelperStep(t)
  PROVE  GoneInv'
<1>1. \A u \in Conns : Kept(u)
  BY ThreadKinds, HelperEffects DEF Local
<1>2. /\ "event" \notin AdminOps => tables' = tables
      /\ \A w \in Workstations : date'[w] # NoDate => date[w] # NoDate
  BY HelperEffects
<1> QED BY <1>1, <1>2 DEF GoneInv, Serving, Kept

-----------------------------------------------------------------------------
(* IInv is an inductive invariant.                                         *)
LEMMA IInvInit == Init => IInv
<1> SUFFICES ASSUME Init PROVE IInv
  OBVIOUS
<1> USE ThreadKinds
<1>1. TypeOK /\ LocalsOK /\ RequestsOK
  BY TypedInit, Parts DEF Typed
<1>2. /\ \A h \in Conns : pc[h] = "new"
      /\ pc[Acceptor] = "accept"
      /\ \A h \in Conns : ~Live(h) /\ \A w \in Workstations : ~Serving(h, w)
  BY DEF Init, Live, Serving, ServingSteps, RequestSteps, CancelSteps, EndSteps
<1>3. StartInv
  BY <1>2 DEF StartInv, Busy
<1>4. HandlersInv
  BY <1>2 DEF HandlersInv, HandlerServesItsWorkstation, Init, Busy, ServingSteps, RequestSteps,
              CancelSteps, EndSteps
<1>5. LiveInv
  BY <1>2 DEF LiveInv, Busy
<1>6. OfflineInv
  BY <1>2 DEF OfflineInv, OfflineNotQueued, Init
<1>7. AgreeInv
  BY <1>2 DEF AgreeInv, Free, Init
<1>8. GoneInv
  BY DEF GoneInv, Init
<1> QED BY <1>1, <1>3, <1>4, <1>5, <1>6, <1>7, <1>8 DEF IInv

(* Every step keeps IInv: part by part, thread by thread.                  *)
LEMMA IInvStep == IInv /\ [Next]_vars => IInv'
<1> SUFFICES ASSUME IInv, [Next]_vars PROVE IInv'
  OBVIOUS
<1>0. VarsOK /\ ThreadsOK /\ RequestsOK /\ StartInv /\ GoneInv
  BY Parts DEF IInv
<1>1. VarsOK' /\ ThreadsOK' /\ RequestsOK'
  BY <1>0, TypedStep DEF Typed
<1>2. TypeOK' /\ LocalsOK' /\ RequestsOK'
  <2>1. (TypeOK /\ LocalsOK <=> VarsOK /\ ThreadsOK)'
    BY Parts, PTL
  <2> QED BY <1>1, <2>1
<1>3. StartInv' /\ GoneInv'
  <2>1. CASE AcceptorNext
    BY <1>0, <2>1, StartAcceptor, GoneAcceptor
  <2>2. ASSUME NEW h \in Conns, ClientStep(h) PROVE StartInv' /\ GoneInv'
    BY <1>0, <2>2, ThreadKinds, StartOthers, GoneClient
  <2>3. ASSUME NEW t \in Admins \cup Updaters, HelperStep(t) PROVE StartInv' /\ GoneInv'
    BY <1>0, <2>3, ThreadKinds, StartOthers, GoneHelper
  <2>4. CASE DisplayUpdate
    BY <1>0, <2>4 DEF DisplayUpdate, StartInv, GoneInv, Serving, clientData, events
  <2>5. CASE UNCHANGED vars
    BY <1>0, <2>5 DEF vars, StartInv, GoneInv, Serving, clientData, events
  <2> QED BY <2>1, <2>2, <2>3, <2>4, <2>5, WhoSteps
<1>4. Displays \/ (HandlersInv /\ LiveInv /\ OfflineInv /\ AgreeInv)'
  <2> SUFFICES ASSUME ~Displays PROVE HandlersInv' /\ LiveInv' /\ OfflineInv' /\ AgreeInv'
    OBVIOUS
  <2>0. HandlersInv /\ LiveInv /\ OfflineInv /\ AgreeInv
    BY DEF IInv
  <2>1. CASE AcceptorNext
    BY <1>0, <2>0, <2>1, HandlersAcceptor, LiveAcceptor, OfflineAcceptor, AgreeAcceptor
  <2>2. ASSUME NEW h \in Conns, ClientStep(h)
        PROVE  HandlersInv' /\ LiveInv' /\ OfflineInv' /\ AgreeInv'
    BY <1>0, <2>0, <2>2, HandlersClient, LiveClient, OfflineClient, AgreeClient
  <2>3. ASSUME NEW t \in Admins \cup Updaters, HelperStep(t)
        PROVE  HandlersInv' /\ LiveInv' /\ OfflineInv' /\ AgreeInv'
    BY <1>0, <2>0, <2>3, HandlersHelper, LiveHelper, OfflineHelper, AgreeHelper
  <2>4. CASE UNCHANGED vars
    <3>1. HandlersInv' /\ LiveInv'
      BY <2>0, <2>4 DEF vars, clientData, events, HandlersInv, HandlerServesItsWorkstation, LiveInv,
                        InVector, Live, Reconnecting
    <3>2. OfflineInv'
      BY <2>0, <2>4 DEF vars, clientData, events, OfflineInv, OfflineNotQueued, Reconnecting
    <3>3. AgreeInv'
      BY <2>0, <2>4 DEF vars, clientData, events, AgreeInv, ClientsAlone, Serving, Stage, Free, Waits
    <3> QED BY <3>1, <3>2, <3>3
  <2> QED BY <2>1, <2>2, <2>3, <2>4, WhoSteps DEF DisplayUpdate
<1> QED BY <1>2, <1>3, <1>4 DEF IInv

(* The inductive invariant of the server, for any number of workstations,  *)
(* connections, administrators and faults: types, where each thread is,    *)
(* and, as long as no display sorts the vector, whose record it serves.    *)
THEOREM QueueInvariant == Spec => []IInv
  BY IInvInit, IInvStep, PTL DEF Spec

(* Every field of a ClientData object and every local of a thread holds a  *)
(* value of its kind; no index leaves the vector.                          *)
THEOREM QueueTypes == Spec => []TypeOK
<1>1. IInv => TypeOK
  BY DEF IInv
<1> QED BY <1>1, QueueInvariant, PTL

(* While no display sorts the vector, a client thread works on the record  *)
(* of the workstation its program runs on.                                 *)
THEOREM QueueHandlers ==
  ASSUME ~Displays
  PROVE  Spec => []HandlerServesItsWorkstation
<1>1. IInv => HandlerServesItsWorkstation
  BY DEF IInv, HandlersInv
<1> QED BY <1>1, QueueInvariant, PTL

(* At most one client thread works on the record of a workstation.         *)
THEOREM QueueOneHandler == Spec => []OneHandlerPerWorkstation
<1>1. IInv => OneHandlerPerWorkstation
  BY Parts, OneServes, ServingLive
     DEF IInv, OneHandlerPerWorkstation, Serving, HandlersInv, HandlerServesItsWorkstation
<1> QED BY <1>1, QueueInvariant, PTL

(* A workstation that is offline has no pending request and no date.       *)
THEOREM QueueOffline == Spec => []OfflineNotQueued
<1>1. IInv => OfflineNotQueued
  BY DEF IInv, OfflineInv, OfflineNotQueued
<1> QED BY <1>1, QueueInvariant, PTL

(* As long as only clients act and SQL works, flag, date and Events agree  *)
(* on a workstation whose thread is between two commands.                  *)
THEOREM QueueAgrees == Spec => []FlagDateAndEventsAgree
<1>1. IInv => FlagDateAndEventsAgree
  <2> SUFFICES ASSUME IInv, ClientsAlone, NEW w \in Workstations, Quiet(w)
               PROVE  /\ helping[w] <=> date[w] # NoDate
                      /\ open[w] = IF helping[w] THEN 1 ELSE 0
    BY DEF FlagDateAndEventsAgree
  <2>1. Free(w) \/ Waits(w)
    <3>1. CASE \E h \in Conns : Serving(h, w)
      BY <3>1 DEF IInv, AgreeInv, ClientsAlone, Quiet, Stage
    <3>2. CASE \A h \in Conns : ~Serving(h, w)
      BY <3>2 DEF IInv, AgreeInv, ClientsAlone
    <3> QED BY <3>1, <3>2
  <2> QED BY <2>1 DEF Free, Waits
<1> QED BY <1>1, QueueInvariant, PTL

(* As long as SQL works, a workstation that no thread serves has left the  *)
(* displays, even one whose thread ended in an exception.                  *)
THEOREM QueueGone == Spec => []GoneNotDisplayed
<1>1. IInv => GoneNotDisplayed
  BY DEF IInv, GoneInv, GoneNotDisplayed
<1> QED BY <1>1, QueueInvariant, PTL
=============================================================================
