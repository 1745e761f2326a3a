--------------------------- MODULE HeapFile_proofs --------------------------
(***************************************************************************)
(* Until a part of the file is lost, its directory tells the truth about   *)
(* its data pages, the contents are what users put in, and a scan misses   *)
(* nothing that stays: for any records, sizes of pages and numbers of      *)
(* pages.                                                                  *)
(***************************************************************************)
EXTENDS HeapFile, FiniteSetTheorems, SequenceTheorems, WellFoundedInduction, TLAPS

(***************************************************************************)
(* Least elements, and what FreeSpace sums up.                             *)
(***************************************************************************)
(* A set of natural numbers that is not empty has a least element.         *)
LEMMA NatMin ==
  ASSUME NEW T \in SUBSET Nat, T # {}
  PROVE  \E x \in T : \A y \in T : x <= y
<1>1. IsWellFoundedOn(OpToRel(<, Nat), Nat)
  BY NatLessThanWellFounded
<1>2. PICK x \in T : \A y \in T : ~ (<<y, x>> \in OpToRel(<, Nat))
  BY <1>1, WFMin
<1>3. \A y \in T : ~ (y < x)
  BY <1>2 DEF OpToRel
<1> QED BY <1>3

(* First is that least element.                                            *)
LEMMA FirstIs ==
  ASSUME NEW T \in SUBSET Nat, T # {}
  PROVE  First(T) \in T /\ \A y \in T : First(T) <= y
BY NatMin DEF First

(* A sequence has its length, its indices and its elements.                *)
LEMMA SeqFacts ==
  ASSUME NEW S, NEW s \in Seq(S)
  PROVE  Len(s) \in Nat /\ DOMAIN s = 1..Len(s) /\ \A i \in 1..Len(s) : s[i] \in S
BY LenProperties, ElementOfSeq

(* f sums the lengths of the first n slots.                                *)
Sums(s, n, f) ==
  /\ f \in [0..n -> Nat] /\ f[0] = 0
  /\ \A i \in 1..n : f[i] = s[i].len + f[i - 1]

(* The sums exist.                                                         *)
LEMMA SumsExist ==
  ASSUME NEW s, NEW n \in Nat, \A i \in 1..n : s[i].len \in Nat
  PROVE  \E f : Sums(s, n, f)
<1> DEFINE T == {m \in 0..n : ~ \E f : Sums(s, m, f)}
<1>1. SUFFICES ASSUME T # {} PROVE FALSE
  OBVIOUS
<1>2. T \in SUBSET Nat
  <2>1. T \subseteq 0..n
    OBVIOUS
  <2>2. 0..n \subseteq Nat
    OBVIOUS
  <2> QED BY <2>1, <2>2
<1>3. PICK m \in T : \A k \in T : m <= k
  BY <1>1, <1>2, NatMin
<1>4. CASE m = 0
  <2>1. Sums(s, 0, [i \in 0..0 |-> 0])
    BY DEF Sums
  <2> QED BY <1>3, <1>4, <2>1
<1>5. CASE m # 0
  <2>1. m \in 1..n /\ m - 1 \in 0..n /\ m - 1 \notin T
    BY <1>3, <1>5
  <2>2. PICK f : Sums(s, m - 1, f)
    BY <2>1
  <2> DEFINE g == [i \in 0..m |-> IF i = m THEN s[m].len + f[m - 1] ELSE f[i]]
  <2>3. f[m - 1] \in Nat /\ s[m].len \in Nat /\ \A i \in 0..m - 1 : f[i] \in Nat
    BY <2>1, <2>2 DEF Sums
  <2>4. g \in [0..m -> Nat]
    BY <2>1, <2>3
  <2>5. g[0] = 0
    BY <2>1, <2>2 DEF Sums
  <2>6. ASSUME NEW i \in 1..m PROVE g[i] = s[i].len + g[i - 1]
    <3>1. CASE i = m
      <4>1. g[i] = s[m].len + f[m - 1]
        BY <2>1, <3>1
      <4>2. g[i - 1] = f[m - 1]
        BY <2>1, <3>1
      <4> QED BY <3>1, <4>1, <4>2
    <3>2. CASE i # m
      <4>1. i \in 1..m - 1 /\ i \in 0..m /\ i - 1 \in 0..m /\ i - 1 # m
        BY <2>1, <3>2
      <4>2. g[i] = f[i] /\ g[i - 1] = f[i - 1]
        BY <3>2, <4>1
      <4> QED BY <2>2, <4>1, <4>2 DEF Sums
    <3> QED BY <3>1, <3>2
  <2>7. Sums(s, m, g)
    BY <2>4, <2>5, <2>6 DEF Sums
  <2> QED BY <1>3, <2>7
<1> QED BY <1>4, <1>5

(* FreeSpace subtracts their last one.                                     *)
LEMMA FreeSpaceIs ==
  ASSUME NEW s, NEW size, Len(s) \in Nat, NEW f, Sums(s, Len(s), f)
  PROVE  FreeSpace(s, size) = size - f[Len(s)] - SlotSize * (Len(s) - 1)
<1> DEFINE n == Len(s)
           body(g) == [i \in 0..n |-> IF i = 0 THEN 0 ELSE s[i].len + g[i - 1]]
           taken == CHOOSE g : g = body(g)
<1>1. f = body(f)
  <2>1. f = [i \in 0..n |-> f[i]]
    BY DEF Sums
  <2>2. ASSUME NEW i \in 0..n PROVE f[i] = IF i = 0 THEN 0 ELSE s[i].len + f[i - 1]
    <3>1. i = 0 \/ i \in 1..n
      OBVIOUS
    <3> QED BY <3>1 DEF Sums
  <2> QED BY <2>1, <2>2
<1>2. taken = body(taken)
  BY <1>1
<1>3. \A i \in 0..n : taken[i] = IF i = 0 THEN 0 ELSE s[i].len + taken[i - 1]
  <2> HIDE DEF taken
  <2> QED BY <1>2
<1>4. \A i \in 0..n : f[i] = IF i = 0 THEN 0 ELSE s[i].len + f[i - 1]
  <2> HIDE DEF taken
  <2> QED BY <1>1
<1> HIDE DEF taken
<1>5. \A i \in 0..n : taken[i] = f[i]
  <2> DEFINE T == {i \in 0..n : taken[i] # f[i]}
  <2>1. SUFFICES ASSUME T # {} PROVE FALSE
    OBVIOUS
  <2>2. T \in SUBSET Nat
    <3>1. T \subseteq 0..n
      OBVIOUS
    <3>2. 0..n \subseteq Nat
      OBVIOUS
    <3> QED BY <3>1, <3>2
  <2>3. PICK i \in T : \A k \in T : i <= k
    BY <2>1, <2>2, NatMin
  <2>4. i # 0
    BY <1>3, <1>4, <2>3
  <2>5. i - 1 \in 0..n /\ i - 1 \notin T /\ i \in 0..n
    BY <2>3, <2>4
  <2>6. taken[i - 1] = f[i - 1]
    BY <2>5
  <2> QED BY <1>3, <1>4, <2>3, <2>4, <2>5, <2>6
<1>6. FreeSpace(s, size) = size - taken[n] - SlotSize * (n - 1)
  BY DEF FreeSpace, taken
<1>7. taken[n] = f[n]
  BY <1>5
<1> QED BY <1>6, <1>7

(* It is a number.                                                         *)
LEMMA FreeSpaceType ==
  ASSUME NEW S, \A x \in S : x.len \in Nat, NEW s \in Seq(S), NEW size \in Int
  PROVE  FreeSpace(s, size) \in Int
<1>1. Len(s) \in Nat /\ \A i \in 1..Len(s) : s[i].len \in Nat
  BY SeqFacts
<1>2. PICK f : Sums(s, Len(s), f)
  BY <1>1, SumsExist
<1>3. f[Len(s)] \in Nat
  BY <1>1, <1>2 DEF Sums
<1>4. FreeSpace(s, size) = size - f[Len(s)] - SlotSize * (Len(s) - 1)
  BY <1>1, <1>2, FreeSpaceIs
<1> QED BY <1>1, <1>3, <1>4, FileAssumption

(* A page with one slot has the rest free.                                 *)
LEMMA FreeOne ==
  ASSUME NEW x, x.len \in Nat, NEW size \in Int
  PROVE  FreeSpace(<< x >>, size) = size - x.len
<1> DEFINE s == << x >>
           f == [i \in 0..1 |-> IF i = 0 THEN 0 ELSE x.len]
<1>1. Len(s) = 1 /\ s[1] = x
  OBVIOUS
<1>2. Sums(s, 1, f)
  BY <1>1 DEF Sums
<1>3. f[1] = x.len
  OBVIOUS
<1> HIDE DEF s, f
<1>4. FreeSpace(s, size) = size - f[1] - SlotSize * (1 - 1)
  <2>1. Len(s) \in Nat /\ Sums(s, Len(s), f)
    BY <1>1, <1>2
  <2>2. FreeSpace(s, size) = size - f[Len(s)] - SlotSize * (Len(s) - 1)
    BY <2>1, FreeSpaceIs
  <2> QED BY <1>1, <2>2
<1> QED BY <1>3, <1>4, FileAssumption DEF s

(* A slot behind the others takes its length and the slot.                 *)
LEMMA FreeAppend ==
  ASSUME NEW S, \A x \in S : x.len \in Nat, NEW s \in Seq(S), NEW e \in S, NEW size \in Int
  PROVE  FreeSpace(Append(s, e), size) = FreeSpace(s, size) - e.len - SlotSize
<1> DEFINE n == Len(s)
           a == Append(s, e)
<1>1. n \in Nat /\ (\A i \in 1..n : s[i].len \in Nat) /\ e.len \in Nat
  BY SeqFacts
<1>2. PICK f : Sums(s, n, f)
  BY <1>1, SumsExist
<1>3. Len(a) = n + 1 /\ a[n + 1] = e /\ \A i \in 1..n : a[i] = s[i]
  BY AppendProperties
<1> DEFINE g == [i \in 0..n + 1 |-> IF i = n + 1 THEN e.len + f[n] ELSE f[i]]
<1>4. f[n] \in Nat /\ f[0] = 0 /\ \A i \in 0..n : f[i] \in Nat
  <2> HIDE DEF n
  <2>1. f[0] = 0 /\ \A i \in 0..n : f[i] \in Nat
    BY <1>2 DEF Sums
  <2>2. n \in 0..n
    BY <1>1
  <2> QED BY <2>1, <2>2
<1> HIDE DEF a, n
<1>5. g \in [0..n + 1 -> Nat]
  BY <1>1, <1>4
<1>6. ASSUME NEW i \in 1..n + 1 PROVE g[i] = a[i].len + g[i - 1]
  <2>1. CASE i = n + 1
    BY <1>1, <1>3, <2>1
  <2>2. CASE i # n + 1
    <3>1. i \in 1..n /\ i \in 0..n + 1 /\ i - 1 \in 0..n + 1 /\ i - 1 # n + 1
      BY <1>1, <2>2
    <3>2. g[i] = f[i] /\ g[i - 1] = f[i - 1]
      BY <2>2, <3>1
    <3> QED BY <1>2, <1>3, <3>1, <3>2 DEF Sums
  <2> QED BY <2>1, <2>2
<1>7. g[0] = 0 /\ g[n + 1] = e.len + f[n]
  BY <1>1, <1>4
<1> HIDE DEF g
<1>8. Sums(a, n + 1, g)
  BY <1>5, <1>6, <1>7 DEF Sums
<1>9. FreeSpace(a, size) = size - g[n + 1] - SlotSize * ((n + 1) - 1)
  <2>1. n + 1 \in Nat
    BY <1>1
  <2> QED BY <1>3, <1>8, <2>1, FreeSpaceIs
<1>10. FreeSpace(s, size) = size - f[n] - SlotSize * (n - 1)
  BY <1>1, <1>2, FreeSpaceIs DEF n
<1>11. SlotSize * ((n + 1) - 1) = SlotSize * (n - 1) + SlotSize
  BY <1>1, FileAssumption
<1>12. SlotSize * (n - 1) \in Int /\ SlotSize \in Int
  BY <1>1, FileAssumption
<1> QED BY <1>1, <1>4, <1>7, <1>9, <1>10, <1>11, <1>12 DEF a

(* A slot that is written again takes the new length instead of the old.   *)
LEMMA FreeChanged ==
  ASSUME NEW S, \A x \in S : x.len \in Nat, NEW s \in Seq(S), NEW e \in S, NEW k \in 1..Len(s),
         NEW size \in Int
  PROVE  FreeSpace([s EXCEPT ![k] = e], size) = FreeSpace(s, size) + s[k].len - e.len
<1> DEFINE n == Len(s)
           a == [s EXCEPT ![k] = e]
<1>1. n \in Nat /\ (\A i \in 1..n : s[i].len \in Nat) /\ e.len \in Nat /\ k \in 1..n
  BY SeqFacts
<1>2. PICK f : Sums(s, n, f)
  BY <1>1, SumsExist
<1>3. a \in Seq(S) /\ Len(a) = n /\ \A i \in 1..n : a[i] = IF i = k THEN e ELSE s[i]
  <2>1. DOMAIN s = 1..n
    BY SeqFacts
  <2>2. a \in Seq(S) /\ Len(a) = n
    BY ExceptSeq
  <2> QED BY <2>1, <2>2
<1> HIDE DEF a, n
<1>4. PICK g : Sums(a, n, g)
  <2>1. \A i \in 1..n : a[i].len \in Nat
    BY <1>1, <1>3
  <2> QED BY <1>1, <2>1, SumsExist
<1>5. \A i \in 0..n : f[i] \in Nat /\ g[i] \in Nat
  BY <1>2, <1>4 DEF Sums
<1>6. \A i \in 1..n : f[i] = s[i].len + f[i - 1]
  BY <1>2 DEF Sums
<1>7. \A i \in 1..n : g[i] = a[i].len + g[i - 1]
  BY <1>4 DEF Sums
<1>8. f[0] = 0 /\ g[0] = 0
  BY <1>2, <1>4 DEF Sums
<1> DEFINE old == s[k].len
           new == e.len
           Differ(i) == g[i] = IF i < k THEN f[i] ELSE f[i] - old + new
<1>9. \A i \in 0..n : Differ(i)
  <2> DEFINE T == {i \in 0..n : ~ Differ(i)}
  <2>1. SUFFICES ASSUME T # {} PROVE FALSE
    OBVIOUS
  <2>2. T \in SUBSET Nat
    <3>1. T \subseteq 0..n
      OBVIOUS
    <3>2. 0..n \subseteq Nat
      OBVIOUS
    <3> QED BY <3>1, <3>2
  <2>3. PICK i \in T : \A j \in T : i <= j
    BY <2>1, <2>2, NatMin
  <2>4. i # 0
    BY <1>1, <1>8, <2>3
  <2>5. i \in 1..n /\ i - 1 \in 0..n /\ Differ(i - 1)
    BY <1>1, <2>3, <2>4
  <2>6. g[i] = a[i].len + g[i - 1] /\ f[i] = s[i].len + f[i - 1]
    BY <1>6, <1>7, <2>5
  <2>7. f[i - 1] \in Nat /\ g[i - 1] \in Nat /\ f[i] \in Nat /\ g[i] \in Nat /\ s[i].len \in Nat
    BY <1>1, <1>5, <2>5
  <2>8. old \in Nat /\ new \in Nat
    BY <1>1
  <2>9. CASE i < k
    <3>1. a[i] = s[i] /\ i - 1 < k
      BY <1>1, <1>3, <2>5, <2>9
    <3>2. g[i - 1] = f[i - 1]
      BY <2>5, <3>1
    <3> QED BY <2>3, <2>6, <2>9, <3>1, <3>2
  <2>10. CASE i = k
    <3>1. a[i].len = new /\ s[i].len = old /\ i - 1 < k /\ ~ (i < k)
      BY <1>1, <1>3, <2>5, <2>10
    <3>2. g[i - 1] = f[i - 1]
      BY <2>5, <3>1
    <3>3. g[i] = f[i] - old + new
      <4> DEFINE x == f[i - 1]
                 y == f[i]
                 z == g[i]
      <4>1. x \in Nat /\ y \in Nat /\ z \in Nat
        BY <2>7
      <4>2. z = new + x /\ y = old + x
        BY <2>6, <3>1, <3>2
      <4> HIDE DEF old, new, x, y, z
      <4>3. z = y - old + new
        BY <2>8, <4>1, <4>2
      <4> QED BY <4>3 DEF y, z
    <3> QED BY <2>3, <3>1, <3>3
  <2>11. CASE i > k
    <3>1. a[i] = s[i] /\ ~ (i - 1 < k) /\ ~ (i < k)
      BY <1>1, <1>3, <2>5, <2>11
    <3>2. g[i - 1] = f[i - 1] - old + new
      BY <2>5, <3>1
    <3>3. g[i] = f[i] - old + new
      <4> DEFINE w == g[i - 1]
                 x == f[i - 1]
                 y == f[i]
                 z == g[i]
                 l == s[i].len
      <4>1. w \in Nat /\ x \in Nat /\ y \in Nat /\ z \in Nat /\ l \in Nat
        BY <2>7
      <4>2. z = l + w /\ y = l + x /\ w = x - old + new
        BY <2>6, <3>1, <3>2
      <4> HIDE DEF old, new, w, x, y, z, l
      <4>3. z = y - old + new
        BY <2>8, <4>1, <4>2
      <4> QED BY <4>3 DEF y, z
    <3> QED BY <2>3, <3>1, <3>3
  <2>12. i < k \/ i = k \/ i > k
    BY <1>1, <2>5
  <2> QED BY <2>9, <2>10, <2>11, <2>12
<1>10. g[n] = f[n] - old + new
  <2>1. n \in 0..n /\ ~ (n < k)
    BY <1>1
  <2> HIDE DEF old, new
  <2> QED BY <1>9, <2>1
<1>11. FreeSpace(a, size) = size - g[n] - SlotSize * (n - 1)
  <2>1. Len(a) \in Nat /\ Sums(a, Len(a), g)
    BY <1>1, <1>3, <1>4
  <2>2. FreeSpace(a, size) = size - g[Len(a)] - SlotSize * (Len(a) - 1)
    BY <2>1, FreeSpaceIs
  <2> QED BY <1>3, <2>2
<1>12. FreeSpace(s, size) = size - f[n] - SlotSize * (n - 1)
  BY <1>1, <1>2, FreeSpaceIs DEF n
<1>13. SlotSize * (n - 1) \in Int /\ f[n] \in Int /\ g[n] \in Int /\ old \in Int /\ new \in Int
  BY <1>1, <1>5, FileAssumption
<1>14. FreeSpace(a, size) = FreeSpace(s, size) + old - new
  <2> DEFINE y == f[n]
             z == g[n]
             t == SlotSize * (n - 1)
  <2>1. /\ z = y - old + new /\ FreeSpace(a, size) = size - z - t
        /\ FreeSpace(s, size) = size - y - t
    BY <1>10, <1>11, <1>12
  <2>2. y \in Int /\ z \in Int /\ t \in Int /\ old \in Int /\ new \in Int
    BY <1>13
  <2> HIDE DEF old, new, y, z, t
  <2>3. size - z - t = size - y - t + old - new
    BY <2>1, <2>2
  <2> QED BY <2>1, <2>3
<1> QED BY <1>14 DEF a

(* Holes cut off the end give back their slots.                            *)
LEMMA FreeCut ==
  ASSUME NEW S, \A x \in S : x.len \in Nat, NEW s \in Seq(S), NEW m \in 1..Len(s),
         \A i \in m + 1..Len(s) : s[i].len = 0, NEW size \in Int
  PROVE  FreeSpace(SubSeq(s, 1, m), size) = FreeSpace(s, size) + SlotSize * (Len(s) - m)
<1> DEFINE n == Len(s)
           a == SubSeq(s, 1, m)
<1>1. n \in Nat /\ (\A i \in 1..n : s[i].len \in Nat) /\ m \in Nat /\ m >= 1 /\ m <= n
      /\ \A i \in m + 1..n : s[i].len = 0
  BY SeqFacts
<1>2. PICK f : Sums(s, n, f)
  BY <1>1, SumsExist
<1>3. Len(a) = m /\ \A i \in 1..m : a[i] = s[i]
  <2>1. 1 \in Int /\ m \in Int /\ \A i \in 1..m : s[i] \in S
    BY <1>1, SeqFacts
  <2>2. /\ Len(a) = (IF 1 <= m THEN m - 1 + 1 ELSE 0)
        /\ \A j \in 1..m - 1 + 1 : a[j] = s[1 + j - 1]
    BY <2>1, SubSeqProperties
  <2> HIDE DEF a
  <2> QED BY <1>1, <2>2
<1> DEFINE g == [i \in 0..m |-> f[i]]
<1> HIDE DEF a, n
<1>4. Sums(a, m, g)
  <2>1. \A i \in 0..m : i \in 0..n
    BY <1>1
  <2>2. g \in [0..m -> Nat] /\ g[0] = 0
    BY <1>1, <1>2, <2>1 DEF Sums
  <2>3. ASSUME NEW i \in 1..m PROVE g[i] = a[i].len + g[i - 1]
    <3>1. i \in 1..n /\ i \in 0..m /\ i - 1 \in 0..m
      BY <1>1
    <3> QED BY <1>2, <1>3, <3>1 DEF Sums
  <2> QED BY <2>2, <2>3 DEF Sums
<1>5. \A i \in m..n : f[i] = f[m]
  <2> DEFINE T == {i \in m..n : f[i] # f[m]}
  <2>1. SUFFICES ASSUME T # {} PROVE FALSE
    OBVIOUS
  <2>2. T \in SUBSET Nat
    <3>1. T \subseteq m..n
      OBVIOUS
    <3>2. m..n \subseteq Nat
      BY <1>1
    <3> QED BY <3>1, <3>2
  <2>3. PICK i \in T : \A j \in T : i <= j
    BY <2>1, <2>2, NatMin
  <2>4. i # m
    BY <2>3
  <2>5. i \in m + 1..n /\ i - 1 \in m..n /\ i - 1 \notin T /\ i \in 1..n /\ i - 1 \in 0..n
    BY <1>1, <2>3, <2>4
  <2>6. f[i] = s[i].len + f[i - 1] /\ s[i].len = 0 /\ f[i - 1] \in Nat
    BY <1>1, <1>2, <2>5 DEF Sums
  <2>7. f[i - 1] = f[m]
    BY <2>5
  <2>8. f[i] = f[i - 1]
    BY <2>6
  <2> QED BY <2>3, <2>7, <2>8
<1>6. g[m] = f[n] /\ f[n] \in Nat
  <2>1. n \in m..n /\ n \in 0..n /\ m \in 0..m
    BY <1>1
  <2> QED BY <1>2, <1>5, <2>1 DEF Sums
<1> HIDE DEF g
<1>7. FreeSpace(a, size) = size - g[m] - SlotSize * (m - 1)
  <2>1. Len(a) \in Nat /\ Sums(a, Len(a), g)
    BY <1>1, <1>3, <1>4
  <2>2. FreeSpace(a, size) = size - g[Len(a)] - SlotSize * (Len(a) - 1)
    BY <2>1, FreeSpaceIs
  <2> QED BY <1>3, <2>2
<1>8. FreeSpace(s, size) = size - f[n] - SlotSize * (n - 1)
  BY <1>1, <1>2, FreeSpaceIs DEF n
<1>9. /\ SlotSize * (n - m) = SlotSize * (n - 1) - SlotSize * (m - 1)
      /\ SlotSize * (n - m) \in Int /\ SlotSize * (n - 1) \in Int /\ SlotSize * (m - 1) \in Int
  BY <1>1, FileAssumption
<1>10. FreeSpace(a, size) = FreeSpace(s, size) + SlotSize * (n - m)
  BY <1>6, <1>7, <1>8, <1>9
<1> QED BY <1>10 DEF a, n

(***************************************************************************)
(* Pages: what a new slot and a deleted one do to them.                    *)
(***************************************************************************)
(* Slots of a page are records with a length, and the hole's is 0.         *)
SlotType(S, hole) == hole \in S /\ hole.len = 0 /\ \A x \in S : x.len \in Nat

(* Data pages and directory pages have such slots.                         *)
LEMMA DataSlots == SlotType(Records, NoRecord)
<1>1. \A v \in Values : LengthOf[v] \in Nat
  BY FileAssumption
<1> QED BY <1>1 DEF SlotType, Records, Record, NoRecord

LEMMA DirSlots == SlotType(DirEntries, NoEntry)
<1>1. EntrySize \in Nat
  BY FileAssumption
<1> QED BY <1>1 DEF SlotType, DirEntries, NoEntry, INVALID_PAGE

(* A page's slots are numbers from 1 on, the live ones are no holes.       *)
LEMMA PageFacts ==
  ASSUME NEW S, NEW hole, SlotType(S, hole), NEW s, Page(s, S, hole)
  PROVE  /\ s \in Seq(S) /\ Len(s) \in Nat /\ Len(s) >= 1 /\ DOMAIN s = 1..Len(s)
         /\ \A i \in 1..Len(s) : s[i] \in S /\ s[i].len \in Nat
         /\ Live(s) \in SUBSET Nat /\ IsFiniteSet(Live(s)) /\ Cardinality(Live(s)) \in Nat
<1>1. s \in Seq(S) /\ Len(s) >= 1
  BY DEF Page
<1>2. Len(s) \in Nat /\ DOMAIN s = 1..Len(s) /\ \A i \in 1..Len(s) : s[i] \in S
  BY <1>1, SeqFacts
<1>3. \A i \in 1..Len(s) : s[i].len \in Nat
  BY <1>2 DEF SlotType
<1>4. Live(s) \subseteq 1..Len(s)
  BY <1>2 DEF Live
<1>5. IsFiniteSet(1..Len(s))
  BY <1>2, FS_Interval
<1>6. IsFiniteSet(Live(s)) /\ Cardinality(Live(s)) \in Nat
  BY <1>4, <1>5, FS_Subset, FS_CardinalityType
<1>7. Live(s) \in SUBSET Nat
  <2>1. 1..Len(s) \subseteq Nat
    OBVIOUS
  <2> QED BY <1>4, <2>1
<1> QED BY <1>1, <1>2, <1>3, <1>6, <1>7

(* insertRecord of a page takes the first hole, or a slot behind the last. *)
Put(s, r, i, e) ==
  /\ i \in 1..Len(s) + 1 /\ i \notin Live(s) /\ Live(r) = Live(s) \cup {i}
  /\ Len(r) >= Len(s) /\ r[i] = e /\ \A j \in 1..Len(s) : j # i => r[j] = s[j]

LEMMA PutIs ==
  ASSUME NEW S, NEW hole, SlotType(S, hole), NEW s, Page(s, S, hole),
         NEW e \in S, e.len # 0, e # hole
  PROVE  LET i == EmptySlot(s)
         IN  /\ Page(With(s, i, e), S, hole) /\ Put(s, With(s, i, e), i, e)
             /\ IF i = Len(s) + 1 THEN With(s, i, e) = Append(s, e) /\ Live(s) = DOMAIN s
                ELSE With(s, i, e) = [s EXCEPT ![i] = e] /\ i \in 1..Len(s) /\ s[i].len = 0
                     /\ Live(s) # DOMAIN s
<1> DEFINE i == EmptySlot(s)
           r == With(s, i, e)
           n == Len(s)
<1>1. /\ s \in Seq(S) /\ n \in Nat /\ n >= 1 /\ DOMAIN s = 1..n
      /\ \A j \in 1..n : s[j] \in S
  BY PageFacts
<1>2. /\ \A j \in 1..n : s[j].len = 0 <=> s[j] = hole
      /\ n > 1 => s[n].len # 0
  BY <1>1 DEF Page
<1>3. CASE Live(s) = DOMAIN s
  <2>1. i = n + 1 /\ r = Append(s, e)
    <3>1. i = n + 1
      BY <1>3 DEF EmptySlot
    <3>2. n + 1 > n
      BY <1>1
    <3> HIDE DEF i, n
    <3> QED BY <3>1, <3>2 DEF With, n
  <2>2. /\ r \in Seq(S) /\ Len(r) = n + 1 /\ r[n + 1] = e
        /\ \A j \in 1..n : r[j] = s[j]
    <3>1. /\ Append(s, e) \in Seq(S) /\ Len(Append(s, e)) = Len(s) + 1
          /\ \A j \in 1..Len(s) : Append(s, e)[j] = s[j]
          /\ Append(s, e)[Len(s) + 1] = e
      BY <1>1, AppendProperties
    <3> HIDE DEF r
    <3> QED BY <2>1, <3>1
  <2>3. DOMAIN r = 1..n + 1
    BY <2>2, SeqFacts
  <2>4. Live(s) = 1..n
    BY <1>1, <1>3
  <2>5. \A j \in 1..n : s[j].len # 0
    BY <2>4 DEF Live
  <2> HIDE DEF r, i, n
  <2>6. Live(r) = 1..n + 1
    <3>1. \A j \in 1..n + 1 : r[j].len # 0
      <4>1. \A j \in 1..n + 1 : j \in 1..n \/ j = n + 1
        BY <1>1
      <4> QED BY <2>2, <2>5, <4>1
    <3> QED BY <2>3, <3>1 DEF Live
  <2>7. Put(s, r, i, e)
    <3>1. 1..n + 1 = (1..n) \cup {n + 1} /\ n + 1 \in 1..n + 1 /\ n + 1 \notin 1..n /\ n + 1 >= n
      BY <1>1
    <3>2. \A j \in 1..n : r[j] = s[j]
      BY <2>2
    <3> QED BY <2>1, <2>2, <2>4, <2>6, <3>1, <3>2 DEF Put, n
  <2>8. Page(r, S, hole)
    <3>1. Len(r) >= 1 /\ r[Len(r)].len # 0
      BY <1>1, <2>2
    <3>2. \A j \in 1..n + 1 : r[j].len = 0 <=> r[j] = hole
      <4>1. \A j \in 1..n + 1 : j \in 1..n \/ j = n + 1
        BY <1>1
      <4> QED BY <1>2, <2>2, <4>1
    <3> QED BY <2>2, <2>3, <3>1, <3>2 DEF Page
  <2> QED BY <1>3, <2>1, <2>7, <2>8 DEF r, i, n
<1>4. CASE Live(s) # DOMAIN s
  <2> DEFINE T == DOMAIN s \ Live(s)
  <2>1. T \subseteq 1..n /\ T # {}
    BY <1>1, <1>4 DEF Live
  <2>2. T \in SUBSET Nat
    <3>1. 1..n \subseteq Nat
      BY <1>1
    <3> QED BY <2>1, <3>1
  <2>3. i = First(T)
    BY <1>4 DEF EmptySlot
  <2> HIDE DEF i
  <2>4. i \in T
    <3> HIDE DEF T
    <3> QED BY <2>1, <2>2, <2>3, FirstIs
  <2>5. i \in 1..n /\ s[i].len = 0 /\ i \notin Live(s) /\ ~ (i > n) /\ i # n + 1
    <3>1. i \in 1..n
      BY <2>1, <2>4
    <3>2. i \notin Live(s)
      BY <2>4
    <3>3. s[i].len = 0
      BY <1>1, <3>1, <3>2 DEF Live
    <3>4. ~ (i > n) /\ i # n + 1
      BY <1>1, <3>1
    <3> QED BY <3>1, <3>2, <3>3, <3>4
  <2>6. r = [s EXCEPT ![i] = e]
    BY <2>5 DEF With
  <2>7. r \in Seq(S) /\ Len(r) = n /\ \A j \in 1..n : r[j] = IF j = i THEN e ELSE s[j]
    <3> HIDE DEF r
    <3> QED BY <1>1, <2>5, <2>6, ExceptSeq
  <2>8. DOMAIN r = 1..n
    BY <2>7, SeqFacts
  <2> HIDE DEF r, n
  <2>9. Live(r) = Live(s) \cup {i}
    <3>1. \A j \in 1..n : r[j].len # 0 <=> j = i \/ s[j].len # 0
      BY <2>7
    <3> QED BY <1>1, <2>5, <2>8, <3>1 DEF Live
  <2>10. Put(s, r, i, e)
    <3>1. i \in 1..n + 1 /\ Len(r) >= n
      BY <1>1, <2>5, <2>7
    <3>2. r[i] = e /\ \A j \in 1..n : j # i => r[j] = s[j]
      BY <2>5, <2>7
    <3> QED BY <2>5, <2>9, <3>1, <3>2 DEF Put, n
  <2>11. Page(r, S, hole)
    <3>1. \A j \in 1..n : r[j].len = 0 <=> r[j] = hole
      BY <1>2, <2>7
    <3>2. Len(r) >= 1 /\ (Len(r) > 1 => r[Len(r)].len # 0)
      <4>1. n \in 1..n
        BY <1>1
      <4> QED BY <1>1, <1>2, <2>7, <4>1
    <3> QED BY <2>7, <2>8, <3>1, <3>2 DEF Page
  <2> QED BY <1>4, <2>5, <2>6, <2>10, <2>11 DEF r, i, n
<1> QED BY <1>3, <1>4

(* A page that has room for a record has room for the slot as well.        *)
LEMMA PutFits ==
  ASSUME NEW S, NEW hole, SlotType(S, hole), NEW s, Page(s, S, hole),
         NEW e \in S, e.len # 0, e # hole, NEW size \in Int, available_space(s, size) >= e.len
  PROVE  FreeSpace(With(s, EmptySlot(s), e), size) >= 0
<1> DEFINE i == EmptySlot(s)
           r == With(s, i, e)
           free == FreeSpace(s, size)
           freer == FreeSpace(r, size)
<1>1. IF i = Len(s) + 1 THEN r = Append(s, e) /\ Live(s) = DOMAIN s
      ELSE r = [s EXCEPT ![i] = e] /\ i \in 1..Len(s) /\ s[i].len = 0 /\ Live(s) # DOMAIN s
  BY PutIs
<1>2. s \in Seq(S) /\ \A x \in S : x.len \in Nat
  BY PageFacts DEF SlotType
<1>3. free \in Int /\ e.len \in Nat /\ e.len >= 1 /\ SlotSize \in Nat
  <2>1. free \in Int
    BY <1>2, FreeSpaceType
  <2> HIDE DEF free
  <2> QED BY <1>2, <2>1, FileAssumption
<1> HIDE DEF i, r
<1>4. CASE i = Len(s) + 1
  <2>1. freer = free - e.len - SlotSize
    BY <1>1, <1>2, <1>4, FreeAppend
  <2>2. Live(s) = DOMAIN s
    BY <1>1, <1>4
  <2>3. available_space(s, size) = IF free < SlotSize THEN 0 ELSE free - SlotSize
    <3>1. free < SlotSize \/ free >= SlotSize
      <4> HIDE DEF free
      <4> QED BY <1>3
    <3>2. CASE free < SlotSize
      <4>1. ~ (free >= SlotSize)
        <5> HIDE DEF free
        <5> QED BY <1>3, <3>2
      <4> QED BY <2>2, <3>2, <4>1 DEF available_space
    <3>3. CASE free >= SlotSize
      <4>1. ~ (free < SlotSize)
        <5> HIDE DEF free
        <5> QED BY <1>3, <3>3
      <4> QED BY <2>2, <3>3, <4>1 DEF available_space
    <3> QED BY <3>1, <3>2, <3>3
  <2> HIDE DEF free, freer
  <2> QED BY <1>3, <2>1, <2>3 DEF freer, r, i
<1>5. CASE i # Len(s) + 1
  <2>1. freer = free + s[i].len - e.len
    BY <1>1, <1>2, <1>5, FreeChanged
  <2>2. available_space(s, size) = free
    BY <1>1, <1>5 DEF available_space
  <2>3. s[i].len = 0
    BY <1>1, <1>5
  <2> HIDE DEF free, freer
  <2> QED BY <1>3, <2>1, <2>2, <2>3 DEF freer, r, i
<1> QED BY <1>4, <1>5

(* A deletion leaves the other slots where they are.                       *)
Cut(s, r, i) ==
  /\ Live(r) = Live(s) \ {i} /\ Len(r) <= Len(s) /\ \A j \in 1..Len(r) : j # i => r[j] = s[j]

LEMMA CutIs ==
  ASSUME NEW S, NEW hole, SlotType(S, hole), NEW s, Page(s, S, hole), NEW i \in Live(s)
  PROVE  /\ Page(Without(s, i, hole), S, hole) /\ Cut(s, Without(s, i, hole), i)
         /\ \E m \in 1..Len(s) : LET holed == [s EXCEPT ![i] = hole]
                                  IN  /\ \A j \in m + 1..Len(s) : holed[j].len = 0
                                      /\ Without(s, i, hole) = SubSeq(holed, 1, m)
<1> DEFINE n == Len(s)
           holed == [s EXCEPT ![i] = hole]
           Ends(m) == /\ \A j \in m + 1..n : holed[j].len = 0
                      /\ m = 1 \/ holed[m].len # 0
           last == CHOOSE m \in 1..n : Ends(m)
           r == SubSeq(holed, 1, last)
<1>1. /\ s \in Seq(S) /\ n \in Nat /\ n >= 1 /\ DOMAIN s = 1..n
      /\ \A j \in 1..n : s[j] \in S
  BY PageFacts
<1>2. i \in 1..n /\ s[i].len # 0 /\ hole \in S /\ hole.len = 0
  BY <1>1 DEF Live, SlotType
<1>3. holed \in Seq(S) /\ Len(holed) = n /\ \A j \in 1..n : holed[j] = IF j = i THEN hole ELSE s[j]
  <2> HIDE DEF n
  <2> QED BY <1>1, <1>2, ExceptSeq DEF n
<1> HIDE DEF holed
<1>4. \E m \in 1..n : Ends(m)
  <2> DEFINE T == {m \in 1..n : \A j \in m + 1..n : holed[j].len = 0}
  <2>1. T \in SUBSET Nat
    <3>1. T \subseteq 1..n /\ 1..n \subseteq Nat
      BY <1>1
    <3> QED BY <3>1
  <2>2. n \in T
    BY <1>1
  <2>3. PICK m \in T : \A k \in T : m <= k
    <3> HIDE DEF T
    <3> QED BY <2>1, <2>2, NatMin
  <2>4. m = 1 \/ holed[m].len # 0
    <3>1. SUFFICES ASSUME m # 1, holed[m].len = 0 PROVE FALSE
      OBVIOUS
    <3>2. m - 1 \in 1..n /\ (m - 1) + 1 = m /\ ~ (m <= m - 1)
      BY <1>1, <2>3, <3>1
    <3>3. \A j \in m..n : j = m \/ j \in m + 1..n
      BY <1>1, <2>3
    <3>4. \A j \in m..n : holed[j].len = 0
      BY <2>3, <3>1, <3>3
    <3>5. m - 1 \in T
      BY <3>2, <3>4
    <3> QED BY <2>3, <3>2, <3>5
  <2> QED BY <2>3, <2>4
<1>5. last \in 1..n /\ Ends(last)
  BY <1>4
<1>6. Without(s, i, hole) = r
  BY DEF Without, holed
<1> HIDE DEF last
<1>7. r \in Seq(S) /\ Len(r) = last /\ \A j \in 1..last : r[j] = holed[j]
  <2>1. 1 \in Int /\ last \in Int /\ 1 <= last
    BY <1>5
  <2>2. \A j \in 1..last : j \in 1..n
    BY <1>1, <1>5
  <2>3. \A j \in 1..last : holed[j] \in S
    BY <1>1, <1>2, <1>3, <2>2
  <2>4. /\ r \in Seq(S) /\ Len(r) = (IF 1 <= last THEN last - 1 + 1 ELSE 0)
        /\ \A j \in 1..last - 1 + 1 : r[j] = holed[1 + j - 1]
    BY <2>1, <2>3, SubSeqProperties
  <2> HIDE DEF r
  <2>5. Len(r) = last
    BY <2>1, <2>4
  <2>6. ASSUME NEW j \in 1..last PROVE r[j] = holed[j]
    <3>1. j \in 1..last - 1 + 1 /\ 1 + j - 1 = j
      BY <2>1
    <3> QED BY <2>4, <3>1
  <2> QED BY <2>4, <2>5, <2>6
<1>8. DOMAIN r = 1..last
  BY <1>7, SeqFacts
<1>9. \A j \in 1..last : j \in 1..n
  BY <1>1, <1>5
<1>10. \A j \in 1..n : j \in 1..last \/ j \in last + 1..n
  BY <1>1, <1>5
<1>11. last >= 1 /\ last <= n /\ (last > 1 => holed[last].len # 0) /\ last \in 1..last
  BY <1>5
<1> HIDE DEF r
<1>12. Page(r, S, hole)
  <2>1. \A j \in 1..n : s[j].len = 0 <=> s[j] = hole
    BY <1>1 DEF Page
  <2>2. \A j \in 1..last : r[j].len = 0 <=> r[j] = hole
    BY <1>2, <1>3, <1>7, <1>9, <2>1
  <2>3. Len(r) >= 1 /\ (Len(r) > 1 => r[Len(r)].len # 0)
    BY <1>7, <1>11
  <2> QED BY <1>7, <1>8, <2>2, <2>3 DEF Page
<1>13. Cut(s, r, i)
  <2>1. Live(r) = {j \in 1..last : holed[j].len # 0}
    BY <1>7, <1>8 DEF Live
  <2>2. Live(s) \ {i} = {j \in 1..n : holed[j].len # 0}
    BY <1>1, <1>2, <1>3 DEF Live
  <2>3. \A j \in 1..n : holed[j].len # 0 => j \in 1..last
    BY <1>5, <1>10
  <2>4. Live(r) = Live(s) \ {i}
    BY <1>9, <2>1, <2>2, <2>3
  <2>5. \A j \in 1..last : j # i => r[j] = s[j]
    BY <1>3, <1>7, <1>9
  <2> QED BY <1>7, <1>11, <2>4, <2>5 DEF Cut
<1> QED BY <1>5, <1>6, <1>12, <1>13 DEF r, holed

(* It never makes less room.                                               *)
LEMMA CutFrees ==
  ASSUME NEW S, NEW hole, SlotType(S, hole), NEW s, Page(s, S, hole), NEW i \in Live(s),
         NEW size \in Int, FreeSpace(s, size) >= 0
  PROVE  /\ FreeSpace(Without(s, i, hole), size) >= 0
         /\ available_space(s, size) <= available_space(Without(s, i, hole), size)
         /\ available_space(s, size) \in Int /\ available_space(Without(s, i, hole), size) \in Int
<1> DEFINE n == Len(s)
           r == Without(s, i, hole)
           free == FreeSpace(s, size)
           freer == FreeSpace(r, size)
           holed == [s EXCEPT ![i] = hole]
<1>1. /\ s \in Seq(S) /\ n \in Nat /\ DOMAIN s = 1..n /\ i \in 1..n /\ s[i].len \in Nat
      /\ hole \in S /\ hole.len = 0 /\ \A x \in S : x.len \in Nat
  BY PageFacts DEF Live, SlotType
<1>2. Page(r, S, hole) /\ Cut(s, r, i)
  BY CutIs
<1>3. PICK m \in 1..n : (\A j \in m + 1..n : holed[j].len = 0) /\ r = SubSeq(holed, 1, m)
  BY CutIs
<1>4. holed \in Seq(S) /\ Len(holed) = n
  BY <1>1, ExceptSeq
<1>5. FreeSpace(holed, size) = free + s[i].len - hole.len
  BY <1>1, FreeChanged
<1> HIDE DEF holed, r
<1>6. freer = FreeSpace(holed, size) + SlotSize * (n - m)
  BY <1>1, <1>3, <1>4, FreeCut
<1>7. free \in Int /\ freer \in Int /\ free >= 0
  <2>1. r \in Seq(S)
    BY <1>2 DEF Page
  <2> QED BY <1>1, <2>1, FreeSpaceType
<1>8. SlotSize \in Nat \ {0} /\ n - m \in Nat /\ SlotSize * (n - m) \in Nat
  BY <1>1, <1>3, FileAssumption
<1> HIDE DEF free, freer
<1>9. freer >= free /\ freer >= 0 /\ freer >= free + SlotSize * (n - m)
  <2> DEFINE h == FreeSpace(holed, size)
             l == s[i].len
             t == SlotSize * (n - m)
  <2>1. h = free + l - 0 /\ freer = h + t /\ l \in Nat /\ t \in Nat
    BY <1>1, <1>5, <1>6, <1>8
  <2> HIDE DEF h, l, t
  <2>2. freer >= free /\ freer >= 0 /\ freer >= free + t
    BY <1>7, <2>1
  <2> QED BY <2>2 DEF t
<1>10. \/ Live(s) # DOMAIN s /\ available_space(s, size) = free
       \/ Live(s) = DOMAIN s /\ free < SlotSize /\ available_space(s, size) = 0
       \/ Live(s) = DOMAIN s /\ free >= SlotSize /\ available_space(s, size) = free - SlotSize
  <2>1. CASE Live(s) # DOMAIN s
    BY <2>1 DEF available_space, free
  <2>2. CASE Live(s) = DOMAIN s /\ free < SlotSize
    <3>1. ~ (free >= SlotSize)
      BY <1>7, <1>8, <2>2
    <3> QED BY <2>2, <3>1 DEF available_space, free
  <2>3. CASE Live(s) = DOMAIN s /\ free >= SlotSize
    <3>1. ~ (free < SlotSize)
      BY <1>7, <1>8, <2>3
    <3> QED BY <2>3, <3>1 DEF available_space, free
  <2>4. free < SlotSize \/ free >= SlotSize
    BY <1>7, <1>8
  <2> QED BY <2>1, <2>2, <2>3, <2>4
<1>11. \/ Live(r) # DOMAIN r /\ available_space(r, size) = freer
       \/ Live(r) = DOMAIN r /\ freer < SlotSize /\ available_space(r, size) = 0
       \/ Live(r) = DOMAIN r /\ freer >= SlotSize /\ available_space(r, size) = freer - SlotSize
  <2>1. CASE Live(r) # DOMAIN r
    BY <2>1 DEF available_space, freer
  <2>2. CASE Live(r) = DOMAIN r /\ freer < SlotSize
    <3>1. ~ (freer >= SlotSize)
      BY <1>7, <1>8, <2>2
    <3> QED BY <2>2, <3>1 DEF available_space, freer
  <2>3. CASE Live(r) = DOMAIN r /\ freer >= SlotSize
    <3>1. ~ (freer < SlotSize)
      BY <1>7, <1>8, <2>3
    <3> QED BY <2>3, <3>1 DEF available_space, freer
  <2>4. freer < SlotSize \/ freer >= SlotSize
    BY <1>7, <1>8
  <2> QED BY <2>1, <2>2, <2>3, <2>4
<1>12. Live(r) = DOMAIN r => freer >= free + SlotSize
  <2> SUFFICES ASSUME Live(r) = DOMAIN r PROVE freer >= free + SlotSize
    OBVIOUS
  <2>1. Len(r) = m
    <3>1. 1 \in Int /\ m \in Int /\ 1 <= m
      BY <1>3
    <3>2. \A j \in 1..m : j \in 1..n
      BY <1>1, <1>3
    <3>3. \A j \in 1..m : holed[j] \in S
      BY <1>4, <3>2, ElementOfSeq
    <3>4. Len(r) = (IF 1 <= m THEN m - 1 + 1 ELSE 0)
      BY <1>3, <3>1, <3>3, SubSeqProperties
    <3> QED BY <3>1, <3>4
  <2>2. DOMAIN r = 1..m
    BY <1>2, <2>1, SeqFacts DEF Page
  <2>3. i \notin 1..m
    BY <1>2, <2>2 DEF Cut
  <2>4. n - m >= 1
    BY <1>1, <1>3, <2>3
  <2>5. SlotSize * (n - m) >= SlotSize
    BY <1>8, <2>4
  <2> DEFINE t == SlotSize * (n - m)
  <2>6. t \in Nat /\ t >= SlotSize /\ freer >= free + t
    BY <1>8, <1>9, <2>5
  <2> HIDE DEF t
  <2> QED BY <1>7, <1>8, <2>6
<1>13. /\ available_space(s, size) \in Int /\ available_space(r, size) \in Int
       /\ available_space(s, size) <= available_space(r, size)
  <2> DEFINE a == available_space(s, size)
             b == available_space(r, size)
  <2>1. a = free \/ (free < SlotSize /\ a = 0) \/ (free >= SlotSize /\ a = free - SlotSize)
    BY <1>10
  <2>2. \/ b = freer
        \/ freer >= free + SlotSize /\ freer < SlotSize /\ b = 0
        \/ freer >= free + SlotSize /\ freer >= SlotSize /\ b = freer - SlotSize
    BY <1>11, <1>12
  <2> HIDE DEF a, b
  <2>3. a \in Int /\ b \in Int /\ a <= free
    BY <1>7, <1>8, <2>1, <2>2
  <2>4. b >= free
    BY <1>7, <1>8, <1>9, <2>2
  <2> QED BY <1>7, <2>3, <2>4 DEF a, b
<1> QED BY <1>9, <1>13 DEF freer, r

(***************************************************************************)
(* The list of directory pages.                                            *)
(***************************************************************************)
(* The pages of a list, by their positions.                                *)
LEMMA ListFacts ==
  ASSUME NEW c, ListOfPages(c)
  PROVE  /\ Len(c) \in Nat /\ Len(c) >= 1 /\ c \in Seq(DOMAIN dir) /\ DOMAIN c = 1..Len(c)
         /\ c[1] = firstDirPageId
         /\ \A k \in 1..Len(c) : /\ c[k] \in DOMAIN dir
                                 /\ dir[c[k]].next = IF k = Len(c) THEN INVALID_PAGE ELSE c[k + 1]
         /\ \A p \in DOMAIN dir : \E k \in 1..Len(c) : c[k] = p
         /\ \A i, j \in 1..Len(c) : c[i] = c[j] => i = j
         /\ Len(c) > 1 => \A d \in DOMAIN dir : Entries(d) # {}
<1>1. c \in Seq(DOMAIN dir)
  BY DEF ListOfPages
<1>2. Len(c) \in Nat /\ DOMAIN c = 1..Len(c) /\ \A k \in 1..Len(c) : c[k] \in DOMAIN dir
  BY <1>1, SeqFacts
<1>3. \A p \in DOMAIN dir : \E k \in 1..Len(c) : c[k] = p
  BY <1>2 DEF ListOfPages, ToSet
<1> QED BY <1>1, <1>2, <1>3 DEF ListOfPages

(* Chain finds that list.                                                  *)
ChainIsList == \A c : ListOfPages(c) /\ DOMAIN dir \subseteq Pages => Chain = c

LEMMA ChainIs == ChainIsList
<1> SUFFICES ASSUME NEW c, ListOfPages(c), DOMAIN dir \subseteq Pages PROVE Chain = c
  BY DEF ChainIsList
<1> DEFINE N == Len(c)
           rest(k) == SubSeq(c, k, N)
           at(p) == CHOOSE k \in 1..N : c[k] = p
           body(f) == [p \in 0..MaxPages |-> IF p \in DOMAIN dir THEN << p >> \o f[dir[p].next] ELSE << >>]
           from == CHOOSE f : f = body(f)
           tails == [p \in 0..MaxPages |-> IF p \in DOMAIN dir THEN rest(at(p)) ELSE << >>]
<1>1. /\ N \in Nat /\ N >= 1 /\ c \in Seq(DOMAIN dir) /\ c[1] = firstDirPageId
      /\ \A k \in 1..N : /\ c[k] \in DOMAIN dir
                         /\ dir[c[k]].next = IF k = N THEN INVALID_PAGE ELSE c[k + 1]
      /\ \A p \in DOMAIN dir : \E k \in 1..N : c[k] = p
      /\ \A i, j \in 1..N : c[i] = c[j] => i = j
  BY ListFacts
<1>2. \A p \in DOMAIN dir : p \in 0..MaxPages
  BY FileAssumption DEF Pages
<1>3. 0 \in 0..MaxPages /\ 0 \notin DOMAIN dir
  BY FileAssumption DEF Pages
<1>4. \A k \in 1..N : rest(k) = << c[k] >> \o (IF k = N THEN << >> ELSE rest(k + 1))
  <2> SUFFICES ASSUME NEW k \in 1..N
               PROVE  rest(k) = << c[k] >> \o (IF k = N THEN << >> ELSE rest(k + 1))
    OBVIOUS
  <2>1. N \in k..N /\ N \in 1..N
    BY <1>1
  <2>2. SubSeq(c, k, N) = << c[k] >> \o SubSeq(c, k + 1, N)
    <3> DEFINE S == DOMAIN dir
    <3>1. c \in Seq(S)
      BY <1>1
    <3> HIDE DEF S
    <3> QED BY <2>1, <3>1, SubSeqRecursiveFirst
  <2>3. k = N => SubSeq(c, k + 1, N) = << >>
    <3>1. k = N => N < k + 1 /\ k + 1 \in Int /\ N \in Int
      BY <1>1
    <3> QED BY <3>1, SubSeqEmpty
  <2> QED BY <2>2, <2>3
<1>5. \A k \in 1..N : at(c[k]) = k
  <2> SUFFICES ASSUME NEW k \in 1..N PROVE at(c[k]) = k
    OBVIOUS
  <2>1. at(c[k]) \in 1..N /\ c[at(c[k])] = c[k]
    OBVIOUS
  <2> HIDE DEF at
  <2> QED BY <1>1, <2>1
<1> HIDE DEF rest, at
<1>6. /\ \A k \in 1..N : tails[c[k]] = rest(k)
      /\ tails[0] = << >>
  BY <1>1, <1>2, <1>3, <1>5
<1>7. tails = body(tails)
  <2>1. \A p \in 0..MaxPages : p \notin DOMAIN dir => tails[p] = << >>
    OBVIOUS
  <2>2. tails = [p \in 0..MaxPages |-> tails[p]]
    OBVIOUS
  <2> HIDE DEF tails
  <2>3. ASSUME NEW p \in 0..MaxPages
        PROVE  tails[p] = IF p \in DOMAIN dir THEN << p >> \o tails[dir[p].next] ELSE << >>
    <3>1. CASE p \in DOMAIN dir
      <4>1. PICK k \in 1..N : c[k] = p
        BY <1>1, <3>1
      <4>2. tails[p] = << p >> \o (IF k = N THEN << >> ELSE rest(k + 1))
        BY <1>4, <1>6, <4>1
      <4>3. CASE k = N
        <5>1. dir[p].next = 0
          BY <1>1, <4>1, <4>3 DEF INVALID_PAGE
        <5> QED BY <1>6, <3>1, <4>2, <4>3, <5>1
      <4>4. CASE k # N
        <5>1. dir[p].next = c[k + 1]
          BY <1>1, <4>1, <4>4
        <5>2. k + 1 \in 1..N
          <6>1. N \in Nat
            BY <1>1
          <6> HIDE DEF N
          <6> QED BY <4>4, <6>1
        <5> QED BY <1>6, <3>1, <4>2, <4>4, <5>1, <5>2
      <4> QED BY <4>3, <4>4
    <3>2. CASE p \notin DOMAIN dir
      BY <2>1, <3>2
    <3> QED BY <3>1, <3>2
  <2> QED BY <2>2, <2>3
<1> HIDE DEF tails
<1>8. from = body(from)
  BY <1>7
<1> HIDE DEF from
<1>9. \A p \in 0..MaxPages : from[p] = IF p \in DOMAIN dir THEN << p >> \o from[dir[p].next] ELSE << >>
  BY <1>8
<1>10. \A k \in 1..N : from[c[k]] = rest(k)
  <2> DEFINE T == {m \in 0..N - 1 : from[c[N - m]] # rest(N - m)}
  <2>1. T \in SUBSET Nat
    <3>1. T \subseteq 0..N - 1
      OBVIOUS
    <3>2. 0..N - 1 \subseteq Nat
      BY <1>1
    <3> QED BY <3>1, <3>2
  <2>2. T = {}
    <3> SUFFICES ASSUME T # {} PROVE FALSE
      OBVIOUS
    <3>1. PICK m \in T : \A j \in T : m <= j
      <4> HIDE DEF T
      <4> QED BY <2>1, NatMin
    <3>2. PICK k \in 1..N : k = N - m
      BY <1>1, <3>1
    <3>3. from[c[k]] # rest(k)
      BY <3>1, <3>2
    <3>4. from[c[k]] = << c[k] >> \o from[dir[c[k]].next]
      BY <1>1, <1>2, <1>9
    <3>5. CASE k = N
      <4>1. dir[c[k]].next = 0 /\ from[0] = << >>
        BY <1>1, <1>3, <1>9, <3>5 DEF INVALID_PAGE
      <4> QED BY <1>4, <3>3, <3>4, <3>5, <4>1
    <3>6. CASE k # N
      <4>1. dir[c[k]].next = c[k + 1] /\ k + 1 \in 1..N
        <5>1. dir[c[k]].next = c[k + 1]
          BY <1>1, <3>6
        <5>2. N \in Nat
          BY <1>1
        <5> HIDE DEF N
        <5> QED BY <3>6, <5>1, <5>2
      <4>2. m - 1 \in 0..N - 1 /\ k + 1 = N - (m - 1) /\ ~ (m <= m - 1)
        <5>1. N \in Nat /\ m \in 0..N - 1
          BY <1>1, <3>1
        <5> HIDE DEF N, T
        <5> QED BY <3>2, <3>6, <5>1
      <4>3. m - 1 \notin T
        BY <3>1, <4>2
      <4>4. from[c[k + 1]] = rest(k + 1)
        BY <4>2, <4>3
      <4> QED BY <1>4, <3>3, <3>4, <3>6, <4>1, <4>4
    <3> QED BY <3>5, <3>6
  <2>3. ASSUME NEW k \in 1..N PROVE from[c[k]] = rest(k)
    <3>1. PICK m \in 0..N - 1 : k = N - m
      <4>1. N - k \in 0..N - 1 /\ k = N - (N - k)
        BY <1>1
      <4> QED BY <4>1
    <3>2. m \notin T
      BY <2>2
    <3> QED BY <3>1, <3>2
  <2> QED BY <2>3
<1>11. Chain = from[firstDirPageId]
  BY DEF Chain, from
<1>12. rest(1) = c
  <2> DEFINE S == DOMAIN dir
  <2>1. c \in Seq(S)
    BY <1>1
  <2> HIDE DEF S
  <2>2. SubSeq(c, 1, Len(c)) = c
    BY <2>1, SubSeqFull
  <2> QED BY <2>2 DEF rest
<1>13. 1 \in 1..N
  BY <1>1
<1> QED BY <1>1, <1>10, <1>11, <1>12, <1>13

(***************************************************************************)
(* The parts of the invariant, over the list c of the directory pages.     *)
(***************************************************************************)
FileKept(c) == ListOfPages(c) /\ PagesKept /\ EntriesAreTrue /\ RecordsAreContents
ScanKept(c) == ScanStands /\ (scan.state = "on" => \A r \in staying \ seen : Ahead(c, r))
Kept(c)     == FileKept(c) /\ ScanKept(c)

(* The pages are numbered from 1 on, and no page is of both kinds.         *)
LEMMA PagesAre ==
  ASSUME PagesKept
  PROVE  /\ NewPage \in Nat /\ NewPage - 1 \in 1..MaxPages /\ DOMAIN dir \cup DOMAIN data = 1..NewPage - 1
         /\ DOMAIN dir \subseteq Pages /\ DOMAIN data \subseteq Pages
         /\ IsFiniteSet(DOMAIN dir) /\ IsFiniteSet(DOMAIN data)
         /\ Cardinality(DOMAIN dir) \in Nat /\ Cardinality(DOMAIN data) \in Nat
<1>1. NewPage - 1 \in 1..MaxPages /\ DOMAIN dir \cup DOMAIN data = 1..NewPage - 1
  BY DEF PagesKept
<1>2. 1..NewPage - 1 \subseteq 1..MaxPages
  BY <1>1, FileAssumption
<1>3. DOMAIN dir \subseteq Pages /\ DOMAIN data \subseteq Pages
  BY <1>1, <1>2 DEF Pages
<1>4. IsFiniteSet(Pages)
  BY FileAssumption, FS_Interval DEF Pages
<1>5. /\ IsFiniteSet(DOMAIN dir) /\ IsFiniteSet(DOMAIN data)
      /\ Cardinality(DOMAIN dir) \in Nat /\ Cardinality(DOMAIN data) \in Nat
  BY <1>3, <1>4, FS_Subset, FS_CardinalityType
<1>6. NewPage \in Nat
  BY <1>5 DEF NewPage
<1> QED BY <1>1, <1>3, <1>5, <1>6

(* From the parts follow the types.                                        *)
TypesFollow == \A c : Kept(c) => TypeOK

LEMMA KeptTypes == TypesFollow
<1> SUFFICES ASSUME NEW c, Kept(c) PROVE TypeOK
  BY DEF TypesFollow
<1>1. ListOfPages(c) /\ PagesKept /\ ScanStands
  BY DEF Kept, FileKept, ScanKept
<1>2. DOMAIN dir \subseteq Pages /\ DOMAIN data \subseteq Pages
  BY <1>1, PagesAre
<1>3. \A d \in DOMAIN dir : dir[d].next \in Pages \cup {INVALID_PAGE}
  <2> SUFFICES ASSUME NEW d \in DOMAIN dir PROVE dir[d].next \in Pages \cup {INVALID_PAGE}
    OBVIOUS
  <2> DEFINE n == Len(c)
  <2>1. PICK k \in 1..n : c[k] = d
    BY <1>1, ListFacts
  <2>2. CASE k = n
    BY <1>1, <2>1, <2>2, ListFacts
  <2>3. CASE k # n
    <3>1. n \in Nat /\ (\A j \in 1..n : c[j] \in DOMAIN dir) /\ dir[d].next = c[k + 1]
      BY <1>1, <2>1, <2>3, ListFacts
    <3> HIDE DEF n
    <3>2. k + 1 \in 1..n
      BY <2>3, <3>1
    <3> QED BY <1>2, <3>1, <3>2
  <2> QED BY <2>2, <2>3
<1>4. frame \in [DOMAIN frame -> {"clean", "dirty", "unsaved"}] /\ DOMAIN frame \subseteq Pages
  BY <1>1, <1>2 DEF PagesKept
<1>5. \A p \in DOMAIN data : /\ data[p] # << >> /\ FreeSpace(data[p], DataSize) >= 0
                             /\ Len(data[p]) > 1 => data[p][Len(data[p])].len # 0
  <2> SUFFICES ASSUME NEW p \in DOMAIN data
               PROVE  /\ data[p] # << >> /\ FreeSpace(data[p], DataSize) >= 0
                      /\ Len(data[p]) > 1 => data[p][Len(data[p])].len # 0
    OBVIOUS
  <2>1. Page(data[p], Records, NoRecord) /\ FreeSpace(data[p], DataSize) >= 0
    BY <1>1 DEF PagesKept
  <2>2. Len(data[p]) >= 1 /\ (Len(data[p]) > 1 => data[p][Len(data[p])].len # 0)
    BY <2>1 DEF Page
  <2>3. data[p] # << >>
    <3>1. Len(<< >>) = 0
      OBVIOUS
    <3>2. ~ (0 >= 1)
      OBVIOUS
    <3> QED BY <2>2, <3>1, <3>2
  <2> QED BY <2>1, <2>2, <2>3
<1>6. scan.state \in {"closed", "on", "done"}
  BY <1>1 DEF ScanStands
<1> QED BY <1>2, <1>3, <1>4, <1>5, <1>6 DEF TypeOK

(* The invariant says this of the list Chain finds.                        *)
LEMMA InvIs == IInv <=> TypeOK /\ ScanMissesNothing /\ (harm = "none" => Kept(Chain))
BY DEF IInv, Kept, FileKept, ScanKept, ScanIsAhead

(* The parts after a step, over some list, make the invariant.             *)
LEMMA InvNext ==
  ASSUME NEW c, Kept(c)', ScanMissesNothing'
  PROVE  IInv'
<1>1. (IInv <=> TypeOK /\ ScanMissesNothing /\ (harm = "none" => Kept(Chain)))'
  BY InvIs, PTL
<1>2. TypesFollow' /\ ChainIsList'
  BY KeptTypes, ChainIs, PTL
<1>3. TypeOK'
  BY <1>2 DEF TypesFollow
<1>4. Chain' = c
  <2>1. ListOfPages(c)' /\ (DOMAIN dir \subseteq Pages)'
    BY <1>3 DEF Kept, FileKept, TypeOK
  <2> QED BY <1>2, <2>1 DEF ChainIsList
<1>5. Kept(Chain)'
  <2>1. Kept(c)'
    OBVIOUS
  <2> QED BY <1>4, <2>1 DEF Kept, FileKept, ScanKept, ListOfPages, Ahead
<1> QED BY <1>1, <1>3, <1>5

(***************************************************************************)
(* What changes in the file leave alone.                                   *)
(***************************************************************************)
(* One directory page, or one data page, gets other slots.                 *)
SameDirs(d, slots) ==
  /\ DOMAIN dir' = DOMAIN dir
  /\ \A f \in DOMAIN dir : dir'[f] = IF f = d THEN [slots |-> slots, next |-> dir[d].next] ELSE dir[f]
SamePages(p, slots) ==
  /\ DOMAIN data' = DOMAIN data
  /\ \A q \in DOMAIN data : data'[q] = IF q = p THEN slots ELSE data[q]

(* The list of directory pages stays if only slots change.                 *)
LEMMA ListStays ==
  ASSUME NEW c, ListOfPages(c), NEW d \in DOMAIN dir, NEW slots, SameDirs(d, slots),
         Len(c) > 1 => Live(slots) # {}
  PROVE  ListOfPages(c)'
<1>1. DOMAIN dir' = DOMAIN dir /\ \A f \in DOMAIN dir : dir'[f].next = dir[f].next
  BY DEF SameDirs
<1>2. ASSUME Len(c) > 1, NEW f \in DOMAIN dir PROVE Live(dir'[f].slots) # {}
  <2>1. Live(dir[f].slots) # {}
    BY <1>2 DEF ListOfPages, Entries
  <2> QED BY <1>2, <2>1 DEF SameDirs
<1>3. \A k \in DOMAIN c : c[k] \in DOMAIN dir
  BY ListFacts
<1> QED BY <1>1, <1>2, <1>3 DEF ListOfPages, Entries

(* So do the pages, if the new slots make pages.                           *)
LEMMA PagesStay ==
  ASSUME PagesKept, NEW d \in DOMAIN dir, NEW s, SameDirs(d, s), Page(s, DirEntries, NoEntry),
         NEW p \in DOMAIN data, NEW r, SamePages(p, r), Page(r, Records, NoRecord),
         FreeSpace(r, DataSize) >= 0,
         frame' \in [DOMAIN frame -> {"clean", "dirty", "unsaved"}]
  PROVE  PagesKept'
<1>1. DOMAIN dir' = DOMAIN dir /\ DOMAIN data' = DOMAIN data
  BY DEF SameDirs, SamePages
<1>2. NewPage' = NewPage
  BY <1>1 DEF NewPage
<1>3. DOMAIN frame = DOMAIN dir \cup DOMAIN data
  BY DEF PagesKept
<1>4. \A f \in DOMAIN dir : /\ dir'[f] = [slots |-> dir'[f].slots, next |-> dir'[f].next]
                            /\ Page(dir'[f].slots, DirEntries, NoEntry)
  BY DEF PagesKept, SameDirs
<1>5. \A q \in DOMAIN data : Page(data'[q], Records, NoRecord) /\ FreeSpace(data'[q], DataSize) >= 0
  BY DEF PagesKept, SamePages
<1>6. frame' \in [DOMAIN dir' \cup DOMAIN data' -> {"clean", "dirty", "unsaved"}]
  BY <1>1, <1>3
<1>7. /\ DOMAIN dir \cap DOMAIN data = {}
      /\ NewPage - 1 \in 1..MaxPages /\ DOMAIN dir \cup DOMAIN data = 1..NewPage - 1
  BY DEF PagesKept
<1> QED BY <1>1, <1>2, <1>4, <1>5, <1>6, <1>7 DEF PagesKept

(* What is ahead of a scan stays ahead while the file grows.               *)
LEMMA AheadStays ==
  ASSUME NEW c, ListOfPages(c), NEW e, NEW r, scan' = scan, scan.dir \in DOMAIN dir, Ahead(c, r),
         \A f \in DOMAIN dir : \A i : Leads(f, i, r[1]) => Leads(f, i, r[1])',
         \A j \in DOMAIN c : j \in DOMAIN e /\ e[j] = c[j]
  PROVE  Ahead(e, r)'
<1>1. CASE scan.more /\ r[1] = scan.data /\ r[2] >= scan.record
  BY <1>1 DEF Ahead
<1>2. CASE \E i \in Entries(scan.dir) : i > scan.entry /\ Leads(scan.dir, i, r[1])
  <2>1. PICK i \in Entries(scan.dir) : i > scan.entry /\ Leads(scan.dir, i, r[1])
    BY <1>2
  <2>2. Leads(scan.dir, i, r[1])'
    <3>1. \A f : f = scan.dir => (Leads(f, i, r[1])' => Leads(scan.dir, i, r[1])')
      BY DEF Leads, Entries
    <3> QED BY <2>1, <3>1
  <2>3. i \in Entries(scan.dir)'
    BY <2>2 DEF Leads
  <2>4. i > scan'.entry
    BY <2>1
  <2> QED BY <2>2, <2>3, <2>4 DEF Ahead
<1>3. CASE \E j, k \in DOMAIN c : /\ j < k /\ c[j] = scan.dir
                                  /\ \E i \in Entries(c[k]) : Leads(c[k], i, r[1])
  <2>1. PICK j \in DOMAIN c, k \in DOMAIN c : /\ j < k /\ c[j] = scan.dir
                                              /\ \E i \in Entries(c[k]) : Leads(c[k], i, r[1])
    BY <1>3
  <2>2. PICK i \in Entries(c[k]) : Leads(c[k], i, r[1])
    BY <2>1
  <2>3. c[k] \in DOMAIN dir
    BY ListFacts
  <2>4. Leads(c[k], i, r[1])'
    BY <2>2, <2>3
  <2>5. j \in DOMAIN e /\ k \in DOMAIN e /\ e[j] = scan'.dir /\ e[k] = c[k]
    BY <2>1
  <2>6. i \in Entries(e[k])' /\ Leads(e[k], i, r[1])'
    BY <2>4, <2>5 DEF Leads, Entries
  <2> QED BY <2>1, <2>5, <2>6 DEF Ahead
<1> QED BY <1>1, <1>2, <1>3 DEF Ahead

(* A scan is not disturbed by steps that take no page or record that stays.*)
LEMMA ScanStays ==
  ASSUME NEW c, ListOfPages(c), ScanKept(c), NEW e, UNCHANGED << scan, seen >>,
         staying' \subseteq staying, staying' \subseteq DOMAIN contents',
         DOMAIN dir \subseteq DOMAIN dir', DOMAIN data \subseteq DOMAIN data',
         \A r \in staying' : \A f \in DOMAIN dir : \A i : Leads(f, i, r[1]) => Leads(f, i, r[1])',
         \A j \in DOMAIN c : j \in DOMAIN e /\ e[j] = c[j]
  PROVE  ScanKept(e)' /\ (ScanMissesNothing => ScanMissesNothing')
<1>1. ScanStands'
  BY DEF ScanKept, ScanStands
<1>2. ASSUME scan'.state = "on", NEW r \in staying' \ seen' PROVE Ahead(e, r)'
  <2>1. Ahead(c, r) /\ scan.dir \in DOMAIN dir /\ scan' = scan
    BY <1>2 DEF ScanKept, ScanStands
  <2>2. \A f \in DOMAIN dir : \A i : Leads(f, i, r[1]) => Leads(f, i, r[1])'
    BY <1>2
  <2> QED BY <2>1, <2>2, AheadStays
<1>3. ScanMissesNothing => ScanMissesNothing'
  BY DEF ScanMissesNothing
<1>4. ScanKept(e)'
  BY <1>1, <1>2 DEF ScanKept
<1> QED BY <1>3, <1>4

(***************************************************************************)
(* Entries, and what they say of their pages.                              *)
(***************************************************************************)
(* An entry is true of the slots of its page.                              *)
TrueOf(entry, slots) ==
  /\ Live(slots) # {} /\ entry.availspace <= available_space(slots, DataSize)
  /\ entry.recct >= Cardinality(Live(slots))

(* The slots of a directory page are entries or holes.                     *)
LEMMA DirPageFacts ==
  ASSUME PagesKept, NEW d \in DOMAIN dir
  PROVE  /\ dir[d] = [slots |-> dir[d].slots, next |-> dir[d].next]
         /\ Page(dir[d].slots, DirEntries, NoEntry) /\ Entries(d) = Live(dir[d].slots)
         /\ Entries(d) \subseteq 1..Len(dir[d].slots) /\ Entries(d) \in SUBSET Nat
         /\ \A i \in Entries(d) : dir[d].slots[i] \in DirEntries /\ dir[d].slots[i].len = EntrySize
<1>1. /\ dir[d] = [slots |-> dir[d].slots, next |-> dir[d].next]
      /\ Page(dir[d].slots, DirEntries, NoEntry)
  BY DEF PagesKept
<1>2. /\ DOMAIN dir[d].slots = 1..Len(dir[d].slots) /\ Live(dir[d].slots) \in SUBSET Nat
      /\ \A i \in 1..Len(dir[d].slots) : dir[d].slots[i] \in DirEntries
  BY <1>1, DirSlots, PageFacts
<1>3. Live(dir[d].slots) \subseteq 1..Len(dir[d].slots)
  BY <1>2 DEF Live
<1>4. ASSUME NEW i \in Live(dir[d].slots) PROVE dir[d].slots[i].len = EntrySize
  <2>1. dir[d].slots[i].len # 0
    BY DEF Live
  <2> QED BY <1>2, <1>3, <2>1 DEF DirEntries
<1> QED BY <1>1, <1>2, <1>3, <1>4 DEF Entries

(* Entries lead to data pages, each to its own, and are true of them.      *)
LEMMA EntryFacts ==
  EntriesAreTrue <=>
    \A d \in DOMAIN dir : \A i \in Entries(d) :
      /\ dir[d].slots[i].page \in DOMAIN data
      /\ TrueOf(dir[d].slots[i], data[dir[d].slots[i].page])
      /\ \A f \in DOMAIN dir : \A j \in Entries(f) :
           dir[f].slots[j].page = dir[d].slots[i].page => f = d /\ j = i
BY DEF EntriesAreTrue, TrueOf

(* A new entry is true of its page, and is no hole.                        *)
LEMMA EntryIs ==
  ASSUME NEW p \in Nat, NEW space \in Int, NEW ct \in Nat
  PROVE  /\ Entry(p, space, ct) \in DirEntries /\ Entry(p, space, ct).len # 0
         /\ Entry(p, space, ct) # NoEntry /\ Entry(p, space, ct).page = p
BY FileAssumption DEF Entry, NoEntry, DirEntries

(* A record is a slot, and is no hole.                                     *)
LEMMA RecordIs ==
  ASSUME NEW v \in Values
  PROVE  /\ Record(v) \in Records /\ Record(v).len = LengthOf[v] /\ LengthOf[v] \in Nat
         /\ Record(v).len # 0 /\ Record(v) # NoRecord /\ LengthOf[v] <= DataSize
<1>1. LengthOf[v] \in 1..DataSize
  BY FileAssumption
<1>2. \A m \in 1..DataSize : m \in Nat /\ m # 0 /\ m <= DataSize
  OBVIOUS
<1> QED BY <1>1, <1>2 DEF Record, Records, NoRecord

(* Space is a number.                                                      *)
LEMMA SpaceType ==
  ASSUME NEW S, NEW hole, SlotType(S, hole), NEW s, Page(s, S, hole), NEW size \in Int
  PROVE  available_space(s, size) \in Int
<1>1. FreeSpace(s, size) \in Int
  BY FreeSpaceType DEF Page, SlotType
<1>2. SlotSize \in Int
  BY FileAssumption
<1>3. \/ Live(s) # DOMAIN s
      \/ Live(s) = DOMAIN s /\ FreeSpace(s, size) < SlotSize
      \/ Live(s) = DOMAIN s /\ FreeSpace(s, size) >= SlotSize /\ ~ (FreeSpace(s, size) < SlotSize)
  BY <1>1, <1>2
<1>4. CASE Live(s) # DOMAIN s
  BY <1>1, <1>4 DEF available_space
<1>5. CASE Live(s) = DOMAIN s /\ FreeSpace(s, size) < SlotSize
  <2>1. ~ (FreeSpace(s, size) >= SlotSize)
    BY <1>1, <1>2, <1>5
  <2> QED BY <1>5, <2>1 DEF available_space
<1>6. CASE Live(s) = DOMAIN s /\ FreeSpace(s, size) >= SlotSize /\ ~ (FreeSpace(s, size) < SlotSize)
  BY <1>1, <1>2, <1>6 DEF available_space
<1> QED BY <1>3, <1>4, <1>5, <1>6

(* Sizes of pages are numbers.                                             *)
LEMMA SizesAre == DataSize \in Int /\ DirSize \in Int
BY FileAssumption

(***************************************************************************)
(* insertRecord, into a page with an entry.                                *)
(***************************************************************************)
(* The first fit is an entry that promises enough.                         *)
LEMMA FirstFitIs ==
  ASSUME NEW c, Chain = c, ListOfPages(c), PagesKept, NEW len, \E k \in DOMAIN c : Fits(c[k], len) # {}
  PROVE  /\ FirstFit(len)[1] \in DOMAIN dir
         /\ FirstFit(len)[2] \in Entries(FirstFit(len)[1])
         /\ dir[FirstFit(len)[1]].slots[FirstFit(len)[2]].availspace >= len
<1> DEFINE T == {n \in DOMAIN c : Fits(c[n], len) # {}}
           d == c[First(T)]
           i == First(Fits(d, len))
<1>1. Len(c) \in Nat /\ DOMAIN c = 1..Len(c) /\ \A k \in 1..Len(c) : c[k] \in DOMAIN dir
  BY ListFacts
<1>2. T \in SUBSET Nat /\ T # {}
  <2>1. 1..Len(c) \subseteq Nat
    BY <1>1
  <2> QED BY <1>1, <2>1
<1>3. First(T) \in T
  <2> HIDE DEF T
  <2> QED BY <1>2, FirstIs
<1>4. d \in DOMAIN dir /\ Fits(d, len) # {}
  BY <1>1, <1>3
<1>5. FirstFit(len) = << d, i >>
  BY DEF FirstFit
<1> HIDE DEF T, d
<1>6. Fits(d, len) \in SUBSET Nat
  BY <1>4, DirPageFacts DEF Fits
<1>7. i \in Fits(d, len)
  BY <1>4, <1>6, FirstIs
<1> HIDE DEF i
<1>8. FirstFit(len)[1] = d /\ FirstFit(len)[2] = i
  BY <1>5
<1> QED BY <1>4, <1>7, <1>8 DEF Fits

(* What the step does.                                                     *)
IntoPage(v, d, i, p, e, r, slots) ==
  /\ d \in DOMAIN dir /\ i \in Entries(d) /\ p = dir[d].slots[i].page /\ p \in DOMAIN data
  /\ Put(data[p], r, e, Record(v)) /\ Page(r, Records, NoRecord) /\ FreeSpace(r, DataSize) >= 0
  /\ slots = [dir[d].slots EXCEPT ![i] = Entry(p, available_space(r, DataSize), dir[d].slots[i].recct + 1)]
  /\ SameDirs(d, slots) /\ SamePages(p, r)
  /\ frame' = Dirty({p, d}) /\ Inserted(p, e, v)

LEMMA IntoPageHas ==
  ASSUME NEW c, Chain = c, FileKept(c), NEW v \in Values, insertIntoPage(v)
  PROVE  \E d, i, p, e, r, slots : IntoPage(v, d, i, p, e, r, slots)
<1> DEFINE d == FirstFit(LengthOf[v])[1]
           i == FirstFit(LengthOf[v])[2]
           p == dir[d].slots[i].page
           e == EmptySlot(data[p])
           r == PutInto(data[p], v)
           entry == Entry(p, available_space(r, DataSize), dir[d].slots[i].recct + 1)
           slots == [dir[d].slots EXCEPT ![i] = entry]
<1>1. ListOfPages(c) /\ PagesKept /\ EntriesAreTrue
  BY DEF FileKept
<1>2. d \in DOMAIN dir /\ i \in Entries(d) /\ dir[d].slots[i].availspace >= LengthOf[v]
  <2>1. \E k \in DOMAIN c : Fits(c[k], LengthOf[v]) # {}
    BY DEF insertIntoPage
  <2> QED BY <1>1, <2>1, FirstFitIs
<1>3. /\ data' = [data EXCEPT ![p] = r]
      /\ dir' = [dir EXCEPT ![d].slots[i] = Entry(p, available_space(r, DataSize), @.recct + 1)]
      /\ frame' = Dirty({p, d}) /\ Inserted(p, e, v)
  BY DEF insertIntoPage
<1> HIDE DEF d, i
<1>4. p \in DOMAIN data /\ TrueOf(dir[d].slots[i], data[p])
  BY <1>1, <1>2, EntryFacts
<1>5. Page(data[p], Records, NoRecord)
  BY <1>1, <1>4 DEF PagesKept
<1>6. available_space(data[p], DataSize) >= LengthOf[v] /\ ~ (available_space(data[p], DataSize) < LengthOf[v])
  <2> DEFINE a == dir[d].slots[i].availspace
             b == available_space(data[p], DataSize)
             l == LengthOf[v]
  <2>1. a \in Int
    BY <1>1, <1>2, DirPageFacts DEF DirEntries
  <2>2. b \in Int
    BY <1>5, DataSlots, SpaceType, SizesAre
  <2>3. a >= l /\ a <= b
    BY <1>2, <1>4 DEF TrueOf
  <2>4. l \in Nat
    BY RecordIs
  <2> HIDE DEF a, b, l
  <2>5. b >= l /\ ~ (b < l)
    BY <2>1, <2>2, <2>3, <2>4
  <2> QED BY <2>5 DEF b, l
<1> HIDE DEF p
<1>7. r = With(data[p], e, Record(v))
  BY <1>6 DEF PutInto
<1>8. Put(data[p], r, e, Record(v)) /\ Page(r, Records, NoRecord)
  <2> HIDE DEF r
  <2> QED BY <1>5, <1>7, DataSlots, RecordIs, PutIs
<1>9. FreeSpace(r, DataSize) >= 0
  <2> HIDE DEF r
  <2>1. available_space(data[p], DataSize) >= Record(v).len
    BY <1>6, RecordIs
  <2>2. FreeSpace(With(data[p], EmptySlot(data[p]), Record(v)), DataSize) >= 0
    BY <1>5, <2>1, DataSlots, RecordIs, PutFits, SizesAre
  <2> QED BY <1>7, <2>2
<1> HIDE DEF r, e
<1>10. SamePages(p, r)
  BY <1>3, <1>4 DEF SamePages
<1>11. SameDirs(d, slots)
  <2>1. dir[d] = [slots |-> dir[d].slots, next |-> dir[d].next]
    BY <1>1, <1>2, DirPageFacts
  <2>2. dir' = [dir EXCEPT ![d] = [dir[d] EXCEPT !.slots = slots]]
    BY <1>3
  <2> HIDE DEF slots
  <2>3. [dir[d] EXCEPT !.slots = slots] = [slots |-> slots, next |-> dir[d].next]
    <3>1. PICK x, y : x = dir[d].slots /\ y = dir[d].next
      OBVIOUS
    <3>2. dir[d] = [slots |-> x, next |-> y]
      BY <2>1, <3>1
    <3> QED BY <3>1, <3>2
  <2> QED BY <1>2, <2>2, <2>3 DEF SameDirs
<1>12. IntoPage(v, d, i, p, e, r, slots)
  <2>1. p = dir[d].slots[i].page
    BY DEF p
  <2> QED BY <1>2, <1>3, <1>4, <1>8, <1>9, <1>10, <1>11, <2>1 DEF IntoPage
<1> QED BY <1>12

(* It keeps the file ...                                                   *)
LEMMA IntoPageKeeps ==
  ASSUME NEW c, FileKept(c), NEW v \in Values, NEW d, NEW i, NEW p, NEW e, NEW r, NEW slots,
         IntoPage(v, d, i, p, e, r, slots)
  PROVE  /\ FileKept(c)'
         /\ \A f \in DOMAIN dir : \A j, q : Leads(f, j, q) => Leads(f, j, q)'
<1> DEFINE entry == Entry(p, available_space(r, DataSize), dir[d].slots[i].recct + 1)
<1>1. ListOfPages(c) /\ PagesKept /\ EntriesAreTrue /\ RecordsAreContents
  BY DEF FileKept
<1>2. /\ d \in DOMAIN dir /\ i \in Entries(d) /\ p = dir[d].slots[i].page /\ p \in DOMAIN data
      /\ Put(data[p], r, e, Record(v)) /\ Page(r, Records, NoRecord) /\ FreeSpace(r, DataSize) >= 0
      /\ slots = [dir[d].slots EXCEPT ![i] = entry]
      /\ SameDirs(d, slots) /\ SamePages(p, r) /\ frame' = Dirty({p, d}) /\ Inserted(p, e, v)
  BY DEF IntoPage
<1>3. /\ Page(dir[d].slots, DirEntries, NoEntry) /\ i \in 1..Len(dir[d].slots)
      /\ dir[d].slots[i] \in DirEntries /\ dir[d].slots[i].len # 0 /\ Entries(d) = Live(dir[d].slots)
  <2>1. dir[d].slots[i].len # 0
    BY <1>2 DEF Entries, Live
  <2> QED BY <1>1, <1>2, <2>1, DirPageFacts
<1>4. entry \in DirEntries /\ entry.len # 0 /\ entry # NoEntry /\ entry.page = p
  <2>1. p \in Nat /\ dir[d].slots[i].recct \in Nat
    BY <1>2, <1>3 DEF DirEntries
  <2>2. available_space(r, DataSize) \in Int
    BY <1>2, DataSlots, SpaceType, SizesAre
  <2>3. dir[d].slots[i].recct + 1 \in Nat
    BY <2>1
  <2> QED BY <2>1, <2>2, <2>3, EntryIs
<1>5. /\ entry.availspace = available_space(r, DataSize) /\ entry.recct = dir[d].slots[i].recct + 1
  BY DEF Entry
<1> HIDE DEF entry
<1>6. /\ Page(slots, DirEntries, NoEntry) /\ DOMAIN slots = DOMAIN dir[d].slots
      /\ slots[i] = entry /\ \A j : j # i => slots[j] = dir[d].slots[j]
  <2> DEFINE s == dir[d].slots
  <2>1. s \in Seq(DirEntries) /\ DOMAIN s = 1..Len(s) /\ Len(s) \in Nat
    BY <1>3, DirSlots, PageFacts
  <2>2. slots = [s EXCEPT ![i] = entry] /\ i \in 1..Len(s)
    BY <1>2, <1>3
  <2>3. DOMAIN slots = DOMAIN s /\ slots[i] = entry /\ \A j \in DOMAIN s : j # i => slots[j] = s[j]
    BY <2>1, <2>2
  <2>4. slots \in Seq(DirEntries) /\ Len(slots) = Len(s)
    BY <1>4, <2>1, <2>2, ExceptSeq
  <2>5. \A j : j # i => slots[j] = s[j]
    BY <2>2
  <2>6. /\ Len(s) >= 1 /\ \A j \in DOMAIN s : s[j].len = 0 <=> s[j] = NoEntry
        /\ Len(s) > 1 => s[Len(s)].len # 0
    BY <1>3 DEF Page
  <2> HIDE DEF s
  <2>7. Page(slots, DirEntries, NoEntry)
    <3>1. \A j \in DOMAIN slots : slots[j].len = 0 <=> slots[j] = NoEntry
      BY <1>4, <2>3, <2>6
    <3>2. Len(slots) > 1 => slots[Len(slots)].len # 0
      BY <1>4, <2>3, <2>4, <2>5, <2>6
    <3> QED BY <2>4, <2>6, <3>1, <3>2 DEF Page
  <2> QED BY <2>3, <2>5, <2>7 DEF s
<1>7. Live(slots) = Entries(d)
  <2>1. \A j \in DOMAIN slots : slots[j].len # 0 <=> dir[d].slots[j].len # 0
    BY <1>3, <1>4, <1>6
  <2> QED BY <1>6, <2>1 DEF Live, Entries
<1>8. /\ DOMAIN dir' = DOMAIN dir
      /\ \A f \in DOMAIN dir : Live(dir'[f].slots) = Entries(f)
      /\ \A f \in DOMAIN dir : \A j \in Entries(f) :
           dir'[f].slots[j] = IF f = d /\ j = i THEN entry ELSE dir[f].slots[j]
  <2>1. DOMAIN dir' = DOMAIN dir
    BY <1>2 DEF SameDirs
  <2>2. \A f \in DOMAIN dir : dir'[f].slots = IF f = d THEN slots ELSE dir[f].slots
    BY <1>2 DEF SameDirs
  <2>3. \A f \in DOMAIN dir : Live(dir'[f].slots) = Entries(f)
    BY <1>7, <2>2 DEF Entries
  <2>4. \A f \in DOMAIN dir : \A j \in Entries(f) :
           dir'[f].slots[j] = IF f = d /\ j = i THEN entry ELSE dir[f].slots[j]
    BY <1>6, <2>2
  <2> QED BY <2>1, <2>3, <2>4
<1>9. \A f \in DOMAIN dir : \A j \in Entries(f) : dir'[f].slots[j].page = dir[f].slots[j].page
  BY <1>2, <1>4, <1>8
<1>10. ListOfPages(c)'
  <2>1. Live(slots) # {}
    BY <1>2, <1>7
  <2> QED BY <1>1, <1>2, <2>1, ListStays
<1>11. PagesKept'
  <2>1. frame' \in [DOMAIN frame -> {"clean", "dirty", "unsaved"}]
    <3>1. frame \in [DOMAIN frame -> {"clean", "dirty", "unsaved"}] /\ p \in DOMAIN frame /\ d \in DOMAIN frame
      BY <1>1, <1>2 DEF PagesKept
    <3>2. DOMAIN frame \cup {p, d} = DOMAIN frame
      BY <3>1
    <3> QED BY <1>2, <3>1, <3>2 DEF Dirty
  <2> QED BY <1>1, <1>2, <1>6, <2>1, PagesStay
<1>12. DOMAIN data' = DOMAIN data /\ \A q \in DOMAIN data : data'[q] = IF q = p THEN r ELSE data[q]
  BY <1>2 DEF SamePages
<1>13. /\ e \notin Live(data[p]) /\ Live(r) = Live(data[p]) \cup {e} /\ r[e] = Record(v)
       /\ \A j \in Live(data[p]) : r[j] = data[p][j]
  <2>1. Live(data[p]) \subseteq 1..Len(data[p])
    <3>1. Page(data[p], Records, NoRecord)
      BY <1>1, <1>2 DEF PagesKept
    <3>2. DOMAIN data[p] = 1..Len(data[p])
      BY <3>1, DataSlots, PageFacts
    <3> QED BY <3>2 DEF Live
  <2> QED BY <1>2, <2>1 DEF Put
<1>14. EntriesAreTrue'
  <2>1. ASSUME NEW f \in DOMAIN dir, NEW j \in Entries(f)
        PROVE  /\ dir'[f].slots[j].page \in DOMAIN data'
               /\ TrueOf(dir'[f].slots[j], data'[dir'[f].slots[j].page])
               /\ \A g \in DOMAIN dir : \A k \in Entries(g) :
                    dir'[g].slots[k].page = dir'[f].slots[j].page => g = f /\ k = j
    <3>1. /\ dir[f].slots[j].page \in DOMAIN data
          /\ TrueOf(dir[f].slots[j], data[dir[f].slots[j].page])
          /\ \A g \in DOMAIN dir : \A k \in Entries(g) :
               dir[g].slots[k].page = dir[f].slots[j].page => g = f /\ k = j
      BY <1>1, EntryFacts
    <3>2. CASE f = d /\ j = i
      <4>1. dir'[f].slots[j] = entry /\ dir[f].slots[j].page = p /\ data'[p] = r
        BY <1>2, <1>8, <1>12, <3>2
      <4>2. /\ Cardinality(Live(data[p])) \in Nat /\ IsFiniteSet(Live(data[p]))
            /\ available_space(r, DataSize) \in Int /\ dir[d].slots[i].recct \in Nat
        <5>1. Page(data[p], Records, NoRecord)
          BY <1>1, <1>2 DEF PagesKept
        <5>2. dir[d].slots[i].recct \in Nat
          BY <1>3 DEF DirEntries
        <5> QED BY <1>2, <5>1, <5>2, DataSlots, PageFacts, SpaceType, SizesAre
      <4>3. Cardinality(Live(r)) = Cardinality(Live(data[p])) + 1
        BY <1>13, <4>2, FS_AddElement
      <4>4. dir[d].slots[i].recct >= Cardinality(Live(data[p]))
        BY <3>1, <3>2, <4>1 DEF TrueOf
      <4>5. entry.recct >= Cardinality(Live(r)) /\ entry.availspace <= available_space(r, DataSize)
        BY <1>5, <4>2, <4>3, <4>4
      <4>6. TrueOf(entry, r)
        BY <1>13, <4>5 DEF TrueOf
      <4> QED BY <1>4, <1>9, <1>12, <3>1, <4>1, <4>6
    <3>3. CASE ~ (f = d /\ j = i)
      <4>1. dir'[f].slots[j] = dir[f].slots[j] /\ dir[f].slots[j].page # p
        BY <1>2, <1>8, <3>1, <3>3
      <4>2. data'[dir[f].slots[j].page] = data[dir[f].slots[j].page]
        BY <1>12, <3>1, <4>1
      <4> QED BY <1>9, <1>12, <3>1, <4>1, <4>2
    <3> QED BY <3>2, <3>3
  <2> QED BY <1>8, <2>1 DEF EntriesAreTrue, Entries, TrueOf
<1>15. \A f \in DOMAIN dir : \A j, q : Leads(f, j, q) <=> Leads(f, j, q)'
  BY <1>8, <1>9 DEF Leads, Entries
<1>16. RecordsAreContents'
  <2>1. contents' = Extend(contents, << p, e >>, v)
    BY <1>2 DEF Inserted
  <2>2. /\ DOMAIN contents' = DOMAIN contents \cup {<< p, e >>} /\ contents'[<< p, e >>] = v
        /\ \A q \in DOMAIN contents : q # << p, e >> => contents'[q] = contents[q]
    BY <2>1 DEF Extend
  <2>3. ASSUME NEW q \in DOMAIN contents'
        PROVE  /\ q = << q[1], q[2] >> /\ q[1] \in DOMAIN data' /\ q[2] \in Live(data'[q[1]])
               /\ data'[q[1]][q[2]] = Record(contents'[q]) /\ contents'[q] \in Values
               /\ \E f \in DOMAIN dir' : \E j \in DOMAIN dir'[f].slots : Leads(f, j, q[1])'
    <3>1. CASE q = << p, e >>
      <4>1. q[1] = p /\ q[2] = e
        BY <3>1
      <4>2. Leads(d, i, p)' /\ i \in DOMAIN dir'[d].slots
        <5>1. Leads(d, i, p)
          BY <1>2 DEF Leads
        <5>2. i \in Live(dir'[d].slots)
          BY <1>2, <1>8
        <5> QED BY <1>2, <1>15, <5>1, <5>2 DEF Live
      <4>3. \E f \in DOMAIN dir' : \E j \in DOMAIN dir'[f].slots : Leads(f, j, q[1])'
        <5>1. Leads(d, i, q[1])'
          BY <4>1, <4>2 DEF Leads
        <5> QED BY <1>2, <1>8, <4>2, <5>1
      <4> QED BY <1>2, <1>12, <1>13, <2>2, <3>1, <4>1, <4>3
    <3>2. CASE q # << p, e >>
      <4>1. /\ q \in DOMAIN contents /\ contents'[q] = contents[q]
        BY <2>2, <3>2
      <4>2. /\ q = << q[1], q[2] >> /\ q[1] \in DOMAIN data /\ q[2] \in Live(data[q[1]])
            /\ data[q[1]][q[2]] = Record(contents[q]) /\ contents[q] \in Values
            /\ \E f \in DOMAIN dir : \E j \in DOMAIN dir[f].slots : Leads(f, j, q[1])
        BY <1>1, <4>1 DEF RecordsAreContents
      <4>6. PICK f \in DOMAIN dir : \E j \in DOMAIN dir[f].slots : Leads(f, j, q[1])
        BY <4>2
      <4>3. PICK j \in DOMAIN dir[f].slots : Leads(f, j, q[1])
        BY <4>6
      <4>4. Leads(f, j, q[1])' /\ f \in DOMAIN dir' /\ j \in DOMAIN dir'[f].slots
        <5>1. Leads(f, j, q[1])'
          BY <1>15, <4>3
        <5>2. j \in Live(dir'[f].slots)
          BY <5>1 DEF Leads, Entries
        <5> QED BY <1>8, <5>1, <5>2 DEF Live
      <4>5. q[2] \in Live(data'[q[1]]) /\ data'[q[1]][q[2]] = data[q[1]][q[2]]
        BY <1>12, <1>13, <4>2
      <4> QED BY <1>12, <4>1, <4>2, <4>4, <4>5
    <3> QED BY <3>1, <3>2
  <2>4. ASSUME NEW f \in DOMAIN dir', NEW j \in Live(dir'[f].slots), NEW k \in Live(data'[dir'[f].slots[j].page])
        PROVE  << dir'[f].slots[j].page, k >> \in DOMAIN contents'
    <3> DEFINE q == dir[f].slots[j].page
    <3>1. f \in DOMAIN dir /\ j \in Entries(f) /\ dir'[f].slots[j].page = q
      BY <1>8, <1>9
    <3>2. q \in DOMAIN data
      BY <1>1, <3>1, EntryFacts
    <3>3. k \in Live(data[q]) \/ (q = p /\ k = e)
      BY <1>12, <1>13, <3>1, <3>2
    <3>4. k \in Live(data[q]) => << q, k >> \in DOMAIN contents
      BY <1>1, <3>1 DEF RecordsAreContents
    <3> QED BY <2>2, <3>1, <3>3, <3>4
  <2> QED BY <2>3, <2>4 DEF RecordsAreContents, Entries
<1> QED BY <1>10, <1>11, <1>14, <1>15, <1>16 DEF FileKept

(* ... and disturbs no scan.                                               *)
LEMMA IntoPageStep ==
  ASSUME IInv, NEW v \in Values, insertIntoPage(v)
  PROVE  IInv'
<1>1. PICK c : c = Chain
  OBVIOUS
<1>2. Kept(c) /\ ScanMissesNothing
  <2>1. harm = "none" /\ Kept(Chain) /\ ScanMissesNothing
    BY InvIs DEF insertIntoPage
  <2> QED BY <1>1, <2>1
<1>3. PICK d, i, p, e, r, slots : IntoPage(v, d, i, p, e, r, slots)
  BY <1>1, <1>2, IntoPageHas DEF Kept
<1>4. FileKept(c)' /\ \A f \in DOMAIN dir : \A j, q : Leads(f, j, q) => Leads(f, j, q)'
  BY <1>2, <1>3, IntoPageKeeps DEF Kept
<1>5. UNCHANGED << scan, seen >> /\ staying' = staying /\ contents' = Extend(contents, << p, e >>, v)
  BY <1>3 DEF IntoPage, Inserted
<1>6. DOMAIN dir' = DOMAIN dir /\ DOMAIN data' = DOMAIN data
  BY <1>3 DEF IntoPage, SameDirs, SamePages
<1>7. staying' \subseteq DOMAIN contents'
  <2>1. staying \subseteq DOMAIN contents
    BY <1>2 DEF Kept, ScanKept, ScanStands
  <2> QED BY <1>5, <2>1 DEF Extend
<1>8. ScanKept(c)' /\ ScanMissesNothing'
  <2>1. ListOfPages(c) /\ ScanKept(c)
    BY <1>2 DEF Kept, FileKept
  <2> QED BY <1>2, <1>4, <1>5, <1>6, <1>7, <2>1, ScanStays
<1>9. Kept(c)'
  BY <1>4, <1>8 DEF Kept
<1> QED BY <1>8, <1>9, InvNext

(***************************************************************************)
(* insertRecord, into a new page.                                          *)
(***************************************************************************)
(* A page of one record.                                                   *)
LEMMA OneRecord ==
  ASSUME NEW v \in Values
  PROVE  /\ Page(<< Record(v) >>, Records, NoRecord) /\ FreeSpace(<< Record(v) >>, DataSize) >= 0
         /\ Live(<< Record(v) >>) = {1} /\ Cardinality(Live(<< Record(v) >>)) = 1
         /\ available_space(<< Record(v) >>, DataSize) \in Int
<1> DEFINE s == << Record(v) >>
<1>1. /\ Record(v) \in Records /\ Record(v).len = LengthOf[v] /\ LengthOf[v] \in Nat
      /\ Record(v).len # 0 /\ Record(v) # NoRecord /\ LengthOf[v] <= DataSize
  BY RecordIs
<1>2. s \in Seq(Records) /\ Len(s) = 1 /\ DOMAIN s = 1..1 /\ s[1] = Record(v)
  BY <1>1
<1>3. Page(s, Records, NoRecord)
  BY <1>1, <1>2 DEF Page
<1>4. Live(s) = {1}
  BY <1>1, <1>2 DEF Live
<1>5. Cardinality({1}) = 1
  BY FS_Singleton
<1>6. FreeSpace(s, DataSize) = DataSize - Record(v).len
  BY <1>1, FreeOne, SizesAre
<1>7. FreeSpace(s, DataSize) >= 0
  BY <1>1, <1>6, SizesAre
<1>8. available_space(s, DataSize) \in Int
  BY <1>3, DataSlots, SpaceType, SizesAre
<1> QED BY <1>3, <1>4, <1>5, <1>7, <1>8

(* A directory page of one entry.                                          *)
LEMMA OneEntry ==
  ASSUME NEW x \in DirEntries, x.len # 0, x # NoEntry
  PROVE  Page(<< x >>, DirEntries, NoEntry) /\ Live(<< x >>) = {1}
<1> DEFINE s == << x >>
<1>1. s \in Seq(DirEntries) /\ Len(s) = 1 /\ DOMAIN s = 1..1 /\ s[1] = x
  OBVIOUS
<1> QED BY <1>1 DEF Page, Live

(* The directory page d gets the entry in slot i, or is new and has it.    *)
AddedEntry(d, i, entry) ==
  /\ DOMAIN dir' = DOMAIN dir \cup {d} /\ ~ (d \in DOMAIN dir /\ i \in Entries(d))
  /\ \A f \in DOMAIN dir' : \A j : j \in Live(dir'[f].slots) <=>
                                     (f \in DOMAIN dir /\ j \in Entries(f)) \/ (f = d /\ j = i)
  /\ dir'[d].slots[i] = entry
  /\ \A f \in DOMAIN dir : \A j \in Entries(f) : dir'[f].slots[j] = dir[f].slots[j]

(* Then it is true, and the new record is a content.                       *)
LEMMA NewPageTrue ==
  ASSUME EntriesAreTrue, RecordsAreContents, NEW v \in Values, NEW p \in Nat, p \notin DOMAIN data,
         data' = Extend(data, p, << Record(v) >>), contents' = Extend(contents, << p, 1 >>, v),
         NEW d, NEW i, AddedEntry(d, i, NewEntry(p, << Record(v) >>))
  PROVE  /\ EntriesAreTrue' /\ RecordsAreContents'
         /\ \A f \in DOMAIN dir : \A j, q : Leads(f, j, q) => Leads(f, j, q)'
<1> DEFINE s == << Record(v) >>
           entry == NewEntry(p, s)
           space == available_space(s, DataSize)
<1>1. /\ Live(s) = {1} /\ Cardinality(Live(s)) = 1 /\ space \in Int /\ s[1] = Record(v)
  BY OneRecord
<1>2. entry.page = p /\ entry.availspace = space /\ entry.recct = 1
  BY DEF NewEntry, Entry
<1>3. TrueOf(entry, s)
  BY <1>1, <1>2 DEF TrueOf
<1>4. DOMAIN data' = DOMAIN data \cup {p} /\ data'[p] = s /\ \A q \in DOMAIN data : data'[q] = data[q]
  BY DEF Extend
<1>5. /\ DOMAIN dir' = DOMAIN dir \cup {d} /\ ~ (d \in DOMAIN dir /\ i \in Entries(d))
      /\ \A f \in DOMAIN dir' : \A j : j \in Live(dir'[f].slots) <=>
                                         (f \in DOMAIN dir /\ j \in Entries(f)) \/ (f = d /\ j = i)
      /\ dir'[d].slots[i] = entry
      /\ \A f \in DOMAIN dir : \A j \in Entries(f) : dir'[f].slots[j] = dir[f].slots[j]
  BY DEF AddedEntry
<1> HIDE DEF s, entry, space
<1>6. \A f \in DOMAIN dir : \A j \in Entries(f) :
        /\ dir[f].slots[j].page \in DOMAIN data
        /\ TrueOf(dir[f].slots[j], data[dir[f].slots[j].page])
        /\ \A g \in DOMAIN dir : \A k \in Entries(g) :
             dir[g].slots[k].page = dir[f].slots[j].page => g = f /\ k = j
  BY EntryFacts
<1>7. \A f \in DOMAIN dir : \A j, q : Leads(f, j, q) => Leads(f, j, q)'
  BY <1>5 DEF Leads, Entries
<1>8. EntriesAreTrue'
  <2>1. ASSUME NEW f \in DOMAIN dir', NEW j \in Live(dir'[f].slots)
        PROVE  /\ dir'[f].slots[j].page \in DOMAIN data'
               /\ TrueOf(dir'[f].slots[j], data'[dir'[f].slots[j].page])
               /\ \A g \in DOMAIN dir' : \A k \in Live(dir'[g].slots) :
                    dir'[g].slots[k].page = dir'[f].slots[j].page => g = f /\ k = j
    <3>1. CASE f = d /\ j = i
      <4>1. dir'[f].slots[j].page = p /\ TrueOf(dir'[f].slots[j], data'[p])
        BY <1>2, <1>3, <1>4, <1>5, <3>1
      <4>2. ASSUME NEW g \in DOMAIN dir', NEW k \in Live(dir'[g].slots), dir'[g].slots[k].page = p
            PROVE  g = d /\ k = i
        <5>1. g \in DOMAIN dir /\ k \in Entries(g) => dir'[g].slots[k].page \in DOMAIN data
          BY <1>5, <1>6
        <5> QED BY <1>5, <4>2, <5>1
      <4> QED BY <1>4, <3>1, <4>1, <4>2
    <3>2. CASE ~ (f = d /\ j = i)
      <4>1. f \in DOMAIN dir /\ j \in Entries(f) /\ dir'[f].slots[j] = dir[f].slots[j]
        BY <1>5, <3>2
      <4>2. /\ dir'[f].slots[j].page \in DOMAIN data /\ dir'[f].slots[j].page # p
            /\ TrueOf(dir'[f].slots[j], data'[dir'[f].slots[j].page])
        BY <1>4, <1>6, <4>1
      <4>3. ASSUME NEW g \in DOMAIN dir', NEW k \in Live(dir'[g].slots),
                   dir'[g].slots[k].page = dir'[f].slots[j].page
            PROVE  g = f /\ k = j
        <5>1. ~ (g = d /\ k = i)
          BY <1>2, <1>5, <4>2, <4>3
        <5>2. g \in DOMAIN dir /\ k \in Entries(g) /\ dir'[g].slots[k] = dir[g].slots[k]
          BY <1>5, <5>1
        <5> QED BY <1>6, <4>1, <4>3, <5>2
      <4> QED BY <1>4, <4>2, <4>3
    <3> QED BY <3>1, <3>2
  <2> QED BY <2>1 DEF EntriesAreTrue, Entries, TrueOf
<1>9. RecordsAreContents'
  <2>1. /\ DOMAIN contents' = DOMAIN contents \cup {<< p, 1 >>} /\ contents'[<< p, 1 >>] = v
        /\ \A q \in DOMAIN contents : q # << p, 1 >> => contents'[q] = contents[q]
    BY DEF Extend
  <2>2. ASSUME NEW q \in DOMAIN contents'
        PROVE  /\ q = << q[1], q[2] >> /\ q[1] \in DOMAIN data' /\ q[2] \in Live(data'[q[1]])
               /\ data'[q[1]][q[2]] = Record(contents'[q]) /\ contents'[q] \in Values
               /\ \E f \in DOMAIN dir' : \E j \in DOMAIN dir'[f].slots : Leads(f, j, q[1])'
    <3>1. CASE q = << p, 1 >>
      <4>1. q[1] = p /\ q[2] = 1
        BY <3>1
      <4>2. d \in DOMAIN dir' /\ i \in Live(dir'[d].slots) /\ dir'[d].slots[i].page = p
        BY <1>2, <1>5
      <4>3. Leads(d, i, q[1])' /\ i \in DOMAIN dir'[d].slots
        BY <4>1, <4>2 DEF Leads, Entries, Live
      <4> QED BY <1>1, <1>4, <2>1, <3>1, <4>1, <4>2, <4>3
    <3>2. CASE q # << p, 1 >>
      <4>1. /\ q \in DOMAIN contents /\ contents'[q] = contents[q]
        BY <2>1, <3>2
      <4>2. /\ q = << q[1], q[2] >> /\ q[1] \in DOMAIN data /\ q[2] \in Live(data[q[1]])
            /\ data[q[1]][q[2]] = Record(contents[q]) /\ contents[q] \in Values
            /\ \E f \in DOMAIN dir : \E j \in DOMAIN dir[f].slots : Leads(f, j, q[1])
        BY <4>1 DEF RecordsAreContents
      <4>3. PICK f \in DOMAIN dir : \E j \in DOMAIN dir[f].slots : Leads(f, j, q[1])
        BY <4>2
      <4>4. PICK j \in DOMAIN dir[f].slots : Leads(f, j, q[1])
        BY <4>3
      <4>5. Leads(f, j, q[1])' /\ f \in DOMAIN dir' /\ j \in DOMAIN dir'[f].slots
        <5>1. Leads(f, j, q[1])'
          BY <1>7, <4>4
        <5>2. j \in Live(dir'[f].slots)
          BY <5>1 DEF Leads, Entries
        <5> QED BY <1>5, <5>1, <5>2 DEF Live
      <4> QED BY <1>4, <4>1, <4>2, <4>5
    <3> QED BY <3>1, <3>2
  <2>3. ASSUME NEW f \in DOMAIN dir', NEW j \in Live(dir'[f].slots), NEW k \in Live(data'[dir'[f].slots[j].page])
        PROVE  << dir'[f].slots[j].page, k >> \in DOMAIN contents'
    <3>1. CASE f = d /\ j = i
      <4>1. dir'[f].slots[j].page = p /\ k = 1
        BY <1>1, <1>2, <1>4, <1>5, <3>1
      <4> QED BY <2>1, <4>1
    <3>2. CASE ~ (f = d /\ j = i)
      <4>1. f \in DOMAIN dir /\ j \in Entries(f) /\ dir'[f].slots[j] = dir[f].slots[j]
        BY <1>5, <3>2
      <4>2. dir[f].slots[j].page \in DOMAIN data
        BY <1>6, <4>1
      <4>3. k \in Live(data[dir[f].slots[j].page])
        BY <1>4, <4>1, <4>2
      <4> QED BY <2>1, <4>1, <4>3 DEF RecordsAreContents
    <3> QED BY <3>1, <3>2
  <2> QED BY <2>2, <2>3 DEF RecordsAreContents, Entries
<1> QED BY <1>7, <1>8, <1>9

(* Numbers of pages, when n pages of the file become m more.               *)
LEMMA PageNumbers ==
  ASSUME PagesKept
  PROVE  /\ NewPage \in Nat /\ NewPage >= 2 /\ NewPage \notin DOMAIN dir /\ NewPage \notin DOMAIN data
         /\ NewPage + 1 \notin DOMAIN dir /\ NewPage + 1 \notin DOMAIN data
         /\ 1..NewPage = DOMAIN dir \cup DOMAIN data \cup {NewPage}
         /\ 1..NewPage + 1 = DOMAIN dir \cup DOMAIN data \cup {NewPage, NewPage + 1}
<1> DEFINE n == NewPage
<1>1. n \in Nat /\ n - 1 \in 1..MaxPages /\ DOMAIN dir \cup DOMAIN data = 1..n - 1
  BY PagesAre
<1>2. \A q \in DOMAIN dir \cup DOMAIN data : q \in 1..n - 1
  BY <1>1
<1> HIDE DEF n
<1>3. n >= 2 /\ n \notin 1..n - 1 /\ n + 1 \notin 1..n - 1
  BY <1>1
<1>4. 1..n = (1..n - 1) \cup {n}
  BY <1>1, <1>3
<1>5. 1..n + 1 = (1..n - 1) \cup {n, n + 1}
  BY <1>1, <1>3
<1> QED BY <1>1, <1>2, <1>3, <1>4, <1>5 DEF n

(* The new page and its entry in a page that has space ...                 *)
LEMMA NewPageOld ==
  ASSUME NEW c, Chain = c, FileKept(c), NEW v \in Values, insertIntoNewPage(v), HasDirSpace # {}
  PROVE  /\ ListOfPages(c)' /\ PagesKept'
         /\ \E d, i : AddedEntry(d, i, NewEntry(NewPage, << Record(v) >>))
<1> DEFINE p == NewPage
           s == << Record(v) >>
           entry == NewEntry(p, s)
           d == c[First(HasDirSpace)]
           i == EmptySlot(dir[d].slots)
           slots == With(dir[d].slots, i, entry)
<1>1. ListOfPages(c) /\ PagesKept
  BY DEF FileKept
<1>2. /\ data' = Extend(data, p, s) /\ p <= MaxPages
      /\ dir' = [dir EXCEPT ![d].slots = With(@, EmptySlot(@), entry)] /\ frame' = Dirty({p, d})
  BY DEF insertIntoNewPage
<1>3. d \in DOMAIN dir
  <2>1. Len(c) \in Nat /\ DOMAIN c = 1..Len(c) /\ \A k \in 1..Len(c) : c[k] \in DOMAIN dir
    BY <1>1, ListFacts
  <2>2. HasDirSpace \subseteq 1..Len(c)
    BY <2>1 DEF HasDirSpace
  <2>3. HasDirSpace \in SUBSET Nat
    <3>1. 1..Len(c) \subseteq Nat
      BY <2>1
    <3> QED BY <2>2, <3>1
  <2>4. First(HasDirSpace) \in HasDirSpace
    BY <2>3, FirstIs
  <2> QED BY <2>1, <2>2, <2>4
<1> HIDE DEF d
<1>4. /\ Page(dir[d].slots, DirEntries, NoEntry) /\ dir[d] = [slots |-> dir[d].slots, next |-> dir[d].next]
      /\ Entries(d) = Live(dir[d].slots)
  BY <1>1, <1>3, DirPageFacts
<1>5. p \in Nat /\ p >= 2 /\ p \notin DOMAIN dir /\ p \notin DOMAIN data
      /\ 1..p = DOMAIN dir \cup DOMAIN data \cup {p}
  BY <1>1, PageNumbers
<1>6. entry \in DirEntries /\ entry.len # 0 /\ entry # NoEntry
  <2>1. available_space(s, DataSize) \in Int
    BY OneRecord
  <2> HIDE DEF p, s
  <2> QED BY <1>5, <2>1, EntryIs DEF NewEntry
<1> HIDE DEF entry
<1>7. Page(slots, DirEntries, NoEntry) /\ Put(dir[d].slots, slots, i, entry)
  BY <1>4, <1>6, DirSlots, PutIs
<1>8. SameDirs(d, slots)
  <2>1. dir' = [dir EXCEPT ![d] = [dir[d] EXCEPT !.slots = slots]]
    BY <1>2
  <2> HIDE DEF slots
  <2>2. [dir[d] EXCEPT !.slots = slots] = [slots |-> slots, next |-> dir[d].next]
    <3>1. PICK x, y : x = dir[d].slots /\ y = dir[d].next
      OBVIOUS
    <3>2. dir[d] = [slots |-> x, next |-> y]
      BY <1>4, <3>1
    <3> QED BY <3>1, <3>2
  <2> QED BY <1>3, <2>1, <2>2 DEF SameDirs
<1> HIDE DEF slots, i
<1>9. /\ i \notin Live(dir[d].slots) /\ Live(slots) = Entries(d) \cup {i} /\ slots[i] = entry
      /\ \A j \in Entries(d) : slots[j] = dir[d].slots[j]
  <2>1. Entries(d) \subseteq 1..Len(dir[d].slots)
    BY <1>1, <1>3, DirPageFacts
  <2> QED BY <1>4, <1>7, <2>1 DEF Put
<1>10. ListOfPages(c)'
  BY <1>1, <1>3, <1>8, <1>9, ListStays
<1>11. AddedEntry(d, i, entry)
  <2>1. DOMAIN dir' = DOMAIN dir /\ \A f \in DOMAIN dir : dir'[f].slots = IF f = d THEN slots ELSE dir[f].slots
    BY <1>8 DEF SameDirs
  <2>2. DOMAIN dir' = DOMAIN dir \cup {d}
    BY <1>3, <2>1
  <2>3. \A f \in DOMAIN dir' : \A j : j \in Live(dir'[f].slots) <=>
                                     (f \in DOMAIN dir /\ j \in Entries(f)) \/ (f = d /\ j = i)
    BY <1>9, <2>1 DEF Entries
  <2>4. \A f \in DOMAIN dir : \A j \in Entries(f) : dir'[f].slots[j] = dir[f].slots[j]
    BY <1>9, <2>1
  <2> QED BY <1>3, <1>4, <1>9, <2>1, <2>2, <2>3, <2>4 DEF AddedEntry
<1>12. PagesKept'
  <2>1. DOMAIN dir' = DOMAIN dir
    BY <1>8 DEF SameDirs
  <2>2. DOMAIN data' = DOMAIN data \cup {p} /\ data'[p] = s /\ \A q \in DOMAIN data : data'[q] = data[q]
    BY <1>2, <1>5 DEF Extend
  <2>3. Page(s, Records, NoRecord) /\ FreeSpace(s, DataSize) >= 0
    BY OneRecord
  <2>4. NewPage' = p + 1
    <3>1. IsFiniteSet(DOMAIN data) /\ Cardinality(DOMAIN dir) \in Nat /\ Cardinality(DOMAIN data) \in Nat
      BY <1>1, PagesAre
    <3>2. Cardinality(DOMAIN data') = Cardinality(DOMAIN data) + 1
      BY <1>5, <2>2, <3>1, FS_AddElement
    <3>3. NewPage' = Cardinality(DOMAIN dir') + Cardinality(DOMAIN data') + 1
      BY DEF NewPage
    <3>4. p = Cardinality(DOMAIN dir) + Cardinality(DOMAIN data) + 1
      BY DEF NewPage
    <3> QED BY <2>1, <3>1, <3>2, <3>3, <3>4
  <2> HIDE DEF p, s
  <2>5. NewPage' - 1 \in 1..MaxPages /\ NewPage' - 1 = p
    BY <1>2, <1>5, <2>4, FileAssumption
  <2>6. DOMAIN dir' \cup DOMAIN data' = 1..NewPage' - 1
    BY <1>5, <2>1, <2>2, <2>5
  <2>7. DOMAIN dir' \cap DOMAIN data' = {}
    BY <1>1, <1>5, <2>1, <2>2 DEF PagesKept
  <2>8. frame' \in [DOMAIN dir' \cup DOMAIN data' -> {"clean", "dirty", "unsaved"}]
    <3>1. frame \in [DOMAIN dir \cup DOMAIN data -> {"clean", "dirty", "unsaved"}]
      BY <1>1 DEF PagesKept
    <3>2. DOMAIN frame \cup {p, d} = DOMAIN dir' \cup DOMAIN data'
      BY <1>3, <2>1, <2>2, <3>1
    <3>3. frame' = [q \in DOMAIN frame \cup {p, d} |-> IF q \in {p, d} THEN "dirty" ELSE frame[q]]
      BY <1>2 DEF Dirty
    <3>4. \A q \in DOMAIN frame \cup {p, d} : q \notin {p, d} => frame[q] \in {"clean", "dirty", "unsaved"}
      BY <3>1
    <3> QED BY <3>2, <3>3, <3>4
  <2>9. \A f \in DOMAIN dir' : /\ dir'[f] = [slots |-> dir'[f].slots, next |-> dir'[f].next]
                               /\ Page(dir'[f].slots, DirEntries, NoEntry)
    BY <1>1, <1>7, <1>8, <2>1 DEF PagesKept, SameDirs
  <2>10. \A q \in DOMAIN data' : Page(data'[q], Records, NoRecord) /\ FreeSpace(data'[q], DataSize) >= 0
    BY <1>1, <2>2, <2>3 DEF PagesKept
  <2> QED BY <2>5, <2>6, <2>7, <2>8, <2>9, <2>10 DEF PagesKept
<1> QED BY <1>10, <1>11, <1>12 DEF entry

(* A directory page without entries has space for one.                     *)
LEMMA BlankHasSpace ==
  ASSUME PagesKept, NEW d \in DOMAIN dir, Entries(d) = {}
  PROVE  available_space(dir[d].slots, DirSize) >= EntrySize
<1> DEFINE s == dir[d].slots
<1>1. /\ Page(s, DirEntries, NoEntry) /\ Live(s) = {}
  BY DirPageFacts
<1>2. s \in Seq(DirEntries) /\ Len(s) \in Nat /\ Len(s) >= 1 /\ DOMAIN s = 1..Len(s)
  BY <1>1, DirSlots, PageFacts
<1>3. \A k \in 1..Len(s) : s[k].len = 0
  BY <1>1, <1>2 DEF Live
<1> HIDE DEF s
<1>4. Len(s) = 1
  <2>1. Len(s) \in 1..Len(s)
    BY <1>2
  <2>2. ~ (Len(s) > 1)
    BY <1>1, <1>3, <2>1 DEF Page
  <2>3. PICK m \in Nat : m = Len(s) /\ m >= 1 /\ ~ (m > 1)
    BY <1>2, <2>2
  <2>4. m = 1
    BY <2>3
  <2> QED BY <2>3, <2>4
<1>5. s = << s[1] >> /\ s[1].len = 0
  BY <1>2, <1>3, <1>4
<1>6. FreeSpace(<< s[1] >>, DirSize) = DirSize - s[1].len
  <2>1. s[1].len \in Nat
    BY <1>5
  <2> QED BY <2>1, FreeOne, SizesAre
<1>7. FreeSpace(s, DirSize) = DirSize
  BY <1>5, <1>6, SizesAre
<1>8. Live(s) # DOMAIN s
  <2>1. 1 \in DOMAIN s
    BY <1>2, <1>4
  <2> QED BY <1>1, <2>1
<1>9. available_space(s, DirSize) = DirSize
  BY <1>7, <1>8 DEF available_space
<1> QED BY <1>9, FileAssumption DEF s

(* ... and in a page of its own, linked behind the last one.               *)
LEMMA NewPageLast ==
  ASSUME NEW c, Chain = c, FileKept(c), NEW v \in Values, insertIntoNewPage(v), HasDirSpace = {},
         NEW e, e = Append(c, NewPage + 1)
  PROVE  /\ ListOfPages(e)' /\ PagesKept'
         /\ AddedEntry(NewPage + 1, 1, NewEntry(NewPage, << Record(v) >>))
<1> DEFINE p == NewPage
           q == p + 1
           n == Len(c)
           l == c[n]
           s == << Record(v) >>
           entry == NewEntry(p, s)
           page == [slots |-> << entry >>, next |-> INVALID_PAGE]
<1>1. ListOfPages(c) /\ PagesKept
  BY DEF FileKept
<1>2. /\ data' = Extend(data, p, s) /\ q <= MaxPages
      /\ dir' = [Extend(dir, q, page) EXCEPT ![l].next = q]
      /\ frame' = Unsaved(Dirty({p, q}), l)
  BY DEF insertIntoNewPage, LastDir
<1>3. /\ p \in Nat /\ q \in Nat /\ p >= 2 /\ p # q /\ p \notin DOMAIN dir /\ p \notin DOMAIN data
      /\ q \notin DOMAIN dir /\ q \notin DOMAIN data
      /\ 1..q = DOMAIN dir \cup DOMAIN data \cup {p, q}
  BY <1>1, PageNumbers
<1>4. /\ n \in Nat /\ n >= 1 /\ c \in Seq(DOMAIN dir) /\ DOMAIN c = 1..n /\ c[1] = firstDirPageId
      /\ \A k \in 1..n : /\ c[k] \in DOMAIN dir
                         /\ dir[c[k]].next = IF k = n THEN INVALID_PAGE ELSE c[k + 1]
      /\ \A f \in DOMAIN dir : \E k \in 1..n : c[k] = f
      /\ \A i, j \in 1..n : c[i] = c[j] => i = j
  BY <1>1, ListFacts
<1>5. entry \in DirEntries /\ entry.len # 0 /\ entry # NoEntry
  <2>1. available_space(s, DataSize) \in Int
    BY OneRecord
  <2> HIDE DEF p, s
  <2> QED BY <1>3, <2>1, EntryIs DEF NewEntry
<1>6. Page(<< entry >>, DirEntries, NoEntry) /\ Live(<< entry >>) = {1} /\ << entry >>[1] = entry
  <2> HIDE DEF entry
  <2> QED BY <1>5, OneEntry
<1>7. \A f \in DOMAIN dir : Entries(f) # {}
  <2> SUFFICES ASSUME NEW f \in DOMAIN dir, Entries(f) = {} PROVE FALSE
    OBVIOUS
  <2>1. PICK k \in DOMAIN c : c[k] = f
    BY <1>4
  <2>2. available_space(dir[f].slots, DirSize) >= EntrySize
    BY <1>1, BlankHasSpace
  <2> QED BY <2>1, <2>2 DEF HasDirSpace
<1>8. n \in 1..n /\ l \in DOMAIN dir /\ l # q /\ l # p
  <2>1. n \in 1..n
    <3> HIDE DEF n
    <3> QED BY <1>4
  <2> QED BY <1>3, <1>4, <2>1
<1> HIDE DEF p, q, s, entry
<1>9. /\ DOMAIN dir' = DOMAIN dir \cup {q} /\ dir'[q] = page
      /\ dir'[l] = [slots |-> dir[l].slots, next |-> q]
      /\ \A f \in DOMAIN dir : f # l => dir'[f] = dir[f]
  <2> DEFINE E == Extend(dir, q, page)
  <2>1. /\ DOMAIN E = DOMAIN dir \cup {q} /\ E[q] = page
        /\ \A f \in DOMAIN dir : E[f] = dir[f]
    BY <1>3 DEF Extend
  <2>2. dir' = [E EXCEPT ![l] = [E[l] EXCEPT !.next = q]]
    BY <1>2
  <2> HIDE DEF E, page, l
  <2>3. [dir[l] EXCEPT !.next = q] = [slots |-> dir[l].slots, next |-> q]
    <3>1. dir[l] = [slots |-> dir[l].slots, next |-> dir[l].next]
      BY <1>1, <1>8 DEF PagesKept
    <3>2. PICK x, y : x = dir[l].slots /\ y = dir[l].next
      OBVIOUS
    <3>3. dir[l] = [slots |-> x, next |-> y]
      BY <3>1, <3>2
    <3> QED BY <3>2, <3>3
  <2> QED BY <1>8, <2>1, <2>2, <2>3
<1>10. /\ \A f \in DOMAIN dir : dir'[f].slots = dir[f].slots
       /\ dir'[q].slots = << entry >> /\ dir'[q].next = INVALID_PAGE /\ dir'[l].next = q
       /\ \A f \in DOMAIN dir : f # l => dir'[f].next = dir[f].next
  BY <1>8, <1>9
<1>11. AddedEntry(q, 1, entry)
  <2>1. \A f \in DOMAIN dir' : \A j : j \in Live(dir'[f].slots) <=>
                                        (f \in DOMAIN dir /\ j \in Entries(f)) \/ (f = q /\ j = 1)
    BY <1>3, <1>6, <1>9, <1>10 DEF Entries
  <2> QED BY <1>3, <1>6, <1>9, <1>10, <2>1 DEF AddedEntry
<1>12. ListOfPages(e)'
  <2>1. /\ e \in Seq(DOMAIN dir') /\ Len(e) = n + 1 /\ e[n + 1] = q
        /\ \A k \in 1..n : e[k] = c[k]
    <3>1. DOMAIN dir \subseteq DOMAIN dir' /\ q \in DOMAIN dir'
      BY <1>9
    <3> DEFINE D == DOMAIN dir
               F == DOMAIN dir'
    <3>2. c \in Seq(D)
      BY <1>4
    <3>3. D \subseteq F /\ q \in F
      BY <3>1
    <3> HIDE DEF D, F
    <3>4. c \in Seq(F)
      BY <3>2, <3>3
    <3>5. e = Append(c, q)
      BY DEF p, q
    <3> QED BY <3>3, <3>4, <3>5, AppendProperties DEF F
  <2>2. DOMAIN e = 1..n + 1
    BY <2>1, SeqFacts
  <2> HIDE DEF n
  <2>3. /\ \A k \in 1..n + 1 : k \in 1..n \/ k = n + 1
        /\ \A k \in 1..n : k \in 1..n + 1 /\ k # n + 1
        /\ n + 1 \in 1..n + 1 /\ 1 \in 1..n /\ n + 1 >= 1
    BY <1>4
  <2>4. e[1] = firstDirPageId
    BY <1>4, <2>1, <2>3
  <2>5. ToSet(e) = DOMAIN dir'
    <3>1. ToSet(e) = {e[k] : k \in 1..n + 1}
      BY <2>2 DEF ToSet
    <3> QED BY <1>4, <1>9, <2>1, <2>3, <3>1
  <2>6. \A i, j \in 1..n + 1 : e[i] = e[j] => i = j
    BY <1>3, <1>4, <2>1, <2>3
  <2>7. ASSUME NEW k \in 1..n + 1
        PROVE  dir'[e[k]].next = IF k = n + 1 THEN INVALID_PAGE ELSE e[k + 1]
    <3>1. CASE k = n + 1
      BY <1>10, <2>1, <3>1
    <3>2. CASE k = n
      <4>1. e[k] = l /\ k # n + 1 /\ e[k + 1] = q
        BY <1>8, <2>1, <2>3, <3>2
      <4> QED BY <1>10, <4>1
    <3>3. CASE k # n /\ k # n + 1
      <4>1. k \in 1..n /\ k + 1 \in 1..n
        BY <1>4, <3>3
      <4>2. c[k] # l /\ c[k] \in DOMAIN dir /\ dir[c[k]].next = c[k + 1]
        BY <1>4, <1>8, <3>3, <4>1
      <4> QED BY <1>10, <2>1, <3>3, <4>1, <4>2
    <3> QED BY <3>1, <3>2, <3>3
  <2>8. \A f \in DOMAIN dir' : Live(dir'[f].slots) # {}
    BY <1>6, <1>7, <1>9, <1>10 DEF Entries
  <2> QED BY <2>1, <2>2, <2>3, <2>4, <2>5, <2>6, <2>7, <2>8 DEF ListOfPages, Entries
<1>13. PagesKept'
  <2>2. DOMAIN data' = DOMAIN data \cup {p} /\ data'[p] = s /\ \A f \in DOMAIN data : data'[f] = data[f]
    BY <1>2, <1>3 DEF Extend
  <2>3. Page(s, Records, NoRecord) /\ FreeSpace(s, DataSize) >= 0
    BY OneRecord DEF s
  <2>4. NewPage' = q + 1
    <3>1. /\ IsFiniteSet(DOMAIN data) /\ IsFiniteSet(DOMAIN dir)
          /\ Cardinality(DOMAIN dir) \in Nat /\ Cardinality(DOMAIN data) \in Nat
      BY <1>1, PagesAre
    <3>2. Cardinality(DOMAIN data') = Cardinality(DOMAIN data) + 1
      BY <1>3, <2>2, <3>1, FS_AddElement
    <3>3. Cardinality(DOMAIN dir') = Cardinality(DOMAIN dir) + 1
      BY <1>3, <1>9, <3>1, FS_AddElement
    <3>4. NewPage' = Cardinality(DOMAIN dir') + Cardinality(DOMAIN data') + 1
      BY DEF NewPage
    <3>5. q = (Cardinality(DOMAIN dir) + Cardinality(DOMAIN data) + 1) + 1
      BY DEF NewPage, p, q
    <3> QED BY <3>1, <3>2, <3>3, <3>4, <3>5
  <2>5. NewPage' - 1 \in 1..MaxPages /\ NewPage' - 1 = q
    <3>1. q >= 1
      BY <1>3 DEF q
    <3> QED BY <1>2, <1>3, <2>4, <3>1, FileAssumption
  <2>6. DOMAIN dir' \cup DOMAIN data' = 1..NewPage' - 1
    BY <1>3, <1>9, <2>2, <2>5
  <2>7. DOMAIN dir' \cap DOMAIN data' = {}
    BY <1>1, <1>3, <1>9, <2>2 DEF PagesKept
  <2>8. frame' \in [DOMAIN dir' \cup DOMAIN data' -> {"clean", "dirty", "unsaved"}]
    <3>1. frame \in [DOMAIN dir \cup DOMAIN data -> {"clean", "dirty", "unsaved"}]
      BY <1>1 DEF PagesKept
    <3> DEFINE D == Dirty({p, q})
    <3>2. DOMAIN frame \cup {p, q} = DOMAIN dir' \cup DOMAIN data'
      BY <1>9, <2>2, <3>1
    <3>3. D = [f \in DOMAIN frame \cup {p, q} |-> IF f \in {p, q} THEN "dirty" ELSE frame[f]]
      BY DEF Dirty
    <3>4. D \in [DOMAIN frame \cup {p, q} -> {"clean", "dirty", "unsaved"}]
      BY <3>1, <3>3
    <3>5. frame' = [D EXCEPT ![l] = IF @ = "clean" THEN "unsaved" ELSE @]
      BY <1>2 DEF Unsaved
    <3> HIDE DEF D
    <3>6. frame' \in [DOMAIN frame \cup {p, q} -> {"clean", "dirty", "unsaved"}]
      BY <3>4, <3>5
    <3> QED BY <3>2, <3>6
  <2>9. \A f \in DOMAIN dir' : /\ dir'[f] = [slots |-> dir'[f].slots, next |-> dir'[f].next]
                               /\ Page(dir'[f].slots, DirEntries, NoEntry)
    BY <1>1, <1>6, <1>9, <1>10 DEF PagesKept
  <2>10. \A f \in DOMAIN data' : Page(data'[f], Records, NoRecord) /\ FreeSpace(data'[f], DataSize) >= 0
    BY <1>1, <2>2, <2>3 DEF PagesKept
  <2> QED BY <2>5, <2>6, <2>7, <2>8, <2>9, <2>10 DEF PagesKept
<1> QED BY <1>11, <1>12, <1>13 DEF entry, q, p, s

(* Both keep the invariant.                                                *)
LEMMA NewPageStep ==
  ASSUME IInv, NEW v \in Values, insertIntoNewPage(v)
  PROVE  IInv'
<1>1. PICK c : c = Chain
  OBVIOUS
<1> DEFINE p == NewPage
<1>2. Kept(c) /\ ScanMissesNothing
  <2>1. harm = "none" /\ Kept(Chain) /\ ScanMissesNothing
    BY InvIs DEF insertIntoNewPage
  <2> QED BY <1>1, <2>1
<1>3. FileKept(c) /\ ListOfPages(c) /\ PagesKept /\ EntriesAreTrue /\ RecordsAreContents /\ ScanKept(c)
  BY <1>2 DEF Kept, FileKept
<1>4. PICK e : /\ ListOfPages(e)' /\ PagesKept' /\ \A j \in DOMAIN c : j \in DOMAIN e /\ e[j] = c[j]
               /\ \E d, i : AddedEntry(d, i, NewEntry(p, << Record(v) >>))
  <2>1. CASE HasDirSpace # {}
    BY <1>1, <1>3, <2>1, NewPageOld
  <2>2. CASE HasDirSpace = {}
    <3> PICK e : e = Append(c, p + 1)
      OBVIOUS
    <3>1. /\ ListOfPages(e)' /\ PagesKept'
          /\ AddedEntry(p + 1, 1, NewEntry(p, << Record(v) >>))
      BY <1>1, <1>3, <2>2, NewPageLast
    <3>2. \A j \in DOMAIN c : j \in DOMAIN e /\ e[j] = c[j]
      <4>1. c \in Seq(DOMAIN dir) /\ DOMAIN c = 1..Len(c) /\ Len(c) \in Nat
        BY <1>3, ListFacts
      <4> DEFINE S == DOMAIN dir \cup {p + 1}
      <4>2. c \in Seq(S) /\ p + 1 \in S
        BY <4>1
      <4> HIDE DEF S
      <4>3. DOMAIN e = 1..Len(c) + 1 /\ \A j \in 1..Len(c) : e[j] = c[j]
        BY <4>2, AppendProperties
      <4>4. \A m \in Nat : \A j \in 1..m : j \in 1..m + 1
        OBVIOUS
      <4> QED BY <4>1, <4>3, <4>4
    <3> QED BY <3>1, <3>2
  <2> QED BY <2>1, <2>2
<1>5. PICK d, i : AddedEntry(d, i, NewEntry(p, << Record(v) >>))
  BY <1>4
<1>6. /\ data' = Extend(data, p, << Record(v) >>) /\ contents' = Extend(contents, << p, 1 >>, v)
      /\ UNCHANGED << scan, seen >> /\ staying' = staying
  BY DEF insertIntoNewPage, Inserted
<1>7. p \in Nat /\ p \notin DOMAIN data
  BY <1>3, PageNumbers
<1> HIDE DEF p
<1>8. /\ EntriesAreTrue' /\ RecordsAreContents'
      /\ \A f \in DOMAIN dir : \A j, q : Leads(f, j, q) => Leads(f, j, q)'
  BY <1>3, <1>5, <1>6, <1>7, NewPageTrue
<1>9. DOMAIN dir \subseteq DOMAIN dir' /\ DOMAIN data \subseteq DOMAIN data'
  BY <1>5, <1>6 DEF AddedEntry, Extend
<1>10. staying' \subseteq DOMAIN contents'
  <2>1. staying \subseteq DOMAIN contents
    BY <1>3 DEF ScanKept, ScanStands
  <2> QED BY <1>6, <2>1 DEF Extend
<1>11. ScanKept(e)' /\ ScanMissesNothing'
  BY <1>2, <1>3, <1>4, <1>6, <1>8, <1>9, <1>10, ScanStays
<1>12. Kept(e)'
  BY <1>4, <1>8, <1>11 DEF Kept, FileKept
<1> QED BY <1>11, <1>12, InvNext

(***************************************************************************)
(* deleteRecord.                                                           *)
(***************************************************************************)
(* findDataPage does not give up before a page with an entry.              *)
LEMMA SearchedAll ==
  ASSUME NEW c, Chain = c, ListOfPages(c), NEW f \in DOMAIN dir, NEW k, NEW p, Leads(f, k, p)
  PROVE  f \in Searched /\ Searched \subseteq DOMAIN dir
<1>1. /\ Len(c) \in Nat /\ DOMAIN c = 1..Len(c) /\ \A j \in 1..Len(c) : c[j] \in DOMAIN dir
      /\ Len(c) > 1 => \A g \in DOMAIN dir : Entries(g) # {}
  BY ListFacts
<1>2. PICK m \in 1..Len(c) : c[m] = f
  BY ListFacts
<1>3. \A j \in 1..m : Entries(c[j]) # {}
  <2> SUFFICES ASSUME NEW j \in 1..m PROVE Entries(c[j]) # {}
    OBVIOUS
  <2> DEFINE n == Len(c)
  <2>1. CASE n > 1
    <3>1. n \in Nat /\ m \in 1..n
      BY <1>1, <1>2
    <3> HIDE DEF n
    <3>2. j \in 1..n
      BY <3>1
    <3> QED BY <1>1, <2>1, <3>2 DEF n
  <2>2. CASE ~ (n > 1)
    <3>1. n \in Nat /\ m \in 1..n
      BY <1>1, <1>2
    <3> HIDE DEF n
    <3>2. j = m
      BY <2>2, <3>1
    <3> QED BY <1>2, <3>2 DEF Leads
  <2> QED BY <2>1, <2>2
<1>4. f \in Searched
  BY <1>1, <1>2, <1>3 DEF Searched
<1>5. Searched \subseteq DOMAIN dir
  BY <1>1 DEF Searched
<1> QED BY <1>4, <1>5

(* findDataPage finds the entry of a page that has one.                    *)
LEMMA FoundIs ==
  ASSUME NEW c, Chain = c, ListOfPages(c), PagesKept, NEW f \in DOMAIN dir, NEW k, NEW p, Leads(f, k, p)
  PROVE  findDataPage(p)[1] \in DOMAIN dir /\ Leads(findDataPage(p)[1], findDataPage(p)[2], p)
<1> DEFINE d == CHOOSE x \in Holders(p) : TRUE
           T == {j \in Entries(d) : dir[d].slots[j].page = p}
<1>1. f \in Searched /\ Searched \subseteq DOMAIN dir
  BY SearchedAll
<1>2. f \in Holders(p)
  BY <1>1 DEF Holders, Leads
<1>3. d \in Holders(p)
  BY <1>2
<1>4. d \in DOMAIN dir /\ T # {}
  BY <1>1, <1>3 DEF Holders
<1>5. findDataPage(p) = << d, First(T) >>
  BY DEF findDataPage
<1> HIDE DEF d
<1>6. T \in SUBSET Nat
  BY <1>4, DirPageFacts
<1>7. First(T) \in T
  <2> HIDE DEF T
  <2> QED BY <1>4, <1>6, FirstIs
<1> QED BY <1>4, <1>5, <1>7 DEF Leads

(* A page without live slots is empty.                                     *)
LEMMA BlankIsEmpty ==
  ASSUME NEW S, NEW hole, SlotType(S, hole), NEW s, Page(s, S, hole)
  PROVE  /\ Live(s) = {} => empty(s)
         /\ ~ empty(s) => Live(s) # {}
<1>1. Len(s) \in Nat /\ Len(s) >= 1 /\ DOMAIN s = 1..Len(s)
  BY PageFacts
<1>2. PICK m \in Nat : m = Len(s) /\ m >= 1
  BY <1>1
<1>3. m = 1 \/ m > 1
  BY <1>2
<1>4. m \in 1..m
  BY <1>2
<1>5. m > 1 => Live(s) # {}
  <2> SUFFICES ASSUME m > 1 PROVE Live(s) # {}
    OBVIOUS
  <2>1. s[m].len # 0 /\ m \in DOMAIN s
    BY <1>1, <1>2, <1>4 DEF Page
  <2> QED BY <2>1 DEF Live
<1> QED BY <1>2, <1>3, <1>5 DEF empty

(* What the step does to the data page.                                    *)
Deleted(r, d, i, slots) ==
  /\ r[1] \in DOMAIN data /\ d \in DOMAIN dir /\ Leads(d, i, r[1])
  /\ SamePages(r[1], slots) /\ Page(slots, Records, NoRecord) /\ FreeSpace(slots, DataSize) >= 0
  /\ available_space(data[r[1]], DataSize) <= available_space(slots, DataSize)
  /\ available_space(data[r[1]], DataSize) \in Int /\ available_space(slots, DataSize) \in Int
  /\ Live(slots) = Live(data[r[1]]) \ {r[2]} /\ \A j \in Live(slots) : slots[j] = data[r[1]][j]

(* What it does to the directory page, if no part of the file is lost.     *)
Dropped(c, d, i, slots, entries) ==
  /\ SameDirs(d, entries) /\ Page(entries, DirEntries, NoEntry)
  /\ Live(entries) = IF Live(slots) = {} THEN Entries(d) \ {i} ELSE Entries(d)
  /\ \A j \in Live(entries) : entries[j] = dir[d].slots[j]
  /\ Len(c) > 1 => Live(entries) # {}

LEMMA DeletedIs ==
  ASSUME NEW c, Chain = c, FileKept(c), NEW r \in DOMAIN contents, deleteRecord(r)
  PROVE  \E d, i, slots : /\ Deleted(r, d, i, slots) /\ frame' = Dirty({r[1], d})
                          /\ harm' = "none" => \E entries : Dropped(c, d, i, slots, entries)
                          /\ \/ DOMAIN dir' = DOMAIN dir /\ \A f \in DOMAIN dir : dir'[f].next = dir[f].next
                             \/ dir' = [q \in DOMAIN dir \ {d} |-> dir[q]]
<1> DEFINE p == r[1]
           d == findDataPage(p)[1]
           i == findDataPage(p)[2]
           slots == Without(data[p], r[2], NoRecord)
           entries == IF empty(slots) THEN Without(dir[d].slots, i, NoEntry) ELSE dir[d].slots
           freed == empty(entries) /\ d \notin Pinned
<1>1. ListOfPages(c) /\ PagesKept /\ RecordsAreContents
  BY DEF FileKept
<1>2. /\ data' = [data EXCEPT ![p] = slots]
      /\ dir' = IF freed THEN [q \in DOMAIN dir \ {d} |-> dir[q]]
                ELSE [dir EXCEPT ![d].slots = entries]
      /\ frame' = Dirty({p, d}) /\ harm = "none"
  BY DEF deleteRecord
<1>3. /\ p \in DOMAIN data /\ r[2] \in Live(data[p])
      /\ \E f \in DOMAIN dir : \E j \in DOMAIN dir[f].slots : Leads(f, j, p)
  BY <1>1 DEF RecordsAreContents
<1>4. d \in DOMAIN dir /\ Leads(d, i, p)
  <2> HIDE DEF p
  <2>1. PICK f \in DOMAIN dir : \E j \in DOMAIN dir[f].slots : Leads(f, j, p)
    BY <1>3
  <2>2. PICK j \in DOMAIN dir[f].slots : Leads(f, j, p)
    BY <2>1
  <2> QED BY <1>1, <2>2, FoundIs
<1>5. Page(data[p], Records, NoRecord) /\ FreeSpace(data[p], DataSize) >= 0
  BY <1>1, <1>3 DEF PagesKept
<1>6. harm' = "none" => /\ ~ (empty(slots) /\ Live(slots) # {}) /\ ~ freed
                        /\ ~ (empty(entries) /\ Live(entries) = {} /\ Len(c) > 1)
  <2>1. harm' = CASE empty(slots) /\ Live(slots) # {} -> "a record left in slot 0"
                  [] freed -> "a directory page freed"
                  [] empty(entries) /\ ~ freed /\ Live(entries) = {} /\ Len(c) > 1
                       -> "a directory page emptied"
                  [] OTHER -> harm
    BY DEF deleteRecord
  <2> DEFINE A == empty(slots) /\ Live(slots) # {}
             C == empty(entries) /\ Live(entries) = {} /\ Len(c) > 1
  <2>2. harm' = CASE A -> "a record left in slot 0" [] freed -> "a directory page freed"
                  [] C /\ ~ freed -> "a directory page emptied" [] OTHER -> harm
    BY <2>1
  <2> HIDE DEF A, C, freed
  <2>3. harm' = "none" => ~ A /\ ~ freed /\ ~ C
    BY <2>2
  <2> QED BY <2>3 DEF A, C
<1> HIDE DEF freed
<1>7. /\ Page(slots, Records, NoRecord) /\ Cut(data[p], slots, r[2])
      /\ FreeSpace(slots, DataSize) >= 0
      /\ available_space(data[p], DataSize) <= available_space(slots, DataSize)
      /\ available_space(data[p], DataSize) \in Int /\ available_space(slots, DataSize) \in Int
  BY <1>3, <1>5, DataSlots, CutIs, CutFrees, SizesAre
<1> HIDE DEF slots
<1>8. Live(slots) = Live(data[p]) \ {r[2]} /\ \A j \in Live(slots) : slots[j] = data[p][j]
  <2>1. DOMAIN slots = 1..Len(slots)
    BY <1>7, DataSlots, PageFacts
  <2> QED BY <1>7, <2>1 DEF Cut, Live
<1> HIDE DEF d, i
<1>9. SamePages(p, slots)
  BY <1>2, <1>3 DEF SamePages
<1>10. Deleted(r, d, i, slots)
  BY <1>3, <1>4, <1>7, <1>8, <1>9 DEF Deleted
<1>11. dir[d] = [slots |-> dir[d].slots, next |-> dir[d].next] /\ Page(dir[d].slots, DirEntries, NoEntry)
       /\ Entries(d) = Live(dir[d].slots) /\ i \in Live(dir[d].slots)
  BY <1>1, <1>4, DirPageFacts DEF Leads
<1>12. /\ Page(entries, DirEntries, NoEntry)
       /\ Live(entries) = IF empty(slots) THEN Entries(d) \ {i} ELSE Entries(d)
       /\ \A j \in Live(entries) : entries[j] = dir[d].slots[j]
  <2>1. CASE ~ empty(slots)
    <3>1. entries = dir[d].slots
      BY <2>1
    <3> QED BY <1>11, <2>1, <3>1
  <2>2. CASE empty(slots)
    <3> DEFINE cut == Without(dir[d].slots, i, NoEntry)
    <3>1. entries = cut
      BY <2>2
    <3>2. Page(cut, DirEntries, NoEntry) /\ Cut(dir[d].slots, cut, i)
      BY <1>11, DirSlots, CutIs
    <3> HIDE DEF cut, entries
    <3>3. DOMAIN cut = 1..Len(cut)
      BY <3>2, DirSlots, PageFacts
    <3> QED BY <1>11, <2>2, <3>1, <3>2, <3>3 DEF Cut, Live
  <2> QED BY <2>1, <2>2
<1> HIDE DEF entries
<1>13. ~ freed => SameDirs(d, entries)
  <2> SUFFICES ASSUME ~ freed PROVE SameDirs(d, entries)
    OBVIOUS
  <2>1. dir' = [dir EXCEPT ![d] = [dir[d] EXCEPT !.slots = entries]]
    BY <1>2
  <2>2. [dir[d] EXCEPT !.slots = entries] = [slots |-> entries, next |-> dir[d].next]
    <3>1. PICK x, y : x = dir[d].slots /\ y = dir[d].next
      OBVIOUS
    <3>2. dir[d] = [slots |-> x, next |-> y]
      BY <1>11, <3>1
    <3> QED BY <3>1, <3>2
  <2> QED BY <1>4, <2>1, <2>2 DEF SameDirs
<1>14. \/ DOMAIN dir' = DOMAIN dir /\ \A f \in DOMAIN dir : dir'[f].next = dir[f].next
       \/ dir' = [q \in DOMAIN dir \ {d} |-> dir[q]]
  <2>1. CASE ~ freed
    BY <1>13, <2>1 DEF SameDirs
  <2>2. CASE freed
    BY <1>2, <2>2
  <2> QED BY <2>1, <2>2
<1>15. harm' = "none" => Dropped(c, d, i, slots, entries)
  <2> SUFFICES ASSUME harm' = "none" PROVE Dropped(c, d, i, slots, entries)
    OBVIOUS
  <2>1. /\ ~ (empty(slots) /\ Live(slots) # {}) /\ ~ freed
        /\ ~ (empty(entries) /\ Live(entries) = {} /\ Len(c) > 1)
    BY <1>6
  <2>2. empty(slots) <=> Live(slots) = {}
    BY <1>7, <2>1, DataSlots, BlankIsEmpty
  <2>3. Len(c) > 1 => Live(entries) # {}
    BY <1>12, <2>1, DirSlots, BlankIsEmpty
  <2> QED BY <1>12, <1>13, <2>1, <2>2, <2>3 DEF Dropped
<1>16. frame' = Dirty({r[1], d})
  BY <1>2
<1> QED BY <1>10, <1>14, <1>15, <1>16

(* The directory stays true of the records that are left.                  *)
LEMMA DeleteKeeps ==
  ASSUME NEW c, FileKept(c), NEW r \in DOMAIN contents, NEW d, NEW i, NEW slots, NEW entries,
         Deleted(r, d, i, slots), Dropped(c, d, i, slots, entries), frame' = Dirty({r[1], d}),
         contents' = [q \in DOMAIN contents \ {r} |-> contents[q]]
  PROVE  /\ FileKept(c)'
         /\ \A q \in DOMAIN contents' : \A f \in DOMAIN dir : \A j : Leads(f, j, q[1]) => Leads(f, j, q[1])'
<1> DEFINE p == r[1]
           gone == Live(slots) = {}
<1>1. ListOfPages(c) /\ PagesKept /\ EntriesAreTrue /\ RecordsAreContents
  BY DEF FileKept
<1>2. /\ p \in DOMAIN data /\ d \in DOMAIN dir /\ Leads(d, i, p)
      /\ SamePages(p, slots) /\ Page(slots, Records, NoRecord) /\ FreeSpace(slots, DataSize) >= 0
      /\ available_space(data[p], DataSize) <= available_space(slots, DataSize)
      /\ available_space(data[p], DataSize) \in Int /\ available_space(slots, DataSize) \in Int
      /\ Live(slots) = Live(data[p]) \ {r[2]} /\ \A j \in Live(slots) : slots[j] = data[p][j]
  BY DEF Deleted
<1>3. /\ SameDirs(d, entries) /\ Page(entries, DirEntries, NoEntry)
      /\ Live(entries) = IF gone THEN Entries(d) \ {i} ELSE Entries(d)
      /\ \A j \in Live(entries) : entries[j] = dir[d].slots[j]
      /\ Len(c) > 1 => Live(entries) # {}
  BY DEF Dropped
<1>4. r = << p, r[2] >>
  BY <1>1 DEF RecordsAreContents
<1> HIDE DEF gone, p
<1>5. i \in Entries(d) /\ dir[d].slots[i].page = p
  BY <1>2 DEF Leads
<1>6. /\ DOMAIN dir' = DOMAIN dir
      /\ \A f \in DOMAIN dir : \A j : j \in Live(dir'[f].slots) <=>
                                        j \in Entries(f) /\ ~ (gone /\ f = d /\ j = i)
      /\ \A f \in DOMAIN dir : \A j \in Live(dir'[f].slots) : dir'[f].slots[j] = dir[f].slots[j]
  <2>1. DOMAIN dir' = DOMAIN dir /\ \A f \in DOMAIN dir : dir'[f].slots = IF f = d THEN entries ELSE dir[f].slots
    BY <1>3 DEF SameDirs
  <2> QED BY <1>3, <2>1 DEF Entries
<1>7. DOMAIN data' = DOMAIN data /\ \A q \in DOMAIN data : data'[q] = IF q = p THEN slots ELSE data[q]
  BY <1>2 DEF SamePages
<1>8. \A f \in DOMAIN dir : \A j \in Entries(f) :
        /\ dir[f].slots[j].page \in DOMAIN data
        /\ TrueOf(dir[f].slots[j], data[dir[f].slots[j].page])
        /\ \A g \in DOMAIN dir : \A k \in Entries(g) :
             dir[g].slots[k].page = dir[f].slots[j].page => g = f /\ k = j
  BY <1>1, EntryFacts
<1>9. ListOfPages(c)'
  BY <1>1, <1>2, <1>3, ListStays
<1>10. PagesKept'
  <2>1. frame' \in [DOMAIN frame -> {"clean", "dirty", "unsaved"}]
    <3>1. frame \in [DOMAIN frame -> {"clean", "dirty", "unsaved"}] /\ p \in DOMAIN frame /\ d \in DOMAIN frame
      BY <1>1, <1>2 DEF PagesKept
    <3>2. DOMAIN frame \cup {p, d} = DOMAIN frame
      BY <3>1
    <3>3. frame' = Dirty({p, d})
      BY DEF p
    <3> QED BY <3>1, <3>2, <3>3 DEF Dirty
  <2> QED BY <1>1, <1>2, <1>3, <2>1, PagesStay
<1>11. ASSUME ~ gone PROVE TrueOf(dir[d].slots[i], slots)
  <2> DEFINE entry == dir[d].slots[i]
             a == available_space(data[p], DataSize)
             b == available_space(slots, DataSize)
  <2>1. entry.availspace <= a /\ entry.recct >= Cardinality(Live(data[p]))
    BY <1>2, <1>5, <1>8 DEF TrueOf
  <2>2. entry.availspace \in Int /\ entry.recct \in Nat
    <3>1. entry \in DirEntries
      BY <1>1, <1>2, <1>5, DirPageFacts
    <3> QED BY <3>1 DEF DirEntries
  <2>3. entry.availspace <= b
    <3>1. a \in Int /\ b \in Int /\ a <= b
      BY <1>2
    <3> DEFINE x == entry.availspace
    <3>2. x \in Int /\ x <= a
      BY <2>1, <2>2
    <3> HIDE DEF a, b, x
    <3>3. x <= b
      BY <3>1, <3>2
    <3> QED BY <3>3 DEF x
  <2>4. entry.recct >= Cardinality(Live(slots))
    <3>1. Page(data[p], Records, NoRecord)
      BY <1>1, <1>2 DEF PagesKept
    <3>2. IsFiniteSet(Live(data[p])) /\ Cardinality(Live(data[p])) \in Nat
      BY <3>1, DataSlots, PageFacts
    <3>3. Live(slots) \subseteq Live(data[p])
      BY <1>2
    <3>4. Cardinality(Live(slots)) \in Nat /\ Cardinality(Live(slots)) <= Cardinality(Live(data[p]))
      BY <3>2, <3>3, FS_Subset, FS_CardinalityType
    <3> QED BY <2>1, <2>2, <3>2, <3>4
  <2> QED BY <1>11, <2>3, <2>4 DEF TrueOf, gone
<1>12. EntriesAreTrue'
  <2>1. ASSUME NEW f \in DOMAIN dir', NEW j \in Live(dir'[f].slots)
        PROVE  /\ dir'[f].slots[j].page \in DOMAIN data'
               /\ TrueOf(dir'[f].slots[j], data'[dir'[f].slots[j].page])
               /\ \A g \in DOMAIN dir' : \A k \in Live(dir'[g].slots) :
                    dir'[g].slots[k].page = dir'[f].slots[j].page => g = f /\ k = j
    <3>1. f \in DOMAIN dir /\ j \in Entries(f) /\ dir'[f].slots[j] = dir[f].slots[j]
      BY <1>6
    <3>2. \A g \in DOMAIN dir' : \A k \in Live(dir'[g].slots) :
            dir'[g].slots[k].page = dir'[f].slots[j].page => g = f /\ k = j
      BY <1>6, <1>8, <3>1
    <3>3. CASE f = d /\ j = i
      <4>1. ~ gone
        BY <1>6, <3>3
      <4> QED BY <1>2, <1>5, <1>7, <1>11, <3>1, <3>2, <3>3, <4>1
    <3>4. CASE ~ (f = d /\ j = i)
      <4>1. dir[f].slots[j].page \in DOMAIN data /\ dir[f].slots[j].page # p
        BY <1>2, <1>5, <1>8, <3>1, <3>4
      <4> QED BY <1>7, <1>8, <3>1, <3>2, <4>1
    <3> QED BY <3>3, <3>4
  <2> QED BY <2>1 DEF EntriesAreTrue, Entries, TrueOf
<1>13. DOMAIN contents' = DOMAIN contents \ {r} /\ \A q \in DOMAIN contents' : contents'[q] = contents[q]
  OBVIOUS
<1>14. \A q \in DOMAIN contents :
         /\ q = << q[1], q[2] >> /\ q[1] \in DOMAIN data /\ q[2] \in Live(data[q[1]])
         /\ data[q[1]][q[2]] = Record(contents[q]) /\ contents[q] \in Values
         /\ \E f \in DOMAIN dir : \E j \in DOMAIN dir[f].slots : Leads(f, j, q[1])
  BY <1>1 DEF RecordsAreContents
<1>15. ASSUME NEW q \in DOMAIN contents'
       PROVE  /\ q[2] \in Live(data'[q[1]]) /\ data'[q[1]][q[2]] = data[q[1]][q[2]]
              /\ ~ (gone /\ q[1] = p)
  <2>1. /\ q \in DOMAIN contents /\ q # r /\ q = << q[1], q[2] >> /\ q[1] \in DOMAIN data
        /\ q[2] \in Live(data[q[1]])
    BY <1>13, <1>14
  <2>2. CASE q[1] = p
    <3>1. q[2] # r[2]
      BY <1>4, <2>1, <2>2
    <3>2. q[2] \in Live(slots)
      BY <1>2, <2>1, <2>2, <3>1
    <3> QED BY <1>2, <1>7, <2>1, <2>2, <3>2 DEF gone
  <2>3. CASE q[1] # p
    BY <1>7, <2>1, <2>3
  <2> QED BY <2>2, <2>3
<1>16. ASSUME NEW q \in DOMAIN contents', NEW f \in DOMAIN dir, NEW j, Leads(f, j, q[1])
       PROVE  Leads(f, j, q[1])'
  <2>1. j \in Entries(f) /\ dir[f].slots[j].page = q[1]
    BY <1>16 DEF Leads
  <2>2. ~ (gone /\ f = d /\ j = i)
    BY <1>5, <1>15, <2>1
  <2>3. j \in Live(dir'[f].slots) /\ dir'[f].slots[j].page = q[1]
    BY <1>6, <2>1, <2>2
  <2> QED BY <2>3 DEF Leads, Entries
<1>17. RecordsAreContents'
  <2>1. ASSUME NEW q \in DOMAIN contents'
        PROVE  /\ q = << q[1], q[2] >> /\ q[1] \in DOMAIN data' /\ q[2] \in Live(data'[q[1]])
               /\ data'[q[1]][q[2]] = Record(contents'[q]) /\ contents'[q] \in Values
               /\ \E f \in DOMAIN dir' : \E j \in DOMAIN dir'[f].slots : Leads(f, j, q[1])'
    <3>1. /\ q \in DOMAIN contents /\ contents'[q] = contents[q]
      BY <1>13
    <3>2. PICK f \in DOMAIN dir : \E j \in DOMAIN dir[f].slots : Leads(f, j, q[1])
      BY <1>14, <3>1
    <3>3. PICK j \in DOMAIN dir[f].slots : Leads(f, j, q[1])
      BY <3>2
    <3>4. Leads(f, j, q[1])' /\ f \in DOMAIN dir' /\ j \in DOMAIN dir'[f].slots
      <4>1. Leads(f, j, q[1])'
        BY <1>16, <3>3
      <4>2. j \in Live(dir'[f].slots)
        BY <4>1 DEF Leads, Entries
      <4> QED BY <1>6, <4>1, <4>2 DEF Live
    <3> QED BY <1>7, <1>14, <1>15, <3>1, <3>4
  <2>2. ASSUME NEW f \in DOMAIN dir', NEW j \in Live(dir'[f].slots), NEW k \in Live(data'[dir'[f].slots[j].page])
        PROVE  << dir'[f].slots[j].page, k >> \in DOMAIN contents'
    <3> DEFINE q == dir[f].slots[j].page
    <3>1. f \in DOMAIN dir /\ j \in Entries(f) /\ dir'[f].slots[j].page = q
      BY <1>6
    <3>2. q \in DOMAIN data
      BY <1>8, <3>1
    <3>3. k \in Live(data[q]) /\ ~ (q = p /\ k = r[2])
      BY <1>2, <1>7, <3>1, <3>2
    <3>4. << q, k >> \in DOMAIN contents
      BY <1>1, <3>1, <3>3 DEF RecordsAreContents
    <3>5. << q, k >> # r
      BY <1>4, <3>3
    <3> QED BY <1>13, <3>1, <3>4, <3>5
  <2> QED BY <2>1, <2>2 DEF RecordsAreContents, Entries
<1> QED BY <1>9, <1>10, <1>12, <1>16, <1>17 DEF FileKept

(* A data page that changes leaves the types as they are.                  *)
LEMMA TypesStay ==
  ASSUME TypeOK, DOMAIN dir' \subseteq DOMAIN dir, \A f \in DOMAIN dir' : dir'[f].next = dir[f].next,
         DOMAIN data' = DOMAIN data,
         \A p \in DOMAIN data : \/ data'[p] = data[p]
                               \/ /\ Page(data'[p], Records, NoRecord)
                                  /\ FreeSpace(data'[p], DataSize) >= 0,
         frame' \in [DOMAIN frame -> {"clean", "dirty", "unsaved"}], scan' = scan
  PROVE  TypeOK'
<1>1. \A p \in DOMAIN data' : /\ data'[p] # << >> /\ FreeSpace(data'[p], DataSize) >= 0
                              /\ Len(data'[p]) > 1 => data'[p][Len(data'[p])].len # 0
  <2> SUFFICES ASSUME NEW p \in DOMAIN data
               PROVE  /\ data'[p] # << >> /\ FreeSpace(data'[p], DataSize) >= 0
                      /\ Len(data'[p]) > 1 => data'[p][Len(data'[p])].len # 0
    OBVIOUS
  <2>1. CASE data'[p] = data[p]
    BY <2>1 DEF TypeOK
  <2>2. CASE Page(data'[p], Records, NoRecord) /\ FreeSpace(data'[p], DataSize) >= 0
    <3> PICK s : s = data'[p]
      OBVIOUS
    <3>1. Len(s) >= 1 /\ (Len(s) > 1 => s[Len(s)].len # 0)
      BY <2>2 DEF Page
    <3>2. s # << >>
      <4>1. Len(<< >>) = 0
        OBVIOUS
      <4>2. ~ (0 >= 1)
        OBVIOUS
      <4> QED BY <3>1, <4>1, <4>2
    <3> QED BY <2>2, <3>1, <3>2
  <2> QED BY <2>1, <2>2
<1>2. DOMAIN frame' = DOMAIN frame
  OBVIOUS
<1> QED BY <1>1, <1>2 DEF TypeOK

(* A deletion keeps the invariant, or a part of the file is lost.          *)
LEMMA DeleteStep ==
  ASSUME IInv, NEW r \in DOMAIN contents, deleteRecord(r)
  PROVE  IInv'
<1>1. PICK c : c = Chain
  OBVIOUS
<1>2. Kept(c) /\ ScanMissesNothing /\ TypeOK
  <2>1. harm = "none" /\ Kept(Chain) /\ ScanMissesNothing /\ TypeOK
    BY InvIs DEF deleteRecord
  <2> QED BY <1>1, <2>1
<1>3. FileKept(c) /\ ListOfPages(c) /\ PagesKept /\ ScanKept(c)
  BY <1>2 DEF Kept, FileKept
<1>4. PICK d, i, slots : /\ Deleted(r, d, i, slots) /\ frame' = Dirty({r[1], d})
                         /\ harm' = "none" => \E entries : Dropped(c, d, i, slots, entries)
                         /\ \/ DOMAIN dir' = DOMAIN dir /\ \A f \in DOMAIN dir : dir'[f].next = dir[f].next
                            \/ dir' = [q \in DOMAIN dir \ {d} |-> dir[q]]
  BY <1>1, <1>3, DeletedIs
<1>5. /\ contents' = [q \in DOMAIN contents \ {r} |-> contents[q]] /\ staying' = staying \ {r}
      /\ scan' = scan /\ seen' = seen
  BY DEF deleteRecord
<1>6. CASE harm' = "none"
  <2>1. PICK entries : Dropped(c, d, i, slots, entries)
    BY <1>4, <1>6
  <2>2. /\ FileKept(c)'
        /\ \A q \in DOMAIN contents' : \A f \in DOMAIN dir : \A j : Leads(f, j, q[1]) => Leads(f, j, q[1])'
    BY <1>3, <1>4, <1>5, <2>1, DeleteKeeps
  <2>3. DOMAIN dir' = DOMAIN dir /\ DOMAIN data' = DOMAIN data
    BY <1>4, <2>1 DEF Dropped, Deleted, SameDirs, SamePages
  <2>4. staying' \subseteq DOMAIN contents'
    <3>1. staying \subseteq DOMAIN contents
      BY <1>3 DEF ScanKept, ScanStands
    <3> QED BY <1>5, <3>1
  <2>5. \A q \in staying' : \A f \in DOMAIN dir : \A j : Leads(f, j, q[1]) => Leads(f, j, q[1])'
    BY <2>2, <2>4
  <2>6. ScanKept(c)' /\ ScanMissesNothing'
    BY <1>2, <1>3, <1>5, <2>3, <2>4, <2>5, ScanStays
  <2>7. Kept(c)'
    BY <2>2, <2>6 DEF Kept
  <2> QED BY <2>6, <2>7, InvNext
<1>7. CASE harm' # "none"
  <2>1. (IInv <=> TypeOK /\ ScanMissesNothing /\ (harm = "none" => Kept(Chain)))'
    BY InvIs, PTL
  <2>2. ScanMissesNothing'
    BY <1>2, <1>5 DEF ScanMissesNothing
  <2>3. TypeOK'
    <3>1. /\ r[1] \in DOMAIN data /\ d \in DOMAIN dir /\ SamePages(r[1], slots)
          /\ Page(slots, Records, NoRecord) /\ FreeSpace(slots, DataSize) >= 0
      BY <1>4 DEF Deleted
    <3>2. DOMAIN dir' \subseteq DOMAIN dir /\ \A f \in DOMAIN dir' : dir'[f].next = dir[f].next
      BY <1>4
    <3>3. /\ DOMAIN data' = DOMAIN data
          /\ \A p \in DOMAIN data : \/ data'[p] = data[p]
                                   \/ /\ Page(data'[p], Records, NoRecord)
                                      /\ FreeSpace(data'[p], DataSize) >= 0
      <4>1. DOMAIN data' = DOMAIN data /\ \A p \in DOMAIN data : data'[p] = data[p] \/ data'[p] = slots
        BY <3>1 DEF SamePages
      <4> QED BY <3>1, <4>1
    <3>4. frame' \in [DOMAIN frame -> {"clean", "dirty", "unsaved"}]
      <4>1. frame \in [DOMAIN frame -> {"clean", "dirty", "unsaved"}] /\ r[1] \in DOMAIN frame /\ d \in DOMAIN frame
        BY <1>3, <3>1 DEF PagesKept
      <4>2. DOMAIN frame \cup {r[1], d} = DOMAIN frame
        BY <4>1
      <4> QED BY <1>4, <4>1, <4>2 DEF Dirty
    <3> QED BY <1>2, <1>5, <3>2, <3>3, <3>4, TypesStay
  <2> QED BY <1>7, <2>1, <2>2, <2>3
<1> QED BY <1>6, <1>7

(***************************************************************************)
(* updateRecord, and the pool.                                             *)
(***************************************************************************)
(* Frames are no part of what the file holds.                              *)
LEMMA FramesOnly ==
  ASSUME NEW c, FileKept(c), UNCHANGED << dir, data, contents >>,
         frame' \in [DOMAIN frame -> {"clean", "dirty", "unsaved"}]
  PROVE  FileKept(c)'
<1>1. ListOfPages(c) /\ PagesKept /\ EntriesAreTrue /\ RecordsAreContents
  BY DEF FileKept
<1>2. ListOfPages(c)'
  BY <1>1 DEF ListOfPages, Entries
<1>3. PagesKept'
  <2>1. DOMAIN frame = DOMAIN dir \cup DOMAIN data
    BY <1>1 DEF PagesKept
  <2>2. NewPage' = NewPage
    BY DEF NewPage
  <2> QED BY <1>1, <2>1, <2>2 DEF PagesKept
<1>4. EntriesAreTrue'
  BY <1>1 DEF EntriesAreTrue, Entries
<1>5. RecordsAreContents'
  BY <1>1 DEF RecordsAreContents, Leads, Entries
<1> QED BY <1>2, <1>3, <1>4, <1>5 DEF FileKept

(* A record of the same length takes the place of the old one.             *)
LEMMA UpdateStep ==
  ASSUME IInv, NEW r \in DOMAIN contents, NEW v \in Values, updateRecord(r, v)
  PROVE  IInv'
<1>1. PICK c : c = Chain
  OBVIOUS
<1> DEFINE p == r[1]
           s == data[p]
           slots == [s EXCEPT ![r[2]] = Record(v)]
<1>2. Kept(c) /\ ScanMissesNothing
  <2>1. harm = "none" /\ Kept(Chain) /\ ScanMissesNothing
    BY InvIs DEF updateRecord
  <2> QED BY <1>1, <2>1
<1>3. FileKept(c) /\ ListOfPages(c) /\ PagesKept /\ EntriesAreTrue /\ RecordsAreContents /\ ScanKept(c)
  BY <1>2 DEF Kept, FileKept
<1>4. /\ LengthOf[v] = data[p][r[2]].len /\ data' = [data EXCEPT ![p][r[2]] = Record(v)]
      /\ frame' = Unsaved(frame, p) /\ contents' = [contents EXCEPT ![r] = v]
      /\ dir' = dir /\ scan' = scan /\ seen' = seen /\ staying' = staying
  BY DEF updateRecord, cursor
<1>5. \A q \in DOMAIN contents :
         /\ q = << q[1], q[2] >> /\ q[1] \in DOMAIN data /\ q[2] \in Live(data[q[1]])
         /\ data[q[1]][q[2]] = Record(contents[q]) /\ contents[q] \in Values
         /\ \E f \in DOMAIN dir : \E j \in DOMAIN dir[f].slots : Leads(f, j, q[1])
  BY <1>3 DEF RecordsAreContents
<1>6. p \in DOMAIN data /\ r[2] \in Live(s) /\ r = << p, r[2] >>
  BY <1>5
<1>7. Page(s, Records, NoRecord) /\ FreeSpace(s, DataSize) >= 0
  BY <1>3, <1>6 DEF PagesKept
<1>8. /\ s \in Seq(Records) /\ Len(s) \in Nat /\ DOMAIN s = 1..Len(s)
      /\ \A j \in 1..Len(s) : s[j].len \in Nat
  <2> HIDE DEF s
  <2> QED BY <1>7, DataSlots, PageFacts
<1>9. DOMAIN data' = DOMAIN data /\ \A q \in DOMAIN data : data'[q] = IF q = p THEN slots ELSE data[q]
  BY <1>4, <1>6
<1>10. r[2] \in 1..Len(s) /\ s[r[2]].len # 0 /\ s[r[2]].len = Record(v).len
       /\ Record(v) \in Records /\ Record(v).len # 0 /\ Record(v) # NoRecord
  <2>1. r[2] \in 1..Len(s) /\ s[r[2]].len # 0
    BY <1>6, <1>8 DEF Live
  <2> QED BY <1>4, <2>1, RecordIs
<1> HIDE DEF s
<1>11. /\ slots \in Seq(Records) /\ Len(slots) = Len(s) /\ DOMAIN slots = DOMAIN s
       /\ \A j \in 1..Len(s) : slots[j] = IF j = r[2] THEN Record(v) ELSE s[j]
       /\ \A j \in 1..Len(s) : slots[j].len = s[j].len
  <2>1. slots \in Seq(Records) /\ Len(slots) = Len(s)
    BY <1>8, <1>10, ExceptSeq
  <2>2. DOMAIN slots = DOMAIN s
    OBVIOUS
  <2>3. \A j \in 1..Len(s) : slots[j] = IF j = r[2] THEN Record(v) ELSE s[j]
    BY <1>8
  <2>4. \A j \in 1..Len(s) : slots[j].len = s[j].len
    BY <1>10, <2>3
  <2> QED BY <2>1, <2>2, <2>3, <2>4
<1>12. FreeSpace(slots, DataSize) = FreeSpace(s, DataSize)
  <2>1. FreeSpace(slots, DataSize) = FreeSpace(s, DataSize) + s[r[2]].len - Record(v).len
    <3>1. \A x \in Records : x.len \in Nat
      BY DataSlots DEF SlotType
    <3> QED BY <1>8, <1>10, <3>1, FreeChanged, SizesAre
  <2>2. FreeSpace(s, DataSize) \in Int
    <3>1. \A x \in Records : x.len \in Nat
      BY DataSlots DEF SlotType
    <3> QED BY <1>8, <3>1, FreeSpaceType, SizesAre
  <2>3. PICK m \in Nat : m = s[r[2]].len /\ m = Record(v).len
    BY <1>8, <1>10
  <2>4. PICK x \in Int : x = FreeSpace(s, DataSize)
    BY <2>2
  <2>5. x + m - m = x
    OBVIOUS
  <2> QED BY <2>1, <2>3, <2>4, <2>5
<1> HIDE DEF slots
<1>13. Live(slots) = Live(s)
  BY <1>8, <1>11 DEF Live
<1>14. available_space(slots, DataSize) = available_space(s, DataSize)
  BY <1>11, <1>12, <1>13 DEF available_space
<1>15. Page(slots, Records, NoRecord)
  <2>1. \A j \in 1..Len(s) : slots[j].len = 0 <=> slots[j] = NoRecord
    BY <1>7, <1>8, <1>10, <1>11 DEF Page
  <2>2. Len(s) >= 1 /\ (Len(s) > 1 => s[Len(s)].len # 0)
    BY <1>7 DEF Page
  <2>3. Len(s) \in 1..Len(s)
    BY <1>8, <2>2
  <2>4. Len(s) > 1 => slots[Len(s)].len # 0
    BY <1>11, <2>2, <2>3
  <2> QED BY <1>8, <1>11, <2>1, <2>2, <2>4 DEF Page
<1>16. ListOfPages(c)'
  BY <1>3, <1>4 DEF ListOfPages, Entries
<1>17. PagesKept'
  <2>1. frame \in [DOMAIN dir \cup DOMAIN data -> {"clean", "dirty", "unsaved"}]
    BY <1>3 DEF PagesKept
  <2>2. frame' \in [DOMAIN dir \cup DOMAIN data -> {"clean", "dirty", "unsaved"}]
    BY <1>4, <1>6, <2>1 DEF Unsaved
  <2>3. NewPage' = NewPage
    BY <1>4, <1>9 DEF NewPage
  <2>4. \A q \in DOMAIN data : Page(data'[q], Records, NoRecord) /\ FreeSpace(data'[q], DataSize) >= 0
    <3>1. FreeSpace(slots, DataSize) >= 0
      BY <1>7, <1>12
    <3>2. \A q \in DOMAIN data : data'[q] = data[q] \/ data'[q] = slots
      BY <1>9
    <3> QED BY <1>3, <1>15, <3>1, <3>2 DEF PagesKept
  <2> QED BY <1>3, <1>4, <1>9, <2>2, <2>3, <2>4 DEF PagesKept
<1>18. \A q \in DOMAIN data : /\ Live(data'[q]) = Live(data[q])
                              /\ available_space(data'[q], DataSize) = available_space(data[q], DataSize)
  BY <1>9, <1>13, <1>14 DEF s
<1>19. EntriesAreTrue'
  <2>1. ASSUME NEW f \in DOMAIN dir, NEW j \in Entries(f)
        PROVE  /\ dir[f].slots[j].page \in DOMAIN data
               /\ TrueOf(dir[f].slots[j], data'[dir[f].slots[j].page])
               /\ \A g \in DOMAIN dir : \A k \in Entries(g) :
                    dir[g].slots[k].page = dir[f].slots[j].page => g = f /\ k = j
    <3>1. /\ dir[f].slots[j].page \in DOMAIN data
          /\ TrueOf(dir[f].slots[j], data[dir[f].slots[j].page])
          /\ \A g \in DOMAIN dir : \A k \in Entries(g) :
               dir[g].slots[k].page = dir[f].slots[j].page => g = f /\ k = j
      BY <1>3, EntryFacts
    <3>2. TrueOf(dir[f].slots[j], data'[dir[f].slots[j].page])
      BY <1>18, <3>1 DEF TrueOf
    <3> QED BY <3>1, <3>2
  <2> QED BY <1>4, <1>9, <2>1 DEF EntriesAreTrue, Entries, TrueOf
<1>20. DOMAIN contents' = DOMAIN contents /\ \A q \in DOMAIN contents : contents'[q] = IF q = r THEN v ELSE contents[q]
  BY <1>4
<1>21. RecordsAreContents'
  <2>1. ASSUME NEW q \in DOMAIN contents
        PROVE  data'[q[1]][q[2]] = Record(contents'[q]) /\ contents'[q] \in Values
    <3>1. /\ q = << q[1], q[2] >> /\ q[1] \in DOMAIN data /\ q[2] \in Live(data[q[1]])
          /\ data[q[1]][q[2]] = Record(contents[q]) /\ contents[q] \in Values
      BY <1>5
    <3>2. CASE q[1] = p
      <4>1. q[2] \in 1..Len(s) /\ data'[q[1]] = slots
        BY <1>8, <1>9, <3>1, <3>2 DEF Live, s
      <4>2. q = r <=> q[2] = r[2]
        BY <1>6, <3>1, <3>2
      <4>3. CASE q = r
        BY <1>11, <1>20, <4>1, <4>3
      <4>4. CASE q # r
        BY <1>11, <1>20, <3>1, <3>2, <4>1, <4>2, <4>4 DEF s
      <4> QED BY <4>3, <4>4
    <3>3. CASE q[1] # p
      BY <1>9, <1>20, <3>1, <3>3
    <3> QED BY <3>2, <3>3
  <2>2. \A q \in DOMAIN contents : \E f \in DOMAIN dir' : \E j \in DOMAIN dir'[f].slots : Leads(f, j, q[1])'
    BY <1>4, <1>5 DEF Leads, Entries
  <2>3. \A f \in DOMAIN dir : \A j \in Entries(f) : \A k \in Live(data'[dir[f].slots[j].page]) :
          << dir[f].slots[j].page, k >> \in DOMAIN contents
    <3>1. \A f \in DOMAIN dir : \A j \in Entries(f) : dir[f].slots[j].page \in DOMAIN data
      BY <1>3, EntryFacts
    <3> QED BY <1>3, <1>18, <3>1 DEF RecordsAreContents
  <2>4. \A q \in DOMAIN contents : /\ q = << q[1], q[2] >> /\ q[1] \in DOMAIN data'
                                   /\ q[2] \in Live(data'[q[1]])
    BY <1>5, <1>9, <1>18
  <2> QED BY <1>4, <1>20, <2>1, <2>2, <2>3, <2>4 DEF RecordsAreContents, Entries
<1>22. \A f \in DOMAIN dir : \A j, q : Leads(f, j, q) => Leads(f, j, q)'
  BY <1>4 DEF Leads, Entries
<1>23. ScanKept(c)' /\ ScanMissesNothing'
  <2>1. staying' \subseteq DOMAIN contents'
    BY <1>3, <1>4, <1>20 DEF ScanKept, ScanStands
  <2>2. DOMAIN dir' = DOMAIN dir /\ DOMAIN data' = DOMAIN data
    BY <1>4, <1>9
  <2> QED BY <1>2, <1>3, <1>4, <1>22, <2>1, <2>2, ScanStays
<1>24. Kept(c)'
  BY <1>16, <1>17, <1>19, <1>21, <1>23 DEF Kept, FileKept
<1> QED BY <1>23, <1>24, InvNext

(* The pool throws out a page, and with it the changes of one that is      *)
(* "unsaved".                                                              *)
LEMMA EvictStep ==
  ASSUME IInv, NEW p \in DOMAIN frame, evict(p)
  PROVE  IInv'
<1>1. PICK c : c = Chain
  OBVIOUS
<1>2. Kept(c) /\ ScanMissesNothing /\ TypeOK
  <2>1. harm = "none" /\ Kept(Chain) /\ ScanMissesNothing /\ TypeOK
    BY InvIs DEF evict
  <2> QED BY <1>1, <2>1
<1>3. FileKept(c) /\ ListOfPages(c) /\ PagesKept /\ ScanKept(c)
  BY <1>2 DEF Kept, FileKept
<1>4. /\ UNCHANGED << dir, data, contents, scan, seen, staying >>
      /\ frame' = [frame EXCEPT ![p] = "clean"]
  BY DEF evict, cursor
<1>5. frame' \in [DOMAIN frame -> {"clean", "dirty", "unsaved"}]
  <2>1. frame \in [DOMAIN frame -> {"clean", "dirty", "unsaved"}]
    BY <1>3 DEF PagesKept
  <2> QED BY <1>4, <2>1
<1>6. FileKept(c)'
  BY <1>3, <1>4, <1>5, FramesOnly
<1>7. ScanKept(c)' /\ ScanMissesNothing'
  <2>1. \A f \in DOMAIN dir : \A j, q : Leads(f, j, q) => Leads(f, j, q)'
    BY <1>4 DEF Leads, Entries
  <2>2. staying' \subseteq DOMAIN contents'
    BY <1>3, <1>4 DEF ScanKept, ScanStands
  <2> QED BY <1>2, <1>3, <1>4, <2>1, <2>2, ScanStays
<1>8. Kept(c)'
  BY <1>6, <1>7 DEF Kept
<1> QED BY <1>7, <1>8, InvNext

(***************************************************************************)
(* The scan.                                                               *)
(***************************************************************************)
(* A scan that is at record i of page p, at entry e of directory page d,   *)
(* has r there or ahead.                                                   *)
At(c, p, i, d, e, r) ==
  \/ r[1] = p /\ r[2] >= i
  \/ \E k \in Entries(d) : k > e /\ Leads(d, k, r[1])
  \/ \E j, k \in DOMAIN c : /\ j < k /\ c[j] = d
                            /\ \E m \in Entries(c[k]) : Leads(c[k], m, r[1])

(* Returning that record leaves the others ahead.                          *)
LEMMA ReturnKeeps ==
  ASSUME NEW c, FileKept(c), ScanStands, scan.state = "on", NEW p \in DOMAIN data, NEW i \in Nat,
         NEW d \in DOMAIN dir, NEW e \in Nat \ {0}, Return(p, i, d, e),
         UNCHANGED << dir, data, contents, staying >>, \A r \in staying \ seen : At(c, p, i, d, e, r)
  PROVE  ScanKept(c)' /\ ScanMissesNothing'
<1> DEFINE later == Later(data[p], i)
           next == IF later = {} THEN i ELSE First(later)
<1>1. /\ seen' = seen \cup {<< p, i >>}
      /\ scan' = [scan EXCEPT !.dir = d, !.entry = e, !.data = p, !.more = later # {}, !.record = next]
  BY DEF Return
<1>2. Page(data[p], Records, NoRecord)
  BY DEF FileKept, PagesKept
<1>3. Live(data[p]) \in SUBSET Nat
  BY <1>2, DataSlots, PageFacts
<1>4. later \in SUBSET Nat /\ later = {j \in Live(data[p]) : j > i}
  BY <1>3 DEF Later
<1>5. later # {} => next \in later /\ \A j \in later : next <= j
  <2> HIDE DEF later
  <2> QED BY <1>4, FirstIs
<1>6. next \in Nat
  BY <1>4, <1>5
<1> HIDE DEF next
<1>7. /\ scan'.state = "on" /\ scan'.dir = d /\ scan'.entry = e /\ scan'.data = p /\ scan'.record = next
      /\ scan'.more = (later # {})
      /\ scan' = [state |-> scan'.state, dir |-> scan'.dir, entry |-> scan'.entry, data |-> scan'.data,
                  record |-> scan'.record, more |-> scan'.more, failed |-> scan'.failed]
  <2>1. PICK di, en, da, re, mo, fa :
          scan = [state |-> "on", dir |-> di, entry |-> en, data |-> da, record |-> re, more |-> mo, failed |-> fa]
    BY DEF ScanStands
  <2>2. PICK b \in BOOLEAN : b = (later # {})
    OBVIOUS
  <2>3. scan' = [scan EXCEPT !.dir = d, !.entry = e, !.data = p, !.more = b, !.record = next]
    BY <1>1, <2>2
  <2> HIDE DEF later
  <2>4. scan' = [state |-> "on", dir |-> d, entry |-> e, data |-> p, record |-> next, more |-> b, failed |-> fa]
    BY <2>1, <2>3
  <2> QED BY <2>2, <2>4
<1> HIDE DEF later
<1>8. ScanStands'
  <2>1. staying' \subseteq DOMAIN contents'
    BY DEF ScanStands
  <2>2. scan'.more \in BOOLEAN
    BY <1>7
  <2> QED BY <1>6, <1>7, <2>1, <2>2 DEF ScanStands
<1>9. ASSUME NEW r \in staying' \ seen' PROVE Ahead(c, r)'
  <2>1. At(c, p, i, d, e, r) /\ r \in DOMAIN contents /\ r # << p, i >>
    BY <1>1, <1>9 DEF ScanStands
  <2>2. r = << r[1], r[2] >> /\ r[2] \in Live(data[r[1]])
    BY <2>1 DEF FileKept, RecordsAreContents
  <2>3. CASE r[1] = p /\ r[2] >= i
    <3>1. r[2] # i /\ r[2] \in Live(data[p]) /\ r[2] \in Nat
      BY <1>3, <2>1, <2>2, <2>3
    <3>2. r[2] > i
      BY <2>3, <3>1
    <3>3. r[2] \in later
      BY <1>4, <3>1, <3>2
    <3>4. next <= r[2] /\ later # {}
      BY <1>5, <3>3
    <3>5. r[2] >= next
      BY <1>6, <3>1, <3>4
    <3> QED BY <1>7, <2>3, <3>4, <3>5 DEF Ahead
  <2>4. CASE \E k \in Entries(d) : k > e /\ Leads(d, k, r[1])
    <3>1. PICK k \in Entries(d) : k > e /\ Leads(d, k, r[1])
      BY <2>4
    <3>2. k \in Live(dir'[scan'.dir].slots) /\ k > scan'.entry /\ dir'[scan'.dir].slots[k].page = r[1]
      BY <1>7, <3>1 DEF Leads, Entries
    <3> QED BY <3>2 DEF Ahead, Leads, Entries
  <2>5. CASE \E j, k \in DOMAIN c : /\ j < k /\ c[j] = d
                                    /\ \E m \in Entries(c[k]) : Leads(c[k], m, r[1])
    <3>1. PICK j \in DOMAIN c, k \in DOMAIN c : /\ j < k /\ c[j] = d
                                                /\ \E m \in Entries(c[k]) : Leads(c[k], m, r[1])
      BY <2>5
    <3>2. c[j] = scan'.dir /\ \E m \in Entries(c[k])' : Leads(c[k], m, r[1])'
      BY <1>7, <3>1 DEF Leads, Entries
    <3> QED BY <3>1, <3>2 DEF Ahead
  <2> QED BY <2>1, <2>3, <2>4, <2>5 DEF At
<1>10. ScanMissesNothing'
  BY <1>7 DEF ScanMissesNothing
<1> QED BY <1>8, <1>9, <1>10 DEF ScanKept

(* Page p with entry e has the records of that page, from the first on.    *)
LEMMA FirstOfPage ==
  ASSUME NEW c, FileKept(c), NEW d \in DOMAIN dir, NEW e \in Entries(d), NEW p, p = dir[d].slots[e].page
  PROVE  /\ p \in DOMAIN data /\ First(Live(data[p])) \in Nat /\ e \in Nat \ {0}
         /\ \A r \in DOMAIN contents : r[1] = p => r[2] >= First(Live(data[p]))
<1>1. PagesKept /\ EntriesAreTrue /\ RecordsAreContents
  BY DEF FileKept
<1>2. p \in DOMAIN data /\ Live(data[p]) # {}
  BY <1>1, EntryFacts DEF TrueOf
<1>3. Page(data[p], Records, NoRecord)
  BY <1>1, <1>2 DEF PagesKept
<1>4. Live(data[p]) \in SUBSET Nat
  BY <1>3, DataSlots, PageFacts
<1>5. First(Live(data[p])) \in Live(data[p]) /\ \A j \in Live(data[p]) : First(Live(data[p])) <= j
  BY <1>2, <1>4, FirstIs
<1>6. \A r \in DOMAIN contents : r[1] = p => r[2] \in Live(data[p])
  BY <1>1 DEF RecordsAreContents
<1>7. ASSUME NEW r \in DOMAIN contents, r[1] = p PROVE r[2] >= First(Live(data[p]))
  <2>1. PICK x \in Nat, y \in Nat : x = First(Live(data[p])) /\ y = r[2] /\ x <= y
    BY <1>4, <1>5, <1>6, <1>7
  <2>2. y >= x
    BY <2>1
  <2> QED BY <2>1, <2>2
<1>8. e \in Nat \ {0}
  <2>1. e \in 1..Len(dir[d].slots)
    BY <1>1, DirPageFacts
  <2>2. \A m : e \in 1..m => e \in Nat /\ e # 0
    <3>1. e \in Int /\ e >= 1
      BY <2>1
    <3> QED BY <3>1
  <2> QED BY <2>1, <2>2
<1> QED BY <1>2, <1>4, <1>5, <1>7, <1>8

(* The records of a file are in the pages its directory pages lead to.     *)
LEMMA LedTo ==
  ASSUME NEW c, FileKept(c), NEW r \in DOMAIN contents
  PROVE  \E k \in DOMAIN c : \E m \in Entries(c[k]) : Leads(c[k], m, r[1])
<1>1. PICK f \in DOMAIN dir : \E m \in DOMAIN dir[f].slots : Leads(f, m, r[1])
  BY DEF FileKept, RecordsAreContents
<1>2. PICK m \in DOMAIN dir[f].slots : Leads(f, m, r[1])
  BY <1>1
<1>3. PICK k \in DOMAIN c : c[k] = f
  <2>1. ListOfPages(c)
    BY DEF FileKept
  <2>2. DOMAIN c = 1..Len(c) /\ \E k \in 1..Len(c) : c[k] = f
    BY <2>1, ListFacts
  <2> QED BY <2>2
<1> QED BY <1>2, <1>3 DEF Leads

LEMMA OpenStep ==
  ASSUME IInv, openScan
  PROVE  IInv'
<1>1. PICK c : c = Chain
  OBVIOUS
<1> DEFINE i == First(Entries(firstDirPageId))
           p == dir[firstDirPageId].slots[i].page
           k0 == First(Live(data[p]))
<1>2. Kept(c) /\ ScanMissesNothing
  <2>1. harm = "none" /\ Kept(Chain) /\ ScanMissesNothing
    BY InvIs DEF openScan
  <2> QED BY <1>1, <2>1
<1>3. FileKept(c) /\ ListOfPages(c) /\ PagesKept
  BY <1>2 DEF Kept, FileKept
<1>4. /\ Entries(firstDirPageId) # {} /\ seen' = {} /\ staying' = DOMAIN contents
      /\ scan' = [Closed EXCEPT !.state = "on", !.dir = firstDirPageId, !.entry = i, !.data = p,
                                !.record = k0, !.more = TRUE]
      /\ dir' = dir /\ data' = data /\ frame' = frame /\ contents' = contents
  BY DEF openScan, file, user
<1>5. /\ Len(c) \in Nat /\ Len(c) >= 1 /\ DOMAIN c = 1..Len(c) /\ c[1] = firstDirPageId
      /\ 1 \in DOMAIN c /\ firstDirPageId \in DOMAIN dir /\ \A k \in DOMAIN c : c[k] \in DOMAIN dir
  <2>1. /\ Len(c) \in Nat /\ Len(c) >= 1 /\ DOMAIN c = 1..Len(c) /\ c[1] = firstDirPageId
        /\ \A k \in 1..Len(c) : c[k] \in DOMAIN dir
    BY <1>3, ListFacts
  <2>2. 1 \in 1..Len(c)
    <3>1. PICK n \in Nat : n = Len(c) /\ n >= 1
      BY <2>1
    <3>2. 1 \in 1..n
      BY <3>1
    <3> QED BY <3>1, <3>2
  <2> QED BY <2>1, <2>2
<1>6. Entries(firstDirPageId) \in SUBSET Nat
  BY <1>3, <1>5, DirPageFacts
<1>7. i \in Entries(firstDirPageId) /\ \A j \in Entries(firstDirPageId) : i <= j
  BY <1>4, <1>6, FirstIs
<1> HIDE DEF i
<1>8. /\ p \in DOMAIN data /\ k0 \in Nat /\ i \in Nat \ {0}
      /\ \A r \in DOMAIN contents : r[1] = p => r[2] >= k0
  BY <1>3, <1>5, <1>7, FirstOfPage
<1>9. scan' = [state |-> "on", dir |-> firstDirPageId, entry |-> i, data |-> p, record |-> k0,
               more |-> TRUE, failed |-> FALSE]
  <2> HIDE DEF p, k0
  <2> QED BY <1>4 DEF Closed
<1> HIDE DEF k0
<1>10. ASSUME NEW r \in staying' PROVE Ahead(c, r)'
  <2>1. r \in DOMAIN contents
    BY <1>4, <1>10
  <2>2. PICK k \in DOMAIN c : \E m \in Entries(c[k]) : Leads(c[k], m, r[1])
    BY <1>3, <2>1, LedTo
  <2>3. PICK m \in Entries(c[k]) : Leads(c[k], m, r[1])
    BY <2>2
  <2>4. CASE k = 1 /\ m = i
    <3>1. r[1] = p
      BY <1>5, <2>3, <2>4 DEF Leads
    <3>2. r[2] >= k0
      BY <1>8, <2>1, <3>1
    <3> HIDE DEF p
    <3>3. scan'.more /\ r[1] = scan'.data /\ r[2] >= scan'.record
      BY <1>9, <3>1, <3>2
    <3> QED BY <3>3 DEF Ahead
  <2>5. CASE k = 1 /\ m # i
    <3>1. m \in Entries(firstDirPageId) /\ m > i
      <4>1. m \in Entries(firstDirPageId)
        BY <1>5, <2>5
      <4>2. m \in Nat /\ i \in Nat /\ i <= m
        BY <1>6, <1>7, <4>1
      <4>3. m > i
        BY <2>5, <4>2
      <4> QED BY <4>1, <4>3
    <3> HIDE DEF p
    <3>2. scan'.dir = firstDirPageId /\ scan'.entry = i
      BY <1>9
    <3>3. m \in Entries(scan.dir)' /\ m > scan'.entry /\ Leads(scan.dir, m, r[1])'
      BY <1>4, <1>5, <2>3, <2>5, <3>1, <3>2 DEF Leads, Entries
    <3> QED BY <3>3 DEF Ahead
  <2>6. CASE k # 1
    <3>1. 1 < k
      <4>1. k \in 1..Len(c)
        BY <1>5
      <4>2. k \in Int /\ k >= 1
        BY <4>1
      <4> QED BY <2>6, <4>2
    <3> HIDE DEF p
    <3>2. scan'.dir = c[1]
      BY <1>5, <1>9
    <3>3. m \in Entries(c[k])' /\ Leads(c[k], m, r[1])'
      BY <1>4, <2>3 DEF Leads, Entries
    <3> QED BY <1>5, <3>1, <3>2, <3>3 DEF Ahead
  <2> QED BY <2>4, <2>5, <2>6
<1>11. ScanStands'
  <2> HIDE DEF p
  <2>1. /\ scan'.state = "on" /\ scan'.dir = firstDirPageId /\ scan'.entry = i /\ scan'.data = p
        /\ scan'.record = k0 /\ scan'.more = TRUE /\ scan'.failed = FALSE
    BY <1>9
  <2>2. scan' = [state |-> scan'.state, dir |-> scan'.dir, entry |-> scan'.entry, data |-> scan'.data,
                  record |-> scan'.record, more |-> scan'.more, failed |-> scan'.failed]
    BY <1>9
  <2> QED BY <1>4, <1>5, <1>8, <2>1, <2>2 DEF ScanStands
<1>12. FileKept(c)'
  <2>1. frame' \in [DOMAIN frame -> {"clean", "dirty", "unsaved"}]
    BY <1>3, <1>4 DEF PagesKept
  <2> QED BY <1>3, <1>4, <2>1, FramesOnly
<1>13. ScanMissesNothing'
  BY <1>9 DEF ScanMissesNothing
<1>14. Kept(c)'
  BY <1>10, <1>11, <1>12 DEF Kept, ScanKept
<1> QED BY <1>13, <1>14, InvNext

(* Closing it, and steps that change nothing.                              *)
LEMMA CloseStep ==
  ASSUME IInv, closeScan
  PROVE  IInv'
<1>1. PICK c : c = Chain
  OBVIOUS
<1>2. FileKept(c) /\ PagesKept
  <2>1. harm = "none" /\ Kept(Chain)
    BY InvIs DEF closeScan
  <2> QED BY <1>1, <2>1 DEF Kept, FileKept
<1>3. /\ scan' = Closed /\ seen' = {} /\ staying' = {}
      /\ dir' = dir /\ data' = data /\ frame' = frame /\ contents' = contents
  BY DEF closeScan, file, user
<1>4. FileKept(c)'
  <2>1. frame' \in [DOMAIN frame -> {"clean", "dirty", "unsaved"}]
    BY <1>2, <1>3 DEF PagesKept
  <2> QED BY <1>2, <1>3, <2>1, FramesOnly
<1>5. ScanKept(c)' /\ ScanMissesNothing'
  BY <1>3 DEF ScanKept, ScanStands, ScanMissesNothing, Closed
<1>6. Kept(c)'
  BY <1>4, <1>5 DEF Kept
<1> QED BY <1>5, <1>6, InvNext

LEMMA StutterStep ==
  ASSUME IInv, UNCHANGED vars
  PROVE  IInv'
<1>1. PICK c : c = Chain
  OBVIOUS
<1>2. /\ dir' = dir /\ data' = data /\ frame' = frame /\ scan' = scan /\ seen' = seen
      /\ staying' = staying /\ contents' = contents /\ harm' = harm
  BY DEF vars
<1>3. TypeOK /\ ScanMissesNothing
  BY InvIs
<1>4. ScanMissesNothing' /\ TypeOK'
  BY <1>2, <1>3 DEF TypeOK, ScanMissesNothing
<1>5. CASE harm = "none"
  <2>1. FileKept(c) /\ ListOfPages(c) /\ PagesKept /\ ScanKept(c)
    BY <1>1, <1>5, InvIs DEF Kept, FileKept
  <2>2. FileKept(c)'
    <3>1. frame' \in [DOMAIN frame -> {"clean", "dirty", "unsaved"}]
      BY <1>2, <2>1 DEF PagesKept
    <3> QED BY <1>2, <2>1, <3>1, FramesOnly
  <2>3. ScanKept(c)'
    <3>1. \A f \in DOMAIN dir : \A j, q : Leads(f, j, q) => Leads(f, j, q)'
      BY <1>2 DEF Leads, Entries
    <3>2. staying' \subseteq DOMAIN contents'
      BY <1>2, <2>1 DEF ScanKept, ScanStands
    <3> QED BY <1>2, <1>3, <2>1, <3>1, <3>2, ScanStays
  <2>4. Kept(c)'
    BY <2>2, <2>3 DEF Kept
  <2> QED BY <1>4, <2>4, InvNext
<1>6. CASE harm # "none"
  <2>1. (IInv <=> TypeOK /\ ScanMissesNothing /\ (harm = "none" => Kept(Chain)))'
    BY InvIs, PTL
  <2> QED BY <1>2, <1>4, <1>6, <2>1
<1> QED BY <1>5, <1>6

(* What is ahead, if the scan has the rest of its page behind it.          *)
LEMMA AheadIs ==
  ASSUME NEW c, NEW r, Ahead(c, r), ~ scan.more
  PROVE  \/ \E m \in Entries(scan.dir) : m > scan.entry /\ Leads(scan.dir, m, r[1])
         \/ \E j, k \in DOMAIN c : /\ j < k /\ c[j] = scan.dir
                                   /\ \E m \in Entries(c[k]) : Leads(c[k], m, r[1])
BY DEF Ahead

(* The next entry of the directory page ...                                *)
LEMMA NextEntry ==
  ASSUME NEW c, FileKept(c), NEW d \in DOMAIN dir, NEW n \in Nat, Later(dir[d].slots, n) # {},
         NEW e, e = First(Later(dir[d].slots, n))
  PROVE  e \in Entries(d) /\ \A m \in Entries(d) : m > n => m = e \/ m > e
<1> DEFINE later == Later(dir[d].slots, n)
<1>1. Entries(d) \in SUBSET Nat /\ Entries(d) = Live(dir[d].slots)
  BY DirPageFacts DEF FileKept
<1>2. later \in SUBSET Nat /\ later = {j \in Entries(d) : j > n}
  BY <1>1 DEF Later
<1>3. e \in later /\ \A j \in later : e <= j
  <2> HIDE DEF later
  <2> QED BY <1>2, FirstIs DEF later
<1>4. ASSUME NEW m \in Entries(d), m > n PROVE m = e \/ m > e
  <2>1. m \in Nat /\ e \in Nat /\ e <= m
    BY <1>1, <1>2, <1>3, <1>4
  <2> QED BY <2>1
<1> QED BY <1>2, <1>3, <1>4

(* ... and the first one of the next directory page.                       *)
LEMMA NextDir ==
  ASSUME NEW c, FileKept(c), NEW d \in DOMAIN dir
  PROVE  \/ /\ dir[d].next = INVALID_PAGE
            /\ \A j, k \in DOMAIN c : ~ (j < k /\ c[j] = d)
         \/ /\ dir[d].next # INVALID_PAGE /\ dir[d].next \in DOMAIN dir
            /\ First(Entries(dir[d].next)) \in Entries(dir[d].next)
            /\ \A m \in Entries(dir[d].next) : \/ m = First(Entries(dir[d].next))
                                               \/ m > First(Entries(dir[d].next))
            /\ \A j, k \in DOMAIN c : j < k /\ c[j] = d =>
                 c[k] = dir[d].next \/ \E h \in DOMAIN c : h < k /\ c[h] = dir[d].next
<1> DEFINE n == Len(c)
           next == dir[d].next
<1>1. ListOfPages(c) /\ PagesKept
  BY DEF FileKept
<1>2. /\ n \in Nat /\ DOMAIN c = 1..n
      /\ \A k \in 1..n : c[k] \in DOMAIN dir /\ dir[c[k]].next = IF k = n THEN INVALID_PAGE ELSE c[k + 1]
      /\ \A i, j \in 1..n : c[i] = c[j] => i = j
      /\ n > 1 => \A f \in DOMAIN dir : Entries(f) # {}
  BY <1>1, ListFacts
<1>3. PICK h \in 1..n : c[h] = d
  BY <1>1, ListFacts
<1>4. \A f \in DOMAIN dir : f # INVALID_PAGE
  BY <1>1, PagesAre DEF Pages, INVALID_PAGE
<1>5. \A j \in 1..n : c[j] = d => j = h
  BY <1>2, <1>3
<1>6. next = IF h = n THEN INVALID_PAGE ELSE c[h + 1]
  BY <1>2, <1>3
<1> HIDE DEF n, next
<1>7. CASE h = n
  <2>1. \A j, k \in 1..n : ~ (j < k /\ j = h)
    BY <1>2, <1>7
  <2>2. \A j, k \in DOMAIN c : ~ (j < k /\ c[j] = d)
    BY <1>2, <1>5, <2>1
  <2> QED BY <1>6, <1>7, <2>2 DEF next
<1>8. CASE h # n
  <2>1. h + 1 \in 1..n /\ n > 1
    BY <1>2, <1>8
  <2>2. next = c[h + 1] /\ next \in DOMAIN dir /\ next # INVALID_PAGE /\ Entries(next) # {}
    BY <1>2, <1>4, <1>6, <1>8, <2>1
  <2>3. Entries(next) \in SUBSET Nat
    BY <1>1, <2>2, DirPageFacts
  <2>4. First(Entries(next)) \in Entries(next) /\ \A m \in Entries(next) : First(Entries(next)) <= m
    BY <2>2, <2>3, FirstIs
  <2>5. ASSUME NEW m \in Entries(next) PROVE m = First(Entries(next)) \/ m > First(Entries(next))
    <3>1. PICK x \in Nat, y \in Nat : x = First(Entries(next)) /\ y = m /\ x <= y
      BY <2>3, <2>4
    <3>2. y = x \/ y > x
      BY <3>1
    <3> QED BY <3>1, <3>2
  <2>6. ASSUME NEW j \in DOMAIN c, NEW k \in DOMAIN c, j < k, c[j] = d
        PROVE  c[k] = next \/ \E g \in DOMAIN c : g < k /\ c[g] = next
    <3>1. j = h /\ k \in 1..n /\ j \in 1..n
      BY <1>2, <1>5, <2>6
    <3>2. k = h + 1 \/ h + 1 < k
      BY <2>6, <3>1
    <3>3. h + 1 \in DOMAIN c
      BY <1>2, <2>1
    <3> QED BY <2>2, <3>2, <3>3
  <2> QED BY <2>2, <2>4, <2>5, <2>6 DEF next
<1> QED BY <1>7, <1>8

(* A step to entry e of page d has the records ahead of it, if those that  *)
(* were ahead are in an entry from e on or behind page d.                  *)
LEMMA ReachKeeps ==
  ASSUME NEW c, FileKept(c), ScanStands, scan.state = "on", NEW d \in DOMAIN dir, NEW e \in Entries(d),
         NEW p, p = dir[d].slots[e].page, Return(p, First(Live(data[p])), d, e),
         UNCHANGED << dir, data, contents, staying >>,
         \A r \in staying \ seen :
            \/ \E m \in Entries(d) : (m = e \/ m > e) /\ Leads(d, m, r[1])
            \/ \E j, k \in DOMAIN c : /\ j < k /\ c[j] = d
                                      /\ \E m \in Entries(c[k]) : Leads(c[k], m, r[1])
  PROVE  ScanKept(c)' /\ ScanMissesNothing'
<1> DEFINE i == First(Live(data[p]))
<1>1. /\ p \in DOMAIN data /\ i \in Nat /\ e \in Nat \ {0}
      /\ \A r \in DOMAIN contents : r[1] = p => r[2] >= i
  BY FirstOfPage
<1> HIDE DEF i
<1>2. ASSUME NEW r \in staying \ seen PROVE At(c, p, i, d, e, r)
  <2>1. r \in DOMAIN contents
    BY DEF ScanStands
  <2>2. CASE \E m \in Entries(d) : (m = e \/ m > e) /\ Leads(d, m, r[1])
    <3>1. PICK m \in Entries(d) : (m = e \/ m > e) /\ Leads(d, m, r[1])
      BY <2>2
    <3>2. m = e => r[1] = p
      BY <3>1 DEF Leads
    <3> QED BY <1>1, <2>1, <3>1, <3>2 DEF At
  <2>3. CASE \E j, k \in DOMAIN c : /\ j < k /\ c[j] = d
                                    /\ \E m \in Entries(c[k]) : Leads(c[k], m, r[1])
    BY <2>3 DEF At
  <2> QED BY <1>2, <2>2, <2>3
<1>3. Return(p, i, d, e)
  BY DEF i
<1> QED BY <1>1, <1>2, <1>3, ReturnKeeps

LEMMA NextStep ==
  ASSUME IInv, getNext
  PROVE  IInv'
<1>1. PICK c : c = Chain
  OBVIOUS
<1>2. Kept(c) /\ ScanMissesNothing
  <2>1. harm = "none" /\ Kept(Chain) /\ ScanMissesNothing
    BY InvIs DEF getNext
  <2> QED BY <1>1, <2>1
<1>3. FileKept(c) /\ PagesKept /\ ScanStands /\ RecordsAreContents
  BY <1>2 DEF Kept, FileKept, ScanKept
<1>4. /\ scan.state = "on" /\ staying' = staying
      /\ dir' = dir /\ data' = data /\ frame' = frame /\ contents' = contents
  BY DEF getNext, file, user
<1>5. /\ scan.dir \in DOMAIN dir /\ scan.data \in DOMAIN data
      /\ scan.entry \in Nat \ {0} /\ scan.record \in Nat
      /\ \A r \in staying \ seen : Ahead(c, r)
  BY <1>2, <1>3, <1>4 DEF ScanStands, Kept, ScanKept
<1>6. FileKept(c)'
  <2>1. frame' \in [DOMAIN frame -> {"clean", "dirty", "unsaved"}]
    BY <1>3, <1>4 DEF PagesKept
  <2> QED BY <1>3, <1>4, <2>1, FramesOnly
<1>7. ScanKept(c)' /\ ScanMissesNothing'
  <2>1. CASE scan.more
    <3>1. Return(scan.data, scan.record, scan.dir, scan.entry)
      BY <2>1 DEF getNext
    <3>2. \A r \in staying \ seen : At(c, scan.data, scan.record, scan.dir, scan.entry, r)
      BY <1>5 DEF Ahead, At
    <3> QED BY <1>3, <1>4, <1>5, <3>1, <3>2, ReturnKeeps
  <2>2. CASE ~ scan.more
    <3> DEFINE slots == dir[scan.dir].slots
               later == Later(slots, scan.entry)
               next == dir[scan.dir].next
    <3>1. nextDataPage
      BY <2>2 DEF getNext
    <3>2. \A r \in staying \ seen :
            \/ \E m \in Entries(scan.dir) : m > scan.entry /\ Leads(scan.dir, m, r[1])
            \/ \E j, k \in DOMAIN c : /\ j < k /\ c[j] = scan.dir
                                      /\ \E m \in Entries(c[k]) : Leads(c[k], m, r[1])
      BY <1>5, <2>2, AheadIs
    <3>3. \A m \in Entries(scan.dir) : m > scan.entry => m \in later
      BY DEF Later, Entries
    <3>4. CASE scan.entry > Len(slots)
      <4>1. EndOfScan(TRUE)
        <5>1. ~ (scan.entry <= Len(slots))
          <6>1. Len(slots) \in Nat
            BY <1>3, <1>5, DirPageFacts, DirSlots, PageFacts
          <6> QED BY <1>5, <3>4, <6>1
        <5> QED BY <3>1, <3>4, <5>1 DEF nextDataPage
      <4>2. scan' = [state |-> "done", dir |-> INVALID_PAGE, entry |-> 0, data |-> INVALID_PAGE,
                     record |-> 0, more |-> FALSE, failed |-> TRUE]
        BY <4>1 DEF EndOfScan, Closed
      <4> QED BY <1>3, <1>4, <4>2 DEF ScanKept, ScanStands, ScanMissesNothing
    <3>5. CASE ~ (scan.entry > Len(slots)) /\ later # {}
      <4> DEFINE e == First(later)
                 p == slots[e].page
      <4>1. Return(p, First(Live(data[p])), scan.dir, e)
        <5>1. scan.entry <= Len(slots)
          <6>1. Len(slots) \in Nat
            BY <1>3, <1>5, DirPageFacts, DirSlots, PageFacts
          <6> QED BY <1>5, <3>5, <6>1
        <5> QED BY <3>1, <3>5, <5>1 DEF nextDataPage
      <4>2. e \in Entries(scan.dir) /\ \A m \in Entries(scan.dir) : m > scan.entry => m = e \/ m > e
        BY <1>3, <1>5, <3>5, NextEntry
      <4> HIDE DEF e, later
      <4>3. \A r \in staying \ seen :
              \/ \E m \in Entries(scan.dir) : (m = e \/ m > e) /\ Leads(scan.dir, m, r[1])
              \/ \E j, k \in DOMAIN c : /\ j < k /\ c[j] = scan.dir
                                        /\ \E m \in Entries(c[k]) : Leads(c[k], m, r[1])
        BY <3>2, <4>2
      <4>4. p = dir[scan.dir].slots[e].page
        OBVIOUS
      <4> HIDE DEF p
      <4> QED BY <1>3, <1>4, <1>5, <4>1, <4>2, <4>3, <4>4, ReachKeeps
    <3>6. CASE ~ (scan.entry > Len(slots)) /\ later = {}
      <4>1. \A r \in staying \ seen :
              \E j, k \in DOMAIN c : /\ j < k /\ c[j] = scan.dir
                                     /\ \E m \in Entries(c[k]) : Leads(c[k], m, r[1])
        BY <3>2, <3>3, <3>6
      <4>2. scan.entry <= Len(slots)
        <5>1. Len(slots) \in Nat
          BY <1>3, <1>5, DirPageFacts, DirSlots, PageFacts
        <5> QED BY <1>5, <3>6, <5>1
      <4>3. CASE next = INVALID_PAGE
        <5>1. EndOfScan(FALSE)
          BY <3>1, <3>6, <4>2, <4>3 DEF nextDataPage
        <5>2. scan' = [state |-> "done", dir |-> INVALID_PAGE, entry |-> 0, data |-> INVALID_PAGE,
                       record |-> 0, more |-> FALSE, failed |-> FALSE] /\ seen' = seen
          BY <5>1 DEF EndOfScan, Closed
        <5>3. \A j, k \in DOMAIN c : ~ (j < k /\ c[j] = scan.dir)
          BY <1>3, <1>5, <4>3, NextDir
        <5>4. staying \ seen = {}
          BY <4>1, <5>3
        <5> QED BY <1>3, <1>4, <5>2, <5>4 DEF ScanKept, ScanStands, ScanMissesNothing
      <4>4. CASE next # INVALID_PAGE
        <5> DEFINE e == First(Entries(next))
                   p == dir[next].slots[e].page
        <5>1. Return(p, First(Live(data[p])), next, e)
          BY <3>1, <3>6, <4>2, <4>4 DEF nextDataPage
        <5>2. /\ next \in DOMAIN dir /\ e \in Entries(next) /\ \A m \in Entries(next) : m = e \/ m > e
              /\ \A j, k \in DOMAIN c : j < k /\ c[j] = scan.dir =>
                   c[k] = next \/ \E h \in DOMAIN c : h < k /\ c[h] = next
          BY <1>3, <1>5, <4>4, NextDir
        <5>3. p = dir[next].slots[e].page
          OBVIOUS
        <5> HIDE DEF p, e, next, later, slots
        <5>4. ASSUME NEW r \in staying \ seen
              PROVE  \/ \E m \in Entries(next) : (m = e \/ m > e) /\ Leads(next, m, r[1])
                     \/ \E j, k \in DOMAIN c : /\ j < k /\ c[j] = next
                                               /\ \E m \in Entries(c[k]) : Leads(c[k], m, r[1])
          <6>1. PICK j \in DOMAIN c, k \in DOMAIN c : /\ j < k /\ c[j] = scan.dir
                                                      /\ \E m \in Entries(c[k]) : Leads(c[k], m, r[1])
            BY <4>1
          <6>2. CASE c[k] = next
            BY <5>2, <6>1, <6>2
          <6>3. CASE \E h \in DOMAIN c : h < k /\ c[h] = next
            BY <6>1, <6>3
          <6> QED BY <5>2, <6>1, <6>2, <6>3
        <5> QED BY <1>3, <1>4, <5>1, <5>2, <5>3, <5>4, ReachKeeps
      <4> QED BY <4>3, <4>4
    <3> QED BY <3>4, <3>5, <3>6
  <2> QED BY <2>1, <2>2
<1>8. Kept(c)'
  BY <1>6, <1>7 DEF Kept
<1> QED BY <1>7, <1>8, InvNext

(***************************************************************************)
(* The invariant.                                                          *)
(***************************************************************************)
LEMMA InitInv == Init => IInv
<1> SUFFICES ASSUME Init PROVE IInv
  OBVIOUS
<1> DEFINE c == << firstDirPageId >>
<1>1. /\ dir = [p \in {firstDirPageId} |-> [slots |-> << NoEntry >>, next |-> INVALID_PAGE]]
      /\ data = [p \in {} |-> << >>] /\ frame = [p \in {firstDirPageId} |-> "dirty"]
      /\ scan = Closed /\ seen = {} /\ staying = {} /\ contents = [r \in {} |-> 0]
  BY DEF Init
<1>2. /\ DOMAIN dir = {1} /\ dir[1] = [slots |-> << NoEntry >>, next |-> 0]
      /\ dir[1].slots = << NoEntry >> /\ dir[1].next = 0
      /\ DOMAIN data = {} /\ DOMAIN contents = {}
  BY <1>1 DEF firstDirPageId, INVALID_PAGE
<1>3. Live(<< NoEntry >>) = {}
  <2>1. NoEntry.len = 0
    BY DEF NoEntry
  <2> QED BY <2>1 DEF Live
<1>4. Entries(1) = {}
  BY <1>2, <1>3 DEF Entries
<1>5. ListOfPages(c)
  <2>1. c \in Seq(DOMAIN dir) /\ Len(c) = 1 /\ c[1] = 1 /\ DOMAIN c = {1}
    BY <1>2 DEF firstDirPageId
  <2>2. ToSet(c) = {1}
    BY <2>1 DEF ToSet
  <2> HIDE DEF c
  <2> QED BY <1>2, <2>1, <2>2 DEF ListOfPages, firstDirPageId, INVALID_PAGE
<1>6. PagesKept
  <2>1. Page(<< NoEntry >>, DirEntries, NoEntry)
    <3>1. NoEntry \in DirEntries /\ NoEntry.len = 0
      BY DirSlots DEF SlotType
    <3> DEFINE x == NoEntry
    <3> HIDE DEF x
    <3>2. x \in DirEntries /\ x.len = 0
      BY <3>1 DEF x
    <3>3. << x >> \in Seq(DirEntries) /\ Len(<< x >>) = 1 /\ DOMAIN << x >> = {1} /\ << x >>[1] = x
      BY <3>2
    <3>4. Page(<< x >>, DirEntries, x)
      BY <3>2, <3>3 DEF Page
    <3> QED BY <3>4 DEF x
  <2>2. NewPage = 2
    <3>1. Cardinality({}) = 0 /\ Cardinality({1}) = 1
      BY FS_EmptySet, FS_Singleton
    <3> QED BY <1>2, <3>1 DEF NewPage
  <2>3. NewPage - 1 \in 1..MaxPages /\ DOMAIN dir \cup DOMAIN data = 1..NewPage - 1
    <3>1. 1..1 = {1} /\ 2 - 1 = 1
      OBVIOUS
    <3>2. 1 \in 1..MaxPages
      BY FileAssumption
    <3> QED BY <1>2, <2>2, <3>1, <3>2
  <2>4. frame \in [DOMAIN dir \cup DOMAIN data -> {"clean", "dirty", "unsaved"}]
    BY <1>1, <1>2 DEF firstDirPageId
  <2> QED BY <1>2, <2>1, <2>3, <2>4 DEF PagesKept
<1>7. EntriesAreTrue
  BY <1>2, <1>4 DEF EntriesAreTrue
<1>8. RecordsAreContents
  BY <1>2, <1>4 DEF RecordsAreContents
<1>9. ScanKept(c) /\ ScanMissesNothing
  BY <1>1 DEF ScanKept, ScanStands, ScanMissesNothing, Closed
<1> HIDE DEF c
<1>10. Kept(c)
  BY <1>5, <1>6, <1>7, <1>8, <1>9 DEF Kept, FileKept
<1>11. TypeOK
  BY <1>10, KeptTypes DEF TypesFollow
<1>12. Chain = c
  BY <1>5, <1>11, ChainIs DEF ChainIsList, TypeOK
<1>13. Kept(Chain)
  BY <1>10, <1>12
<1> QED BY <1>9, <1>11, <1>13, InvIs

LEMMA StepInv == IInv /\ [Next]_vars => IInv'
<1> SUFFICES ASSUME IInv, [Next]_vars PROVE IInv'
  OBVIOUS
<1>1. ASSUME NEW v \in Values, insertIntoPage(v) PROVE IInv'
  BY <1>1, IntoPageStep
<1>2. ASSUME NEW v \in Values, insertIntoNewPage(v) PROVE IInv'
  BY <1>2, NewPageStep
<1>3. ASSUME NEW r \in DOMAIN contents, deleteRecord(r) PROVE IInv'
  BY <1>3, DeleteStep
<1>4. ASSUME NEW r \in DOMAIN contents, NEW v \in Values, updateRecord(r, v) PROVE IInv'
  BY <1>4, UpdateStep
<1>5. ASSUME NEW p \in DOMAIN frame, evict(p) PROVE IInv'
  BY <1>5, EvictStep
<1>6. CASE openScan
  BY <1>6, OpenStep
<1>7. CASE getNext
  BY <1>7, NextStep
<1>8. CASE closeScan
  BY <1>8, CloseStep
<1>9. CASE UNCHANGED vars
  BY <1>9, StutterStep
<1> QED BY <1>1, <1>2, <1>3, <1>4, <1>5, <1>6, <1>7, <1>8, <1>9 DEF Next

(* What every step keeps, up to the first loss: the list of directory      *)
(* pages, entries that are true, the records of the users, and a scan that *)
(* has what stays behind it or ahead of it (heapfile.C:194, 266,           *)
(* scan.C:159).                                                            *)
THEOREM HeapFileInvariant == Spec => []IInv
BY InitInv, StepInv, PTL DEF Spec

(* Every entry promises no more than its page has, and leads to records    *)
(* (heapfile.C:194, scan.C:159).                                           *)
THEOREM DirectoryIsTrue == Spec => []FileInv
<1>1. IInv => FileInv
  <2> SUFFICES ASSUME IInv PROVE FileInv
    OBVIOUS
  <2>1. TypeOK /\ (harm = "none" => EntriesAreTrue)
    BY DEF IInv
  <2>2. EntriesPromiseNoMore
    BY <2>1 DEF EntriesPromiseNoMore, AllEntries, EntryAt, EntriesAreTrue
  <2>3. EntriesLeadToRecords
    BY <2>1 DEF EntriesLeadToRecords, AllEntries, EntryAt, EntriesAreTrue
  <2> QED BY <2>1, <2>2, <2>3 DEF FileInv
<1> QED BY <1>1, HeapFileInvariant, PTL

(* Until a part of the file is lost, findDataPage finds the records of the *)
(* users, with what they wrote last (heapfile.C:225).                      *)
THEOREM FileHoldsWhatIsWritten == Spec => []FileHoldsContents
<1>1. IInv => FileHoldsContents
  <2> SUFFICES ASSUME IInv, harm = "none"
               PROVE  Found = DOMAIN contents /\ \A r \in Found : data[r[1]][r[2]].value = contents[r]
    BY DEF FileHoldsContents
  <2>1. PICK c : c = Chain
    OBVIOUS
  <2>2. ListOfPages(c) /\ PagesKept /\ EntriesAreTrue /\ RecordsAreContents
    BY <2>1 DEF IInv
  <2>3. Searched \subseteq DOMAIN dir
    <3>1. DOMAIN c = 1..Len(c) /\ \A k \in 1..Len(c) : c[k] \in DOMAIN dir
      BY <2>2, ListFacts
    <3> QED BY <2>1, <3>1 DEF Searched
  <2>4. ASSUME NEW r \in Found PROVE r \in DOMAIN contents
    <3>1. PICK d \in Searched : \E i \in Entries(d) : \E j \in Live(data[dir[d].slots[i].page]) :
                                  r = << dir[d].slots[i].page, j >>
      BY <2>4 DEF Found
    <3> QED BY <2>2, <2>3, <3>1 DEF RecordsAreContents
  <2>5. ASSUME NEW r \in DOMAIN contents PROVE r \in Found
    <3>1. /\ r = << r[1], r[2] >> /\ r[2] \in Live(data[r[1]])
          /\ \E f \in DOMAIN dir : \E j \in DOMAIN dir[f].slots : Leads(f, j, r[1])
      BY <2>2 DEF RecordsAreContents
    <3>2. PICK f \in DOMAIN dir : \E j \in DOMAIN dir[f].slots : Leads(f, j, r[1])
      BY <3>1
    <3>3. PICK j \in DOMAIN dir[f].slots : Leads(f, j, r[1])
      BY <3>2
    <3>4. f \in Searched
      BY <2>1, <2>2, <3>3, SearchedAll
    <3>5. j \in Entries(f) /\ dir[f].slots[j].page = r[1]
      BY <3>3 DEF Leads
    <3> QED BY <3>1, <3>4, <3>5 DEF Found
  <2>6. \A r \in DOMAIN contents : data[r[1]][r[2]].value = contents[r]
    <3>1. \A v : Record(v).value = v
      BY DEF Record
    <3>2. \A r \in DOMAIN contents : data[r[1]][r[2]] = Record(contents[r])
      BY <2>2 DEF RecordsAreContents
    <3> QED BY <3>1, <3>2
  <2> QED BY <2>4, <2>5, <2>6
<1> QED BY <1>1, HeapFileInvariant, PTL

(* A scan that ended returned what stayed in the file, whatever was        *)
(* inserted, deleted and evicted under it (scan.C:159).                    *)
THEOREM ScanIsComplete == Spec => []ScanMissesNothing
<1>1. IInv => ScanMissesNothing
  BY DEF IInv
<1> QED BY <1>1, HeapFileInvariant, PTL
=============================================================================
