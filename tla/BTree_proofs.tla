---------------------------- MODULE BTree_proofs ----------------------------
(***************************************************************************)
(* The B+ tree stays whole for any keys, any capacities and any number of  *)
(* leaves; where no insertion was misplaced and the index did not          *)
(* overflow, descents find every key and scans return their range.         *)
(***************************************************************************)
EXTENDS BTree, FiniteSetTheorems, SequenceTheorems, WellFoundedInduction, TLAPS

(***************************************************************************)
(* Least elements, and sequences with an element more or less.             *)
(***************************************************************************)
(* A set of natural numbers that is not empty has a least element.         *)
LEMMA NatMin ==
  ASSUME NEW T \in SUBSET Nat, T # {}
  PROVE  \E x \in T : \A y \in T : x <= y
<1>1. IsWellFoundedOn(OpToRel(<, Nat), Nat)
  BY NatLessThanWellFounded
<1>2. PICK x \in T : \A y \in T : ~ (<<y, x>> \in OpToRel(<, Nat))
  BY <1>1, WFMin
<1>3. \A y \in T : ~ (y < x)
  BY <1>2 DEF OpToRel
<1> QED BY <1>3

(* First is that least element.                                            *)
LEMMA FirstIs ==
  ASSUME NEW T \in SUBSET Nat, T # {}
  PROVE  First(T) \in T /\ \A y \in T : First(T) <= y
BY NatMin DEF First

(* InsertAt moves what is behind the new element by one.                   *)
LEMMA InsertAtIs ==
  ASSUME NEW S, NEW s \in Seq(S), NEW e \in S, NEW i \in 1..Len(s) + 1
  PROVE  /\ InsertAt(s, i, e) \in Seq(S)
         /\ Len(InsertAt(s, i, e)) = Len(s) + 1
         /\ \A j \in 1..Len(s) + 1 : InsertAt(s, i, e)[j] =
                IF j < i THEN s[j] ELSE IF j = i THEN e ELSE s[j - 1]
<1> DEFINE a == SubSeq(s, 1, i - 1)
           b == SubSeq(s, i, Len(s))
<1>1. Len(s) \in Nat /\ DOMAIN s = 1..Len(s) /\ i \in Nat /\ i >= 1 /\ \A j \in 1..Len(s) : s[j] \in S
  BY LenProperties, ElementOfSeq
<1>2. /\ a \in Seq(S) /\ Len(a) = i - 1
      /\ \A j \in 1..(i - 1) : a[j] = s[j]
  <2>1. i - 1 \in Int /\ \A j \in 1..(i - 1) : s[j] \in S
    BY <1>1
  <2>2. /\ a \in Seq(S) /\ Len(a) = (IF 1 <= i - 1 THEN (i - 1) - 1 + 1 ELSE 0)
        /\ \A j \in 1..((i - 1) - 1 + 1) : a[j] = s[1 + j - 1]
    BY <2>1, SubSeqProperties
  <2> HIDE DEF a
  <2> QED BY <1>1, <2>2
<1>3. /\ b \in Seq(S) /\ Len(b) = Len(s) - i + 1
      /\ \A j \in 1..(Len(s) - i + 1) : b[j] = s[i + j - 1]
  <2>1. \A j \in i..Len(s) : s[j] \in S
    BY <1>1
  <2>2. /\ b \in Seq(S) /\ Len(b) = (IF i <= Len(s) THEN Len(s) - i + 1 ELSE 0)
        /\ \A j \in 1..(Len(s) - i + 1) : b[j] = s[i + j - 1]
    BY <1>1, <2>1, SubSeqProperties
  <2> HIDE DEF b
  <2> QED BY <1>1, <2>2
<1>4. <<e>> \in Seq(S) /\ Len(<<e>>) = 1 /\ <<e>>[1] = e
  OBVIOUS
<1> HIDE DEF a, b
<1>5. /\ a \o <<e>> \in Seq(S) /\ Len(a \o <<e>>) = i
      /\ \A j \in 1..i : (a \o <<e>>)[j] = IF j <= i - 1 THEN a[j] ELSE <<e>>[j - (i - 1)]
  BY <1>1, <1>2, <1>4, ConcatProperties
<1>6. /\ (a \o <<e>>) \o b \in Seq(S) /\ Len((a \o <<e>>) \o b) = Len(s) + 1
      /\ \A j \in 1..(Len(s) + 1) : ((a \o <<e>>) \o b)[j] =
            IF j <= i THEN (a \o <<e>>)[j] ELSE b[j - i]
  <2> DEFINE f == a \o <<e>>
  <2>1. f \in Seq(S) /\ Len(f) = i
    BY <1>5
  <2> HIDE DEF f
  <2>2. /\ f \o b \in Seq(S) /\ Len(f \o b) = Len(f) + Len(b)
        /\ \A j \in 1..(Len(f) + Len(b)) : (f \o b)[j] = IF j <= Len(f) THEN f[j] ELSE b[j - Len(f)]
    BY <1>3, <2>1, ConcatProperties
  <2>3. Len(f) + Len(b) = Len(s) + 1
    BY <1>1, <1>3, <2>1
  <2>4. /\ f \o b \in Seq(S) /\ Len(f \o b) = Len(s) + 1
        /\ \A j \in 1..(Len(s) + 1) : (f \o b)[j] = IF j <= i THEN f[j] ELSE b[j - i]
    BY <2>1, <2>2, <2>3
  <2> QED BY <2>4 DEF f
<1>7. InsertAt(s, i, e) = (a \o <<e>>) \o b
  BY DEF InsertAt, a, b
<1>8. ASSUME NEW j \in 1..(Len(s) + 1)
      PROVE  ((a \o <<e>>) \o b)[j] = IF j < i THEN s[j] ELSE IF j = i THEN e ELSE s[j - 1]
  <2>1. CASE j < i
    <3>1. j \in 1..i /\ j \in 1..(i - 1) /\ j <= i /\ j <= i - 1
      BY <1>1, <2>1
    <3> QED BY <1>2, <1>5, <1>6, <2>1, <3>1
  <2>2. CASE j = i
    <3>1. j \in 1..i /\ j <= i /\ ~ (j <= i - 1) /\ j - (i - 1) = 1 /\ ~ (j < i)
      BY <1>1, <2>2
    <3> QED BY <1>4, <1>5, <1>6, <2>2, <3>1
  <2>3. CASE j > i
    <3>1. j - i \in 1..(Len(s) - i + 1) /\ ~ (j <= i) /\ i + (j - i) - 1 = j - 1 /\ ~ (j < i) /\ j # i
      BY <1>1, <2>3
    <3> QED BY <1>3, <1>6, <3>1
  <2>4. j < i \/ j = i \/ j > i
    BY <1>1
  <2> QED BY <2>1, <2>2, <2>3, <2>4
<1> QED BY <1>6, <1>7, <1>8

(* RemoveAt moves what is behind the removed element by one.               *)
LEMMA RemoveAtIs ==
  ASSUME NEW S, NEW s \in Seq(S), NEW i \in 1..Len(s)
  PROVE  /\ RemoveAt(s, i) \in Seq(S)
         /\ Len(RemoveAt(s, i)) = Len(s) - 1
         /\ \A j \in 1..Len(s) - 1 : RemoveAt(s, i)[j] = IF j < i THEN s[j] ELSE s[j + 1]
<1> DEFINE a == SubSeq(s, 1, i - 1)
           b == SubSeq(s, i + 1, Len(s))
<1>1. Len(s) \in Nat /\ i \in Nat /\ i >= 1 /\ i <= Len(s) /\ \A j \in 1..Len(s) : s[j] \in S
  BY LenProperties, ElementOfSeq
<1>2. /\ a \in Seq(S) /\ Len(a) = i - 1
      /\ \A j \in 1..(i - 1) : a[j] = s[j]
  <2>1. i - 1 \in Int /\ \A j \in 1..(i - 1) : s[j] \in S
    BY <1>1
  <2>2. /\ a \in Seq(S) /\ Len(a) = (IF 1 <= i - 1 THEN (i - 1) - 1 + 1 ELSE 0)
        /\ \A j \in 1..((i - 1) - 1 + 1) : a[j] = s[1 + j - 1]
    BY <2>1, SubSeqProperties
  <2> HIDE DEF a
  <2> QED BY <1>1, <2>2
<1>3. /\ b \in Seq(S) /\ Len(b) = Len(s) - i
      /\ \A j \in 1..(Len(s) - i) : b[j] = s[i + j]
  <2>1. i + 1 \in Int /\ \A j \in (i + 1)..Len(s) : s[j] \in S
    BY <1>1
  <2>2. /\ b \in Seq(S) /\ Len(b) = (IF i + 1 <= Len(s) THEN Len(s) - (i + 1) + 1 ELSE 0)
        /\ \A j \in 1..(Len(s) - (i + 1) + 1) : b[j] = s[(i + 1) + j - 1]
    BY <1>1, <2>1, SubSeqProperties
  <2> HIDE DEF b
  <2> QED BY <1>1, <2>2
<1> HIDE DEF a, b
<1>4. /\ a \o b \in Seq(S) /\ Len(a \o b) = Len(a) + Len(b)
      /\ \A j \in 1..(Len(a) + Len(b)) : (a \o b)[j] = IF j <= Len(a) THEN a[j] ELSE b[j - Len(a)]
  BY <1>2, <1>3, ConcatProperties
<1>5. Len(a) + Len(b) = Len(s) - 1
  BY <1>1, <1>2, <1>3
<1>6. ASSUME NEW j \in 1..(Len(s) - 1)
      PROVE  (a \o b)[j] = IF j < i THEN s[j] ELSE s[j + 1]
  <2>1. CASE j < i
    <3>1. j <= i - 1 /\ j \in 1..(i - 1)
      BY <1>1, <2>1
    <3> QED BY <1>2, <1>4, <1>5, <2>1, <3>1
  <2>2. CASE ~ (j < i)
    <3>1. ~ (j <= i - 1) /\ j - (i - 1) \in 1..(Len(s) - i) /\ i + (j - (i - 1)) = j + 1
      BY <1>1, <2>2
    <3>2. (a \o b)[j] = b[j - Len(a)] /\ Len(a) = i - 1
      BY <1>2, <1>4, <1>5, <3>1
    <3>3. b[j - (i - 1)] = s[j + 1]
      BY <1>3, <3>1
    <3> QED BY <2>2, <3>2, <3>3
  <2> QED BY <2>1, <2>2
<1>7. RemoveAt(s, i) = a \o b
  BY DEF RemoveAt, a, b
<1> QED BY <1>4, <1>5, <1>6, <1>7

(***************************************************************************)
(* The slots of a page.                                                    *)
(***************************************************************************)
Slots == Seq(Keys \cup {Hole})

(* Live slots are among the slots, and hold keys.                          *)
LEMMA LiveSlots ==
  ASSUME NEW s \in Slots
  PROVE  /\ Len(s) \in Nat /\ DOMAIN s = 1..Len(s)
         /\ \A i \in 1..Len(s) : s[i] \in Keys \cup {Hole}
         /\ Live(s) \subseteq 1..Len(s) /\ Live(s) \in SUBSET Nat
         /\ \A i \in Live(s) : s[i] \in Keys /\ s[i] \in Nat /\ s[i] > 0
         /\ IsFiniteSet(Live(s)) /\ Cardinality(Live(s)) \in Nat
         /\ \A i \in 1..Len(s) : s[i] \in Keys => i \in Live(s)
<1>1. Len(s) \in Nat /\ DOMAIN s = 1..Len(s) /\ \A i \in 1..Len(s) : s[i] \in Keys \cup {Hole}
  BY LenProperties, ElementOfSeq DEF Slots
<1>2. Live(s) \subseteq 1..Len(s)
  BY <1>1 DEF Live
<1>3. \A i \in Live(s) : s[i] \in Keys
  BY <1>1 DEF Live
<1>4. IsFiniteSet(Live(s)) /\ Cardinality(Live(s)) \in Nat
  <2>1. IsFiniteSet(1..Len(s))
    BY <1>1, FS_Interval
  <2>2. IsFiniteSet(Live(s))
    BY <1>2, <2>1, FS_Subset
  <2> QED BY <2>2, FS_CardinalityType
<1>5. \A i \in Keys : i \in Nat /\ i > 0
  BY TreeAssumption
<1>6. \A i \in 1..Len(s) : s[i] \in Keys => i \in Live(s)
  BY <1>1, <1>5 DEF Live, Hole
<1> QED BY <1>1, <1>2, <1>3, <1>4, <1>5, <1>6

(* A record goes to the first hole, or behind the last slot.               *)
LEMMA PutIs ==
  ASSUME NEW s \in Slots, NEW key \in Keys, Len(s) <= LeafCapacity, HasSpace(s)
  PROVE  LET put == Put(s, key)
             from == TakenSlot(s)
         IN  /\ put \in Slots /\ Len(put) \in 1..LeafCapacity
             /\ from \in 1..Len(s) + 1 /\ from \notin Live(s)
             /\ Empty(s) = {} => from = Len(s) + 1
             /\ Empty(s) # {} => from <= Len(s)
             /\ Len(put) = IF from = Len(s) + 1 THEN Len(s) + 1 ELSE Len(s)
             /\ \A j \in 1..from - 1 : j \in Live(s)
             /\ put[from] = key /\ \A j \in 1..Len(s) : j # from => put[j] = s[j]
             /\ Live(put) = Live(s) \cup {from}
<1> DEFINE put == Put(s, key)
           from == TakenSlot(s)
<1>1. /\ Len(s) \in Nat /\ DOMAIN s = 1..Len(s) /\ key \in Nat /\ key > 0
      /\ Live(s) \subseteq 1..Len(s) /\ LeafCapacity \in Nat /\ LeafCapacity > 0
  BY LiveSlots, TreeAssumption
<1>2. s \in Seq(Keys \cup {Hole}) /\ key \in Keys \cup {Hole}
  BY DEF Slots
<1>3. CASE Empty(s) = {}
  <2>1. from = Len(s) + 1 /\ put = Append(s, key) /\ Live(s) = 1..Len(s)
    BY <1>1, <1>3 DEF TakenSlot, Put, Empty
  <2>2. /\ put \in Seq(Keys \cup {Hole}) /\ Len(put) = Len(s) + 1
        /\ \A j \in 1..Len(s) : put[j] = s[j]
        /\ put[Len(s) + 1] = key
    BY <1>2, <2>1, AppendProperties
  <2>3. Len(s) < LeafCapacity
    BY <1>3 DEF HasSpace
  <2> HIDE DEF put, from
  <2>4. put \in Slots
    BY <2>2 DEF Slots
  <2>5. DOMAIN put = 1..(Len(s) + 1)
    BY <2>2, <2>4, LiveSlots
  <2>6. Live(put) = Live(s) \cup {from}
    <3>1. ASSUME NEW j \in 1..Len(s) PROVE j \in Live(put)
      BY <1>1, <2>1, <2>2, <2>5, <3>1 DEF Live
    <3>2. Len(s) + 1 \in Live(put)
      BY <1>1, <2>2, <2>5 DEF Live, Hole
    <3>3. Live(put) \subseteq 1..(Len(s) + 1)
      BY <2>5 DEF Live
    <3> QED BY <1>1, <2>1, <3>1, <3>2, <3>3
  <2> QED BY <1>1, <1>3, <2>1, <2>2, <2>3, <2>4, <2>6 DEF put, from
<1>4. CASE Empty(s) # {}
  <2>1. Empty(s) \in SUBSET Nat /\ Empty(s) \subseteq 1..Len(s)
    BY <1>1 DEF Empty
  <2>2. from \in Empty(s) /\ \A y \in Empty(s) : from <= y
    BY <1>4, <2>1, FirstIs DEF TakenSlot
  <2>3. put = [s EXCEPT ![from] = key]
    BY <1>4 DEF Put
  <2>4. from \in 1..Len(s) /\ from \notin Live(s)
    BY <1>1, <2>2 DEF Empty
  <2> HIDE DEF from
  <2>5. /\ put \in Seq(Keys \cup {Hole}) /\ Len(put) = Len(s)
        /\ \A j \in 1..Len(s) : put[j] = IF j = from THEN key ELSE s[j]
    BY <1>2, <2>3, <2>4, ExceptSeq
  <2> HIDE DEF put
  <2>6. put \in Slots
    BY <2>5 DEF Slots
  <2>7. DOMAIN put = 1..Len(s)
    BY <2>5, <2>6, LiveSlots
  <2>8. Live(put) = Live(s) \cup {from}
    <3>1. ASSUME NEW j \in 1..Len(s) PROVE j \in Live(put) <=> j \in Live(s) \/ j = from
      BY <1>1, <2>4, <2>5, <2>7 DEF Live, Hole
    <3>2. Live(put) \subseteq 1..Len(s)
      BY <2>7 DEF Live
    <3> QED BY <1>1, <2>4, <3>1, <3>2
  <2>9. \A j \in 1..(from - 1) : j \in Live(s)
    <3>1. ASSUME NEW j \in 1..(from - 1), j \notin Live(s) PROVE FALSE
      <4>1. j \in 1..Len(s) /\ j < from
        BY <1>1, <2>4
      <4>2. j \in Empty(s)
        BY <1>1, <3>1, <4>1 DEF Empty
      <4> QED BY <1>1, <2>2, <2>4, <4>1, <4>2
    <3> QED BY <3>1
  <2>10. from \in 1..Len(s) + 1 /\ from <= Len(s) /\ from # Len(s) + 1 /\ Len(put) \in 1..LeafCapacity
    BY <1>1, <2>4, <2>5
  <2>11. put[from] = key /\ \A j \in 1..Len(s) : j # from => put[j] = s[j]
    BY <2>4, <2>5
  <2> QED BY <1>4, <2>4, <2>5, <2>6, <2>8, <2>9, <2>10, <2>11 DEF put, from
<1> QED BY <1>3, <1>4

(* How a page r comes from a page s by the insertion of a key: the key is  *)
(* in slot `at' and the others moved to f[i] without changing their order. *)
Placed(s, r, key, at, f) ==
  /\ at \in Live(r) /\ r[at] = key
  /\ \A i \in Live(s) : f[i] \in Live(r) /\ f[i] # at /\ r[f[i]] = s[i]
  /\ \A i, j \in Live(s) : i < j => f[i] < f[j]
  /\ \A k \in Live(r) : k # at => \E i \in Live(s) : f[i] = k

(* The smaller keys end before it and the larger ones behind it.           *)
InPlace(s, key, at, f) ==
  \A i \in Live(s) : (s[i] < key => f[i] < at) /\ (s[i] > key => at < f[i])

(* A page r is s with the key, placed, and in place if all was compared.   *)
Arranged(s, r, key) ==
  \E at, f : /\ at \in Nat /\ f \in [Live(s) -> Nat]
             /\ Placed(s, r, key, at, f)
             /\ Ascends(s) /\ ~ Misplaces(s, key) => InPlace(s, key, at, f)

(* The three cases of SortedPage::insertRecord are all there are.          *)
LEMMA Targets ==
  ASSUME NEW s \in Slots, NEW key \in Keys, Len(s) <= LeafCapacity, HasSpace(s)
  PROVE  LET put == Put(s, key)
             from == TakenSlot(s)
             n == Cardinality(Live(put))
             to == IF Larger(s, key) = {} THEN n + 1 ELSE First(Larger(s, key))
         IN  /\ Larger(s, key) = {} => /\ to = Cardinality(Live(s)) + 2
                                       /\ to > from /\ to <= Len(put) + 1
                                       /\ Empty(s) = {} => /\ to = Len(put) + 1
                                                           /\ \A j \in Live(s) : s[j] < key
             /\ Larger(s, key) # {} => /\ to \in Live(s) /\ to # from /\ to <= Len(put)
                                       /\ s[to] >= key
                                       /\ \A j \in Live(s) : j < to => s[j] < key
<1> DEFINE put == Put(s, key)
           from == TakenSlot(s)
           n == Cardinality(Live(put))
           m == Cardinality(Live(s))
           to == IF Larger(s, key) = {} THEN n + 1 ELSE First(Larger(s, key))
<1>1. /\ put \in Slots /\ Len(put) \in 1..LeafCapacity
      /\ from \in 1..Len(s) + 1 /\ from \notin Live(s)
      /\ Empty(s) = {} => from = Len(s) + 1
      /\ Empty(s) # {} => from <= Len(s)
      /\ Len(put) = IF from = Len(s) + 1 THEN Len(s) + 1 ELSE Len(s)
      /\ \A j \in 1..from - 1 : j \in Live(s)
      /\ put[from] = key /\ \A j \in 1..Len(s) : j # from => put[j] = s[j]
      /\ Live(put) = Live(s) \cup {from}
  BY PutIs
<1>2. /\ Len(s) \in Nat /\ DOMAIN s = 1..Len(s) /\ Live(s) \subseteq 1..Len(s) /\ Live(s) \in SUBSET Nat
      /\ IsFiniteSet(Live(s)) /\ m \in Nat /\ \A i \in Live(s) : s[i] \in Nat
  BY LiveSlots
<1>3. key \in Nat
  BY TreeAssumption
<1> HIDE DEF put, from
<1>4. n = m + 1
  <2>1. Cardinality(Live(s) \cup {from}) = m + 1
    BY <1>1, <1>2, FS_AddElement
  <2> QED BY <1>1, <2>1
<1>5. from <= n
  <2>1. 1..from \subseteq Live(put)
    <3>1. ASSUME NEW j \in 1..from PROVE j \in Live(put)
      <4>1. j = from \/ j \in 1..(from - 1)
        BY <1>1
      <4> QED BY <1>1, <4>1
    <3> QED BY <3>1
  <2>2. IsFiniteSet(Live(put))
    BY <1>1, LiveSlots
  <2>3. Cardinality(1..from) = from
    <3>1. from \in Nat /\ from >= 1
      BY <1>1, <1>2
    <3>2. Cardinality(1..from) = IF 1 > from THEN 0 ELSE from - 1 + 1
      BY <3>1, FS_Interval
    <3> QED BY <3>1, <3>2
  <2>4. Cardinality(1..from) <= n
    BY <2>1, <2>2, FS_Subset
  <2> QED BY <2>3, <2>4
<1>6. n <= Len(put)
  <2>1. Live(put) \subseteq 1..Len(put) /\ Len(put) \in Nat
    BY <1>1, LiveSlots
  <2>2. IsFiniteSet(1..Len(put)) /\ Cardinality(1..Len(put)) = IF 1 > Len(put) THEN 0 ELSE Len(put) - 1 + 1
    <3>1. 1 \in Int /\ Len(put) \in Int
      BY <2>1
    <3> HIDE DEF n
    <3> QED BY <3>1, FS_Interval
  <2>3. n <= Cardinality(1..Len(put))
    BY <2>1, <2>2, FS_Subset
  <2>4. Len(put) >= 1
    BY <1>1, TreeAssumption
  <2> QED BY <2>1, <2>2, <2>3, <2>4
<1>7. Empty(s) = {} => n = Len(put)
  <2>1. SUFFICES ASSUME Empty(s) = {} PROVE n = Len(put)
    OBVIOUS
  <2>2. from = Len(s) + 1 /\ Len(put) = Len(s) + 1
    BY <1>1, <2>1
  <2>3. n \in Nat /\ Len(put) \in Nat
    BY <1>2, <1>4, <2>2
  <2> QED BY <1>5, <1>6, <2>2, <2>3
<1> HIDE DEF n, m
<1>8. ASSUME Larger(s, key) = {}
      PROVE  /\ to = m + 2 /\ to > from /\ to <= Len(put) + 1
             /\ Empty(s) = {} => to = Len(put) + 1 /\ \A j \in Live(s) : s[j] < key
  <2>1. to = n + 1
    BY <1>8
  <2>2. from \in Nat /\ Len(put) \in Nat /\ n \in Nat
    BY <1>1, <1>2, <1>4, TreeAssumption
  <2>3. ASSUME Empty(s) = {}, NEW j \in Live(s) PROVE s[j] < key
    <3>1. Live(s) = 1..Len(s)
      BY <1>2, <2>3 DEF Empty
    <3>2. m = Len(s)
      <4>1. Cardinality(1..Len(s)) = IF 1 > Len(s) THEN 0 ELSE Len(s) - 1 + 1
        BY <1>2, FS_Interval
      <4> QED BY <1>2, <3>1, <4>1 DEF m
    <3>3. j \in 1..(m + 1)
      BY <1>2, <2>3, <3>2
    <3>4. ~ (s[j] >= key)
      BY <1>8, <2>3, <3>3 DEF Larger, m
    <3> QED BY <1>2, <1>3, <3>4
  <2> HIDE DEF to
  <2> QED BY <1>2, <1>4, <1>5, <1>6, <1>7, <2>1, <2>2, <2>3
<1>9. ASSUME Larger(s, key) # {}
      PROVE  /\ to \in Live(s) /\ to # from /\ to <= Len(put) /\ s[to] >= key
             /\ \A j \in Live(s) : j < to => s[j] < key
  <2>1. Larger(s, key) \in SUBSET Nat
    BY <1>2 DEF Larger
  <2>2. to \in Larger(s, key) /\ \A y \in Larger(s, key) : to <= y
    BY <1>9, <2>1, FirstIs
  <2>3. to \in Live(s) /\ s[to] >= key /\ to \in 1..(m + 1)
    BY <2>2 DEF Larger, m
  <2> HIDE DEF to
  <2>4. to # from /\ to <= Len(put)
    BY <1>1, <1>2, <2>3
  <2>5. ASSUME NEW j \in Live(s), j < to PROVE s[j] < key
    <3>1. j \in Nat /\ j >= 1 /\ to \in Nat
      BY <1>2, <2>3
    <3>2. j \in 1..(m + 1)
      BY <1>2, <2>3, <2>5, <3>1
    <3>3. j \notin Larger(s, key)
      BY <2>2, <2>5, <3>1
    <3>4. ~ (s[j] >= key)
      BY <3>2, <3>3 DEF Larger, m
    <3> QED BY <1>2, <1>3, <3>4
  <2> QED BY <2>3, <2>4, <2>5
<1> QED BY <1>8, <1>9 DEF put, from, n, m

(* Moving an element keeps the order of the others.                        *)
Moves(s, from, at, r, g) ==
  /\ g \in [1..Len(s) -> 1..Len(s)] /\ g[from] = at
  /\ \A k \in 1..Len(s) : r[g[k]] = s[k]
  /\ \A i, j \in 1..Len(s) : i # from /\ j # from /\ i < j => g[i] < g[j]
  /\ \A k \in 1..Len(s) : k # from => g[k] # at
  /\ \A k \in 1..Len(s) : \E i \in 1..Len(s) : g[i] = k
  /\ \A k \in 1..Len(s) : /\ at <= from /\ k # from => (g[k] < at <=> k < at)
                          /\ at >= from /\ k # from => (g[k] < at <=> k < at + 1)

(* RemoveAt and InsertAt, as SortedPage uses them, move an element.        *)
LEMMA MovedTo ==
  ASSUME NEW S, NEW s \in Seq(S), NEW from \in 1..Len(s), NEW at \in 1..Len(s)
  PROVE  LET r == InsertAt(RemoveAt(s, from), at, s[from])
         IN  /\ r \in Seq(S) /\ Len(r) = Len(s)
             /\ \E g : Moves(s, from, at, r, g)
<1> DEFINE rest == RemoveAt(s, from)
           r == InsertAt(rest, at, s[from])
           g == [k \in 1..Len(s) |-> IF k = from THEN at
                                     ELSE IF k < from /\ at <= k THEN k + 1
                                     ELSE IF from < k /\ k <= at THEN k - 1 ELSE k]
<1>1. /\ Len(s) \in Nat /\ from \in Nat /\ at \in Nat /\ s[from] \in S
      /\ from >= 1 /\ from <= Len(s) /\ at >= 1 /\ at <= Len(s)
  BY LenProperties, ElementOfSeq
<1>2. /\ rest \in Seq(S) /\ Len(rest) = Len(s) - 1
      /\ \A j \in 1..Len(s) - 1 : rest[j] = IF j < from THEN s[j] ELSE s[j + 1]
  BY RemoveAtIs
<1> HIDE DEF rest
<1>3. at \in 1..Len(rest) + 1 /\ Len(rest) + 1 = Len(s)
  BY <1>1, <1>2
<1>4. /\ r \in Seq(S) /\ Len(r) = Len(rest) + 1
      /\ \A j \in 1..Len(rest) + 1 : r[j] = IF j < at THEN rest[j] ELSE IF j = at THEN s[from] ELSE rest[j - 1]
  <2>1. s[from] \in S /\ rest \in Seq(S) /\ at \in 1..Len(rest) + 1
    BY <1>1, <1>2, <1>3
  <2> DEFINE e == s[from]
  <2> HIDE DEF g, e
  <2>2. e \in S
    BY <2>1 DEF e
  <2>3. /\ InsertAt(rest, at, e) \in Seq(S) /\ Len(InsertAt(rest, at, e)) = Len(rest) + 1
        /\ \A j \in 1..Len(rest) + 1 : InsertAt(rest, at, e)[j] =
               IF j < at THEN rest[j] ELSE IF j = at THEN e ELSE rest[j - 1]
    BY <2>1, <2>2, InsertAtIs
  <2> QED BY <2>3 DEF e
<1>5. \A j \in 1..Len(s) : r[j] = IF j < at THEN rest[j] ELSE IF j = at THEN s[from] ELSE rest[j - 1]
  BY <1>3, <1>4
<1>6. r \in Seq(S) /\ Len(r) = Len(s)
  BY <1>3, <1>4
<1> HIDE DEF r
<1>7. g \in [1..Len(s) -> 1..Len(s)] /\ g[from] = at
  BY <1>1
<1>8. ASSUME NEW k \in 1..Len(s) PROVE r[g[k]] = s[k]
  <2>1. CASE k = from
    BY <1>1, <1>5, <2>1
  <2>2. CASE k < from /\ at <= k
    <3>1. g[k] = k + 1 /\ k + 1 \in 1..Len(s) /\ ~ (k + 1 < at) /\ k + 1 # at /\ k + 1 - 1 = k /\ k \in 1..Len(s) - 1
      BY <1>1, <2>2
    <3> QED BY <1>2, <1>5, <2>2, <3>1
  <2>3. CASE k < from /\ ~ (at <= k)
    <3>1. g[k] = k /\ k < at /\ k \in 1..Len(s) - 1
      BY <1>1, <2>3
    <3> QED BY <1>2, <1>5, <2>3, <3>1
  <2>4. CASE from < k /\ k <= at
    <3>1. g[k] = k - 1 /\ k - 1 \in 1..Len(s) - 1 /\ k - 1 \in 1..Len(s) /\ k - 1 < at /\ ~ (k - 1 < from) /\ k - 1 + 1 = k
      BY <1>1, <2>4
    <3> QED BY <1>2, <1>5, <3>1
  <2>5. CASE from < k /\ ~ (k <= at)
    <3>1. g[k] = k /\ ~ (k < at) /\ k # at /\ k - 1 \in 1..Len(s) - 1 /\ ~ (k - 1 < from) /\ k - 1 + 1 = k
      BY <1>1, <2>5
    <3> QED BY <1>2, <1>5, <3>1
  <2>6. k = from \/ k < from \/ from < k
    BY <1>1
  <2> QED BY <2>1, <2>2, <2>3, <2>4, <2>5, <2>6
<1>9. ASSUME NEW i \in 1..Len(s), NEW j \in 1..Len(s), i # from, j # from, i < j
      PROVE  g[i] < g[j]
  BY <1>1, <1>9
<1>10. \A k \in 1..Len(s) : k # from => g[k] # at
  BY <1>1
<1>11. ASSUME NEW k \in 1..Len(s) PROVE \E i \in 1..Len(s) : g[i] = k
  <2>1. CASE k = at
    BY <1>1, <2>1
  <2>2. CASE k # at /\ at < k /\ k <= from
    <3>1. k - 1 \in 1..Len(s) /\ g[k - 1] = k
      BY <1>1, <2>2
    <3> QED BY <3>1
  <2>3. CASE k # at /\ from <= k /\ k < at
    <3>1. k + 1 \in 1..Len(s) /\ g[k + 1] = k
      BY <1>1, <2>3
    <3> QED BY <3>1
  <2>4. CASE k # at /\ ~ (at < k /\ k <= from) /\ ~ (from <= k /\ k < at)
    <3>1. g[k] = k
      BY <1>1, <2>4
    <3> QED BY <3>1
  <2> QED BY <2>1, <2>2, <2>3, <2>4
<1>12. \A k \in 1..Len(s) : /\ at <= from /\ k # from => (g[k] < at <=> k < at)
                            /\ at >= from /\ k # from => (g[k] < at <=> k < at + 1)
  BY <1>1
<1> HIDE DEF g
<1>13. Moves(s, from, at, r, g)
  BY <1>7, <1>8, <1>9, <1>10, <1>11, <1>12 DEF Moves
<1> QED BY <1>6, <1>13 DEF r, rest

(* SortedPage::insertRecord places the key: every other record keeps its   *)
(* value and its order, and where the page was in order and all of it was  *)
(* compared, it stays in order.                                            *)
LEMMA SortedIs ==
  ASSUME NEW s \in Slots, NEW key \in Keys, Len(s) <= LeafCapacity, HasSpace(s)
  PROVE  LET r == Sorted(s, key)
         IN  r \in Slots /\ Len(r) \in 1..LeafCapacity /\ Arranged(s, r, key)
<1> DEFINE put == Put(s, key)
           from == TakenSlot(s)
           n == Cardinality(Live(put))
           to == IF Larger(s, key) = {} THEN n + 1 ELSE First(Larger(s, key))
           r == Sorted(s, key)
<1>1. /\ put \in Slots /\ Len(put) \in 1..LeafCapacity
      /\ from \in 1..Len(s) + 1 /\ from \notin Live(s)
      /\ Empty(s) = {} => from = Len(s) + 1
      /\ Empty(s) # {} => from <= Len(s)
      /\ Len(put) = IF from = Len(s) + 1 THEN Len(s) + 1 ELSE Len(s)
      /\ put[from] = key /\ \A j \in 1..Len(s) : j # from => put[j] = s[j]
      /\ Live(put) = Live(s) \cup {from}
  BY PutIs
<1>2. /\ Len(s) \in Nat /\ Live(s) \subseteq 1..Len(s) /\ Live(s) \in SUBSET Nat
      /\ Cardinality(Live(s)) \in Nat /\ \A i \in Live(s) : s[i] \in Nat
  BY LiveSlots
<1>3. key \in Nat /\ LeafCapacity \in Nat /\ key # Hole
  BY TreeAssumption DEF Hole
<1>4. /\ Larger(s, key) = {} => /\ to = Cardinality(Live(s)) + 2
                                /\ to > from /\ to <= Len(put) + 1
                                /\ Empty(s) = {} => /\ to = Len(put) + 1
                                                    /\ \A j \in Live(s) : s[j] < key
      /\ Larger(s, key) # {} => /\ to \in Live(s) /\ to # from /\ to <= Len(put)
                                /\ s[to] >= key
                                /\ \A j \in Live(s) : j < to => s[j] < key
  BY Targets
<1>5. r = CASE to = Len(put) + 1 -> put
            [] to < from -> InsertAt(RemoveAt(put, from), to, key)
            [] from < to /\ to <= Len(put) -> InsertAt(RemoveAt(put, from), to - 1, key)
  BY DEF Sorted
<1> HIDE DEF put, from, to, r
<1>6. to \in Nat /\ to >= 1 /\ from \in Nat /\ from >= 1 /\ from <= Len(put) /\ Len(put) \in Nat
  BY <1>1, <1>2, <1>3, <1>4
<1>7. ASSUME NEW i \in Live(s) PROVE i # from /\ i \in 1..Len(put) /\ put[i] = s[i] /\ i \in 1..Len(s)
  BY <1>1, <1>2
<1>8. CASE to = Len(put) + 1
  <2>1. r = put
    BY <1>5, <1>6, <1>8
  <2> DEFINE f == [i \in Live(s) |-> i]
  <2>2. Larger(s, key) = {}
    BY <1>4, <1>6, <1>8
  <2>3. Placed(s, r, key, from, f)
    BY <1>1, <1>7, <2>1 DEF Placed
  <2>4. ASSUME ~ Misplaces(s, key) PROVE InPlace(s, key, from, f)
    <3>1. Empty(s) = {}
      BY <2>2, <2>4 DEF Misplaces
    <3>2. \A j \in Live(s) : s[j] < key /\ j < from
      BY <1>1, <1>2, <1>4, <2>2, <3>1
    <3> QED BY <1>2, <1>3, <3>2 DEF InPlace
  <2>5. f \in [Live(s) -> Nat]
    BY <1>2
  <2> HIDE DEF f
  <2>6. Arranged(s, r, key)
    BY <1>6, <2>3, <2>4, <2>5 DEF Arranged
  <2> QED BY <1>1, <2>1, <2>6 DEF r
<1>9. ASSUME NEW at \in 1..Len(put), r = InsertAt(RemoveAt(put, from), at, key),
             (to < from /\ at = to) \/ (from < to /\ to <= Len(put) /\ at = to - 1)
      PROVE  r \in Slots /\ Len(r) \in 1..LeafCapacity /\ Arranged(s, r, key)
  <2>1. put \in Seq(Keys \cup {Hole}) /\ from \in 1..Len(put)
    BY <1>1, <1>6 DEF Slots
  <2>2. /\ r \in Seq(Keys \cup {Hole}) /\ Len(r) = Len(put)
        /\ \E g : Moves(put, from, at, r, g)
    <3>1. r = InsertAt(RemoveAt(put, from), at, put[from])
      BY <1>1, <1>9
    <3>2. at \in 1..Len(put)
      OBVIOUS
    <3> QED BY <2>1, <3>1, <3>2, MovedTo
  <2>3. PICK g : Moves(put, from, at, r, g)
    BY <2>2
  <2>4. r \in Slots /\ Len(r) \in 1..LeafCapacity
    BY <1>1, <2>2 DEF Slots
  <2>5. DOMAIN r = 1..Len(put)
    BY <2>2, <2>4, LiveSlots
  <2>6. /\ g \in [1..Len(put) -> 1..Len(put)] /\ g[from] = at
        /\ \A k \in 1..Len(put) : r[g[k]] = put[k]
        /\ \A i, j \in 1..Len(put) : i # from /\ j # from /\ i < j => g[i] < g[j]
        /\ \A k \in 1..Len(put) : k # from => g[k] # at
        /\ \A k \in 1..Len(put) : \E i \in 1..Len(put) : g[i] = k
        /\ \A k \in 1..Len(put) : /\ at <= from /\ k # from => (g[k] < at <=> k < at)
                                  /\ at >= from /\ k # from => (g[k] < at <=> k < at + 1)
    BY <2>3 DEF Moves
  <2> DEFINE f == [i \in Live(s) |-> g[i]]
  <2>7. \A k \in 1..Len(put) : g[k] \in Live(r) <=> k \in Live(put)
    <3>1. DOMAIN put = 1..Len(put)
      BY <1>1, LiveSlots
    <3> QED BY <2>5, <2>6, <3>1 DEF Live
  <2>8. f \in [Live(s) -> Nat] /\ at \in Nat
    BY <1>6, <1>7, <2>6
  <2>9. Placed(s, r, key, at, f)
    <3>1. at \in Live(r) /\ r[at] = key
      BY <1>1, <2>1, <2>6, <2>7
    <3>2. \A i \in Live(s) : f[i] \in Live(r) /\ f[i] # at /\ r[f[i]] = s[i]
      BY <1>1, <1>7, <2>6, <2>7
    <3>3. \A i, j \in Live(s) : i < j => f[i] < f[j]
      BY <1>7, <2>6
    <3>4. ASSUME NEW k \in Live(r), k # at PROVE \E i \in Live(s) : f[i] = k
      <4>1. k \in 1..Len(put)
        BY <2>5 DEF Live
      <4>2. PICK i \in 1..Len(put) : g[i] = k
        BY <2>6, <4>1
      <4>3. i \in Live(put) /\ i # from
        BY <2>6, <2>7, <3>4, <4>2
      <4>4. i \in Live(s)
        BY <1>1, <4>3
      <4> QED BY <4>2, <4>4
    <3> HIDE DEF f
    <3> QED BY <3>1, <3>2, <3>3, <3>4 DEF Placed
  <2>10. ASSUME Ascends(s), ~ Misplaces(s, key) PROVE InPlace(s, key, at, f)
    <3>1. Larger(s, key) # {}
      <4>1. SUFFICES ASSUME Larger(s, key) = {} PROVE FALSE
        OBVIOUS
      <4>2. Empty(s) = {}
        BY <2>10, <4>1 DEF Misplaces
      <4>3. to = Len(put) + 1 /\ from <= Len(put)
        BY <1>4, <1>6, <4>1, <4>2
      <4> QED BY <1>6, <1>9, <4>3
    <3>2. to \in Live(s) /\ s[to] >= key /\ \A j \in Live(s) : j < to => s[j] < key
      BY <1>4, <3>1
    <3>3. ASSUME NEW i \in Live(s) PROVE f[i] < at <=> i < to
      <4>1. i \in 1..Len(put) /\ i # from /\ i \in Nat
        BY <1>7
      <4>2. /\ at <= from => (g[i] < at <=> i < at)
            /\ at >= from => (g[i] < at <=> i < at + 1)
        BY <2>6, <4>1
      <4>3. f[i] = g[i] /\ at \in Nat
        BY <1>6
      <4>4. CASE to < from /\ at = to
        BY <1>6, <4>2, <4>3, <4>4
      <4>5. CASE from < to /\ at = to - 1
        <5>1. at >= from /\ at + 1 = to
          BY <1>6, <4>5
        <5> QED BY <4>2, <4>3, <5>1
      <4> QED BY <1>9, <4>4, <4>5
    <3>4. ASSUME NEW i \in Live(s) PROVE (s[i] < key => f[i] < at) /\ (s[i] > key => at < f[i])
      <4>1. i \in Nat /\ s[i] \in Nat /\ s[to] \in Nat /\ f[i] \in Nat /\ f[i] # at
        BY <1>2, <2>8, <2>9, <3>2 DEF Placed
      <4>2. i > to => s[to] < s[i]
        BY <2>10, <3>2, <4>1 DEF Ascends
      <4>3. i < to \/ i = to \/ i > to
        BY <1>6, <4>1
      <4>4. s[to] \in Nat /\ s[to] >= key /\ key \in Nat /\ (i < to => s[i] < key)
        BY <1>3, <3>2, <4>1
      <4> HIDE DEF f
      <4>5. ASSUME s[i] < key PROVE f[i] < at
        <5>1. ~ (i > to) /\ i # to
          BY <4>1, <4>2, <4>4, <4>5
        <5> QED BY <3>3, <4>3, <5>1
      <4>6. ASSUME s[i] > key PROVE at < f[i]
        <5>1. ~ (i < to)
          BY <4>1, <4>4, <4>6
        <5>2. ~ (f[i] < at)
          BY <3>3, <5>1
        <5> QED BY <2>8, <4>1, <5>2
      <4> QED BY <4>5, <4>6
    <3> HIDE DEF f
    <3> QED BY <3>4 DEF InPlace
  <2> HIDE DEF f
  <2>11. Arranged(s, r, key)
    BY <2>8, <2>9, <2>10 DEF Arranged
  <2> QED BY <2>4, <2>11
<1>10. CASE to < from
  <2>1. to \in 1..Len(put) /\ to # Len(put) + 1
    BY <1>6, <1>10
  <2>2. r = InsertAt(RemoveAt(put, from), to, key)
    BY <1>5, <1>6, <1>10, <2>1
  <2> QED BY <1>9, <1>10, <2>1, <2>2 DEF r
<1>11. CASE from < to /\ to <= Len(put)
  <2>1. to - 1 \in 1..Len(put) /\ to # Len(put) + 1 /\ ~ (to < from)
    BY <1>6, <1>11
  <2>2. r = InsertAt(RemoveAt(put, from), to - 1, key)
    BY <1>5, <1>6, <1>11, <2>1
  <2> QED BY <1>9, <1>11, <2>1, <2>2 DEF r
<1>12. to = Len(put) + 1 \/ to < from \/ (from < to /\ to <= Len(put))
  BY <1>4, <1>6
<1> QED BY <1>8, <1>10, <1>11, <1>12 DEF r

(* A deletion takes the record out and leaves the others where they are.   *)
LEMMA WithoutIs ==
  ASSUME NEW s \in Slots, NEW i \in Live(s)
  PROVE  LET r == Without(s, i)
         IN  /\ r \in Slots /\ Len(r) \in 1..Len(s)
             /\ Live(r) = Live(s) \ {i} /\ \A j \in Live(r) : r[j] = s[j]
<1> DEFINE holed == [s EXCEPT ![i] = Hole]
           IsLast(n) == /\ \A j \in n + 1..Len(s) : holed[j] = Hole
                        /\ n = 1 \/ holed[n] # Hole
           last == CHOOSE n \in 1..Len(s) : IsLast(n)
           r == SubSeq(holed, 1, last)
<1>1. /\ Len(s) \in Nat /\ DOMAIN s = 1..Len(s) /\ i \in 1..Len(s) /\ Live(s) \subseteq 1..Len(s)
      /\ \A j \in 1..Len(s) : s[j] \in Keys \cup {Hole}
  BY LiveSlots
<1>2. /\ DOMAIN holed = 1..Len(s) /\ \A j \in 1..Len(s) : holed[j] = IF j = i THEN Hole ELSE s[j]
  BY <1>1
<1> HIDE DEF holed
<1>3. \E n \in 1..Len(s) : IsLast(n)
  <2> DEFINE T == {n \in 1..Len(s) : \A j \in n + 1..Len(s) : holed[j] = Hole}
  <2>1. T \in SUBSET Nat
    BY <1>1
  <2>2. Len(s) \in T
    BY <1>1
  <2>3. PICK n \in T : \A y \in T : n <= y
    BY <2>1, <2>2, NatMin
  <2>4. n = 1 \/ holed[n] # Hole
    <3>1. SUFFICES ASSUME n # 1, holed[n] = Hole PROVE FALSE
      OBVIOUS
    <3>2. n - 1 \in 1..Len(s) /\ n \in Nat
      BY <1>1, <2>3, <3>1
    <3>3. ASSUME NEW j \in (n - 1) + 1..Len(s) PROVE holed[j] = Hole
      <4>1. j = n \/ j \in n + 1..Len(s)
        BY <3>2
      <4> QED BY <2>3, <3>1, <4>1
    <3>4. n - 1 \in T
      BY <3>2, <3>3
    <3>5. n <= n - 1
      BY <2>3, <3>4
    <3> QED BY <3>2, <3>5
  <2> QED BY <2>3, <2>4
<1>4. last \in 1..Len(s) /\ IsLast(last)
  BY <1>3
<1> HIDE DEF last
<1>5. /\ r \in Seq(Keys \cup {Hole}) /\ Len(r) = last
      /\ \A j \in 1..last : r[j] = holed[j]
  <2>1. \A j \in 1..last : holed[j] \in Keys \cup {Hole}
    BY <1>1, <1>2, <1>4
  <2>2. last \in Int /\ 1 \in Int
    BY <1>1, <1>4
  <2>3. /\ r \in Seq(Keys \cup {Hole}) /\ Len(r) = (IF 1 <= last THEN last - 1 + 1 ELSE 0)
        /\ \A j \in 1..last - 1 + 1 : r[j] = holed[1 + j - 1]
    BY <2>1, <2>2, SubSeqProperties
  <2> HIDE DEF r
  <2> QED BY <1>1, <1>4, <2>3
<1>6. r = Without(s, i)
  BY DEF Without, holed, last, r
<1> HIDE DEF r
<1>7. r \in Slots /\ Len(r) \in 1..Len(s) /\ DOMAIN r = 1..last
  BY <1>4, <1>5, LiveSlots DEF Slots
<1>8. ASSUME NEW j \in 1..Len(s) PROVE j \in Live(r) <=> j \in Live(s) /\ j # i
  <2>1. CASE j \in 1..last
    BY <1>1, <1>2, <1>5, <1>7, <2>1 DEF Live
  <2>2. CASE j \notin 1..last
    <3>1. j \in last + 1..Len(s)
      BY <1>1, <1>4, <2>2
    <3>2. holed[j] = Hole
      BY <1>4, <3>1
    <3> QED BY <1>1, <1>2, <1>7, <2>2, <3>2 DEF Live
  <2> QED BY <2>1, <2>2
<1>9. Live(r) \subseteq 1..last /\ 1..last \subseteq 1..Len(s)
  BY <1>1, <1>4, <1>7 DEF Live
<1>10. Live(r) = Live(s) \ {i}
  BY <1>1, <1>8, <1>9
<1>11. \A j \in Live(r) : r[j] = s[j]
  BY <1>1, <1>2, <1>5, <1>9, <1>10
<1> QED BY <1>6, <1>7, <1>10, <1>11

(* The halves of a page without holes have its slots and no holes.         *)
LEMMA HalvesAre ==
  ASSUME NEW s \in Slots, Live(s) = DOMAIN s, NEW mid \in 1..Len(s) - 1
  PROVE  LET lower == SubSeq(s, 1, mid)
             upper == UpperHalf(s, mid)
         IN  /\ lower \in Slots /\ Len(lower) = mid /\ Live(lower) = 1..mid
             /\ \A j \in 1..mid : lower[j] = s[j]
             /\ upper \in Slots /\ Len(upper) = Len(s) - mid /\ Live(upper) = 1..Len(s) - mid
             /\ \A j \in 1..Len(s) - mid : upper[j] = s[mid + j]
<1> DEFINE lower == SubSeq(s, 1, mid)
           upper == SubSeq(s, mid + 1, Len(s))
<1>1. /\ Len(s) \in Nat /\ mid \in Nat /\ mid >= 1 /\ mid < Len(s) /\ DOMAIN s = 1..Len(s)
      /\ \A i \in 1..Len(s) : s[i] \in Keys \cup {Hole} /\ s[i] # Hole
  <2>1. Len(s) \in Nat /\ DOMAIN s = 1..Len(s) /\ \A i \in 1..Len(s) : s[i] \in Keys \cup {Hole}
    BY LiveSlots
  <2> QED BY <2>1 DEF Live
<1>2. lower \in Slots /\ Len(lower) = mid /\ \A j \in 1..mid : lower[j] = s[j]
  <2>1. 1 \in Int /\ mid \in Int /\ \A j \in 1..mid : s[j] \in Keys \cup {Hole}
    BY <1>1
  <2>2. /\ lower \in Seq(Keys \cup {Hole}) /\ Len(lower) = (IF 1 <= mid THEN mid - 1 + 1 ELSE 0)
        /\ \A j \in 1..mid - 1 + 1 : lower[j] = s[1 + j - 1]
    BY <2>1, SubSeqProperties
  <2> HIDE DEF lower
  <2> QED BY <1>1, <2>2 DEF Slots
<1>3. /\ upper \in Slots /\ Len(upper) = Len(s) - mid
      /\ \A j \in 1..Len(s) - mid : upper[j] = s[mid + j]
  <2>1. mid + 1 \in Int /\ Len(s) \in Int /\ \A j \in mid + 1..Len(s) : s[j] \in Keys \cup {Hole}
    BY <1>1
  <2>2. /\ upper \in Seq(Keys \cup {Hole})
        /\ Len(upper) = (IF mid + 1 <= Len(s) THEN Len(s) - (mid + 1) + 1 ELSE 0)
        /\ \A j \in 1..Len(s) - (mid + 1) + 1 : upper[j] = s[(mid + 1) + j - 1]
    BY <2>1, SubSeqProperties
  <2> HIDE DEF upper
  <2> QED BY <1>1, <2>2 DEF Slots
<1> HIDE DEF lower, upper
<1>4. Live(lower) = 1..mid
  <2>1. DOMAIN lower = 1..mid
    BY <1>2, LiveSlots
  <2> QED BY <1>1, <1>2, <2>1 DEF Live
<1>5. Live(upper) = 1..Len(s) - mid
  <2>1. DOMAIN upper = 1..Len(s) - mid
    BY <1>3, LiveSlots
  <2>2. \A j \in 1..Len(s) - mid : mid + j \in 1..Len(s)
    BY <1>1
  <2> QED BY <1>1, <1>3, <2>1, <2>2 DEF Live
<1> QED BY <1>2, <1>3, <1>4, <1>5 DEF lower, upper, UpperHalf

(***************************************************************************)
(* The index.                                                              *)
(***************************************************************************)
(* Every separator before position r is smaller than the key, the one in   *)
(* position r is not.                                                      *)
FirstNotSmaller(index, key, r) ==
  /\ r \in 2..Len(index) + 1
  /\ \A j \in 1..r - 1 : index[j].key < key
  /\ r <= Len(index) => key <= index[r].key

ChildAt(index, key, r) ==
  IF r <= Len(index) /\ key = index[r].key THEN index[r].page ELSE index[r - 1].page

Separators(n) == Seq([key : Keys \cup {StartKey}, page : 1..n])

(* An index that begins with StartKey.                                     *)
Begins(index) == Len(index) >= 2 /\ index[1].key = StartKey

(* Entries of an index are records of a key and a page.                    *)
LEMMA EntriesOf ==
  ASSUME NEW n \in Nat, NEW index \in Separators(n)
  PROVE  /\ Len(index) \in Nat /\ DOMAIN index = 1..Len(index)
         /\ \A i \in 1..Len(index) : /\ index[i] = [key |-> index[i].key, page |-> index[i].page]
                                     /\ index[i].key \in Keys \cup {StartKey} /\ index[i].key \in Int
                                     /\ index[i].page \in 1..n
<1>1. \A i \in 1..Len(index) : index[i] \in [key : Keys \cup {StartKey}, page : 1..n]
  BY ElementOfSeq DEF Separators
<1>2. \A k \in Keys \cup {StartKey} : k \in Int
  BY TreeAssumption DEF StartKey
<1>3. Len(index) \in Nat /\ DOMAIN index = 1..Len(index)
  BY LenProperties DEF Separators
<1> QED BY <1>1, <1>2, <1>3

(* There is a first separator that is not smaller, or none is.             *)
LEMMA NotSmallerExists ==
  ASSUME NEW n \in Nat, NEW index \in Separators(n), Begins(index), NEW key \in Nat \ {0}
  PROVE  \E r : FirstNotSmaller(index, key, r)
<1> DEFINE T == {r \in 2..Len(index) + 1 : r <= Len(index) => key <= index[r].key}
<1>1. /\ Len(index) \in Nat /\ Len(index) >= 2 /\ index[1].key < key /\ key \in Nat
      /\ \A i \in 1..Len(index) : index[i].key \in Int
  <2>1. Len(index) \in Nat /\ \A i \in 1..Len(index) : index[i].key \in Int
    BY EntriesOf
  <2>2. key \in Nat /\ key > 0 /\ StartKey < key
    BY TreeAssumption DEF StartKey
  <2> QED BY <2>1, <2>2 DEF Begins
<1>2. T \in SUBSET Nat /\ Len(index) + 1 \in T
  BY <1>1
<1>3. PICK r \in T : \A y \in T : r <= y
  BY <1>2, NatMin
<1>4. ASSUME NEW j \in 1..r - 1 PROVE index[j].key < key
  <2>1. r \in Nat /\ r <= Len(index) + 1
    BY <1>1
  <2>2. CASE j = 1
    BY <1>1, <2>2
  <2>3. CASE j # 1
    <3>1. j \in 2..Len(index) + 1 /\ j < r /\ j \in 1..Len(index) /\ j <= Len(index)
      BY <1>1, <2>1, <2>3
    <3>2. j \notin T
      BY <1>3, <2>1, <3>1
    <3>3. ~ (key <= index[j].key)
      BY <3>1, <3>2
    <3> QED BY <1>1, <3>1, <3>3
  <2> QED BY <2>2, <2>3
<1>5. FirstNotSmaller(index, key, r)
  BY <1>4 DEF FirstNotSmaller
<1> QED BY <1>5

(* get_page_no leads to the child at or before that separator.             *)
LEMMA PageOf ==
  ASSUME NEW n \in Nat, NEW index \in Separators(n), Begins(index), NEW key \in Nat \ {0}, NEW r,
         FirstNotSmaller(index, key, r)
  PROVE  get_page_no(index, key) = ChildAt(index, key, r)
<1> DEFINE reached == {i \in DOMAIN index : key = NULL \/ key <= index[i].key}
<1>1. /\ Len(index) \in Nat /\ DOMAIN index = 1..Len(index) /\ index[1].key < key /\ key \in Nat
      /\ \A i \in 1..Len(index) : index[i].key \in Int
      /\ key # NULL
  <2>1. /\ Len(index) \in Nat /\ DOMAIN index = 1..Len(index)
        /\ \A i \in 1..Len(index) : index[i].key \in Int
    BY EntriesOf
  <2>2. key \in Nat /\ key > 0 /\ StartKey < key
    BY TreeAssumption DEF StartKey
  <2> QED BY <2>1, <2>2 DEF Begins, NULL
<1>2. r \in Nat /\ r >= 2 /\ r <= Len(index) + 1
  BY <1>1 DEF FirstNotSmaller
<1>3. get_page_no(index, key) =
        CASE reached = {} -> index[Len(index)].page
          [] reached # {} /\ (First(reached) = 1 \/ key = index[First(reached)].key)
                -> index[First(reached)].page
          [] OTHER -> index[First(reached) - 1].page
  BY DEF get_page_no
<1>4. ASSUME NEW i \in reached PROVE i \in Nat /\ i >= r
  <2>1. i \in 1..Len(index) /\ key <= index[i].key
    BY <1>1
  <2>2. ~ (i \in 1..r - 1)
    BY <1>1, <2>1 DEF FirstNotSmaller
  <2> QED BY <1>1, <1>2, <2>1, <2>2
<1>5. CASE r <= Len(index)
  <2>1. r \in reached
    BY <1>1, <1>2, <1>5 DEF FirstNotSmaller
  <2>2. reached \in SUBSET Nat
    BY <1>4
  <2>3. First(reached) \in reached /\ First(reached) <= r
    BY <2>1, <2>2, FirstIs
  <2>4. First(reached) = r
    BY <1>2, <1>4, <2>2, <2>3
  <2> HIDE DEF reached
  <2>5. reached # {} /\ r # 1
    BY <1>2, <2>1
  <2> QED BY <1>3, <1>5, <2>4, <2>5 DEF ChildAt
<1>6. CASE ~ (r <= Len(index))
  <2>1. r = Len(index) + 1
    BY <1>1, <1>2, <1>6
  <2>2. reached = {}
    BY <1>1, <1>4, <2>1
  <2> HIDE DEF reached
  <2> QED BY <1>1, <1>3, <1>6, <2>1, <2>2 DEF ChildAt
<1> QED BY <1>5, <1>6

(* A scan without a lower bound begins in the first child.                 *)
LEMMA PageOfNull ==
  ASSUME NEW n \in Nat, NEW index \in Separators(n), Begins(index)
  PROVE  get_page_no(index, NULL) = index[1].page
<1> DEFINE reached == {i \in DOMAIN index : NULL = NULL \/ NULL <= index[i].key}
<1>1. Len(index) \in Nat /\ DOMAIN index = 1..Len(index) /\ Len(index) >= 2
  BY EntriesOf DEF Begins
<1>2. reached = 1..Len(index) /\ 1 \in reached
  BY <1>1
<1>3. reached \in SUBSET Nat
  BY <1>2
<1>4. First(reached) \in reached /\ First(reached) <= 1
  BY <1>2, <1>3, FirstIs
<1>5. First(reached) = 1 /\ reached # {}
  BY <1>1, <1>2, <1>4
<1>6. get_page_no(index, NULL) =
        CASE reached = {} -> index[Len(index)].page
          [] reached # {} /\ (First(reached) = 1 \/ NULL = index[First(reached)].key)
                -> index[First(reached)].page
          [] OTHER -> index[First(reached) - 1].page
  BY DEF get_page_no
<1> HIDE DEF reached
<1> QED BY <1>5, <1>6

(* A full index stays as it is; otherwise the new separator goes before    *)
(* the first that is not smaller, and the others move up.                  *)
Separated1(index, key, q, m, new) ==
  /\ FirstNotSmaller(index, key, m)
  /\ Len(new) = Len(index) + 1
  /\ \A j \in 1..Len(index) + 1 : new[j] = IF j < m THEN index[j]
                                           ELSE IF j = m THEN [key |-> key, page |-> q]
                                           ELSE index[j - 1]

(* What insertKey makes of an index (btindex_page.C:19-38).                *)
LEMMA WithSeparatorIs ==
  ASSUME NEW n \in Nat, NEW index \in Separators(n), Begins(index), Len(index) <= IndexCapacity,
         NEW key \in Keys, NEW q \in 1..n
  PROVE  LET new == WithSeparator(index, key, q)
         IN  /\ new \in Separators(n) /\ Begins(new) /\ Len(new) <= IndexCapacity
             /\ \/ new = index
                \/ \E m : Separated1(index, key, q, m, new)
<1> DEFINE e == [key |-> key, page |-> q]
           T == {j \in 1..Len(index) + 1 : j = Len(index) + 1 \/ index[j].key >= key}
           m == First(T)
           new == WithSeparator(index, key, q)
<1>1. Len(index) \in Nat /\ IndexCapacity \in Nat /\ Len(index) >= 2 /\ \A i \in 1..Len(index) : index[i].key \in Int
  BY EntriesOf, TreeAssumption DEF Begins
<1>2. key \in Nat /\ StartKey < key /\ index[1].key = StartKey
  BY TreeAssumption DEF StartKey, Begins
<1>3. new = IF Len(index) < IndexCapacity THEN InsertAt(index, m, e) ELSE index
  BY DEF WithSeparator
<1>4. CASE ~ (Len(index) < IndexCapacity)
  BY <1>3, <1>4
<1>5. CASE Len(index) < IndexCapacity
  <2>1. T \in SUBSET Nat /\ Len(index) + 1 \in T
    BY <1>1
  <2>2. m \in T /\ \A y \in T : m <= y
    BY <2>1, FirstIs
  <2>3. m \in 1..Len(index) + 1 /\ (m = Len(index) + 1 \/ index[m].key >= key)
    BY <2>2
  <2>4. ASSUME NEW j \in 1..m - 1 PROVE index[j].key < key
    <3>1. j \in 1..Len(index) + 1 /\ j < m /\ j # Len(index) + 1 /\ j \in 1..Len(index)
      BY <1>1, <2>3
    <3>2. j \notin T
      BY <1>1, <2>2, <2>3, <3>1
    <3>3. ~ (index[j].key >= key)
      BY <3>1, <3>2
    <3> QED BY <1>1, <1>2, <3>1, <3>3
  <2> HIDE DEF m, T
  <2>5. m >= 2
    BY <1>1, <1>2, <2>3
  <2>6. FirstNotSmaller(index, key, m)
    BY <1>1, <1>2, <2>3, <2>4, <2>5 DEF FirstNotSmaller
  <2>7. e \in [key : Keys \cup {StartKey}, page : 1..n]
    OBVIOUS
  <2> HIDE DEF e
  <2>8. new = InsertAt(index, m, e)
    BY <1>3, <1>5
  <2> HIDE DEF new
  <2>9. /\ new \in Seq([key : Keys \cup {StartKey}, page : 1..n]) /\ Len(new) = Len(index) + 1
        /\ \A j \in 1..Len(index) + 1 : new[j] =
              IF j < m THEN index[j] ELSE IF j = m THEN e ELSE index[j - 1]
    <3> DEFINE S == [key : Keys \cup {StartKey}, page : 1..n]
    <3>1. index \in Seq(S) /\ e \in S
      BY <2>7 DEF Separators
    <3> HIDE DEF S
    <3>2. /\ InsertAt(index, m, e) \in Seq(S) /\ Len(InsertAt(index, m, e)) = Len(index) + 1
          /\ \A j \in 1..Len(index) + 1 : InsertAt(index, m, e)[j] =
                 IF j < m THEN index[j] ELSE IF j = m THEN e ELSE index[j - 1]
      BY <2>3, <3>1, InsertAtIs
    <3> QED BY <2>8, <3>2 DEF S
  <2>10. Separated1(index, key, q, m, new)
    BY <2>6, <2>9 DEF Separated1, e
  <2>11. new[1] = index[1]
    BY <1>1, <2>3, <2>5, <2>9
  <2>12. Begins(new) /\ Len(new) <= IndexCapacity
    BY <1>1, <1>2, <1>5, <2>9, <2>11 DEF Begins
  <2> QED BY <2>9, <2>10, <2>12 DEF new, Separators
<1> QED BY <1>4, <1>5

(* After a separator and its page were added, a descent leads where it led *)
(* before, or to the new page.                                             *)
LEMMA DescentAfter ==
  ASSUME NEW n \in Nat, NEW index \in Separators(n), Begins(index),
         NEW new \in Separators(n), Begins(new), NEW s \in Keys, NEW q, NEW m,
         Separated1(index, s, q, m, new), NEW key \in Keys, key # s
  PROVE  get_page_no(new, key) \in {get_page_no(index, key), q}
<1>1. /\ Len(index) \in Nat /\ key \in Nat /\ s \in Nat
      /\ \A i \in 1..Len(index) : index[i].key \in Int
  BY EntriesOf, TreeAssumption
<1>2. PICK r : FirstNotSmaller(index, key, r)
  BY NotSmallerExists, TreeAssumption
<1>3. get_page_no(index, key) = ChildAt(index, key, r)
  BY <1>2, PageOf, TreeAssumption
<1>4. /\ FirstNotSmaller(index, s, m) /\ Len(new) = Len(index) + 1
      /\ \A j \in 1..Len(index) + 1 : /\ j < m => new[j] = index[j]
                                      /\ j = m => new[j].key = s /\ new[j].page = q
                                      /\ j > m => new[j] = index[j - 1]
  <2>1. m \in Nat
    BY <1>1 DEF Separated1, FirstNotSmaller
  <2> QED BY <1>1, <2>1 DEF Separated1
<1>5. /\ r \in Nat /\ r >= 2 /\ r <= Len(index) + 1 /\ m \in Nat /\ m >= 2 /\ m <= Len(index) + 1
      /\ \A j \in 1..r - 1 : index[j].key < key
      /\ r <= Len(index) => key <= index[r].key
      /\ \A j \in 1..m - 1 : index[j].key < s
      /\ m <= Len(index) => s <= index[m].key
  BY <1>1, <1>2, <1>4 DEF FirstNotSmaller
<1>6. CASE s > key
  <2>1. m >= r
    <3>1. SUFFICES ASSUME m < r PROVE FALSE
      BY <1>5
    <3>2. m \in 1..r - 1 /\ m <= Len(index) /\ m \in 1..Len(index)
      BY <1>1, <1>5, <3>1
    <3>3. index[m].key < key /\ s <= index[m].key /\ index[m].key \in Int
      BY <1>1, <1>5, <3>2
    <3> QED BY <1>1, <1>6, <3>3
  <2>2. \A j \in 1..r - 1 : new[j] = index[j]
    BY <1>1, <1>4, <1>5, <2>1
  <2>3. r \in 1..Len(index) + 1 /\ r \in 2..Len(new) + 1 /\ r <= Len(new)
    BY <1>1, <1>4, <1>5
  <2>4. CASE m = r
    <3>1. new[r].key = s /\ key <= new[r].key /\ key # new[r].key
      BY <1>1, <1>4, <1>6, <2>3, <2>4
    <3>2. FirstNotSmaller(new, key, r)
      BY <1>5, <2>2, <2>3, <3>1 DEF FirstNotSmaller
    <3>3. get_page_no(new, key) = ChildAt(new, key, r)
      BY <3>2, PageOf, TreeAssumption
    <3>4. ChildAt(new, key, r) = index[r - 1].page
      <4>1. r - 1 \in 1..r - 1
        BY <1>5
      <4> QED BY <2>2, <3>1, <4>1 DEF ChildAt
    <3>5. r <= Len(index) => key # index[r].key
      <4>1. SUFFICES ASSUME r <= Len(index) PROVE key # index[r].key
        OBVIOUS
      <4>2. s <= index[r].key /\ index[r].key \in Int
        BY <1>1, <1>5, <2>4, <4>1
      <4> QED BY <1>1, <1>6, <4>2
    <3> QED BY <1>3, <3>3, <3>4, <3>5 DEF ChildAt
  <2>5. CASE m # r
    <3>1. r < m /\ r <= Len(index) /\ new[r] = index[r]
      BY <1>1, <1>4, <1>5, <2>1, <2>3, <2>5
    <3>2. FirstNotSmaller(new, key, r)
      BY <1>5, <2>2, <2>3, <3>1 DEF FirstNotSmaller
    <3>3. get_page_no(new, key) = ChildAt(new, key, r)
      BY <3>2, PageOf, TreeAssumption
    <3>4. r - 1 \in 1..r - 1
      BY <1>5
    <3>5. ChildAt(new, key, r) = ChildAt(index, key, r)
      BY <2>2, <2>3, <3>1, <3>4 DEF ChildAt
    <3> QED BY <1>3, <3>3, <3>5
  <2> QED BY <2>4, <2>5
<1>7. CASE s < key
  <2>1. r >= m
    <3>1. SUFFICES ASSUME r < m PROVE FALSE
      BY <1>5
    <3>2. r \in 1..m - 1 /\ r <= Len(index) /\ r \in 1..Len(index)
      BY <1>1, <1>5, <3>1
    <3>3. index[r].key < s /\ key <= index[r].key /\ index[r].key \in Int
      BY <1>1, <1>5, <3>2
    <3> QED BY <1>1, <1>7, <3>3
  <2>2. \A j \in 1..(r + 1) - 1 : new[j].key < key
    <3>1. SUFFICES ASSUME NEW j \in 1..r PROVE new[j].key < key
      BY <1>5
    <3>2. j \in 1..Len(index) + 1
      BY <1>1, <1>5
    <3>3. CASE j < m
      <4>1. j \in 1..r - 1
        BY <1>5, <2>1, <3>3
      <4> QED BY <1>4, <1>5, <3>2, <3>3, <4>1
    <3>4. CASE j = m
      BY <1>4, <1>7, <3>2, <3>4
    <3>5. CASE j > m
      <4>1. j - 1 \in 1..r - 1
        BY <1>5, <3>5
      <4> QED BY <1>4, <1>5, <3>2, <3>5, <4>1
    <3> QED BY <1>5, <3>3, <3>4, <3>5
  <2>3. r + 1 \in 2..Len(new) + 1 /\ (r + 1 <= Len(new) <=> r <= Len(index)) /\ r + 1 - 1 = r
    BY <1>1, <1>4, <1>5
  <2>4. r <= Len(index) => new[r + 1] = index[r]
    <3>1. SUFFICES ASSUME r <= Len(index) PROVE new[r + 1] = index[r]
      OBVIOUS
    <3>2. r + 1 \in 1..Len(index) + 1 /\ r + 1 > m
      BY <1>1, <1>5, <2>1, <3>1
    <3>3. PICK j \in 1..Len(index) + 1 : j = r + 1
      BY <3>2
    <3>4. new[j] = index[j - 1] /\ j - 1 = r
      BY <1>4, <1>5, <3>2, <3>3
    <3> QED BY <3>3, <3>4
  <2>5. FirstNotSmaller(new, key, r + 1)
    BY <1>5, <2>2, <2>3, <2>4 DEF FirstNotSmaller
  <2>6. get_page_no(new, key) = ChildAt(new, key, r + 1)
    BY <2>5, PageOf, TreeAssumption
  <2>7. new[r].page = q \/ new[r].page = index[r - 1].page
    <3>1. r \in 1..Len(index) + 1 /\ (r = m \/ r > m)
      BY <1>1, <1>5, <2>1
    <3> QED BY <1>4, <3>1
  <2>8. CASE r <= Len(index) /\ key = index[r].key
    BY <1>3, <2>3, <2>4, <2>6, <2>8 DEF ChildAt
  <2>9. CASE ~ (r <= Len(index) /\ key = index[r].key)
    <3>1. get_page_no(index, key) = index[r - 1].page
      BY <1>3, <2>9 DEF ChildAt
    <3>2. ~ (r + 1 <= Len(new) /\ key = new[r + 1].key)
      BY <2>3, <2>4, <2>9
    <3>3. get_page_no(new, key) = new[r].page
      <4>1. PICK j \in Nat : j = r + 1
        BY <1>5
      <4>2. ChildAt(new, key, j) = new[j - 1].page
        BY <3>2, <4>1 DEF ChildAt
      <4>3. j - 1 = r
        BY <1>5, <4>1
      <4> QED BY <2>6, <4>1, <4>2, <4>3
    <3> QED BY <2>7, <3>1, <3>3
  <2> QED BY <2>8, <2>9
<1> QED BY <1>1, <1>6, <1>7

(***************************************************************************)
(* The list of leaves.                                                     *)
(***************************************************************************)

(* The chain Chain follows is the list of leaves, if there is one.         *)
LEMMA ChainIs ==
  \A c : /\ Len(c) \in Nat \ {0} /\ c \in Seq(1..Len(c)) /\ Leaves = 1..Len(c)
         /\ InOrder(tree.leaf, c)
         => Chain = c
<1> SUFFICES ASSUME NEW c, Len(c) \in Nat \ {0}, c \in Seq(1..Len(c)), Leaves = 1..Len(c),
                    InOrder(tree.leaf, c)
             PROVE  Chain = c
  OBVIOUS
<1> DEFINE N == Len(c)
           step(s) == LET q == tree.leaf[s[Len(s)]].next IN IF q = INVALID_PAGE THEN s ELSE Append(s, q)
           body(f) == [n \in 0..N |-> IF n = 0 THEN << FirstLeaf >> ELSE step(f[n - 1])]
           from == CHOOSE f : f = body(f)
           prefix == [n \in 0..N |-> IF n < N THEN SubSeq(c, 1, n + 1) ELSE c]
<1>1. Cardinality(Leaves) = N /\ N \in Nat /\ N >= 1
  <2>1. Cardinality(1..N) = IF 1 > N THEN 0 ELSE N - 1 + 1
    BY FS_Interval
  <2> QED BY <2>1
<1>2. /\ c[1] = FirstLeaf /\ tree.leaf[c[N]].next = INVALID_PAGE
      /\ \A i \in 1..N - 1 : tree.leaf[c[i]].next = c[i + 1]
      /\ \A i \in 1..N : c[i] \in 1..N /\ c[i] # INVALID_PAGE
  <2>1. \A i \in 1..N : c[i] \in 1..N
    BY ElementOfSeq
  <2>2. \A i \in 1..N : c[i] # INVALID_PAGE
    BY <1>1, <2>1 DEF INVALID_PAGE
  <2>3. \A i \in 1..N - 1 : tree.leaf[c[i]].next = c[i + 1]
    BY DEF InOrder
  <2>4. c[1] = FirstLeaf /\ tree.leaf[c[N]].next = INVALID_PAGE
    BY DEF InOrder
  <2> QED BY <2>1, <2>2, <2>3, <2>4
<1>3. ASSUME NEW n \in 0..N - 1
      PROVE  /\ SubSeq(c, 1, n + 1) \in Seq(1..N) /\ Len(SubSeq(c, 1, n + 1)) = n + 1
             /\ \A j \in 1..n + 1 : SubSeq(c, 1, n + 1)[j] = c[j]
  <2>0. 1 \in Int /\ n + 1 \in Int /\ 1..n + 1 \subseteq 1..N
    BY <1>1
  <2>1. 1 \in Int /\ n + 1 \in Int /\ \A j \in 1..n + 1 : c[j] \in 1..N
    BY <1>2, <2>0
  <2>2. /\ SubSeq(c, 1, n + 1) \in Seq(1..N)
        /\ Len(SubSeq(c, 1, n + 1)) = (IF 1 <= n + 1 THEN n + 1 - 1 + 1 ELSE 0)
        /\ \A j \in 1..n + 1 - 1 + 1 : SubSeq(c, 1, n + 1)[j] = c[1 + j - 1]
    BY <2>1, SubSeqProperties
  <2> QED BY <1>1, <2>2
<1>4. prefix[0] = << FirstLeaf >>
  <2>1. prefix[0] = SubSeq(c, 1, 1)
    BY <1>1
  <2>2. SubSeq(c, 1, 1) \in Seq(1..N) /\ Len(SubSeq(c, 1, 1)) = 1 /\ SubSeq(c, 1, 1)[1] = c[1]
    BY <1>1, <1>3
  <2> HIDE DEF prefix
  <2>3. << FirstLeaf >> \in Seq(1..N) /\ Len(<< FirstLeaf >>) = 1 /\ << FirstLeaf >>[1] = FirstLeaf
    BY <1>1 DEF FirstLeaf
  <2>4. SubSeq(c, 1, 1) = << FirstLeaf >>
    <3> DEFINE a == SubSeq(c, 1, 1)
               b == << FirstLeaf >>
    <3>1. /\ a \in Seq(1..N) /\ b \in Seq(1..N) /\ Len(a) = Len(b)
          /\ \A j \in 1..Len(a) : a[j] = b[j]
      BY <1>2, <2>2, <2>3
    <3> HIDE DEF a, b, N
    <3>2. a = b
      BY <3>1, SeqEqual
    <3> QED BY <3>2 DEF a, b
  <2> QED BY <2>1, <2>4
<1>5. ASSUME NEW n \in 1..N - 1 PROVE prefix[n] = step(prefix[n - 1])
  <2> DEFINE s == SubSeq(c, 1, n)
  <2>0. n \in 0..N /\ n < N /\ n - 1 \in 0..N /\ n - 1 < N /\ (n - 1) + 1 = n
    BY <1>1
  <2>9. prefix[n - 1] = SubSeq(c, 1, (n - 1) + 1)
    BY <2>0
  <2>1. prefix[n] = SubSeq(c, 1, n + 1) /\ prefix[n - 1] = s
    BY <2>0, <2>9
  <2>2. s \in Seq(1..N) /\ Len(s) = n /\ \A j \in 1..n : s[j] = c[j]
    BY <1>1, <1>3
  <2>3. tree.leaf[s[Len(s)]].next = c[n + 1] /\ c[n + 1] \in 1..N /\ c[n + 1] # INVALID_PAGE
    <3>1. s[Len(s)] = c[n] /\ n \in 1..N /\ n + 1 \in 1..N
      BY <1>1, <2>2
    <3> HIDE DEF N, s
    <3> QED BY <1>2, <3>1
  <2> HIDE DEF s, prefix
  <2>4. step(s) = Append(s, c[n + 1])
    BY <2>3
  <2>5. /\ Append(s, c[n + 1]) \in Seq(1..N) /\ Len(Append(s, c[n + 1])) = n + 1
        /\ \A j \in 1..n : Append(s, c[n + 1])[j] = s[j]
        /\ Append(s, c[n + 1])[n + 1] = c[n + 1]
    <3> DEFINE e == c[n + 1]
    <3>1. e \in 1..N
      BY <2>3
    <3> HIDE DEF N, e
    <3>2. /\ Append(s, e) \in Seq(1..N) /\ Len(Append(s, e)) = Len(s) + 1
          /\ \A j \in 1..Len(s) : Append(s, e)[j] = s[j]
          /\ Append(s, e)[Len(s) + 1] = e
      BY <2>2, <3>1, AppendProperties
    <3> QED BY <2>2, <3>2 DEF e
  <2>6. /\ SubSeq(c, 1, n + 1) \in Seq(1..N) /\ Len(SubSeq(c, 1, n + 1)) = n + 1
        /\ \A j \in 1..n + 1 : SubSeq(c, 1, n + 1)[j] = c[j]
    BY <1>1, <1>3
  <2>7. \A j \in 1..n + 1 : Append(s, c[n + 1])[j] = SubSeq(c, 1, n + 1)[j]
    <3>1. SUFFICES ASSUME NEW j \in 1..n + 1 PROVE Append(s, c[n + 1])[j] = c[j]
      BY <2>6
    <3>2. j \in 1..n \/ j = n + 1
      OBVIOUS
    <3> QED BY <2>2, <2>5, <3>2
  <2>8. Append(s, c[n + 1]) = SubSeq(c, 1, n + 1)
    BY <2>5, <2>6, <2>7, SeqEqual
  <2> QED BY <2>1, <2>4, <2>8
<1>6. prefix[N - 1] = c
  <2>1. prefix[N - 1] = SubSeq(c, 1, N)
    BY <1>1
  <2>2. SubSeq(c, 1, Len(c)) = c
    BY SubSeqFull
  <2> QED BY <2>1, <2>2
<1>7. prefix[N] = c
  BY <1>1
<1>8. step(c) = c
  BY <1>2
<1>9. prefix = body(prefix)
  <2>1. ASSUME NEW n \in 0..N PROVE prefix[n] = IF n = 0 THEN << FirstLeaf >> ELSE step(prefix[n - 1])
    <3>1. n = 0 \/ n \in 1..N - 1 \/ (n = N /\ n # 0)
      BY <1>1
    <3> HIDE DEF prefix, step
    <3> QED BY <1>4, <1>5, <1>6, <1>7, <1>8, <3>1
  <2>2. prefix = [n \in 0..N |-> prefix[n]]
    OBVIOUS
  <2> HIDE DEF prefix, step
  <2> QED BY <2>1, <2>2
<1>10. from = body(from)
  BY <1>9
<1>11. \A n \in 0..N : from[n] = IF n = 0 THEN << FirstLeaf >> ELSE step(from[n - 1])
  <2> HIDE DEF from, step
  <2> QED BY <1>10
<1>12. \A n \in 0..N : from[n] = prefix[n]
  <2> DEFINE T == {n \in 0..N : from[n] # prefix[n]}
  <2>1. SUFFICES ASSUME T # {} PROVE FALSE
    OBVIOUS
  <2> HIDE DEF from, prefix, step
  <2>2. T \in SUBSET Nat
    <3>1. T \subseteq 0..N
      OBVIOUS
    <3>2. 0..N \subseteq Nat
      OBVIOUS
    <3> QED BY <3>1, <3>2
  <2>3. PICK n \in T : \A y \in T : n <= y
    BY <2>1, <2>2, NatMin
  <2>4. n # 0
    BY <1>4, <1>11, <2>3
  <2>5. n \in 1..N /\ n - 1 \in 0..N /\ n - 1 \notin T
    BY <1>1, <2>3, <2>4
  <2>6. from[n - 1] = prefix[n - 1]
    BY <2>5
  <2>7. from[n] = step(prefix[n - 1])
    BY <1>11, <2>4, <2>5, <2>6
  <2>8. prefix[n] = step(prefix[n - 1])
    <3>1. n \in 1..N - 1 \/ n = N
      BY <1>1, <2>5
    <3> QED BY <1>5, <1>6, <1>7, <1>8, <3>1
  <2> QED BY <2>3, <2>7, <2>8
<1>13. Chain = from[N]
  <2> HIDE DEF N
  <2> QED BY <1>1 DEF Chain
<1> HIDE DEF from, prefix, N
<1> QED BY <1>1, <1>7, <1>12, <1>13

(***************************************************************************)
(* What a whole tree looks like.                                           *)
(***************************************************************************)
(* A leaf is the record of its three fields.                               *)
LEMMA LeafRecord ==
  ASSUME NEW t, NEW n, WellFormed(t, n), NEW p \in 1..n
  PROVE  t.leaf[p] = [slots |-> t.leaf[p].slots, next |-> t.leaf[p].next, prev |-> t.leaf[p].prev]
<1>1. t.leaf[p] \in [slots : Seq(Keys \cup {Hole}), next : 1..n \cup {INVALID_PAGE},
                     prev : 1..n \cup {INVALID_PAGE}]
  BY DEF WellFormed
<1> QED BY <1>1

(* Its parts have their types, and no part is longer than it may be.       *)
LEMMA WholeFacts ==
  ASSUME NEW t, NEW c, NEW K, Whole(t, c, K)
  PROVE  /\ Len(c) \in Nat /\ Len(c) >= 1 /\ Len(c) <= MaxLeaves /\ MaxLeaves \in Nat
         /\ c \in Seq(1..Len(c)) /\ DOMAIN c = 1..Len(c)
         /\ \A k \in 1..Len(c) : c[k] \in 1..Len(c)
         /\ DOMAIN t.leaf = 1..Len(c) /\ t = [leaf |-> t.leaf, index |-> t.index]
         /\ \A p \in 1..Len(c) : /\ t.leaf[p] = [slots |-> t.leaf[p].slots, next |-> t.leaf[p].next,
                                                 prev |-> t.leaf[p].prev]
                                 /\ t.leaf[p].slots \in Slots /\ Len(t.leaf[p].slots) <= LeafCapacity
                                 /\ t.leaf[p].next \in 1..Len(c) \cup {INVALID_PAGE}
                                 /\ t.leaf[p].prev \in 1..Len(c) \cup {INVALID_PAGE}
         /\ t.index \in Separators(Len(c)) /\ Len(t.index) <= IndexCapacity
         /\ Len(c) = 1 => t.index = << >>
         /\ Len(c) # 1 => Begins(t.index) /\ \A p \in 1..Len(c) : t.leaf[p].slots # << >>
<1>1. /\ Len(c) \in 1..MaxLeaves /\ c \in Seq(1..Len(c))
      /\ WellFormed(t, Len(c)) /\ IndexBegins(t, Len(c))
  BY DEF Whole
<1>2. Len(c) \in Nat /\ Len(c) >= 1 /\ Len(c) <= MaxLeaves /\ MaxLeaves \in Nat
  BY <1>1, TreeAssumption
<1>3. DOMAIN c = 1..Len(c) /\ \A k \in 1..Len(c) : c[k] \in 1..Len(c)
  BY <1>1, LenProperties, ElementOfSeq
<1>4. DOMAIN t.leaf = 1..Len(c) /\ t = [leaf |-> t.leaf, index |-> t.index]
  BY <1>1 DEF WellFormed
<1>5. ASSUME NEW p \in 1..Len(c)
      PROVE  /\ t.leaf[p] = [slots |-> t.leaf[p].slots, next |-> t.leaf[p].next,
                             prev |-> t.leaf[p].prev]
             /\ t.leaf[p].slots \in Slots /\ Len(t.leaf[p].slots) <= LeafCapacity
             /\ t.leaf[p].next \in 1..Len(c) \cup {INVALID_PAGE}
             /\ t.leaf[p].prev \in 1..Len(c) \cup {INVALID_PAGE}
  BY <1>1 DEF WellFormed, Slots
<1>6. t.index \in Separators(Len(c)) /\ Len(t.index) <= IndexCapacity
  BY <1>1 DEF WellFormed, Separators
<1>7. /\ Len(c) = 1 => t.index = << >>
      /\ Len(c) # 1 => Begins(t.index) /\ \A p \in 1..Len(c) : t.leaf[p].slots # << >>
  BY <1>1 DEF IndexBegins, Begins
<1> HIDE <1>1
<1> QED BY <1>2, <1>3, <1>4, <1>5, <1>6, <1>7, <1>1

(* The parts of Whole about the leaves and the index, put together again.  *)
LEMMA WholeFrom ==
  ASSUME NEW t, NEW c, NEW K, Len(c) \in 1..MaxLeaves, c \in Seq(1..Len(c)),
         t = [leaf |-> t.leaf, index |-> t.index], DOMAIN t.leaf = 1..Len(c),
         t.leaf = [p \in 1..Len(c) |-> t.leaf[p]],
         \A p \in 1..Len(c) : /\ t.leaf[p] = [slots |-> t.leaf[p].slots, next |-> t.leaf[p].next,
                                              prev |-> t.leaf[p].prev]
                              /\ t.leaf[p].slots \in Slots /\ Len(t.leaf[p].slots) <= LeafCapacity
                              /\ t.leaf[p].next \in 1..Len(c) \cup {INVALID_PAGE}
                              /\ t.leaf[p].prev \in 1..Len(c) \cup {INVALID_PAGE},
         t.index \in Separators(Len(c)), Len(t.index) <= IndexCapacity,
         IndexBegins(t, Len(c)), InOrder(t.leaf, c), Holds(t.leaf, K)
  PROVE  Whole(t, c, K)
<1> DEFINE R == [slots : Seq(Keys \cup {Hole}), next : 1..Len(c) \cup {INVALID_PAGE},
                 prev : 1..Len(c) \cup {INVALID_PAGE}]
<1>1. ASSUME NEW p \in 1..Len(c) PROVE t.leaf[p] \in R
  <2>1. PICK x, y, z : x = t.leaf[p].slots /\ y = t.leaf[p].next /\ z = t.leaf[p].prev
    OBVIOUS
  <2>2. t.leaf[p] = [slots |-> x, next |-> y, prev |-> z]
    BY <2>1
  <2>3. /\ x \in Seq(Keys \cup {Hole}) /\ y \in 1..Len(c) \cup {INVALID_PAGE}
        /\ z \in 1..Len(c) \cup {INVALID_PAGE}
    BY <2>1 DEF Slots
  <2>4. [slots |-> x, next |-> y, prev |-> z] \in R
    BY <2>3
  <2> HIDE DEF R
  <2> QED BY <2>2, <2>4
<1> HIDE DEF R
<1>2. t.leaf \in [1..Len(c) -> R]
  BY <1>1
<1>3. WellFormed(t, Len(c))
  BY <1>2 DEF WellFormed, R, Separators
<1> QED BY <1>3 DEF Whole

(* A descent ends in a leaf.                                               *)
LEMMA DescentEnds ==
  ASSUME NEW t, NEW c, NEW K, Whole(t, c, K), NEW key \in Keys
  PROVE  /\ Descend(t, key) \in 1..Len(c)
         /\ Len(c) = 1 <=> tree_level(t) = 1
         /\ Len(c) = 1 => Descend(t, key) = FirstLeaf
         /\ Len(c) # 1 => Descend(t, key) = get_page_no(t.index, key)
<1>1. /\ Len(c) \in Nat /\ Len(c) >= 1 /\ t.index \in Separators(Len(c))
      /\ Len(c) = 1 => t.index = << >>
      /\ Len(c) # 1 => Begins(t.index)
  BY WholeFacts
<1>2. Len(<< >>) = 0
  OBVIOUS
<1>3. Len(c) # 1 => t.index # << >>
  BY <1>1, <1>2 DEF Begins
<1>4. Len(c) = 1 <=> tree_level(t) = 1
  BY <1>1, <1>3 DEF tree_level
<1>5. CASE Len(c) = 1
  BY <1>4, <1>5 DEF Descend, FirstLeaf
<1>6. CASE Len(c) # 1
  <2>1. PICK r : FirstNotSmaller(t.index, key, r)
    BY <1>1, <1>6, NotSmallerExists, TreeAssumption
  <2>2. get_page_no(t.index, key) = ChildAt(t.index, key, r)
    BY <1>1, <1>6, <2>1, PageOf, TreeAssumption
  <2>3. Len(t.index) \in Nat /\ \A i \in 1..Len(t.index) : t.index[i].page \in 1..Len(c)
    BY <1>1, EntriesOf
  <2>4. r \in Nat /\ r - 1 \in 1..Len(t.index) /\ (r <= Len(t.index) => r \in 1..Len(t.index))
    BY <2>1, <2>3 DEF FirstNotSmaller
  <2>5. ChildAt(t.index, key, r) \in 1..Len(c)
    BY <2>3, <2>4 DEF ChildAt
  <2> QED BY <1>4, <1>6, <2>2, <2>5 DEF Descend
<1> QED BY <1>5, <1>6

(* Holds, without the sets of values.                                      *)
LEMMA HoldsIff ==
  ASSUME NEW leaf, NEW K
  PROVE  Holds(leaf, K) <=>
           /\ \A x : x \in K <=> \E p \in DOMAIN leaf : \E i \in Live(leaf[p].slots) : leaf[p].slots[i] = x
           /\ \A p, q \in DOMAIN leaf : \A i \in Live(leaf[p].slots), j \in Live(leaf[q].slots) :
                 leaf[p].slots[i] = leaf[q].slots[j] => p = q /\ i = j
BY DEF Holds

(* Placing a key that is nowhere in the leaves adds it and no other.       *)
LEMMA HoldsPlaced ==
  ASSUME NEW leaf, NEW new, NEW p \in DOMAIN leaf, DOMAIN new = DOMAIN leaf,
         \A q \in DOMAIN leaf : q # p => new[q].slots = leaf[q].slots,
         NEW key, NEW K, key \notin K, NEW at, NEW f,
         Placed(leaf[p].slots, new[p].slots, key, at, f), Holds(leaf, K)
  PROVE  Holds(new, K \cup {key})
<1> DEFINE s == leaf[p].slots
           r == new[p].slots
<1>1. /\ \A x : x \in K <=> \E q \in DOMAIN leaf : \E i \in Live(leaf[q].slots) : leaf[q].slots[i] = x
      /\ \A q1, q2 \in DOMAIN leaf : \A i \in Live(leaf[q1].slots), j \in Live(leaf[q2].slots) :
            leaf[q1].slots[i] = leaf[q2].slots[j] => q1 = q2 /\ i = j
  BY HoldsIff
<1>2. /\ at \in Live(r) /\ r[at] = key
      /\ \A i \in Live(s) : f[i] \in Live(r) /\ f[i] # at /\ r[f[i]] = s[i]
      /\ \A k \in Live(r) : k # at => \E i \in Live(s) : f[i] = k
  BY DEF Placed
<1>3. \A i \in Live(s) : s[i] \in K
  BY <1>1
<1>4. ASSUME NEW x
      PROVE  x \in K \cup {key} <=> \E q \in DOMAIN new : \E i \in Live(new[q].slots) : new[q].slots[i] = x
  <2>1. ASSUME x \in K PROVE \E q \in DOMAIN new : \E i \in Live(new[q].slots) : new[q].slots[i] = x
    <3>1. PICK q \in DOMAIN leaf : \E i \in Live(leaf[q].slots) : leaf[q].slots[i] = x
      BY <1>1, <2>1
    <3>2. CASE q = p
      <4>1. PICK i \in Live(s) : s[i] = x
        BY <3>1, <3>2
      <4>2. f[i] \in Live(r) /\ r[f[i]] = x
        BY <1>2, <4>1
      <4> QED BY <4>2
    <3>3. CASE q # p
      BY <3>1, <3>3
    <3> QED BY <3>2, <3>3
  <2>2. key = x => \E q \in DOMAIN new : \E i \in Live(new[q].slots) : new[q].slots[i] = x
    BY <1>2
  <2>3. ASSUME NEW q \in DOMAIN new, NEW i \in Live(new[q].slots), new[q].slots[i] = x
        PROVE  x \in K \cup {key}
    <3>1. CASE q = p
      <4>1. i = at \/ \E k \in Live(s) : f[k] = i
        BY <1>2, <3>1
      <4> QED BY <1>2, <1>3, <2>3, <3>1, <4>1
    <3>2. CASE q # p
      BY <1>1, <2>3, <3>2
    <3> QED BY <3>1, <3>2
  <2> QED BY <2>1, <2>2, <2>3
<1>5. ASSUME NEW q1 \in DOMAIN new, NEW q2 \in DOMAIN new,
             NEW i \in Live(new[q1].slots), NEW j \in Live(new[q2].slots),
             new[q1].slots[i] = new[q2].slots[j]
      PROVE  q1 = q2 /\ i = j
  <2>1. ASSUME NEW k \in Live(r), NEW q \in DOMAIN leaf, q # p, NEW l \in Live(leaf[q].slots)
        PROVE  r[k] # leaf[q].slots[l]
    <3>1. leaf[q].slots[l] \in K
      BY <1>1
    <3>2. CASE k = at
      BY <1>2, <3>1, <3>2
    <3>3. CASE k # at
      <4>1. PICK m \in Live(s) : f[m] = k
        BY <1>2, <3>3
      <4>2. r[k] = s[m]
        BY <1>2, <4>1
      <4> QED BY <1>1, <2>1, <4>2
    <3> QED BY <3>2, <3>3
  <2>2. CASE q1 = p /\ q2 = p
    <3>1. i \in Live(r) /\ j \in Live(r) /\ r[i] = r[j]
      BY <1>5, <2>2
    <3>2. \A k \in Live(r) : k = at \/ \E m \in Live(s) : f[m] = k /\ r[k] = s[m] /\ s[m] # key
      BY <1>2, <1>3
    <3>3. CASE i = at \/ j = at
      BY <1>2, <2>2, <3>1, <3>2, <3>3
    <3>4. CASE i # at /\ j # at
      <4>1. PICK m \in Live(s) : f[m] = i /\ r[i] = s[m]
        BY <3>1, <3>2, <3>4
      <4>2. PICK l \in Live(s) : f[l] = j /\ r[j] = s[l]
        BY <3>1, <3>2, <3>4
      <4>3. \A x, y \in Live(s) : s[x] = s[y] => x = y
        BY <1>1
      <4>4. m = l
        BY <3>1, <4>1, <4>2, <4>3
      <4> QED BY <2>2, <4>1, <4>2, <4>4
    <3> QED BY <3>3, <3>4, <2>2
  <2>3. CASE q1 = p /\ q2 # p
    <3>1. i \in Live(r) /\ j \in Live(leaf[q2].slots) /\ r[i] = leaf[q2].slots[j]
      BY <1>5, <2>3
    <3> QED BY <2>1, <2>3, <3>1
  <2>4. CASE q1 # p /\ q2 = p
    <3>1. j \in Live(r) /\ i \in Live(leaf[q1].slots) /\ r[j] = leaf[q1].slots[i]
      BY <1>5, <2>4
    <3> QED BY <2>1, <2>4, <3>1
  <2>5. CASE q1 # p /\ q2 # p
    BY <1>1, <1>5, <2>5
  <2> QED BY <2>2, <2>3, <2>4, <2>5
<1> QED BY <1>4, <1>5, HoldsIff

(* Putting a key in a leaf with space keeps the tree whole; a leaf that    *)
(* insert takes for empty() is the only one.                               *)
LEMMA PutIn ==
  ASSUME NEW t, NEW c, NEW K, Whole(t, c, K), NEW p \in 1..Len(c), NEW key \in Keys,
         HasSpace(t.leaf[p].slots)
  PROVE  LET new == PutInLeaf(t, p, key)
         IN  /\ new = [leaf |-> new.leaf, index |-> t.index]
             /\ DOMAIN new.leaf = 1..Len(c) /\ new.leaf = [q \in 1..Len(c) |-> new.leaf[q]]
             /\ \A q \in 1..Len(c) :
                   /\ new.leaf[q] = [slots |-> new.leaf[q].slots, next |-> t.leaf[q].next,
                                     prev |-> new.leaf[q].prev]
                   /\ new.leaf[q].slots = IF q = p THEN Sorted(t.leaf[p].slots, key) ELSE t.leaf[q].slots
                   /\ new.leaf[q].prev \in {INVALID_PAGE, t.leaf[q].prev}
                   /\ Len(c) # 1 => new.leaf[q].prev = t.leaf[q].prev
<1> DEFINE slots == t.leaf[p].slots
           blank == [slots |-> << >>, next |-> INVALID_PAGE, prev |-> INVALID_PAGE]
           old == IF empty(slots) THEN blank ELSE t.leaf[p]
           new == PutInLeaf(t, p, key)
<1>1. /\ DOMAIN t.leaf = 1..Len(c) /\ t = [leaf |-> t.leaf, index |-> t.index] /\ Len(c) \in Nat
      /\ t.leaf = [q \in 1..Len(c) |-> t.leaf[q]]
      /\ \A q \in 1..Len(c) : t.leaf[q] = [slots |-> t.leaf[q].slots, next |-> t.leaf[q].next,
                                           prev |-> t.leaf[q].prev]
      /\ Len(c) # 1 => \A q \in 1..Len(c) : t.leaf[q].slots # << >>
  <2>1. t.leaf = [q \in 1..Len(c) |-> t.leaf[q]]
    BY DEF Whole, WellFormed
  <2>2. DOMAIN t.leaf = 1..Len(c) /\ t = [leaf |-> t.leaf, index |-> t.index] /\ Len(c) \in Nat
    BY WholeFacts
  <2>3. \A q \in 1..Len(c) : t.leaf[q] = [slots |-> t.leaf[q].slots, next |-> t.leaf[q].next,
                                          prev |-> t.leaf[q].prev]
    <3>1. WellFormed(t, Len(c))
      BY DEF Whole
    <3> QED BY <3>1, LeafRecord
  <2>4. Len(c) # 1 => \A q \in 1..Len(c) : t.leaf[q].slots # << >>
    BY WholeFacts
  <2> QED BY <2>1, <2>2, <2>3, <2>4
<1>2. Len(c) = 1 => t.leaf[p].next = INVALID_PAGE
  <2>1. /\ t.leaf[c[Len(c)]].next = INVALID_PAGE /\ c[Len(c)] \in 1..Len(c)
    BY WholeFacts DEF Whole, InOrder
  <2> QED BY <2>1
<1>3. /\ old = [slots |-> slots, next |-> t.leaf[p].next, prev |-> old.prev]
      /\ old.prev \in {INVALID_PAGE, t.leaf[p].prev}
      /\ Len(c) # 1 => old.prev = t.leaf[p].prev
  <2>1. CASE empty(slots)
    <3>1. slots = << >> /\ Len(c) = 1
      BY <1>1, <2>1 DEF empty
    <3> QED BY <1>2, <2>1, <3>1
  <2>2. CASE ~ empty(slots)
    BY <1>1, <2>2
  <2> QED BY <2>1, <2>2
<1>4. new = [t EXCEPT !.leaf = [t.leaf EXCEPT ![p] = [old EXCEPT !.slots = Sorted(@, key)]]]
  BY DEF PutInLeaf
<1> HIDE DEF old
<1>5. [old EXCEPT !.slots = Sorted(@, key)] =
        [slots |-> Sorted(slots, key), next |-> t.leaf[p].next, prev |-> old.prev]
  BY <1>3
<1>6. new = [leaf |-> [t.leaf EXCEPT ![p] = [slots |-> Sorted(slots, key), next |-> t.leaf[p].next,
                                             prev |-> old.prev]],
             index |-> t.index]
  BY <1>1, <1>4, <1>5
<1> HIDE DEF new
<1>7. /\ new.leaf = [t.leaf EXCEPT ![p] = [slots |-> Sorted(slots, key), next |-> t.leaf[p].next,
                                           prev |-> old.prev]]
      /\ new = [leaf |-> new.leaf, index |-> t.index]
  BY <1>6
<1>8. DOMAIN new.leaf = 1..Len(c) /\ new.leaf = [q \in 1..Len(c) |-> new.leaf[q]]
  BY <1>1, <1>7
<1>9. ASSUME NEW q \in 1..Len(c)
      PROVE  /\ new.leaf[q] = [slots |-> new.leaf[q].slots, next |-> t.leaf[q].next,
                               prev |-> new.leaf[q].prev]
             /\ new.leaf[q].slots = IF q = p THEN Sorted(slots, key) ELSE t.leaf[q].slots
             /\ new.leaf[q].prev \in {INVALID_PAGE, t.leaf[q].prev}
             /\ Len(c) # 1 => new.leaf[q].prev = t.leaf[q].prev
  <2>1. CASE q = p
    <3>1. new.leaf[q] = [slots |-> Sorted(slots, key), next |-> t.leaf[p].next, prev |-> old.prev]
      BY <1>1, <1>7, <2>1
    <3> QED BY <1>3, <2>1, <3>1
  <2>2. CASE q # p
    <3>1. new.leaf[q] = t.leaf[q]
      BY <1>1, <1>7, <2>2
    <3> QED BY <1>1, <2>2, <3>1
  <2> QED BY <2>1, <2>2
<1> QED BY <1>7, <1>8, <1>9 DEF new

(* Leaves with the same links are in the same order.                       *)
LEMMA SameOrder ==
  ASSUME NEW n \in Nat \ {0}, NEW c \in Seq(1..n), Len(c) = n, NEW leaf, NEW new,
         DOMAIN leaf = 1..n, DOMAIN new = 1..n,
         \A q \in 1..n : new[q].next = leaf[q].next /\ (n # 1 => new[q].prev = leaf[q].prev),
         InOrder(leaf, c)
  PROVE  InOrder(new, c)
<1>1. \A k \in 1..n : c[k] \in 1..n
  BY ElementOfSeq
<1>2. /\ c[1] = FirstLeaf /\ leaf[c[n]].next = INVALID_PAGE
      /\ ToSet(c) = 1..n
      /\ \A i, j \in DOMAIN c : c[i] = c[j] => i = j
      /\ \A i \in 1..n - 1 : leaf[c[i]].next = c[i + 1] /\ leaf[c[i + 1]].prev = c[i]
  BY DEF InOrder
<1>3. new[c[n]].next = INVALID_PAGE
  BY <1>1, <1>2
<1>4. ASSUME NEW i \in 1..n - 1 PROVE new[c[i]].next = c[i + 1] /\ new[c[i + 1]].prev = c[i]
  <2>1. i \in 1..n /\ i + 1 \in 1..n /\ n # 1
    OBVIOUS
  <2> QED BY <1>1, <1>2, <2>1
<1> QED BY <1>2, <1>3, <1>4 DEF InOrder

(* insert: a key that is in no leaf, put in a leaf with space, is added to *)
(* the keys of a whole tree.                                               *)
LEMMA PutKeeps ==
  ASSUME NEW t, NEW c, NEW K, Whole(t, c, K), NEW p \in 1..Len(c), NEW key \in Keys, key \notin K,
         HasSpace(t.leaf[p].slots)
  PROVE  Whole(PutInLeaf(t, p, key), c, K \cup {key})
<1> DEFINE new == PutInLeaf(t, p, key)
           n == Len(c)
           s == t.leaf[p].slots
<1>1. /\ n \in Nat /\ n >= 1 /\ n <= MaxLeaves /\ MaxLeaves \in Nat /\ c \in Seq(1..n)
      /\ DOMAIN t.leaf = 1..n
      /\ \A q \in 1..n : /\ t.leaf[q].slots \in Slots /\ Len(t.leaf[q].slots) <= LeafCapacity
                         /\ t.leaf[q].next \in 1..n \cup {INVALID_PAGE}
                         /\ t.leaf[q].prev \in 1..n \cup {INVALID_PAGE}
      /\ t.index \in Separators(n) /\ Len(t.index) <= IndexCapacity
      /\ n = 1 => t.index = << >>
      /\ n # 1 => Begins(t.index) /\ \A q \in 1..n : t.leaf[q].slots # << >>
  BY WholeFacts
<1>2. InOrder(t.leaf, c) /\ Holds(t.leaf, K) /\ IndexBegins(t, n)
  BY DEF Whole
<1>3. /\ new = [leaf |-> new.leaf, index |-> t.index]
      /\ DOMAIN new.leaf = 1..n /\ new.leaf = [q \in 1..n |-> new.leaf[q]]
      /\ \A q \in 1..n :
            /\ new.leaf[q] = [slots |-> new.leaf[q].slots, next |-> t.leaf[q].next,
                              prev |-> new.leaf[q].prev]
            /\ new.leaf[q].slots = IF q = p THEN Sorted(s, key) ELSE t.leaf[q].slots
            /\ new.leaf[q].prev \in {INVALID_PAGE, t.leaf[q].prev}
            /\ n # 1 => new.leaf[q].prev = t.leaf[q].prev
  BY PutIn
<1>4. /\ Sorted(s, key) \in Slots /\ Len(Sorted(s, key)) \in 1..LeafCapacity
      /\ Arranged(s, Sorted(s, key), key)
  <2>1. s \in Slots /\ Len(s) <= LeafCapacity
    BY <1>1
  <2> QED BY <2>1, SortedIs
<1> HIDE DEF new, n
<1>5. \A q \in 1..n : new.leaf[q].next = t.leaf[q].next
  <2> SUFFICES ASSUME NEW q \in 1..n PROVE new.leaf[q].next = t.leaf[q].next
    OBVIOUS
  <2>1. new.leaf[q] = [slots |-> new.leaf[q].slots, next |-> t.leaf[q].next, prev |-> new.leaf[q].prev]
    BY <1>3
  <2> QED BY <2>1
<1>6. InOrder(new.leaf, c)
  <2>1. Len(c) = n
    BY DEF n
  <2>2. /\ n \in Nat \ {0} /\ c \in Seq(1..n) /\ DOMAIN t.leaf = 1..n /\ DOMAIN new.leaf = 1..n
        /\ InOrder(t.leaf, c)
    BY <1>1, <1>2, <1>3
  <2>3. \A q \in 1..n : new.leaf[q].next = t.leaf[q].next /\ (n # 1 => new.leaf[q].prev = t.leaf[q].prev)
    BY <1>3, <1>5
  <2> QED BY <2>1, <2>2, <2>3, SameOrder
<1>7. Holds(new.leaf, K \cup {key})
  <2>1. PICK at, f : Placed(s, Sorted(s, key), key, at, f)
    BY <1>4 DEF Arranged
  <2>2. Placed(t.leaf[p].slots, new.leaf[p].slots, key, at, f) /\ p \in 1..n
    BY <1>3, <2>1 DEF n
  <2>3. \A q \in 1..n : q # p => new.leaf[q].slots = t.leaf[q].slots
    BY <1>3
  <2> QED BY <1>1, <1>2, <1>3, <2>2, <2>3, HoldsPlaced
<1>8. ASSUME NEW q \in 1..n
      PROVE  /\ new.leaf[q] = [slots |-> new.leaf[q].slots, next |-> new.leaf[q].next,
                               prev |-> new.leaf[q].prev]
             /\ new.leaf[q].slots \in Slots /\ Len(new.leaf[q].slots) <= LeafCapacity
             /\ new.leaf[q].next \in 1..n \cup {INVALID_PAGE}
             /\ new.leaf[q].prev \in 1..n \cup {INVALID_PAGE}
             /\ n # 1 => new.leaf[q].slots # << >>
  <2>1. new.leaf[q].next = t.leaf[q].next
    BY <1>5
  <2>2. new.leaf[q] = [slots |-> new.leaf[q].slots, next |-> new.leaf[q].next, prev |-> new.leaf[q].prev]
    BY <1>3, <2>1
  <2>3. CASE q = p
    <3>1. new.leaf[q].slots = Sorted(s, key)
      BY <1>3, <2>3
    <3>2. Len(Sorted(s, key)) \in Nat /\ Len(Sorted(s, key)) >= 1 /\ Len(<< >>) = 0 /\ Len(Sorted(s, key)) <= LeafCapacity
      BY <1>4, TreeAssumption
    <3>3. Sorted(s, key) # << >>
      BY <3>2
    <3> QED BY <1>1, <1>3, <1>4, <2>1, <2>2, <3>1, <3>2, <3>3
  <2>4. CASE q # p
    <3>1. new.leaf[q].slots = t.leaf[q].slots
      BY <1>3, <2>4
    <3> QED BY <1>1, <1>3, <2>1, <2>2, <3>1
  <2> QED BY <2>3, <2>4
<1>9. new.index = t.index /\ new = [leaf |-> new.leaf, index |-> new.index]
  BY <1>3
<1>10. IndexBegins(new, n)
  BY <1>1, <1>2, <1>8, <1>9 DEF IndexBegins
<1>11. Len(c) = n /\ n \in 1..MaxLeaves
  BY <1>1 DEF n
<1>12. Whole(new, c, K \cup {key})
  BY <1>1, <1>3, <1>6, <1>7, <1>8, <1>9, <1>10, <1>11, WholeFrom
<1> QED BY <1>12 DEF new

(* A descent in a tree whose index is in order ends in the leaf whose      *)
(* separators the key is between.                                          *)
LEMMA DescentRange ==
  ASSUME NEW t, NEW c, NEW K, Whole(t, c, K), Len(c) # 1, Separated(t, c), NEW key \in Nat \ {0}
  PROVE  \E k \in 1..Len(c) : /\ get_page_no(t.index, key) = c[k] /\ t.index[k].key <= key
                              /\ k < Len(c) => key < t.index[k + 1].key
<1> DEFINE n == Len(c)
           index == t.index
<1>1. n \in Nat /\ n >= 2 /\ index \in Separators(n) /\ Begins(index) /\ DOMAIN c = 1..n
  BY WholeFacts
<1>2. /\ Len(index) = n
      /\ \A k \in 1..n : index[k].page = c[k]
      /\ \A j, k \in 1..n : j < k => index[j].key < index[k].key
  BY <1>1 DEF Separated
<1> HIDE DEF index, n
<1>3. \A k \in 1..n : index[k].key \in Int
  BY <1>1, <1>2, EntriesOf
<1>4. PICK r : FirstNotSmaller(index, key, r)
  BY <1>1, NotSmallerExists
<1>5. get_page_no(index, key) = ChildAt(index, key, r)
  BY <1>1, <1>4, PageOf
<1>6. /\ r \in Nat /\ r >= 2 /\ r <= n + 1
      /\ \A j \in 1..r - 1 : index[j].key < key
      /\ r <= n => key <= index[r].key
  BY <1>1, <1>2, <1>4 DEF FirstNotSmaller
<1>7. CASE r <= n /\ key = index[r].key
  <2>1. r \in 1..n /\ get_page_no(index, key) = c[r]
    BY <1>1, <1>2, <1>5, <1>6, <1>7 DEF ChildAt
  <2>2. ASSUME r < n PROVE key < index[r + 1].key
    <3>1. r + 1 \in 1..n /\ r < r + 1
      BY <1>1, <1>6, <2>2
    <3> QED BY <1>2, <1>7, <2>1, <3>1
  <2> QED BY <1>7, <2>1, <2>2 DEF n, index
<1>8. CASE ~ (r <= n /\ key = index[r].key)
  <2>1. PICK k \in 1..n : k = r - 1
    BY <1>1, <1>6
  <2>2. get_page_no(index, key) = c[k]
    BY <1>2, <1>5, <1>8, <2>1 DEF ChildAt
  <2>3. index[k].key < key /\ index[k].key \in Int
    BY <1>3, <1>6, <2>1
  <2>4. ASSUME k < n PROVE key < index[k + 1].key
    <3>1. k + 1 = r /\ r <= n /\ r \in 1..n
      BY <1>1, <1>6, <2>1, <2>4
    <3>2. key <= index[r].key /\ key # index[r].key /\ index[r].key \in Int
      BY <1>3, <1>6, <1>8, <3>1
    <3> QED BY <3>1, <3>2
  <2>5. index[k].key <= key
    BY <2>3
  <2> QED BY <2>2, <2>4, <2>5 DEF n, index
<1> QED BY <1>7, <1>8

(* A page stays in order when a key is placed between smaller and larger.  *)
LEMMA AscendsPlaced ==
  ASSUME NEW s \in Slots, NEW r \in Slots, NEW key \in Keys, Arranged(s, r, key), Ascends(s),
         ~ Misplaces(s, key), \A i \in Live(s) : s[i] # key
  PROVE  /\ Ascends(r)
         /\ \A i \in Live(r) : r[i] = key \/ \E k \in Live(s) : r[i] = s[k]
<1>1. PICK at, f : /\ at \in Nat /\ f \in [Live(s) -> Nat]
                   /\ Placed(s, r, key, at, f) /\ InPlace(s, key, at, f)
  BY DEF Arranged
<1>2. /\ at \in Live(r) /\ r[at] = key
      /\ \A i \in Live(s) : f[i] \in Live(r) /\ f[i] # at /\ r[f[i]] = s[i]
      /\ \A i, j \in Live(s) : i < j => f[i] < f[j]
      /\ \A k \in Live(r) : k # at => \E i \in Live(s) : f[i] = k
      /\ \A i \in Live(s) : (s[i] < key => f[i] < at) /\ (s[i] > key => at < f[i])
  BY <1>1 DEF Placed, InPlace
<1>3. /\ key \in Nat /\ at \in Nat
      /\ \A i \in Live(s) : i \in Nat /\ s[i] \in Nat /\ f[i] \in Nat
      /\ \A i \in Live(r) : i \in Nat
  BY <1>1, LiveSlots, TreeAssumption
<1>4. ASSUME NEW i \in Live(r), NEW j \in Live(r), i < j PROVE r[i] < r[j]
  <2>1. CASE i = at
    <3>1. PICK b \in Live(s) : f[b] = j
      BY <1>2, <1>3, <1>4, <2>1
    <3>2. ~ (s[b] < key) /\ s[b] # key
      BY <1>2, <1>3, <1>4, <2>1, <3>1
    <3> QED BY <1>2, <1>3, <2>1, <3>1, <3>2
  <2>2. CASE j = at
    <3>1. PICK a \in Live(s) : f[a] = i
      BY <1>2, <1>3, <1>4, <2>2
    <3>2. ~ (s[a] > key) /\ s[a] # key
      BY <1>2, <1>3, <1>4, <2>2, <3>1
    <3> QED BY <1>2, <1>3, <2>2, <3>1, <3>2
  <2>3. CASE i # at /\ j # at
    <3>1. PICK a \in Live(s) : f[a] = i
      BY <1>2, <2>3
    <3>2. PICK b \in Live(s) : f[b] = j
      BY <1>2, <2>3
    <3>3. a < b
      BY <1>2, <1>3, <1>4, <3>1, <3>2
    <3>4. s[a] < s[b]
      BY <3>3 DEF Ascends
    <3> QED BY <1>2, <3>1, <3>2, <3>4
  <2> QED BY <2>1, <2>2, <2>3
<1>5. Ascends(r)
  BY <1>4 DEF Ascends
<1>6. \A i \in Live(r) : r[i] = key \/ \E k \in Live(s) : r[i] = s[k]
  BY <1>2
<1> QED BY <1>5, <1>6

(* insert keeps the tree searchable where it compares the whole page.      *)
LEMMA PutSearchable ==
  ASSUME NEW t, NEW c, NEW K, Whole(t, c, K), Searchable(t, c), NEW key \in Keys, key \notin K,
         HasSpace(t.leaf[Descend(t, key)].slots), ~ Misplaces(t.leaf[Descend(t, key)].slots, key)
  PROVE  Searchable(PutInLeaf(t, Descend(t, key), key), c)
<1> DEFINE p == Descend(t, key)
           new == PutInLeaf(t, p, key)
           n == Len(c)
           s == t.leaf[p].slots
           r == Sorted(s, key)
<1>1. p \in 1..n /\ (n # 1 => p = get_page_no(t.index, key))
  BY DescentEnds
<1> HIDE DEF p
<1>2. /\ n \in Nat /\ DOMAIN c = 1..n /\ DOMAIN t.leaf = 1..n /\ \A k \in 1..n : c[k] \in 1..n
      /\ \A q \in 1..n : t.leaf[q].slots \in Slots /\ Len(t.leaf[q].slots) <= LeafCapacity
      /\ t.index \in Separators(n)
  BY WholeFacts
<1>3. HasSpace(s) /\ ~ Misplaces(s, key) /\ s \in Slots /\ Len(s) <= LeafCapacity /\ Ascends(s)
  BY <1>1, <1>2 DEF p, Searchable
<1>4. /\ new.index = t.index /\ DOMAIN new.leaf = 1..n
      /\ \A q \in 1..n : new.leaf[q].slots = IF q = p THEN r ELSE t.leaf[q].slots
  <2>1. HasSpace(t.leaf[p].slots)
    BY <1>3
  <2>2. /\ new = [leaf |-> new.leaf, index |-> t.index]
        /\ DOMAIN new.leaf = 1..n /\ new.leaf = [q \in 1..n |-> new.leaf[q]]
        /\ \A q \in 1..n :
              /\ new.leaf[q] = [slots |-> new.leaf[q].slots, next |-> t.leaf[q].next,
                                prev |-> new.leaf[q].prev]
              /\ new.leaf[q].slots = IF q = p THEN Sorted(t.leaf[p].slots, key) ELSE t.leaf[q].slots
              /\ new.leaf[q].prev \in {INVALID_PAGE, t.leaf[q].prev}
              /\ n # 1 => new.leaf[q].prev = t.leaf[q].prev
    BY <1>1, <2>1, PutIn
  <2> HIDE DEF new
  <2>3. new.index = t.index
    BY <2>2
  <2> QED BY <2>2, <2>3
<1>5. \A i \in Live(s) : s[i] # key
  <2>1. \A i \in Live(s) : s[i] \in K
    <3>1. \A x : (\E q \in DOMAIN t.leaf : \E i \in Live(t.leaf[q].slots) : t.leaf[q].slots[i] = x) => x \in K
      BY HoldsIff DEF Whole
    <3> QED BY <1>1, <1>2, <3>1
  <2> QED BY <2>1
<1> HIDE DEF new, s
<1>6. r \in Slots /\ Arranged(s, r, key)
  BY <1>3, SortedIs
<1> HIDE DEF r
<1>7. Ascends(r) /\ \A i \in Live(r) : r[i] = key \/ \E k \in Live(s) : r[i] = s[k]
  BY <1>3, <1>5, <1>6, AscendsPlaced
<1>8. \A q \in DOMAIN new.leaf : Ascends(new.leaf[q].slots)
  <2>1. SUFFICES ASSUME NEW q \in 1..n PROVE Ascends(new.leaf[q].slots)
    BY <1>4
  <2>2. q # p => Ascends(t.leaf[q].slots)
    BY <1>2 DEF Searchable
  <2> QED BY <1>4, <1>7, <2>2
<1>9. ASSUME n > 1 PROVE Separated(new, c)
  <2>1. Separated(t, c)
    BY <1>9 DEF Searchable, n
  <2>2. /\ Len(t.index) = n
        /\ \A k \in 1..n : t.index[k].page = c[k]
        /\ \A j, k \in 1..n : j < k => t.index[j].key < t.index[k].key
        /\ \A k \in 1..n : \A i \in Live(t.leaf[c[k]].slots) :
              /\ t.index[k].key <= t.leaf[c[k]].slots[i]
              /\ k < n => t.leaf[c[k]].slots[i] < t.index[k + 1].key
    BY <1>2, <2>1 DEF Separated, n
  <2>3. PICK k \in 1..n : /\ p = c[k] /\ t.index[k].key <= key
                          /\ k < n => key < t.index[k + 1].key
    <3>1. n # 1 /\ Len(c) # 1 /\ key \in Nat \ {0}
      BY <1>2, <1>9, TreeAssumption DEF n
    <3>2. \E k \in 1..n : /\ get_page_no(t.index, key) = c[k] /\ t.index[k].key <= key
                          /\ k < n => key < t.index[k + 1].key
      BY <2>1, <3>1, DescentRange DEF n
    <3> QED BY <1>1, <3>1, <3>2
  <2>4. \A i, j \in 1..n : c[i] = c[j] => i = j
    BY <1>2 DEF Whole, InOrder
  <2>5. ASSUME NEW j \in 1..n, NEW i \in Live(new.leaf[c[j]].slots)
        PROVE  /\ new.index[j].key <= new.leaf[c[j]].slots[i]
               /\ j < n => new.leaf[c[j]].slots[i] < new.index[j + 1].key
    <3>1. CASE j = k
      <4>1. new.leaf[c[j]].slots = r /\ i \in Live(r)
        BY <1>1, <1>4, <2>3, <2>5, <3>1
      <4>2. CASE r[i] = key
        BY <1>4, <2>3, <3>1, <4>1, <4>2
      <4>3. CASE r[i] # key
        <5>1. PICK l \in Live(s) : r[i] = s[l]
          BY <1>7, <4>1, <4>3
        <5>2. s[l] = t.leaf[c[k]].slots[l] /\ l \in Live(t.leaf[c[k]].slots)
          BY <2>3 DEF s
        <5> QED BY <1>4, <2>2, <3>1, <4>1, <5>1, <5>2
      <4> QED BY <4>2, <4>3
    <3>2. CASE j # k
      <4>1. c[j] # p /\ c[j] \in 1..n
        BY <1>2, <2>3, <2>4, <3>2
      <4>2. new.leaf[c[j]].slots = t.leaf[c[j]].slots
        BY <1>4, <4>1
      <4> QED BY <1>4, <2>2, <2>5, <4>2
    <3> QED BY <3>1, <3>2
  <2> QED BY <1>2, <1>4, <2>2, <2>5 DEF Separated, n
<1> QED BY <1>8, <1>9 DEF Searchable, new, p, n

(***************************************************************************)
(* The split of a full leaf.                                               *)
(***************************************************************************)
Middle(s) == Len(s) \div 2

(* What Split makes of the leaves.                                         *)
SplitLeaves(leaf, new, p, q, s) ==
  /\ DOMAIN new = 1..q /\ new = [r \in 1..q |-> new[r]]
  /\ new[q] = [slots |-> UpperHalf(s, Middle(s)), next |-> leaf[p].next, prev |-> p]
  /\ new[p] = [slots |-> SubSeq(s, 1, Middle(s)), next |-> q, prev |-> leaf[p].prev]
  /\ \A r \in 1..q - 1 : r # p =>
        new[r] = [slots |-> leaf[r].slots, next |-> leaf[r].next,
                  prev |-> IF r = leaf[p].next THEN q ELSE leaf[r].prev]

(* A leaf without space has no holes and at least two records, and the     *)
(* middle is between them.                                                 *)
LEMMA FullLeaf ==
  ASSUME NEW s \in Slots, Len(s) <= LeafCapacity, ~ HasSpace(s)
  PROVE  /\ Live(s) = DOMAIN s /\ DOMAIN s = 1..Len(s) /\ Len(s) = LeafCapacity
         /\ Middle(s) \in Nat /\ Middle(s) \in 1..Len(s) - 1
<1>1. Len(s) \in Nat /\ DOMAIN s = 1..Len(s) /\ Live(s) \subseteq 1..Len(s)
  BY LiveSlots
<1>2. Empty(s) = {} /\ ~ (Len(s) < LeafCapacity)
  BY DEF HasSpace
<1>3. Live(s) = DOMAIN s
  BY <1>1, <1>2 DEF Empty
<1>4. Len(s) = LeafCapacity /\ Len(s) >= 2
  <2>1. LeafCapacity \in Nat /\ LeafCapacity >= 2
    BY TreeAssumption
  <2>2. Len(s) \in Nat
    BY <1>1
  <2> QED BY <1>2, <2>1, <2>2
<1>5. Middle(s) \in Nat /\ Middle(s) \in 1..Len(s) - 1
  BY <1>1, <1>4 DEF Middle
<1> QED BY <1>1, <1>3, <1>4, <1>5

(* What a split makes of a whole tree: the upper half of a leaf moves to a *)
(* new one behind it, and the index learns of it (btfile.C:178-267).       *)
LEMMA SplitIs ==
  ASSUME NEW t, NEW c, NEW K, Whole(t, c, K), NEW p \in 1..Len(c)
  PROVE  LET new == Split(t, p)
             q == Len(c) + 1
             s == t.leaf[p].slots
             separator == UpperHalf(s, Middle(s))[1]
         IN  /\ new = [leaf |-> new.leaf, index |-> new.index]
             /\ SplitLeaves(t.leaf, new.leaf, p, q, s)
             /\ new.index = IF Len(c) = 1
                            THEN << [key |-> StartKey, page |-> p], [key |-> separator, page |-> q] >>
                            ELSE WithSeparator(t.index, separator, q)
<1> DEFINE n == Len(c)
           q == n + 1
           old == t.leaf[p]
           s == old.slots
           leaf == t.leaf
           upper == UpperHalf(s, Middle(s))
           lower == SubSeq(s, 1, Middle(s))
           fresh == [slots |-> upper, next |-> old.next, prev |-> p]
           linked == Linked(t.leaf, p, q)
           halved == [linked EXCEPT ![p].slots = lower]
           leaves == [r \in (1..n) \cup {q} |-> IF r = q THEN fresh ELSE halved[r]]
           index == IF n = 1
                    THEN << [key |-> StartKey, page |-> p], [key |-> upper[1], page |-> q] >>
                    ELSE WithSeparator(t.index, upper[1], q)
           Result(x) ==
              [leaf |-> [r \in DOMAIN t.leaf \cup {x} |->
                           IF r = x THEN fresh ELSE [Linked(t.leaf, p, x) EXCEPT ![p].slots = lower][r]],
               index |-> IF tree_level(t) = 1
                         THEN << [key |-> StartKey, page |-> p], [key |-> upper[1], page |-> x] >>
                         ELSE WithSeparator(t.index, upper[1], x)]
<1>1. /\ n \in Nat /\ n >= 1 /\ DOMAIN leaf = 1..n
      /\ \A r \in 1..n : leaf[r] = [slots |-> leaf[r].slots, next |-> leaf[r].next, prev |-> leaf[r].prev]
  <2>1. n \in Nat /\ n >= 1 /\ DOMAIN leaf = 1..n
    BY WholeFacts
  <2>2. \A r \in 1..n : leaf[r] = [slots |-> leaf[r].slots, next |-> leaf[r].next, prev |-> leaf[r].prev]
    BY DEF Whole, WellFormed
  <2> QED BY <2>1, <2>2
<1>2. tree_level(t) = 1 <=> n = 1
  <2>1. Len(c) = 1 => t.index = << >>
    BY WholeFacts
  <2>2. Len(c) # 1 => Len(t.index) >= 2
    BY WholeFacts DEF Begins
  <2>3. Len(<< >>) = 0
    OBVIOUS
  <2> QED BY <2>1, <2>2, <2>3 DEF tree_level
<1>3. Cardinality(DOMAIN t.leaf) + 1 = q
  <2>1. Cardinality(1..n) = IF 1 > n THEN 0 ELSE n - 1 + 1
    BY <1>1, FS_Interval
  <2> QED BY <1>1, <2>1
<1>4. Split(t, p) = [leaf |-> leaves, index |-> index]
  <2>1. Split(t, p) = Result(Cardinality(DOMAIN t.leaf) + 1)
    BY DEF Split, Middle
  <2>2. Split(t, p) = Result(q)
    <3> HIDE DEF Result, q
    <3> QED BY <1>3, <2>1
  <2>3. Result(q) = [leaf |-> [r \in DOMAIN t.leaf \cup {q} |-> IF r = q THEN fresh ELSE halved[r]],
                     index |-> index]
    <3> HIDE DEF upper, lower, q, fresh
    <3> QED BY <1>2
  <2>4. DOMAIN t.leaf = 1..n
    BY <1>1
  <2> HIDE DEF Result, index, halved, fresh, q
  <2> QED BY <2>2, <2>3, <2>4
<1>5. /\ DOMAIN linked = 1..n
      /\ linked[p] = [slots |-> s, next |-> q, prev |-> old.prev]
      /\ \A r \in 1..n : r # p => linked[r] = [slots |-> leaf[r].slots, next |-> leaf[r].next,
                                               prev |-> IF r = old.next THEN q ELSE leaf[r].prev]
  <2>1. linked = [r \in DOMAIN t.leaf |-> CASE r = p -> [t.leaf[p] EXCEPT !.next = q]
                                           [] r # p /\ r = t.leaf[p].next -> [t.leaf[r] EXCEPT !.prev = q]
                                           [] OTHER -> t.leaf[r]]
    BY DEF Linked
  <2>2. linked[p] = [old EXCEPT !.next = q]
    BY <1>1, <2>1
  <2>3. ASSUME NEW r \in 1..n, r # p
        PROVE  linked[r] = IF r = old.next THEN [leaf[r] EXCEPT !.prev = q] ELSE leaf[r]
    BY <1>1, <2>1, <2>3
  <2>4. DOMAIN linked = 1..n
    BY <1>1, <2>1
  <2> HIDE DEF linked, q
  <2>5. linked[p] = [slots |-> s, next |-> q, prev |-> old.prev]
    BY <1>1, <2>2
  <2>6. ASSUME NEW r \in 1..n, r # p
        PROVE  linked[r] = [slots |-> leaf[r].slots, next |-> leaf[r].next,
                            prev |-> IF r = old.next THEN q ELSE leaf[r].prev]
    BY <1>1, <2>3, <2>6
  <2> QED BY <2>4, <2>5, <2>6
<1> HIDE DEF linked
<1>6. /\ DOMAIN halved = 1..n
      /\ halved[p] = [slots |-> lower, next |-> q, prev |-> old.prev]
      /\ \A r \in 1..n : r # p => halved[r] = linked[r]
  <2>1. halved[p] = [linked[p] EXCEPT !.slots = lower]
    BY <1>5
  <2> HIDE DEF lower, q
  <2>2. halved[p] = [slots |-> lower, next |-> q, prev |-> old.prev]
    BY <1>5, <2>1
  <2> QED BY <1>5, <2>2
<1> HIDE DEF halved
<1>7. /\ DOMAIN leaves = 1..q /\ leaves = [r \in 1..q |-> leaves[r]]
      /\ leaves[q] = fresh /\ \A r \in 1..n : leaves[r] = halved[r]
  <2>1. (1..n) \cup {q} = 1..q
    BY <1>1
  <2>2. \A r \in 1..n : r # q
    BY <1>1
  <2> HIDE DEF fresh, q
  <2> QED BY <2>1, <2>2
<1> HIDE DEF leaves, index
<1>8. Split(t, p).leaf = leaves /\ Split(t, p).index = index
  BY <1>4
<1>9. SplitLeaves(leaf, leaves, p, q, s)
  <2>1. q - 1 = n
    BY <1>1
  <2>2. \A r \in 1..n : r # p => leaves[r] = [slots |-> leaf[r].slots, next |-> leaf[r].next,
                                              prev |-> IF r = old.next THEN q ELSE leaf[r].prev]
    BY <1>5, <1>6, <1>7
  <2>3. leaves[p] = [slots |-> lower, next |-> q, prev |-> old.prev]
    BY <1>6, <1>7
  <2> HIDE DEF q
  <2> QED BY <1>7, <2>1, <2>2, <2>3 DEF SplitLeaves
<1>10. Split(t, p) = [leaf |-> Split(t, p).leaf, index |-> Split(t, p).index]
  BY <1>4, <1>8
<1> QED BY <1>8, <1>9, <1>10 DEF index

(* The leaves and their order.                                             *)
Listed(n, leaf, c) ==
  /\ n \in Nat \ {0} /\ c \in Seq(1..n) /\ Len(c) = n
  /\ DOMAIN leaf = 1..n /\ InOrder(leaf, c)

(* The leaf behind the k-th is split: the new leaf follows it.             *)
LEMMA SplitOrder ==
  ASSUME NEW n \in Nat, NEW c, NEW leaf, Listed(n, leaf, c),
         NEW k \in 1..n, NEW new, NEW s, SplitLeaves(leaf, new, c[k], n + 1, s)
  PROVE  Listed(n + 1, new, InsertAt(c, k + 1, n + 1))
<1> DEFINE q == n + 1
           p == c[k]
           d == InsertAt(c, k + 1, q)
<1>1. /\ c[1] = FirstLeaf /\ leaf[c[n]].next = INVALID_PAGE
      /\ \A i, j \in 1..n : c[i] = c[j] => i = j
      /\ \A i \in 1..n - 1 : leaf[c[i]].next = c[i + 1] /\ leaf[c[i + 1]].prev = c[i]
      /\ \A i \in 1..n : c[i] \in 1..n
      /\ \A r \in 1..n : \E i \in 1..n : c[i] = r
  <2>1. DOMAIN c = 1..n /\ \A i \in 1..n : c[i] \in 1..n
    BY LenProperties, ElementOfSeq DEF Listed
  <2>2. \A r \in 1..n : \E i \in 1..n : c[i] = r
    <3>1. ToSet(c) = 1..n
      BY DEF InOrder, Listed
    <3> QED BY <2>1, <3>1 DEF ToSet
  <2>3. /\ c[1] = FirstLeaf /\ leaf[c[n]].next = INVALID_PAGE
        /\ \A i, j \in 1..n : c[i] = c[j] => i = j
        /\ \A i \in 1..n - 1 : leaf[c[i]].next = c[i + 1] /\ leaf[c[i + 1]].prev = c[i]
    BY <2>1 DEF InOrder, Listed
  <2> QED BY <2>1, <2>2, <2>3
<1>2. /\ d \in Seq(1..q) /\ Len(d) = q
      /\ \A j \in 1..q : d[j] = IF j < k + 1 THEN c[j] ELSE IF j = k + 1 THEN q ELSE c[j - 1]
  <2>1. c \in Seq(1..q) /\ q \in 1..q /\ k + 1 \in 1..Len(c) + 1 /\ Len(c) = n
    <3>1. 1..n \subseteq 1..q /\ c \in Seq(1..n) /\ Len(c) = n
      BY DEF Listed
    <3>2. c \in Seq(1..q)
      BY <3>1, SeqMonotonic
    <3> QED BY <3>1, <3>2
  <2> DEFINE S == 1..q
             i == k + 1
  <2>2. c \in Seq(S) /\ q \in S /\ i \in 1..Len(c) + 1
    BY <2>1
  <2>4. Len(c) + 1 = q
    BY <2>1
  <2> HIDE DEF q, S, i
  <2>3. /\ InsertAt(c, i, q) \in Seq(S) /\ Len(InsertAt(c, i, q)) = Len(c) + 1
        /\ \A j \in 1..Len(c) + 1 :
              InsertAt(c, i, q)[j] = IF j < i THEN c[j] ELSE IF j = i THEN q ELSE c[j - 1]
    BY <2>2, InsertAtIs
  <2> QED BY <2>4, <2>3 DEF S, i
<1> HIDE DEF d
<1>13. \A j \in 1..q : d[j] = IF j < k + 1 THEN c[j] ELSE IF j = k + 1 THEN q ELSE c[j - 1]
  BY <1>2
<1>14. d \in Seq(1..q) /\ Len(d) = q
  BY <1>2
<1>3. /\ new[q].next = leaf[p].next /\ new[q].prev = p
      /\ new[p].next = q /\ new[p].prev = leaf[p].prev
      /\ \A r \in 1..n : r # p => /\ new[r].next = leaf[r].next
                                  /\ new[r].prev = IF r = leaf[p].next THEN q ELSE leaf[r].prev
  <2>1. q - 1 = n
    OBVIOUS
  <2> HIDE DEF p, q
  <2>2. /\ DOMAIN new = 1..q
        /\ new[q] = [slots |-> UpperHalf(s, Middle(s)), next |-> leaf[p].next, prev |-> p]
        /\ new[p] = [slots |-> SubSeq(s, 1, Middle(s)), next |-> q, prev |-> leaf[p].prev]
        /\ \A r \in 1..n : r # p => new[r] = [slots |-> leaf[r].slots, next |-> leaf[r].next,
                                              prev |-> IF r = leaf[p].next THEN q ELSE leaf[r].prev]
    BY <2>1 DEF SplitLeaves, p, q
  <2>3. /\ new[q].next = leaf[p].next /\ new[q].prev = p
        /\ new[p].next = q /\ new[p].prev = leaf[p].prev
    BY <2>2
  <2>4. ASSUME NEW r \in 1..n, r # p
        PROVE  /\ new[r].next = leaf[r].next
               /\ new[r].prev = IF r = leaf[p].next THEN q ELSE leaf[r].prev
    <3>1. new[r] = [slots |-> leaf[r].slots, next |-> leaf[r].next,
                    prev |-> IF r = leaf[p].next THEN q ELSE leaf[r].prev]
      BY <2>2, <2>4
    <3> QED BY <3>1
  <2> QED BY <2>3, <2>4
<1>15. DOMAIN new = 1..q
  BY DEF SplitLeaves
<1> HIDE DEF p
<1>4. /\ p \in 1..n /\ p = c[k]
      /\ (k < n => leaf[p].next = c[k + 1])
      /\ (k = n => leaf[p].next = INVALID_PAGE)
  <2>1. k < n => k \in 1..n - 1
    OBVIOUS
  <2> QED BY <1>1, <2>1 DEF p
<1>5. DOMAIN d = 1..q /\ \A j \in 1..q : d[j] \in 1..q
  BY <1>14, LenProperties, ElementOfSeq
<1>6. d[1] = FirstLeaf
  <2>1. 1 \in 1..q /\ 1 < k + 1
    OBVIOUS
  <2>2. d[1] = c[1]
    BY <1>13, <2>1
  <2> QED BY <1>1, <2>2
<1>7. new[d[q]].next = INVALID_PAGE
  <2>1. CASE k = n
    <3>1. d[q] = q
      BY <1>13, <2>1
    <3> QED BY <1>1, <1>3, <2>1, <3>1 DEF p
  <2>2. CASE k # n
    <3>1. d[q] = c[n] /\ n \in 1..n
      BY <1>13, <2>2
    <3>2. c[n] # p /\ c[n] \in 1..n
      BY <1>1, <2>2, <3>1 DEF p
    <3> QED BY <1>1, <1>3, <3>1, <3>2
  <2> QED BY <2>1, <2>2
<1>8. ASSUME NEW r \in 1..q PROVE \E j \in 1..q : d[j] = r
  <2>1. CASE r = q
    BY <1>13, <2>1
  <2>2. CASE r # q
    <3>1. r \in 1..n
      BY <2>2
    <3>2. PICK i \in 1..n : c[i] = r
      BY <1>1, <3>1
    <3>3. CASE i <= k
      BY <1>13, <3>2, <3>3
    <3>4. CASE i > k
      <4>1. i + 1 \in 1..q /\ ~ (i + 1 < k + 1) /\ i + 1 # k + 1 /\ (i + 1) - 1 = i
        BY <3>4
      <4>2. d[i + 1] = c[i]
        BY <1>13, <4>1
      <4> QED BY <3>2, <4>1, <4>2
    <3> QED BY <3>3, <3>4
  <2> QED BY <2>1, <2>2
<1>9. ASSUME NEW i \in 1..q, NEW j \in 1..q, d[i] = d[j] PROVE i = j
  <2> DEFINE old(x) == IF x < k + 1 THEN x ELSE x - 1
  <2>1. \A x \in 1..q : x # k + 1 => old(x) \in 1..n /\ d[x] = c[old(x)] /\ d[x] # q
    <3>1. SUFFICES ASSUME NEW x \in 1..q, x # k + 1 PROVE old(x) \in 1..n /\ d[x] = c[old(x)] /\ d[x] # q
      OBVIOUS
    <3>2. old(x) \in 1..n
      BY <3>1
    <3>3. d[x] = c[old(x)]
      BY <1>13, <3>1
    <3>4. c[old(x)] \in 1..n
      BY <1>1, <3>2
    <3> HIDE DEF old
    <3> QED BY <3>2, <3>3, <3>4
  <2>2. d[k + 1] = q
    BY <1>13
  <2>3. CASE i = k + 1 \/ j = k + 1
    BY <1>9, <2>1, <2>2, <2>3
  <2>4. CASE i # k + 1 /\ j # k + 1
    <3>1. old(i) = old(j)
      <4>1. /\ old(i) \in 1..n /\ d[i] = c[old(i)]
            /\ old(j) \in 1..n /\ d[j] = c[old(j)]
        <5> HIDE DEF old
        <5> QED BY <2>1, <2>4
      <4>2. c[old(i)] = c[old(j)]
        BY <1>9, <4>1
      <4> HIDE DEF old
      <4> QED BY <1>1, <4>1, <4>2
    <3> QED BY <2>4, <3>1
  <2> QED BY <2>3, <2>4
<1>10. ASSUME NEW i \in 1..q - 1 PROVE new[d[i]].next = d[i + 1] /\ new[d[i + 1]].prev = d[i]
  <2>1. i \in 1..n /\ i + 1 \in 1..q
    OBVIOUS
  <2>2. CASE i < k
    <3>1. d[i] = c[i] /\ d[i + 1] = c[i + 1] /\ i \in 1..n - 1 /\ i + 1 \in 1..n
      BY <1>13, <2>2
    <3>2. c[i] # p /\ c[i] \in 1..n /\ leaf[c[i]].next = c[i + 1] /\ leaf[c[i + 1]].prev = c[i]
      BY <1>1, <2>2, <3>1 DEF p
    <3>3. new[d[i]].next = d[i + 1]
      BY <1>3, <3>1, <3>2
    <3>4. c[i + 1] # leaf[p].next
      <4>1. CASE k < n
        <5>1. k + 1 \in 1..n /\ i + 1 # k + 1
          BY <2>2, <4>1
        <5> QED BY <1>1, <1>4, <3>1, <4>1, <5>1
      <4>2. CASE k = n
        <5>1. c[i + 1] \in 1..n
          BY <1>1, <3>1
        <5> QED BY <1>4, <4>2, <5>1 DEF INVALID_PAGE
      <4> QED BY <4>1, <4>2
    <3>5. new[c[i + 1]].prev = leaf[c[i + 1]].prev
      <4>1. c[i + 1] \in 1..n
        BY <1>1, <3>1
      <4> QED BY <1>3, <3>4, <4>1
    <3> QED BY <3>1, <3>2, <3>3, <3>5
  <2>3. CASE i = k
    <3>1. d[i] = p /\ d[i + 1] = q
      BY <1>13, <2>1, <2>3 DEF p
    <3> QED BY <1>3, <3>1
  <2>4. CASE i = k + 1
    <3>1. k < n /\ k + 1 \in 1..n /\ k \in 1..n
      BY <2>1, <2>4
    <3>2. d[i] = q
      BY <1>13, <2>1, <2>4
    <3>3. d[i + 1] = c[k + 1]
      <4>1. ~ (i + 1 < k + 1) /\ i + 1 # k + 1 /\ (i + 1) - 1 = k + 1
        BY <2>4
      <4> QED BY <1>13, <2>1, <4>1
    <3>4. c[k + 1] # p /\ c[k + 1] \in 1..n
      <4>1. k + 1 # k
        OBVIOUS
      <4> QED BY <1>1, <3>1, <4>1 DEF p
    <3> QED BY <1>3, <1>4, <3>1, <3>2, <3>3, <3>4
  <2>5. CASE i > k + 1
    <3>1. PICK h \in 1..n - 1 : h = i - 1
      BY <2>1, <2>5
    <3>2. d[i] = c[h]
      BY <1>13, <2>1, <2>5, <3>1
    <3>3. d[i + 1] = c[h + 1]
      <4>1. ~ (i + 1 < k + 1) /\ i + 1 # k + 1 /\ (i + 1) - 1 = h + 1
        BY <2>5, <3>1
      <4> QED BY <1>13, <2>1, <4>1
    <3>4. h > k /\ h \in 1..n /\ h + 1 \in 1..n
      BY <2>5, <3>1
    <3>5. c[h] # p /\ c[h] \in 1..n /\ c[h + 1] # p /\ c[h + 1] \in 1..n
      BY <1>1, <3>4 DEF p
    <3>6. leaf[c[h]].next = c[h + 1] /\ leaf[c[h + 1]].prev = c[h]
      BY <1>1, <3>1
    <3>7. c[h + 1] # leaf[p].next
      <4>1. k < n /\ k + 1 \in 1..n /\ k + 1 # h + 1
        BY <3>4
      <4>2. c[h + 1] # c[k + 1]
        BY <1>1, <3>4, <4>1
      <4> QED BY <1>4, <4>1, <4>2
    <3> QED BY <1>3, <3>2, <3>3, <3>5, <3>6, <3>7
  <2> QED BY <2>1, <2>2, <2>3, <2>4, <2>5
<1>11. InOrder(new, d)
  <2>1. ToSet(d) = 1..q
    <3>1. ToSet(d) = {d[i] : i \in 1..q}
      BY <1>5 DEF ToSet
    <3> HIDE DEF q
    <3> QED BY <1>5, <1>8, <3>1
  <2>2. ToSet(d) = DOMAIN new
    BY <1>15, <2>1
  <2> HIDE DEF q
  <2> QED BY <1>14, <1>5, <1>6, <1>7, <1>9, <1>10, <2>2 DEF InOrder
<1>12. n + 1 \in Nat \ {0}
  OBVIOUS
<1> QED BY <1>14, <1>15, <1>11, <1>12 DEF d, Listed

(* The halves of a full leaf, and the other leaves.                        *)
Halves(n, leaf, new, p, q, s) ==
  /\ Len(s) \in Nat /\ Middle(s) \in Nat /\ 1 <= Middle(s) /\ Middle(s) < Len(s)
  /\ Live(s) = 1..Len(s) /\ \A i \in 1..Len(s) : s[i] \in Keys
  /\ new[p].slots \in Slots /\ new[q].slots \in Slots
  /\ Len(new[p].slots) = Middle(s) /\ Live(new[p].slots) = 1..Middle(s)
  /\ Len(new[q].slots) = Len(s) - Middle(s)
  /\ Live(new[q].slots) = 1..Len(s) - Middle(s)
  /\ \A i \in 1..Middle(s) : new[p].slots[i] = s[i]
  /\ \A i \in 1..Len(s) - Middle(s) : new[q].slots[i] = s[Middle(s) + i]
  /\ \A r \in 1..n : r # p => new[r].slots = leaf[r].slots

(* A split of a leaf without space halves it.                              *)
LEMMA HalvedLeaves ==
  ASSUME NEW n \in Nat, NEW leaf, NEW p \in 1..n, NEW s \in Slots, s = leaf[p].slots,
         Len(s) <= LeafCapacity, ~ HasSpace(s), NEW new, SplitLeaves(leaf, new, p, n + 1, s)
  PROVE  Halves(n, leaf, new, p, n + 1, s)
<1> DEFINE mid == Middle(s)
           lower == SubSeq(s, 1, mid)
           upper == UpperHalf(s, mid)
           q == n + 1
<1>1. /\ Live(s) = DOMAIN s /\ DOMAIN s = 1..Len(s) /\ Len(s) = LeafCapacity
      /\ mid \in Nat /\ mid \in 1..Len(s) - 1
  BY FullLeaf
<1>2. /\ lower \in Slots /\ Len(lower) = mid /\ Live(lower) = 1..mid
      /\ \A j \in 1..mid : lower[j] = s[j]
      /\ upper \in Slots /\ Len(upper) = Len(s) - mid /\ Live(upper) = 1..Len(s) - mid
      /\ \A j \in 1..Len(s) - mid : upper[j] = s[mid + j]
  <2>1. Live(s) = DOMAIN s /\ mid \in 1..Len(s) - 1
    BY <1>1
  <2> HIDE DEF mid
  <2> QED BY <2>1, HalvesAre
<1>3. Len(s) \in Nat /\ \A i \in 1..Len(s) : s[i] \in Keys
  <2>1. Len(s) \in Nat /\ \A i \in 1..Len(s) : s[i] \in Keys \cup {Hole}
    BY LiveSlots
  <2>2. \A i \in 1..Len(s) : s[i] # Hole
    BY <1>1 DEF Live
  <2> QED BY <2>1, <2>2
<1>4. mid \in Nat /\ 1 <= mid /\ mid < Len(s)
  <2>1. mid \in Nat /\ Len(s) \in Nat /\ mid \in 1..Len(s) - 1
    BY <1>1, <1>3
  <2> HIDE DEF mid
  <2> QED BY <2>1
<1>6. q - 1 = n
  OBVIOUS
<1> HIDE DEF lower, upper, q
<1>5. /\ new[q] = [slots |-> upper, next |-> leaf[p].next, prev |-> p]
      /\ new[p] = [slots |-> lower, next |-> q, prev |-> leaf[p].prev]
      /\ \A r \in 1..n : r # p => new[r] = [slots |-> leaf[r].slots, next |-> leaf[r].next,
                                            prev |-> IF r = leaf[p].next THEN q ELSE leaf[r].prev]
  BY <1>6 DEF SplitLeaves, lower, upper, q
<1>7. new[q].slots = upper /\ new[p].slots = lower
  BY <1>5
<1>8. ASSUME NEW r \in 1..n, r # p PROVE new[r].slots = leaf[r].slots
  <2>1. new[r] = [slots |-> leaf[r].slots, next |-> leaf[r].next,
                  prev |-> IF r = leaf[p].next THEN q ELSE leaf[r].prev]
    BY <1>5, <1>8
  <2> QED BY <2>1
<1>9. Live(s) = 1..Len(s)
  BY <1>1
<1> HIDE DEF mid
<1> QED BY <1>2, <1>3, <1>4, <1>7, <1>8, <1>9 DEF q, mid, Halves

(* A split moves records, and loses and copies none.                       *)
LEMMA SplitHolds ==
  ASSUME NEW n \in Nat, NEW leaf, DOMAIN leaf = 1..n, NEW p \in 1..n, NEW s \in Slots,
         s = leaf[p].slots, Len(s) <= LeafCapacity, ~ HasSpace(s), NEW new,
         SplitLeaves(leaf, new, p, n + 1, s), NEW K, Holds(leaf, K)
  PROVE  Holds(new, K)
<1> DEFINE q == n + 1
           mid == Middle(s)
           page(r) == IF r = q THEN p ELSE r
           slot(r, i) == IF r = q THEN mid + i ELSE i
<1>1. /\ Len(s) \in Nat /\ mid \in Nat /\ 1 <= mid /\ mid < Len(s)
      /\ Live(s) = 1..Len(s)
      /\ Live(new[p].slots) = 1..mid
      /\ Live(new[q].slots) = 1..Len(s) - mid
      /\ \A i \in 1..mid : new[p].slots[i] = s[i]
      /\ \A i \in 1..Len(s) - mid : new[q].slots[i] = s[mid + i]
      /\ \A r \in 1..n : r # p => new[r].slots = leaf[r].slots
  <2>1. Halves(n, leaf, new, p, n + 1, s)
    BY HalvedLeaves
  <2> HIDE DEF mid, q
  <2> QED BY <2>1 DEF mid, q, Halves
<1>2. /\ \A x : x \in K <=> \E r \in 1..n : \E i \in Live(leaf[r].slots) : leaf[r].slots[i] = x
      /\ \A r1, r2 \in 1..n : \A i \in Live(leaf[r1].slots), j \in Live(leaf[r2].slots) :
            leaf[r1].slots[i] = leaf[r2].slots[j] => r1 = r2 /\ i = j
  BY HoldsIff
<1>3. DOMAIN new = 1..q /\ p # q /\ q \in 1..q /\ \A r \in 1..q : r # q => r \in 1..n
  BY DEF SplitLeaves
<1>11. 1..n \subseteq 1..q
  OBVIOUS
<1> HIDE DEF mid, q
<1>4. ASSUME NEW r \in 1..q, NEW i \in Live(new[r].slots)
      PROVE  /\ page(r) \in 1..n /\ slot(r, i) \in Live(leaf[page(r)].slots)
             /\ new[r].slots[i] = leaf[page(r)].slots[slot(r, i)]
  <2>1. CASE r = q
    <3>1. i \in 1..Len(s) - mid
      BY <1>1, <1>4, <2>1
    <3>2. mid + i \in 1..Len(s)
      BY <1>1, <3>1
    <3> QED BY <1>1, <2>1, <3>1, <3>2
  <2>2. CASE r = p
    <3>1. i \in 1..mid
      BY <1>1, <1>4, <2>2
    <3>2. i \in 1..Len(s)
      BY <1>1, <3>1
    <3> QED BY <1>1, <1>3, <2>2, <3>1, <3>2
  <2>3. CASE r # q /\ r # p
    BY <1>1, <1>3, <1>4, <2>3
  <2> QED BY <2>1, <2>2, <2>3
<1>5. ASSUME NEW r1 \in 1..q, NEW r2 \in 1..q, NEW i \in Live(new[r1].slots), NEW j \in Live(new[r2].slots),
             page(r1) = page(r2), slot(r1, i) = slot(r2, j)
      PROVE  r1 = r2 /\ i = j
  <2>1. CASE r1 = q /\ r2 = q
    <3>1. i \in 1..Len(s) - mid /\ j \in 1..Len(s) - mid
      BY <1>1, <1>5, <2>1
    <3> QED BY <1>1, <1>5, <2>1, <3>1
  <2>2. CASE r1 = q /\ r2 # q
    <3>1. r2 = p
      BY <1>5, <2>2
    <3>2. i \in 1..Len(s) - mid /\ j \in 1..mid /\ mid + i = j
      BY <1>1, <1>5, <2>2, <3>1
    <3> QED BY <1>1, <3>2
  <2>3. CASE r1 # q /\ r2 = q
    <3>1. r1 = p
      BY <1>5, <2>3
    <3>2. j \in 1..Len(s) - mid /\ i \in 1..mid /\ mid + j = i
      BY <1>1, <1>5, <2>3, <3>1
    <3> QED BY <1>1, <3>2
  <2>4. CASE r1 # q /\ r2 # q
    BY <1>5, <2>4
  <2> QED BY <2>1, <2>2, <2>3, <2>4
<1>6. ASSUME NEW r \in 1..n, NEW i \in Live(leaf[r].slots)
      PROVE  \E r1 \in 1..q : \E j \in Live(new[r1].slots) : new[r1].slots[j] = leaf[r].slots[i]
  <2>1. CASE r # p
    <3>1. r \in 1..q /\ new[r].slots = leaf[r].slots
      BY <1>1, <1>11, <2>1
    <3> QED BY <3>1
  <2>2. CASE r = p
    <3>1. i \in 1..Len(s) /\ leaf[r].slots[i] = s[i] /\ p \in 1..q
      BY <1>1, <1>6, <1>11, <2>2
    <3>2. CASE i <= mid
      <4>1. i \in 1..mid
        BY <1>1, <3>1, <3>2
      <4> QED BY <1>1, <3>1, <4>1
    <3>3. CASE i > mid
      <4>1. PICK j \in 1..Len(s) - mid : mid + j = i
        <5>1. i - mid \in 1..Len(s) - mid /\ mid + (i - mid) = i
          BY <1>1, <3>1, <3>3
        <5> QED BY <5>1
      <4>2. j \in Live(new[q].slots) /\ new[q].slots[j] = s[i]
        BY <1>1, <4>1
      <4> QED BY <1>3, <3>1, <4>2
    <3> QED BY <1>1, <3>1, <3>2, <3>3
  <2> QED BY <2>1, <2>2
<1>7. \A x : x \in K <=> \E r \in DOMAIN new : \E i \in Live(new[r].slots) : new[r].slots[i] = x
  <2>1. ASSUME NEW x \in K PROVE \E r \in 1..q : \E i \in Live(new[r].slots) : new[r].slots[i] = x
    <3>1. PICK r \in 1..n : \E i \in Live(leaf[r].slots) : leaf[r].slots[i] = x
      BY <1>2
    <3> QED BY <1>6, <3>1
  <2>2. ASSUME NEW r \in 1..q, NEW i \in Live(new[r].slots) PROVE new[r].slots[i] \in K
    <3> HIDE DEF page, slot
    <3> QED BY <1>2, <1>4
  <2> QED BY <1>3, <2>1, <2>2
<1>8. ASSUME NEW r1 \in DOMAIN new, NEW r2 \in DOMAIN new, NEW i \in Live(new[r1].slots),
             NEW j \in Live(new[r2].slots), new[r1].slots[i] = new[r2].slots[j]
      PROVE  r1 = r2 /\ i = j
  <2>1. r1 \in 1..q /\ r2 \in 1..q
    BY <1>3
  <2> HIDE DEF page, slot
  <2>2. page(r1) = page(r2) /\ slot(r1, i) = slot(r2, j)
    BY <1>2, <1>4, <1>8, <2>1
  <2> QED BY <1>5, <2>1, <2>2
<1> QED BY <1>7, <1>8, HoldsIff

(* The leaf a separator belongs to, after the split of the one leaf there  *)
(* was, or of one of several.                                              *)
SplitIndex(t, c, p, q, separator, new) ==
  IF Len(c) = 1 THEN new = << [key |-> StartKey, page |-> p], [key |-> separator, page |-> q] >>
  ELSE \/ new = t.index
       \/ \E m : Separated1(t.index, separator, q, m, new)

(* The index after a split is an index over one leaf more.                 *)
LEMMA SplitIndexIs ==
  ASSUME NEW t, NEW c, NEW K, Whole(t, c, K), NEW p \in 1..Len(c), NEW separator \in Keys,
         NEW new, new = IF Len(c) = 1
                        THEN << [key |-> StartKey, page |-> p], [key |-> separator, page |-> Len(c) + 1] >>
                        ELSE WithSeparator(t.index, separator, Len(c) + 1)
  PROVE  /\ new \in Separators(Len(c) + 1) /\ Begins(new) /\ Len(new) <= IndexCapacity
         /\ SplitIndex(t, c, p, Len(c) + 1, separator, new)
         /\ Len(c) # 1 => t.index \in Separators(Len(c) + 1) /\ Begins(t.index)
<1> DEFINE n == Len(c)
           q == n + 1
           R == [key : Keys \cup {StartKey}, page : 1..q]
<1>1. /\ n \in Nat /\ n >= 1 /\ t.index \in Separators(n) /\ Len(t.index) <= IndexCapacity
      /\ (n # 1 => Begins(t.index))
  BY WholeFacts
<1>2. p \in 1..q /\ q \in 1..q /\ q \in Nat
  BY <1>1
<1>3. CASE n = 1
  <2>1. new = << [key |-> StartKey, page |-> p], [key |-> separator, page |-> q] >>
    BY <1>3
  <2>2. [key |-> StartKey, page |-> p] \in R /\ [key |-> separator, page |-> q] \in R
    BY <1>2
  <2>3. new \in Seq(R) /\ Len(new) = 2 /\ new[1] = [key |-> StartKey, page |-> p]
    <3> DEFINE e1 == [key |-> StartKey, page |-> p]
               e2 == [key |-> separator, page |-> q]
    <3>1. new = << e1, e2 >> /\ e1 \in R /\ e2 \in R
      BY <2>1, <2>2
    <3> HIDE DEF e1, e2, R
    <3>2. << e1, e2 >> \in Seq(R) /\ Len(<< e1, e2 >>) = 2 /\ << e1, e2 >>[1] = e1
      BY <3>1
    <3> QED BY <3>1, <3>2 DEF e1
  <2>4. IndexCapacity \in Nat /\ IndexCapacity >= 2
    BY TreeAssumption
  <2> QED BY <1>3, <2>1, <2>3, <2>4 DEF R, Begins, Separators, SplitIndex
<1>4. CASE n # 1
  <2>1. new = WithSeparator(t.index, separator, q)
    BY <1>4
  <2>2. t.index \in Separators(q)
    <3>1. 1..n \subseteq 1..q
      BY <1>1
    <3>2. [key : Keys \cup {StartKey}, page : 1..n] \subseteq R
      BY <3>1
    <3> HIDE DEF R
    <3>3. t.index \in Seq(R)
      BY <1>1, <3>2, SeqMonotonic DEF Separators
    <3> QED BY <3>3 DEF R, Separators
  <2> HIDE DEF q
  <2>3. LET w == WithSeparator(t.index, separator, q)
        IN  /\ w \in Separators(q) /\ Begins(w) /\ Len(w) <= IndexCapacity
            /\ \/ w = t.index
               \/ \E m : Separated1(t.index, separator, q, m, w)
    BY <1>1, <1>2, <1>4, <2>2, WithSeparatorIs
  <2> QED BY <1>1, <1>4, <2>1, <2>2, <2>3 DEF q, SplitIndex
<1> QED BY <1>3, <1>4

(* The leaves and the index of a tree one leaf of which was split.         *)
SplitParts(t, c, p, new, separator) ==
  /\ new = [leaf |-> new.leaf, index |-> new.index]
  /\ SplitLeaves(t.leaf, new.leaf, p, Len(c) + 1, t.leaf[p].slots)
  /\ Halves(Len(c), t.leaf, new.leaf, p, Len(c) + 1, t.leaf[p].slots)
  /\ separator = t.leaf[p].slots[Middle(t.leaf[p].slots) + 1] /\ separator \in Keys
  /\ Middle(t.leaf[p].slots) + 1 \in Live(t.leaf[p].slots)
  /\ new.index \in Separators(Len(c) + 1) /\ Begins(new.index) /\ Len(new.index) <= IndexCapacity
  /\ SplitIndex(t, c, p, Len(c) + 1, separator, new.index)
  /\ Len(c) # 1 => t.index \in Separators(Len(c) + 1) /\ Begins(t.index)

(* A split halves the leaf, and the first key of the upper half separates. *)
LEMMA SplitHas ==
  ASSUME NEW t, NEW c, NEW K, Whole(t, c, K), NEW p \in 1..Len(c), ~ HasSpace(t.leaf[p].slots)
  PROVE  SplitParts(t, c, p, Split(t, p), UpperHalf(t.leaf[p].slots, Middle(t.leaf[p].slots))[1])
<1> DEFINE n == Len(c)
           q == n + 1
           s == t.leaf[p].slots
           new == Split(t, p)
           separator == UpperHalf(s, Middle(s))[1]
<1>1. n \in Nat /\ s \in Slots /\ Len(s) <= LeafCapacity
  BY WholeFacts
<1>3. /\ new = [leaf |-> new.leaf, index |-> new.index]
      /\ SplitLeaves(t.leaf, new.leaf, p, q, s)
      /\ new.index = IF n = 1
                     THEN << [key |-> StartKey, page |-> p], [key |-> separator, page |-> q] >>
                     ELSE WithSeparator(t.index, separator, q)
  BY SplitIs
<1> HIDE DEF new
<1>5. Halves(n, t.leaf, new.leaf, p, q, s)
  <2>1. SplitLeaves(t.leaf, new.leaf, p, n + 1, s)
    BY <1>3
  <2> HIDE DEF n
  <2> QED BY <1>1, <2>1, HalvedLeaves DEF n
<1>6. /\ separator = s[Middle(s) + 1] /\ separator \in Keys /\ Middle(s) + 1 \in Live(s)
  <2> DEFINE mid == Middle(s)
  <2>1. separator = new.leaf[q].slots[1]
    <3>1. new.leaf[q] = [slots |-> UpperHalf(s, Middle(s)), next |-> t.leaf[p].next, prev |-> p]
      BY <1>3 DEF SplitLeaves
    <3> QED BY <3>1
  <2>2. /\ Len(s) \in Nat /\ mid \in Nat /\ 1 <= mid /\ mid < Len(s)
        /\ Live(s) = 1..Len(s) /\ \A i \in 1..Len(s) : s[i] \in Keys
        /\ \A i \in 1..Len(s) - mid : new.leaf[q].slots[i] = s[mid + i]
    <3> HIDE DEF q, n
    <3> QED BY <1>5 DEF Halves
  <2> HIDE DEF mid, s
  <2>3. 1 \in 1..Len(s) - mid /\ mid + 1 \in 1..Len(s)
    BY <2>2
  <2>4. new.leaf[q].slots[1] = s[mid + 1]
    BY <2>2, <2>3
  <2> QED BY <2>1, <2>2, <2>3, <2>4 DEF mid
<1>7. /\ new.index \in Separators(q) /\ Begins(new.index) /\ Len(new.index) <= IndexCapacity
      /\ SplitIndex(t, c, p, q, separator, new.index)
      /\ n # 1 => t.index \in Separators(q) /\ Begins(t.index)
  <2> HIDE DEF separator
  <2>1. new.index = IF Len(c) = 1
                    THEN << [key |-> StartKey, page |-> p], [key |-> separator, page |-> Len(c) + 1] >>
                    ELSE WithSeparator(t.index, separator, Len(c) + 1)
    BY <1>3
  <2>2. separator \in Keys
    BY <1>6
  <2> QED BY <2>1, <2>2, SplitIndexIs
<1>8. SplitParts(t, c, p, new, separator)
  <2> HIDE DEF separator
  <2> QED BY <1>3, <1>5, <1>6, <1>7 DEF SplitParts
<1> QED BY <1>8 DEF new

(* insert: the tree with the leaf split is whole, with one leaf more.      *)
LEMMA SplitKeeps ==
  ASSUME NEW t, NEW c, NEW K, Whole(t, c, K), NEW k \in 1..Len(c), Len(c) < MaxLeaves,
         ~ HasSpace(t.leaf[c[k]].slots)
  PROVE  Whole(Split(t, c[k]), InsertAt(c, k + 1, Len(c) + 1), K)
<1> DEFINE n == Len(c)
           q == n + 1
           p == c[k]
           s == t.leaf[p].slots
           d == InsertAt(c, k + 1, q)
           new == Split(t, p)
           separator == UpperHalf(s, Middle(s))[1]
<1>1. /\ n \in Nat /\ n >= 1 /\ n <= MaxLeaves /\ MaxLeaves \in Nat /\ c \in Seq(1..n) /\ p \in 1..n
      /\ DOMAIN t.leaf = 1..n
      /\ \A r \in 1..n : /\ t.leaf[r].slots \in Slots /\ Len(t.leaf[r].slots) <= LeafCapacity
                         /\ t.leaf[r].next \in 1..n \cup {INVALID_PAGE}
                         /\ t.leaf[r].prev \in 1..n \cup {INVALID_PAGE}
      /\ n # 1 => \A r \in 1..n : t.leaf[r].slots # << >>
  BY WholeFacts
<1>2. InOrder(t.leaf, c) /\ Holds(t.leaf, K)
  BY DEF Whole
<1>20. SplitParts(t, c, p, new, separator)
  BY <1>1, SplitHas
<1> HIDE DEF new, separator
<1>3. /\ new = [leaf |-> new.leaf, index |-> new.index]
      /\ SplitLeaves(t.leaf, new.leaf, p, q, s)
  BY <1>20 DEF SplitParts
<1>4. Listed(q, new.leaf, d)
  <2>1. Listed(n, t.leaf, c)
    BY <1>1, <1>2 DEF Listed
  <2> QED BY <1>1, <1>3, <2>1, SplitOrder
<1>5. /\ Len(s) \in Nat /\ Middle(s) \in Nat /\ 1 <= Middle(s) /\ Middle(s) < Len(s)
      /\ Live(s) = 1..Len(s) /\ \A i \in 1..Len(s) : s[i] \in Keys
      /\ new.leaf[p].slots \in Slots /\ new.leaf[q].slots \in Slots
      /\ Len(new.leaf[p].slots) = Middle(s) /\ Live(new.leaf[p].slots) = 1..Middle(s)
      /\ Len(new.leaf[q].slots) = Len(s) - Middle(s)
      /\ Live(new.leaf[q].slots) = 1..Len(s) - Middle(s)
      /\ \A i \in 1..Middle(s) : new.leaf[p].slots[i] = s[i]
      /\ \A i \in 1..Len(s) - Middle(s) : new.leaf[q].slots[i] = s[Middle(s) + i]
      /\ \A r \in 1..n : r # p => new.leaf[r].slots = t.leaf[r].slots
  <2>1. Halves(n, t.leaf, new.leaf, p, q, s)
    BY <1>20 DEF SplitParts
  <2> HIDE DEF q, n
  <2> QED BY <2>1 DEF Halves
<1>7. new.index \in Separators(q) /\ Begins(new.index) /\ Len(new.index) <= IndexCapacity
  BY <1>20 DEF SplitParts
<1>8. Holds(new.leaf, K)
  <2> DEFINE leaf == t.leaf
             leaves == new.leaf
  <2>1. /\ n \in Nat /\ DOMAIN leaf = 1..n /\ p \in 1..n /\ s \in Slots /\ Len(s) <= LeafCapacity
        /\ ~ HasSpace(s) /\ Holds(leaf, K)
    BY <1>1, <1>2
  <2>2. SplitLeaves(leaf, leaves, p, n + 1, s)
    BY <1>3
  <2>3. s = leaf[p].slots
    OBVIOUS
  <2> HIDE DEF n, p, s, d, leaf, leaves
  <2>4. Holds(leaves, K)
    BY <2>1, <2>2, <2>3, SplitHolds
  <2> QED BY <2>4 DEF leaves
<1>9. q \in Nat /\ q # 1 /\ q \in 1..MaxLeaves /\ q - 1 = n
  BY <1>1
<1>10. ASSUME NEW r \in 1..q PROVE
          /\ new.leaf[r].slots \in Slots /\ Len(new.leaf[r].slots) <= LeafCapacity
          /\ new.leaf[r].slots # << >>
  <2>1. Len(<< >>) = 0 /\ Len(s) <= LeafCapacity /\ LeafCapacity \in Nat
    BY <1>1, TreeAssumption
  <2> DEFINE mid == Middle(s)
  <2>2. mid >= 1 /\ mid <= LeafCapacity /\ Len(s) - mid >= 1 /\ Len(s) - mid <= LeafCapacity
    <3>1. Len(s) \in Nat /\ mid \in Nat /\ mid < Len(s) /\ 1 <= mid
      BY <1>5
    <3> HIDE DEF mid
    <3> QED BY <2>1, <3>1
  <2>3. CASE r = p
    <3>1. Len(new.leaf[r].slots) = mid /\ new.leaf[r].slots \in Slots
      BY <1>5, <2>3
    <3> HIDE DEF mid
    <3> QED BY <2>1, <2>2, <3>1
  <2>4. CASE r = q
    <3>1. Len(new.leaf[r].slots) = Len(s) - mid /\ new.leaf[r].slots \in Slots
      BY <1>5, <2>4
    <3> HIDE DEF mid
    <3> QED BY <2>1, <2>2, <3>1
  <2>5. CASE r # p /\ r # q
    <3>3. r \in 1..n
      BY <1>9, <2>5
    <3>1. r \in 1..n /\ new.leaf[r].slots = t.leaf[r].slots
      BY <1>5, <2>5, <3>3
    <3>2. n # 1
      BY <1>1, <2>5, <3>1
    <3> QED BY <1>1, <3>1, <3>2
  <2> QED BY <2>3, <2>4, <2>5
<1>11. ASSUME NEW r \in 1..q PROVE
          /\ new.leaf[r] = [slots |-> new.leaf[r].slots, next |-> new.leaf[r].next,
                            prev |-> new.leaf[r].prev]
          /\ new.leaf[r].next \in 1..q \cup {INVALID_PAGE}
          /\ new.leaf[r].prev \in 1..q \cup {INVALID_PAGE}
  <2>1. 1..n \subseteq 1..q /\ q \in 1..q
    BY <1>9
  <2>2. CASE r = q
    <3>1. new.leaf[r] = [slots |-> UpperHalf(s, Middle(s)), next |-> t.leaf[p].next, prev |-> p]
      BY <1>3, <2>2 DEF SplitLeaves
    <3>2. new.leaf[r].next = t.leaf[p].next /\ new.leaf[r].prev = p
      BY <3>1
    <3>3. t.leaf[p].next \in 1..n \cup {INVALID_PAGE} /\ p \in 1..n
      BY <1>1
    <3>4. new.leaf[r] = [slots |-> new.leaf[r].slots, next |-> new.leaf[r].next,
                         prev |-> new.leaf[r].prev]
      BY <3>1
    <3> HIDE DEF q, n, p
    <3> QED BY <2>1, <3>2, <3>3, <3>4
  <2>3. CASE r = p
    <3>1. new.leaf[r] = [slots |-> SubSeq(s, 1, Middle(s)), next |-> q, prev |-> t.leaf[p].prev]
      BY <1>3, <2>3 DEF SplitLeaves
    <3>2. new.leaf[r].next = q /\ new.leaf[r].prev = t.leaf[p].prev
      BY <3>1
    <3>3. t.leaf[p].prev \in 1..n \cup {INVALID_PAGE}
      BY <1>1
    <3>4. new.leaf[r] = [slots |-> new.leaf[r].slots, next |-> new.leaf[r].next,
                         prev |-> new.leaf[r].prev]
      BY <3>1
    <3> HIDE DEF q, n, p
    <3> QED BY <2>1, <3>2, <3>3, <3>4
  <2>4. CASE r # p /\ r # q
    <3>1. r \in 1..n /\ r # p
      BY <1>9, <2>4
    <3> HIDE DEF q
    <3>2. new.leaf[r] = [slots |-> t.leaf[r].slots, next |-> t.leaf[r].next,
                         prev |-> IF r = t.leaf[p].next THEN q ELSE t.leaf[r].prev]
      BY <1>3, <1>9, <3>1 DEF SplitLeaves
    <3>3. /\ t.leaf[r].next \in 1..n \cup {INVALID_PAGE}
          /\ t.leaf[r].prev \in 1..n \cup {INVALID_PAGE}
      BY <1>1, <3>1
    <3> HIDE DEF n
    <3> QED BY <2>1, <3>2, <3>3
  <2> QED BY <2>2, <2>3, <2>4
<1>12. /\ Len(d) = q /\ d \in Seq(1..q) /\ DOMAIN new.leaf = 1..q /\ InOrder(new.leaf, d)
  BY <1>4 DEF Listed
<1>13. new.leaf = [r \in 1..q |-> new.leaf[r]]
  BY <1>3 DEF SplitLeaves
<1>14. IndexBegins(new, q)
  BY <1>7, <1>9, <1>10 DEF IndexBegins, Begins
<1> HIDE DEF d, q
<1>15. Whole(new, d, K)
  BY <1>3, <1>7, <1>8, <1>9, <1>10, <1>11, <1>12, <1>13, <1>14, WholeFrom
<1> QED BY <1>15 DEF new, d, q

(* After the split the descent leads to one of the halves, which has space *)
(* and no holes.                                                           *)
LEMMA SplitDescends ==
  ASSUME NEW t, NEW c, NEW K, Whole(t, c, K), NEW key \in Keys, key \notin K,
         Len(c) < MaxLeaves, ~ HasSpace(t.leaf[Descend(t, key)].slots)
  PROVE  LET p == Descend(t, key)
             new == Split(t, p)
             r == Descend(new, key)
         IN  /\ r \in 1..Len(c) + 1
             /\ HasSpace(new.leaf[r].slots) /\ ~ Misplaces(new.leaf[r].slots, key)
<1> DEFINE n == Len(c)
           q == n + 1
           p == Descend(t, key)
           s == t.leaf[p].slots
           new == Split(t, p)
           r == Descend(new, key)
           separator == UpperHalf(s, Middle(s))[1]
<1>1. /\ p \in 1..n /\ (n = 1 => p = FirstLeaf) /\ (n # 1 => p = get_page_no(t.index, key))
  BY DescentEnds
<1>2. n \in Nat /\ n >= 1 /\ DOMAIN t.leaf = 1..n /\ Len(s) <= LeafCapacity
  BY <1>1, WholeFacts
<1> HIDE DEF p
<1>3. SplitParts(t, c, p, new, separator)
  BY <1>1, SplitHas DEF p
<1> HIDE DEF new, separator
<1>4. /\ new.index \in Separators(q) /\ Begins(new.index) /\ separator \in Keys
      /\ SplitIndex(t, c, p, q, separator, new.index)
      /\ n # 1 => t.index \in Separators(q) /\ Begins(t.index)
  BY <1>3 DEF SplitParts
<1>5. r = get_page_no(new.index, key)
  <2>1. Len(<< >>) = 0 /\ Len(new.index) >= 2
    BY <1>4 DEF Begins
  <2>2. new.index # << >>
    BY <2>1
  <2> QED BY <2>2 DEF Descend, tree_level
<1>6. key # separator
  <2>1. separator = s[Middle(s) + 1] /\ Middle(s) + 1 \in Live(s)
    BY <1>3 DEF SplitParts
  <2>2. \A x : (\E x1 \in DOMAIN t.leaf : \E i \in Live(t.leaf[x1].slots) : t.leaf[x1].slots[i] = x) => x \in K
    BY HoldsIff DEF Whole
  <2> HIDE DEF n
  <2> QED BY <1>1, <1>2, <2>1, <2>2
<1>7. r \in {p, q}
  <2>1. CASE n = 1
    <3> DEFINE e1 == [key |-> StartKey, page |-> p]
               e2 == [key |-> separator, page |-> q]
    <3>1. new.index = << e1, e2 >>
      BY <1>4, <2>1 DEF SplitIndex
    <3>2. q \in Nat /\ key \in Nat \ {0}
      BY <1>2, TreeAssumption
    <3>3. PICK m : FirstNotSmaller(new.index, key, m)
      BY <1>4, <3>2, NotSmallerExists
    <3>4. r = ChildAt(new.index, key, m)
      BY <1>4, <1>5, <3>2, <3>3, PageOf
    <3>5. e1.page = p /\ e2.page = q
      OBVIOUS
    <3> HIDE DEF e1, e2
    <3>6. Len(new.index) = 2 /\ new.index[1] = e1 /\ new.index[2] = e2
      BY <3>1
    <3>7. m \in 2..3
      BY <3>3, <3>6 DEF FirstNotSmaller
    <3>8. r \in {new.index[1].page, new.index[2].page}
      <4>1. CASE m = 2
        BY <3>4, <4>1 DEF ChildAt
      <4>2. CASE m = 3
        BY <3>4, <3>6, <4>2 DEF ChildAt
      <4> QED BY <3>7, <4>1, <4>2
    <3> QED BY <3>5, <3>6, <3>8
  <2>2. CASE n # 1 /\ new.index = t.index
    BY <1>1, <1>5, <2>2
  <2>3. CASE n # 1 /\ new.index # t.index
    <3>1. PICK m : Separated1(t.index, separator, q, m, new.index)
      BY <1>4, <2>3 DEF SplitIndex
    <3>2. q \in Nat
      BY <1>2
    <3> HIDE DEF q, n, r
    <3>3. get_page_no(new.index, key) \in {get_page_no(t.index, key), q}
      BY <1>4, <1>6, <2>3, <3>1, <3>2, DescentAfter
    <3> QED BY <1>1, <1>5, <2>3, <3>3 DEF r
  <2> QED BY <2>1, <2>2, <2>3
<1>8. r \in 1..q
  BY <1>1, <1>2, <1>7
<1>9. /\ Len(new.leaf[r].slots) < LeafCapacity /\ Live(new.leaf[r].slots) = 1..Len(new.leaf[r].slots)
      /\ new.leaf[r].slots \in Slots
  <2> DEFINE mid == Middle(s)
  <2>1. Halves(n, t.leaf, new.leaf, p, q, s)
    BY <1>3 DEF SplitParts
  <2>2. /\ Len(s) \in Nat /\ mid \in Nat /\ 1 <= mid /\ mid < Len(s)
        /\ Len(new.leaf[p].slots) = mid /\ Live(new.leaf[p].slots) = 1..mid
        /\ Len(new.leaf[q].slots) = Len(s) - mid
        /\ Live(new.leaf[q].slots) = 1..Len(s) - mid
        /\ new.leaf[p].slots \in Slots /\ new.leaf[q].slots \in Slots
    <3> HIDE DEF q, n
    <3> QED BY <2>1 DEF Halves
  <2>3. LeafCapacity \in Nat
    BY TreeAssumption
  <2>5. Len(s) <= LeafCapacity
    BY <1>2
  <2> HIDE DEF mid, s, q, r
  <2>4. mid < LeafCapacity /\ Len(s) - mid < LeafCapacity
    BY <2>5, <2>2, <2>3
  <2> QED BY <1>7, <2>2, <2>4
<1>10. Empty(new.leaf[r].slots) = {}
  <2>1. DOMAIN new.leaf[r].slots = 1..Len(new.leaf[r].slots)
    BY <1>9, LiveSlots
  <2> QED BY <1>9, <2>1 DEF Empty
<1>11. HasSpace(new.leaf[r].slots) /\ ~ Misplaces(new.leaf[r].slots, key)
  BY <1>9, <1>10 DEF HasSpace, Misplaces
<1> QED BY <1>8, <1>11 DEF new, p

(* A list of leaves with one more behind the k-th.                         *)
List(n, c) == c \in Seq(1..n) /\ Len(c) = n

(* It is one longer, and what was behind the k-th has moved by one.        *)
LEMMA LongerList ==
  ASSUME NEW n \in Nat, NEW c, List(n, c), NEW k \in 1..n
  PROVE  LET d == InsertAt(c, k + 1, n + 1)
         IN  /\ d \in Seq(1..n + 1) /\ Len(d) = n + 1 /\ DOMAIN d = 1..n + 1
             /\ \A j \in 1..n + 1 : d[j] = IF j < k + 1 THEN c[j]
                                           ELSE IF j = k + 1 THEN n + 1 ELSE c[j - 1]
<1> DEFINE S == 1..n + 1
           i == k + 1
           q == n + 1
<1>1. c \in Seq(S)
  <2>1. 1..n \subseteq S
    OBVIOUS
  <2> HIDE DEF S
  <2> QED BY <2>1, SeqMonotonic DEF List
<1>2. q \in S /\ i \in 1..Len(c) + 1 /\ Len(c) + 1 = q
  BY DEF List
<1>5. Len(c) \in Nat
  BY DEF List
<1> HIDE DEF q, S, i
<1>3. /\ InsertAt(c, i, q) \in Seq(S) /\ Len(InsertAt(c, i, q)) = Len(c) + 1
      /\ \A j \in 1..Len(c) + 1 :
            InsertAt(c, i, q)[j] = IF j < i THEN c[j] ELSE IF j = i THEN q ELSE c[j - 1]
  BY <1>1, <1>2, InsertAtIs
<1>4. DOMAIN InsertAt(c, i, q) = 1..q
  BY <1>2, <1>3, LenProperties
<1> QED BY <1>2, <1>3, <1>4 DEF S, i, q

(* The entries of an index whose separators are in the order of the        *)
(* leaves, and its keys between them.                                      *)
Sorts(index, c, leaf, n) ==
  /\ \A k \in 1..n : index[k].page = c[k] /\ index[k].key \in Int
  /\ \A j, k \in 1..n : j < k => index[j].key < index[k].key
  /\ \A k \in 1..n : \A i \in Live(leaf[c[k]].slots) :
        /\ index[k].key <= leaf[c[k]].slots[i]
        /\ k < n => leaf[c[k]].slots[i] < index[k + 1].key

(* The separators of a tree one leaf of which is split.                    *)
Separators1(t, p) == IF t.index = << >> THEN << [key |-> StartKey, page |-> p] >> ELSE t.index

(* A tree that can be searched has a separator for each leaf; the only     *)
(* leaf of a tree is taken to have the smallest one.                       *)
LEMMA SearchableSorts ==
  ASSUME NEW t, NEW c, NEW K, Whole(t, c, K), Searchable(t, c), NEW k \in 1..Len(c)
  PROVE  /\ Sorts(Separators1(t, c[k]), c, t.leaf, Len(c))
         /\ Len(Separators1(t, c[k])) = Len(c)
         /\ Len(c) = 1 => Separators1(t, c[k]) = << [key |-> StartKey, page |-> c[k]] >> /\ k = 1
         /\ Len(c) # 1 => Separators1(t, c[k]) = t.index
<1> DEFINE n == Len(c)
           base == Separators1(t, c[k])
<1>1. /\ n \in Nat /\ n >= 1 /\ DOMAIN c = 1..n /\ t.index \in Separators(n)
      /\ n = 1 => t.index = << >>
      /\ n # 1 => Begins(t.index)
      /\ \A j \in 1..n : c[j] \in 1..n /\ t.leaf[c[j]].slots \in Slots
  <2>1. \A j \in 1..Len(c) : c[j] \in 1..Len(c)
    BY WholeFacts
  <2>2. \A j \in 1..Len(c) : t.leaf[j].slots \in Slots
    BY WholeFacts
  <2>3. /\ n \in Nat /\ n >= 1 /\ DOMAIN c = 1..n /\ t.index \in Separators(n)
        /\ n = 1 => t.index = << >>
        /\ n # 1 => Begins(t.index)
    BY WholeFacts
  <2> HIDE DEF n
  <2> QED BY <2>1, <2>2, <2>3 DEF n
<1>2. n # 1 => t.index # << >>
  <2>1. Len(<< >>) = 0
    OBVIOUS
  <2> QED BY <1>1, <2>1 DEF Begins
<1>3. CASE n = 1
  <2> DEFINE e == [key |-> StartKey, page |-> c[k]]
  <2>1. base = << e >> /\ k = 1
    BY <1>1, <1>3 DEF Separators1
  <2>2. e.key = StartKey /\ e.page = c[1]
    BY <2>1
  <2> HIDE DEF e
  <2>3. Len(base) = 1 /\ base[1] = e
    BY <2>1
  <2>4. StartKey \in Int /\ \A i \in Live(t.leaf[c[1]].slots) : StartKey <= t.leaf[c[1]].slots[i]
    <3>1. \A i \in Live(t.leaf[c[1]].slots) : t.leaf[c[1]].slots[i] \in Keys
      BY <1>1, <1>3, LiveSlots
    <3>2. StartKey \in Int /\ \A x \in Keys : StartKey <= x
      BY TreeAssumption DEF StartKey
    <3> QED BY <3>1, <3>2
  <2>5. Sorts(base, c, t.leaf, 1)
    <3>1. \A j \in 1..1 : j = 1
      OBVIOUS
    <3> HIDE DEF base
    <3> QED BY <2>2, <2>3, <2>4, <3>1 DEF Sorts
  <2> HIDE DEF base
  <2> QED BY <1>3, <2>1, <2>3, <2>5 DEF base, e
<1>4. CASE n # 1
  <2>0. base = t.index
    BY <1>2, <1>4 DEF Separators1
  <2>4. n > 1
    BY <1>1, <1>4
  <2>1. base = t.index /\ Separated(t, c)
    BY <2>0, <2>4 DEF Searchable
  <2>2. /\ Len(t.index) = n
        /\ \A j \in 1..n : t.index[j].page = c[j]
        /\ \A j, l \in 1..n : j < l => t.index[j].key < t.index[l].key
        /\ \A j \in 1..n : \A i \in Live(t.leaf[c[j]].slots) :
              /\ t.index[j].key <= t.leaf[c[j]].slots[i]
              /\ j < n => t.leaf[c[j]].slots[i] < t.index[j + 1].key
    BY <1>1, <2>1 DEF Separated
  <2>3. \A j \in 1..n : t.index[j].key \in Int
    BY <1>1, <2>2, EntriesOf
  <2> HIDE DEF base
  <2> QED BY <1>4, <2>1, <2>2, <2>3 DEF Sorts, base
<1> QED BY <1>3, <1>4

(* The new separator comes behind that of the leaf that was split.         *)
LEMMA SeparatorFollows ==
  ASSUME NEW n \in Nat, NEW base, NEW c, NEW leaf, Sorts(base, c, leaf, n), Len(base) = n,
         NEW k \in 1..n, NEW separator \in Int, base[k].key < separator,
         k < n => separator < base[k + 1].key, NEW m, FirstNotSmaller(base, separator, m)
  PROVE  m = k + 1
<1>1. /\ m \in 2..n + 1
      /\ \A j \in 1..m - 1 : base[j].key < separator
      /\ m <= n => separator <= base[m].key
  BY DEF FirstNotSmaller
<1>2. /\ \A j \in 1..n : base[j].key \in Int
      /\ \A i, j \in 1..n : i < j => base[i].key < base[j].key
  BY DEF Sorts
<1>3. ~ (m <= k)
  <2>1. SUFFICES ASSUME m <= k PROVE FALSE
    OBVIOUS
  <2>2. m \in 1..n /\ m <= n /\ (m = k \/ m < k)
    BY <1>1, <2>1
  <2>3. base[m].key <= base[k].key
    BY <1>2, <2>2
  <2> QED BY <1>1, <1>2, <2>2, <2>3
<1>4. ~ (m > k + 1)
  <2>1. SUFFICES ASSUME m > k + 1 PROVE FALSE
    OBVIOUS
  <2>2. k < n /\ k + 1 \in 1..m - 1 /\ k + 1 \in 1..n
    BY <1>1, <2>1
  <2> QED BY <1>1, <1>2, <2>2
<1> QED BY <1>1, <1>3, <1>4

(* A sequence of n elements with a new one behind the k-th.                *)
Longer(new, old, n, k, e) ==
  \A j \in 1..n + 1 : new[j] = IF j < k + 1 THEN old[j] ELSE IF j = k + 1 THEN e ELSE old[j - 1]

(* The separators of the split tree, and the keys between them.            *)
LEMMA SortsAfter ==
  ASSUME NEW n \in Nat, NEW base, NEW c, NEW leaf, Sorts(base, c, leaf, n),
         NEW k \in 1..n, NEW separator \in Int, base[k].key < separator,
         k < n => separator < base[k + 1].key,
         NEW index, NEW d, NEW new, NEW s, NEW p, p = c[k],
         Longer(index, base, n, k, [key |-> separator, page |-> n + 1]), Longer(d, c, n, k, n + 1),
         \A i, j \in 1..n : c[i] = c[j] => i = j, \A i \in 1..n : c[i] \in 1..n,
         s = leaf[p].slots, s \in Slots, Ascends(s), Halves(n, leaf, new, p, n + 1, s),
         separator = s[Middle(s) + 1]
  PROVE  Sorts(index, d, new, n + 1)
<1> DEFINE q == n + 1
           mid == Middle(s)
           New(j) == IF j < k + 1 THEN j ELSE j - 1
<1>1. /\ \A j \in 1..n : base[j].page = c[j] /\ base[j].key \in Int
      /\ \A i, j \in 1..n : i < j => base[i].key < base[j].key
      /\ \A j \in 1..n : \A i \in Live(leaf[c[j]].slots) :
            /\ base[j].key <= leaf[c[j]].slots[i]
            /\ j < n => leaf[c[j]].slots[i] < base[j + 1].key
  BY DEF Sorts
<1>2. /\ Len(s) \in Nat /\ mid \in Nat /\ 1 <= mid /\ mid < Len(s)
      /\ Live(s) = 1..Len(s) /\ \A i \in 1..Len(s) : s[i] \in Keys
      /\ Live(new[p].slots) = 1..mid
      /\ Live(new[q].slots) = 1..Len(s) - mid
      /\ \A i \in 1..mid : new[p].slots[i] = s[i]
      /\ \A i \in 1..Len(s) - mid : new[q].slots[i] = s[mid + i]
      /\ \A r \in 1..n : r # p => new[r].slots = leaf[r].slots
  BY DEF Halves
<1>3. \A j \in 1..q : j # k + 1 => New(j) \in 1..n /\ index[j] = base[New(j)] /\ d[j] = c[New(j)]
  BY DEF Longer
<1>4. d[k + 1] = q /\ index[k + 1].page = q /\ index[k + 1].key = separator
  <2>1. index[k + 1] = [key |-> separator, page |-> q] /\ d[k + 1] = q
    BY DEF Longer
  <2> QED BY <2>1
<1>5. ASSUME NEW j \in 1..q PROVE index[j].page = d[j] /\ index[j].key \in Int
  <2> HIDE DEF New
  <2> QED BY <1>1, <1>3, <1>4
<1>6. ASSUME NEW i \in 1..q, NEW j \in 1..q, i < j PROVE index[i].key < index[j].key
  <2>1. CASE i = k + 1
    <3>1. New(j) \in 1..n /\ New(j) >= k + 1 /\ index[j] = base[New(j)]
      BY <1>3, <1>6, <2>1
    <3>2. k < n /\ k + 1 \in 1..n
      BY <1>6, <2>1
    <3> HIDE DEF New
    <3>3. base[k + 1].key <= base[New(j)].key
      <4>1. New(j) = k + 1 \/ k + 1 < New(j)
        BY <3>1
      <4> QED BY <1>1, <3>1, <3>2, <4>1
    <3> QED BY <1>1, <1>4, <2>1, <3>1, <3>2, <3>3
  <2>2. CASE j = k + 1
    <3>1. New(i) \in 1..n /\ New(i) <= k /\ index[i] = base[New(i)]
      BY <1>3, <1>6, <2>2
    <3> HIDE DEF New
    <3>2. base[New(i)].key <= base[k].key
      <4>1. New(i) = k \/ New(i) < k
        BY <3>1
      <4> QED BY <1>1, <3>1, <4>1
    <3> QED BY <1>1, <1>4, <2>2, <3>1, <3>2
  <2>3. CASE i # k + 1 /\ j # k + 1
    <3>1. New(i) < New(j)
      BY <1>6, <2>3
    <3> HIDE DEF New
    <3> QED BY <1>1, <1>3, <2>3, <3>1
  <2> QED BY <2>1, <2>2, <2>3
<1>7. \A i \in 1..Len(s) : i \in Live(leaf[c[k]].slots) /\ leaf[c[k]].slots[i] = s[i]
  BY <1>2
<1>8. ASSUME NEW j \in 1..q, NEW i \in Live(new[d[j]].slots)
      PROVE  /\ index[j].key <= new[d[j]].slots[i]
             /\ j < q => new[d[j]].slots[i] < index[j + 1].key
  <2>1. CASE j = k + 1
    <3>0. d[j] = q
      BY <1>4, <2>1
    <3>7. i \in Live(new[q].slots) /\ new[d[j]].slots[i] = new[q].slots[i]
      BY <1>8, <3>0
    <3>1. i \in 1..Len(s) - mid /\ new[d[j]].slots[i] = s[mid + i]
      BY <1>2, <3>7
    <3> HIDE DEF New
    <3>2. PICK x \in 1..Len(s) : x = mid + i
      <4> HIDE DEF mid
      <4>1. mid + i \in 1..Len(s)
        BY <1>2, <3>1
      <4> QED BY <4>1
    <3>3. PICK y \in 1..Len(s) : y = mid + 1
      <4> HIDE DEF mid
      <4>1. mid + 1 \in 1..Len(s)
        BY <1>2
      <4> QED BY <4>1
    <3>4. y = x \/ y < x
      <4> HIDE DEF mid
      <4> QED BY <1>2, <3>1, <3>2, <3>3
    <3>5. separator <= s[x]
      <4>1. y \in Live(s) /\ x \in Live(s)
        BY <1>2
      <4>2. y < x => s[y] < s[x]
        BY <4>1 DEF Ascends
      <4>3. s[x] \in Nat /\ s[y] \in Nat /\ separator = s[y]
        BY <1>2, <3>3, TreeAssumption
      <4>4. CASE y = x
        BY <4>3, <4>4
      <4>5. CASE y < x
        <5>1. PICK a \in Nat, b \in Nat : a = s[x] /\ b = s[y]
          BY <4>3
        <5>2. b < a
          BY <4>2, <4>5, <5>1
        <5>3. b <= a
          BY <5>2
        <5> QED BY <4>3, <5>1, <5>3
      <4> QED BY <3>4, <4>4, <4>5
    <3>6. ASSUME j < q PROVE s[x] < index[j + 1].key
      <4>1. j + 1 \in 1..q /\ j + 1 # k + 1 /\ New(j + 1) = k + 1 /\ k < n
        BY <2>1, <3>6 DEF New
      <4>2. index[j + 1] = base[k + 1]
        BY <1>3, <4>1
      <4>3. s[x] < base[k + 1].key
        BY <1>1, <1>7, <4>1
      <4> QED BY <4>2, <4>3
    <3> QED BY <1>4, <2>1, <3>1, <3>2, <3>5, <3>6
  <2>2. CASE j = k
    <3>1. d[j] = p /\ index[j] = base[k]
      BY <2>2 DEF Longer
    <3>2. i \in 1..mid /\ new[d[j]].slots[i] = s[i]
      BY <1>2, <1>8, <3>1
    <3>3. i \in 1..Len(s) /\ i < mid + 1 /\ mid + 1 \in 1..Len(s)
      <4> HIDE DEF mid
      <4> QED BY <1>2, <3>2
    <3> HIDE DEF New
    <3>4. base[k].key <= s[i]
      BY <1>1, <1>7, <3>3
    <3>5. s[i] < separator
      BY <1>2, <3>3 DEF Ascends
    <3>6. index[j + 1] = index[k + 1]
      BY <2>2
    <3> QED BY <1>4, <3>1, <3>2, <3>4, <3>5, <3>6
  <2>3. CASE j # k /\ j # k + 1
    <3> DEFINE l == New(j)
    <3>1. l \in 1..n /\ l # k /\ index[j] = base[l] /\ d[j] = c[l]
      BY <1>3, <2>3
    <3>2. j < q => l < n /\ j + 1 \in 1..q /\ j + 1 # k + 1 /\ New(j + 1) = l + 1
      BY <2>3
    <3> HIDE DEF New, l
    <3>3. c[l] \in 1..n /\ c[l] # p
      BY <3>1
    <3>4. new[d[j]].slots = leaf[c[l]].slots
      BY <1>2, <3>1, <3>3
    <3>5. j < q => index[j + 1] = base[l + 1]
      BY <1>3, <3>2
    <3> QED BY <1>1, <1>8, <3>1, <3>2, <3>4, <3>5
  <2> QED BY <2>1, <2>2, <2>3
<1> HIDE DEF New, mid
<1> QED BY <1>5, <1>6, <1>8 DEF Sorts

(* Where the separator got into the index, the split tree can be searched  *)
(* as the tree could.                                                      *)
LEMMA SplitSearchable ==
  ASSUME NEW t, NEW c, NEW K, Whole(t, c, K), Searchable(t, c), NEW k \in 1..Len(c),
         ~ HasSpace(t.leaf[c[k]].slots), Len(Split(t, c[k]).index) # Len(t.index)
  PROVE  Searchable(Split(t, c[k]), InsertAt(c, k + 1, Len(c) + 1))
<1> DEFINE n == Len(c)
           q == n + 1
           p == c[k]
           s == t.leaf[p].slots
           new == Split(t, p)
           mid == Middle(s)
           separator == UpperHalf(s, mid)[1]
           base == Separators1(t, p)
           d == InsertAt(c, k + 1, q)
<1>1. /\ n \in Nat /\ n >= 1 /\ DOMAIN t.leaf = 1..n /\ c \in Seq(1..n) /\ p \in 1..n
      /\ \A i \in 1..n : c[i] \in 1..n
      /\ s \in Slots
  BY WholeFacts
<1>2. SplitParts(t, c, p, new, separator)
  BY <1>1, SplitHas
<1>3. /\ Sorts(base, c, t.leaf, n) /\ Len(base) = n
      /\ n = 1 => base = << [key |-> StartKey, page |-> p] >> /\ k = 1
      /\ n # 1 => base = t.index
  BY SearchableSorts
<1>4. Ascends(s)
  BY <1>1 DEF Searchable
<1> HIDE DEF new, separator, base, d
<1>5. /\ Halves(n, t.leaf, new.leaf, p, q, s)
      /\ separator = s[mid + 1] /\ separator \in Keys /\ mid + 1 \in Live(s)
      /\ SplitIndex(t, c, p, q, separator, new.index)
      /\ SplitLeaves(t.leaf, new.leaf, p, q, s)
  BY <1>2 DEF SplitParts
<1>6. /\ Len(s) \in Nat /\ mid \in Nat /\ 1 <= mid /\ mid < Len(s)
      /\ Live(s) = 1..Len(s) /\ \A i \in 1..Len(s) : s[i] \in Keys
      /\ Live(new.leaf[p].slots) = 1..mid
      /\ Live(new.leaf[q].slots) = 1..Len(s) - mid
      /\ \A i \in 1..mid : new.leaf[p].slots[i] = s[i]
      /\ \A i \in 1..Len(s) - mid : new.leaf[q].slots[i] = s[mid + i]
      /\ \A r \in 1..n : r # p => new.leaf[r].slots = t.leaf[r].slots
  <2> HIDE DEF q, n
  <2> QED BY <1>5 DEF Halves
<1>7. separator \in Int /\ base[k].key < separator /\ (k < n => separator < base[k + 1].key)
  <2>1. base[k].key <= s[1] /\ s[1] < separator /\ base[k].key \in Int /\ s[1] \in Nat
    <3>1. 1 \in Live(s) /\ 1 < mid + 1
      <4> HIDE DEF mid
      <4> QED BY <1>6
    <3>2. s[1] < separator
      BY <1>4, <1>5, <3>1 DEF Ascends
    <3>3. base[k].key <= s[1] /\ base[k].key \in Int
      BY <1>3, <3>1 DEF Sorts
    <3>4. s[1] \in Nat
      BY <1>6, <3>1, TreeAssumption
    <3> QED BY <3>2, <3>3, <3>4
  <2>2. separator \in Int
    BY <1>5, TreeAssumption
  <2>3. k < n => separator < base[k + 1].key
    BY <1>3, <1>5 DEF Sorts
  <2> QED BY <2>1, <2>2, <2>3
<1>8. \A j \in 1..q : new.index[j] = IF j < k + 1 THEN base[j]
                                     ELSE IF j = k + 1 THEN [key |-> separator, page |-> q]
                                     ELSE base[j - 1]
  <2> DEFINE e == [key |-> separator, page |-> q]
  <2>1. CASE n = 1
    <3> DEFINE e1 == [key |-> StartKey, page |-> p]
    <3>1. new.index = << e1, e >> /\ base = << e1 >> /\ k = 1
      BY <1>3, <1>5, <2>1 DEF SplitIndex
    <3> HIDE DEF e1, e
    <3>2. new.index[1] = e1 /\ new.index[2] = e /\ base[1] = e1
      BY <3>1
    <3>3. q = 2
      BY <2>1
    <3>4. \A j \in 1..2 : j = 1 \/ j = 2
      OBVIOUS
    <3> HIDE DEF q
    <3> QED BY <3>1, <3>2, <3>3, <3>4 DEF e
  <2>2. CASE n # 1
    <3>1. base = t.index /\ Len(new.index) # Len(t.index)
      BY <1>3, <2>2 DEF new
    <3>2. PICK m : Separated1(t.index, separator, q, m, new.index)
      BY <1>5, <2>2, <3>1 DEF SplitIndex
    <3>3. /\ FirstNotSmaller(base, separator, m)
          /\ \A j \in 1..Len(base) + 1 : new.index[j] = IF j < m THEN base[j]
                                                        ELSE IF j = m THEN e ELSE base[j - 1]
      <4> HIDE DEF e
      <4> QED BY <3>1, <3>2 DEF Separated1, e
    <3>4. m = k + 1
      <4>1. Sorts(base, c, t.leaf, n) /\ Len(base) = n /\ n \in Nat
        BY <1>1, <1>3
      <4> HIDE DEF n, p, s, mid
      <4> QED BY <1>7, <3>3, <4>1, SeparatorFollows DEF n
    <3> HIDE DEF e
    <3>5. Len(base) + 1 = q
      BY <1>3
    <3> QED BY <3>3, <3>4, <3>5 DEF e
  <2> QED BY <2>1, <2>2
<1>9. /\ DOMAIN d = 1..q /\ Len(d) = q
      /\ \A j \in 1..q : d[j] = IF j < k + 1 THEN c[j] ELSE IF j = k + 1 THEN q ELSE c[j - 1]
  <2>1. List(n, c) /\ n \in Nat /\ k \in 1..n
    BY <1>1 DEF List
  <2> HIDE DEF n
  <2>2. LET x == InsertAt(c, k + 1, n + 1)
        IN  /\ x \in Seq(1..n + 1) /\ Len(x) = n + 1 /\ DOMAIN x = 1..n + 1
            /\ \A j \in 1..n + 1 : x[j] = IF j < k + 1 THEN c[j]
                                           ELSE IF j = k + 1 THEN n + 1 ELSE c[j - 1]
    BY <2>1, LongerList
  <2> QED BY <2>2 DEF d
<1>10. \A i, j \in 1..n : c[i] = c[j] => i = j
  <2>1. DOMAIN c = 1..n
    BY WholeFacts
  <2> QED BY <2>1 DEF Whole, InOrder
<1>11. Sorts(new.index, d, new.leaf, q)
  <2>1. /\ Sorts(base, c, t.leaf, n) /\ separator = s[Middle(s) + 1] /\ p = c[k]
        /\ Halves(n, t.leaf, new.leaf, p, n + 1, s)
    BY <1>3, <1>5
  <2> DEFINE index == new.index
             leaves == new.leaf
  <2>2. Longer(index, base, n, k, [key |-> separator, page |-> n + 1])
    BY <1>8 DEF Longer
  <2>3. Longer(d, c, n, k, n + 1)
    BY <1>9 DEF Longer
  <2>4. /\ n \in Nat /\ k \in 1..n /\ \A i \in 1..n : c[i] \in 1..n
        /\ \A i, j \in 1..n : c[i] = c[j] => i = j
    BY <1>1, <1>10
  <2>5. s = t.leaf[p].slots /\ s \in Slots
    BY <1>1
  <2>6. Halves(n, t.leaf, leaves, p, n + 1, s)
    BY <2>1
  <2> HIDE DEF mid, s, p, n, index, leaves
  <2>7. Sorts(index, d, leaves, n + 1)
    BY <1>4, <1>7, <2>1, <2>2, <2>3, <2>4, <2>5, <2>6, SortsAfter
  <2> QED BY <2>7 DEF index, leaves
<1>12. Len(new.index) = q
  <2>1. CASE n = 1
    <3> DEFINE e1 == [key |-> StartKey, page |-> p]
               e2 == [key |-> separator, page |-> q]
    <3>1. new.index = << e1, e2 >> /\ q = 2
      BY <1>5, <2>1 DEF SplitIndex
    <3> HIDE DEF e1, e2, q
    <3> QED BY <3>1
  <2>2. CASE n # 1
    <3>1. base = t.index /\ Len(new.index) # Len(t.index)
      BY <1>3, <2>2 DEF new
    <3>2. PICK m : Separated1(t.index, separator, q, m, new.index)
      BY <1>5, <2>2, <3>1 DEF SplitIndex
    <3> QED BY <1>3, <3>1, <3>2 DEF Separated1
  <2> QED BY <2>1, <2>2
<1>13. Separated(new, d)
  <2> HIDE DEF q
  <2> QED BY <1>9, <1>11, <1>12 DEF Separated, Sorts
<1>14. \A r \in DOMAIN new.leaf : Ascends(new.leaf[r].slots)
  <2>1. SUFFICES ASSUME NEW r \in 1..q PROVE Ascends(new.leaf[r].slots)
    BY <1>5 DEF SplitLeaves
  <2>2. CASE r = p
    <3>1. ASSUME NEW i \in 1..mid, NEW j \in 1..mid, i < j PROVE s[i] < s[j]
      <4>1. i \in Live(s) /\ j \in Live(s)
        <5>1. 1..mid \subseteq 1..Len(s)
          <6> HIDE DEF mid
          <6> QED BY <1>6
        <5> QED BY <1>6, <5>1
      <4> QED BY <1>4, <3>1, <4>1 DEF Ascends
    <3>2. /\ Live(new.leaf[r].slots) = 1..mid
          /\ \A i \in 1..mid : new.leaf[r].slots[i] = s[i]
      BY <1>6, <2>2
    <3> HIDE DEF mid, new
    <3> QED BY <3>1, <3>2 DEF Ascends
  <2>3. CASE r = q
    <3>1. ASSUME NEW i \in 1..Len(s) - mid, NEW j \in 1..Len(s) - mid, i < j PROVE s[mid + i] < s[mid + j]
      <4>1. PICK x \in 1..Len(s), y \in 1..Len(s) : x = mid + i /\ y = mid + j /\ x < y
        <5>1. mid + i \in 1..Len(s) /\ mid + j \in 1..Len(s) /\ mid + i < mid + j
          <6>1. Len(s) \in Nat /\ mid \in Nat
            BY <1>6
          <6> HIDE DEF mid
          <6> QED BY <3>1, <6>1
        <5> QED BY <5>1
      <4>2. x \in Live(s) /\ y \in Live(s)
        BY <1>6
      <4> QED BY <1>4, <4>1, <4>2 DEF Ascends
    <3>2. /\ Live(new.leaf[q].slots) = 1..Len(s) - mid
          /\ \A i \in 1..Len(s) - mid : new.leaf[q].slots[i] = s[mid + i]
      BY <1>6
    <3> HIDE DEF q, mid, s
    <3> QED BY <2>3, <3>1, <3>2 DEF Ascends
  <2>4. CASE r # p /\ r # q
    <3>1. r \in 1..n /\ r # p
      BY <1>1, <2>4
    <3>2. new.leaf[r].slots = t.leaf[r].slots
      BY <1>6, <3>1
    <3>3. r \in DOMAIN t.leaf
      BY <1>1, <3>1
    <3> QED BY <3>2, <3>3 DEF Searchable
  <2> QED BY <2>2, <2>3, <2>4
<1> QED BY <1>13, <1>14 DEF Searchable, new, d

(***************************************************************************)
(* The deletion of a key.                                                  *)
(***************************************************************************)
(* What Delete makes of the tree.                                          *)
Deleted(t, p, i) == [t EXCEPT !.leaf[p].slots = Without(t.leaf[p].slots, i)]

(* Only the slots of that leaf change, and only one key is gone.           *)
LEMMA DeletedIs ==
  ASSUME NEW t, NEW c, NEW K, Whole(t, c, K), NEW p \in 1..Len(c), NEW i \in Live(t.leaf[p].slots)
  PROVE  LET new == Deleted(t, p, i)
         IN  /\ new = [leaf |-> new.leaf, index |-> t.index]
             /\ DOMAIN new.leaf = 1..Len(c) /\ new.leaf = [q \in 1..Len(c) |-> new.leaf[q]]
             /\ \A q \in 1..Len(c) :
                   new.leaf[q] = [slots |-> IF q = p THEN Without(t.leaf[p].slots, i) ELSE t.leaf[q].slots,
                                  next |-> t.leaf[q].next, prev |-> t.leaf[q].prev]
<1> DEFINE new == Deleted(t, p, i)
           r == Without(t.leaf[p].slots, i)
<1>1. /\ DOMAIN t.leaf = 1..Len(c) /\ t = [leaf |-> t.leaf, index |-> t.index]
      /\ t.leaf = [q \in 1..Len(c) |-> t.leaf[q]]
      /\ \A q \in 1..Len(c) : t.leaf[q] = [slots |-> t.leaf[q].slots, next |-> t.leaf[q].next,
                                           prev |-> t.leaf[q].prev]
  <2>1. t.leaf = [q \in 1..Len(c) |-> t.leaf[q]]
    BY DEF Whole, WellFormed
  <2>2. DOMAIN t.leaf = 1..Len(c) /\ t = [leaf |-> t.leaf, index |-> t.index]
    BY WholeFacts
  <2>3. \A q \in 1..Len(c) : t.leaf[q] = [slots |-> t.leaf[q].slots, next |-> t.leaf[q].next,
                                          prev |-> t.leaf[q].prev]
    <3>1. WellFormed(t, Len(c))
      BY DEF Whole
    <3> QED BY <3>1, LeafRecord
  <2> QED BY <2>1, <2>2, <2>3
<1>2. new = [t EXCEPT !.leaf = [t.leaf EXCEPT ![p] = [t.leaf[p] EXCEPT !.slots = r]]]
  BY DEF Deleted
<1> HIDE DEF new, r
<1>3. [t.leaf[p] EXCEPT !.slots = r] = [slots |-> r, next |-> t.leaf[p].next, prev |-> t.leaf[p].prev]
  <2>1. PICK x, y, z : x = t.leaf[p].slots /\ y = t.leaf[p].next /\ z = t.leaf[p].prev
    OBVIOUS
  <2>2. t.leaf[p] = [slots |-> x, next |-> y, prev |-> z]
    BY <1>1, <2>1
  <2>3. [t.leaf[p] EXCEPT !.slots = r] = [slots |-> r, next |-> y, prev |-> z]
    BY <2>2
  <2> QED BY <2>1, <2>3
<1>4. new = [leaf |-> [t.leaf EXCEPT ![p] = [slots |-> r, next |-> t.leaf[p].next,
                                             prev |-> t.leaf[p].prev]],
             index |-> t.index]
  BY <1>1, <1>2, <1>3
<1>5. /\ new.leaf = [t.leaf EXCEPT ![p] = [slots |-> r, next |-> t.leaf[p].next, prev |-> t.leaf[p].prev]]
      /\ new = [leaf |-> new.leaf, index |-> t.index]
  BY <1>4
<1>6. DOMAIN new.leaf = 1..Len(c) /\ new.leaf = [q \in 1..Len(c) |-> new.leaf[q]]
  BY <1>1, <1>5
<1>7. ASSUME NEW q \in 1..Len(c)
      PROVE  new.leaf[q] = [slots |-> IF q = p THEN r ELSE t.leaf[q].slots,
                            next |-> t.leaf[q].next, prev |-> t.leaf[q].prev]
  <2>1. CASE q = p
    BY <1>1, <1>5, <2>1
  <2>2. CASE q # p
    BY <1>1, <1>5, <2>2
  <2> QED BY <2>1, <2>2
<1> QED BY <1>5, <1>6, <1>7 DEF new, r

(* Delete keeps the tree whole, without the key, and searchable.           *)
LEMMA DeleteKeeps ==
  ASSUME NEW t, NEW c, NEW K, Whole(t, c, K), NEW p \in 1..Len(c), NEW i \in Live(t.leaf[p].slots)
  PROVE  /\ Whole(Deleted(t, p, i), c, K \ {t.leaf[p].slots[i]})
         /\ Searchable(t, c) => Searchable(Deleted(t, p, i), c)
<1> DEFINE n == Len(c)
           s == t.leaf[p].slots
           r == Without(s, i)
           new == Deleted(t, p, i)
           L == K \ {s[i]}
<1>1. /\ n \in Nat /\ n >= 1 /\ n <= MaxLeaves /\ MaxLeaves \in Nat /\ c \in Seq(1..n)
      /\ DOMAIN c = 1..n /\ DOMAIN t.leaf = 1..n
      /\ \A q \in 1..n : /\ t.leaf[q].slots \in Slots /\ Len(t.leaf[q].slots) <= LeafCapacity
                         /\ t.leaf[q].next \in 1..n \cup {INVALID_PAGE}
                         /\ t.leaf[q].prev \in 1..n \cup {INVALID_PAGE}
      /\ t.index \in Separators(n) /\ Len(t.index) <= IndexCapacity
      /\ n = 1 => t.index = << >>
      /\ n # 1 => Begins(t.index) /\ \A q \in 1..n : t.leaf[q].slots # << >>
  BY WholeFacts
<1>2. InOrder(t.leaf, c) /\ Holds(t.leaf, K) /\ IndexBegins(t, n)
  BY DEF Whole
<1>3. /\ new = [leaf |-> new.leaf, index |-> t.index]
      /\ DOMAIN new.leaf = 1..n /\ new.leaf = [q \in 1..n |-> new.leaf[q]]
      /\ \A q \in 1..n : new.leaf[q] = [slots |-> IF q = p THEN r ELSE t.leaf[q].slots,
                                        next |-> t.leaf[q].next, prev |-> t.leaf[q].prev]
  BY DeletedIs
<1>4. /\ r \in Slots /\ Len(r) \in 1..Len(s)
      /\ Live(r) = Live(s) \ {i} /\ \A j \in Live(r) : r[j] = s[j]
  BY <1>1, WithoutIs
<1> HIDE DEF new, r
<1>5. ASSUME NEW q \in 1..n
      PROVE  /\ new.leaf[q].slots = (IF q = p THEN r ELSE t.leaf[q].slots)
             /\ new.leaf[q].next = t.leaf[q].next /\ new.leaf[q].prev = t.leaf[q].prev
             /\ new.leaf[q] = [slots |-> new.leaf[q].slots, next |-> new.leaf[q].next,
                               prev |-> new.leaf[q].prev]
  <2>1. new.leaf[q] = [slots |-> IF q = p THEN r ELSE t.leaf[q].slots,
                       next |-> t.leaf[q].next, prev |-> t.leaf[q].prev]
    BY <1>3
  <2> HIDE DEF n
  <2> QED BY <2>1
<1>6. InOrder(new.leaf, c)
  <2>1. n \in Nat \ {0} /\ c \in Seq(1..n) /\ Len(c) = n
    BY <1>1
  <2>2. DOMAIN t.leaf = 1..n /\ DOMAIN new.leaf = 1..n /\ InOrder(t.leaf, c)
    BY <1>1, <1>2, <1>3
  <2>3. \A q \in 1..n : new.leaf[q].next = t.leaf[q].next /\ (n # 1 => new.leaf[q].prev = t.leaf[q].prev)
    <3> HIDE DEF n
    <3> QED BY <1>5
  <2> HIDE DEF n
  <2> QED BY <2>1, <2>2, <2>3, SameOrder
<1>7. ASSUME NEW q \in 1..n, NEW j \in Live(new.leaf[q].slots)
      PROVE  /\ j \in Live(t.leaf[q].slots) /\ new.leaf[q].slots[j] = t.leaf[q].slots[j]
             /\ ~ (q = p /\ j = i)
  <2>1. CASE q = p
    BY <1>4, <1>5, <1>7, <2>1
  <2>2. CASE q # p
    BY <1>5, <1>7, <2>2
  <2> QED BY <2>1, <2>2
<1>8. ASSUME NEW q \in 1..n, NEW j \in Live(t.leaf[q].slots), ~ (q = p /\ j = i)
      PROVE  j \in Live(new.leaf[q].slots) /\ new.leaf[q].slots[j] = t.leaf[q].slots[j]
  <2>1. CASE q = p
    BY <1>4, <1>5, <1>8, <2>1
  <2>2. CASE q # p
    BY <1>5, <1>8, <2>2
  <2> QED BY <2>1, <2>2
<1>9. Holds(new.leaf, L)
  <2>1. /\ \A x : x \in K <=> \E q \in 1..n : \E j \in Live(t.leaf[q].slots) : t.leaf[q].slots[j] = x
        /\ \A q1, q2 \in 1..n : \A j \in Live(t.leaf[q1].slots), k \in Live(t.leaf[q2].slots) :
              t.leaf[q1].slots[j] = t.leaf[q2].slots[k] => q1 = q2 /\ j = k
    BY <1>1, <1>2, HoldsIff
  <2>2. \A q1, q2 \in 1..n : \A j \in Live(new.leaf[q1].slots), k \in Live(new.leaf[q2].slots) :
           new.leaf[q1].slots[j] = new.leaf[q2].slots[k] => q1 = q2 /\ j = k
    BY <1>7, <2>1
  <2>3. ASSUME NEW q \in 1..n, NEW j \in Live(new.leaf[q].slots) PROVE new.leaf[q].slots[j] \in L
    <3>1. new.leaf[q].slots[j] \in K
      BY <1>7, <2>1, <2>3
    <3>2. new.leaf[q].slots[j] # s[i]
      BY <1>7, <2>1, <2>3
    <3> QED BY <3>1, <3>2
  <2>4. ASSUME NEW x \in L PROVE \E q \in 1..n : \E j \in Live(new.leaf[q].slots) : new.leaf[q].slots[j] = x
    <3>1. PICK q \in 1..n : \E j \in Live(t.leaf[q].slots) : t.leaf[q].slots[j] = x
      BY <2>1
    <3>2. PICK j \in Live(t.leaf[q].slots) : t.leaf[q].slots[j] = x
      BY <3>1
    <3>3. ~ (q = p /\ j = i)
      BY <3>2
    <3> QED BY <1>8, <3>2, <3>3
  <2>5. \A x : x \in L <=> \E q \in DOMAIN new.leaf : \E j \in Live(new.leaf[q].slots) : new.leaf[q].slots[j] = x
    <3> HIDE DEF L
    <3> QED BY <1>3, <2>3, <2>4
  <2> HIDE DEF L
  <2> QED BY <1>3, <2>2, <2>5, HoldsIff
<1>10. ASSUME NEW q \in 1..n
       PROVE  /\ new.leaf[q].slots \in Slots /\ Len(new.leaf[q].slots) <= LeafCapacity
              /\ n # 1 => new.leaf[q].slots # << >>
  <2>1. CASE q = p
    <3>1. /\ Len(r) \in Nat /\ Len(r) >= 1 /\ Len(r) <= Len(s) /\ Len(s) <= LeafCapacity
          /\ Len(s) \in Nat /\ LeafCapacity \in Nat
      <4>1. s \in Slots /\ Len(s) <= LeafCapacity
        BY <1>1
      <4>2. Len(s) \in Nat
        BY <4>1, LiveSlots
      <4>3. Len(r) \in 1..Len(s) /\ LeafCapacity \in Nat
        BY <1>4, TreeAssumption
      <4> HIDE DEF n, s
      <4> QED BY <4>1, <4>2, <4>3
    <3>2. Len(<< >>) = 0
      OBVIOUS
    <3>3. new.leaf[q].slots = r /\ r \in Slots
      BY <1>4, <1>5, <2>1
    <3>4. Len(r) <= LeafCapacity
      <4> HIDE DEF n, s
      <4> QED BY <3>1
    <3>5. r # << >>
      <4> HIDE DEF n, s
      <4> QED BY <3>1, <3>2
    <3> QED BY <3>3, <3>4, <3>5
  <2>2. CASE q # p
    BY <1>1, <1>5, <2>2
  <2> QED BY <2>1, <2>2
<1>11. new.index = t.index
  BY <1>3
<1>12. IndexBegins(new, n)
  BY <1>2, <1>10, <1>11 DEF IndexBegins
<1>13. Whole(new, c, L)
  <2>1. Len(c) = n /\ n \in 1..MaxLeaves
    BY <1>1
  <2>2. new = [leaf |-> new.leaf, index |-> new.index]
    BY <1>3, <1>11
  <2>3. \A q \in 1..n : /\ new.leaf[q].next \in 1..n \cup {INVALID_PAGE}
                        /\ new.leaf[q].prev \in 1..n \cup {INVALID_PAGE}
    BY <1>1, <1>5
  <2> HIDE DEF n, L
  <2> QED BY <1>1, <1>3, <1>5, <1>6, <1>9, <1>10, <1>11, <1>12, <2>1, <2>2, <2>3, WholeFrom
<1>14. ASSUME Searchable(t, c) PROVE Searchable(new, c)
  <2>1. \A q \in DOMAIN new.leaf : Ascends(new.leaf[q].slots)
    <3>1. SUFFICES ASSUME NEW q \in 1..n PROVE Ascends(new.leaf[q].slots)
      BY <1>3
    <3>2. Ascends(t.leaf[q].slots)
      BY <1>1, <1>14 DEF Searchable
    <3> QED BY <1>7, <3>2 DEF Ascends
  <2>2. ASSUME n > 1 PROVE Separated(new, c)
    <3>1. Separated(t, c)
      BY <1>14, <2>2 DEF Searchable
    <3>2. /\ Len(t.index) = n
          /\ \A k \in 1..n : t.index[k].page = c[k]
          /\ \A j, k \in 1..n : j < k => t.index[j].key < t.index[k].key
          /\ \A k \in 1..n : \A j \in Live(t.leaf[c[k]].slots) :
                /\ t.index[k].key <= t.leaf[c[k]].slots[j]
                /\ k < n => t.leaf[c[k]].slots[j] < t.index[k + 1].key
      BY <1>1, <3>1 DEF Separated
    <3>3. \A k \in 1..n : c[k] \in 1..n
      BY WholeFacts
    <3>4. \A k \in 1..n : \A j \in Live(new.leaf[c[k]].slots) :
             /\ j \in Live(t.leaf[c[k]].slots)
             /\ new.leaf[c[k]].slots[j] = t.leaf[c[k]].slots[j]
      BY <1>7, <3>3
    <3>5. \A k \in 1..n : \A j \in Live(new.leaf[c[k]].slots) :
             /\ t.index[k].key <= new.leaf[c[k]].slots[j]
             /\ k < n => new.leaf[c[k]].slots[j] < t.index[k + 1].key
      BY <3>2, <3>4
    <3>6. DOMAIN c = 1..n
      BY <1>1
    <3> QED BY <1>11, <3>2, <3>5, <3>6 DEF Separated
  <2> QED BY <2>1, <2>2 DEF Searchable
<1> QED BY <1>13, <1>14 DEF new

(***************************************************************************)
(* Where the keys are.                                                     *)
(***************************************************************************)
(* One key of the tree: a leaf of the list has it.                         *)
IsIn(t, c, y) == \E k \in 1..Len(c) : \E i \in Live(t.leaf[c[k]].slots) : t.leaf[c[k]].slots[i] = y
(* A key of a whole tree is in a slot of some leaf of the list: nothing    *)
(* that was inserted is out of reach of the links.                         *)
LEMMA KeyIsIn ==
  ASSUME NEW t, NEW c, NEW K, Whole(t, c, K), NEW y \in K
  PROVE  IsIn(t, c, y)
<1>1. DOMAIN t.leaf = 1..Len(c) /\ DOMAIN c = 1..Len(c)
  BY WholeFacts
<1>2. \E p \in 1..Len(c) : \E i \in Live(t.leaf[p].slots) : t.leaf[p].slots[i] = y
  BY <1>1, HoldsIff DEF Whole
<1>3. \A p \in 1..Len(c) : \E k \in 1..Len(c) : c[k] = p
  <2>1. ToSet(c) = 1..Len(c)
    BY <1>1 DEF Whole, InOrder
  <2> QED BY <1>1, <2>1 DEF ToSet
<1>4. PICK p \in 1..Len(c) : \E i \in Live(t.leaf[p].slots) : t.leaf[p].slots[i] = y
  BY <1>2
<1>5. PICK k \in 1..Len(c) : c[k] = p
  BY <1>3
<1>6. \E i \in Live(t.leaf[c[k]].slots) : t.leaf[c[k]].slots[i] = y
  BY <1>4, <1>5
<1> QED BY <1>6 DEF IsIn

(* Every key is in a slot of a leaf of the list, and nothing else is.      *)
LEMMA Located ==
  ASSUME NEW t, NEW c, NEW K, Whole(t, c, K)
  PROVE  /\ \A y \in K : \E k \in 1..Len(c) : \E i \in Live(t.leaf[c[k]].slots) : t.leaf[c[k]].slots[i] = y
         /\ \A p \in 1..Len(c) : \A i \in Live(t.leaf[p].slots) :
               /\ t.leaf[p].slots[i] \in K /\ t.leaf[p].slots[i] \in Keys
               /\ t.leaf[p].slots[i] \in Nat /\ i \in Nat
         /\ \A k \in 1..Len(c) : c[k] \in 1..Len(c)
<1>1. /\ DOMAIN t.leaf = 1..Len(c) /\ DOMAIN c = 1..Len(c) /\ \A k \in 1..Len(c) : c[k] \in 1..Len(c)
      /\ \A p \in 1..Len(c) : t.leaf[p].slots \in Slots
  BY WholeFacts
<1>2. \A x : x \in K <=> \E p \in 1..Len(c) : \E i \in Live(t.leaf[p].slots) : t.leaf[p].slots[i] = x
  BY <1>1, HoldsIff DEF Whole
<1>3. ASSUME NEW y \in K
      PROVE  \E k \in 1..Len(c) : \E i \in Live(t.leaf[c[k]].slots) : t.leaf[c[k]].slots[i] = y
  <2>1. IsIn(t, c, y)
    BY KeyIsIn
  <2> QED BY <2>1 DEF IsIn
<1>4. ASSUME NEW p \in 1..Len(c), NEW i \in Live(t.leaf[p].slots)
      PROVE  /\ t.leaf[p].slots[i] \in K /\ t.leaf[p].slots[i] \in Keys
             /\ t.leaf[p].slots[i] \in Nat /\ i \in Nat
  BY <1>1, <1>2, LiveSlots
<1> QED BY <1>1, <1>3, <1>4

(* The order of the separators: each is at most any that follows.          *)
LEMMA SeparatorsOrdered ==
  ASSUME NEW t, NEW c, NEW K, Whole(t, c, K), Separated(t, c), Len(c) # 1
  PROVE  /\ \A k \in 1..Len(c) : t.index[k].page = c[k] /\ t.index[k].key \in Int
         /\ \A j, k \in 1..Len(c) : j <= k => t.index[j].key <= t.index[k].key
         /\ \A k \in 1..Len(c) : \A i \in Live(t.leaf[c[k]].slots) :
               /\ t.index[k].key <= t.leaf[c[k]].slots[i]
               /\ k < Len(c) => t.leaf[c[k]].slots[i] < t.index[k + 1].key
<1>1. Len(c) \in Nat /\ DOMAIN c = 1..Len(c) /\ t.index \in Separators(Len(c))
  BY WholeFacts
<1>2. /\ Len(t.index) = Len(c)
      /\ \A k \in 1..Len(c) : t.index[k].page = c[k]
      /\ \A j, k \in 1..Len(c) : j < k => t.index[j].key < t.index[k].key
      /\ \A k \in 1..Len(c) : \A i \in Live(t.leaf[c[k]].slots) :
            /\ t.index[k].key <= t.leaf[c[k]].slots[i]
            /\ k < Len(c) => t.leaf[c[k]].slots[i] < t.index[k + 1].key
  BY <1>1 DEF Separated
<1>3. \A k \in 1..Len(c) : t.index[k].key \in Int
  BY <1>1, <1>2, EntriesOf
<1>4. ASSUME NEW j \in 1..Len(c), NEW k \in 1..Len(c), j <= k PROVE t.index[j].key <= t.index[k].key
  <2>1. j = k \/ j < k
    BY <1>1, <1>4
  <2> QED BY <1>2, <1>3, <2>1
<1> QED BY <1>2, <1>3, <1>4

(* The keys of a leaf are smaller than those of the leaves behind it.      *)
LEMMA LeavesFollow ==
  ASSUME NEW t, NEW c, NEW K, Whole(t, c, K), Searchable(t, c),
         NEW j \in 1..Len(c), NEW k \in 1..Len(c), j < k,
         NEW i \in Live(t.leaf[c[j]].slots), NEW l \in Live(t.leaf[c[k]].slots)
  PROVE  t.leaf[c[j]].slots[i] < t.leaf[c[k]].slots[l]
<1>1. Len(c) \in Nat
  BY WholeFacts
<1>2. Len(c) > 1 /\ Len(c) # 1 /\ j < Len(c) /\ j + 1 \in 1..Len(c) /\ j + 1 <= k
  BY <1>1
<1>3. /\ \A x \in 1..Len(c) : t.index[x].page = c[x] /\ t.index[x].key \in Int
      /\ \A x, y \in 1..Len(c) : x <= y => t.index[x].key <= t.index[y].key
      /\ \A x \in 1..Len(c) : \A z \in Live(t.leaf[c[x]].slots) :
            /\ t.index[x].key <= t.leaf[c[x]].slots[z]
            /\ x < Len(c) => t.leaf[c[x]].slots[z] < t.index[x + 1].key
  BY <1>2, SeparatorsOrdered DEF Searchable
<1>4. t.leaf[c[j]].slots[i] \in Nat /\ t.leaf[c[k]].slots[l] \in Nat
  BY Located
<1>5. t.leaf[c[j]].slots[i] < t.index[j + 1].key /\ t.index[j + 1].key \in Int
  BY <1>2, <1>3
<1>6. t.index[j + 1].key <= t.index[k].key /\ t.index[k].key <= t.leaf[c[k]].slots[l]
  BY <1>2, <1>3
<1>7. PICK x \in Nat, y \in Int, z \in Int, w \in Nat :
         /\ x = t.leaf[c[j]].slots[i] /\ y = t.index[j + 1].key
         /\ z = t.index[k].key /\ w = t.leaf[c[k]].slots[l]
  BY <1>3, <1>4, <1>5
<1>8. x < y /\ y <= z /\ z <= w
  BY <1>5, <1>6, <1>7
<1>9. x < w
  BY <1>8
<1> QED BY <1>7, <1>9

(* The leaf a descent for a bound leads to, and what is before it.         *)
LEMMA BoundLeaf ==
  ASSUME NEW t, NEW c, NEW K, Whole(t, c, K), Len(c) # 1, NEW lo \in Bounds \cup {NULL}
  PROVE  /\ get_page_no(t.index, lo) \in 1..Len(c)
         /\ Searchable(t, c) =>
               \E k \in 1..Len(c) :
                  /\ get_page_no(t.index, lo) = c[k]
                  /\ \A j \in 1..Len(c) : j < k =>
                        \A i \in Live(t.leaf[c[j]].slots) : t.leaf[c[j]].slots[i] < lo
<1>1. /\ Len(c) \in Nat /\ Len(c) > 1 /\ t.index \in Separators(Len(c)) /\ Begins(t.index)
      /\ \A k \in 1..Len(c) : c[k] \in 1..Len(c)
  <2>1. Len(c) \in Nat /\ Len(c) >= 1 /\ t.index \in Separators(Len(c)) /\ Begins(t.index)
    BY WholeFacts
  <2>2. \A k \in 1..Len(c) : c[k] \in 1..Len(c)
    BY WholeFacts
  <2>3. \A m \in Nat : m >= 1 /\ m # 1 => m > 1
    OBVIOUS
  <2>4. Len(c) > 1
    BY <2>1, <2>3
  <2> QED BY <2>1, <2>2, <2>4
<1>2. Len(t.index) \in Nat /\ \A i \in 1..Len(t.index) : t.index[i].page \in 1..Len(c)
  BY <1>1, EntriesOf
<1>3. CASE lo = NULL
  <2>1. get_page_no(t.index, lo) = t.index[1].page
    BY <1>1, <1>3, PageOfNull
  <2>2. 1 \in 1..Len(t.index) /\ 1 \in 1..Len(c)
    BY <1>1, <1>2 DEF Begins
  <2>3. ASSUME Searchable(t, c)
        PROVE  /\ get_page_no(t.index, lo) = c[1]
               /\ \A j \in 1..Len(c) : j < 1 =>
                     \A i \in Live(t.leaf[c[j]].slots) : t.leaf[c[j]].slots[i] < lo
    <3>1. Separated(t, c)
      BY <1>1, <2>3 DEF Searchable
    <3>2. t.index[1].page = c[1]
      BY <2>2, <3>1, SeparatorsOrdered
    <3>3. \A j \in 1..Len(c) : ~ (j < 1)
      BY <1>1
    <3> QED BY <2>1, <3>2, <3>3
  <2> QED BY <1>2, <2>1, <2>2, <2>3
<1>4. CASE lo # NULL
  <2>1. lo \in Nat \ {0}
    BY <1>4, TreeAssumption
  <2>2. PICK r : FirstNotSmaller(t.index, lo, r)
    BY <1>1, <2>1, NotSmallerExists
  <2>3. get_page_no(t.index, lo) = ChildAt(t.index, lo, r)
    BY <1>1, <2>1, <2>2, PageOf
  <2>4. r \in Nat /\ r - 1 \in 1..Len(t.index) /\ (r <= Len(t.index) => r \in 1..Len(t.index))
    BY <1>2, <2>2 DEF FirstNotSmaller
  <2>5. ChildAt(t.index, lo, r) \in 1..Len(c)
    BY <1>2, <2>4 DEF ChildAt
  <2>6. ASSUME Searchable(t, c)
        PROVE  \E k \in 1..Len(c) :
                  /\ get_page_no(t.index, lo) = c[k]
                  /\ \A j \in 1..Len(c) : j < k =>
                        \A i \in Live(t.leaf[c[j]].slots) : t.leaf[c[j]].slots[i] < lo
    <3>1. Separated(t, c)
      BY <1>1, <2>6 DEF Searchable
    <3>2. PICK k \in 1..Len(c) : get_page_no(t.index, lo) = c[k] /\ t.index[k].key <= lo
      BY <2>1, <3>1, DescentRange
    <3>3. /\ \A x \in 1..Len(c) : t.index[x].key \in Int
          /\ \A x, y \in 1..Len(c) : x <= y => t.index[x].key <= t.index[y].key
          /\ \A x \in 1..Len(c) : \A z \in Live(t.leaf[c[x]].slots) :
                x < Len(c) => t.leaf[c[x]].slots[z] < t.index[x + 1].key
      BY <3>1, SeparatorsOrdered
    <3>4. ASSUME NEW j \in 1..Len(c), j < k, NEW i \in Live(t.leaf[c[j]].slots)
          PROVE  t.leaf[c[j]].slots[i] < lo
      <4>1. j < Len(c) /\ j + 1 \in 1..Len(c) /\ j + 1 <= k
        BY <1>1, <3>4
      <4>2. t.leaf[c[j]].slots[i] \in Nat
        BY Located
      <4>3. t.leaf[c[j]].slots[i] < t.index[j + 1].key /\ t.index[j + 1].key \in Int
        BY <3>3, <4>1
      <4>4. t.index[j + 1].key <= t.index[k].key /\ t.index[k].key \in Int
        BY <3>3, <4>1
      <4>5. PICK x \in Nat, y \in Int, z \in Int :
               /\ x = t.leaf[c[j]].slots[i] /\ y = t.index[j + 1].key /\ z = t.index[k].key
        BY <4>2, <4>3, <4>4
      <4>6. x < y /\ y <= z /\ z <= lo
        BY <3>2, <4>3, <4>4, <4>5
      <4>7. lo \in Int
        BY <2>1
      <4>8. x < lo
        BY <4>6, <4>7
      <4> QED BY <4>5, <4>8
    <3> QED BY <3>2, <3>4
  <2> QED BY <2>3, <2>5, <2>6
<1> QED BY <1>3, <1>4

(* In a tree that can be searched the descent finds every key.             *)
LEMMA DescentFinds ==
  ASSUME NEW t, NEW c, NEW K, Whole(t, c, K), Searchable(t, c), NEW key \in K
  PROVE  \E i \in Live(t.leaf[Descend(t, key)].slots) : t.leaf[Descend(t, key)].slots[i] = key
<1> DEFINE n == Len(c)
<1>1. PICK k \in 1..n : \E i \in Live(t.leaf[c[k]].slots) : t.leaf[c[k]].slots[i] = key
  <2>1. IsIn(t, c, key)
    BY KeyIsIn
  <2> QED BY <2>1 DEF IsIn
<1>2. PICK i \in Live(t.leaf[c[k]].slots) : t.leaf[c[k]].slots[i] = key
  BY <1>1
<1>3. key \in Keys /\ key \in Nat \ {0}
  <2>1. c[k] \in 1..n
    BY Located
  <2>2. key \in Keys
    BY <1>2, <2>1, Located
  <2> QED BY <2>2, TreeAssumption
<1>4. /\ n = 1 => Descend(t, key) = FirstLeaf
      /\ n # 1 => Descend(t, key) = get_page_no(t.index, key)
  BY <1>3, DescentEnds
<1>5. n \in Nat /\ n >= 1
  BY WholeFacts
<1>6. CASE n = 1
  <2>1. k = 1 /\ c[1] = FirstLeaf
    BY <1>6 DEF Whole, InOrder
  <2> QED BY <1>2, <1>4, <1>6, <2>1
<1>7. CASE n # 1
  <2>1. Separated(t, c)
    BY <1>5, <1>7 DEF Searchable
  <2>2. PICK l \in 1..n : /\ get_page_no(t.index, key) = c[l] /\ t.index[l].key <= key
                          /\ l < n => key < t.index[l + 1].key
    BY <1>3, <1>7, <2>1, DescentRange
  <2>3. /\ \A x \in 1..n : t.index[x].key \in Int
        /\ \A x, y \in 1..n : x <= y => t.index[x].key <= t.index[y].key
        /\ \A x \in 1..n : \A z \in Live(t.leaf[c[x]].slots) :
              /\ t.index[x].key <= t.leaf[c[x]].slots[z]
              /\ x < n => t.leaf[c[x]].slots[z] < t.index[x + 1].key
    BY <1>7, <2>1, SeparatorsOrdered
  <2>4. t.index[k].key <= key /\ (k < n => key < t.index[k + 1].key)
    BY <1>2, <2>3
  <2> HIDE DEF n
  <2>5. ~ (k < l)
    <3>1. SUFFICES ASSUME k < l PROVE FALSE
      OBVIOUS
    <3>2. k < n /\ k + 1 \in 1..n /\ k + 1 <= l
      BY <1>5, <3>1
    <3>3. t.index[k + 1].key <= t.index[l].key /\ t.index[k + 1].key \in Int /\ t.index[l].key \in Int
      BY <2>3, <3>2
    <3> QED BY <1>3, <2>2, <2>4, <3>2, <3>3
  <2>6. ~ (l < k)
    <3>1. SUFFICES ASSUME l < k PROVE FALSE
      OBVIOUS
    <3>2. l < n /\ l + 1 \in 1..n /\ l + 1 <= k
      BY <1>5, <3>1
    <3>3. t.index[l + 1].key <= t.index[k].key /\ t.index[l + 1].key \in Int /\ t.index[k].key \in Int
      BY <2>3, <3>2
    <3> QED BY <1>3, <2>2, <2>4, <3>2, <3>3
  <2>7. k = l
    BY <1>5, <2>5, <2>6
  <2> QED BY <1>2, <1>4, <1>7, <2>2, <2>7
<1> QED BY <1>6, <1>7

(* The successor of the key in slot i of the k-th leaf: in the next slot   *)
(* with a record, or the first such slot of the next leaf, or nowhere.     *)
LEMMA Successor ==
  ASSUME NEW t, NEW c, NEW K, Whole(t, c, K), Searchable(t, c), NEW k \in 1..Len(c),
         NEW i \in Live(t.leaf[c[k]].slots), NEW y \in K, y > t.leaf[c[k]].slots[i]
  PROVE  LET slots == t.leaf[c[k]].slots
             later == {j \in Live(slots) : j > i}
             next == t.leaf[c[k]].next
         IN  /\ later # {} => slots[First(later)] <= y
             /\ later = {} => /\ next # INVALID_PAGE /\ k < Len(c) /\ next = c[k + 1]
                              /\ Live(t.leaf[next].slots) # {} =>
                                    t.leaf[next].slots[First(Live(t.leaf[next].slots))] <= y
<1> DEFINE n == Len(c)
           slots == t.leaf[c[k]].slots
           later == {j \in Live(slots) : j > i}
           next == t.leaf[c[k]].next
<1>1. /\ n \in Nat /\ \A x \in 1..n : c[x] \in 1..n
      /\ \A p \in 1..n : \A z \in Live(t.leaf[p].slots) : z \in Nat /\ t.leaf[p].slots[z] \in Nat
  BY Located, WholeFacts
<1>2. PICK l \in 1..n : \E z \in Live(t.leaf[c[l]].slots) : t.leaf[c[l]].slots[z] = y
  <2>1. IsIn(t, c, y)
    BY KeyIsIn
  <2> QED BY <2>1 DEF IsIn
<1>3. PICK z \in Live(t.leaf[c[l]].slots) : t.leaf[c[l]].slots[z] = y
  BY <1>2
<1>4. \A p \in 1..n : Ascends(t.leaf[p].slots)
  BY WholeFacts DEF Searchable
<1>5. i \in Nat /\ slots[i] \in Nat /\ y \in Nat /\ z \in Nat
  BY <1>1, <1>3
<1>6. ~ (l < k)
  <2>1. SUFFICES ASSUME l < k PROVE FALSE
    OBVIOUS
  <2>2. t.leaf[c[l]].slots[z] < t.leaf[c[k]].slots[i]
    BY <2>1, LeavesFollow
  <2> QED BY <1>3, <1>5, <2>2
<1>7. l = k => z \in later
  <2>1. SUFFICES ASSUME l = k PROVE z > i
    BY <1>3
  <2>2. z = i \/ z < i \/ z > i
    BY <1>5
  <2>3. z < i => slots[z] < slots[i]
    BY <1>1, <1>3, <1>4, <2>1 DEF Ascends
  <2> QED BY <1>3, <1>5, <2>1, <2>2, <2>3
<1>8. ASSUME later # {} PROVE slots[First(later)] <= y
  <2>1. later \in SUBSET Nat
    BY <1>1
  <2>2. First(later) \in later /\ \A x \in later : First(later) <= x
    BY <1>8, <2>1, FirstIs
  <2>3. First(later) \in Live(slots) /\ First(later) \in Nat /\ slots[First(later)] \in Nat
    BY <1>1, <2>2
  <2>4. CASE l = k
    <3>1. First(later) = z \/ First(later) < z
      BY <1>5, <1>7, <2>2, <2>3, <2>4
    <3>2. First(later) < z => slots[First(later)] < slots[z]
      <4>1. Ascends(slots) /\ z \in Live(slots)
        BY <1>1, <1>3, <1>4, <2>4
      <4> QED BY <2>3, <4>1 DEF Ascends
    <3>3. slots[z] = y
      BY <1>3, <2>4
    <3> DEFINE f == First(later)
    <3>4. slots[f] \in Nat /\ (f = z \/ slots[f] < slots[z])
      BY <2>3, <3>1, <3>2
    <3> HIDE DEF f, slots
    <3>5. slots[f] <= y
      BY <1>5, <3>3, <3>4
    <3> QED BY <3>5 DEF f
  <2>5. CASE l # k
    <3>1. k < l
      BY <1>1, <1>6, <2>5
    <3> DEFINE f == First(later)
    <3>2. f \in Live(t.leaf[c[k]].slots)
      BY <2>3
    <3> HIDE DEF f
    <3>3. t.leaf[c[k]].slots[f] < t.leaf[c[l]].slots[z]
      BY <3>1, <3>2, LeavesFollow
    <3>4. slots[f] < y /\ slots[f] \in Nat
      BY <1>3, <2>3, <3>3 DEF f
    <3>5. slots[f] <= y
      BY <1>5, <3>4
    <3> QED BY <3>5 DEF f
  <2> QED BY <2>4, <2>5
<1>9. ASSUME later = {}
      PROVE  /\ next # INVALID_PAGE /\ k < n /\ next = c[k + 1]
             /\ Live(t.leaf[next].slots) # {} =>
                   t.leaf[next].slots[First(Live(t.leaf[next].slots))] <= y
  <2>1. l # k
    BY <1>7, <1>9
  <2>2. k < l /\ k < n /\ k \in 1..n - 1 /\ k + 1 \in 1..n /\ (l = k + 1 \/ k + 1 < l)
    BY <1>1, <1>6, <2>1
  <2>3. next = c[k + 1]
    BY <2>2 DEF Whole, InOrder
  <2>4. next \in 1..n /\ next # INVALID_PAGE
    BY <1>1, <2>2, <2>3 DEF INVALID_PAGE
  <2>5. ASSUME Live(t.leaf[next].slots) # {}
        PROVE  t.leaf[next].slots[First(Live(t.leaf[next].slots))] <= y
    <3> DEFINE f == First(Live(t.leaf[next].slots))
    <3>1. Live(t.leaf[next].slots) \in SUBSET Nat
      BY <1>1, <2>4
    <3>2. f \in Live(t.leaf[next].slots) /\ \A x \in Live(t.leaf[next].slots) : f <= x
      BY <2>5, <3>1, FirstIs
    <3> HIDE DEF f
    <3>3. f \in Nat /\ t.leaf[next].slots[f] \in Nat
      BY <1>1, <2>4, <3>2
    <3>4. CASE l = k + 1
      <4>1. z \in Live(t.leaf[next].slots) /\ t.leaf[next].slots[z] = y
        BY <1>3, <2>3, <3>4
      <4>5. f <= z
        BY <3>2, <4>1
      <4>2. f = z \/ f < z
        BY <1>5, <3>3, <4>5
      <4>3. f < z => t.leaf[next].slots[f] < t.leaf[next].slots[z]
        <5>1. Ascends(t.leaf[next].slots)
          BY <1>4, <2>4
        <5> QED BY <3>2, <4>1, <5>1 DEF Ascends
      <4>4. t.leaf[next].slots[f] = y \/ t.leaf[next].slots[f] < y
        BY <4>1, <4>2, <4>3
      <4>6. t.leaf[next].slots[f] <= y
        <5> HIDE DEF next
        <5> QED BY <1>5, <3>3, <4>4
      <4> QED BY <4>6 DEF f
    <3>5. CASE l # k + 1
      <4> DEFINE j == k + 1
      <4>1. j \in 1..n /\ j < l /\ f \in Live(t.leaf[c[j]].slots)
        BY <2>2, <2>3, <3>2, <3>5
      <4> HIDE DEF j
      <4>2. t.leaf[c[j]].slots[f] < t.leaf[c[l]].slots[z]
        BY <4>1, LeavesFollow
      <4>3. t.leaf[next].slots[f] < y
        BY <1>3, <2>3, <4>2 DEF j
      <4>4. t.leaf[next].slots[f] <= y
        <5>1. PICK a \in Nat, b \in Nat : a = t.leaf[next].slots[f] /\ b = y
          BY <1>5, <3>3
        <5>2. a <= b
          BY <4>3, <5>1
        <5> QED BY <5>1, <5>2
      <4> QED BY <4>4 DEF f
    <3> QED BY <3>4, <3>5
  <2> QED BY <2>2, <2>3, <2>4, <2>5
<1> QED BY <1>8, <1>9

(***************************************************************************)
(* The steps keep the invariant.                                           *)
(***************************************************************************)
(* The part of IInv about the tree.                                        *)
Keeps(t, c, K, d, o) ==
  /\ Whole(t, c, K) /\ d \in BOOLEAN /\ o \in BOOLEAN
  /\ ~ d /\ ~ o => Searchable(t, c)

(* The list of leaves of a whole tree is the one Chain finds.              *)
ChainIsList == \A c, K : Whole(tree, c, K) => Chain = c

(* There is only one such list.                                            *)
LEMMA ChainOf == ChainIsList
<1> SUFFICES ASSUME NEW c, NEW K, Whole(tree, c, K) PROVE Chain = c
  BY DEF ChainIsList
<1>1. Len(c) \in Nat \ {0} /\ c \in Seq(1..Len(c)) /\ Leaves = 1..Len(c)
  <2>1. Len(c) \in Nat /\ Len(c) >= 1 /\ c \in Seq(1..Len(c)) /\ DOMAIN tree.leaf = 1..Len(c)
    BY WholeFacts
  <2>2. \A m \in Nat : m >= 1 => m # 0
    OBVIOUS
  <2> QED BY <2>1, <2>2 DEF Leaves
<1>2. InOrder(tree.leaf, c)
  BY DEF Whole
<1> QED BY <1>1, <1>2, ChainIs

(* So it is after a step.                                                  *)
LEMMA ChainOfNext ==
  ASSUME NEW c, Keeps(tree', c, keys', disordered', overflowed')
  PROVE  Keeps(tree', Chain', keys', disordered', overflowed')
<1>1. ChainIsList'
  BY ChainOf, PTL
<1>2. Chain' = c
  BY <1>1 DEF Keeps, ChainIsList
<1> QED BY <1>2

(* The parts of the invariant.                                             *)
Parts ==
  /\ Keeps(tree, Chain, keys, disordered, overflowed)
  /\ ScanStands
  /\ (~ disordered /\ ~ overflowed /\ scan.state = "on" => Returned)
  /\ ScanCoversRange

(* They are the invariant.                                                 *)
LEMMA InvParts == IInv <=> Parts
BY DEF IInv, Keeps, Parts

(* So they are after a step.                                               *)
LEMMA InvPartsNext == ASSUME Parts' PROVE IInv'
<1>1. (IInv <=> Parts)'
  BY InvParts, PTL
<1> QED BY <1>1

(* insert: the leaf had space.                                             *)
LEMMA InsertKeeps ==
  ASSUME Keeps(tree, Chain, keys, disordered, overflowed), NEW key \in Keys, insert(key)
  PROVE  \E c : Keeps(tree', c, keys', disordered', overflowed')
<1> DEFINE p == Descend(tree, key)
           slots == tree.leaf[p].slots
           c == Chain
<1>1. /\ key \notin keys /\ HasSpace(slots) /\ tree' = PutInLeaf(tree, p, key)
      /\ disordered' = (disordered \/ Misplaces(slots, key))
      /\ keys' = keys \cup {key} /\ overflowed' = overflowed
  BY DEF insert
<1>2. Whole(tree, c, keys) /\ disordered \in BOOLEAN /\ overflowed \in BOOLEAN
  BY DEF Keeps
<1>3. p \in 1..Len(c)
  BY <1>2, DescentEnds
<1> HIDE DEF c
<1>4. Whole(tree', c, keys')
  <2>1. HasSpace(tree.leaf[p].slots)
    BY <1>1
  <2>2. Whole(PutInLeaf(tree, p, key), c, keys \cup {key})
    BY <1>1, <1>2, <1>3, <2>1, PutKeeps
  <2> QED BY <1>1, <2>2
<1>5. ASSUME ~ disordered', ~ overflowed' PROVE Searchable(tree', c)
  <2>1. ~ disordered /\ ~ overflowed /\ ~ Misplaces(slots, key)
    BY <1>1, <1>5
  <2>2. Searchable(tree, c)
    BY <2>1 DEF Keeps, c
  <2>3. Searchable(PutInLeaf(tree, Descend(tree, key), key), c)
    BY <1>1, <1>2, <2>1, <2>2, PutSearchable
  <2> QED BY <1>1, <2>3
<1>6. disordered' \in BOOLEAN /\ overflowed' \in BOOLEAN
  BY <1>1, <1>2
<1>7. Keeps(tree', c, keys', disordered', overflowed')
  BY <1>4, <1>5, <1>6 DEF Keeps
<1> QED BY <1>7

(* insert: the leaf was full and is split.                                 *)
LEMMA InsertSplitsKeeps ==
  ASSUME Keeps(tree, Chain, keys, disordered, overflowed), NEW key \in Keys, insertSplits(key)
  PROVE  \E c : Keeps(tree', c, keys', disordered', overflowed')
<1> DEFINE p == Descend(tree, key)
           c == Chain
           n == Len(c)
           split == Split(tree, p)
           q == Descend(split, key)
           halved == split.leaf[q].slots
<1>1. /\ key \notin keys /\ ~ HasSpace(tree.leaf[p].slots) /\ Cardinality(DOMAIN tree.leaf) < MaxLeaves
      /\ tree' = PutInLeaf(split, q, key)
      /\ overflowed' = (overflowed \/ Len(split.index) = Len(tree.index))
      /\ keys' = keys \cup {key} /\ disordered' = disordered
  BY DEF insertSplits
<1>2. Whole(tree, c, keys) /\ disordered \in BOOLEAN /\ overflowed \in BOOLEAN
  BY DEF Keeps
<1>3. p \in 1..n
  BY <1>2, DescentEnds
<1>4. n \in Nat /\ DOMAIN tree.leaf = 1..n /\ DOMAIN c = 1..n
  BY <1>2, WholeFacts
<1> HIDE DEF c
<1>5. n < MaxLeaves
  <2>1. Cardinality(1..n) = IF 1 > n THEN 0 ELSE n - 1 + 1
    BY <1>4, FS_Interval
  <2>2. Cardinality(1..n) = n
    BY <1>4, <2>1
  <2> QED BY <1>1, <1>4, <2>2
<1>6. PICK k \in 1..n : c[k] = p
  <2>1. ToSet(c) = 1..n
    BY <1>2, <1>4 DEF Whole, InOrder
  <2> QED BY <1>3, <1>4, <2>1 DEF ToSet
<1> DEFINE d == InsertAt(c, k + 1, n + 1)
<1>7. Whole(split, d, keys)
  <2>1. ~ HasSpace(tree.leaf[c[k]].slots)
    BY <1>1, <1>6
  <2>2. Whole(Split(tree, c[k]), InsertAt(c, k + 1, Len(c) + 1), keys)
    BY <1>2, <1>5, <1>6, <2>1, SplitKeeps
  <2> QED BY <1>6, <2>2
<1>8. q \in 1..n + 1 /\ HasSpace(halved) /\ ~ Misplaces(halved, key)
  BY <1>1, <1>2, <1>5, SplitDescends
<1>9. Len(d) = n + 1
  <2>1. List(n, c)
    BY <1>2, WholeFacts DEF List
  <2> HIDE DEF n
  <2> QED BY <1>4, <1>6, <2>1, LongerList
<1> HIDE DEF d, split, q
<1>10. Whole(tree', d, keys')
  <2>1. q \in 1..Len(d) /\ HasSpace(split.leaf[q].slots)
    BY <1>8, <1>9
  <2>2. Whole(PutInLeaf(split, q, key), d, keys \cup {key})
    BY <1>1, <1>7, <2>1, PutKeeps
  <2> QED BY <1>1, <2>2
<1>11. ASSUME ~ disordered', ~ overflowed' PROVE Searchable(tree', d)
  <2>1. ~ disordered /\ ~ overflowed /\ Len(split.index) # Len(tree.index)
    BY <1>1, <1>11
  <2>2. Searchable(tree, c)
    BY <2>1 DEF Keeps, c
  <2>3. Searchable(split, d)
    <3>1. ~ HasSpace(tree.leaf[c[k]].slots) /\ Len(Split(tree, c[k]).index) # Len(tree.index)
      BY <1>1, <1>6, <2>1 DEF split
    <3>2. Searchable(Split(tree, c[k]), InsertAt(c, k + 1, Len(c) + 1))
      BY <1>2, <1>6, <2>2, <3>1, SplitSearchable
    <3> QED BY <1>6, <3>2 DEF split, d
  <2>4. Searchable(PutInLeaf(split, Descend(split, key), key), d)
    BY <1>1, <1>7, <1>8, <2>3, PutSearchable DEF q
  <2> QED BY <1>1, <2>4 DEF q
<1>12. disordered' \in BOOLEAN /\ overflowed' \in BOOLEAN
  BY <1>1, <1>2
<1>13. Keeps(tree', d, keys', disordered', overflowed')
  BY <1>10, <1>11, <1>12 DEF Keeps
<1> QED BY <1>13

(* Delete.                                                                 *)
LEMMA DeleteStepKeeps ==
  ASSUME Keeps(tree, Chain, keys, disordered, overflowed), NEW key \in Keys, Delete(key)
  PROVE  \E c : Keeps(tree', c, keys', disordered', overflowed')
<1> DEFINE p == Descend(tree, key)
           slots == tree.leaf[p].slots
           equal == {j \in Live(slots) : slots[j] = key}
           i == First(equal)
           c == Chain
<1>1. /\ equal # {} /\ tree' = [tree EXCEPT !.leaf[p].slots = Without(slots, i)]
      /\ keys' = keys \ {key} /\ disordered' = disordered /\ overflowed' = overflowed
  BY DEF Delete
<1>2. Whole(tree, c, keys) /\ disordered \in BOOLEAN /\ overflowed \in BOOLEAN
  BY DEF Keeps
<1>3. p \in 1..Len(c)
  BY <1>2, DescentEnds
<1> HIDE DEF c
<1>4. i \in Live(slots) /\ slots[i] = key
  <2>1. slots \in Slots
    BY <1>2, <1>3, WholeFacts
  <2>2. Live(slots) \in SUBSET Nat
    BY <2>1, LiveSlots
  <2>3. equal \in SUBSET Nat
    BY <2>2
  <2>4. i \in equal
    BY <1>1, <2>3, FirstIs
  <2> QED BY <2>4
<1> HIDE DEF i
<1>5. tree' = Deleted(tree, p, i)
  BY <1>1 DEF Deleted
<1>6. /\ Whole(Deleted(tree, p, i), c, keys \ {tree.leaf[p].slots[i]})
      /\ Searchable(tree, c) => Searchable(Deleted(tree, p, i), c)
  BY <1>2, <1>3, <1>4, DeleteKeeps
<1>7. Whole(tree', c, keys')
  BY <1>1, <1>4, <1>5, <1>6
<1>8. ~ disordered' /\ ~ overflowed' => Searchable(tree', c)
  BY <1>1, <1>5, <1>6 DEF Keeps, c
<1>9. Keeps(tree', c, keys', disordered', overflowed')
  BY <1>1, <1>2, <1>7, <1>8 DEF Keeps
<1> QED BY <1>9

(* No scan is open while the tree changes.                                 *)
LEMMA QuietKeeps ==
  ASSUME ScanStands, Quiet
  PROVE  /\ ScanStands' /\ ScanCoversRange'
         /\ (~ disordered' /\ ~ overflowed' /\ scan'.state = "on" => Returned')
<1>1. scan.state = "closed" /\ scan' = scan /\ seen' = seen
  BY DEF Quiet
<1>2. ScanStands'
  BY <1>1 DEF ScanStands
<1>3. ScanCoversRange'
  BY <1>1 DEF ScanCoversRange
<1> QED BY <1>1, <1>2, <1>3

(* What a scan leaves unchanged.                                           *)
Still == UNCHANGED << tree, keys, disordered, overflowed >>

(* The tree stays as it is while a scan moves.                             *)
LEMMA StillKeeps ==
  ASSUME Keeps(tree, Chain, keys, disordered, overflowed), Still
  PROVE  Keeps(tree', Chain', keys', disordered', overflowed')
<1>1. Keeps(tree', Chain, keys', disordered', overflowed')
  BY DEF Still
<1> QED BY <1>1, ChainOfNext

(* A scan that is done has what ScanCoversRange asks for.                  *)
LEMMA DoneKeeps ==
  ASSUME IInv, Still, Done, scan.state # "closed",
         ~ disordered /\ ~ overflowed /\ (seen # {} \/ scan.lo = NULL) =>
            /\ InRange \subseteq seen
            /\ Cardinality(seen \ InRange) <= 1
            /\ \A key \in seen : scan.lo <= key
  PROVE  IInv'
<1>1. /\ Keeps(tree, Chain, keys, disordered, overflowed)
      /\ ScanStands
  BY InvParts DEF Parts
<1>2. /\ scan' = [scan EXCEPT !.state = "done"] /\ seen' = seen
      /\ tree' = tree /\ keys' = keys /\ disordered' = disordered /\ overflowed' = overflowed
  BY DEF Done, Still
<1>3. scan = [state |-> scan.state, lo |-> scan.lo, hi |-> scan.hi, leaf |-> scan.leaf,
              slot |-> scan.slot, key |-> scan.key]
  BY <1>1 DEF ScanStands
<1>4. scan' = [state |-> "done", lo |-> scan.lo, hi |-> scan.hi, leaf |-> scan.leaf,
               slot |-> scan.slot, key |-> scan.key]
  BY <1>2, <1>3
<1>5. scan'.state = "done" /\ scan'.lo = scan.lo /\ scan'.hi = scan.hi
  BY <1>4
<1>6. ScanStands'
  <2>1. /\ scan.lo \in Bounds \cup {NULL} /\ scan.hi \in Bounds \cup {NULL}
        /\ scan.leaf \in 1..MaxLeaves \cup {INVALID_PAGE} /\ scan.slot \in Nat /\ scan.key \in Nat
        /\ seen \subseteq Keys /\ tree_level(tree) = 2
    BY <1>1 DEF ScanStands
  <2> QED BY <1>2, <1>4, <1>5, <2>1 DEF ScanStands
<1>7. InRange' = InRange
  BY <1>2, <1>5 DEF InRange
<1>8. ScanCoversRange'
  <2>1. SUFFICES ASSUME ~ disordered, ~ overflowed, seen # {} \/ scan.lo = NULL
                 PROVE  /\ InRange \subseteq seen /\ Cardinality(seen \ InRange) <= 1
                        /\ \A key \in seen : scan.lo <= key
    BY <1>2, <1>5, <1>7 DEF ScanCoversRange
  <2> QED BY <2>1
<1>9. Keeps(tree', Chain', keys', disordered', overflowed')
  BY <1>1, StillKeeps
<1> QED BY <1>5, <1>6, <1>8, <1>9, InvPartsNext DEF Parts

(* A scan that returns a key has returned all from its lower bound to it.  *)
LEMMA ReturnKeeps ==
  ASSUME IInv, Still, scan.state # "closed", NEW p \in Leaves, NEW i \in Live(tree.leaf[p].slots),
         NEW x, x = tree.leaf[p].slots[i], Return(p, i),
         ~ disordered /\ ~ overflowed =>
            /\ scan.lo <= x
            /\ seen \cup {x} = {key \in keys : scan.lo <= key /\ key <= x}
            /\ scan.hi # NULL => \A key \in seen : key # x => key <= scan.hi
  PROVE  IInv'
<1>1. /\ Keeps(tree, Chain, keys, disordered, overflowed)
      /\ ScanStands
  BY InvParts DEF Parts
<1>2. /\ scan' = [scan EXCEPT !.state = "on", !.leaf = p, !.slot = i, !.key = x]
      /\ seen' = seen \cup {x}
      /\ tree' = tree /\ keys' = keys /\ disordered' = disordered /\ overflowed' = overflowed
  BY DEF Return, Still
<1>3. scan = [state |-> scan.state, lo |-> scan.lo, hi |-> scan.hi, leaf |-> scan.leaf,
              slot |-> scan.slot, key |-> scan.key]
  BY <1>1 DEF ScanStands
<1>4. scan' = [state |-> "on", lo |-> scan.lo, hi |-> scan.hi, leaf |-> p, slot |-> i, key |-> x]
  BY <1>2, <1>3
<1>5. /\ scan'.state = "on" /\ scan'.lo = scan.lo /\ scan'.hi = scan.hi
      /\ scan'.leaf = p /\ scan'.slot = i /\ scan'.key = x
  BY <1>4
<1>6. x \in Keys /\ x \in Nat /\ i \in Nat /\ p \in 1..MaxLeaves
  <2>1. Whole(tree, Chain, keys)
    BY <1>1 DEF Keeps
  <2>2. Leaves = 1..Len(Chain) /\ Len(Chain) \in Nat /\ Len(Chain) <= MaxLeaves /\ MaxLeaves \in Nat
    BY <2>1, WholeFacts DEF Leaves
  <2>3. x \in Keys /\ x \in Nat /\ i \in Nat
    BY <2>1, <2>2, Located
  <2>4. p \in 1..MaxLeaves
    BY <2>2
  <2> QED BY <2>3, <2>4
<1>7. ScanStands'
  <2>1. /\ scan.lo \in Bounds \cup {NULL} /\ scan.hi \in Bounds \cup {NULL}
        /\ seen \subseteq Keys /\ tree_level(tree) = 2
    BY <1>1 DEF ScanStands
  <2>2. scan' \in [state : {"closed", "new", "on", "done", "hung"}, lo : Bounds \cup {NULL},
                   hi : Bounds \cup {NULL}, leaf : 1..MaxLeaves \cup {INVALID_PAGE}, slot : Nat, key : Nat]
    BY <1>4, <1>6, <2>1
  <2>3. seen' \subseteq Keys /\ tree_level(tree') = 2
    BY <1>2, <1>6, <2>1
  <2>4. Leaves' = Leaves
    BY <1>2 DEF Leaves
  <2> QED BY <1>2, <1>5, <2>2, <2>3, <2>4 DEF ScanStands
<1>8. ASSUME ~ disordered, ~ overflowed PROVE Returned'
  <2>1. scan'.lo <= scan'.key
    BY <1>5, <1>8
  <2>2. seen' = {key \in keys' : scan'.lo <= key /\ key <= scan'.key}
    BY <1>2, <1>5, <1>8
  <2>3. ASSUME scan'.hi # NULL, NEW key \in seen', key # scan'.key PROVE key <= scan'.hi
    BY <1>2, <1>5, <1>8, <2>3
  <2> QED BY <2>1, <2>2, <2>3 DEF Returned
<1>9. ScanCoversRange'
  BY <1>5 DEF ScanCoversRange
<1>10. Keeps(tree', Chain', keys', disordered', overflowed')
  BY <1>1, StillKeeps
<1> QED BY <1>2, <1>5, <1>7, <1>8, <1>9, <1>10, InvPartsNext DEF Parts

(* A tree with a scan has an index, and the leaf the scan is in its place. *)
LEMMA ScanTree ==
  ASSUME IInv, tree_level(tree) = 2
  PROVE  /\ Whole(tree, Chain, keys) /\ Len(Chain) # 1
         /\ Leaves = 1..Len(Chain) /\ keys \subseteq Nat
         /\ \A p \in Leaves : \E k \in 1..Len(Chain) : Chain[k] = p
         /\ \A p \in Leaves : /\ Live(tree.leaf[p].slots) \in SUBSET Nat
                              /\ tree.leaf[p].next \in Leaves \cup {INVALID_PAGE}
         /\ ~ disordered /\ ~ overflowed => Searchable(tree, Chain)
<1>1. Whole(tree, Chain, keys) /\ (~ disordered /\ ~ overflowed => Searchable(tree, Chain))
  BY DEF IInv
<1>2. Leaves = 1..Len(Chain) /\ (Len(Chain) = 1 => tree.index = << >>)
  BY <1>1, WholeFacts DEF Leaves
<1>3. Len(Chain) # 1
  BY <1>2 DEF tree_level
<1>4. ASSUME NEW p \in Leaves
      PROVE  /\ Live(tree.leaf[p].slots) \in SUBSET Nat
             /\ tree.leaf[p].next \in Leaves \cup {INVALID_PAGE}
  <2>1. tree.leaf[p].slots \in Slots /\ tree.leaf[p].next \in Leaves \cup {INVALID_PAGE}
    BY <1>1, <1>2, WholeFacts
  <2> QED BY <2>1, LiveSlots
<1>5. keys \subseteq Nat
  <2>1. ASSUME NEW y \in keys PROVE y \in Nat
    <3>1. PICK k \in 1..Len(Chain) :
             \E i \in Live(tree.leaf[Chain[k]].slots) : tree.leaf[Chain[k]].slots[i] = y
      BY <1>1, Located
    <3>2. Chain[k] \in 1..Len(Chain)
      BY <1>1, Located
    <3> QED BY <1>1, <3>1, <3>2, Located
  <2> QED BY <2>1
<1>6. \A p \in Leaves : \E k \in 1..Len(Chain) : Chain[k] = p
  <2>1. DOMAIN Chain = 1..Len(Chain) /\ DOMAIN tree.leaf = 1..Len(Chain)
    BY <1>1, WholeFacts
  <2>2. ToSet(Chain) = 1..Len(Chain)
    BY <1>1, <2>1 DEF Whole, InOrder
  <2> QED BY <1>2, <2>1, <2>2 DEF ToSet
<1> QED BY <1>1, <1>2, <1>3, <1>4, <1>5, <1>6

(* The seen keys of a range, when they are those up to the one the scan    *)
(* stands on and the range has none behind it.                             *)
LEMMA RangeSeen ==
  ASSUME Returned, scan.key \in Nat, scan.lo \in Nat, scan.hi \in Nat, keys \subseteq Nat,
         \A y \in keys : y > scan.key => scan.hi # NULL /\ scan.hi < y
  PROVE  /\ InRange \subseteq seen
         /\ Cardinality(seen \ InRange) <= 1
         /\ \A key \in seen : scan.lo <= key
<1>1. /\ scan.lo <= scan.key
      /\ seen = {key \in keys : scan.lo <= key /\ key <= scan.key}
      /\ scan.hi # NULL => \A key \in seen : key # scan.key => key <= scan.hi
  BY DEF Returned
<1>2. ASSUME NEW y \in InRange PROVE y \in seen
  <2>1. y \in keys /\ scan.lo <= y /\ (scan.hi = NULL \/ y <= scan.hi) /\ y \in Nat
    BY DEF InRange
  <2>2. ~ (y > scan.key)
    BY <2>1
  <2> QED BY <1>1, <2>1, <2>2
<1>3. seen \ InRange \subseteq {scan.key}
  BY <1>1 DEF InRange
<1>4. Cardinality(seen \ InRange) <= 1
  <2>1. IsFiniteSet({scan.key}) /\ Cardinality({scan.key}) = 1
    BY FS_Singleton
  <2>2. Cardinality(seen \ InRange) <= Cardinality({scan.key})
    BY <1>3, <2>1, FS_Subset
  <2> QED BY <2>1, <2>2
<1> QED BY <1>1, <1>2, <1>4

(* A new scan has returned nothing.                                        *)
LEMMA NewScanKeeps ==
  ASSUME IInv, NEW lo \in Bounds \cup {NULL}, NEW hi \in Bounds \cup {NULL}, new_scan(lo, hi)
  PROVE  IInv'
<1>1. /\ tree_level(tree) = 2 /\ seen' = {} /\ Still
      /\ scan' = [state |-> "new", lo |-> lo, hi |-> hi, leaf |-> get_page_no(tree.index, lo),
                  slot |-> 0, key |-> 0]
  BY DEF new_scan, Still, Closed
<1>2. /\ Whole(tree, Chain, keys) /\ Len(Chain) # 1 /\ Leaves = 1..Len(Chain)
  BY <1>1, ScanTree
<1>3. get_page_no(tree.index, lo) \in Leaves
  BY <1>2, BoundLeaf
<1>4. Leaves \subseteq 1..MaxLeaves
  <2>1. Len(Chain) \in Nat /\ Len(Chain) <= MaxLeaves /\ MaxLeaves \in Nat
    BY <1>2, WholeFacts
  <2> QED BY <1>2, <2>1
<1>5. /\ scan'.state = "new" /\ scan'.leaf = get_page_no(tree.index, scan'.lo)
      /\ scan' \in [state : {"closed", "new", "on", "done", "hung"}, lo : Bounds \cup {NULL},
                    hi : Bounds \cup {NULL}, leaf : 1..MaxLeaves \cup {INVALID_PAGE}, slot : Nat, key : Nat]
  BY <1>1, <1>3, <1>4
<1>6. ScanStands'
  <2>1. /\ tree' = tree /\ Leaves' = Leaves
    BY <1>1 DEF Still, Leaves
  <2> QED BY <1>1, <1>3, <1>5, <2>1 DEF ScanStands
<1>7. ScanCoversRange'
  BY <1>5 DEF ScanCoversRange
<1>8. Keeps(tree', Chain', keys', disordered', overflowed')
  BY <1>1, InvParts, StillKeeps DEF Parts
<1> QED BY <1>5, <1>6, <1>7, <1>8, InvPartsNext DEF Parts

(* A scan that is deleted, or goes on for ever, has nothing to cover.      *)
LEMMA CloseScanKeeps ==
  ASSUME IInv, close_scan
  PROVE  IInv'
<1>1. /\ seen' = {} /\ Still
      /\ scan' = [state |-> "closed", lo |-> NULL, hi |-> NULL, leaf |-> INVALID_PAGE, slot |-> 0, key |-> 0]
  BY DEF close_scan, Still, Closed
<1>2. /\ scan'.state = "closed"
      /\ scan' \in [state : {"closed", "new", "on", "done", "hung"}, lo : Bounds \cup {NULL},
                    hi : Bounds \cup {NULL}, leaf : 1..MaxLeaves \cup {INVALID_PAGE}, slot : Nat, key : Nat]
  BY <1>1
<1>3. ScanStands'
  BY <1>1, <1>2 DEF ScanStands
<1>4. ScanCoversRange'
  BY <1>2 DEF ScanCoversRange
<1>5. Keeps(tree', Chain', keys', disordered', overflowed')
  BY <1>1, InvParts, StillKeeps DEF Parts
<1> QED BY <1>2, <1>3, <1>4, <1>5, InvPartsNext DEF Parts

(* So has one that compares the last key of its leaf with itself.          *)
LEMMA HungKeeps ==
  ASSUME IInv, Still, scan.state # "closed", scan' = [scan EXCEPT !.state = "hung"], seen' = seen
  PROVE  IInv'
<1>1. /\ Keeps(tree, Chain, keys, disordered, overflowed)
      /\ ScanStands
  BY InvParts DEF Parts
<1>2. scan = [state |-> scan.state, lo |-> scan.lo, hi |-> scan.hi, leaf |-> scan.leaf,
              slot |-> scan.slot, key |-> scan.key]
  BY <1>1 DEF ScanStands
<1>3. scan' = [state |-> "hung", lo |-> scan.lo, hi |-> scan.hi, leaf |-> scan.leaf,
               slot |-> scan.slot, key |-> scan.key]
  BY <1>2
<1>4. ScanStands'
  <2>1. /\ scan.lo \in Bounds \cup {NULL} /\ scan.hi \in Bounds \cup {NULL}
        /\ scan.leaf \in 1..MaxLeaves \cup {INVALID_PAGE} /\ scan.slot \in Nat /\ scan.key \in Nat
        /\ seen \subseteq Keys /\ tree_level(tree) = 2
    BY <1>1 DEF ScanStands
  <2>2. tree' = tree
    BY DEF Still
  <2> QED BY <1>3, <2>1, <2>2 DEF ScanStands
<1>5. ScanCoversRange'
  BY <1>3 DEF ScanCoversRange
<1>6. Keeps(tree', Chain', keys', disordered', overflowed')
  BY <1>1, StillKeeps
<1> QED BY <1>3, <1>4, <1>5, <1>6, InvPartsNext DEF Parts

(* The next key in order is returned after the one the scan stands on.     *)
LEMMA NextReturned ==
  ASSUME Returned, scan.key \in Nat, scan.lo \in Nat, scan.hi \in Nat, keys \subseteq Nat,
         NEW x \in keys, scan.key < x, ~ Past(scan.key), \A y \in keys : y > scan.key => x <= y
  PROVE  /\ scan.lo <= x
         /\ seen \cup {x} = {key \in keys : scan.lo <= key /\ key <= x}
         /\ scan.hi # NULL => \A key \in seen : key # x => key <= scan.hi
<1>1. /\ scan.lo <= scan.key
      /\ seen = {key \in keys : scan.lo <= key /\ key <= scan.key}
      /\ scan.hi # NULL => \A key \in seen : key # scan.key => key <= scan.hi
  BY DEF Returned
<1>2. x \in Nat /\ scan.lo <= x
  BY <1>1
<1>3. ASSUME NEW y PROVE y \in seen \cup {x} <=> y \in keys /\ scan.lo <= y /\ y <= x
  <2>1. CASE y \in keys
    <3>1. y \in Nat
      BY <2>1
    <3>2. y <= scan.key \/ y > scan.key
      BY <3>1
    <3> QED BY <1>1, <1>2, <2>1, <3>1, <3>2
  <2>2. CASE y \notin keys
    BY <1>1, <2>2
  <2> QED BY <2>1, <2>2
<1>4. seen \cup {x} = {key \in keys : scan.lo <= key /\ key <= x}
  BY <1>3
<1>5. ASSUME scan.hi # NULL, NEW key \in seen PROVE key <= scan.hi
  <2>1. scan.key <= scan.hi
    BY <1>5 DEF Past
  <2> QED BY <1>1, <1>5, <2>1
<1> QED BY <1>2, <1>4, <1>5

(* get_next: the key it returns is the successor of the last one.          *)
LEMMA GetNextKeeps ==
  ASSUME IInv, get_next
  PROVE  IInv'
<1> DEFINE c == Chain
           p == scan.leaf
           slots == tree.leaf[p].slots
           later == {i \in Live(slots) : i > scan.slot}
           next == tree.leaf[p].next
<1>1. /\ scan.state = "on" /\ Still
      /\ CASE later # {} ->
                 IF Past(slots[First(later)]) THEN Done ELSE Return(p, First(later))
           [] later = {} /\ (Past(scan.key) \/ next = INVALID_PAGE) -> Done
           [] later = {} /\ ~ Past(scan.key) /\ next # INVALID_PAGE ->
                 Live(tree.leaf[next].slots) # {} /\ Return(next, First(Live(tree.leaf[next].slots)))
  BY DEF get_next, Still
<1>2. /\ ScanStands /\ (~ disordered /\ ~ overflowed => Returned)
  BY <1>1, InvParts DEF Parts
<1>3. /\ tree_level(tree) = 2 /\ p \in Leaves /\ scan.slot \in Live(slots)
      /\ scan.key = slots[scan.slot] /\ scan.key \in Nat /\ scan.slot \in Nat
      /\ scan.lo \in Nat /\ scan.hi \in Nat
  <2>1. /\ tree_level(tree) = 2 /\ p \in Leaves /\ scan.slot \in Live(slots)
        /\ scan.key = slots[scan.slot] /\ scan.key \in Nat /\ scan.slot \in Nat
        /\ scan.lo \in Bounds \cup {NULL} /\ scan.hi \in Bounds \cup {NULL}
    BY <1>1, <1>2 DEF ScanStands
  <2>2. \A b \in Bounds \cup {NULL} : b \in Nat
    BY TreeAssumption DEF NULL
  <2> QED BY <2>1, <2>2
<1>4. /\ Whole(tree, c, keys) /\ Len(c) # 1
      /\ Leaves = 1..Len(c) /\ keys \subseteq Nat
      /\ \A r \in Leaves : \E k \in 1..Len(c) : c[k] = r
      /\ \A r \in Leaves : /\ Live(tree.leaf[r].slots) \in SUBSET Nat
                           /\ tree.leaf[r].next \in Leaves \cup {INVALID_PAGE}
      /\ ~ disordered /\ ~ overflowed => Searchable(tree, c)
  BY <1>3, ScanTree
<1>5. scan.state # "closed"
  BY <1>1
<1> HIDE DEF c
<1>6. PICK k \in 1..Len(c) : c[k] = p
  BY <1>3, <1>4
<1>7. ASSUME ~ disordered, ~ overflowed
      PROVE  /\ Returned /\ Searchable(tree, c)
             /\ \A y \in keys : y > scan.key =>
                  /\ later # {} => slots[First(later)] <= y
                  /\ later = {} => /\ next # INVALID_PAGE
                                   /\ Live(tree.leaf[next].slots) # {} =>
                                         tree.leaf[next].slots[First(Live(tree.leaf[next].slots))] <= y
  <2>1. Returned /\ Searchable(tree, c)
    BY <1>2, <1>4, <1>7
  <2>2. ASSUME NEW y \in keys, y > scan.key
        PROVE  /\ later # {} => slots[First(later)] <= y
               /\ later = {} => /\ next # INVALID_PAGE
                                /\ Live(tree.leaf[next].slots) # {} =>
                                      tree.leaf[next].slots[First(Live(tree.leaf[next].slots))] <= y
    <3> DEFINE s == scan.slot
    <3>1. s \in Live(tree.leaf[c[k]].slots) /\ y > tree.leaf[c[k]].slots[s]
      BY <1>3, <1>6, <2>2
    <3> HIDE DEF s
    <3>2. LET sl == tree.leaf[c[k]].slots
              la == {j \in Live(sl) : j > s}
              ne == tree.leaf[c[k]].next
          IN  /\ la # {} => sl[First(la)] <= y
              /\ la = {} => /\ ne # INVALID_PAGE /\ k < Len(c) /\ ne = c[k + 1]
                            /\ Live(tree.leaf[ne].slots) # {} =>
                                  tree.leaf[ne].slots[First(Live(tree.leaf[ne].slots))] <= y
      BY <1>4, <2>1, <3>1, Successor
    <3> QED BY <1>6, <3>2 DEF s
  <2> QED BY <2>1, <2>2
<1>8. CASE later # {}
  <2> DEFINE f == First(later)
             x == slots[f]
  <2>1. f \in Live(slots) /\ f > scan.slot /\ f \in Nat
    <3>1. later \in SUBSET Nat
      BY <1>3, <1>4
    <3>2. f \in later
      BY <1>8, <3>1, FirstIs
    <3> QED BY <1>3, <1>4, <3>2
  <2>2. x \in keys /\ x \in Nat
    <3>1. p \in 1..Len(c)
      BY <1>3, <1>4
    <3>2. \A i \in Live(tree.leaf[p].slots) : tree.leaf[p].slots[i] \in keys /\ tree.leaf[p].slots[i] \in Nat
      BY <1>4, <3>1, Located
    <3> QED BY <2>1, <3>2
  <2>3. ASSUME ~ disordered, ~ overflowed PROVE scan.key < x /\ \A y \in keys : y > scan.key => x <= y
    <3>1. Ascends(slots)
      BY <1>3, <1>7, <2>3 DEF Searchable, Leaves
    <3>2. scan.key < x
      BY <1>3, <2>1, <3>1 DEF Ascends
    <3> QED BY <1>7, <1>8, <2>3, <3>2
  <2> HIDE DEF f, x
  <2>4. CASE Past(x)
    <3>1. Done
      BY <1>1, <1>8, <2>4 DEF x, f
    <3>2. ASSUME ~ disordered, ~ overflowed
          PROVE  /\ InRange \subseteq seen
                 /\ Cardinality(seen \ InRange) <= 1
                 /\ \A key \in seen : scan.lo <= key
      <4>1. \A y \in keys : y > scan.key => scan.hi # NULL /\ scan.hi < y
        <5>1. SUFFICES ASSUME NEW y \in keys, y > scan.key PROVE scan.hi # NULL /\ scan.hi < y
          OBVIOUS
        <5>2. x <= y /\ y \in Nat
          BY <1>4, <2>3, <3>2, <5>1
        <5> QED BY <1>3, <2>2, <2>4, <5>2 DEF Past
      <4> QED BY <1>3, <1>4, <1>7, <3>2, <4>1, RangeSeen
    <3> QED BY <1>1, <1>5, <3>1, <3>2, DoneKeeps
  <2>5. CASE ~ Past(x)
    <3>1. Return(p, f)
      BY <1>1, <1>8, <2>5 DEF x, f
    <3>2. ASSUME ~ disordered, ~ overflowed
          PROVE  /\ scan.lo <= x
                 /\ seen \cup {x} = {key \in keys : scan.lo <= key /\ key <= x}
                 /\ scan.hi # NULL => \A key \in seen : key # x => key <= scan.hi
      <4>1. ~ Past(scan.key)
        BY <1>3, <2>2, <2>3, <2>5, <3>2 DEF Past
      <4> QED BY <1>3, <1>4, <1>7, <2>2, <2>3, <3>2, <4>1, NextReturned
    <3>3. x = tree.leaf[p].slots[f] /\ f \in Live(tree.leaf[p].slots)
      BY <2>1 DEF x
    <3> QED BY <1>1, <1>3, <1>5, <3>1, <3>2, <3>3, ReturnKeeps
  <2> QED BY <2>4, <2>5
<1>9. CASE later = {} /\ (Past(scan.key) \/ next = INVALID_PAGE)
  <2>1. Done
    BY <1>1, <1>9
  <2>2. ASSUME ~ disordered, ~ overflowed
        PROVE  /\ InRange \subseteq seen
               /\ Cardinality(seen \ InRange) <= 1
               /\ \A key \in seen : scan.lo <= key
    <3>1. \A y \in keys : y > scan.key => scan.hi # NULL /\ scan.hi < y
      <4>1. SUFFICES ASSUME NEW y \in keys, y > scan.key PROVE scan.hi # NULL /\ scan.hi < y
        OBVIOUS
      <4>2. next # INVALID_PAGE
        BY <1>7, <1>9, <2>2, <4>1
      <4>3. Past(scan.key) /\ y \in Nat
        BY <1>4, <1>9, <4>2
      <4> QED BY <1>3, <4>1, <4>3 DEF Past
    <3> QED BY <1>3, <1>4, <1>7, <2>2, <3>1, RangeSeen
  <2> QED BY <1>1, <1>5, <2>1, <2>2, DoneKeeps
<1>10. CASE later = {} /\ ~ Past(scan.key) /\ next # INVALID_PAGE
  <2> DEFINE f == First(Live(tree.leaf[next].slots))
             x == tree.leaf[next].slots[f]
  <2>1. Live(tree.leaf[next].slots) # {} /\ Return(next, f)
    BY <1>1, <1>10
  <2>2. next \in Leaves
    BY <1>3, <1>4, <1>10
  <2>3. f \in Live(tree.leaf[next].slots)
    <3>1. Live(tree.leaf[next].slots) \in SUBSET Nat
      BY <1>4, <2>2
    <3> QED BY <2>1, <3>1, FirstIs
  <2>4. x \in keys /\ x \in Nat
    <3>1. next \in 1..Len(c) /\ Whole(tree, c, keys)
      BY <1>4, <2>2
    <3> HIDE DEF next, f, later
    <3>2. \A i \in Live(tree.leaf[next].slots) :
             tree.leaf[next].slots[i] \in keys /\ tree.leaf[next].slots[i] \in Nat
      BY <3>1, Located
    <3> QED BY <2>3, <3>2
  <2> HIDE DEF f
  <2>5. ASSUME ~ disordered, ~ overflowed PROVE scan.key < x /\ \A y \in keys : y > scan.key => x <= y
    <3>1. Len(c) \in Nat /\ tree.leaf[c[Len(c)]].next = INVALID_PAGE
          /\ \A i \in 1..Len(c) - 1 : tree.leaf[c[i]].next = c[i + 1]
      BY <1>4, WholeFacts DEF Whole, InOrder
    <3>2. k # Len(c)
      BY <1>6, <1>10, <3>1
    <3>3. k \in 1..Len(c) - 1 /\ k + 1 \in 1..Len(c) /\ k < k + 1
      BY <3>1, <3>2
    <3>4. next = c[k + 1]
      BY <1>6, <3>1, <3>3
    <3>5. scan.key < x
      <4> DEFINE j == k + 1
                 s == scan.slot
      <4>1. j \in 1..Len(c) /\ k < j /\ f \in Live(tree.leaf[c[j]].slots)
            /\ s \in Live(tree.leaf[c[k]].slots)
        BY <1>3, <1>6, <2>3, <3>3, <3>4
      <4> HIDE DEF j, s
      <4>2. tree.leaf[c[k]].slots[s] < tree.leaf[c[j]].slots[f]
        BY <1>4, <1>7, <2>5, <4>1, LeavesFollow
      <4> QED BY <1>3, <1>6, <3>4, <4>2 DEF j, s
    <3>6. \A y \in keys : y > scan.key => x <= y
      BY <1>7, <1>10, <2>1, <2>5 DEF f
    <3> QED BY <3>5, <3>6
  <2> HIDE DEF x
  <2>6. ASSUME ~ disordered, ~ overflowed
        PROVE  /\ scan.lo <= x
               /\ seen \cup {x} = {key \in keys : scan.lo <= key /\ key <= x}
               /\ scan.hi # NULL => \A key \in seen : key # x => key <= scan.hi
    BY <1>3, <1>4, <1>7, <1>10, <2>4, <2>5, <2>6, NextReturned
  <2>7. x = tree.leaf[next].slots[f]
    BY DEF x
  <2> QED BY <1>1, <1>5, <2>1, <2>2, <2>3, <2>6, <2>7, ReturnKeeps
<1> QED BY <1>8, <1>9, <1>10

(* The first get_next: in a tree that can be searched, the leaf it looks   *)
(* in has the first key of the range unless all its keys are too small.    *)
LEMMA GetFirstKeeps ==
  ASSUME IInv, get_first
  PROVE  IInv'
<1> DEFINE c == Chain
           p == scan.leaf
           slots == tree.leaf[p].slots
           from == {i \in Live(slots) : scan.lo = NULL \/ scan.lo <= slots[i]}
           f == First(from)
           x == slots[f]
<1>1. /\ scan.state = "new" /\ Still /\ Live(slots) # {}
      /\ CASE from = {} -> Done
           [] from # {} /\ scan.lo # NULL /\ ~ \E j \in Live(slots) : j > f ->
                  scan' = [scan EXCEPT !.state = "hung"] /\ UNCHANGED seen
           [] from # {} /\ (scan.lo = NULL \/ \E j \in Live(slots) : j > f) ->
                  IF Past(x) THEN Done ELSE Return(p, f)
  BY DEF get_first, Still
<1>2. ScanStands
  BY InvParts DEF Parts
<1>3. /\ tree_level(tree) = 2 /\ p \in Leaves /\ p = get_page_no(tree.index, scan.lo) /\ seen = {}
      /\ scan.lo \in Bounds \cup {NULL} /\ scan.lo \in Nat /\ scan.hi \in Nat
  <2>1. /\ tree_level(tree) = 2 /\ p \in Leaves /\ p = get_page_no(tree.index, scan.lo) /\ seen = {}
        /\ scan.lo \in Bounds \cup {NULL} /\ scan.hi \in Bounds \cup {NULL}
    BY <1>1, <1>2 DEF ScanStands
  <2>2. \A b \in Bounds \cup {NULL} : b \in Nat
    BY TreeAssumption DEF NULL
  <2> QED BY <2>1, <2>2
<1>4. /\ Whole(tree, c, keys) /\ Len(c) # 1
      /\ Leaves = 1..Len(c) /\ keys \subseteq Nat
      /\ \A r \in Leaves : /\ Live(tree.leaf[r].slots) \in SUBSET Nat
                           /\ tree.leaf[r].next \in Leaves \cup {INVALID_PAGE}
      /\ ~ disordered /\ ~ overflowed => Searchable(tree, c)
  BY <1>3, ScanTree
<1>5. scan.state # "closed"
  BY <1>1
<1> HIDE DEF c
<1>6. \A i \in Live(slots) : slots[i] \in keys /\ slots[i] \in Nat /\ i \in Nat
  <2>1. p \in 1..Len(c)
    BY <1>3, <1>4
  <2> QED BY <1>4, <2>1, Located
<1>7. from # {} => f \in from /\ (\A i \in from : f <= i) /\ x \in keys /\ x \in Nat
                   /\ f \in Live(slots) /\ f \in Nat /\ scan.lo <= x
  <2>1. SUFFICES ASSUME from # {}
                 PROVE  /\ f \in from /\ (\A i \in from : f <= i) /\ x \in keys /\ x \in Nat
                        /\ f \in Live(slots) /\ f \in Nat /\ scan.lo <= x
    OBVIOUS
  <2>2. from \in SUBSET Nat
    BY <1>6
  <2>3. f \in from /\ \A i \in from : f <= i
    BY <2>1, <2>2, FirstIs
  <2>4. f \in Live(slots) /\ (scan.lo = NULL \/ scan.lo <= x)
    BY <2>3
  <2> HIDE DEF f, from
  <2>5. x \in keys /\ x \in Nat /\ f \in Nat
    BY <1>6, <2>4
  <2>6. scan.lo <= x
    BY <1>3, <2>4, <2>5 DEF NULL
  <2> QED BY <2>3, <2>4, <2>5, <2>6
<1>8. ASSUME ~ disordered, ~ overflowed, from # {}, NEW y \in keys, scan.lo <= y PROVE x <= y
  <2>1. Searchable(tree, c)
    BY <1>4, <1>8
  <2>2. PICK k \in 1..Len(c) :
           /\ p = c[k]
           /\ \A j \in 1..Len(c) : j < k =>
                 \A i \in Live(tree.leaf[c[j]].slots) : tree.leaf[c[j]].slots[i] < scan.lo
    BY <1>3, <1>4, <2>1, BoundLeaf
  <2>3. PICK l \in 1..Len(c) : \E z \in Live(tree.leaf[c[l]].slots) : tree.leaf[c[l]].slots[z] = y
    <3>1. /\ Whole(tree, c, keys) /\ y \in keys
      BY <1>4
    <3>2. IsIn(tree, c, y)
      BY <3>1, KeyIsIn
    <3> QED BY <3>2 DEF IsIn
  <2>4. PICK z \in Live(tree.leaf[c[l]].slots) : tree.leaf[c[l]].slots[z] = y
    BY <2>3
  <2>5. y \in Nat /\ Len(c) \in Nat
    BY <1>4, WholeFacts
  <2>6. ~ (l < k)
    <3>1. SUFFICES ASSUME l < k PROVE FALSE
      OBVIOUS
    <3>2. tree.leaf[c[l]].slots[z] < scan.lo
      BY <2>2, <3>1
    <3> QED BY <1>3, <1>8, <2>4, <2>5, <3>2
  <2> HIDE DEF f
  <2>7. CASE l = k
    <3>1. z \in from /\ slots[z] = y
      BY <1>8, <2>2, <2>4, <2>7
    <3> HIDE DEF from
    <3>2. f <= z /\ f \in Live(slots) /\ z \in Live(slots) /\ z \in Nat /\ f \in Nat
      BY <1>6, <1>7, <1>8, <2>2, <2>4, <2>7, <3>1
    <3>3. Ascends(slots)
      BY <1>3, <2>1 DEF Searchable, Leaves
    <3>4. f = z \/ f < z
      BY <3>2
    <3>5. f < z => slots[f] < slots[z]
      BY <3>2, <3>3 DEF Ascends
    <3>6. slots[f] \in Nat
      BY <1>6, <3>2
    <3> QED BY <2>5, <3>1, <3>4, <3>5, <3>6
  <2>8. CASE l # k
    <3>1. k < l
      BY <2>5, <2>6, <2>8
    <3>2. f \in Live(tree.leaf[c[k]].slots)
      BY <1>7, <1>8, <2>2
    <3>3. tree.leaf[c[k]].slots[f] < tree.leaf[c[l]].slots[z]
      BY <1>4, <2>1, <3>1, <3>2, LeavesFollow
    <3>4. x < y
      BY <2>2, <2>4, <3>3
    <3>5. x \in Nat
      BY <1>7, <1>8
    <3> HIDE DEF x
    <3> QED BY <2>5, <3>4, <3>5
  <2> QED BY <2>7, <2>8
<1>9. CASE from = {}
  <2>1. Done
    BY <1>1, <1>9
  <2>2. ~ (scan.lo = NULL)
    BY <1>1, <1>9
  <2> QED BY <1>1, <1>3, <1>5, <2>1, <2>2, DoneKeeps
<1>10. CASE from # {} /\ scan.lo # NULL /\ ~ \E j \in Live(slots) : j > f
  <2>1. scan' = [scan EXCEPT !.state = "hung"] /\ seen' = seen
    BY <1>1, <1>10
  <2> QED BY <1>1, <1>5, <2>1, HungKeeps
<1>11. CASE from # {} /\ (scan.lo = NULL \/ \E j \in Live(slots) : j > f)
  <2>1. IF Past(x) THEN Done ELSE Return(p, f)
    BY <1>1, <1>11
  <2>2. x \in Nat /\ x \in keys /\ f \in Live(slots) /\ scan.lo <= x
    BY <1>7, <1>11
  <2>3. ASSUME ~ disordered, ~ overflowed, NEW y \in keys, scan.lo <= y PROVE x <= y /\ y \in Nat
    BY <1>4, <1>8, <1>11, <2>3
  <2>9. x = tree.leaf[p].slots[f]
    OBVIOUS
  <2> HIDE DEF x, f, from
  <2>4. CASE Past(x)
    <3>1. Done
      BY <2>1, <2>4
    <3>2. ASSUME ~ disordered, ~ overflowed
          PROVE  /\ InRange \subseteq seen
                 /\ Cardinality(seen \ InRange) <= 1
                 /\ \A key \in seen : scan.lo <= key
      <4>1. ASSUME NEW y \in InRange PROVE FALSE
        <5>1. y \in keys /\ scan.lo <= y /\ (scan.hi = NULL \/ y <= scan.hi)
          BY DEF InRange
        <5>2. x <= y /\ y \in Nat
          BY <2>3, <3>2, <5>1
        <5> QED BY <1>3, <2>2, <2>4, <5>1, <5>2 DEF Past
      <4>2. seen \ InRange = {} /\ seen = {}
        BY <1>3
      <4>3. Cardinality(seen \ InRange) = 0
        BY <4>2, FS_EmptySet
      <4> QED BY <4>1, <4>2, <4>3
    <3> QED BY <1>1, <1>5, <3>1, <3>2, DoneKeeps
  <2>5. CASE ~ Past(x)
    <3>1. Return(p, f)
      BY <2>1, <2>5
    <3>2. ASSUME ~ disordered, ~ overflowed
          PROVE  /\ scan.lo <= x
                 /\ seen \cup {x} = {key \in keys : scan.lo <= key /\ key <= x}
                 /\ scan.hi # NULL => \A key \in seen : key # x => key <= scan.hi
      <4>1. \A y : y \in {x} <=> y \in keys /\ scan.lo <= y /\ y <= x
        <5>1. SUFFICES ASSUME NEW y PROVE y \in {x} <=> y \in keys /\ scan.lo <= y /\ y <= x
          OBVIOUS
        <5>2. y = x => y \in keys /\ scan.lo <= y /\ y <= x
          BY <2>2
        <5>3. ASSUME y \in keys, scan.lo <= y, y <= x PROVE y = x
          <6>1. x <= y /\ y \in Nat
            BY <2>3, <3>2, <5>3
          <6> QED BY <2>2, <5>3, <6>1
        <5> QED BY <5>2, <5>3
      <4>2. seen = {}
        BY <1>3
      <4> QED BY <2>2, <4>1, <4>2
    <3>3. f \in Live(tree.leaf[p].slots)
      BY <2>2
    <3> QED BY <1>1, <1>3, <1>5, <2>9, <3>1, <3>2, <3>3, ReturnKeeps
  <2> QED BY <2>4, <2>5
<1> QED BY <1>9, <1>10, <1>11

(***************************************************************************)
(* The theorems.                                                           *)
(***************************************************************************)
(* A tree of one leaf without slots is whole and can be searched.          *)
LEMMA InitHolds == Init => IInv
<1> SUFFICES ASSUME Init PROVE IInv
  OBVIOUS
<1> DEFINE blank == [slots |-> << >>, next |-> INVALID_PAGE, prev |-> INVALID_PAGE]
           c == << FirstLeaf >>
<1>1. /\ tree = [leaf |-> [p \in {FirstLeaf} |-> blank], index |-> << >>]
      /\ scan = Closed /\ seen = {} /\ keys = {} /\ disordered = FALSE /\ overflowed = FALSE
  BY DEF Init
<1>2. Len(c) = 1 /\ c[1] = 1 /\ DOMAIN c = {1} /\ 1..1 = {1} /\ FirstLeaf = 1
  BY DEF FirstLeaf
<1>3. /\ DOMAIN tree.leaf = {1} /\ tree.leaf = [p \in {1} |-> tree.leaf[p]]
      /\ tree.leaf[1] = blank /\ tree.index = << >> /\ tree = [leaf |-> tree.leaf, index |-> tree.index]
  <2> HIDE DEF blank
  <2> QED BY <1>1, <1>2
<1>4. /\ tree.leaf[1].slots = << >> /\ tree.leaf[1].next = INVALID_PAGE
      /\ tree.leaf[1].prev = INVALID_PAGE
      /\ tree.leaf[1] = [slots |-> tree.leaf[1].slots, next |-> tree.leaf[1].next,
                         prev |-> tree.leaf[1].prev]
  BY <1>3
<1>5. Live(<< >>) = {} /\ Len(<< >>) = 0 /\ << >> \in Slots
  BY DEF Live, Slots
<1>6. c \in Seq(1..1) /\ Len(c) \in 1..MaxLeaves
  BY <1>2, TreeAssumption
<1>7. InOrder(tree.leaf, c)
  <2>1. ToSet(c) = {1}
    BY <1>2 DEF ToSet
  <2>2. \A i \in 1..Len(c) - 1 : FALSE
    BY <1>2
  <2> HIDE DEF c
  <2> QED BY <1>2, <1>3, <1>4, <2>1, <2>2 DEF InOrder
<1>8. Holds(tree.leaf, keys)
  BY <1>1, <1>3, <1>4, <1>5 DEF Holds
<1>9. IndexBegins(tree, 1)
  BY <1>3 DEF IndexBegins
<1>10. << >> \in Separators(1) /\ 0 <= IndexCapacity /\ 0 <= LeafCapacity
  BY TreeAssumption DEF Separators
<1> HIDE DEF c, blank
<1>11. Whole(tree, c, keys)
  <2>1. \A p \in 1..1 : /\ tree.leaf[p] = [slots |-> tree.leaf[p].slots, next |-> tree.leaf[p].next,
                                           prev |-> tree.leaf[p].prev]
                        /\ tree.leaf[p].slots \in Slots /\ Len(tree.leaf[p].slots) <= LeafCapacity
                        /\ tree.leaf[p].next \in 1..1 \cup {INVALID_PAGE}
                        /\ tree.leaf[p].prev \in 1..1 \cup {INVALID_PAGE}
    BY <1>2, <1>4, <1>5, <1>10
  <2>2. tree.index \in Separators(1) /\ Len(tree.index) <= IndexCapacity
    BY <1>3, <1>5, <1>10
  <2>3. DOMAIN tree.leaf = 1..1 /\ tree.leaf = [p \in 1..1 |-> tree.leaf[p]]
    BY <1>2, <1>3
  <2> QED BY <1>2, <1>3, <1>6, <1>7, <1>8, <1>9, <2>1, <2>2, <2>3, WholeFrom
<1>12. Chain = c
  BY <1>11, ChainOf DEF ChainIsList
<1>13. Searchable(tree, c)
  BY <1>2, <1>3, <1>4, <1>5 DEF Searchable, Ascends
<1>14. Keeps(tree, Chain, keys, disordered, overflowed)
  BY <1>1, <1>11, <1>12, <1>13 DEF Keeps
<1>15. /\ scan = [state |-> "closed", lo |-> NULL, hi |-> NULL, leaf |-> INVALID_PAGE, slot |-> 0, key |-> 0]
       /\ scan.state = "closed"
  BY <1>1 DEF Closed
<1>16. ScanStands
  BY <1>1, <1>15 DEF ScanStands
<1>17. ScanCoversRange
  BY <1>15 DEF ScanCoversRange
<1> QED BY <1>14, <1>15, <1>16, <1>17, InvParts DEF Parts

(* Every step of the tree and of a scan keeps the invariant.               *)
LEMMA NextHolds == IInv /\ [Next]_vars => IInv'
<1> SUFFICES ASSUME IInv, [Next]_vars PROVE IInv'
  OBVIOUS
<1>1. Parts
  BY InvParts
<1>2. ASSUME NEW key \in Keys, insert(key) \/ insertSplits(key) \/ Delete(key) PROVE IInv'
  <2>1. \E c : Keeps(tree', c, keys', disordered', overflowed')
    BY <1>1, <1>2, InsertKeeps, InsertSplitsKeeps, DeleteStepKeeps DEF Parts
  <2>2. Keeps(tree', Chain', keys', disordered', overflowed')
    BY <2>1, ChainOfNext
  <2>3. Quiet
    BY <1>2 DEF insert, insertSplits, Delete
  <2> QED BY <1>1, <2>2, <2>3, QuietKeeps, InvPartsNext DEF Parts
<1>3. ASSUME NEW lo \in Bounds \cup {NULL}, NEW hi \in Bounds \cup {NULL}, new_scan(lo, hi) PROVE IInv'
  BY <1>3, NewScanKeeps
<1>4. CASE get_first
  BY <1>4, GetFirstKeeps
<1>5. CASE get_next
  BY <1>5, GetNextKeeps
<1>6. CASE close_scan
  BY <1>6, CloseScanKeeps
<1>7. CASE UNCHANGED vars
  <2>1. /\ tree' = tree /\ scan' = scan /\ seen' = seen /\ keys' = keys
        /\ disordered' = disordered /\ overflowed' = overflowed /\ Still
    BY <1>7 DEF vars, Still
  <2>2. Keeps(tree', Chain', keys', disordered', overflowed')
    BY <1>1, <2>1, StillKeeps DEF Parts
  <2>3. ScanStands' /\ ScanCoversRange' /\ (Returned => Returned')
    BY <1>1, <2>1 DEF Parts, ScanStands, ScanCoversRange, InRange, Returned, Leaves
  <2> QED BY <1>1, <2>1, <2>2, <2>3, InvPartsNext DEF Parts
<1> QED BY <1>2, <1>3, <1>4, <1>5, <1>6, <1>7 DEF Next

(* IInv is an invariant of the tree (btfile.C:151-331,                     *)
(* btreefilescan.C:31-131), for all keys, capacities and numbers of leaves.*)
THEOREM BTreeInvariant == Spec => []IInv
<1>1. Init => IInv
  BY InitHolds
<1>2. IInv /\ [Next]_vars => IInv'
  BY NextHolds
<1> QED BY <1>1, <1>2, PTL DEF Spec

(* The leaves form one list, linked both ways, that holds the inserted     *)
(* keys once each, in a disordered tree too (btfile.C:165, 258).           *)
THEOREM BTreeWhole == Spec => []TreeInv
<1>1. IInv => TreeInv
  <2> SUFFICES ASSUME IInv PROVE TreeInv
    OBVIOUS
  <2> DEFINE c == Chain
             n == Len(c)
  <2>1. Whole(tree, c, keys) /\ ScanStands
    BY DEF IInv
  <2>2. /\ n \in Nat /\ n >= 1 /\ n <= MaxLeaves /\ MaxLeaves \in Nat
        /\ Leaves = 1..n /\ \A k \in 1..n : c[k] \in 1..n
    BY <2>1, WholeFacts DEF Leaves
  <2>3. \A p \in 1..n : /\ tree.leaf[p].slots \in Slots /\ Len(tree.leaf[p].slots) <= LeafCapacity
                        /\ tree.leaf[p].next \in 1..n \cup {INVALID_PAGE}
                        /\ tree.leaf[p].prev \in 1..n \cup {INVALID_PAGE}
    BY <2>1, WholeFacts
  <2>4. tree.index \in Separators(n) /\ Len(tree.index) <= IndexCapacity
    BY <2>1, WholeFacts
  <2>5. InOrder(tree.leaf, c) /\ Holds(tree.leaf, keys)
    BY <2>1 DEF Whole
  <2> HIDE DEF c
  <2>6. TypeOK
    <3>1. Leaves \subseteq 1..MaxLeaves
      BY <2>2
    <3>2. ASSUME NEW p \in Leaves
          PROVE  /\ Len(tree.leaf[p].slots) <= LeafCapacity /\ KeysIn(p) \subseteq Keys
                 /\ {tree.leaf[p].next, tree.leaf[p].prev} \subseteq Leaves \cup {INVALID_PAGE}
      <4>1. p \in 1..n /\ tree.leaf[p].slots \in Slots
        BY <2>2, <2>3
      <4>2. KeysIn(p) \subseteq Keys
        BY <4>1, LiveSlots DEF KeysIn
      <4> QED BY <2>2, <2>3, <4>1, <4>2
    <3>3. \A i \in DOMAIN tree.index : tree.index[i].page \in Leaves
      BY <2>2, <2>4, EntriesOf
    <3>4. scan.state \in {"closed", "new", "on", "done", "hung"} /\ seen \subseteq Keys
      BY <2>1 DEF ScanStands
    <3> QED BY <2>4, <3>1, <3>2, <3>3, <3>4 DEF TypeOK
  <2>7. LeavesAreLinked
    <3>1. Cardinality(1..n) = IF 1 > n THEN 0 ELSE n - 1 + 1
      BY <2>2, FS_Interval
    <3>2. Cardinality(Leaves) = n
      BY <2>2, <3>1
    <3>3. ToSet(c) = Leaves /\ \A i \in 1..Len(c) - 1 : tree.leaf[c[i + 1]].prev = c[i]
      BY <2>5 DEF InOrder, Leaves
    <3> QED BY <3>2, <3>3 DEF LeavesAreLinked, c
  <2>8. EntriesAreKept
    BY <2>5 DEF EntriesAreKept, Holds, KeysIn, Leaves
  <2> QED BY <2>6, <2>7, <2>8 DEF TreeInv
<1> QED BY <1>1, BTreeInvariant, PTL

(* Unless an insertion was misplaced or the index overflowed, the leaf a   *)
(* descent leads to holds the key if any leaf does (btfile.C:279, 324).    *)
THEOREM BTreeDescentFinds == Spec => []DescentFindsEveryKey
<1>1. IInv => DescentFindsEveryKey
  <2> SUFFICES ASSUME IInv, ~ disordered, ~ overflowed
               PROVE  /\ \A p \in Leaves : Ascends(tree.leaf[p].slots)
                      /\ \A key \in keys : key \in KeysIn(Descend(tree, key))
    BY DEF DescentFindsEveryKey
  <2>1. Whole(tree, Chain, keys) /\ Searchable(tree, Chain)
    BY DEF IInv
  <2>2. \A p \in Leaves : Ascends(tree.leaf[p].slots)
    BY <2>1 DEF Searchable, Leaves
  <2>3. ASSUME NEW key \in keys PROVE key \in KeysIn(Descend(tree, key))
    <3>1. \E i \in Live(tree.leaf[Descend(tree, key)].slots) : tree.leaf[Descend(tree, key)].slots[i] = key
      BY <2>1, DescentFinds
    <3> QED BY <3>1 DEF KeysIn
  <2> QED BY <2>2, <2>3
<1> QED BY <1>1, BTreeInvariant, PTL

(* A scan that ended returned every key of its range, none below it and at *)
(* most one above (btreefilescan.C:121).                                   *)
THEOREM BTreeScanCovers == Spec => []ScanCoversRange
<1>1. IInv => ScanCoversRange
  BY DEF IInv
<1> QED BY <1>1, BTreeInvariant, PTL
=============================================================================
