--------------------------- MODULE HFPage_proofs ---------------------------
(***************************************************************************)
(* Proofs about HFPage for every page size, slot size and set of records:  *)
(* the bytes of every record stay whole (PageInv), a walk misses nothing,  *)
(* and the page implements RecordPage.                                     *)
(***************************************************************************)
EXTENDS HFPage, TLAPS, WellFoundedInduction

(* Every non-empty set of naturals has a least element.                    *)
LEMMA Least ==
  ASSUME NEW T, T \subseteq Nat, T # {}
  PROVE  \E m \in T : \A k \in T : m <= k
<1>1. PICK m \in T : \A k \in T : ~ (<< k, m >> \in OpToRel(<, Nat))
  BY NatLessThanWellFounded, WFMin
<1>2. \A k \in T : ~ (k < m)
  BY <1>1 DEF OpToRel
<1> QED
  BY <1>2

(* Trimmed cuts holes off the end of a directory, all of them but slot 0.  *)
LEMMA TrimmedCuts ==
  ASSUME NEW sl \in [Slots -> SlotType], NEW cnt \in 0..DataSize + 1
  PROVE  /\ Trimmed(sl, cnt) \in 0..cnt
         /\ \A i \in Trimmed(sl, cnt)..cnt - 1 : sl[i].length = EMPTY_SLOT
         /\ cnt > 0 => Trimmed(sl, cnt) > 0
<1> USE PageAssumption
<1> DEFINE Holed(n) == /\ \A i \in n..cnt - 1 : sl[i].length = EMPTY_SLOT
                       /\ cnt > 0 => n > 0
           T == {n \in 0..cnt : Holed(n)}
<1>1. cnt \in T
  OBVIOUS
<1>2. PICK m \in T : \A k \in T : m <= k
  <2>1. T \subseteq Nat /\ T # {}
    BY <1>1
  <2> HIDE DEF T
  <2> QED
    BY <2>1, Least
<1>3. m > 1 => sl[m - 1].length # EMPTY_SLOT
  <2> SUFFICES ASSUME m > 1, sl[m - 1].length = EMPTY_SLOT PROVE FALSE
    OBVIOUS
  <2>1. Holed(m - 1)
    <3>1. \A i \in (m - 1)..cnt - 1 : i = m - 1 \/ i \in m..cnt - 1
      OBVIOUS
    <3> QED
      BY <3>1
  <2>2. m - 1 \in T
    BY <2>1
  <2> QED
    BY <2>2, <1>2
<1>4. \E n \in 0..cnt : Holed(n) /\ (n > 1 => sl[n - 1].length # EMPTY_SLOT)
  BY <1>2, <1>3
<1> QED
  BY <1>4 DEF Trimmed

(* A product with a positive slot size is at least the other factor.       *)
LEMMA SlotTimes ==
  ASSUME NEW n \in Nat
  PROVE  SlotSize * n >= n
BY PageAssumption

(* What insertRecord finds: a slot of the directory that is not in use, or *)
(* the next one; and room for the record below usedPtr.                    *)
LEMMA RoomForRecord ==
  ASSUME TypeOK, DirectoryFits, NEW rec \in Records, available_space >= LengthOf[rec]
  PROVE  LET grows == IF Holes = {} THEN 1 ELSE 0
         IN  /\ EmptySlotIndex \in Slots
             /\ EmptySlotIndex < slotCnt + grows
             /\ EmptySlotIndex \notin Used
             /\ LengthOf[rec] \in 1..usedPtr
             /\ SlotSize * (slotCnt + grows - 1) <= usedPtr - LengthOf[rec]
             /\ slotCnt + grows \in 0..DataSize + 1
<1> USE PageAssumption DEF TypeOK, FreeSpace
<1> DEFINE len == LengthOf[rec]
<1>0. len \in Nat \ {0}
  OBVIOUS
<1>1. CASE Holes # {}
  <2>1. Holes \subseteq Nat
    BY DEF Holes, Used
  <2>2. EmptySlotIndex \in Holes
    <3>1. \E i \in Holes : \A j \in Holes : i <= j
      BY <2>1, <1>1, Least
    <3> QED
      BY <3>1, <1>1 DEF EmptySlotIndex
  <2>3. usedPtr + SlotSize * (1 - slotCnt) >= len
    BY <1>1 DEF available_space
  <2>4. SlotSize * (1 - slotCnt) = - (SlotSize * (slotCnt - 1))
    OBVIOUS
  <2>5. slotCnt >= 1
    BY <1>1 DEF Holes
  <2>6. SlotSize * (slotCnt - 1) >= 0
    BY <2>5
  <2>7. SlotSize * (slotCnt + 0 - 1) = SlotSize * (slotCnt - 1)
    OBVIOUS
  <2> HIDE DEF FreeSpace
  <2>8. len <= usedPtr /\ SlotSize * (slotCnt - 1) <= usedPtr - len
    BY <2>3, <2>4, <2>6, <1>0
  <2> QED
    BY <1>0, <1>1, <2>2, <2>5, <2>7, <2>8 DEF Holes, Slots
<1>2. CASE Holes = {}
  <2>1. usedPtr + SlotSize * (1 - slotCnt) - SlotSize >= len
    BY <1>0, <1>2 DEF available_space
  <2>2. SlotSize * (1 - slotCnt) - SlotSize = - (SlotSize * slotCnt)
    OBVIOUS
  <2>3. SlotSize * slotCnt >= slotCnt
    BY SlotTimes
  <2>4. SlotSize * (slotCnt + 1 - 1) = SlotSize * slotCnt
    OBVIOUS
  <2>5. len <= usedPtr /\ SlotSize * slotCnt <= usedPtr - len /\ slotCnt < usedPtr
    BY <1>0, <2>1, <2>2, <2>3
  <2>6. EmptySlotIndex = slotCnt
    BY <1>2 DEF EmptySlotIndex
  <2> QED
    BY <1>0, <1>2, <2>4, <2>5, <2>6 DEF Slots, Used
<1> QED
  BY <1>1, <1>2

-----------------------------------------------------------------------------
(* What a used slot is.                                                    *)
LEMMA UsedSlot ==
  ASSUME TypeOK, RecordsDisjoint, NEW i \in Used
  PROVE  /\ i \in Slots /\ i \in Nat /\ i < slotCnt
         /\ slot[i].offset \in 1..DataSize /\ slot[i].length \in 1..DataSize
         /\ Start(i) \in Bytes /\ usedPtr <= Start(i)
<1> USE PageAssumption
<1>1. i \in Slots /\ slot[i] \in SlotType /\ slot[i].length # EMPTY_SLOT
  BY DEF TypeOK, Used, Slots
<1> QED
  BY <1>1 DEF TypeOK, RecordsDisjoint, Used, SlotType, Start, Bytes, Slots, EMPTY_SLOT

(* insertRecord adds one record, below all others.                         *)
LEMMA InsertSlots ==
  ASSUME PageInv, NEW rec \in Records, insertRecord(rec)
  PROVE  /\ EmptySlotIndex \in Slots \ Used
         /\ Used' = Used \cup {EmptySlotIndex}
         /\ slot'[EmptySlotIndex] = [offset |-> usedPtr, length |-> LengthOf[rec]]
         /\ \A i \in Used : slot'[i] = slot[i]
         /\ LengthOf[rec] \in 1..usedPtr
<1> USE PageAssumption
<1>1. available_space >= LengthOf[rec]
  BY DEF insertRecord
<1>2. /\ EmptySlotIndex \in Slots /\ EmptySlotIndex \notin Used
      /\ EmptySlotIndex < slotCnt + (IF Holes = {} THEN 1 ELSE 0)
      /\ LengthOf[rec] \in 1..usedPtr
  BY <1>1, RoomForRecord DEF PageInv
<1>3. slot' = [slot EXCEPT ![EmptySlotIndex] = [offset |-> usedPtr, length |-> LengthOf[rec]]]
  BY DEF insertRecord
<1>4. slotCnt' = slotCnt + (IF Holes = {} THEN 1 ELSE 0)
  BY DEF insertRecord
<1>5. slotCnt \in Nat /\ slotCnt - 1 \in -1..DataSize /\ slot \in [Slots -> SlotType]
      /\ slotCnt' \in 0..DataSize + 1
  BY <1>1, <1>4, RoomForRecord DEF PageInv, TypeOK
<1>6. slot'[EmptySlotIndex] = [offset |-> usedPtr, length |-> LengthOf[rec]]
      /\ \A i \in Slots \ {EmptySlotIndex} : slot'[i] = slot[i]
  BY <1>2, <1>3, <1>5
<1>7. Used' = Used \cup {EmptySlotIndex}
  <2>1. \A i : i \in Used' <=> i \in Used \cup {EmptySlotIndex}
    <3>0. \A i : i \in Used' \/ i \in Used \cup {EmptySlotIndex} => i \in Int
      BY <1>2 DEF Used, Slots
    <3> SUFFICES ASSUME NEW i \in Int PROVE i \in Used' <=> i \in Used \cup {EmptySlotIndex}
      BY <3>0
    <3>1. CASE i = EmptySlotIndex
      BY <3>1, <1>2, <1>4, <1>5, <1>6 DEF Used, Slots, EMPTY_SLOT
    <3>2. CASE i # EmptySlotIndex
      <4>0. PICK m \in Nat : m = slotCnt' /\ m <= DataSize + 1
        BY <1>5
      <4>1. i \in 0..slotCnt' - 1 => i \in Slots
        <5>0. m <= DataSize + 1
          BY <4>0
        <5>1. i \in 0..m - 1 => i \in Slots
          BY <5>0 DEF Slots
        <5> QED
          BY <4>0, <5>1
      <4>2. i = slotCnt => Holes # {} \/ i = EmptySlotIndex
        BY DEF EmptySlotIndex
      <4>3. i \in 0..slotCnt' - 1 <=> i \in 0..slotCnt - 1
        BY <3>2, <4>2, <1>4, <1>5
      <4> QED
        BY <3>2, <4>1, <4>3, <1>6 DEF Used
    <3> QED
      BY <3>1, <3>2
  <2> QED
    BY <2>1
<1> QED
  BY <1>2, <1>6, <1>7 DEF Used, Slots, PageInv, TypeOK

LEMMA InsertKeepsPage ==
  ASSUME PageInv, NEW rec \in Records, insertRecord(rec)
  PROVE  PageInv'
<1> USE PageAssumption
<1> DEFINE len == LengthOf[rec]
<1>0. PICK e : e = EmptySlotIndex
  OBVIOUS
<1>1. /\ e \in Slots \ Used /\ Used' = Used \cup {e}
      /\ slot'[e] = [offset |-> usedPtr, length |-> len]
      /\ \A i \in Used : slot'[i] = slot[i]
      /\ len \in 1..usedPtr
  BY <1>0, InsertSlots
<1>2. available_space >= len
  BY DEF insertRecord
<1>3. /\ e < slotCnt + (IF Holes = {} THEN 1 ELSE 0)
      /\ SlotSize * (slotCnt + (IF Holes = {} THEN 1 ELSE 0) - 1) <= usedPtr - len
      /\ slotCnt + (IF Holes = {} THEN 1 ELSE 0) \in 0..DataSize + 1
  BY <1>0, <1>2, RoomForRecord DEF PageInv
<1>4. /\ slot' = [slot EXCEPT ![e] = [offset |-> usedPtr, length |-> len]]
      /\ slotCnt' = slotCnt + (IF Holes = {} THEN 1 ELSE 0)
      /\ usedPtr' = usedPtr - len
      /\ freeSpace' = FreeSpace - (IF Holes = {} THEN 1 ELSE 0) * SlotSize - len
      /\ data' = [b \in Bytes |-> IF usedPtr - len <= b /\ b < usedPtr
                                  THEN << rec, b - (usedPtr - len) >> ELSE data[b]]
      /\ UNCHANGED << cursor, walk >>
  BY <1>0 DEF insertRecord
<1>5. usedPtr \in 0..DataSize /\ slotCnt \in 0..DataSize + 1
  BY DEF PageInv, TypeOK
<1>6. TypeOK'
  <2>1. slot' \in [Slots -> SlotType]
    <3>1. [offset |-> usedPtr, length |-> len] \in SlotType
      BY <1>1, <1>5 DEF SlotType
    <3> QED
      BY <3>1, <1>4 DEF PageInv, TypeOK
  <2>2. data' \in [Bytes -> {Blank} \cup (Records \X (0..DataSize - 1))]
    <3>1. \A b \in Bytes : usedPtr - len <= b /\ b < usedPtr => b - (usedPtr - len) \in 0..DataSize - 1
      BY <1>1, <1>5 DEF Bytes
    <3> QED
      BY <3>1, <1>4 DEF PageInv, TypeOK
  <2>3. \A i \in Slots : i >= slotCnt' => slot'[i].length = EMPTY_SLOT
    BY <1>1, <1>3, <1>4 DEF PageInv, TypeOK, Slots
  <2>4. freeSpace' \in Int
    BY <1>1, <1>4, <1>5 DEF FreeSpace
  <2> QED
    BY <2>1, <2>2, <2>3, <2>4, <1>1, <1>3, <1>4, <1>5 DEF PageInv, TypeOK
<1>7. \A i \in Used : /\ slot[i].offset \in 1..DataSize /\ slot[i].length \in 1..DataSize
                      /\ usedPtr <= Start(i) /\ Start(i) \in Bytes
                      /\ Start(i)' = Start(i) /\ slot'[i] = slot[i]
  BY <1>1, UsedSlot DEF PageInv, Start
<1>8. Start(e)' = usedPtr - len /\ slot'[e].offset = usedPtr /\ slot'[e].length = len
  BY <1>1 DEF Start
<1>9. RecordsDisjoint'
  <2> SUFFICES ASSUME NEW i \in Used'
               PROVE  /\ usedPtr' <= Start(i)' /\ slot'[i].offset <= DataSize
                      /\ \A j \in Used' : i # j => \/ slot'[i].offset <= Start(j)'
                                                   \/ slot'[j].offset <= Start(i)'
    BY DEF RecordsDisjoint
  <2>1. CASE i = e
    BY <2>1, <1>1, <1>4, <1>5, <1>7, <1>8
  <2>2. CASE i # e
    <3>1. i \in Used
      BY <2>2, <1>1
    <3>2. \A j \in Used : i # j => slot[i].offset <= Start(j) \/ slot[j].offset <= Start(i)
      BY <3>1 DEF PageInv, RecordsDisjoint
    <3>3. ASSUME NEW j \in Used', i # j
          PROVE  slot'[i].offset <= Start(j)' \/ slot'[j].offset <= Start(i)'
      <4>1. CASE j = e
        BY <4>1, <3>1, <1>4, <1>5, <1>7, <1>8
      <4>2. CASE j # e
        BY <4>2, <3>1, <3>2, <3>3, <1>1, <1>7
      <4> QED
        BY <4>1, <4>2
    <3>4. usedPtr' <= Start(i)' /\ slot'[i].offset <= DataSize
      BY <3>1, <1>1, <1>4, <1>5, <1>7 DEF Bytes
    <3> QED
      BY <3>3, <3>4
  <2> QED
    BY <2>1, <2>2
<1>10. DirectoryFits'
  <2>1. slotCnt' - 1 = slotCnt + (IF Holes = {} THEN 1 ELSE 0) - 1
    BY <1>4, <1>5
  <2>2. SlotSize * (slotCnt' - 1) = SlotSize * (slotCnt + (IF Holes = {} THEN 1 ELSE 0) - 1)
    BY <2>1
  <2> QED
    BY <1>3, <1>4, <2>2 DEF DirectoryFits
<1>11. RecordsWhole'
  <2> SUFFICES ASSUME NEW i \in Used'
               PROVE  \E r \in Records :
                        /\ slot'[i].length = LengthOf[r]
                        /\ \A b \in Start(i)'..slot'[i].offset - 1 : data'[b] = << r, b - Start(i)' >>
    BY DEF RecordsWhole
  <2>1. CASE i = e
    <3>1. \A b \in (usedPtr - len)..usedPtr - 1 : b \in Bytes
      BY <1>1, <1>5 DEF Bytes
    <3>2. \A b \in (usedPtr - len)..usedPtr - 1 : data'[b] = << rec, b - (usedPtr - len) >>
      BY <3>1, <1>1, <1>4, <1>5 DEF Bytes
    <3> QED
      BY <3>2, <2>1, <1>8
  <2>2. CASE i # e
    <3>1. i \in Used
      BY <2>2, <1>1
    <3>2. PICK r \in Records : /\ slot[i].length = LengthOf[r]
                              /\ \A b \in Start(i)..slot[i].offset - 1 : data[b] = << r, b - Start(i) >>
      BY <3>1 DEF PageInv, RecordsWhole
    <3>3. \A b \in Start(i)..slot[i].offset - 1 : data'[b] = data[b]
      BY <3>1, <1>4, <1>5, <1>7 DEF Bytes
    <3> QED
      BY <3>1, <3>2, <3>3, <1>7
  <2> QED
    BY <2>1, <2>2
<1> QED
  BY <1>6, <1>9, <1>10, <1>11 DEF PageInv

-----------------------------------------------------------------------------
(* The directory after deleteRecord(r), before and after it is trimmed.    *)
Without(r) == [slot EXCEPT ![r] = Empty]
Moved(r) == [i \in Slots |->
    IF i < slotCnt /\ Without(r)[i].length # EMPTY_SLOT /\ Without(r)[i].offset < slot[r].offset
    THEN [Without(r)[i] EXCEPT !.offset = @ + slot[r].length] ELSE Without(r)[i]]

(* Every other record lies wholly below or wholly above the deleted one;   *)
(* those below move up by its length.                                      *)
LEMMA DeleteMoves ==
  ASSUME PageInv, NEW r \in Used, NEW i \in Slots
  PROVE  /\ i = r => Moved(r)[i] = Empty
         /\ i # r /\ i \in Used =>
              \/ /\ slot[i].offset <= Start(r)
                 /\ Moved(r)[i] = [offset |-> slot[i].offset + slot[r].length, length |-> slot[i].length]
              \/ Start(i) >= slot[r].offset /\ Moved(r)[i] = slot[i]
         /\ i \notin Used => Moved(r)[i] = slot[i]
         /\ Moved(r)[i] \in SlotType
<1> USE PageAssumption
<1>1. /\ slot \in [Slots -> SlotType]
      /\ r \in Slots /\ slot[r].offset \in 1..DataSize /\ slot[r].length \in 1..DataSize
      /\ Start(r) \in Bytes /\ r < slotCnt
  BY UsedSlot DEF PageInv, TypeOK
<1>2. Without(r)[i] = IF i = r THEN Empty ELSE slot[i]
  BY <1>1 DEF Without
<1>3. CASE i = r
  <2>1. Moved(r)[i] = Empty
    BY <1>1, <1>2, <1>3 DEF Moved, Empty
  <2> QED
    BY <2>1, <1>3, <1>1 DEF Empty, SlotType, EMPTY_SLOT
<1>4. CASE i # r /\ i \in Used
  <2>1. /\ slot[i].offset \in 1..DataSize /\ slot[i].length \in 1..DataSize
        /\ Start(i) = slot[i].offset - slot[i].length /\ Start(r) = slot[r].offset - slot[r].length
        /\ i < slotCnt
    BY <1>4, UsedSlot DEF PageInv, Start
  <2>2. slot[i].offset <= Start(r) \/ slot[r].offset <= Start(i)
    BY <1>4 DEF PageInv, RecordsDisjoint
  <2>3. Moved(r)[i] = IF slot[i].offset < slot[r].offset
                      THEN [slot[i] EXCEPT !.offset = @ + slot[r].length] ELSE slot[i]
    BY <1>1, <1>2, <1>4, <2>1 DEF Moved, EMPTY_SLOT
  <2>4. slot[i] = [offset |-> slot[i].offset, length |-> slot[i].length]
    BY <1>1 DEF SlotType
  <2>5. CASE slot[i].offset <= Start(r)
    <3>1. Moved(r)[i] = [offset |-> slot[i].offset + slot[r].length, length |-> slot[i].length]
      BY <1>1, <2>1, <2>3, <2>4, <2>5
    <3>2. slot[i].offset + slot[r].length \in 1..DataSize
      BY <1>1, <2>1, <2>5
    <3> QED
      BY <1>4, <2>1, <2>5, <3>1, <3>2 DEF SlotType
  <2>6. CASE slot[r].offset <= Start(i)
    <3>1. Moved(r)[i] = slot[i]
      BY <1>1, <2>1, <2>3, <2>6
    <3> QED
      BY <1>1, <1>4, <2>6, <3>1
  <2> QED
    BY <2>2, <2>5, <2>6
<1>5. CASE i # r /\ i \notin Used
  <2>1. slotCnt \in Nat /\ i \in Nat /\ (i < slotCnt => slot[i].length = EMPTY_SLOT)
    BY <1>5 DEF Used, Slots, PageInv, TypeOK
  <2>2. Moved(r)[i] = slot[i]
    BY <1>1, <1>2, <1>5, <2>1 DEF Moved
  <2> QED
    BY <1>1, <1>5, <2>2
<1> QED
  BY <1>3, <1>4, <1>5

LEMMA DeleteSlots ==
  ASSUME PageInv, NEW r \in Used, deleteRecord(r)
  PROVE  /\ slot' = Moved(r)
         /\ slotCnt' \in 0..slotCnt
         /\ Used' = Used \ {r}
         /\ \A i \in Slots : i >= slotCnt' => slot'[i].length = EMPTY_SLOT
<1> USE PageAssumption
<1>1. slot' = Moved(r) /\ slotCnt' = Trimmed(Moved(r), slotCnt)
  BY DEF deleteRecord, Moved, Without
<1>2. Moved(r) \in [Slots -> SlotType]
  BY DeleteMoves DEF Moved
<1>3. slotCnt \in 0..DataSize + 1
  BY DEF PageInv, TypeOK
<1>4. PICK n \in 0..slotCnt : n = slotCnt'
  BY <1>1, <1>2, <1>3, TrimmedCuts
<1>5. \A i \in n..slotCnt - 1 : Moved(r)[i].length = EMPTY_SLOT
  BY <1>1, <1>2, <1>3, <1>4, TrimmedCuts
<1>6. \A i \in Slots : Moved(r)[i].length # EMPTY_SLOT <=> i \in Used /\ i # r
  <2> SUFFICES ASSUME NEW i \in Slots
               PROVE  Moved(r)[i].length # EMPTY_SLOT <=> i \in Used /\ i # r
    OBVIOUS
  <2>1. i \in Used => slot[i].length \in 1..DataSize
    BY UsedSlot DEF PageInv
  <2>2. i \notin Used => slot[i].length = EMPTY_SLOT
    BY DEF Used, Slots, PageInv, TypeOK
  <2>3. /\ i = r => Moved(r)[i] = Empty
        /\ i # r /\ i \in Used =>
              \/ Moved(r)[i] = [offset |-> slot[i].offset + slot[r].length, length |-> slot[i].length]
              \/ Moved(r)[i] = slot[i]
        /\ i \notin Used => Moved(r)[i] = slot[i]
    BY DeleteMoves
  <2>4. Empty.length = EMPTY_SLOT /\ EMPTY_SLOT \notin 1..DataSize
    BY DEF Empty, EMPTY_SLOT
  <2> QED
    BY <2>1, <2>2, <2>3, <2>4
<1>7. \A i \in Slots : i >= n => Moved(r)[i].length = EMPTY_SLOT
  <2> SUFFICES ASSUME NEW i \in Slots, i >= n, Moved(r)[i].length # EMPTY_SLOT PROVE FALSE
    OBVIOUS
  <2>1. i \in Used
    BY <1>6
  <2>2. i \in n..slotCnt - 1
    BY <2>1, <1>3 DEF Used, Slots
  <2> QED
    BY <2>2, <1>5
<1>8. Used' = {i \in 0..n - 1 : Moved(r)[i].length # EMPTY_SLOT}
  BY <1>1, <1>4 DEF Used
<1>9. Used' = Used \ {r}
  <2>1. \A i \in 0..n - 1 : i \in Slots
    BY <1>3 DEF Slots
  <2>2. \A i \in Used : i \in Slots
    BY UsedSlot DEF PageInv
  <2>3. \A i \in Slots : i \in Used /\ i # r => i \in 0..n - 1
    BY <1>6, <1>7 DEF Slots
  <2> QED
    BY <1>6, <1>8, <2>1, <2>2, <2>3
<1> QED
  BY <1>1, <1>4, <1>7, <1>9

(* Where deleteRecord(r) leaves the other records: those that lay below it *)
(* are moved up by its length.                                             *)
LEMMA DeletePlaces ==
  ASSUME PageInv, NEW r \in Used, deleteRecord(r), NEW i \in Used \ {r}
  PROVE  /\ slot[i].offset \in 1..DataSize /\ slot[i].length \in 1..DataSize
         /\ Start(i) = slot[i].offset - slot[i].length /\ usedPtr <= Start(i)
         /\ slot'[i].length = slot[i].length
         /\ \/ /\ slot[i].offset <= Start(r)
               /\ slot'[i].offset = slot[i].offset + slot[r].length /\ Start(i)' = Start(i) + slot[r].length
            \/ /\ Start(i) >= slot[r].offset
               /\ slot'[i].offset = slot[i].offset /\ Start(i)' = Start(i)
<1> DEFINE len == slot[r].length
           off == slot[r].offset
<1>1. slot' = Moved(r)
  BY DeleteSlots
<1>2. len \in 1..DataSize /\ off \in 1..DataSize /\ Start(r) = off - len
  BY UsedSlot DEF PageInv, Start
<1>3. /\ i \in Slots /\ slot[i].offset \in 1..DataSize /\ slot[i].length \in 1..DataSize
      /\ Start(i) = slot[i].offset - slot[i].length /\ usedPtr <= Start(i)
  BY UsedSlot DEF PageInv, Start
<1>4. \/ /\ slot[i].offset <= Start(r)
         /\ slot'[i] = [offset |-> slot[i].offset + len, length |-> slot[i].length]
      \/ Start(i) >= off /\ slot'[i] = slot[i]
  BY <1>1, <1>3, DeleteMoves
<1>5. Start(i)' = slot'[i].offset - slot'[i].length
  BY DEF Start
<1>6. CASE /\ slot[i].offset <= Start(r)
           /\ slot'[i] = [offset |-> slot[i].offset + len, length |-> slot[i].length]
  BY <1>3, <1>5, <1>6, <1>2
<1>7. CASE Start(i) >= off /\ slot'[i] = slot[i]
  BY <1>3, <1>5, <1>7
<1> QED
  BY <1>3, <1>4, <1>6, <1>7

LEMMA DeleteKeepsPage ==
  ASSUME PageInv, NEW r \in Used, deleteRecord(r)
  PROVE  PageInv'
<1> USE PageAssumption
<1> DEFINE len == slot[r].length
           off == slot[r].offset
<1>1. /\ slot' = Moved(r) /\ Used' = Used \ {r}
      /\ \A i \in Slots : i >= slotCnt' => slot'[i].length = EMPTY_SLOT
  BY DeleteSlots
<1>2. PICK n \in 0..slotCnt : n = slotCnt'
  BY DeleteSlots
<1>3. /\ usedPtr' = usedPtr + len
      /\ freeSpace' = freeSpace + len + SlotSize * (slotCnt - slotCnt')
      /\ data' = [b \in Bytes |-> IF usedPtr + len <= b /\ b < off THEN data[b - len] ELSE data[b]]
      /\ UNCHANGED << cursor, walk >>
  BY <1>1 DEF deleteRecord, Moved, Without
<1>4. /\ usedPtr \in 0..DataSize /\ slotCnt \in 0..DataSize + 1
      /\ len \in 1..DataSize /\ off \in 1..DataSize /\ Start(r) = off - len
      /\ usedPtr <= Start(r)
  BY UsedSlot DEF PageInv, TypeOK, Start
<1>5. \A i \in Used \ {r} :
        /\ slot[i].offset \in 1..DataSize /\ slot[i].length \in 1..DataSize
        /\ Start(i) = slot[i].offset - slot[i].length /\ usedPtr <= Start(i)
        /\ slot'[i].length = slot[i].length
        /\ \/ /\ slot[i].offset <= Start(r)
              /\ slot'[i].offset = slot[i].offset + len /\ Start(i)' = Start(i) + len
           \/ /\ Start(i) >= off
              /\ slot'[i].offset = slot[i].offset /\ Start(i)' = Start(i)
  BY DeletePlaces
<1>6. TypeOK'
  <2>1. slot' \in [Slots -> SlotType]
    BY <1>1, DeleteMoves DEF Moved
  <2>2. data' \in [Bytes -> {Blank} \cup (Records \X (0..DataSize - 1))]
    <3>1. \A b \in Bytes : usedPtr + len <= b /\ b < off => b - len \in Bytes
      BY <1>4 DEF Bytes
    <3> QED
      BY <3>1, <1>3 DEF PageInv, TypeOK
  <2>3. freeSpace' \in Int
    <3>1. n \in Int /\ SlotSize * (slotCnt - n) \in Int
      BY <1>4
    <3> QED
      BY <3>1, <1>2, <1>3, <1>4 DEF PageInv, TypeOK
  <2>4. usedPtr' \in 0..DataSize
    BY <1>3, <1>4
  <2>5. slotCnt' \in 0..DataSize + 1
    BY <1>2, <1>4
  <2> QED
    BY <2>1, <2>2, <2>3, <2>4, <2>5, <1>1, <1>3 DEF PageInv, TypeOK
<1>7. RecordsDisjoint'
  <2> SUFFICES ASSUME NEW i \in Used \ {r}
               PROVE  /\ usedPtr' <= Start(i)' /\ slot'[i].offset <= DataSize
                      /\ \A j \in Used \ {r} : i # j => \/ slot'[i].offset <= Start(j)'
                                                      \/ slot'[j].offset <= Start(i)'
    BY <1>1 DEF RecordsDisjoint
  <2>1. usedPtr' <= Start(i)' /\ slot'[i].offset <= DataSize
    BY <1>3, <1>4, <1>5
  <2>2. ASSUME NEW j \in Used \ {r}, i # j
        PROVE  slot'[i].offset <= Start(j)' \/ slot'[j].offset <= Start(i)'
    <3>1. slot[i].offset <= Start(j) \/ slot[j].offset <= Start(i)
      BY <2>2 DEF PageInv, RecordsDisjoint
    <3> QED
      BY <3>1, <1>4, <1>5
  <2> QED
    BY <2>1, <2>2
<1>8. DirectoryFits'
  <2>1. SlotSize * (n - 1) <= SlotSize * (slotCnt - 1)
    <3>1. SlotSize * (slotCnt - n) >= 0 /\ slotCnt - n >= 0
      BY <1>4, SlotTimes
    <3>2. SlotSize * (slotCnt - 1) - SlotSize * (n - 1) = SlotSize * (slotCnt - n)
      BY <1>4
    <3>3. SlotSize * (slotCnt - 1) \in Int /\ SlotSize * (n - 1) \in Int
      BY <1>4
    <3> QED
      BY <3>1, <3>2, <3>3
  <2>2. SlotSize * (n - 1) <= usedPtr + len
    BY <2>1, <1>2, <1>4 DEF PageInv, DirectoryFits
  <2> QED
    BY <2>2, <1>2, <1>3 DEF DirectoryFits
<1>9. RecordsWhole'
  <2> SUFFICES ASSUME NEW i \in Used \ {r}
               PROVE  \E rec \in Records :
                        /\ slot'[i].length = LengthOf[rec]
                        /\ \A b \in Start(i)'..slot'[i].offset - 1 : data'[b] = << rec, b - Start(i)' >>
    BY <1>1 DEF RecordsWhole
  <2>1. PICK rec \in Records : /\ slot[i].length = LengthOf[rec]
                              /\ \A b \in Start(i)..slot[i].offset - 1 : data[b] = << rec, b - Start(i) >>
    BY DEF PageInv, RecordsWhole
  <2>2. ASSUME slot[i].offset <= Start(r),
               slot'[i].offset = slot[i].offset + len, Start(i)' = Start(i) + len,
               NEW b \in (Start(i) + len)..(slot[i].offset + len - 1)
        PROVE  data'[b] = << rec, b - (Start(i) + len) >>
    <3>1. b \in Bytes /\ usedPtr + len <= b /\ b < off /\ b - len \in Start(i)..slot[i].offset - 1
      BY <2>2, <1>4, <1>5 DEF Bytes
    <3>2. data'[b] = data[b - len]
      BY <3>1, <1>3
    <3>3. (b - len) - Start(i) = b - (Start(i) + len)
      BY <2>2, <1>4, <1>5
    <3> QED
      BY <2>1, <3>1, <3>2, <3>3
  <2>3. ASSUME Start(i) >= off,
               NEW b \in Start(i)..slot[i].offset - 1
        PROVE  data'[b] = << rec, b - Start(i) >>
    <3>1. b \in Bytes /\ ~ (b < off)
      BY <2>3, <1>4, <1>5 DEF Bytes
    <3> QED
      BY <2>1, <3>1, <1>3
  <2>4. CASE /\ slot[i].offset <= Start(r)
             /\ slot'[i].offset = slot[i].offset + len /\ Start(i)' = Start(i) + len
    <3>0. \A b \in (Start(i) + len)..(slot[i].offset + len - 1) :
            data'[b] = << rec, b - (Start(i) + len) >>
      BY <2>2, <2>4
    <3>a. PICK s, o : s = Start(i)' /\ o = slot'[i].offset
      OBVIOUS
    <3>b. s = Start(i) + len /\ o = slot[i].offset + len
      BY <3>a, <2>4
    <3>c. \A b \in s..o - 1 : data'[b] = << rec, b - s >>
      BY <3>0, <3>b, <1>4, <1>5
    <3>1. \A b \in Start(i)'..slot'[i].offset - 1 : data'[b] = << rec, b - Start(i)' >>
      BY <3>a, <3>c
    <3> QED
      BY <3>1, <2>1, <1>5
  <2>5. CASE Start(i) >= off /\ slot'[i].offset = slot[i].offset /\ Start(i)' = Start(i)
    <3>1. \A b \in Start(i)'..slot'[i].offset - 1 : data'[b] = << rec, b - Start(i)' >>
      BY <2>3, <2>5
    <3> QED
      BY <3>1, <2>1, <1>5
  <2> QED
    BY <1>5, <2>4, <2>5
<1> QED
  BY <1>6, <1>7, <1>8, <1>9 DEF PageInv

-----------------------------------------------------------------------------
(* Steps that leave the page alone.                                        *)
page == << slot, slotCnt, usedPtr, data >>

LEMMA SamePage ==
  ASSUME PageInv, UNCHANGED page, freeSpace' \in Int, cursor' \in Nat,
         walk' \in {"idle", "on", "done"}
  PROVE  PageInv' /\ Used' = Used
<1>1. Used' = Used
  BY DEF page, Used
<1>2. TypeOK' /\ DirectoryFits'
  BY DEF page, PageInv, TypeOK, DirectoryFits
<1>3. RecordsDisjoint' /\ RecordsWhole'
  BY <1>1 DEF page, PageInv, RecordsDisjoint, RecordsWhole, Start
<1> QED
  BY <1>1, <1>2, <1>3 DEF PageInv

(* A step of an iteration: the next used slot, or the end.                 *)
LEMMA Reach ==
  ASSUME TypeOK, NEW i \in Nat, NEW before, ReachesFrom(i, before)
  PROVE  /\ cursor' \in Nat /\ walk' \in {"on", "done"}
         /\ walk' = "done" => seen' = before /\ \A j \in Used : j < i
         /\ walk' = "on" => /\ cursor' \in Used /\ cursor' >= i
                           /\ seen' = before \cup {cursor'}
                           /\ \A j \in Used : j >= i => cursor' <= j
<1> DEFINE later == {j \in Used : j >= i}
           next == CHOOSE j \in later : \A k \in later : j <= k
<1>1. Used \subseteq Nat
  BY DEF Used, TypeOK
<1>2. CASE later = {}
  BY <1>1, <1>2 DEF ReachesFrom, TypeOK
<1>3. CASE later # {}
  <2>1. \E j \in later : \A k \in later : j <= k
    <3>1. later \subseteq Nat
      BY <1>1
    <3> HIDE DEF later
    <3> QED
      BY <3>1, <1>3, Least
  <2>2. next \in later /\ \A k \in later : next <= k
    BY <2>1
  <2>3. walk' = "on" /\ cursor' = next /\ seen' = before \cup {next}
    BY <1>3 DEF ReachesFrom
  <2> HIDE DEF next
  <2> QED
    BY <1>1, <2>2, <2>3
<1> QED
  BY <1>2, <1>3

(* What an iteration step does to the page: nothing.                       *)
LEMMA WalkStep ==
  ASSUME PageInv, firstRecord \/ nextRecord
  PROVE  UNCHANGED << page, freeSpace >> /\ PageInv' /\ Used' = Used
<1>1. UNCHANGED << page, freeSpace >>
  BY DEF firstRecord, nextRecord, page
<1>2. cursor' \in Nat /\ walk' \in {"idle", "on", "done"}
  <2>1. CASE firstRecord
    BY <2>1, Reach, 0 \in Nat DEF firstRecord, PageInv
  <2>2. CASE nextRecord
    <3>1. cursor \in Nat /\ cursor + 1 \in Nat
      BY DEF PageInv, TypeOK
    <3>2. \/ walk' = "idle" /\ cursor' = cursor
          \/ ReachesFrom(cursor + 1, seen)
      BY <2>2 DEF nextRecord
    <3> QED
      BY <3>1, <3>2, Reach DEF PageInv
  <2> QED
    BY <2>1, <2>2
<1>3. freeSpace' \in Int
  BY <1>1 DEF PageInv, TypeOK
<1> QED
  BY <1>1, <1>2, <1>3, SamePage

(* The bytes of every record stay whole and records never overlap, for     *)
(* pages, slots and records of any size (hfpage.C:70-153).                 *)
LEMMA InitPage == Init => PageInv
<1> SUFFICES ASSUME Init PROVE PageInv
  OBVIOUS
<1> USE PageAssumption
<1>1. Used = {}
  BY DEF Init, Used
<1>2. slot \in [Slots -> SlotType] /\ \A i \in Slots : slot[i].length = EMPTY_SLOT
  BY DEF Init, Empty, SlotType, EMPTY_SLOT
<1>3. TypeOK
  BY <1>2 DEF Init, TypeOK, Blank
<1>4. DirectoryFits
  BY DEF Init, DirectoryFits
<1> QED
  BY <1>1, <1>3, <1>4 DEF PageInv, RecordsDisjoint, RecordsWhole

LEMMA NextPage == PageInv /\ [Next]_vars => PageInv'
<1> SUFFICES ASSUME PageInv, [Next]_vars PROVE PageInv'
  OBVIOUS
<1>1. ASSUME NEW rec \in Records, insertRecord(rec) PROVE PageInv'
  BY <1>1, InsertKeepsPage
<1>2. ASSUME NEW rec \in Records, insertRefused(rec) PROVE PageInv'
  <2>1. FreeSpace \in Int
    BY PageAssumption DEF FreeSpace, PageInv, TypeOK
  <2> QED
    BY <1>2, <2>1, SamePage DEF insertRefused, page, PageInv, TypeOK
<1>3. ASSUME NEW r \in Used, deleteRecord(r) PROVE PageInv'
  BY <1>3, DeleteKeepsPage
<1>4. CASE firstRecord \/ nextRecord
  BY <1>4, WalkStep
<1>5. CASE UNCHANGED vars
  BY <1>5, SamePage DEF vars, page, PageInv, TypeOK
<1> QED
  BY <1>1, <1>2, <1>3, <1>4, <1>5 DEF Next

THEOREM PageStaysWhole == Spec => []PageInv
BY InitPage, NextPage, PTL DEF Spec

(* A walk that got DONE returned every record that was there all the time, *)
(* whatever was inserted and deleted meanwhile.                            *)
LEMMA NextWalk == PageInv /\ WalkInv /\ [Next]_vars => WalkInv'
<1> SUFFICES ASSUME PageInv, WalkInv, [Next]_vars PROVE WalkInv'
  OBVIOUS
<1> USE DEF WalkInv, WalkMissesNothing
<1>1. ASSUME NEW rec \in Records, insertRecord(rec) PROVE WalkInv'
  BY <1>1, InsertSlots DEF insertRecord
<1>2. ASSUME NEW rec \in Records, insertRefused(rec) PROVE WalkInv'
  BY <1>2 DEF insertRefused, Used
<1>3. ASSUME NEW r \in Used, deleteRecord(r) PROVE WalkInv'
  <2>1. Used' = Used \ {r}
    BY <1>3, DeleteSlots
  <2>2. staying' = staying \ {r} /\ UNCHANGED << cursor, walk, seen >>
    BY <1>3 DEF deleteRecord
  <2> QED
    BY <2>1, <2>2
<1>4. CASE firstRecord
  <2>1. Used' = Used /\ staying' = Used /\ ReachesFrom(0, {})
    BY <1>4, WalkStep DEF firstRecord
  <2>2. Used \subseteq Nat
    BY DEF Used, PageInv, TypeOK
  <2>3. PICK q : q = cursor'
    OBVIOUS
  <2>4. /\ walk' \in {"on", "done"} /\ q \in Nat
        /\ walk' = "done" => \A j \in Used : j < 0
        /\ walk' = "on" => seen' = {q} /\ \A j \in Used : j >= 0 => q <= j
    BY <2>1, <2>3, Reach, 0 \in Nat DEF PageInv
  <2>5. \A j \in Used : j \in Nat /\ j >= 0 /\ ~ (j < 0)
    BY <2>2
  <2>6. walk' = "on" => \A j \in staying' : j <= q => j \in seen'
    BY <2>1, <2>4, <2>5
  <2> QED
    BY <2>1, <2>3, <2>4, <2>5, <2>6
<1>5. CASE nextRecord
  <2>1. Used' = Used /\ staying' = staying /\ walk = "on"
    BY <1>5, WalkStep DEF nextRecord
  <2>2. staying \subseteq Nat /\ staying \subseteq Used /\ cursor \in Nat
    BY DEF Used, PageInv, TypeOK
  <2>3. CASE walk' = "idle"
    BY <2>1, <2>2, <2>3
  <2>4. CASE ReachesFrom(cursor + 1, seen)
    <3>1. PICK q : q = cursor'
      OBVIOUS
    <3>2. /\ walk' \in {"on", "done"} /\ q \in Nat
          /\ walk' = "done" => seen' = seen /\ \A j \in Used : j < cursor + 1
          /\ walk' = "on" => /\ seen' = seen \cup {q}
                            /\ \A j \in Used : j >= cursor + 1 => q <= j
      BY <2>2, <2>4, <3>1, Reach, cursor + 1 \in Nat DEF PageInv
    <3>3. \A j \in staying : j \in Nat /\ (j < cursor + 1 => j \in seen)
      BY <2>1, <2>2
    <3>4. walk' = "on" => \A j \in staying : j <= q => j \in seen'
      BY <2>2, <3>2, <3>3
    <3>5. walk' = "done" => staying \subseteq seen'
      BY <2>2, <3>2, <3>3
    <3> QED
      BY <2>1, <2>2, <3>1, <3>2, <3>4, <3>5
  <2> QED
    BY <1>5, <2>3, <2>4 DEF nextRecord
<1>6. CASE UNCHANGED vars
  BY <1>6 DEF vars, Used
<1> QED
  BY <1>1, <1>2, <1>3, <1>4, <1>5, <1>6 DEF Next

THEOREM WalksMissNothing == Spec => []WalkMissesNothing
<1>1. Init => WalkInv
  BY DEF Init, WalkInv, WalkMissesNothing
<1>2. WalkInv => WalkMissesNothing
  BY DEF WalkInv
<1> QED
  BY <1>1, <1>2, PageStaysWhole, NextWalk, PTL DEF Spec

(* A new record takes the bytes from the new usedPtr to the old one.       *)
LEMMA InsertSpace ==
  ASSUME PageInv, SpaceIsExact, NEW rec \in Records, insertRecord(rec)
  PROVE  SpaceIsExact'
<1> DEFINE len == LengthOf[rec]
           grows == IF Holes = {} THEN 1 ELSE 0
<1>0. PICK e : e = EmptySlotIndex
  OBVIOUS
<1>1. /\ Used' = Used \cup {e}
      /\ slot'[e] = [offset |-> usedPtr, length |-> len]
      /\ \A i \in Used : slot'[i] = slot[i]
      /\ len \in 1..usedPtr
  BY <1>0, InsertSlots
<1>2. /\ usedPtr' = usedPtr - len /\ slotCnt' = slotCnt + grows
      /\ freeSpace' = FreeSpace - grows * SlotSize - len
  BY DEF insertRecord
<1>3. usedPtr \in 0..DataSize /\ slotCnt \in Nat /\ DataSize \in Nat /\ SlotSize \in Nat
  BY PageAssumption DEF PageInv, TypeOK
<1>4. ASSUME NEW b \in usedPtr'..DataSize - 1
      PROVE  \E i \in Used' : Start(i)' <= b /\ b < slot'[i].offset
  <2>1. CASE b < usedPtr
    BY <2>1, <1>1, <1>2, <1>3 DEF Start
  <2>2. CASE b >= usedPtr
    <3>1. b \in usedPtr..DataSize - 1
      BY <2>2, <1>3, <1>2, <1>1
    <3>2. PICK i \in Used : Start(i) <= b /\ b < slot[i].offset
      BY <3>1 DEF SpaceIsExact
    <3> QED
      BY <3>2, <1>1 DEF Start
  <2> QED
    BY <2>1, <2>2, <1>1, <1>2, <1>3
<1>5. FreeSpaceIsExact'
  <2>1. freeSpace' = usedPtr + SlotSize * (1 - slotCnt) - grows * SlotSize - len
    <3>1. freeSpace' = FreeSpace - grows * SlotSize - len
      BY <1>2
    <3>2. FreeSpace = usedPtr + SlotSize * (1 - slotCnt)
      BY DEF FreeSpace
    <3>3. PICK l \in Int, g \in Int : l = len /\ g = grows
      BY <1>1
    <3> HIDE DEF len, grows
    <3> QED
      BY <3>1, <3>2, <3>3, <1>3
  <2>2. len \in Int /\ grows \in {0, 1}
    BY <1>1
  <2> HIDE DEF len, grows
  <2>3. grows * SlotSize = SlotSize * grows
    BY <2>2, <1>3
  <2>4. freeSpace' = usedPtr' - SlotSize * (slotCnt' - 1)
    BY <2>1, <2>2, <2>3, <1>2, <1>3
  <2> QED
    BY <2>4 DEF FreeSpaceIsExact
<1> QED
  BY <1>4, <1>5 DEF SpaceIsExact

(* The records below a deleted one move up to where its bytes end: they    *)
(* cover what they covered, moved by its length.                           *)
LEMMA DeleteSpace ==
  ASSUME PageInv, SpaceIsExact, NEW r \in Used, deleteRecord(r)
  PROVE  SpaceIsExact'
<1> DEFINE len == slot[r].length
           off == slot[r].offset
<1>1. Used' = Used \ {r} /\ slotCnt' \in 0..slotCnt
  BY DeleteSlots
<1>2. usedPtr' = usedPtr + len /\ freeSpace' = freeSpace + len + SlotSize * (slotCnt - slotCnt')
  BY DEF deleteRecord, Moved, Without
<1>3. /\ usedPtr \in 0..DataSize /\ slotCnt \in Nat /\ DataSize \in Nat /\ SlotSize \in Nat
      /\ len \in 1..DataSize /\ off \in 1..DataSize /\ Start(r) = off - len
      /\ usedPtr <= Start(r) /\ slotCnt > 0
  BY UsedSlot, PageAssumption DEF PageInv, TypeOK, Start
<1>4. \A i \in Used \ {r} :
        /\ slot[i].offset \in 1..DataSize /\ Start(i) \in Int
        /\ \/ /\ slot[i].offset <= Start(r)
              /\ slot'[i].offset = slot[i].offset + len /\ Start(i)' = Start(i) + len
           \/ /\ Start(i) >= off
              /\ slot'[i].offset = slot[i].offset /\ Start(i)' = Start(i)
  BY DeletePlaces DEF Start
<1>5. ASSUME NEW b \in usedPtr'..DataSize - 1
      PROVE  \E i \in Used' : Start(i)' <= b /\ b < slot'[i].offset
  <2>0. b \in Int
    OBVIOUS
  <2>1. CASE b < off
    <3>1. b - len \in usedPtr..DataSize - 1 /\ b - len < Start(r)
      BY <2>1, <1>2, <1>3
    <3>2. PICK i \in Used : Start(i) <= b - len /\ b - len < slot[i].offset
      BY <3>1 DEF SpaceIsExact
    <3>3. i \in Used \ {r}
      BY <3>1, <3>2, <1>3
    <3>4. slot'[i].offset = slot[i].offset + len /\ Start(i)' = Start(i) + len
      BY <3>1, <3>2, <3>3, <1>3, <1>4
    <3> QED
      BY <2>0, <3>2, <3>3, <3>4, <1>1, <1>3, <1>4
  <2>2. CASE b >= off
    <3>1. b \in usedPtr..DataSize - 1
      BY <2>2, <1>2, <1>3
    <3>2. PICK i \in Used : Start(i) <= b /\ b < slot[i].offset
      BY <3>1 DEF SpaceIsExact
    <3>3. i \in Used \ {r}
      BY <2>2, <3>2, <1>3
    <3>4. slot'[i].offset = slot[i].offset /\ Start(i)' = Start(i)
      BY <2>2, <3>2, <3>3, <1>3, <1>4
    <3> QED
      BY <3>2, <3>3, <3>4, <1>1
  <2> QED
    BY <2>0, <2>1, <2>2, <1>3
<1>6. FreeSpaceIsExact'
  <2>1. freeSpace = usedPtr - SlotSize * (slotCnt - 1)
    BY <1>3 DEF SpaceIsExact, FreeSpaceIsExact
  <2>2. PICK n \in Nat : n = slotCnt'
    BY <1>1, <1>3
  <2>3. len \in Int /\ usedPtr \in Int
    BY <1>3
  <2> HIDE DEF len
  <2>4. freeSpace' = usedPtr + len - SlotSize * (n - 1)
    BY <2>1, <2>2, <2>3, <1>2, <1>3
  <2> QED
    <3>1. usedPtr' = usedPtr + len
      BY <1>2
    <3>2. freeSpace' = usedPtr' - SlotSize * (slotCnt' - 1)
      BY <2>2, <2>3, <2>4, <3>1, <1>3
    <3> QED
      BY <3>2 DEF FreeSpaceIsExact
<1> QED
  BY <1>5, <1>6 DEF SpaceIsExact

(* Of the space only insertRecord and deleteRecord take and give; a        *)
(* refused insertion only counts it again.                                 *)
LEMMA SameSpace ==
  ASSUME PageInv, SpaceIsExact, UNCHANGED page,
         freeSpace' = freeSpace \/ freeSpace' = FreeSpace
  PROVE  SpaceIsExact'
<1>1. Used' = Used
  BY DEF page, Used
<1>2. \A b \in usedPtr'..DataSize - 1 : \E i \in Used' : Start(i)' <= b /\ b < slot'[i].offset
  BY <1>1 DEF page, Start, SpaceIsExact
<1>3. usedPtr \in Int /\ slotCnt \in Int /\ SlotSize \in Int
  BY PageAssumption DEF PageInv, TypeOK
<1>4. SlotSize * (1 - slotCnt) = - (SlotSize * (slotCnt - 1))
  BY <1>3
<1>5. FreeSpace = usedPtr - SlotSize * (slotCnt - 1)
  BY <1>3, <1>4 DEF FreeSpace
<1>6. FreeSpaceIsExact'
  BY <1>5 DEF page, SpaceIsExact, FreeSpaceIsExact
<1> QED
  BY <1>2, <1>6 DEF SpaceIsExact

LEMMA NextSpace == PageInv /\ SpaceIsExact /\ [Next]_vars => SpaceIsExact'
<1> SUFFICES ASSUME PageInv, SpaceIsExact, [Next]_vars PROVE SpaceIsExact'
  OBVIOUS
<1>1. ASSUME NEW rec \in Records, insertRecord(rec) PROVE SpaceIsExact'
  BY <1>1, InsertSpace
<1>2. ASSUME NEW rec \in Records, insertRefused(rec) PROVE SpaceIsExact'
  BY <1>2, SameSpace DEF insertRefused, page
<1>3. ASSUME NEW r \in Used, deleteRecord(r) PROVE SpaceIsExact'
  BY <1>3, DeleteSpace
<1>4. CASE firstRecord \/ nextRecord
  BY <1>4, WalkStep, SameSpace
<1>5. CASE UNCHANGED vars
  BY <1>5, SameSpace DEF vars, page
<1> QED
  BY <1>1, <1>2, <1>3, <1>4, <1>5 DEF Next

(* No byte of a deleted record is lost: all that is not free belongs to a  *)
(* record or to the directory, and the page knows how much is free         *)
(* (hfpage.C:128-151).                                                     *)
THEOREM SpaceStaysExact == Spec => []SpaceIsExact
<1>1. Init => SpaceIsExact
  <2> SUFFICES ASSUME Init PROVE SpaceIsExact
    OBVIOUS
  <2>1. usedPtr = DataSize /\ slotCnt = 0 /\ DataSize \in Nat
    BY PageAssumption DEF Init
  <2>2. usedPtr..DataSize - 1 = {}
    BY <2>1
  <2> QED
    BY <2>1, <2>2 DEF SpaceIsExact, FreeSpaceIsExact
<1> QED
  BY <1>1, PageStaysWhole, NextSpace, PTL DEF Spec

-----------------------------------------------------------------------------
(* The page implements numbered records that never change: each operation  *)
(* adds one, removes one or leaves them all as they were.                  *)
LEMMA InsertAdds ==
  ASSUME PageInv, NEW rec \in Records, insertRecord(rec)
  PROVE  \E e \in Slots : Abstract!Insert(e, rec)
<1> USE PageAssumption
<1>0. PICK e : e = EmptySlotIndex
  OBVIOUS
<1>1. /\ e \in Slots \ Used /\ Used' = Used \cup {e}
      /\ slot'[e] = [offset |-> usedPtr, length |-> LengthOf[rec]]
      /\ \A i \in Used : slot'[i] = slot[i]
      /\ LengthOf[rec] \in 1..usedPtr
  BY <1>0, InsertSlots
<1>2. data' = [b \in Bytes |-> IF usedPtr - LengthOf[rec] <= b /\ b < usedPtr
                              THEN << rec, b - (usedPtr - LengthOf[rec]) >> ELSE data[b]]
  BY DEF insertRecord
<1>3. usedPtr \in 0..DataSize
  BY DEF PageInv, TypeOK
<1>4. \A i \in Used : Start(i)' = Start(i) /\ data'[Start(i)] = data[Start(i)]
  <2> SUFFICES ASSUME NEW i \in Used PROVE Start(i)' = Start(i) /\ data'[Start(i)] = data[Start(i)]
    OBVIOUS
  <2>1. Start(i) \in Bytes /\ usedPtr <= Start(i)
    BY UsedSlot DEF PageInv
  <2> QED
    BY <1>1, <1>2, <1>3, <2>1 DEF Start, Bytes
<1>5. Start(e)' = usedPtr - LengthOf[rec] /\ data'[usedPtr - LengthOf[rec]] = << rec, 0 >>
  <2>1. usedPtr - LengthOf[rec] \in Bytes
    BY <1>1, <1>3 DEF Bytes
  <2> QED
    BY <1>1, <1>2, <1>3, <2>1 DEF Start
<1>6. Contents' = [i \in Used \cup {e} |-> IF i = e THEN rec ELSE Contents[i]]
  <2>1. Contents' = [i \in Used \cup {e} |-> data'[Start(i)'][1]]
    BY <1>1 DEF Contents
  <2>2. \A i \in Used : data'[Start(i)'][1] = Contents[i]
    BY <1>4 DEF Contents
  <2>3. data'[Start(e)'][1] = rec
    BY <1>5
  <2> QED
    BY <2>1, <2>2, <2>3, <1>1
<1> QED
  BY <1>1, <1>6 DEF Abstract!Insert, Contents

LEMMA DeleteRemoves ==
  ASSUME PageInv, NEW r \in Used, deleteRecord(r)
  PROVE  r \in Slots /\ Abstract!Delete(r)
<1> USE PageAssumption
<1>1. slot' = Moved(r) /\ Used' = Used \ {r}
  BY DeleteSlots
<1>2. data' = [b \in Bytes |-> IF usedPtr + slot[r].length <= b /\ b < slot[r].offset
                              THEN data[b - slot[r].length] ELSE data[b]]
  BY DEF deleteRecord
<1>3. /\ usedPtr \in 0..DataSize /\ slot[r].length \in 1..DataSize /\ slot[r].offset \in 1..DataSize
      /\ Start(r) = slot[r].offset - slot[r].length /\ r \in Slots
  BY UsedSlot DEF PageInv, TypeOK, Start
<1>4. ASSUME NEW i \in Used \ {r} PROVE data'[Start(i)'] = data[Start(i)]
  <2>1. /\ i \in Slots /\ slot[i].offset \in 1..DataSize /\ slot[i].length \in 1..DataSize
        /\ Start(i) = slot[i].offset - slot[i].length /\ usedPtr <= Start(i)
        /\ Start(i) \in Bytes
    BY <1>4, UsedSlot DEF PageInv, Start
  <2>2. \/ /\ slot[i].offset <= Start(r)
           /\ slot'[i] = [offset |-> slot[i].offset + slot[r].length, length |-> slot[i].length]
        \/ Start(i) >= slot[r].offset /\ slot'[i] = slot[i]
    BY <1>1, <1>4, <2>1, DeleteMoves
  <2>3. PICK s : s = Start(i)'
    OBVIOUS
  <2>4. CASE /\ slot[i].offset <= Start(r)
             /\ slot'[i] = [offset |-> slot[i].offset + slot[r].length, length |-> slot[i].length]
    <3>1. s = Start(i) + slot[r].length
      BY <1>3, <2>1, <2>3, <2>4 DEF Start
    <3>2. s \in Bytes /\ usedPtr + slot[r].length <= s /\ s < slot[r].offset /\ s - slot[r].length = Start(i)
      BY <1>3, <2>1, <2>4, <3>1 DEF Bytes
    <3> QED
      BY <1>2, <2>3, <3>2
  <2>5. CASE Start(i) >= slot[r].offset /\ slot'[i] = slot[i]
    <3>1. s = Start(i)
      BY <2>3, <2>5 DEF Start
    <3> QED
      BY <1>2, <1>3, <2>1, <2>3, <2>5, <3>1 DEF Bytes
  <2> QED
    BY <2>2, <2>4, <2>5
<1>5. Contents' = [i \in Used \ {r} |-> Contents[i]]
  <2>1. Contents' = [i \in Used \ {r} |-> data'[Start(i)'][1]]
    BY <1>1 DEF Contents
  <2> QED
    BY <2>1, <1>4 DEF Contents
<1> QED
  BY <1>3, <1>5 DEF Abstract!Delete, Contents

LEMMA NextIsAbstract ==
  ASSUME PageInv, [Next]_vars
  PROVE  [Abstract!Next]_Contents
<1>1. ASSUME NEW rec \in Records, insertRecord(rec) PROVE Abstract!Next
  BY <1>1, InsertAdds DEF Abstract!Next
<1>2. ASSUME NEW r \in Used, deleteRecord(r) PROVE Abstract!Next
  BY <1>2, DeleteRemoves DEF Abstract!Next
<1>3. ASSUME UNCHANGED page PROVE Contents' = Contents
  BY <1>3 DEF page, Contents, Used, Start
<1>4. CASE firstRecord \/ nextRecord
  BY <1>4, <1>3, WalkStep
<1>5. ASSUME NEW rec \in Records, insertRefused(rec) PROVE Contents' = Contents
  BY <1>3, <1>5 DEF insertRefused, page
<1>6. CASE UNCHANGED vars
  BY <1>3, <1>6 DEF vars, page
<1> QED
  BY <1>1, <1>2, <1>4, <1>5, <1>6 DEF Next

THEOREM PageIsRecordPage == Spec => ImplementsRecordPage
<1>1. Init => Abstract!Init
  BY DEF Init, Abstract!Init, Contents, Used
<1>2. PageInv /\ [Next]_vars => [Abstract!Next]_Contents
  BY NextIsAbstract
<1> QED
  BY <1>1, <1>2, PageStaysWhole, PTL DEF Spec, Abstract!Spec, ImplementsRecordPage
=============================================================================
