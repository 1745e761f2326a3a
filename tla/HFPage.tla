------------------------------- MODULE HFPage -------------------------------
(***************************************************************************)
(* The slotted page of Minibase (src/Minibase/HFPage/src/hfpage.C, and the *)
(* same file under BTree/): records grow down from the end of data[], the  *)
(* slot directory grows up into its first bytes (slot[0] lies before data, *)
(* so slot i > 0 takes the bytes from (i - 1) * SlotSize).                 *)
(*                                                                         *)
(* A byte of data[] is <<rec, k>>, the k-th byte of a record; the offset   *)
(* of a slot is the address after the last byte of its record, as in the   *)
(* code.  An iteration with firstRecord and nextRecord runs between the    *)
(* insertions and deletions.                                               *)
(***************************************************************************)
EXTENDS Integers

CONSTANTS
    Records,        \* the records users insert
    LengthOf,       \* record -> its length
    DataSize,       \* MAX_SPACE - DPFIXED
    SlotSize        \* sizeof(slot_t)

ASSUME PageAssumption == /\ DataSize \in Nat \ {0}
                         /\ SlotSize \in Nat \ {0}
                         /\ LengthOf \in [Records -> Nat \ {0}]

VARIABLES
    slot,           \* slot[i].offset, slot[i].length
    slotCnt, usedPtr, freeSpace,
    data,           \* the bytes of the page
    cursor,         \* the RID an iteration has reached
    walk,           \* "idle", "on", or "done" when nextRecord returned DONE
    seen,           \* the slots the iteration returned
    staying         \* the slots that held a record ever since it began

vars == << slot, slotCnt, usedPtr, freeSpace, data, cursor, walk, seen, staying >>

EMPTY_SLOT == -1
Empty == [offset |-> -1, length |-> EMPTY_SLOT]
Slots == 0..DataSize
Bytes == 0..DataSize - 1
Blank == << "blank", 0 >>

Used == {i \in 0..slotCnt - 1 : slot[i].length # EMPTY_SLOT}
Holes == 0..slotCnt - 1 \ Used

Init ==
    /\ slot = [i \in Slots |-> Empty]
    /\ slotCnt = 0 /\ usedPtr = DataSize /\ freeSpace = DataSize
    /\ data = [b \in Bytes |-> Blank]
    /\ cursor = 0 /\ walk = "idle" /\ seen = {} /\ staying = {}

(* available_space also assigns freeSpace.                                 *)
(* Mutant: the directory is counted with slot 0.                           *)
FreeSpaceSlot0 == usedPtr - SlotSize * slotCnt
FreeSpace == usedPtr + SlotSize * (1 - slotCnt)
(* Mutant: the slot that a new record needs is not counted.                *)
available_space_no_slot == FreeSpace
available_space ==
    CASE Holes # {} -> FreeSpace
      [] Holes = {} /\ FreeSpace < SlotSize -> 0
      [] Holes = {} /\ FreeSpace >= SlotSize -> FreeSpace - SlotSize

(* The first hole, or a new slot at the end of the directory.              *)
(* Mutant: the last slot of the directory is overwritten.                  *)
EmptySlotIndexLast == IF slotCnt = 0 THEN 0 ELSE slotCnt - 1
EmptySlotIndex == IF Holes = {} THEN slotCnt
                  ELSE CHOOSE i \in Holes : \A j \in Holes : i <= j

insertRecord(rec) ==
    LET len == LengthOf[rec]
        i == EmptySlotIndex
        grows == IF Holes = {} THEN 1 ELSE 0
        start == usedPtr - len
    IN  /\ available_space >= len
        /\ slot' = [slot EXCEPT ![i] = [offset |-> usedPtr, length |-> len]]
        /\ slotCnt' = slotCnt + grows
        /\ usedPtr' = start
        /\ freeSpace' = FreeSpace - grows * SlotSize - len
        /\ data' = [b \in Bytes |-> IF start <= b /\ b < usedPtr THEN << rec, b - start >>
                                    ELSE data[b]]
        /\ UNCHANGED << cursor, walk, seen, staying >>

(* DONE: the page is full for this record.                                 *)
insertRefused(rec) ==
    /\ available_space < LengthOf[rec]
    /\ freeSpace' = FreeSpace
    /\ UNCHANGED << slot, slotCnt, usedPtr, data, cursor, walk, seen, staying >>

(* The directory without its trailing holes; slot 0 is never given back.   *)
(* Mutant: the last slot is given back even when it holds a record.        *)
TrimmedByOne(sl, cnt) == cnt - 1
Trimmed(sl, cnt) ==
    CHOOSE n \in 0..cnt : /\ \A i \in n..cnt - 1 : sl[i].length = EMPTY_SLOT
                          /\ cnt > 0 => n > 0
                          /\ n > 1 => sl[n - 1].length # EMPTY_SLOT

(* deleteRecord of a live record: the bytes below it move up over it.      *)
deleteRecord(r) ==
    LET len == slot[r].length
        off == slot[r].offset
        without == [slot EXCEPT ![r] = Empty]
        moved == [i \in Slots |->
                    IF i < slotCnt /\ without[i].length # EMPTY_SLOT /\ without[i].offset < off
                    THEN [without[i] EXCEPT !.offset = @ + len] ELSE without[i]]
        cnt == Trimmed(moved, slotCnt)
    IN  /\ r \in Used
        /\ slot' = moved
        /\ slotCnt' = cnt
        /\ data' = [b \in Bytes |-> IF usedPtr + len <= b /\ b < off THEN data[b - len] ELSE data[b]]
        /\ usedPtr' = usedPtr + len
        /\ freeSpace' = freeSpace + len + SlotSize * (slotCnt - cnt)
        /\ staying' = staying \ {r}
        /\ UNCHANGED << cursor, walk, seen >>

(* firstRecord and nextRecord look for a used slot from a first one on.    *)
(* Mutant: the search starts one slot late.                                *)
ReachesAfter(i, before) ==
    LET later == {j \in Used : j > i}
    IN  IF later = {} THEN walk' = "done" /\ seen' = before /\ UNCHANGED cursor
        ELSE \E j \in later : (\A k \in later : j <= k) /\ walk' = "on" /\ cursor' = j
                              /\ seen' = before \cup {j}
ReachesFrom(i, before) ==
    LET later == {j \in Used : j >= i}
        next == CHOOSE j \in later : \A k \in later : j <= k
    IN  IF later = {} THEN walk' = "done" /\ seen' = before /\ UNCHANGED cursor
        ELSE walk' = "on" /\ cursor' = next /\ seen' = before \cup {next}

firstRecord ==
    /\ ReachesFrom(0, {})
    /\ staying' = Used
    /\ UNCHANGED << slot, slotCnt, usedPtr, freeSpace, data >>

nextRecord ==
    /\ walk = "on"
    /\ IF cursor > slotCnt THEN walk' = "idle" /\ UNCHANGED << cursor, seen >>   \* FAIL
       ELSE ReachesFrom(cursor + 1, seen)
    /\ UNCHANGED << slot, slotCnt, usedPtr, freeSpace, data, staying >>

empty == slotCnt = 0

Next == \/ \E rec \in Records : insertRecord(rec) \/ insertRefused(rec)
        \/ \E r \in Used : deleteRecord(r)
        \/ firstRecord \/ nextRecord

Spec == Init /\ [][Next]_vars

(***************************************************************************)
(* Properties.                                                             *)
(***************************************************************************)
Start(i) == slot[i].offset - slot[i].length

SlotType == [offset : {-1} \cup 1..DataSize, length : {EMPTY_SLOT} \cup 1..DataSize]

(* Every field has its type; past the directory there is no record.        *)
TypeOK ==
    /\ slot \in [Slots -> SlotType]
    /\ slotCnt \in 0..DataSize + 1
    /\ usedPtr \in 0..DataSize
    /\ freeSpace \in Int
    /\ data \in [Bytes -> {Blank} \cup (Records \X (0..DataSize - 1))]
    /\ walk \in {"idle", "on", "done"} /\ cursor \in Nat
    /\ \A i \in Slots : i >= slotCnt => slot[i].length = EMPTY_SLOT

(* Records lie in the used part of the page and no two overlap, whatever   *)
(* was deleted and moved (the memmove of deleteRecord, hfpage.C:129).      *)
RecordsDisjoint ==
    \A i \in Used : /\ usedPtr <= Start(i) /\ slot[i].offset <= DataSize
                    /\ \A j \in Used : i # j => \/ slot[i].offset <= Start(j)
                                                \/ slot[j].offset <= Start(i)

(* The slot directory never grows into the records: its last byte is below *)
(* usedPtr (the test of insertRecord, hfpage.C:83).                        *)
DirectoryFits == SlotSize * (slotCnt - 1) <= usedPtr

(* The bytes of a slot are those of one record, all of them, in order: no  *)
(* move tears a record or leaves a byte behind.                            *)
RecordsWhole ==
    \A i \in Used : \E rec \in Records :
        /\ slot[i].length = LengthOf[rec]
        /\ \A b \in Start(i)..slot[i].offset - 1 : data[b] = << rec, b - Start(i) >>

(* The free space that the page remembers is the free space it has.        *)
FreeSpaceIsExact == slotCnt > 0 => freeSpace = usedPtr - SlotSize * (slotCnt - 1)

(* Deleting gives all the space of a record back: every byte from usedPtr  *)
(* on is a byte of a record, and the page remembers as free what is free   *)
(* (hfpage.C:128-151).                                                     *)
SpaceIsExact ==
    /\ \A b \in usedPtr..DataSize - 1 : \E i \in Used : Start(i) <= b /\ b < slot[i].offset
    /\ FreeSpaceIsExact

PageInv == TypeOK /\ RecordsDisjoint /\ DirectoryFits /\ RecordsWhole

(* A walk with firstRecord and nextRecord that got DONE returned every     *)
(* record that was there all the time, although directory and records      *)
(* changed under it.                                                       *)
WalkMissesNothing == walk = "done" => staying \subseteq seen

(* Its inductive form: a walk has returned what lies up to its cursor.     *)
WalkInv == /\ staying \subseteq Used
           /\ walk = "on" => \A j \in staying : j <= cursor => j \in seen
           /\ WalkMissesNothing

(* The page implements numbered records that never change.                 *)
Contents == [i \in Used |-> data[Start(i)][1]]
Abstract == INSTANCE RecordPage WITH recs <- Contents, Rids <- Slots
ImplementsRecordPage == Abstract!Spec
=============================================================================
