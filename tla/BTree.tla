------------------------------- MODULE BTree --------------------------------
(***************************************************************************)
(* The B+ tree of Minibase and its scan (src/Minibase/BTree/src/btfile.C,  *)
(* btindex_page.C, btleaf_page.C, sorted_page.C, btreefilescan.C): a root  *)
(* that is a leaf or an index over leaves, leaves linked both ways.        *)
(*                                                                         *)
(* Keys are integers, so all entries of a page have one length, and a page *)
(* is the sequence of its slots (HFPage has the bytes): a deletion leaves  *)
(* a hole that the next insertion into the page takes.  SortedPage then    *)
(* moves the slot to its place.                                            *)
(*                                                                         *)
(* Clients do not insert a key that is in the tree, delete and scan only   *)
(* where the leaf they reach has an entry (the code would read an empty    *)
(* slot), and scan a tree with an index while nobody changes it (a scan    *)
(* remembers slot numbers, which insertions shift).                        *)
(***************************************************************************)
EXTENDS Integers, Sequences, SequencesExt, FiniteSets

CONSTANTS
    Keys,           \* the keys clients use
    Bounds,         \* the keys they begin and end scans with
    LeafCapacity,   \* entries a leaf has space for
    IndexCapacity,  \* entries the root has space for
    MaxLeaves       \* bound: leaves the database gives out

ASSUME TreeAssumption ==
    /\ Keys \subseteq Nat \ {0} /\ Bounds \subseteq Nat \ {0}
    /\ LeafCapacity \in Nat \ {0, 1} /\ IndexCapacity \in Nat \ {0, 1}
    /\ MaxLeaves \in Nat \ {0}

VARIABLES
    tree,           \* [leaf: page -> [slots, next, prev], index: the root's entries]
    scan,           \* the cursor of a scan
    seen,           \* the keys it returned
    keys,           \* the keys that were inserted and not deleted
    disordered,     \* some insertion ended behind a larger key, see Misplaces
    overflowed      \* some leaf got no entry in the index

vars == << tree, scan, seen, keys, disordered, overflowed >>

INVALID_PAGE == -1
NULL == 0
Hole == 0
StartKey == -1
FirstLeaf == 1
Closed == [state |-> "closed", lo |-> NULL, hi |-> NULL, leaf |-> INVALID_PAGE, slot |-> 0, key |-> 0]

(***************************************************************************)
(* The slots of one page.                                                  *)
(***************************************************************************)
Live(slots) == {i \in DOMAIN slots : slots[i] # Hole}
First(S) == CHOOSE i \in S : \A j \in S : i <= j
Empty(slots) == DOMAIN slots \ Live(slots)
(* Mutant: room for one entry more than the page has.                      *)
HasSpaceForOneMore(slots) == Len(slots) <= LeafCapacity
HasSpace(slots) == Empty(slots) # {} \/ Len(slots) < LeafCapacity

(* HFPage::insertRecord takes the first hole or a new slot.                *)
TakenSlot(slots) == IF Empty(slots) = {} THEN Len(slots) + 1 ELSE First(Empty(slots))
Put(slots, key) == IF Empty(slots) = {} THEN Append(slots, key)
                   ELSE [slots EXCEPT ![TakenSlot(slots)] = key]

(* SortedPage::insertRecord looks at as many slots as there are records    *)
(* for the first key that is not smaller.                                  *)
Larger(slots, key) ==
    {i \in 1..Cardinality(Live(slots)) + 1 :
        i \in Live(slots) /\ slots[i] >= key}

(* Mutant: a key goes behind the first larger one.                         *)
SortedBehind(slots, key) ==
    LET put == Put(slots, key)
        from == TakenSlot(slots)
        n == Cardinality(Live(put))
        to == IF Larger(slots, key) = {} THEN n ELSE First(Larger(slots, key))
    IN  IF to <= Len(slots) THEN InsertAt(RemoveAt(put, from), to, key) ELSE put
Sorted(slots, key) ==
    LET put == Put(slots, key)
        from == TakenSlot(slots)
        n == Cardinality(Live(put))
        to == IF Larger(slots, key) = {} THEN n + 1 ELSE First(Larger(slots, key))
    IN  CASE to = Len(put) + 1 -> put                  \* newSlot == slotCnt
          [] to < from -> InsertAt(RemoveAt(put, from), to, key)
          [] from < to /\ to <= Len(put) -> InsertAt(RemoveAt(put, from), to - 1, key)

(* The insertion stays in a hole, or ends in the middle, although slots    *)
(* behind it were not compared.                                            *)
Misplaces(slots, key) == Empty(slots) # {} /\ Larger(slots, key) = {}

(* Holes at the end are given back, slot 0 never.                          *)
Without(slots, i) ==
    LET holed == [slots EXCEPT ![i] = Hole]
        last == CHOOSE n \in 1..Len(slots) : /\ \A j \in n + 1..Len(slots) : holed[j] = Hole
                                             /\ n = 1 \/ holed[n] # Hole
    IN  SubSeq(holed, 1, last)

(* A page that has had a record is never empty() again.                    *)
(* Mutant: a page is empty when it has no record.                          *)
EmptyOfRecords(slots) == Live(slots) = {}
empty(slots) == slots = << >>

(***************************************************************************)
(* The index and the descent: the last child whose key is not larger.      *)
(***************************************************************************)
tree_level(t) == IF t.index = << >> THEN 1 ELSE 2

get_page_no(index, key) ==
    LET reached == {i \in DOMAIN index : key = NULL \/ key <= index[i].key}
    IN  CASE reached = {} -> index[Len(index)].page
          [] reached # {} /\ (First(reached) = 1 \/ key = index[First(reached)].key)
                -> index[First(reached)].page
          [] OTHER -> index[First(reached) - 1].page

Descend(t, key) == IF tree_level(t) = 1 THEN FirstLeaf ELSE get_page_no(t.index, key)

(* A separator goes before the first that is not smaller; what insertKey   *)
(* answers is ignored, so in a full index it goes nowhere.                 *)
WithSeparator(index, key, p) ==
    LET i == First({j \in 1..Len(index) + 1 : j = Len(index) + 1 \/ index[j].key >= key})
    IN  IF Len(index) < IndexCapacity THEN InsertAt(index, i, [key |-> key, page |-> p]) ELSE index

(***************************************************************************)
(* The split of a full leaf: its upper half moves to a new leaf behind it. *)
(* A leaf without holes is split: with a hole it has space.                *)
(***************************************************************************)
Linked(leaf, p, q) ==
    [r \in DOMAIN leaf |-> CASE r = p -> [leaf[p] EXCEPT !.next = q]
                             [] r # p /\ r = leaf[p].next -> [leaf[r] EXCEPT !.prev = q]
                             [] OTHER -> leaf[r]]

(* Mutant: the record in the middle is moved, and stays.                   *)
UpperHalfAndMiddle(slots, mid) == SubSeq(slots, mid, Len(slots))
UpperHalf(slots, mid) == SubSeq(slots, mid + 1, Len(slots))

Split(t, p) ==
    LET old == t.leaf[p]
        q == Cardinality(DOMAIN t.leaf) + 1
        mid == Len(old.slots) \div 2
        upper == UpperHalf(old.slots, mid)
        new == [slots |-> upper, next |-> old.next, prev |-> p]
        halved == [Linked(t.leaf, p, q) EXCEPT ![p].slots = SubSeq(old.slots, 1, mid)]
    IN  [leaf |-> [r \in DOMAIN t.leaf \cup {q} |-> IF r = q THEN new ELSE halved[r]],
         index |-> IF tree_level(t) = 1
                   THEN << [key |-> StartKey, page |-> p], [key |-> upper[1], page |-> q] >>
                   ELSE WithSeparator(t.index, upper[1], q)]

Init ==
    /\ tree = [leaf |-> [p \in {FirstLeaf} |->
                            [slots |-> << >>, next |-> INVALID_PAGE, prev |-> INVALID_PAGE]],
               index |-> << >>]
    /\ scan = Closed /\ seen = {}
    /\ keys = {} /\ disordered = FALSE /\ overflowed = FALSE

(***************************************************************************)
(* BTreeFile::insert: a leaf that is empty() is initialised again, a full  *)
(* one is split and the descent begins anew.                               *)
(***************************************************************************)
PutInLeaf(t, p, key) ==
    LET leaf == IF empty(t.leaf[p].slots)
                THEN [slots |-> << >>, next |-> INVALID_PAGE, prev |-> INVALID_PAGE]
                ELSE t.leaf[p]
    IN  [t EXCEPT !.leaf[p] = [leaf EXCEPT !.slots = Sorted(@, key)]]

Quiet == scan.state = "closed" /\ UNCHANGED << scan, seen >>

insert(key) ==
    LET p == Descend(tree, key)
        slots == tree.leaf[p].slots
    IN  /\ Quiet
        /\ key \notin keys
        /\ HasSpace(slots)
        /\ tree' = PutInLeaf(tree, p, key)
        /\ disordered' = (disordered \/ Misplaces(slots, key))
        /\ keys' = keys \cup {key}
        /\ UNCHANGED overflowed

insertSplits(key) ==
    LET p == Descend(tree, key)
        split == Split(tree, p)
        q == Descend(split, key)
    IN  /\ Quiet
        /\ key \notin keys
        /\ ~ HasSpace(tree.leaf[p].slots)
        /\ Cardinality(DOMAIN tree.leaf) < MaxLeaves
        /\ tree' = PutInLeaf(split, q, key)
        /\ overflowed' = (overflowed \/ Len(split.index) = Len(tree.index))
        /\ keys' = keys \cup {key}
        /\ UNCHANGED disordered

(* BTreeFile::Delete of the first equal key in the leaf it descends to.    *)
Delete(key) ==
    LET p == Descend(tree, key)
        slots == tree.leaf[p].slots
        equal == {i \in Live(slots) : slots[i] = key}
    IN  /\ Quiet
        /\ Live(slots) # {}
        /\ equal # {}
        /\ tree' = [tree EXCEPT !.leaf[p].slots = Without(slots, First(equal))]
        /\ keys' = keys \ {key}
        /\ UNCHANGED << disordered, overflowed >>

(***************************************************************************)
(* BTreeFileScan.                                                          *)
(***************************************************************************)
new_scan(lo, hi) ==
    /\ scan.state = "closed"
    /\ tree_level(tree) = 2
    /\ scan' = [Closed EXCEPT !.state = "new", !.lo = lo, !.hi = hi,
                              !.leaf = get_page_no(tree.index, lo)]
    /\ seen' = {}
    /\ UNCHANGED << tree, keys, disordered, overflowed >>

Done == scan' = [scan EXCEPT !.state = "done"] /\ UNCHANGED seen
Return(p, i) == /\ scan' = [scan EXCEPT !.state = "on", !.leaf = p, !.slot = i,
                                        !.key = tree.leaf[p].slots[i]]
                /\ seen' = seen \cup {tree.leaf[p].slots[i]}
(* Mutant: the end of the range is not in the range.                       *)
PastOrAt(key) == scan.hi # NULL /\ scan.hi <= key
Past(key) == scan.hi # NULL /\ scan.hi < key

(* The first get_next looks for lo in one leaf.  It compares the key it    *)
(* found with the one behind it, and if there is none, with itself,        *)
(* forever.                                                                *)
get_first ==
    LET slots == tree.leaf[scan.leaf].slots
        from == {i \in Live(slots) : scan.lo = NULL \/ scan.lo <= slots[i]}
        i == First(from)
    IN  /\ scan.state = "new"
        /\ Live(slots) # {}
        /\ CASE from = {} -> Done
             [] from # {} /\ scan.lo # NULL /\ ~ \E j \in Live(slots) : j > i ->
                    scan' = [scan EXCEPT !.state = "hung"] /\ UNCHANGED seen
             [] from # {} /\ (scan.lo = NULL \/ \E j \in Live(slots) : j > i) ->
                    IF Past(slots[i]) THEN Done ELSE Return(scan.leaf, i)
        /\ UNCHANGED << tree, keys, disordered, overflowed >>

(* The next ones: the end of the range is not tested when a leaf begins.   *)
get_next ==
    LET slots == tree.leaf[scan.leaf].slots
        later == {i \in Live(slots) : i > scan.slot}
        next == tree.leaf[scan.leaf].next
    IN  /\ scan.state = "on"
        /\ CASE later # {} ->
                  IF Past(slots[First(later)]) THEN Done ELSE Return(scan.leaf, First(later))
             [] later = {} /\ (Past(scan.key) \/ next = INVALID_PAGE) -> Done
             [] later = {} /\ ~ Past(scan.key) /\ next # INVALID_PAGE ->
                  Live(tree.leaf[next].slots) # {} /\ Return(next, First(Live(tree.leaf[next].slots)))
        /\ UNCHANGED << tree, keys, disordered, overflowed >>

(* The scan is deleted; a hung one never gets there.                       *)
close_scan ==
    /\ scan.state \notin {"closed", "hung"}
    /\ scan' = Closed /\ seen' = {}
    /\ UNCHANGED << tree, keys, disordered, overflowed >>

Next == \/ \E key \in Keys : insert(key) \/ insertSplits(key) \/ Delete(key)
        \/ \E lo, hi \in Bounds \cup {NULL} : new_scan(lo, hi)
        \/ get_first \/ get_next \/ close_scan

Spec == Init /\ [][Next]_vars

(***************************************************************************)
(* Properties.                                                             *)
(***************************************************************************)
Leaves == DOMAIN tree.leaf
KeysIn(p) == {tree.leaf[p].slots[i] : i \in Live(tree.leaf[p].slots)}

(* The leaves from the first one on, as a scan of everything meets them.   *)
Chain ==
    LET from[n \in 0..Cardinality(Leaves)] ==
            IF n = 0 THEN << FirstLeaf >>
            ELSE LET c == from[n - 1]
                     q == tree.leaf[c[Len(c)]].next
                 IN  IF q = INVALID_PAGE THEN c ELSE Append(c, q)
    IN  from[Cardinality(Leaves)]

TypeOK ==
    /\ Leaves \subseteq 1..MaxLeaves
    /\ \A p \in Leaves : /\ Len(tree.leaf[p].slots) <= LeafCapacity
                         /\ KeysIn(p) \subseteq Keys
                         /\ {tree.leaf[p].next, tree.leaf[p].prev} \subseteq Leaves \cup {INVALID_PAGE}
    /\ Len(tree.index) <= IndexCapacity
    /\ \A i \in DOMAIN tree.index : tree.index[i].page \in Leaves
    /\ scan.state \in {"closed", "new", "on", "done", "hung"} /\ seen \subseteq Keys

(* The leaves form one list, linked both ways, whatever was split and      *)
(* however often a leaf lost all its entries: insert initialises a leaf    *)
(* that is empty(), links included (btfile.C:165).                         *)
LeavesAreLinked ==
    /\ Len(Chain) = Cardinality(Leaves) /\ ToSet(Chain) = Leaves
    /\ \A i \in 1..Len(Chain) - 1 : tree.leaf[Chain[i + 1]].prev = Chain[i]

(* No split or move of slots loses an entry or leaves a second copy: the   *)
(* leaves hold the keys that were inserted and not deleted, once each.     *)
(* This holds in a disordered tree too.                                    *)
EntriesAreKept ==
    /\ UNION {KeysIn(p) : p \in Leaves} = keys
    /\ \A p, q \in Leaves : \A i \in Live(tree.leaf[p].slots), j \in Live(tree.leaf[q].slots) :
            tree.leaf[p].slots[i] = tree.leaf[q].slots[j] => p = q /\ i = j

(* The tree is whole: its leaves are one list that holds the inserted keys *)
(* once each, disordered or not (btfile.C:165, 258).                       *)
TreeInv == TypeOK /\ LeavesAreLinked /\ EntriesAreKept

Ascends(slots) == \A i, j \in Live(slots) : i < j => slots[i] < slots[j]

(* The leaf a descent leads to holds the key if any leaf does, and leaves  *)
(* are sorted, unless an insertion was misplaced or the index overflowed:  *)
(* Delete and insert look in no other leaf (btfile.C:279, 324).            *)
DescentFindsEveryKey ==
    ~ disordered /\ ~ overflowed =>
        /\ \A p \in Leaves : Ascends(tree.leaf[p].slots)
        /\ \A key \in keys : key \in KeysIn(Descend(tree, key))

(* A scan that ended returned every key of its range, none below it and at *)
(* most one above, unless its first leaf had no key to begin with: the     *)
(* leaves follow each other in the order of the separators                 *)
(* (btreefilescan.C:121).                                                  *)
InRange == {key \in keys : scan.lo <= key /\ (scan.hi = NULL \/ key <= scan.hi)}
ScanCoversRange ==
    (scan.state = "done" /\ ~ disordered /\ ~ overflowed /\ (seen # {} \/ scan.lo = NULL)) =>
        /\ InRange \subseteq seen
        /\ Cardinality(seen \ InRange) <= 1
        /\ \A key \in seen : scan.lo <= key

(* sorted_page.C:23: "The records are sorted in increasing key order."     *)
RecordsAreSorted == \A p \in Leaves : Ascends(tree.leaf[p].slots)

(***************************************************************************)
(* The inductive invariant, over a tree t, the leaves c in the order of    *)
(* their links and the keys K that should be in them, so that it can be    *)
(* followed through the split in the middle of an insertion.               *)
(***************************************************************************)
WellFormed(t, n) ==
    /\ t = [leaf |-> t.leaf, index |-> t.index]
    /\ t.leaf \in [1..n -> [slots : Seq(Keys \cup {Hole}), next : 1..n \cup {INVALID_PAGE},
                            prev : 1..n \cup {INVALID_PAGE}]]
    /\ t.index \in Seq([key : Keys \cup {StartKey}, page : 1..n])
    /\ \A p \in 1..n : Len(t.leaf[p].slots) <= LeafCapacity
    /\ Len(t.index) <= IndexCapacity

(* The index comes with the second leaf; its first separator is below all  *)
(* keys.  Only a tree of one leaf has a leaf without slots.                *)
IndexBegins(t, n) ==
    IF n = 1 THEN t.index = << >>
    ELSE /\ \A p \in 1..n : t.leaf[p].slots # << >>
         /\ Len(t.index) >= 2 /\ t.index[1].key = StartKey

InOrder(leaf, c) ==
    /\ c[1] = FirstLeaf /\ leaf[c[Len(c)]].next = INVALID_PAGE
    /\ ToSet(c) = DOMAIN leaf
    /\ \A i, j \in DOMAIN c : c[i] = c[j] => i = j
    /\ \A i \in 1..Len(c) - 1 : leaf[c[i]].next = c[i + 1] /\ leaf[c[i + 1]].prev = c[i]

Holds(leaf, K) ==
    /\ K = UNION {{leaf[p].slots[i] : i \in Live(leaf[p].slots)} : p \in DOMAIN leaf}
    /\ \A p, q \in DOMAIN leaf : \A i \in Live(leaf[p].slots), j \in Live(leaf[q].slots) :
            leaf[p].slots[i] = leaf[q].slots[j] => p = q /\ i = j

Whole(t, c, K) ==
    /\ Len(c) \in 1..MaxLeaves /\ c \in Seq(1..Len(c))
    /\ WellFormed(t, Len(c)) /\ IndexBegins(t, Len(c))
    /\ InOrder(t.leaf, c) /\ Holds(t.leaf, K)

(* Every leaf is in the index, in the order of the links, and its keys are *)
(* between its separator and the next.                                     *)
Separated(t, c) ==
    /\ Len(t.index) = Len(c)
    /\ \A k \in DOMAIN c : t.index[k].page = c[k]
    /\ \A j, k \in DOMAIN c : j < k => t.index[j].key < t.index[k].key
    /\ \A k \in DOMAIN c : \A i \in Live(t.leaf[c[k]].slots) :
            LET key == t.leaf[c[k]].slots[i]
            IN  t.index[k].key <= key /\ (k < Len(c) => key < t.index[k + 1].key)

Searchable(t, c) ==
    /\ \A p \in DOMAIN t.leaf : Ascends(t.leaf[p].slots)
    /\ Len(c) > 1 => Separated(t, c)

(* A scan has returned the keys from its lower bound to the one it stands  *)
(* on, and only that one may be above its upper bound.                     *)
Returned ==
    /\ scan.lo <= scan.key
    /\ seen = {key \in keys : scan.lo <= key /\ key <= scan.key}
    /\ scan.hi # NULL => \A key \in seen : key # scan.key => key <= scan.hi

ScanStands ==
    /\ scan \in [state : {"closed", "new", "on", "done", "hung"}, lo : Bounds \cup {NULL},
                 hi : Bounds \cup {NULL}, leaf : 1..MaxLeaves \cup {INVALID_PAGE}, slot : Nat, key : Nat]
    /\ seen \subseteq Keys
    /\ scan.state # "closed" => tree_level(tree) = 2
    /\ scan.state = "new" => /\ scan.leaf = get_page_no(tree.index, scan.lo) /\ scan.leaf \in Leaves
                             /\ seen = {}
    /\ scan.state = "on" => /\ scan.leaf \in Leaves /\ scan.key \in seen
                            /\ scan.slot \in Live(tree.leaf[scan.leaf].slots)
                            /\ scan.key = tree.leaf[scan.leaf].slots[scan.slot]

(* What every step keeps: the tree is whole; unless an insertion was       *)
(* misplaced or the index overflowed, it can be searched and an open scan  *)
(* has returned the keys up to where it stands (btfile.C:151-331,          *)
(* btreefilescan.C:31-131).                                                *)
IInv ==
    /\ Whole(tree, Chain, keys)
    /\ disordered \in BOOLEAN /\ overflowed \in BOOLEAN
    /\ ~ disordered /\ ~ overflowed => Searchable(tree, Chain)
    /\ ScanStands
    /\ ~ disordered /\ ~ overflowed /\ scan.state = "on" => Returned
    /\ ScanCoversRange
=============================================================================
