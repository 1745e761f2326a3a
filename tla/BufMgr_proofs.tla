--------------------------- MODULE BufMgr_proofs ----------------------------
(***************************************************************************)
(* Proofs about BufMgr for any number of frames, callers and pages.        *)
(***************************************************************************)
EXTENDS BufMgr, FiniteSetTheorems, WellFoundedInduction, TLAPS

(* A page number hashes to a bucket.                                       *)
LEMMA HashRange == ASSUME NEW p \in Pages PROVE hashFunction(p) \in Buckets
  BY BufMgrAssumption DEF hashFunction, Buckets

(* A nonempty set of natural numbers has a least element.                  *)
LEMMA NatMin ==
  ASSUME NEW T \in SUBSET Nat, T # {}
  PROVE  \E x \in T : \A y \in T : x <= y
<1>1. IsWellFoundedOn(OpToRel(<, Nat), Nat)
  BY NatLessThanWellFounded
<1>2. PICK x \in T : \A y \in T : ~ (<<y, x>> \in OpToRel(<, Nat))
  BY <1>1, WFMin
<1>3. \A y \in T : ~ (y < x)
  BY <1>2 DEF OpToRel
<1> QED BY <1>3

(* What the victim search computes: NextIndex exceeds every index of a     *)
(* resident frame.                                                         *)
LEMMA NextIndexIsNew ==
  ASSUME NEW index \in [Frames -> 0..MaxIndex]
  PROVE  /\ NextIndex(index) \in 1..(MaxIndex + 1)
         /\ \A f \in Frames : pageNumber[f] # INVALID_PAGE => index[f] < NextIndex(index)
<1> DEFINE used == {index[f] : f \in {g \in Frames : pageNumber[g] # INVALID_PAGE}}
           Above(k) == \A x \in used : x < k
           T == {k \in 1..(MaxIndex + 1) : Above(k)}
<1>1. MaxIndex + 1 \in T
  BY BufMgrAssumption
<1>2. PICK k \in T : \A y \in T : k <= y
  <2>1. T \in SUBSET Nat /\ T # {}
    BY <1>1
  <2> QED BY <2>1, NatMin
<1>3. k = 1 \/ k - 1 \in used
  <2>1. SUFFICES ASSUME k # 1 PROVE k - 1 \in used
    OBVIOUS
  <2>2. k - 1 \in 1..(MaxIndex + 1) /\ k - 1 \notin T
    BY <1>2, <2>1, BufMgrAssumption
  <2>3. PICK x \in used : ~ (x < k - 1)
    BY <2>2
  <2>4. x < k /\ x \in Int
    BY <1>2, BufMgrAssumption
  <2> QED BY <1>2, <2>3, <2>4
<1>4. NextIndex(index) \in 1..(MaxIndex + 1) /\ Above(NextIndex(index))
  BY <1>2, <1>3 DEF NextIndex
<1> QED BY <1>4

(* Some frame is the victim unless no unpinned frame is loved or hated.    *)
LEMMA VictimExists ==
  ASSUME TypeOK, Hated \cup Loved # {}
  PROVE  \E f \in Frames : IsVictim(f)
<1>1. CASE Hated # {}
  <2> DEFINE T == {MaxIndex - hateIndex[f] : f \in Hated}
  <2>0. \A f \in Hated : f \in Frames /\ hateIndex[f] \in 0..MaxIndex
    BY DEF TypeOK, Hated
  <2>1. T \in SUBSET Nat /\ T # {}
    <3>1. Hated # {}
      BY <1>1
    <3> QED BY <2>0, <3>1, BufMgrAssumption
  <2>2. PICK h \in Hated : \A g \in Hated : hateIndex[g] <= hateIndex[h]
    <3>1. PICK x \in T : \A y \in T : x <= y
      BY <2>1, NatMin
    <3>2. PICK h \in Hated : x = MaxIndex - hateIndex[h]
      BY <3>1
    <3>3. \A g \in Hated : MaxIndex - hateIndex[h] <= MaxIndex - hateIndex[g]
      BY <3>1, <3>2
    <3> QED BY <3>3, BufMgrAssumption DEF TypeOK, Hated
  <2> DEFINE S == {f \in Hated : hateIndex[f] = hateIndex[h]}
  <2>3. PICK f \in S : \A g \in S : f <= g
    <3>1. S \in SUBSET Nat /\ S # {}
      BY DEF Hated, Frames
    <3> QED BY <3>1, NatMin
  <2>4. f \in Frames /\ f \in Hated
    BY DEF Hated
  <2>5. \A g \in Hated : \/ hateIndex[g] < hateIndex[f]
                         \/ hateIndex[g] = hateIndex[f] /\ f <= g
    BY <2>2, <2>3, BufMgrAssumption DEF TypeOK, Hated
  <2> QED BY <2>4, <2>5 DEF IsVictim
<1>2. CASE Hated = {}
  <2> DEFINE T == {loveIndex[f] : f \in Loved}
  <2>0. \A f \in Loved : f \in Frames /\ loveIndex[f] \in 0..MaxIndex
    BY DEF TypeOK, Loved
  <2>1. T \in SUBSET Nat /\ T # {}
    <3>1. Loved # {}
      BY <1>2
    <3> QED BY <2>0, <3>1, BufMgrAssumption
  <2>2. PICK h \in Loved : \A g \in Loved : loveIndex[h] <= loveIndex[g]
    <3>1. PICK x \in T : \A y \in T : x <= y
      BY <2>1, NatMin
    <3> QED BY <3>1
  <2> DEFINE S == {f \in Loved : loveIndex[f] = loveIndex[h]}
  <2>3. PICK f \in S : \A g \in S : f <= g
    <3>1. S \in SUBSET Nat /\ S # {}
      BY DEF Loved, Frames
    <3> QED BY <3>1, NatMin
  <2>4. f \in Frames /\ f \in Loved
    BY DEF Loved
  <2>5. \A g \in Loved : \/ loveIndex[f] < loveIndex[g]
                         \/ loveIndex[f] = loveIndex[g] /\ f <= g
    BY <2>2, <2>3, BufMgrAssumption DEF TypeOK, Loved
  <2> QED BY <1>2, <2>4, <2>5 DEF IsVictim
<1> QED BY <1>1, <1>2

-----------------------------------------------------------------------------
(* The two ways of finding a page, through the hash table and through the  *)
(* descriptors, agree.                                                     *)
LEMMA Lookup ==
  ASSUME TypeOK, HashMatchesDescriptors, NEW p \in Pages
  PROVE  /\ \A n \in NodesOf(p) : /\ n \in Nodes
                                  /\ n.bufNumber \in Frames
                                  /\ n.pageNumber = p
                                  /\ pageNumber[n.bufNumber] = p
         /\ \A f \in Frames : pageNumber[f] = p => Node(p, f) \in NodesOf(p)
<1>1. hashFunction(p) \in Buckets
  BY HashRange
<1>2. \A n \in NodesOf(p) : n \in Nodes /\ n.pageNumber = p /\ n \in hashTable[hashFunction(p)]
  BY <1>1 DEF NodesOf, TypeOK
<1>3. \A n \in NodesOf(p) : n.bufNumber \in Frames /\ pageNumber[n.bufNumber] = p
  BY <1>1, <1>2 DEF HashMatchesDescriptors, Nodes
<1>4. ASSUME NEW f \in Frames, pageNumber[f] = p PROVE Node(p, f) \in NodesOf(p)
  <2>1. Node(p, f) \in Nodes /\ Node(p, f).pageNumber = p /\ Node(p, f).bufNumber = f
    BY DEF Node, Nodes
  <2> QED BY <1>1, <1>4, <2>1 DEF NodesOf, HashMatchesDescriptors
<1> QED BY <1>2, <1>3, <1>4

LEMMA InitInv == Init => IInv
<1> SUFFICES ASSUME Init PROVE IInv
  OBVIOUS
<1>1. TypeOK
  BY BufMgrAssumption DEF Init, TypeOK, Statuses, INVALID_PAGE, NoFrame
<1>2. HashMatchesDescriptors
  BY BufMgrAssumption DEF Init, HashMatchesDescriptors, Nodes, INVALID_PAGE
<1>3. PinsMatchHandles
  <2>1. \A f \in Frames : Holders(f) = {}
    BY BufMgrAssumption DEF Init, Holders, Frames, NoFrame
  <2> QED BY <2>1, FS_EmptySet DEF Init, PinsMatchHandles, Idle
<1>4. UnpinnedFramesAreCandidates /\ RecencyIsStrict
  BY DEF Init, UnpinnedFramesAreCandidates, RecencyIsStrict
<1>5. CleanPagesAreOnDisk /\ FullMeansAllPinned /\ PinnedPagesAreAllocated
  BY BufMgrAssumption DEF Init, CleanPagesAreOnDisk, FullMeansAllPinned, PinnedPagesAreAllocated, INVALID_PAGE, Idle
<1> QED BY <1>1, <1>2, <1>3, <1>4, <1>5 DEF IInv, PoolInv

-----------------------------------------------------------------------------
(* How the set of pins on a frame changes.                                 *)
LEMMA HoldersFinite ==
  ASSUME NEW f PROVE IsFiniteSet(Holders(f)) /\ Cardinality(Holders(f)) \in Nat
<1>1. Holders(f) \subseteq Clients
  BY DEF Holders
<1> QED BY <1>1, BufMgrAssumption, FS_Subset, FS_CardinalityType

LEMMA HoldersAdd ==
  ASSUME TypeOK, NEW c \in Clients, Idle(c), NEW f \in Frames,
         hframe' = [hframe EXCEPT ![c] = f]
  PROVE  /\ Cardinality(Holders(f))' = Cardinality(Holders(f)) + 1
         /\ \A g \in Frames \ {f} : Holders(g)' = Holders(g)
<1>1. f # NoFrame /\ c \notin Holders(f)
  BY DEF Holders, Idle, Frames, NoFrame
<1>2. Holders(f)' = Holders(f) \cup {c}
  BY DEF Holders, TypeOK
<1>3. Cardinality(Holders(f) \cup {c}) = Cardinality(Holders(f)) + 1
  BY <1>1, HoldersFinite, FS_AddElement
<1>4. \A g \in Frames \ {f} : Holders(g)' = Holders(g)
  BY DEF Holders, TypeOK, Idle, NoFrame, Frames
<1> QED BY <1>2, <1>3, <1>4

LEMMA HoldersRemove ==
  ASSUME TypeOK, NEW c \in Clients, NEW f \in Frames, hframe[c] = f,
         hframe' = [hframe EXCEPT ![c] = NoFrame]
  PROVE  /\ Cardinality(Holders(f)) # 0
         /\ Cardinality(Holders(f))' = Cardinality(Holders(f)) - 1
         /\ \A g \in Frames \ {f} : Holders(g)' = Holders(g)
<1>1. f # NoFrame /\ c \in Holders(f)
  BY DEF Holders, Frames, NoFrame
<1>2. Holders(f)' = Holders(f) \ {c}
  BY <1>1 DEF Holders, TypeOK
<1>3. Cardinality(Holders(f) \ {c}) = Cardinality(Holders(f)) - 1
  BY <1>1, HoldersFinite, FS_RemoveElement
<1>4. Cardinality(Holders(f)) # 0
  BY <1>1, HoldersFinite, FS_EmptySet
<1>5. \A g \in Frames \ {f} : Holders(g)' = Holders(g)
  BY DEF Holders, TypeOK, NoFrame, Frames
<1> QED BY <1>2, <1>3, <1>4, <1>5

(* Most of the invariant speaks of the descriptors, the hash table and the *)
(* pins only.                                                              *)
LEMMA FrameConditions ==
  ASSUME PoolInv, UNCHANGED <<pageNumber, pin_count, loveIndex, hateIndex, hashTable,
                              hpage, hframe>>
  PROVE  /\ HashMatchesDescriptors' /\ PinsMatchHandles'
         /\ UnpinnedFramesAreCandidates' /\ RecencyIsStrict'
         /\ UNCHANGED <<bufPool, disk, unsaved>> => CleanPagesAreOnDisk'
<1>1. HashMatchesDescriptors' /\ RecencyIsStrict'
  BY DEF PoolInv, HashMatchesDescriptors, RecencyIsStrict, hashFunction
<1>2. PinsMatchHandles'
  BY DEF PoolInv, PinsMatchHandles, Holders, Idle
<1>3. UnpinnedFramesAreCandidates'
  BY DEF PoolInv, UnpinnedFramesAreCandidates, Hated, Loved
<1>4. UNCHANGED <<bufPool, disk, unsaved>> => CleanPagesAreOnDisk'
  BY DEF PoolInv, CleanPagesAreOnDisk, Resident
<1> QED BY <1>1, <1>2, <1>3, <1>4

-----------------------------------------------------------------------------
(* The paths of pinPage preserve the pool invariant.                       *)
LEMMA PinHitInv ==
  ASSUME PoolInv, NEW c \in Clients, NEW p \in Pages, Idle(c),
         PinHit(c, p), alloc' \in SUBSET Pages
  PROVE  PoolInv'
<1> USE DEF PoolInv
<1>1. PICK n \in NodesOf(p) :
        /\ pin_count' = [pin_count EXCEPT ![n.bufNumber] = @ + 1]
        /\ HandOut(c, p, n.bufNumber)
        /\ Return("OK")
        /\ UNCHANGED <<pageNumber, dirtyBit, loveIndex, hateIndex, hashTable,
                       bufPool, disk, unsaved, faults>>
  BY DEF PinHit
<1> DEFINE f == n.bufNumber
<1>2. f \in Frames /\ pageNumber[f] = p
  BY Lookup
<1>3. TypeOK'
  BY <1>1, <1>2 DEF TypeOK, HandOut, Return, Statuses, faults
<1>4. HashMatchesDescriptors'
  BY <1>1 DEF HashMatchesDescriptors, hashFunction
<1>5. PinsMatchHandles'
  <2>1. /\ Cardinality(Holders(f))' = Cardinality(Holders(f)) + 1
        /\ \A g \in Frames \ {f} : Holders(g)' = Holders(g)
    BY <1>1, <1>2, HoldersAdd DEF HandOut
  <2>2. \A g \in Frames : pin_count'[g] = Cardinality(Holders(g))'
    BY <1>1, <1>2, <2>1 DEF PinsMatchHandles, TypeOK
  <2>3. \A d \in Clients : IF Idle(d)' THEN hpage'[d] = INVALID_PAGE
          ELSE hpage'[d] \in Pages /\ pageNumber'[hframe'[d]] = hpage'[d]
    BY <1>1, <1>2 DEF PinsMatchHandles, TypeOK, HandOut, Idle, Frames, NoFrame
  <2> QED BY <2>2, <2>3 DEF PinsMatchHandles
<1>6. UnpinnedFramesAreCandidates'
  <2>1. ASSUME NEW g \in Frames, g # f
        PROVE  pin_count'[g] = pin_count[g]
    BY <1>1, <2>1 DEF TypeOK
  <2>2. pin_count'[f] # 0 /\ pageNumber'[f] # INVALID_PAGE
    BY <1>1, <1>2, BufMgrAssumption DEF TypeOK, INVALID_PAGE
  <2> QED BY <1>1, <2>1, <2>2 DEF UnpinnedFramesAreCandidates, Hated, Loved
<1>7. RecencyIsStrict' /\ CleanPagesAreOnDisk' /\ FullMeansAllPinned'
  BY <1>1 DEF RecencyIsStrict, CleanPagesAreOnDisk, FullMeansAllPinned, Return, Resident
<1> QED BY <1>3, <1>4, <1>5, <1>6, <1>7

(* A page that was not in the pool takes over an unpinned frame.           *)
LEMMA InstallInv ==
  ASSUME PoolInv, NEW c \in Clients, NEW p \in Pages, Idle(c),
         NEW f \in Frames, pin_count[f] = 0, ~Resident(p),
         ResetDescriptor(f, p), HandOut(c, p, f),
         hashTable' \in [Buckets -> SUBSET Nodes],
         \A n \in Nodes, b \in Buckets :
           n \in hashTable'[b] <=> \/ n.bufNumber # f /\ n \in hashTable[b]
                                   \/ n = Node(p, f) /\ b = hashFunction(p)
  PROVE  /\ HashMatchesDescriptors'
         /\ PinsMatchHandles'
         /\ UnpinnedFramesAreCandidates'
         /\ RecencyIsStrict'
<1> USE DEF PoolInv
<1>1. /\ pageNumber'[f] = p /\ pin_count'[f] = 1
      /\ loveIndex'[f] = 0 /\ hateIndex'[f] = 0
      /\ \A g \in Frames \ {f} : /\ pageNumber'[g] = pageNumber[g]
                                 /\ pin_count'[g] = pin_count[g]
                                 /\ loveIndex'[g] = loveIndex[g]
                                 /\ hateIndex'[g] = hateIndex[g]
  BY DEF ResetDescriptor, TypeOK
<1>2. HashMatchesDescriptors'
  <2>1. ASSUME NEW b \in Buckets, NEW n \in Nodes
        PROVE  n \in hashTable'[b] <=> /\ pageNumber'[n.bufNumber] = n.pageNumber
                                       /\ hashFunction(n.pageNumber) = b
    <3>1. n.bufNumber \in Frames /\ n.pageNumber \in Pages
      BY DEF Nodes
    <3>2. CASE n.bufNumber = f
      <4>1. n = Node(p, f) <=> n.pageNumber = p
        BY <3>2 DEF Node, Nodes
      <4> QED BY <1>1, <3>2, <4>1
    <3>3. CASE n.bufNumber # f
      <4>1. n # Node(p, f)
        BY <3>3 DEF Node
      <4> QED BY <1>1, <3>1, <3>3, <4>1 DEF HashMatchesDescriptors
    <3> QED BY <3>2, <3>3
  <2>2. ASSUME NEW g \in Frames, NEW h \in Frames, g # h,
               pageNumber'[g] = pageNumber'[h]
        PROVE  pageNumber'[g] = INVALID_PAGE
    BY <1>1, <2>2 DEF HashMatchesDescriptors, Resident
  <2> QED BY <2>1, <2>2 DEF HashMatchesDescriptors, hashFunction
<1>3. PinsMatchHandles'
  <2>1. /\ Cardinality(Holders(f))' = Cardinality(Holders(f)) + 1
        /\ \A g \in Frames \ {f} : Holders(g)' = Holders(g)
    BY HoldersAdd DEF HandOut
  <2>2. Holders(f) = {}
    BY HoldersFinite, FS_EmptySet DEF PinsMatchHandles
  <2>3. \A g \in Frames : pin_count'[g] = Cardinality(Holders(g))'
    BY <1>1, <2>1 DEF PinsMatchHandles
  <2>4. ASSUME NEW d \in Clients
        PROVE  IF Idle(d)' THEN hpage'[d] = INVALID_PAGE
               ELSE hpage'[d] \in Pages /\ pageNumber'[hframe'[d]] = hpage'[d]
    <3>1. CASE d = c
      BY <1>1, <3>1 DEF HandOut, Idle, TypeOK, Frames, NoFrame
    <3>2. CASE d # c
      <4>1. hframe'[d] = hframe[d] /\ hpage'[d] = hpage[d] /\ hframe[d] # f
        BY <2>2, <3>2 DEF HandOut, TypeOK, Holders
      <4>2. hframe[d] = NoFrame \/ hframe[d] \in Frames \ {f}
        BY <4>1 DEF TypeOK
      <4> QED BY <1>1, <4>1, <4>2 DEF PinsMatchHandles, Idle
    <3> QED BY <3>1, <3>2
  <2> QED BY <2>3, <2>4 DEF PinsMatchHandles
<1>4. UnpinnedFramesAreCandidates'
  <2>1. p # INVALID_PAGE
    BY BufMgrAssumption DEF INVALID_PAGE
  <2>2. ASSUME NEW g \in Frames \ {f}
        PROVE  IF pageNumber'[g] = INVALID_PAGE
               THEN pin_count'[g] = 0 /\ loveIndex'[g] = 0 /\ hateIndex'[g] = 0
               ELSE pin_count'[g] = 0 => g \in Hated' \cup Loved'
    BY <1>1 DEF UnpinnedFramesAreCandidates, Hated, Loved
  <2> QED BY <1>1, <2>1, <2>2 DEF UnpinnedFramesAreCandidates
<1>5. RecencyIsStrict'
  BY <1>1 DEF RecencyIsStrict, TypeOK
<1> QED BY <1>2, <1>3, <1>4, <1>5

(* pinPage into the first frame that was never used.                       *)
LEMMA PinFreeInv ==
  ASSUME PoolInv, NEW c \in Clients, NEW p \in Pages, Idle(c),
         PinFree(c, p), alloc' \in SUBSET Pages
  PROVE  PoolInv'
<1> USE DEF PoolInv
<1>1. PICK f \in Frames :
       /\ IsFirstFree(f)
       /\ \/ /\ bufPool' = [bufPool EXCEPT ![f] = disk[p]]
             /\ ResetDescriptor(f, p)
             /\ hashTable' = [hashTable EXCEPT ![hashFunction(p)] = @ \cup {Node(p, f)}]
             /\ HandOut(c, p, f)
             /\ Return("OK")
             /\ UNCHANGED faults
          \/ /\ ReadFails(f)
             /\ UNCHANGED <<descr, hashTable, caller, writeFaults>>
  BY DEF PinFree
<1>2. UNCHANGED <<disk, unsaved>> /\ pageNumber[f] = INVALID_PAGE /\ pin_count[f] = 0
  BY <1>1 DEF PinFree, IsFirstFree, UnpinnedFramesAreCandidates
<1>3. ~Resident(p)
  BY Lookup DEF PinFree, Resident
<1>4. p # INVALID_PAGE /\ hashFunction(p) \in Buckets /\ Node(p, f) \in Nodes
  BY HashRange, BufMgrAssumption DEF INVALID_PAGE, Node, Nodes
<1>5. CASE /\ bufPool' = [bufPool EXCEPT ![f] = disk[p]]
           /\ ResetDescriptor(f, p)
           /\ hashTable' = [hashTable EXCEPT ![hashFunction(p)] = @ \cup {Node(p, f)}]
           /\ HandOut(c, p, f)
           /\ Return("OK")
           /\ UNCHANGED faults
  <2>1. TypeOK'
    <3>1. hashTable' \in [Buckets -> SUBSET Nodes]
      BY <1>4, <1>5 DEF TypeOK
    <3> QED BY <1>2, <1>5, <3>1, BufMgrAssumption
            DEF TypeOK, ResetDescriptor, HandOut, Return, Statuses, faults
  <2>2. ASSUME NEW n \in Nodes, NEW b \in Buckets
        PROVE  n \in hashTable'[b] <=> \/ n.bufNumber # f /\ n \in hashTable[b]
                                       \/ n = Node(p, f) /\ b = hashFunction(p)
    <3>1. n \in hashTable[b] => n.bufNumber # f
      BY <1>2, BufMgrAssumption DEF HashMatchesDescriptors, Nodes, INVALID_PAGE
    <3>2. n \in hashTable'[b] <=> n \in hashTable[b] \/ (n = Node(p, f) /\ b = hashFunction(p))
      BY <1>4, <1>5 DEF TypeOK
    <3> QED BY <3>1, <3>2
  <2>3. /\ HashMatchesDescriptors'
        /\ PinsMatchHandles'
        /\ UnpinnedFramesAreCandidates'
        /\ RecencyIsStrict'
    BY <1>2, <1>3, <1>5, <2>1, <2>2, InstallInv DEF TypeOK
  <2>4. CleanPagesAreOnDisk'
    <3>1. \A q \in unsaved : Resident(q)'
      BY <1>2, <1>4, <1>5, BufMgrAssumption
         DEF CleanPagesAreOnDisk, Resident, ResetDescriptor, TypeOK, INVALID_PAGE
    <3>2. ASSUME ~ShortReads, NEW g \in Frames, pageNumber'[g] \in Pages \ unsaved
          PROVE  bufPool'[g] = disk[pageNumber'[g]]
      BY <1>5, <3>2 DEF CleanPagesAreOnDisk, ResetDescriptor, TypeOK
    <3> QED BY <1>2, <3>1, <3>2 DEF CleanPagesAreOnDisk
  <2>5. FullMeansAllPinned'
    BY <1>5 DEF FullMeansAllPinned, Return
  <2> QED BY <2>1, <2>3, <2>4, <2>5
<1>6. CASE ReadFails(f) /\ UNCHANGED <<descr, hashTable, caller, writeFaults>>
  <2>1. TypeOK'
    BY <1>2, <1>6, BufMgrAssumption DEF TypeOK, ReadFails, Return, Statuses, descr, caller
  <2>2. /\ HashMatchesDescriptors' /\ PinsMatchHandles'
        /\ UnpinnedFramesAreCandidates' /\ RecencyIsStrict'
    BY <1>6, FrameConditions DEF descr, caller
  <2>3. CleanPagesAreOnDisk'
    BY <1>2, <1>6, BufMgrAssumption
       DEF descr, CleanPagesAreOnDisk, Resident, ReadFails, TypeOK, INVALID_PAGE
  <2>4. FullMeansAllPinned'
    BY <1>6 DEF FullMeansAllPinned, ReadFails, Return
  <2> QED BY <2>1, <2>2, <2>3, <2>4
<1> QED BY <1>1, <1>5, <1>6

(* pinPage replaces a victim: writing it out makes its page clean, whatever *)
(* happens next.                                                           *)
LEMMA PinReplaceInv ==
  ASSUME PoolInv, NEW c \in Clients, NEW p \in Pages, NEW emptyPage \in BOOLEAN,
         Idle(c), PinReplace(c, p, emptyPage), alloc' \in SUBSET Pages
  PROVE  PoolInv'
<1> USE DEF PoolInv
<1>1. PICK f \in Frames :
       /\ IsVictim(f)
       /\ \/ /\ writeFaults < MaxWriteFaults
             /\ writeFaults' = writeFaults + 1
             /\ Return("DBMGR")
             /\ UNCHANGED <<descr, hashTable, bufPool, disk, caller, unsaved, readFaults>>
          \/ /\ ~emptyPage
             /\ disk' = [disk EXCEPT ![pageNumber[f]] = bufPool[f]]
             /\ unsaved' = unsaved \ {pageNumber[f]}
             /\ ReadFails(f)
             /\ UNCHANGED <<descr, hashTable, caller, writeFaults>>
          \/ /\ disk' = [disk EXCEPT ![pageNumber[f]] = bufPool[f]]
             /\ bufPool' = IF emptyPage THEN bufPool
                                        ELSE [bufPool EXCEPT ![f] = disk[p]]
             /\ unsaved' = (unsaved \ {pageNumber[f]}) \cup (IF emptyPage THEN {p} ELSE {})
             /\ Rehash(f, p)
             /\ ResetDescriptor(f, p)
             /\ HandOut(c, p, f)
             /\ Return("OK")
             /\ UNCHANGED faults
  BY DEF PinReplace
<1>2. pin_count[f] = 0 /\ pageNumber[f] # INVALID_PAGE /\ pageNumber[f] \in Pages
  BY <1>1 DEF PinReplace, NoFreeFrame, IsVictim, Hated, Loved, TypeOK
<1>3. ~Resident(p) /\ pageNumber[f] # p
  BY Lookup DEF PinReplace, Resident
<1>4. /\ p # INVALID_PAGE /\ hashFunction(p) \in Buckets /\ Node(p, f) \in Nodes
      /\ hashFunction(pageNumber[f]) \in Buckets
  BY <1>2, HashRange, BufMgrAssumption DEF INVALID_PAGE, Node, Nodes
<1>5. CASE /\ writeFaults < MaxWriteFaults
           /\ writeFaults' = writeFaults + 1
           /\ Return("DBMGR")
           /\ UNCHANGED <<descr, hashTable, bufPool, disk, caller, unsaved, readFaults>>
  <2>1. TypeOK'
    BY <1>5, BufMgrAssumption DEF TypeOK, Return, Statuses, descr, caller
  <2>2. /\ HashMatchesDescriptors' /\ PinsMatchHandles'
        /\ UnpinnedFramesAreCandidates' /\ RecencyIsStrict'
    BY <1>5, FrameConditions DEF descr, caller
  <2>3. CleanPagesAreOnDisk' /\ FullMeansAllPinned'
    BY <1>5 DEF descr, CleanPagesAreOnDisk, Resident, FullMeansAllPinned, Return
  <2> QED BY <2>1, <2>2, <2>3
<1>6. CASE /\ ~emptyPage
           /\ disk' = [disk EXCEPT ![pageNumber[f]] = bufPool[f]]
           /\ unsaved' = unsaved \ {pageNumber[f]}
           /\ ReadFails(f)
           /\ UNCHANGED <<descr, hashTable, caller, writeFaults>>
  <2>1. TypeOK'
    <3>1. disk' \in [Pages -> Data] /\ unsaved' \in SUBSET Pages
      BY <1>2, <1>6 DEF TypeOK
    <3>2. bufPool' \in [Frames -> Data]
      BY <1>6 DEF TypeOK, ReadFails
    <3>3. readFaults' \in 0..MaxReadFaults /\ status' \in Statuses
      BY <1>6, BufMgrAssumption DEF TypeOK, ReadFails, Return, Statuses
    <3> QED BY <1>6, <3>1, <3>2, <3>3 DEF TypeOK, descr, caller
  <2>2. /\ HashMatchesDescriptors' /\ PinsMatchHandles'
        /\ UnpinnedFramesAreCandidates' /\ RecencyIsStrict'
    BY <1>6, FrameConditions DEF descr, caller
  <2>3. CleanPagesAreOnDisk'
    <3>1. \A q \in unsaved' : Resident(q)'
      BY <1>6 DEF descr, CleanPagesAreOnDisk, Resident
    <3>2. ASSUME ~ShortReads, NEW g \in Frames, pageNumber[g] \in Pages \ unsaved'
          PROVE  bufPool'[g] = disk'[pageNumber[g]]
      <4>1. bufPool' = bufPool
        BY <1>6, <3>2 DEF ReadFails, TypeOK
      <4>2. CASE g = f
        BY <1>2, <1>6, <4>1, <4>2 DEF TypeOK
      <4>3. CASE g # f
        <5>1. pageNumber[g] # pageNumber[f]
          BY <1>2, <4>3 DEF HashMatchesDescriptors
        <5> QED BY <1>6, <3>2, <4>1, <5>1 DEF CleanPagesAreOnDisk, TypeOK
      <4> QED BY <4>2, <4>3
    <3> QED BY <1>6, <3>1, <3>2 DEF CleanPagesAreOnDisk, descr
  <2>4. FullMeansAllPinned'
    BY <1>6 DEF FullMeansAllPinned, ReadFails, Return
  <2> QED BY <2>1, <2>2, <2>3, <2>4
<1>7. CASE /\ disk' = [disk EXCEPT ![pageNumber[f]] = bufPool[f]]
           /\ bufPool' = IF emptyPage THEN bufPool
                                      ELSE [bufPool EXCEPT ![f] = disk[p]]
           /\ unsaved' = (unsaved \ {pageNumber[f]}) \cup (IF emptyPage THEN {p} ELSE {})
           /\ Rehash(f, p)
           /\ ResetDescriptor(f, p)
           /\ HandOut(c, p, f)
           /\ Return("OK")
           /\ UNCHANGED faults
  <2> DEFINE old     == hashFunction(pageNumber[f])
             removed == [hashTable EXCEPT ![old] = {n \in @ : n.bufNumber # f}]
  <2>1. hashTable' = [removed EXCEPT ![hashFunction(p)] = @ \cup {Node(p, f)}]
    BY <1>7 DEF Rehash
  <2>2. removed \in [Buckets -> SUBSET Nodes]
    BY <1>4 DEF TypeOK
  <2>3. hashTable' \in [Buckets -> SUBSET Nodes]
    BY <1>4, <2>1, <2>2
  <2>4. TypeOK'
    <3>1. /\ disk' \in [Pages -> Data] /\ unsaved' \in SUBSET Pages
          /\ bufPool' \in [Frames -> Data]
      BY <1>2, <1>7 DEF TypeOK
    <3>2. /\ pageNumber' \in [Frames -> Pages \cup {INVALID_PAGE}]
          /\ pin_count' \in [Frames -> Nat]
          /\ dirtyBit' \in [Frames -> BOOLEAN]
          /\ loveIndex' \in [Frames -> 0..MaxIndex]
          /\ hateIndex' \in [Frames -> 0..MaxIndex]
      BY <1>7, BufMgrAssumption DEF TypeOK, ResetDescriptor
    <3> QED BY <1>7, <2>3, <3>1, <3>2 DEF TypeOK, HandOut, Return, Statuses, faults
  <2>5. ASSUME NEW n \in Nodes, NEW b \in Buckets
        PROVE  n \in hashTable'[b] <=> \/ n.bufNumber # f /\ n \in hashTable[b]
                                       \/ n = Node(p, f) /\ b = hashFunction(p)
    <3>1. n \in hashTable[b] /\ n.bufNumber = f => b = old
      BY DEF HashMatchesDescriptors
    <3>2. n \in removed[b] <=> n \in hashTable[b] /\ n.bufNumber # f
      BY <1>4, <3>1 DEF TypeOK
    <3>3. n \in hashTable'[b] <=> n \in removed[b] \/ (n = Node(p, f) /\ b = hashFunction(p))
      BY <1>4, <2>1, <2>2
    <3> QED BY <3>2, <3>3
  <2>6. /\ HashMatchesDescriptors'
        /\ PinsMatchHandles'
        /\ UnpinnedFramesAreCandidates'
        /\ RecencyIsStrict'
    BY <1>2, <1>3, <1>7, <2>3, <2>5, InstallInv
  <2>7. /\ pageNumber'[f] = p
        /\ \A g \in Frames \ {f} : pageNumber'[g] = pageNumber[g] /\ pageNumber[g] # pageNumber[f]
    BY <1>2, <1>7 DEF ResetDescriptor, TypeOK, HashMatchesDescriptors
  <2>8. CleanPagesAreOnDisk'
    <3>1. ASSUME NEW q \in unsaved' PROVE Resident(q)'
      <4>1. CASE q = p
        BY <2>7, <4>1 DEF Resident
      <4>2. CASE q # p
        <5>1. q \in unsaved /\ q # pageNumber[f]
          BY <1>7, <4>2
        <5>2. PICK g \in Frames : pageNumber[g] = q
          BY <5>1 DEF CleanPagesAreOnDisk, Resident
        <5> QED BY <2>7, <5>1, <5>2 DEF Resident
      <4> QED BY <4>1, <4>2
    <3>2. ASSUME ~ShortReads, NEW g \in Frames, pageNumber'[g] \in Pages \ unsaved'
          PROVE  bufPool'[g] = disk'[pageNumber'[g]]
      <4>1. CASE g = f
        <5>1. ~emptyPage
          BY <1>7, <2>7, <3>2, <4>1
        <5> QED BY <1>2, <1>3, <1>7, <2>7, <4>1, <5>1 DEF TypeOK
      <4>2. CASE g # f
        <5>1. pageNumber'[g] = pageNumber[g] /\ pageNumber[g] # pageNumber[f]
          BY <2>7, <4>2
        <5>2. pageNumber[g] \in Pages \ unsaved
          BY <1>7, <3>2, <5>1
        <5>3. bufPool'[g] = bufPool[g]
          BY <1>7, <4>2 DEF TypeOK
        <5> QED BY <1>7, <3>2, <5>1, <5>2, <5>3 DEF CleanPagesAreOnDisk, TypeOK
      <4> QED BY <4>1, <4>2
    <3> QED BY <3>1, <3>2 DEF CleanPagesAreOnDisk
  <2>9. FullMeansAllPinned'
    BY <1>7 DEF FullMeansAllPinned, Return
  <2> QED BY <2>4, <2>6, <2>8, <2>9
<1> QED BY <1>1, <1>5, <1>6, <1>7

(* pinPage answers "buffer full" only when every frame is pinned.          *)
LEMMA PinFullInv ==
  ASSUME PoolInv, NEW p \in Pages, PinFull(p), alloc' \in SUBSET Pages
  PROVE  PoolInv'
<1> USE DEF PoolInv
<1>1. TypeOK'
  BY DEF PinFull, TypeOK, Return, Statuses, descr, caller, faults
<1>2. /\ HashMatchesDescriptors' /\ PinsMatchHandles'
      /\ UnpinnedFramesAreCandidates' /\ RecencyIsStrict' /\ CleanPagesAreOnDisk'
  <2>1. UNCHANGED <<descr, hashTable, bufPool, disk, caller, unsaved>>
    BY DEF PinFull
  <2> QED BY <2>1, FrameConditions DEF caller, descr
<1>3. Hated \cup Loved = {}
  BY VictimExists DEF PinFull
<1>4. {f \in Frames : pin_count[f] = 0} = {}
  BY <1>3 DEF PinFull, NoFreeFrame, UnpinnedFramesAreCandidates
<1>5. getNumUnpinnedBuffers = 0
  BY <1>4, FS_EmptySet DEF getNumUnpinnedBuffers
<1>6. FullMeansAllPinned'
  BY <1>5 DEF FullMeansAllPinned, PinFull, descr, getNumUnpinnedBuffers
<1> QED BY <1>1, <1>2, <1>6

-----------------------------------------------------------------------------
(* flushPage, also as a part of unpinPage.                                 *)
LEMMA WritePageInv ==
  ASSUME PoolInv, NEW p \in Pages, WritePage(p), UNCHANGED <<pageNumber, bufPool>>
  PROVE  /\ disk' \in [Pages -> Data]
         /\ unsaved' \in SUBSET Pages
         /\ dirtyBit' \in [Frames -> BOOLEAN]
         /\ readFaults' \in 0..MaxReadFaults
         /\ writeFaults' \in 0..MaxWriteFaults
         /\ CleanPagesAreOnDisk'
<1> USE DEF PoolInv
<1>1. \A n \in NodesOf(p) : n.bufNumber \in Frames /\ pageNumber[n.bufNumber] = p
  BY Lookup
<1>2. CASE /\ \E n \in NodesOf(p) :
                /\ disk' = [disk EXCEPT ![p] = bufPool[n.bufNumber]]
                /\ dirtyBit' = [dirtyBit EXCEPT ![n.bufNumber] = FALSE]
           /\ unsaved' = unsaved \ {p}
           /\ UNCHANGED faults
  <2>1. PICK n \in NodesOf(p) :
          /\ disk' = [disk EXCEPT ![p] = bufPool[n.bufNumber]]
          /\ dirtyBit' = [dirtyBit EXCEPT ![n.bufNumber] = FALSE]
    BY <1>2
  <2>2. /\ disk' \in [Pages -> Data] /\ dirtyBit' \in [Frames -> BOOLEAN]
        /\ unsaved' \in SUBSET Pages
    BY <1>1, <1>2, <2>1 DEF TypeOK
  <2>3. ASSUME ~ShortReads, NEW g \in Frames, pageNumber[g] \in Pages \ unsaved'
        PROVE  bufPool[g] = disk'[pageNumber[g]]
    <3>1. CASE pageNumber[g] = p
      <4>1. g = n.bufNumber
        BY <1>1, <2>1, <3>1, BufMgrAssumption DEF HashMatchesDescriptors, INVALID_PAGE
      <4> QED BY <2>1, <3>1, <4>1 DEF TypeOK
    <3>2. CASE pageNumber[g] # p
      BY <1>2, <2>1, <2>3, <3>2 DEF CleanPagesAreOnDisk, TypeOK
    <3> QED BY <3>1, <3>2
  <2>4. \A q \in unsaved' : Resident(q)'
    BY <1>2 DEF CleanPagesAreOnDisk, Resident
  <2> QED BY <1>2, <2>2, <2>3, <2>4 DEF TypeOK, faults, CleanPagesAreOnDisk
<1>3. CASE /\ writeFaults < MaxWriteFaults
           /\ writeFaults' = writeFaults + 1
           /\ \E n \in NodesOf(p) :
                dirtyBit' = [dirtyBit EXCEPT ![n.bufNumber] = FALSE]
           /\ UNCHANGED <<disk, unsaved, readFaults>>
  <2>1. dirtyBit' \in [Frames -> BOOLEAN]
    BY <1>1, <1>3 DEF TypeOK
  <2>2. writeFaults' \in 0..MaxWriteFaults
    BY <1>3, BufMgrAssumption DEF TypeOK
  <2> QED BY <1>3, <2>1, <2>2 DEF TypeOK, CleanPagesAreOnDisk, Resident
<1>4. CASE NodesOf(p) = {} /\ UNCHANGED <<dirtyBit, disk, unsaved, faults>>
  BY <1>4 DEF TypeOK, CleanPagesAreOnDisk, Resident, faults
<1> QED BY <1>2, <1>3, <1>4 DEF WritePage

LEMMA FlushPageInv ==
  ASSUME PoolInv, NEW p \in Pages, flushPage(p) PROVE PoolInv'
<1> USE DEF PoolInv
<1>1. /\ WritePage(p)
      /\ UNCHANGED <<pageNumber, pin_count, loveIndex, hateIndex, hashTable, bufPool,
                     alloc, hpage, hframe>>
      /\ status' \in {"BUFFERPAGENOTFOUND", "OK"}
  BY DEF flushPage, Return, caller
<1>2. TypeOK' /\ CleanPagesAreOnDisk'
  BY <1>1, WritePageInv DEF TypeOK, Statuses
<1>3. /\ HashMatchesDescriptors' /\ PinsMatchHandles'
      /\ UnpinnedFramesAreCandidates' /\ RecencyIsStrict'
  BY <1>1, FrameConditions
<1>4. FullMeansAllPinned'
  BY <1>1 DEF FullMeansAllPinned
<1> QED BY <1>2, <1>3, <1>4

(* unpinPage makes a frame a candidate at a fresh index when it takes the  *)
(* last pin away.                                                          *)
LEMMA UnpinPageInv ==
  ASSUME PoolInv, NEW c \in Clients, NEW dirty \in BOOLEAN, NEW hate \in BOOLEAN,
         unpinPage(c, dirty, hate)
  PROVE  PoolInv'
<1> USE DEF PoolInv
<1>1. PICK f \in Frames :
       /\ IsFirstWith(f, hpage[c])
       /\ pin_count[f] # 0
       /\ pin_count' = [pin_count EXCEPT ![f] = @ - 1]
       /\ IF dirty THEN WritePage(hpage[c])
                   ELSE UNCHANGED <<dirtyBit, disk, unsaved, faults>>
       /\ IF hate
          THEN /\ NextIndex(hateIndex) <= MaxIndex
               /\ hateIndex' = [hateIndex EXCEPT ![f] = NextIndex(hateIndex)]
               /\ UNCHANGED loveIndex
          ELSE /\ NextIndex(loveIndex) <= MaxIndex
               /\ loveIndex' = [loveIndex EXCEPT ![f] = NextIndex(loveIndex)]
               /\ UNCHANGED hateIndex
  BY DEF unpinPage
<1>2. /\ hpage'  = [hpage  EXCEPT ![c] = INVALID_PAGE]
      /\ hframe' = [hframe EXCEPT ![c] = NoFrame]
      /\ status' = "OK"
      /\ UNCHANGED <<pageNumber, hashTable, bufPool, alloc>>
  BY DEF unpinPage, Return
<1>3. hframe[c] = f /\ hpage[c] \in Pages /\ pageNumber[f] = hpage[c] /\ hpage[c] # INVALID_PAGE
  <2>1. hframe[c] \in Frames /\ hpage[c] \in Pages /\ pageNumber[hframe[c]] = hpage[c]
    BY DEF unpinPage, Idle, PinsMatchHandles, TypeOK
  <2>2. pageNumber[f] = hpage[c] /\ hpage[c] # INVALID_PAGE
    BY <1>1, <2>1, BufMgrAssumption DEF IsFirstWith, INVALID_PAGE
  <2> QED BY <2>1, <2>2 DEF HashMatchesDescriptors
<1>4. /\ NextIndex(hateIndex) \in 1..(MaxIndex + 1) /\ NextIndex(loveIndex) \in 1..(MaxIndex + 1)
      /\ \A g \in Frames : pageNumber[g] # INVALID_PAGE =>
           hateIndex[g] < NextIndex(hateIndex) /\ loveIndex[g] < NextIndex(loveIndex)
  BY NextIndexIsNew DEF TypeOK
<1>5. /\ disk' \in [Pages -> Data] /\ unsaved' \in SUBSET Pages
      /\ dirtyBit' \in [Frames -> BOOLEAN]
      /\ readFaults' \in 0..MaxReadFaults /\ writeFaults' \in 0..MaxWriteFaults
      /\ CleanPagesAreOnDisk'
  <2>1. CASE dirty
    BY <1>1, <1>2, <1>3, <2>1, WritePageInv
  <2>2. CASE ~dirty
    BY <1>1, <1>2, <2>2 DEF TypeOK, faults, CleanPagesAreOnDisk, Resident
  <2> QED BY <2>1, <2>2
<1>6. /\ loveIndex' \in [Frames -> 0..MaxIndex] /\ hateIndex' \in [Frames -> 0..MaxIndex]
      /\ pin_count' \in [Frames -> Nat]
  <2>1. pin_count' \in [Frames -> Nat]
    BY <1>1 DEF TypeOK
  <2>2. hate => NextIndex(hateIndex) \in 0..MaxIndex
    BY <1>1, <1>4, BufMgrAssumption
  <2>3. ~hate => NextIndex(loveIndex) \in 0..MaxIndex
    BY <1>1, <1>4, BufMgrAssumption
  <2> QED BY <1>1, <2>1, <2>2, <2>3 DEF TypeOK
<1>7. TypeOK'
  BY <1>2, <1>5, <1>6 DEF TypeOK, Statuses
<1>8. HashMatchesDescriptors'
  BY <1>2 DEF HashMatchesDescriptors, hashFunction
<1>9. PinsMatchHandles'
  <2>1. /\ Cardinality(Holders(f))' = Cardinality(Holders(f)) - 1
        /\ \A g \in Frames \ {f} : Holders(g)' = Holders(g)
    BY <1>2, <1>3, HoldersRemove
  <2>2. \A g \in Frames : pin_count'[g] = Cardinality(Holders(g))'
    BY <1>1, <2>1 DEF PinsMatchHandles, TypeOK
  <2>3. \A d \in Clients : IF Idle(d)' THEN hpage'[d] = INVALID_PAGE
          ELSE hpage'[d] \in Pages /\ pageNumber'[hframe'[d]] = hpage'[d]
    BY <1>2 DEF PinsMatchHandles, TypeOK, Idle
  <2> QED BY <2>2, <2>3 DEF PinsMatchHandles
<1>10. UnpinnedFramesAreCandidates'
  <2>1. ASSUME NEW g \in Frames \ {f}
        PROVE  pin_count'[g] = pin_count[g] /\ loveIndex'[g] = loveIndex[g]
               /\ hateIndex'[g] = hateIndex[g]
    BY <1>1 DEF TypeOK
  <2>2. f \in Hated' \cup Loved' \/ pin_count'[f] # 0
    <3>1. loveIndex'[f] > 0 \/ (hateIndex'[f] > 0 /\ loveIndex'[f] = 0)
      BY <1>1, <1>4, BufMgrAssumption DEF TypeOK
    <3> QED BY <3>1 DEF Hated, Loved
  <2> QED BY <1>2, <1>3, <2>1, <2>2 DEF UnpinnedFramesAreCandidates, Hated, Loved
<1>11. RecencyIsStrict'
  <2>1. \A g \in Frames \ {f} : hateIndex[g] < NextIndex(hateIndex) /\ loveIndex[g] < NextIndex(loveIndex)
    BY <1>4, BufMgrAssumption DEF UnpinnedFramesAreCandidates
  <2> QED BY <1>1, <2>1 DEF RecencyIsStrict, TypeOK
<1>12. FullMeansAllPinned'
  BY <1>2 DEF FullMeansAllPinned
<1> QED BY <1>5, <1>7, <1>8, <1>9, <1>10, <1>11, <1>12

LEMMA FlushedInv ==
  ASSUME PoolInv
  PROVE  /\ FlushedDisk \in [Pages -> Data]
         /\ \A f \in Frames : pageNumber[f] \in Pages =>
              FlushedDisk[pageNumber[f]] =
                IF dirtyBit[f] THEN bufPool[f] ELSE disk[pageNumber[f]]
<1> USE DEF PoolInv
<1>1. ASSUME NEW p \in Pages, DirtyWith(p) # {}
      PROVE  (CHOOSE f \in DirtyWith(p) : TRUE) \in DirtyWith(p)
  BY <1>1
<1>2. \A p \in Pages : DirtyWith(p) \subseteq Frames
  BY DEF DirtyWith
<1>3. FlushedDisk \in [Pages -> Data]
  BY <1>1, <1>2 DEF FlushedDisk, TypeOK
<1>4. ASSUME NEW f \in Frames, pageNumber[f] \in Pages
      PROVE  FlushedDisk[pageNumber[f]] =
               IF dirtyBit[f] THEN bufPool[f] ELSE disk[pageNumber[f]]
  <2>1. \A g \in DirtyWith(pageNumber[f]) : g = f
    BY <1>4, BufMgrAssumption DEF DirtyWith, HashMatchesDescriptors, INVALID_PAGE
  <2>2. CASE dirtyBit[f]
    <3>1. f \in DirtyWith(pageNumber[f])
      BY <2>2 DEF DirtyWith
    <3>2. (CHOOSE g \in DirtyWith(pageNumber[f]) : TRUE) = f
      BY <2>1, <3>1
    <3> QED BY <1>4, <2>2, <3>1, <3>2 DEF FlushedDisk
  <2>3. CASE ~dirtyBit[f]
    <3>1. DirtyWith(pageNumber[f]) = {}
      BY <2>1, <2>3 DEF DirtyWith
    <3> QED BY <1>4, <2>3, <3>1 DEF FlushedDisk
  <2> QED BY <2>2, <2>3 DEF TypeOK
<1> QED BY <1>3, <1>4

LEMMA FlushAllPagesInv == ASSUME PoolInv, flushAllPages PROVE PoolInv'
<1> USE DEF PoolInv
<1>1. /\ disk' = FlushedDisk
      /\ unsaved' = FlushedUnsaved
      /\ dirtyBit' = [f \in Frames |-> FALSE]
      /\ status' = "OK"
      /\ UNCHANGED <<pageNumber, pin_count, loveIndex, hateIndex, hashTable, bufPool,
                     alloc, hpage, hframe, readFaults, writeFaults>>
  BY DEF flushAllPages, Return, caller, faults
<1>2. TypeOK'
  BY <1>1, FlushedInv DEF TypeOK, Statuses, FlushedUnsaved
<1>3. CleanPagesAreOnDisk'
  <2>1. ASSUME ~ShortReads, NEW f \in Frames, pageNumber[f] \in Pages \ FlushedUnsaved
        PROVE  bufPool[f] = FlushedDisk[pageNumber[f]]
    <3>1. CASE dirtyBit[f]
      BY <2>1, <3>1, FlushedInv
    <3>2. CASE ~dirtyBit[f]
      <4>1. DirtyWith(pageNumber[f]) = {}
        BY <2>1, <3>2, BufMgrAssumption DEF DirtyWith, HashMatchesDescriptors, INVALID_PAGE
      <4>2. pageNumber[f] \notin unsaved
        BY <2>1, <4>1 DEF FlushedUnsaved
      <4> QED BY <2>1, <3>2, <4>2, FlushedInv DEF CleanPagesAreOnDisk
    <3> QED BY <3>1, <3>2 DEF TypeOK
  <2>2. \A p \in FlushedUnsaved : Resident(p)
    BY DEF FlushedUnsaved, CleanPagesAreOnDisk
  <2> QED BY <1>1, <2>1, <2>2 DEF CleanPagesAreOnDisk, Resident
<1>4. /\ HashMatchesDescriptors' /\ PinsMatchHandles'
      /\ UnpinnedFramesAreCandidates' /\ RecencyIsStrict'
  BY <1>1, FrameConditions
<1>5. FullMeansAllPinned'
  BY <1>1 DEF FullMeansAllPinned
<1> QED BY <1>2, <1>3, <1>4, <1>5

LEMMA RestartInv == ASSUME PoolInv, restart PROVE PoolInv'
<1> USE DEF PoolInv
<1>1. /\ disk' \in [Pages -> Data] /\ bufPool' \in [Frames -> Data]
      /\ hashTable' \in [Buckets -> SUBSET Nodes]
  BY FlushedInv DEF restart
<1>2. TypeOK'
  BY <1>1, BufMgrAssumption DEF restart, TypeOK, Return, Statuses, faults, INVALID_PAGE, NoFrame
<1>3. HashMatchesDescriptors' /\ RecencyIsStrict' /\ UnpinnedFramesAreCandidates'
  BY BufMgrAssumption DEF restart, HashMatchesDescriptors, Nodes, INVALID_PAGE,
     RecencyIsStrict, UnpinnedFramesAreCandidates
<1>4. PinsMatchHandles'
  <2>1. \A f \in Frames : Holders(f)' = {}
    BY BufMgrAssumption DEF restart, Holders, Frames, NoFrame
  <2> QED BY <2>1, FS_EmptySet DEF restart, PinsMatchHandles, Idle
<1>5. CleanPagesAreOnDisk' /\ FullMeansAllPinned'
  BY BufMgrAssumption DEF restart, CleanPagesAreOnDisk, FullMeansAllPinned, Return, INVALID_PAGE
<1> QED BY <1>2, <1>3, <1>4, <1>5

LEMMA WriteDataInv ==
  ASSUME PoolInv, NEW c \in Clients, NEW v \in Data, writeData(c, v) PROVE PoolInv'
<1> USE DEF PoolInv
<1>1. /\ bufPool' = [bufPool EXCEPT ![hframe[c]] = v]
      /\ unsaved' = unsaved \cup {hpage[c]}
      /\ UNCHANGED <<descr, hashTable, disk, alloc, hpage, hframe, status, faults>>
      /\ hframe[c] \in Frames /\ hpage[c] \in Pages /\ pageNumber[hframe[c]] = hpage[c]
  BY DEF writeData, db, caller, Idle, TypeOK, PinsMatchHandles
<1>2. TypeOK'
  BY <1>1 DEF TypeOK, descr, faults
<1>3. /\ HashMatchesDescriptors' /\ PinsMatchHandles'
      /\ UnpinnedFramesAreCandidates' /\ RecencyIsStrict'
  BY <1>1, FrameConditions DEF descr
<1>4. CleanPagesAreOnDisk'
  BY <1>1 DEF CleanPagesAreOnDisk, Resident, TypeOK, descr
<1>5. FullMeansAllPinned'
  BY <1>1 DEF FullMeansAllPinned, getNumUnpinnedBuffers, descr
<1> QED BY <1>2, <1>3, <1>4, <1>5

(* A call that only answers leaves the pool as it is.                      *)
LEMMA AnswerInv ==
  ASSUME PoolInv, UNCHANGED <<descr, hashTable, bufPool, disk, caller, unsaved, faults>>,
         alloc' \in SUBSET Pages, status' \in Statuses \ {"BUFFERFULL"}
  PROVE  PoolInv'
<1>1. TypeOK'
  BY DEF PoolInv, TypeOK, descr, caller, faults
<1>2. /\ HashMatchesDescriptors' /\ PinsMatchHandles'
      /\ UnpinnedFramesAreCandidates' /\ RecencyIsStrict' /\ CleanPagesAreOnDisk'
  BY FrameConditions DEF descr, caller
<1>3. FullMeansAllPinned'
  BY DEF FullMeansAllPinned
<1> QED BY <1>1, <1>2, <1>3 DEF PoolInv

LEMMA PinPathsInv ==
  ASSUME PoolInv, NEW c \in Clients, NEW p \in Pages, NEW emptyPage \in BOOLEAN,
         Idle(c), PinPaths(c, p, emptyPage), alloc' \in SUBSET Pages
  PROVE  PoolInv'
  BY PinHitInv, PinFreeInv, PinReplaceInv, PinFullInv DEF PinPaths

LEMMA PoolStep == ASSUME PoolInv, [Next]_vars PROVE PoolInv'
<1>1. ASSUME NEW c \in Clients, NEW p \in Pages, pinPage(c, p) PROVE PoolInv'
  BY <1>1, PinPathsInv DEF pinPage, PoolInv, TypeOK
<1>2. ASSUME NEW c \in Clients, NEW p \in Pages, newPage(c, p) PROVE PoolInv'
  <2>1. alloc' \in SUBSET Pages
    BY <1>2 DEF newPage, PoolInv, TypeOK
  <2> QED BY <1>2, <2>1, PinPathsInv DEF newPage
<1>3. ASSUME NEW p \in Pages, unpinUnpinned(p) PROVE PoolInv'
  <2>1. status' \in {"OK", "BUFFERPAGENOTPINNED"}
    BY <1>3 DEF unpinUnpinned, Return
  <2> QED BY <1>3, <2>1, AnswerInv DEF unpinUnpinned, db, Statuses, PoolInv, TypeOK
<1>4. ASSUME NEW p \in Pages, freePage(p) PROVE PoolInv'
  <2>1. alloc' \in SUBSET Pages /\ status' \in {"OK", "BUFFERPAGEPINNED", "BUFFERPAGENOTFOUND"}
    BY <1>4 DEF freePage, Return, PoolInv, TypeOK
  <2> QED BY <1>4, <2>1, AnswerInv DEF freePage, Statuses
<1>5. CASE UNCHANGED vars
  <2>1. UNCHANGED <<descr, hashTable, bufPool, disk, alloc, caller, unsaved, status, faults>>
    BY <1>5 DEF vars, db
  <2>2. TypeOK' /\ FullMeansAllPinned'
    BY <2>1 DEF PoolInv, TypeOK, FullMeansAllPinned, getNumUnpinnedBuffers, descr, caller, faults
  <2> QED BY <2>1, <2>2, FrameConditions DEF PoolInv, descr, caller
<1> QED
  BY <1>1, <1>2, <1>3, <1>4, <1>5, UnpinPageInv, WriteDataInv, FlushPageInv,
     FlushAllPagesInv, RestartInv DEF Next

-----------------------------------------------------------------------------
(* A pinned page stays allocated.                                          *)
LEMMA PinnedStep ==
  ASSUME IInv, PoolInv', [Next]_vars PROVE PinnedPagesAreAllocated'
<1> USE DEF IInv
<1>1. ASSUME NEW c \in Clients, NEW p \in Pages, NEW emptyPage \in BOOLEAN,
             Idle(c), PinPaths(c, p, emptyPage)
      PROVE  \/ UNCHANGED <<hpage, hframe>> /\ status' # "OK"
             \/ /\ hpage'  = [hpage  EXCEPT ![c] = p]
                /\ \E f : hframe' = [hframe EXCEPT ![c] = f]
                /\ status' = "OK"
  <2>1. ASSUME PinHit(c, p) PROVE status' = "OK" /\ \E f : HandOut(c, p, f)
    BY <2>1 DEF PinHit, Return
  <2>2. ASSUME PinFree(c, p)
        PROVE  \/ status' = "OK" /\ \E f : HandOut(c, p, f)
               \/ status' # "OK" /\ UNCHANGED caller
    BY <2>2 DEF PinFree, Return, ReadFails
  <2>3. ASSUME PinReplace(c, p, emptyPage)
        PROVE  \/ status' = "OK" /\ \E f : HandOut(c, p, f)
               \/ status' # "OK" /\ UNCHANGED caller
    BY <2>3 DEF PinReplace, Return, ReadFails
  <2>4. ASSUME PinFull(p) PROVE status' # "OK" /\ UNCHANGED caller
    BY <2>4 DEF PinFull, Return
  <2> QED BY <1>1, <2>1, <2>2, <2>3, <2>4 DEF PinPaths, HandOut, caller
<1>0. ASSUME NEW c \in Clients, NEW p \in Pages, NEW f,
             hpage'  = [hpage  EXCEPT ![c] = p], hframe' = [hframe EXCEPT ![c] = f],
             p \in alloc', alloc \subseteq alloc'
      PROVE  PinnedPagesAreAllocated'
  <2>1. ASSUME NEW d \in Clients, ~Idle(d)' PROVE hpage'[d] \in alloc'
    <3>1. CASE d = c
      BY <1>0, <3>1 DEF PoolInv, TypeOK
    <3>2. CASE d # c
      <4>1. hpage'[d] = hpage[d] /\ ~Idle(d)
        BY <1>0, <2>1, <3>2 DEF PoolInv, TypeOK, Idle
      <4> QED BY <1>0, <4>1 DEF PinnedPagesAreAllocated
    <3> QED BY <3>1, <3>2
  <2> QED BY <2>1 DEF PinnedPagesAreAllocated
<1>2. ASSUME NEW c \in Clients, NEW p \in Pages, pinPage(c, p)
      PROVE  PinnedPagesAreAllocated'
  <2>1. p \in alloc' /\ alloc \subseteq alloc' /\ Idle(c) /\ PinPaths(c, p, FALSE)
    BY <1>2 DEF pinPage
  <2>2. CASE UNCHANGED <<hpage, hframe>>
    BY <2>1, <2>2 DEF PinnedPagesAreAllocated, Idle
  <2> QED BY <1>0, <1>1, <2>1, <2>2
<1>3. ASSUME NEW c \in Clients, NEW p \in Pages, newPage(c, p)
      PROVE  PinnedPagesAreAllocated'
  <2>1. CASE status' = "OK"
    <3>1. p \in alloc' /\ alloc \subseteq alloc' /\ Idle(c) /\ PinPaths(c, p, TRUE)
      BY <1>3, <2>1 DEF newPage
    <3> QED BY <1>0, <1>1, <2>1, <3>1
  <2>2. CASE status' # "OK"
    <3>1. UNCHANGED <<hpage, hframe>> /\ alloc' = alloc \ {p}
      BY <1>1, <1>3, <2>2 DEF newPage
    <3>2. NodesOf(p) = {}
      BY <1>3, <2>2 DEF newPage, PinPaths, PinHit, PinFree, PinReplace, PinFull, Return
    <3>3. \A d \in Clients : ~Idle(d) => hpage[d] # p
      <4>1. \A f \in Frames : pageNumber[f] # p
        BY <3>2, Lookup DEF PoolInv
      <4> QED BY <4>1 DEF PoolInv, PinsMatchHandles, Idle, TypeOK
    <3> QED BY <3>1, <3>3 DEF PinnedPagesAreAllocated, Idle
  <2> QED BY <2>1, <2>2
<1>4. ASSUME NEW p \in Pages, freePage(p) PROVE PinnedPagesAreAllocated'
  <2>1. CASE UNCHANGED alloc
    BY <1>4, <2>1 DEF freePage, caller, PinnedPagesAreAllocated, Idle
  <2>2. CASE ~UNCHANGED alloc
    <3>1. PICK n \in NodesOf(p) : pin_count[n.bufNumber] = 0 /\ alloc' = alloc \ {p}
      BY <1>4, <2>2 DEF freePage
    <3>2. n.bufNumber \in Frames /\ pageNumber[n.bufNumber] = p
      BY Lookup DEF PoolInv
    <3>3. Holders(n.bufNumber) = {}
      BY <3>1, <3>2, HoldersFinite, FS_EmptySet DEF PoolInv, PinsMatchHandles
    <3>4. ASSUME NEW d \in Clients, ~Idle(d) PROVE hpage[d] # p
      <4>1. hframe[d] \in Frames /\ pageNumber[hframe[d]] = hpage[d]
        BY <3>4 DEF PoolInv, PinsMatchHandles, Idle, TypeOK
      <4>2. hframe[d] # n.bufNumber
        BY <3>3 DEF Holders
      <4> QED BY <3>2, <4>1, <4>2, BufMgrAssumption DEF PoolInv, HashMatchesDescriptors, INVALID_PAGE
    <3> QED BY <1>4, <3>1, <3>4 DEF freePage, caller, PinnedPagesAreAllocated, Idle
  <2> QED BY <2>1, <2>2
<1>5. ASSUME NEW c \in Clients, NEW dirty \in BOOLEAN, NEW hate \in BOOLEAN,
             unpinPage(c, dirty, hate)
      PROVE  PinnedPagesAreAllocated'
  BY <1>5 DEF unpinPage, PinnedPagesAreAllocated, Idle, PoolInv, TypeOK
<1>6. ASSUME \/ \E p \in Pages : unpinUnpinned(p) \/ flushPage(p)
             \/ \E c \in Clients, v \in Data : writeData(c, v)
             \/ flushAllPages
             \/ UNCHANGED vars
      PROVE  PinnedPagesAreAllocated'
  <2>1. UNCHANGED <<alloc, hpage, hframe>>
    BY <1>6 DEF unpinUnpinned, flushPage, writeData, flushAllPages, vars, db, caller
  <2> QED BY <2>1 DEF PinnedPagesAreAllocated, Idle
<1>7. ASSUME restart PROVE PinnedPagesAreAllocated'
  BY <1>7 DEF restart, PinnedPagesAreAllocated, Idle
<1> QED BY <1>2, <1>3, <1>4, <1>5, <1>6, <1>7 DEF Next

(* The inductive invariant holds in every reachable state.                 *)
THEOREM BufMgrInvariant == Spec => []IInv
<1>1. IInv /\ [Next]_vars => IInv'
  BY PoolStep, PinnedStep DEF IInv
<1> QED BY <1>1, InitInv, PTL DEF Spec

(* Every variable keeps its type.                                          *)
THEOREM BufMgrTypeOK == Spec => []TypeOK
<1>1. IInv => TypeOK
  BY DEF IInv, PoolInv
<1> QED BY <1>1, BufMgrInvariant, PTL

(* The hash table always finds exactly the resident pages, in the frames    *)
(* that the descriptors say.                                                *)
THEOREM HashTableIsExact == Spec => []HashMatchesDescriptors
<1>1. IInv => HashMatchesDescriptors
  BY DEF IInv, PoolInv
<1> QED BY <1>1, BufMgrInvariant, PTL

(* Pins are counted and pointers are valid, however calls interleave.       *)
THEOREM PinsAreCounted == Spec => []PinsMatchHandles
<1>1. IInv => PinsMatchHandles
  BY DEF IInv, PoolInv
<1> QED BY <1>1, BufMgrInvariant, PTL

(* BUFFERFULL is returned only when all frames are pinned.                  *)
THEOREM BufferFullIsHonest == Spec => []FullMeansAllPinned
<1>1. IInv => FullMeansAllPinned
  BY DEF IInv, PoolInv
<1> QED BY <1>1, BufMgrInvariant, PTL

(* No two frames tie in the replacement order.                              *)
THEOREM ReplacementOrderIsStrict == Spec => []RecencyIsStrict
<1>1. IInv => RecencyIsStrict
  BY DEF IInv, PoolInv
<1> QED BY <1>1, BufMgrInvariant, PTL

(* Pages with no unsaved write are the same on disk and in the pool.        *)
THEOREM CleanPagesAreSafe == Spec => []CleanPagesAreOnDisk
<1>1. IInv => CleanPagesAreOnDisk
  BY DEF IInv, PoolInv
<1> QED BY <1>1, BufMgrInvariant, PTL

(* A page that a caller has pinned is allocated.                            *)
THEOREM PinnedPagesStayAllocated == Spec => []PinnedPagesAreAllocated
<1>1. IInv => PinnedPagesAreAllocated
  BY DEF IInv
<1> QED BY <1>1, BufMgrInvariant, PTL

-----------------------------------------------------------------------------
(* pinPage and newPage touch only frames that nobody has pinned.            *)
LEMMA PinSparesPinned ==
  ASSUME PoolInv, NEW c \in Clients, NEW p \in Pages, NEW emptyPage \in BOOLEAN,
         PinPaths(c, p, emptyPage), NEW g \in Frames, pin_count[g] # 0
  PROVE  pageNumber'[g] = pageNumber[g] /\ bufPool'[g] = bufPool[g]
<1> USE DEF PoolInv
<1>1. CASE PinHit(c, p)
  BY <1>1 DEF PinHit
<1>2. CASE PinFree(c, p)
  <2>1. PICK f \in Frames :
          /\ IsFirstFree(f)
          /\ \/ \/ /\ bufPool' = [bufPool EXCEPT ![f] = disk[p]]
                   /\ ResetDescriptor(f, p)
                \/ ReadFails(f) /\ UNCHANGED descr
    BY <1>2 DEF PinFree
  <2>2. f # g
    BY <2>1 DEF IsFirstFree, UnpinnedFramesAreCandidates
  <2> QED BY <2>1, <2>2 DEF ResetDescriptor, ReadFails, TypeOK, descr
<1>3. CASE PinReplace(c, p, emptyPage)
  <2>1. PICK f \in Frames :
          /\ IsVictim(f)
          /\ \/ UNCHANGED <<descr, bufPool>>
             \/ ReadFails(f) /\ UNCHANGED descr
             \/ /\ bufPool' = IF emptyPage THEN bufPool
                                            ELSE [bufPool EXCEPT ![f] = disk[p]]
                /\ ResetDescriptor(f, p)
    BY <1>3 DEF PinReplace
  <2>2. f # g
    BY <2>1 DEF IsVictim, Hated, Loved
  <2> QED BY <2>1, <2>2 DEF ResetDescriptor, ReadFails, TypeOK, descr
<1>4. CASE PinFull(p)
  BY <1>4 DEF PinFull, descr
<1> QED BY <1>1, <1>2, <1>3, <1>4 DEF PinPaths

(* A caller's page neither moves nor changes under its pin, unless a caller *)
(* that holds the same page writes it.                                      *)
THEOREM HandlesAreStable == Spec => HandleStable
<1>1. ASSUME IInv, [Next]_vars, NEW c \in Clients, ~Idle(c), hframe'[c] = hframe[c]
      PROVE  /\ pageNumber'[hframe[c]] = hpage[c]
             /\ \/ bufPool'[hframe[c]] = bufPool[hframe[c]]
                \/ \E d \in Clients, v \in Data : hframe[d] = hframe[c] /\ writeData(d, v)
  <2> DEFINE g == hframe[c]
  <2>1. g \in Frames /\ pageNumber[g] = hpage[c]
    BY <1>1 DEF IInv, PoolInv, PinsMatchHandles, Idle, TypeOK
  <2>2. pin_count[g] # 0
    <3>1. c \in Holders(g)
      BY DEF Holders
    <3>2. Cardinality(Holders(g)) # 0
      BY <3>1, HoldersFinite, FS_EmptySet
    <3> QED BY <1>1, <2>1, <3>2 DEF IInv, PoolInv, PinsMatchHandles
  <2>3. ASSUME NEW d \in Clients, NEW p \in Pages, pinPage(d, p) \/ newPage(d, p)
        PROVE  pageNumber'[g] = pageNumber[g] /\ bufPool'[g] = bufPool[g]
    BY <1>1, <2>1, <2>2, <2>3, PinSparesPinned DEF pinPage, newPage, IInv
  <2>4. ASSUME \/ \E d \in Clients, dirty, hate \in BOOLEAN : unpinPage(d, dirty, hate)
               \/ \E p \in Pages : unpinUnpinned(p) \/ freePage(p) \/ flushPage(p)
               \/ flushAllPages
               \/ UNCHANGED vars
        PROVE  pageNumber'[g] = pageNumber[g] /\ bufPool'[g] = bufPool[g]
    BY <2>4 DEF unpinPage, unpinUnpinned, freePage, flushPage, flushAllPages, vars, descr
  <2>5. ASSUME NEW d \in Clients, NEW v \in Data, writeData(d, v)
        PROVE  pageNumber'[g] = pageNumber[g]
               /\ (bufPool'[g] = bufPool[g] \/ hframe[d] = hframe[c])
    BY <1>1, <2>1, <2>5 DEF writeData, descr, IInv, PoolInv, TypeOK
  <2>6. ~restart
    BY <2>1, <1>1 DEF restart, Frames, NoFrame
  <2> QED BY <1>1, <2>1, <2>3, <2>4, <2>5, <2>6 DEF Next
<1>2. IInv /\ [Next]_vars =>
        [\A c \in Clients : ~Idle(c) /\ hframe'[c] = hframe[c] =>
           /\ pageNumber'[hframe[c]] = hpage[c]
           /\ \/ bufPool'[hframe[c]] = bufPool[hframe[c]]
              \/ \E d \in Clients, v \in Data : hframe[d] = hframe[c] /\ writeData(d, v)
        ]_vars
  BY <1>1
<1> QED BY <1>2, BufMgrInvariant, PTL DEF Spec, HandleStable

-----------------------------------------------------------------------------
(* The refinement of PageStore.  A page's contents are where the pool has   *)
(* it, else on disk; now and after a step.                                 *)
LEMMA ContentsAt ==
  PoolInv =>
    \A p \in Pages :
      /\ \A f \in Frames : pageNumber[f] = p => Resident(p) /\ Contents(p) = bufPool[f]
      /\ ~Resident(p) => Contents(p) = disk[p]
      /\ Contents(p) \in Data
<1> SUFFICES ASSUME PoolInv, NEW p \in Pages
             PROVE  /\ \A f \in Frames : pageNumber[f] = p => Resident(p) /\ Contents(p) = bufPool[f]
                    /\ ~Resident(p) => Contents(p) = disk[p]
                    /\ Contents(p) \in Data
  OBVIOUS
<1>1. p # INVALID_PAGE
  BY BufMgrAssumption DEF INVALID_PAGE
<1>2. ASSUME NEW f \in Frames, pageNumber[f] = p
      PROVE  Resident(p) /\ FrameOf(p) = f
  BY <1>1, <1>2 DEF FrameOf, Resident, PoolInv, HashMatchesDescriptors
<1>3. Resident(p) => \E f \in Frames : pageNumber[f] = p
  BY DEF Resident
<1> QED BY <1>2, <1>3 DEF Contents, PoolInv, TypeOK

LEMMA ContentsAfter ==
  PoolInv' =>
    \A p \in Pages :
      /\ \A f \in Frames : pageNumber'[f] = p => Resident(p)' /\ Contents(p)' = bufPool'[f]
      /\ ~Resident(p)' => Contents(p)' = disk'[p]
      /\ Contents(p)' \in Data
<1>1. (PoolInv =>
         \A p \in Pages :
           /\ \A f \in Frames : pageNumber[f] = p => Resident(p) /\ Contents(p) = bufPool[f]
           /\ ~Resident(p) => Contents(p) = disk[p]
           /\ Contents(p) \in Data)'
  BY ContentsAt, PTL
<1> QED BY <1>1

(* No bytes move: nothing changes for the callers.                         *)
LEMMA SameContents ==
  ASSUME UNCHANGED <<pageNumber, bufPool, disk>>, NEW p \in Pages
  PROVE  Contents(p)' = Contents(p)
  BY DEF Contents, Resident, FrameOf

(* A step that leaves pages in their frames may save some of them: the      *)
(* contents stay if the pool does and only resident pages go to disk.      *)
LEMMA SavedContents ==
  ASSUME PoolInv, PoolInv', UNCHANGED <<pageNumber, bufPool>>,
         \A p \in Pages : ~Resident(p) => disk'[p] = disk[p]
  PROVE  \A p \in Pages : Contents(p)' = Contents(p)
<1> SUFFICES ASSUME NEW p \in Pages PROVE Contents(p)' = Contents(p)
  OBVIOUS
<1>1. CASE Resident(p)
  <2>1. PICK f \in Frames : pageNumber[f] = p
    BY <1>1 DEF Resident
  <2> QED BY <2>1, ContentsAt, ContentsAfter
<1>2. CASE ~Resident(p)
  <2>1. ~Resident(p)'
    BY <1>2 DEF Resident
  <2> QED BY <1>2, <2>1, ContentsAt, ContentsAfter
<1> QED BY <1>1, <1>2

(* A page that was not in the pool takes over frame f, whose page goes to   *)
(* disk: only the new page's contents may differ, and only if it was not    *)
(* read.                                                                   *)
LEMMA ReplacedContents ==
  ASSUME PoolInv, PoolInv', NEW p \in Pages, ~Resident(p), NEW f \in Frames,
         pageNumber' = [pageNumber EXCEPT ![f] = p],
         \A g \in Frames \ {f} : bufPool'[g] = bufPool[g],
         IF pageNumber[f] \in Pages THEN disk' = [disk EXCEPT ![pageNumber[f]] = bufPool[f]]
                                    ELSE disk' = disk
  PROVE  /\ \A q \in Pages \ {p} : Contents(q)' = Contents(q)
         /\ bufPool'[f] = disk[p] => Contents(p)' = Contents(p)
<1> USE DEF PoolInv
<1>1. /\ pageNumber'[f] = p
      /\ \A g \in Frames \ {f} : pageNumber'[g] = pageNumber[g]
      /\ pageNumber[f] # p
  BY DEF TypeOK, Resident
<1>2. \A q \in Pages : q # pageNumber[f] => disk'[q] = disk[q]
  BY DEF TypeOK
<1>3. ASSUME NEW q \in Pages, q # p PROVE Contents(q)' = Contents(q)
  <2>1. CASE pageNumber[f] = q
    <3>1. \A g \in Frames \ {f} : pageNumber[g] # q
      BY <2>1, BufMgrAssumption DEF HashMatchesDescriptors, INVALID_PAGE
    <3>2. ~Resident(q)'
      BY <1>1, <1>3, <3>1 DEF Resident
    <3>3. disk'[q] = bufPool[f]
      BY <2>1 DEF TypeOK
    <3> QED BY <2>1, <3>2, <3>3, ContentsAt, ContentsAfter
  <2>2. ASSUME NEW g \in Frames, g # f, pageNumber[g] = q PROVE Contents(q)' = Contents(q)
    BY <1>1, <2>2, ContentsAt, ContentsAfter
  <2>3. CASE ~Resident(q)
    <3>1. ~Resident(q)' /\ q # pageNumber[f]
      BY <1>1, <1>3, <2>3 DEF Resident
    <3> QED BY <1>2, <2>3, <3>1, ContentsAt, ContentsAfter
  <2> QED BY <2>1, <2>2, <2>3 DEF Resident
<1>4. bufPool'[f] = disk[p] => Contents(p)' = Contents(p)
  BY <1>1, ContentsAt, ContentsAfter
<1> QED BY <1>3, <1>4

(* What a call of pinPage or newPage does to the store.                    *)
LEMMA PinContents ==
  ASSUME PoolInv, PoolInv', ~ShortReads, NEW c \in Clients, NEW p \in Pages,
         NEW emptyPage \in BOOLEAN, PinPaths(c, p, emptyPage)
  PROVE  /\ \/ status' = "OK" /\ hpage' = [hpage EXCEPT ![c] = p]
            \/ status' # "OK" /\ hpage' = hpage /\ Contents(p)' = Contents(p)
                              /\ unsaved' \in SUBSET unsaved
         /\ \A q \in Pages \ {p} : Contents(q)' = Contents(q)
         /\ unsaved' \in SUBSET (unsaved \cup (IF emptyPage THEN {p} ELSE {}))
         /\ Contents(p)' # Contents(p) => emptyPage /\ p \in unsaved'
<1> USE DEF PoolInv
<1>0. NodesOf(p) = {} => ~Resident(p)
  BY Lookup DEF Resident
<1>1. CASE PinHit(c, p)
  <2>1. UNCHANGED <<pageNumber, bufPool, disk, unsaved>> /\ status' = "OK"
        /\ hpage' = [hpage EXCEPT ![c] = p]
    BY <1>1 DEF PinHit, HandOut, Return
  <2> QED BY <2>1, SameContents
<1>2. CASE PinFree(c, p)
  <2>1. PICK f \in Frames :
          /\ IsFirstFree(f)
          /\ \/ /\ bufPool' = [bufPool EXCEPT ![f] = disk[p]]
                /\ ResetDescriptor(f, p)
                /\ HandOut(c, p, f)
                /\ Return("OK")
             \/ ReadFails(f) /\ UNCHANGED <<descr, caller>>
    BY <1>2 DEF PinFree
  <2>2. UNCHANGED <<disk, unsaved>> /\ ~Resident(p)
    BY <1>0, <1>2 DEF PinFree
  <2>3. CASE ReadFails(f) /\ UNCHANGED <<descr, caller>>
    <3>1. bufPool' = bufPool /\ status' # "OK"
      BY <2>3 DEF ReadFails, Return, TypeOK
    <3> QED BY <2>2, <2>3, <3>1, SameContents DEF descr, caller
  <2>4. ASSUME bufPool' = [bufPool EXCEPT ![f] = disk[p]], ResetDescriptor(f, p),
               HandOut(c, p, f), Return("OK")
        PROVE  /\ status' = "OK" /\ hpage' = [hpage EXCEPT ![c] = p]
               /\ \A q \in Pages : Contents(q)' = Contents(q)
    <3>1. pageNumber[f] \notin Pages
      BY <2>1, BufMgrAssumption DEF IsFirstFree, INVALID_PAGE
    <3>2. /\ pageNumber' = [pageNumber EXCEPT ![f] = p]
          /\ \A g \in Frames \ {f} : bufPool'[g] = bufPool[g]
          /\ bufPool'[f] = disk[p]
      BY <2>4 DEF ResetDescriptor, TypeOK
    <3>3. \A q \in Pages : Contents(q)' = Contents(q)
      BY <2>2, <3>1, <3>2, ReplacedContents
    <3> QED BY <2>4, <3>3 DEF HandOut, Return
  <2> QED BY <2>1, <2>2, <2>3, <2>4
<1>3. CASE PinReplace(c, p, emptyPage)
  <2>0. ~Resident(p)
    BY <1>0, <1>3 DEF PinReplace
  <2>1. PICK f \in Frames :
          /\ pageNumber[f] # INVALID_PAGE
          /\ \/ status' # "OK" /\ UNCHANGED <<descr, bufPool, disk, caller, unsaved>>
             \/ /\ disk' = [disk EXCEPT ![pageNumber[f]] = bufPool[f]]
                /\ unsaved' = unsaved \ {pageNumber[f]}
                /\ ReadFails(f)
                /\ UNCHANGED <<descr, caller>>
             \/ /\ disk' = [disk EXCEPT ![pageNumber[f]] = bufPool[f]]
                /\ bufPool' = IF emptyPage THEN bufPool ELSE [bufPool EXCEPT ![f] = disk[p]]
                /\ unsaved' = (unsaved \ {pageNumber[f]}) \cup (IF emptyPage THEN {p} ELSE {})
                /\ ResetDescriptor(f, p)
                /\ HandOut(c, p, f)
                /\ Return("OK")
    BY <1>3 DEF PinReplace, NoFreeFrame, Return
  <2>2. pageNumber[f] \in Pages
    BY <2>1 DEF TypeOK
  <2>3. CASE status' # "OK" /\ UNCHANGED <<descr, bufPool, disk, caller, unsaved>>
    BY <2>3, SameContents DEF descr, caller
  <2>4. ASSUME disk' = [disk EXCEPT ![pageNumber[f]] = bufPool[f]],
               unsaved' = unsaved \ {pageNumber[f]}, ReadFails(f), UNCHANGED <<descr, caller>>
        PROVE  /\ status' # "OK" /\ hpage' = hpage /\ unsaved' \in SUBSET unsaved
               /\ \A q \in Pages : Contents(q)' = Contents(q)
    <3>1. UNCHANGED <<pageNumber, bufPool>> /\ status' # "OK" /\ hpage' = hpage
      BY <2>4 DEF ReadFails, Return, TypeOK, descr, caller
    <3>2. \A q \in Pages : ~Resident(q) => disk'[q] = disk[q]
      BY <2>4 DEF Resident, TypeOK
    <3> QED BY <2>4, <3>1, <3>2, SavedContents
  <2>5. ASSUME disk' = [disk EXCEPT ![pageNumber[f]] = bufPool[f]],
               bufPool' = IF emptyPage THEN bufPool ELSE [bufPool EXCEPT ![f] = disk[p]],
               unsaved' = (unsaved \ {pageNumber[f]}) \cup (IF emptyPage THEN {p} ELSE {}),
               ResetDescriptor(f, p), HandOut(c, p, f), Return("OK")
        PROVE  /\ status' = "OK" /\ hpage' = [hpage EXCEPT ![c] = p]
               /\ \A q \in Pages \ {p} : Contents(q)' = Contents(q)
               /\ unsaved' \in SUBSET (unsaved \cup (IF emptyPage THEN {p} ELSE {}))
               /\ Contents(p)' # Contents(p) => emptyPage /\ p \in unsaved'
    <3>1. /\ pageNumber' = [pageNumber EXCEPT ![f] = p]
          /\ \A g \in Frames \ {f} : bufPool'[g] = bufPool[g]
          /\ ~emptyPage => bufPool'[f] = disk[p]
      BY <2>5 DEF ResetDescriptor, TypeOK
    <3>2. /\ \A q \in Pages \ {p} : Contents(q)' = Contents(q)
          /\ bufPool'[f] = disk[p] => Contents(p)' = Contents(p)
      BY <2>0, <2>2, <2>5, <3>1, ReplacedContents
    <3> QED BY <2>5, <3>1, <3>2 DEF HandOut, Return
  <2> QED BY <2>1, <2>3, <2>4, <2>5
<1>4. CASE PinFull(p)
  <2>1. UNCHANGED <<pageNumber, bufPool, disk, unsaved, hpage>> /\ status' # "OK"
    BY <1>4 DEF PinFull, Return, descr, caller
  <2> QED BY <2>1, SameContents
<1> QED BY <1>1, <1>2, <1>3, <1>4 DEF PinPaths

(* Each step of the manager is a step of the store, or none.               *)
LEMMA StoreStep ==
  ASSUME ~ShortReads, ~DiskCanFill, IInv, IInv', [Next]_vars
  PROVE  [Store!StoreNext]_(Store!storeVars)
<1> USE DEF IInv
<1> DEFINE S == [p \in Pages |-> Contents(p)]
<1>0. \A p \in Pages : S[p] = Contents(p) /\ S'[p] = Contents(p)'
  OBVIOUS
<1>a. \A p \in Pages : Contents(p) \in Data /\ Contents(p)' \in Data
  BY ContentsAt, ContentsAfter
<1>b. S' = S <=> \A p \in Pages : Contents(p)' = Contents(p)
  OBVIOUS
<1>c. ASSUME S' = S, alloc' = alloc, hpage' = hpage, unsaved' \in SUBSET unsaved
      PROVE  Store!Save
  BY <1>c DEF Store!Save, Store!SaveSome
<1>1. ASSUME NEW c \in Clients, NEW p \in Pages, pinPage(c, p)
      PROVE  Store!Pin(c, p) \/ Store!Save
  <2>1. Idle(c) /\ p \in alloc /\ alloc' = alloc /\ PinPaths(c, p, FALSE)
    BY <1>1 DEF pinPage
  <2>2. /\ S' = S /\ unsaved' \in SUBSET unsaved
        /\ hpage' = [hpage EXCEPT ![c] = p] \/ hpage' = hpage
    BY <2>1, <1>b, PinContents
  <2>3. hpage[c] = INVALID_PAGE
    BY <2>1 DEF PoolInv, PinsMatchHandles
  <2> QED BY <1>c, <2>1, <2>2, <2>3 DEF Store!Pin, Store!SaveSome
<1>2. ASSUME NEW c \in Clients, NEW p \in Pages, newPage(c, p)
      PROVE  Store!New(c, p) \/ Store!Save
  <2>1. /\ Idle(c) /\ p \notin alloc /\ PinPaths(c, p, TRUE)
        /\ alloc' = IF status' = "OK" THEN alloc \cup {p} ELSE alloc \ {p}
    BY <1>2 DEF newPage
  <2>2. hpage[c] = INVALID_PAGE
    BY <2>1 DEF PoolInv, PinsMatchHandles
  <2>3. CASE status' = "OK"
    <3>1. /\ hpage' = [hpage EXCEPT ![c] = p]
          /\ unsaved' \in SUBSET (unsaved \cup {p})
          /\ \A q \in Pages \ {p} : Contents(q)' = Contents(q)
          /\ Contents(p)' # Contents(p) => p \in unsaved'
      BY <2>1, <2>3, PinContents
    <3>2. S' = [S EXCEPT ![p] = Contents(p)'] /\ Contents(p)' \in Data
      BY <1>a, <3>1
    <3>3. S'[p] # S[p] => p \in unsaved'
      BY <3>1
    <3> HIDE DEF S
    <3> QED BY <2>1, <2>2, <2>3, <3>1, <3>2, <3>3 DEF Store!New, S
  <2>4. CASE status' # "OK"
    <3>1. S' = S /\ hpage' = hpage /\ unsaved' \in SUBSET unsaved
      BY <2>1, <2>4, <1>b, PinContents
    <3> QED BY <1>c, <2>1, <2>4, <3>1
  <2> QED BY <2>3, <2>4
<1>3. ASSUME NEW c \in Clients, NEW dirty \in BOOLEAN, NEW hate \in BOOLEAN, unpinPage(c, dirty, hate)
      PROVE  Store!Unpin(c, dirty)
  <2>1. /\ hpage[c] \in Pages /\ hframe[c] \in Frames /\ pageNumber[hframe[c]] = hpage[c]
        /\ hpage[c] # INVALID_PAGE
    BY <1>3, BufMgrAssumption DEF unpinPage, PoolInv, PinsMatchHandles, TypeOK, Idle, INVALID_PAGE
  <2>2. UNCHANGED <<pageNumber, bufPool, alloc>> /\ hpage' = [hpage EXCEPT ![c] = INVALID_PAGE]
    BY <1>3 DEF unpinPage
  <2>3. CASE ~dirty
    <3>1. UNCHANGED <<disk, unsaved>>
      BY <1>3, <2>3 DEF unpinPage
    <3>2. S' = S
      BY <2>2, <3>1, SameContents, <1>b
    <3> QED BY <2>1, <2>2, <2>3, <3>1, <3>2 DEF Store!Unpin
  <2>4. CASE dirty
    <3>1. WritePage(hpage[c])
      BY <1>3, <2>4 DEF unpinPage
    <3>2. NodesOf(hpage[c]) # {}
      BY <2>1, Lookup DEF PoolInv
    <3>3. /\ \A q \in Pages : ~Resident(q) => disk'[q] = disk[q]
          /\ unsaved' = unsaved \ {hpage[c]} \/ (MaxWriteFaults > 0 /\ unsaved' = unsaved)
      <4>1. Resident(hpage[c])
        BY <2>1 DEF Resident
      <4>2. writeFaults < MaxWriteFaults => MaxWriteFaults > 0
        BY BufMgrAssumption DEF PoolInv, TypeOK
      <4> QED BY <3>1, <3>2, <4>1, <4>2 DEF WritePage, PoolInv, TypeOK
    <3>4. S' = S
      BY <2>2, <3>3, SavedContents, <1>b
    <3> QED BY <2>1, <2>2, <2>4, <3>3, <3>4 DEF Store!Unpin
  <2> QED BY <2>3, <2>4
<1>4. ASSUME NEW c \in Clients, NEW v \in Data, writeData(c, v)
      PROVE  Store!Write(c, v)
  <2>1. /\ hpage[c] \in Pages /\ hframe[c] \in Frames /\ pageNumber[hframe[c]] = hpage[c]
        /\ hpage[c] # INVALID_PAGE
    BY <1>4, BufMgrAssumption DEF writeData, PoolInv, PinsMatchHandles, TypeOK, Idle, INVALID_PAGE
  <2>2. /\ bufPool' = [bufPool EXCEPT ![hframe[c]] = v]
        /\ unsaved' = unsaved \cup {hpage[c]}
        /\ UNCHANGED <<pageNumber, disk, alloc, hpage>>
    BY <1>4 DEF writeData, descr, db, caller
  <2>0. PICK p \in Pages : p = hpage[c]
    BY <2>1
  <2>3. Contents(p)' = v
    <3>1. pageNumber'[hframe[c]] = p /\ bufPool'[hframe[c]] = v
      BY <2>0, <2>1, <2>2 DEF PoolInv, TypeOK
    <3> QED BY <2>1, <3>1, ContentsAfter
  <2>4. ASSUME NEW q \in Pages, q # p PROVE Contents(q)' = Contents(q)
    <3>1. ASSUME NEW g \in Frames, pageNumber[g] = q PROVE Contents(q)' = Contents(q)
      <4>1. pageNumber'[g] = q /\ bufPool'[g] = bufPool[g]
        BY <2>0, <2>1, <2>2, <2>4, <3>1 DEF PoolInv, TypeOK
      <4> QED BY <3>1, <4>1, ContentsAt, ContentsAfter
    <3>2. CASE ~Resident(q)
      <4>1. ~Resident(q)'
        BY <2>2, <3>2 DEF Resident
      <4> QED BY <2>2, <3>2, <4>1, ContentsAt, ContentsAfter
    <3> QED BY <3>1, <3>2 DEF Resident
  <2>5. S' = [S EXCEPT ![hpage[c]] = v]
    <3>1. S' = [S EXCEPT ![p] = v]
      BY <2>3, <2>4
    <3> QED BY <2>0, <3>1
  <2> QED BY <2>1, <2>2, <2>5 DEF Store!Write
<1>5. ASSUME NEW p \in Pages, unpinUnpinned(p)
      PROVE  UNCHANGED Store!storeVars
  <2>1. UNCHANGED <<pageNumber, bufPool, disk, alloc, hpage, unsaved>>
    BY <1>5 DEF unpinUnpinned, descr, db, caller
  <2>2. S' = S
    BY <2>1, SameContents, <1>b
  <2> QED BY <2>1, <2>2 DEF Store!storeVars
<1>6. ASSUME NEW p \in Pages, freePage(p)
      PROVE  Store!Free(p) \/ UNCHANGED Store!storeVars
  <2>1. UNCHANGED <<pageNumber, bufPool, disk, hpage, unsaved>> /\ p \in alloc
    BY <1>6 DEF freePage, descr, caller
  <2>2. S' = S
    BY <2>1, SameContents, <1>b
  <2>3. CASE alloc' = alloc
    BY <2>1, <2>2, <2>3 DEF Store!storeVars
  <2>4. CASE alloc' = alloc \ {p} /\ p \notin alloc'
    <3>1. \A d \in Clients : hpage[d] # p
      <4>1. PinnedPagesAreAllocated' /\ hframe' = hframe
        BY <1>6 DEF freePage, caller
      <4>2. p # INVALID_PAGE
        BY BufMgrAssumption DEF INVALID_PAGE
      <4> QED BY <2>1, <2>4, <4>1, <4>2 DEF PinnedPagesAreAllocated, PoolInv, PinsMatchHandles, Idle
    <3> QED BY <2>1, <2>2, <2>4, <3>1 DEF Store!Free
  <2> QED BY <1>6, <2>3, <2>4 DEF freePage
<1>7. ASSUME NEW p \in Pages, flushPage(p)
      PROVE  Store!Save
  <2>1. UNCHANGED <<pageNumber, bufPool, alloc, hpage>>
    BY <1>7 DEF flushPage, caller
  <2>2. unsaved' \in SUBSET unsaved /\ \A q \in Pages : ~Resident(q) => disk'[q] = disk[q]
    <3>1. NodesOf(p) # {} => Resident(p)
      BY Lookup DEF Resident, PoolInv
    <3> QED BY <1>7, <3>1 DEF flushPage, WritePage, PoolInv, TypeOK
  <2> QED BY <2>1, <2>2, <1>b, <1>c, SavedContents
<1>d. \A q \in Pages : /\ ~Resident(q) => FlushedDisk[q] = disk[q]
                       /\ \A f \in Frames : pageNumber[f] = q /\ q \notin unsaved => FlushedDisk[q] = bufPool[f]
  <2> SUFFICES ASSUME NEW q \in Pages
               PROVE  /\ ~Resident(q) => FlushedDisk[q] = disk[q]
                      /\ \A f \in Frames : pageNumber[f] = q /\ q \notin unsaved => FlushedDisk[q] = bufPool[f]
    OBVIOUS
  <2>1. ~Resident(q) => DirtyWith(q) = {}
    BY DEF Resident, DirtyWith
  <2>2. ASSUME NEW f \in Frames, pageNumber[f] = q, q \notin unsaved
        PROVE  FlushedDisk[q] = bufPool[f]
    <3>1. DirtyWith(q) \subseteq {f}
      BY <2>2, BufMgrAssumption DEF DirtyWith, PoolInv, HashMatchesDescriptors, INVALID_PAGE
    <3>2. bufPool[f] = disk[q]
      BY <2>2 DEF PoolInv, CleanPagesAreOnDisk
    <3> QED BY <3>1, <3>2 DEF FlushedDisk
  <2> QED BY <2>1, <2>2 DEF FlushedDisk
<1>8. ASSUME flushAllPages
      PROVE  Store!Save
  <2>1. /\ UNCHANGED <<pageNumber, bufPool, alloc, hpage>>
        /\ unsaved' \in SUBSET unsaved
        /\ disk' = FlushedDisk
    BY <1>8 DEF flushAllPages, caller, FlushedUnsaved
  <2> QED BY <2>1, <1>b, <1>c, <1>d, SavedContents
<1>9. ASSUME restart
      PROVE  Store!Restart
  <2>1. /\ \A q \in Pages : ~Resident(q)'
        /\ disk' = FlushedDisk /\ unsaved' = {} /\ alloc' = alloc
        /\ hpage' = [c \in Clients |-> INVALID_PAGE]
    <3>1. \A f \in Frames : pageNumber'[f] = INVALID_PAGE
      BY <1>9 DEF restart
    <3> QED BY <1>9, <3>1, BufMgrAssumption DEF restart, Resident, INVALID_PAGE
  <2>2. ASSUME NEW q \in Pages, q \notin unsaved PROVE Contents(q)' = Contents(q)
    <3>1. Contents(q)' = FlushedDisk[q]
      BY <2>1, ContentsAfter
    <3>2. ASSUME NEW f \in Frames, pageNumber[f] = q PROVE Contents(q)' = Contents(q)
      BY <1>d, <2>2, <3>1, <3>2, ContentsAt
    <3>3. CASE ~Resident(q)
      BY <1>d, <3>1, <3>3, ContentsAt
    <3> QED BY <3>2, <3>3 DEF Resident
  <2>3. S' \in [Pages -> Data] /\ \A q \in Pages \ unsaved : S'[q] = S[q]
    BY <1>a, <2>2
  <2> QED BY <2>1, <2>3 DEF Store!Restart
<1>10. ASSUME UNCHANGED vars
       PROVE  UNCHANGED Store!storeVars
  <2>1. UNCHANGED <<pageNumber, bufPool, disk, alloc, hpage, unsaved>>
    BY <1>10 DEF vars, descr, db, caller
  <2>2. S' = S
    BY <2>1, SameContents, <1>b
  <2> QED BY <2>1, <2>2 DEF Store!storeVars
<1> HIDE DEF S
<1> QED BY <1>1, <1>2, <1>3, <1>4, <1>5, <1>6, <1>7, <1>8, <1>9, <1>10 DEF Next, Store!StoreNext

(* The buffer manager implements the page store, as long as a failing read  *)
(* leaves no bytes in a victim's frame and the disk does not run full: what *)
(* callers see through their pins is one store of pages, whatever the pool  *)
(* replaced, and a page saved since its last write survives a restart.      *)
THEOREM BufMgrImplementsPageStore ==
  ASSUME ~ShortReads, ~DiskCanFill
  PROVE  Spec => ImplementsPageStore
<1>1. Init => Store!StoreInit
  <2> SUFFICES ASSUME Init PROVE Store!StoreInit
    OBVIOUS
  <2>1. \A p \in Pages : Contents(p) \in Data
    BY InitInv, ContentsAt DEF IInv
  <2> QED BY <2>1 DEF Init, Store!StoreInit
<1>2. IInv /\ IInv' /\ [Next]_vars => [Store!StoreNext]_(Store!storeVars)
  BY StoreStep
<1> QED BY <1>1, <1>2, BufMgrInvariant, PTL DEF Spec, ImplementsPageStore, Store!StoreSpec
=============================================================================
