------------------------------- MODULE BufMgr -------------------------------
(***************************************************************************)
(* The buffer manager of Minibase (src/Minibase/BufMgr/src/buf.C; the      *)
(* B+-tree project carries the same file).  A pool of frames caches disk   *)
(* pages; callers pin a page, read and write it through the Page pointer   *)
(* they got, and unpin it as dirty or clean, loved or hated.  The DB layer *)
(* below (read_page, write_page, allocate_page, deallocate_page) is a      *)
(* binary library: it is modelled from how buf.C uses it.                  *)
(*                                                                         *)
(* Calls run one at a time (the program has one thread) but any number of  *)
(* callers hold pins at once: a heap-file scan, a B+-tree cursor and an    *)
(* insertion each keep Page pointers while others call the manager.  A     *)
(* client of this module is one such outstanding pin.                      *)
(***************************************************************************)
EXTENDS Integers, FiniteSets

CONSTANTS
  Clients,        (* slots for outstanding pins                            *)
  Pages,          (* page numbers that the callers use                     *)
  Data,           (* contents a page can have                              *)
  NumBuffers,     (* numbuf, the argument of the constructor               *)
  HTSIZE,         (* number of hash buckets                                *)
  MaxIndex,       (* bound on loveIndex and hateIndex                      *)
  MaxReadFaults,  (* bound on the failing calls of DB::read_page           *)
  MaxWriteFaults, (* bound on the failing calls of DB::write_page          *)
  ShortReads,     (* may a failing read leave bytes in the frame?          *)
  DiskCanFill     (* may DB::allocate_page fail because the disk is full?  *)

INVALID_PAGE == -1
NoFrame      == -1

(***************************************************************************)
(* hashTable is allocated with numBuffers entries and indexed modulo       *)
(* HTSIZE: the code relies on HTSIZE <= NumBuffers.  A bound of             *)
(* at least 1 lets the first unpin happen.                                 *)
(***************************************************************************)
ASSUME BufMgrAssumption ==
  /\ IsFiniteSet(Clients)
  /\ Pages \subseteq Nat
  /\ Data # {}
  /\ NumBuffers \in Nat \ {0}
  /\ HTSIZE \in 1..NumBuffers
  /\ MaxIndex \in Nat \ {0}
  /\ MaxReadFaults \in Nat
  /\ MaxWriteFaults \in Nat
  /\ ShortReads \in BOOLEAN
  /\ DiskCanFill \in BOOLEAN

Frames   == 0..(NumBuffers - 1)
Buckets  == 0..(HTSIZE - 1)
Nodes    == [pageNumber : Pages, bufNumber : Frames]
Statuses == {"OK", "DBMGR", "BUFFERFULL", "BUFFERPAGENOTFOUND",
             "BUFFERPAGENOTPINNED", "BUFFERPAGEPINNED"}

VARIABLES
  pageNumber, pin_count, dirtyBit, loveIndex, hateIndex, (* bufDescr       *)
  hashTable,      (* bucket -> its nodes, without the sentinel             *)
  bufPool,        (* frame -> contents                                     *)
  disk,           (* DB: page -> contents on disk                          *)
  alloc,          (* DB: the allocated pages                               *)
  hpage, hframe,  (* client -> page it has pinned, frame it points at      *)
  unsaved,        (* pages written through a pointer since the last time   *)
                  (* the manager wrote them to disk                        *)
  status,         (* Status returned by the last call                      *)
  readFaults, writeFaults  (* failing DB calls so far                      *)

descr  == <<pageNumber, pin_count, dirtyBit, loveIndex, hateIndex>>
db     == <<disk, alloc>>
caller == <<hpage, hframe>>
faults == <<readFaults, writeFaults>>
vars   == <<descr, hashTable, bufPool, db, caller, unsaved, status, faults>>

-----------------------------------------------------------------------------
hashFunction(p) == (3 * p + 5) % HTSIZE

NodesOf(p) == {n \in hashTable[hashFunction(p)] : n.pageNumber = p}

(* Mutants of definitions of this module are named after what they get      *)
(* wrong; no action uses them.                                             *)
NextIndexNoIncrement(index) ==
  CHOOSE k \in 0..MaxIndex :
    LET used == {index[f] : f \in {g \in Frames : pageNumber[g] # INVALID_PAGE}}
    IN  k \in used /\ \A x \in used : x <= k

NextIndexAlwaysOne(index) == 1

(* One more than the largest index of a resident page (buf.C 220-227).     *)
NextIndex(index) ==
  CHOOSE k \in 1..(MaxIndex + 1) :
    LET used == {index[f] : f \in {g \in Frames : pageNumber[g] # INVALID_PAGE}}
    IN  /\ \A x \in used : x < k
        /\ k = 1 \/ k - 1 \in used

LovedEvenPinned == {f \in Frames : loveIndex[f] > 0}

(* The victim of buf.C 112-141: the most recently hated frame, else the    *)
(* least recently loved one; the first such frame of the pool.             *)
Hated == {f \in Frames : hateIndex[f] > 0 /\ pin_count[f] = 0 /\ loveIndex[f] = 0}
Loved == {f \in Frames : loveIndex[f] > 0 /\ pin_count[f] = 0}

IsVictim(f) ==
  \/ /\ f \in Hated
     /\ \A g \in Hated : \/ hateIndex[g] < hateIndex[f]
                         \/ hateIndex[g] = hateIndex[f] /\ f <= g
  \/ /\ Hated = {}
     /\ f \in Loved
     /\ \A g \in Loved : \/ loveIndex[f] < loveIndex[g]
                         \/ loveIndex[f] = loveIndex[g] /\ f <= g

getNumUnpinnedBuffers == Cardinality({f \in Frames : pin_count[f] = 0})

(* The unused frame that pinPage finds first.                              *)
IsFirstFree(f) == /\ pageNumber[f] = INVALID_PAGE
                  /\ \A g \in 0..(f - 1) : pageNumber[g] # INVALID_PAGE

Resident(p) == \E f \in Frames : pageNumber[f] = p

-----------------------------------------------------------------------------
(* What several calls do.                                                  *)

Return(s) == status' = s

HandOut(c, p, f) == /\ hpage'  = [hpage  EXCEPT ![c] = p]
                    /\ hframe' = [hframe EXCEPT ![c] = f]

ResetDescriptor(f, p) ==
  /\ pageNumber' = [pageNumber EXCEPT ![f] = p]
  /\ pin_count'  = [pin_count  EXCEPT ![f] = 1]
  /\ dirtyBit'   = [dirtyBit   EXCEPT ![f] = FALSE]
  /\ loveIndex'  = [loveIndex  EXCEPT ![f] = 0]
  /\ hateIndex'  = [hateIndex  EXCEPT ![f] = 0]

Node(p, f) == [pageNumber |-> p, bufNumber |-> f]

(* A failing read_page into frame f: nothing read, or part of a page.      *)
ReadFails(f) ==
  /\ readFaults < MaxReadFaults
  /\ readFaults' = readFaults + 1
  /\ \E v \in IF ShortReads THEN Data ELSE {bufPool[f]} :
       bufPool' = [bufPool EXCEPT ![f] = v]
  /\ Return("DBMGR")

-----------------------------------------------------------------------------
(* The paths of pinPage.  They leave alloc to the caller, newPage or a     *)
(* plain pinPage.                                                          *)

PinHitNoCount(c, p) ==
  \E n \in NodesOf(p) :
    /\ HandOut(c, p, n.bufNumber)
    /\ Return("OK")
    /\ UNCHANGED <<descr, hashTable, bufPool, disk, unsaved, faults>>

(* The page is in the pool.                                                *)
PinHit(c, p) ==
  \E n \in NodesOf(p) :
    /\ pin_count' = [pin_count EXCEPT ![n.bufNumber] = @ + 1]
    /\ HandOut(c, p, n.bufNumber)
    /\ Return("OK")
    /\ UNCHANGED <<pageNumber, dirtyBit, loveIndex, hateIndex, hashTable,
                   bufPool, disk, unsaved, faults>>

(* A frame was never used: the page is read into it, even for newPage.     *)
PinFree(c, p) ==
  /\ NodesOf(p) = {}
  /\ \E f \in Frames :
       /\ IsFirstFree(f)
       /\ \/ /\ bufPool' = [bufPool EXCEPT ![f] = disk[p]]
             /\ ResetDescriptor(f, p)
             /\ hashTable' = [hashTable EXCEPT ![hashFunction(p)] = @ \cup {Node(p, f)}]
             /\ HandOut(c, p, f)
             /\ Return("OK")
             /\ UNCHANGED faults
          \/ /\ ReadFails(f)
             /\ UNCHANGED <<descr, hashTable, caller, writeFaults>>
  /\ UNCHANGED <<disk, unsaved>>

NoFreeFrame == \A f \in Frames : pageNumber[f] # INVALID_PAGE

RehashKeepsOldNode(f, p) ==
  hashTable' = [hashTable EXCEPT ![hashFunction(p)] = @ \cup {Node(p, f)}]

(* Frame f changes its page: its node leaves the old bucket, a new one     *)
(* enters the bucket of p.                                                 *)
Rehash(f, p) ==
  LET old     == hashFunction(pageNumber[f])
      removed == [hashTable EXCEPT ![old] = {n \in @ : n.bufNumber # f}]
  IN  hashTable' = [removed EXCEPT ![hashFunction(p)] = @ \cup {Node(p, f)}]

PinReplaceNoWriteBack(c, p, emptyPage) ==
  /\ NodesOf(p) = {}
  /\ NoFreeFrame
  /\ \E f \in Frames :
       /\ IsVictim(f)
       /\ bufPool' = IF emptyPage THEN bufPool ELSE [bufPool EXCEPT ![f] = disk[p]]
       /\ Rehash(f, p)
       /\ ResetDescriptor(f, p)
       /\ HandOut(c, p, f)
       /\ Return("OK")
  /\ unsaved' = unsaved \cup (IF emptyPage THEN {p} ELSE {})
  /\ UNCHANGED <<disk, faults>>

(* A victim is written out and replaced; emptyPage skips the read and      *)
(* leaves the victim's bytes in the frame.                                 *)
PinReplace(c, p, emptyPage) ==
  /\ NodesOf(p) = {}
  /\ NoFreeFrame
  /\ \E f \in Frames :
       /\ IsVictim(f)
       /\ \/ /\ writeFaults < MaxWriteFaults
             /\ writeFaults' = writeFaults + 1
             /\ Return("DBMGR")
             /\ UNCHANGED <<descr, hashTable, bufPool, disk, caller, unsaved, readFaults>>
          \/ /\ ~emptyPage
             /\ disk' = [disk EXCEPT ![pageNumber[f]] = bufPool[f]]
             /\ unsaved' = unsaved \ {pageNumber[f]}
             /\ ReadFails(f)
             /\ UNCHANGED <<descr, hashTable, caller, writeFaults>>
          \/ /\ disk' = [disk EXCEPT ![pageNumber[f]] = bufPool[f]]
             /\ bufPool' = IF emptyPage THEN bufPool
                                        ELSE [bufPool EXCEPT ![f] = disk[p]]
             /\ unsaved' = (unsaved \ {pageNumber[f]}) \cup (IF emptyPage THEN {p} ELSE {})
             /\ Rehash(f, p)
             /\ ResetDescriptor(f, p)
             /\ HandOut(c, p, f)
             /\ Return("OK")
             /\ UNCHANGED faults

(* No frame can be replaced.                                               *)
PinFull(p) ==
  /\ NodesOf(p) = {}
  /\ NoFreeFrame
  /\ ~ \E f \in Frames : IsVictim(f)
  /\ Return("BUFFERFULL")
  /\ UNCHANGED <<descr, hashTable, bufPool, disk, caller, unsaved, faults>>

PinPaths(c, p, emptyPage) ==
  \/ PinHit(c, p)
  \/ PinFree(c, p)
  \/ PinReplace(c, p, emptyPage)
  \/ PinFull(p)

-----------------------------------------------------------------------------
(* The public calls.                                                       *)

Idle(c) == hframe[c] = NoFrame

(* Callers pin pages that they allocated.                                  *)
pinPage(c, p) ==
  /\ Idle(c)
  /\ p \in alloc
  /\ PinPaths(c, p, FALSE)
  /\ UNCHANGED alloc

(* allocate_page picks an unused page.  Its Status is ignored: when the    *)
(* disk is full firstPageId keeps whatever value the caller's variable had.*)
newPage(c, p) ==
  /\ Idle(c)
  /\ p \notin alloc \/ (DiskCanFill /\ alloc = Pages)
  /\ PinPaths(c, p, TRUE)
  /\ alloc' = IF status' = "OK" THEN alloc \cup {p} ELSE alloc \ {p}

WritePageForgets(p) ==
  /\ unsaved' = unsaved \ {p}
  /\ UNCHANGED <<dirtyBit, disk, faults>>

(* The write_page of flushPage; its Status is ignored.                     *)
WritePage(p) ==
  \/ /\ \E n \in NodesOf(p) :
          /\ disk' = [disk EXCEPT ![p] = bufPool[n.bufNumber]]
          /\ dirtyBit' = [dirtyBit EXCEPT ![n.bufNumber] = FALSE]
     /\ unsaved' = unsaved \ {p}
     /\ UNCHANGED faults
  \/ /\ writeFaults < MaxWriteFaults
     /\ writeFaults' = writeFaults + 1
     /\ \E n \in NodesOf(p) :
          dirtyBit' = [dirtyBit EXCEPT ![n.bufNumber] = FALSE]
     /\ UNCHANGED <<disk, unsaved, readFaults>>
  \/ /\ NodesOf(p) = {}
     /\ UNCHANGED <<dirtyBit, disk, unsaved, faults>>

flushPage(p) ==
  /\ WritePage(p)
  /\ Return(IF NodesOf(p) = {} THEN "BUFFERPAGENOTFOUND" ELSE "OK")
  /\ UNCHANGED <<pageNumber, pin_count, loveIndex, hateIndex, hashTable, bufPool,
                 alloc, caller>>

(* The frame that unpinPage finds for page p.                              *)
IsFirstWith(f, p) == /\ pageNumber[f] = p
                     /\ \A g \in 0..(f - 1) : pageNumber[g] # p

unpinPage(c, dirty, hate) ==
  /\ ~Idle(c)
  /\ \E f \in Frames :
       /\ IsFirstWith(f, hpage[c])
       /\ pin_count[f] # 0
       /\ pin_count' = [pin_count EXCEPT ![f] = @ - 1]
       /\ IF dirty THEN WritePage(hpage[c])
                   ELSE UNCHANGED <<dirtyBit, disk, unsaved, faults>>
       /\ IF hate
          THEN /\ NextIndex(hateIndex) <= MaxIndex
               /\ hateIndex' = [hateIndex EXCEPT ![f] = NextIndex(hateIndex)]
               /\ UNCHANGED loveIndex
          ELSE /\ NextIndex(loveIndex) <= MaxIndex
               /\ loveIndex' = [loveIndex EXCEPT ![f] = NextIndex(loveIndex)]
               /\ UNCHANGED hateIndex
  /\ hpage'  = [hpage  EXCEPT ![c] = INVALID_PAGE]
  /\ hframe' = [hframe EXCEPT ![c] = NoFrame]
  /\ Return("OK")
  /\ UNCHANGED <<pageNumber, hashTable, bufPool, alloc>>

unpinUnpinnedNoCheck(p) ==
  /\ \E f \in Frames :
       IsFirstWith(f, p) /\ pin_count' = [pin_count EXCEPT ![f] = @ - 1]
  /\ Return("OK")
  /\ UNCHANGED <<pageNumber, dirtyBit, loveIndex, hateIndex, hashTable, bufPool, db,
                 caller, unsaved, faults>>

(* unpinPage of a page that nobody has pinned.  When the page is not in    *)
(* the pool the search ends at bufDescr[numBuffers], past the array: the   *)
(* memory there decides between an error and OK.                           *)
unpinUnpinned(p) ==
  /\ \/ /\ \E f \in Frames : IsFirstWith(f, p) /\ pin_count[f] = 0
        /\ Return("BUFFERPAGENOTPINNED")
     \/ /\ ~Resident(p)
        /\ status' \in {"OK", "BUFFERPAGENOTPINNED"}
  /\ UNCHANGED <<descr, hashTable, bufPool, db, caller, unsaved, faults>>

freePageAnyPin(p) ==
  /\ p \in alloc
  /\ NodesOf(p) # {}
  /\ alloc' = alloc \ {p}
  /\ Return("OK")
  /\ UNCHANGED <<descr, hashTable, bufPool, disk, caller, unsaved, faults>>

(* The frame of a freed page keeps the page: only the DB forgets it.       *)
freePage(p) ==
  /\ p \in alloc
  /\ \/ \E n \in NodesOf(p) :
          IF pin_count[n.bufNumber] = 0
          THEN alloc' = alloc \ {p} /\ Return("OK")
          ELSE UNCHANGED alloc /\ Return("BUFFERPAGEPINNED")
     \/ NodesOf(p) = {} /\ UNCHANGED alloc /\ Return("BUFFERPAGENOTFOUND")
  /\ UNCHANGED <<descr, hashTable, bufPool, disk, caller, unsaved, faults>>

(* Only frames with dirtyBit are written.                                  *)
DirtyWith(p) == {f \in Frames : dirtyBit[f] /\ pageNumber[f] = p}

FlushedDisk == [p \in Pages |-> IF DirtyWith(p) = {} THEN disk[p]
                                ELSE bufPool[CHOOSE f \in DirtyWith(p) : TRUE]]

FlushedUnsaved == {p \in unsaved : DirtyWith(p) = {}}

flushAllPages ==
  /\ disk' = FlushedDisk
  /\ unsaved' = FlushedUnsaved
  /\ dirtyBit' = [f \in Frames |-> FALSE]
  /\ Return("OK")
  /\ UNCHANGED <<pageNumber, pin_count, loveIndex, hateIndex, hashTable, bufPool,
                 alloc, caller, faults>>

(* delete MINIBASE_BM; MINIBASE_BM = new BufMgr(NUMBUF): the destructor    *)
(* flushes, the new pool is empty, pointers into the old one are dead.     *)
restart ==
  /\ disk' = FlushedDisk
  /\ unsaved' = {}
  /\ pageNumber' = [f \in Frames |-> INVALID_PAGE]
  /\ pin_count'  = [f \in Frames |-> 0]
  /\ dirtyBit'   = [f \in Frames |-> FALSE]
  /\ loveIndex'  = [f \in Frames |-> 0]
  /\ hateIndex'  = [f \in Frames |-> 0]
  /\ hashTable'  = [b \in Buckets |-> {}]
  /\ bufPool' \in {[f \in Frames |-> v] : v \in Data}
  /\ hpage'  = [c \in Clients |-> INVALID_PAGE]
  /\ hframe' = [c \in Clients |-> NoFrame]
  /\ Return("OK")
  /\ UNCHANGED <<alloc, faults>>

(* A caller stores into the page through its pointer.                      *)
writeData(c, v) ==
  /\ ~Idle(c)
  /\ bufPool' = [bufPool EXCEPT ![hframe[c]] = v]
  /\ unsaved' = unsaved \cup {hpage[c]}
  /\ UNCHANGED <<descr, hashTable, db, caller, status, faults>>

-----------------------------------------------------------------------------
Init ==
  /\ pageNumber = [f \in Frames |-> INVALID_PAGE]
  /\ pin_count  = [f \in Frames |-> 0]
  /\ dirtyBit   = [f \in Frames |-> FALSE]
  /\ loveIndex  = [f \in Frames |-> 0]
  /\ hateIndex  = [f \in Frames |-> 0]
  /\ hashTable  = [b \in Buckets |-> {}]
  /\ bufPool \in {[f \in Frames |-> v] : v \in Data}
  /\ disk \in [Pages -> Data]
  /\ alloc \in SUBSET Pages
  /\ hpage  = [c \in Clients |-> INVALID_PAGE]
  /\ hframe = [c \in Clients |-> NoFrame]
  /\ unsaved = {}
  /\ status = "OK"
  /\ readFaults = 0
  /\ writeFaults = 0

Next ==
  \/ \E c \in Clients :
       \/ \E p \in Pages : pinPage(c, p) \/ newPage(c, p)
       \/ \E dirty, hate \in BOOLEAN : unpinPage(c, dirty, hate)
       \/ \E v \in Data : writeData(c, v)
  \/ \E p \in Pages : unpinUnpinned(p) \/ freePage(p) \/ flushPage(p)
  \/ flushAllPages
  \/ restart

Spec == Init /\ [][Next]_vars

-----------------------------------------------------------------------------
TypeOK ==
  /\ pageNumber \in [Frames -> Pages \cup {INVALID_PAGE}]
  /\ pin_count \in [Frames -> Nat]
  /\ dirtyBit \in [Frames -> BOOLEAN]
  /\ loveIndex \in [Frames -> 0..MaxIndex]
  /\ hateIndex \in [Frames -> 0..MaxIndex]
  /\ hashTable \in [Buckets -> SUBSET Nodes]
  /\ bufPool \in [Frames -> Data]
  /\ disk \in [Pages -> Data]
  /\ alloc \in SUBSET Pages
  /\ hpage \in [Clients -> Pages \cup {INVALID_PAGE}]
  /\ hframe \in [Clients -> Frames \cup {NoFrame}]
  /\ unsaved \in SUBSET Pages
  /\ status \in Statuses
  /\ readFaults \in 0..MaxReadFaults
  /\ writeFaults \in 0..MaxWriteFaults

(* The hash table and the descriptors agree: a bucket holds exactly one     *)
(* node for each resident page that hashes to it (pinPage finds a page      *)
(* through the hash table, unpinPage through the descriptors), and no page  *)
(* is in two frames.                                                        *)
HashMatchesDescriptors ==
  /\ \A b \in Buckets, n \in Nodes :
       n \in hashTable[b] <=> /\ pageNumber[n.bufNumber] = n.pageNumber
                              /\ hashFunction(n.pageNumber) = b
  /\ \A f, g \in Frames :
       pageNumber[f] = pageNumber[g] /\ f # g => pageNumber[f] = INVALID_PAGE

Holders(f) == {c \in Clients : hframe[c] = f}

(* pin_count counts the outstanding pins of a frame, and the frame that a   *)
(* caller points at still holds the page the caller pinned.                 *)
PinsMatchHandles ==
  /\ \A f \in Frames : pin_count[f] = Cardinality(Holders(f))
  /\ \A c \in Clients :
       IF Idle(c) THEN hpage[c] = INVALID_PAGE
       ELSE hpage[c] \in Pages /\ pageNumber[hframe[c]] = hpage[c]

(* "Buffer full" means what callers take it to mean: every frame is pinned. *)
(* It could also come from a frame that is unpinned but neither loved nor   *)
(* hated, which the victim search would never find again.                   *)
FullMeansAllPinned == status = "BUFFERFULL" => getNumUnpinnedBuffers = 0

(* The replacement order is never a tie: two frames that were loved (hated) *)
(* have different indices, although indices restart when frames are reused, *)
(* so "least recently loved" and "most recently hated" are single frames.   *)
RecencyIsStrict ==
  \A f, g \in Frames : f # g =>
    /\ loveIndex[f] # loveIndex[g] \/ loveIndex[f] = 0
    /\ hateIndex[f] # hateIndex[g] \/ hateIndex[f] = 0

(* A page with no unsaved write is on disk as it is in the pool, so losing  *)
(* the pool (delete MINIBASE_BM without a working flush) loses only pages   *)
(* in unsaved; such a page is still in the pool.  A short read breaks this, *)
(* since it leaves bytes in a victim's frame under the victim's name.       *)
CleanPagesAreOnDisk ==
  /\ ~ShortReads => \A f \in Frames :
       pageNumber[f] \in Pages \ unsaved => bufPool[f] = disk[pageNumber[f]]
  /\ \A p \in unsaved : Resident(p)

(* A page that a caller has pinned is allocated: freePage refuses it, and a *)
(* newPage that fails gives back a page that is not in the pool, its own or *)
(* (when allocate_page failed) another one.                                 *)
PinnedPagesAreAllocated == \A c \in Clients : ~Idle(c) => hpage[c] \in alloc

(* What the victim search relies on: a frame in use and not pinned was      *)
(* unpinned as loved or hated since its page came in, and a frame never     *)
(* used carries no pin and no index.                                        *)
UnpinnedFramesAreCandidates ==
  \A f \in Frames :
    IF pageNumber[f] = INVALID_PAGE
    THEN pin_count[f] = 0 /\ loveIndex[f] = 0 /\ hateIndex[f] = 0
    ELSE pin_count[f] = 0 => f \in Hated \cup Loved

(* The parts of the inductive invariant.                                    *)
PoolInv ==
  /\ TypeOK
  /\ HashMatchesDescriptors
  /\ PinsMatchHandles
  /\ UnpinnedFramesAreCandidates
  /\ RecencyIsStrict
  /\ CleanPagesAreOnDisk
  /\ FullMeansAllPinned

IInv == PoolInv /\ PinnedPagesAreAllocated

(* While a caller keeps a pin, no call of another one moves the page out of *)
(* the frame or changes its bytes, whatever DB calls fail: only a caller    *)
(* that stores through its own pointer does.                                *)
HandleStable ==
  [][\A c \in Clients : ~Idle(c) /\ hframe'[c] = hframe[c] =>
       /\ pageNumber'[hframe[c]] = hpage[c]
       /\ \/ bufPool'[hframe[c]] = bufPool[hframe[c]]
          \/ \E d \in Clients, v \in Data : hframe[d] = hframe[c] /\ writeData(d, v)
    ]_vars

-----------------------------------------------------------------------------
(* The buffer manager as a PageStore.                                      *)
FrameOf(p) == CHOOSE f \in Frames : pageNumber[f] = p

(* The contents of page p: the frame's bytes if it is in the pool.         *)
Contents(p) == IF Resident(p) THEN bufPool[FrameOf(p)] ELSE disk[p]

Store == INSTANCE PageStore WITH
  NoPage    <- INVALID_PAGE,
  FlakyDisk <- (MaxWriteFaults > 0),
  store     <- [p \in Pages |-> Contents(p)],
  allocated <- alloc,
  holds     <- hpage,
  atRisk    <- unsaved

(* The buffer manager of buf.C implements the page store: callers cannot   *)
(* see the pool, and what a dirty unpin wrote survives a restart.          *)
ImplementsPageStore == Store!StoreSpec
-----------------------------------------------------------------------------
(* buf.C:301 "Flush all pages of the buffer pool to disk, as per flushPage":*)
(* after the call no resident page has unsaved writes.                      *)
FlushAllPagesSaves == [][flushAllPages => unsaved' = {}]_vars
=============================================================================
