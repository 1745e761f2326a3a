# Specifications of study-archive

This directory holds TLA+ models of the programs of this repository that have a
logic of their own worth checking, the TLC configurations that check them, and
TLAPS proofs. `PROJECT.json` lists the same material for tools: which lines of
the source each definition models, every run, every property with a mutant of
the code that it detects, the hazards, and the theorems.

The repository is an archive of independent programs. No program calls another;
a "component" below is one program, or one layer of one.

## 1. Inventory

### Minibase (`src/Minibase`, C++)

A small relational storage engine in layers, each a project of its own.

| layer | state | operations | correct when |
|---|---|---|---|
| buffer manager, `BufMgr/src/buf.C` (same file in `BTree/src`) | frame descriptors (`pageNumber`, `pin_count`, `dirtyBit`, `loveIndex`, `hateIndex`), hash table, pool; the DB's pages | `pinPage`, `unpinPage`, `newPage`, `freePage`, `flushPage`, `flushAllPages`, `getNumUnpinnedBuffers`, destructor | callers cannot tell the pool from the disk; pins are counted; a pinned page does not move; `BUFFERFULL` only if all is pinned; saved pages survive |
| heap-file page, `HFPage/src/hfpage.C` (older variant in `HeapFile/src`) | slot directory, `usedPtr`, `freeSpace`, links | insert, delete, get, first/next, `available_space` | a bag of records: rids stay valid across compaction, space adds up |
| heap file and scan, `HeapFile/src/heapfile.C`, `scan.C` | directory pages of data-page descriptors; a scan's three positions and pins | insert, update, delete, get, `deleteFile`, scan | each record found once; every pin returned; directory agrees with the pages |
| B+ tree, `BTree/src` | header, index and leaf pages on HFPage, linked leaves | insert with leaf split, delete, range scan | search finds every key; leaves sorted; pins returned |
| DB layer | page allocation and disk | `read_page`, `write_page`, `allocate_page`, `deallocate_page` | binary `libdb.a`: external |

The layers call downwards and share one thing: the pins they hold in the pool at
the same time. Everything runs in one thread, so what is hard is long sequences of
calls, callers whose pins overlap, calls of the layer below that fail halfway, and
losing the pool (`delete MINIBASE_BM`).

### Lab help queue (`src/Lab-Help-Queue-System`, Java)

A server with one thread that accepts client programs, one per client, one per
administrator, one per display, and a timer that clears the queue when a class
ends. They share a `Vector` of `ClientData` (`online`, `helping`, `date`, `handler`)
and two database objects (`Events`, `ID`). Only the `Vector`'s own methods lock.
Hard: every check-then-act, indices that a display's in-place sort invalidates,
exceptions that skip clean-up, reconnection racing the end of the last thread.
Correct when a workstation is served by one thread, an offline one is not queued,
displays show who waits, and `Events` pairs each HELP with a CANCEL. The client,
administrator and display programs are Swing front ends; the model knows them by
what they send.

### Pee-Wee OSPF router (`src/Pee-Wee-OSPF`, C)

Threads: packets (the VNS framework's), HELLOs, LSUs, the OSPF subsystem, one timer
per live neighbour, one per ARP request. State: neighbour table, topology graph,
routing table, sequence number, ARP cache and the queue of packets waiting for ARP;
mutexes `lock`, `all_lock`, the subsystem's lock, and two of the queues.

- *Neighbours* (`sr_pwospf.c` 142-259, 639-791): learn, watch, revive, announce.
  Hard: tests outside the lock racing the timer; correct when each live neighbour
  has one timer and a silent one is withdrawn.
- *Topology and routes* (`sr_pwospf.c` 262-545): graph updates, Dijkstra, routes.
  Hard: LSUs late or repeated, both ends of a link reporting in any order; correct
  when links are symmetric, none is stale, and routes follow shortest paths.
- *Flooding* (`sr_pwospf.c` 262-375, 695-789): numbered LSUs, sent on by everyone,
  unacknowledged. Hard: numbers shared by threads, restarts, copies that overtake each
  other; correct when every router ends up knowing every router's links and copies die out.
- *Forwarding and ARP* (`sr_router.c`): lists shared by threads, retries, frees.

### C-- compiler (`src/Compiler-C--`, C)

One pass over a function's three-address code after another. State: the list of
quads, the symbol table, registers and frame. `gen_optimize` repeats three rewriting passes
(constants, copies, dead code) while the code shrinks; then liveness, an interference
graph and a colouring give registers (`reg_alloc`), and the frame gets its layout.
Hard: passes that see each other's leftovers, facts computed once and used after the
code has changed, cells reached under two names. Correct when the code computes what
the function means, two live variables share no register, two variables no
byte, and the rounds end. Vendored SPIM and 1000 test files are left aside.

### The others

`Simple-Router` (forwarding, an ARP cache that grows), `Minishell` (fork, pipes, a
SIGCHLD handler that competes with `waitpid`), `Encrypted-File-Transfer`
(a sequential stream with frames), `Course-Assistant-Platform` (Spring; the seat check
of `enroll-course` reads, then writes, with no transaction),
`Smart-Faculty-Interview-Meeting-Tracker`, `Online-Order-System`,
`Product-Backlog-Management-System` (each request is one or a few SQL statements), and
scripts, notebooks and web pages. `PROJECT.json` gives each its status and reason.

## 2. Modules

| module | models | extended or instantiated by |
|---|---|---|
| `BufMgr` | `buf.C`, with the DB layer from its use | `MCBufMgr`, `BufMgr_proofs` |
| `PageStore` | what a buffer manager promises; abstract | `MCBufMgr`, `BufMgr_proofs` (`Store`) |
| `BufMgr_proofs` | proofs about `BufMgr`, among them the refinement | |
| `HFPage` | `hfpage.C`: a page of bytes, its slots, compaction, iteration | `MCHFPage`, `HFPage_proofs` |
| `RecordPage` | what a page promises: records under numbers; abstract | `HFPage` |
| `HFPage_proofs` | proofs about `HFPage`, among them the refinement | |
| `HeapFile` | `heapfile.C`, `scan.C`: directory, data pages, scan, lost buffers | `MCHeapFile`, `HeapFile_proofs` |
| `HeapFile_proofs` | proofs about `HeapFile` | |
| `BTree` | `btfile.C`, the sorted pages, `btreefilescan.C` | `MCBTree`, `BTree_proofs` |
| `BTree_proofs` | proofs about `BTree` | |
| `HelpQueue` | the help queue server's threads | `MCHelpQueue`, `HelpQueue_proofs` |
| `HelpQueue_proofs` | proofs about `HelpQueue` | |
| `PwospfNeighbors` | the neighbour table and its threads | `MCPwospfNeighbors`, `Pwospf_proofs` |
| `PwospfFlooding` | the LSUs of one router through the others | `MCPwospfFlooding`, `PwospfFlooding_proofs` |
| `PwospfFlooding_proofs` | proofs about `PwospfFlooding` | |
| `PwospfTopology` | graph, Dijkstra, routes of one router | `MCPwospfTopology`, `Pwospf_proofs` |
| `Pwospf_proofs` | proofs about `PwospfNeighbors` and `PwospfTopology`, the state that one router's threads share | |
| `CmmQuads` | symbols, operands, quads, and what a well formed list of quads is | `CmmMachine`, `CmmOptimizer` |
| `CmmMachine` | what the MIPS code emitted for a quad does | `CmmCode`, `CmmOptimizer_proofs` |
| `CmmCode` | the generator of quads from a syntax tree, and a run of quads to the end | `CmmMeaning` |
| `CmmMeaning` | what a function body means, from its tree: the reference | `MCCmmOptimizer` |
| `CmmOptimizer` | `gen_optimize`, `reg_alloc`, the frame, a run of the code | `MCCmmOptimizer`, `CmmOptimizer_proofs` |
| `CmmOptimizer_proofs` | proofs about `CmmOptimizer` | |

The `MC` modules give TLC its symmetry sets and topologies. Definitions named after
what they get wrong (`RehashKeepsOldNode`) are mutants: versions of a definition with
a plausible bug, used by no action, which show that a property can fail.

### BufMgr

A *client* is one outstanding pin: a caller's slot with the page it pinned
(`hpage`) and the frame its `Page*` points into (`hframe`). Calls are atomic since
there is one thread. `pinPage` and `newPage` share `PinPaths`: hit, unused frame,
replacement (write the victim, read the page, rehash, reset the descriptor), full.
`newPage` is `allocate_page` followed by that, with `deallocate_page` if it fails.
`unpinPage` with `dirty` is also the `flushPage` it calls. `writeData` is the caller
storing through its pointer; `restart` is the test drivers' `delete MINIBASE_BM; new
BufMgr`. `unsaved` is a history variable: pages written since last on disk. Bytes are
a member of `Data`. Failing reads leave the frame as it is or, with `ShortReads`,
overwritten; failing writes change nothing. Undefined behaviour is a choice: an
unpin of an absent page reads `bufDescr[numBuffers]` and may return either Status;
when `allocate_page` fails, `firstPageId` is any page number.

`PageStore` has no frames: `store` is what each page contains, `atRisk` the pages a
restart may change. The mapping takes the frame's bytes for resident pages and the
disk's for others; `atRisk` is `unsaved`.

### HFPage

A page is a function from byte addresses to `<<record, position>>`, with the slot
directory (`length`, `offset`), `slotCnt`, `usedPtr` and `freeSpace` as in `hfpage.h`.
`insertRecord` and `deleteRecord` are one action each, with `deleteRecord` moving the
bytes, correcting the offsets of later records and giving trailing slots back. An
iteration (`cursor`, what it returned, what was there all along) runs between them.
`RecordPage` keeps only number -> record; the mapping reads the bytes of each slot.

### HeapFile

Pages are sequences of records (`len`, value) by slot: HFPage has shown that a page is
that. `dir` are the directory pages with their entries (`page`, `availspace`, `recct`),
`data` the data pages, `frame` which pages the pool has and whether they are dirty,
which matters because a page unpinned clean loses its change when `evict` takes it.
Insertion, deletion, update and the steps of a scan are actions; the scan keeps the
look-ahead record that `scan.C` keeps. `harm` names the first of four losses the code
causes (section 5): the properties say what holds until then, and the code after a
loss is not followed.

### BTree

`tree` has the leaves, each a sequence of slots with holes and its links, and the
entries of the root; leaves are sorted by the moves of `sorted_page.C`. Insertion, with
its leaf split, and deletion are actions, a scan has an action for the first `get_next`
and one for the others. `keys` is what users put in; `disordered` and `overflowed` are
history flags for a key that went behind a larger one and for a separator that found no
room. One index level is modelled: the code splits no index page. Keys are integers.

### The compiler

`CmmCode` generates quads from trees as `codegen.c` does. `CmmMachine` runs them, quad by
quad, on a machine of cells, arrays, registers and a stack, with the conversions of the
instructions that are emitted (`sb` and `lb` cut to `CharBits` bits, registers do not).
`CmmMeaning` evaluates the tree and knows no quad. `CmmCode` and `CmmMeaning` are recursive
over trees; `MCCmmOptimizer` puts them together with `CmmOptimizer`, which gets the quads as a constant (`Generated`) and uses no
RECURSIVE operator, so that it can be proved about.

`CmmOptimizer` follows the loops of the source, one action per turn: `Peephole` and
`CopyPropagate` go to the next quad that the pass changes, `LiveAnalysis` marks the blocks
and fills `def` and `use`, `InAndOut` and `SweepTest` are the loop over
`calculateInAndOut`, `DeadCode` is `deadCodeEliminate` on every block, `RoundTest` the end
of the `do-while`, `RegAlloc` builds the interference graph, `Color` gives the next symbol
a register and `allocate_storage` the next symbol its place in the frame. `live_analysis`
is used by the rounds and by `reg_alloc`: `allocating` says by which. What goes backwards
over a block by recursion in the code (`calculateDefAndUse`, `deadCodeEliminate`,
`registerAllocateInBlock`) is a recursive function of the position. `InAndOut` changes all
blocks at once where the code goes from one to the next; both end at the same sets.
After that `Execute` runs the function with every branch open: `pc` is the next quad, and
`owner` says whose value each register holds, which is what `HomesDisjoint` is about.

`MeaningKept` runs code and tree on the same arguments while and after the passes run.
A callee changes a global and returns a mixture of its arguments. Not modelled: 32-bit
overflow, strings, the order of the hash table (ids are numbered in the order of their
creation), callees that call, and what the interference graph keeps of functions compiled
earlier (it can only add edges).

### HelpQueue

A thread's program counter is the line it stands before; what it reads and keeps in a
local variable is kept in a variable here, so that every other thread may run between
its steps. Only single calls of `Vector` are atomic. Statements that fail, connections
that reset and programs that end are actions of their own.

### PwospfNeighbors

One group of assignments under `all_lock` is one action; reads outside of it are
actions. `lock` (held while packets are built and sent) and `subsys` are variables.
`send_lsu` builds one packet per interface from the table as it then is: `listed` is
what the last packet on an interface listed. Timer threads are a pool that bounds
how many exist at a time; a thread that exits may be created again.

### PwospfFlooding

`Origin`'s threads share `lsu_seq`; `send_lsu` builds one LSU per interface under
`lock`, reading the number and the links when it does, and increments the number after
the unlock, as a load and a store. The links are abstracted to the number of changes
they have had. An LSU on a wire is delivered in order, or lost; `Take` is the packet
thread of a router with everything it sends on. A restart of a router forgets what it
knew, one of `Origin` also ends its threads and numbers from 1.

The three PWOSPF modules meet in what they hide from each other: `PwospfNeighbors` shows
that a silent neighbour leaves the LSUs of its router, `PwospfFlooding` that what a router
lists reaches the others, `PwospfTopology` what they make of it.

### PwospfTopology

An LSU, handled by the packet thread from start to end, is one action: vertices in
the order they are named, edges, invalidation, Dijkstra, routes. Mask and layout are
dropped, a subnet being a constant, as is the ttl, which the code decrements and
does not test. `Lsu(r, K, A)` is what `send_lsu` of `r` builds when it has heard the
neighbours on `K` and those on `A` are alive; it includes the code's rule that an
eth0 whose neighbour was never heard is advertised as `0.0.0.0`. `Least` and `Relax`
keep the code's ties (newest vertex first, no replacement by equals). `lastLsu` is a
history variable.

## 3. Runs

| run | instance | question |
|---|---|---|
| `bufmgr_pool` | 2 pins, 3 pages, 2 frames, 2 buckets, one failing read (short or not), a disk that fills | do descriptors, hash table and pins agree over any sequence of calls; is `BUFFERFULL` honest; does a pinned page stay put, unchanged and allocated; does the inductive invariant hold |
| `bufmgr_store` | 1 pin, 3 pages, 2 frames, one failing read, one failing write | is it a `PageStore`; do clean pages survive |
| `hfpage_slots` | a page of 9 bytes, records of 1 to 3 | is a page a `RecordPage`; is no byte lost; does an iteration miss nothing |
| `heapfile_scan` | 5 pages, 4 insertions, 2 evictions, records of three kinds | does the directory tell the truth; are the contents kept; does a scan find all that stays |
| `heapfile_delete` | expected violation | a deletion takes another record away |
| `btree_splits` | 6 keys, leaves of 3, 3 index entries, 4 leaves | is the tree whole; does the descent find every key; does a scan return its range |
| `queue_faults` | 2 workstations, 3 connections, an administrator, one failing statement | threads keep to their workstation; offline means not queued; flag, date and `Events` agree between commands of clients |
| `queue_races` | 2 requests, administrator, timer and display | nobody stays on the display with no thread serving them |
| `neighbors_watch` | 1 interface, 2 timer threads, timeout 2, fairness | one timer per live neighbour; mutex discipline; a silent neighbour is withdrawn |
| `flooding_triangle` | 3 routers, 2 sending threads, a change, a loss, a restart, numbers modulo 3, fairness | do copies die out; do numbers order news; does every router end up with the current links |
| `topology_kite` | 4 routers, 6 subnets and the default, LSUs in any order, 2 sequence numbers | symmetric, advertised links; shortest routes |
| `compiler_passes` | every pair of 22 statements in one function body but one pair, four sets of flags, three arguments, 2 registers, fairness | does each turn of each pass keep the meaning; is a variable overwritten in its register on a path, or in the frame; do the rounds end |

### Bounds and why they are enough

- `NumBuffers`, `Pages`: one page more than frames forces replacement; two frames
  in two buckets give both chains and moves between buckets.
- `MaxIndex` bounds love and hate indices. Indices restart as frames are reused, so
  3 with two frames lets both be loved twice in either order. `bufmgr_store` takes 1
  (one frame loved, one hated, in use at once): which frame is replaced does not
  matter to the store, only that one is.
- `MaxReadFaults`, `MaxWriteFaults`, `MaxSqlFaults`: one failure already leaves every
  intermediate state; what matters is what runs afterwards.
- `MaxConnections` = 3 for 2 workstations: one that is connected, leaves, and comes
  back while the other is there. `MaxRequests` bounds dates; two are enough for the
  sort to have something to swap. `MaxResets`: a broken connection ends the accepting
  thread, so once is all.
- `Ifaces`, `Timers` of `neighbors_watch`: interfaces share only the mutexes, and
  one timer may still be sending its last LSU while the next one watches. The safety
  properties are proved for any number of both.
- `OSPF_NEIGHBOR_TIMEOUT` = 2 where the code has 20: the timer's test, count and
  expiry are each reached in every order; more counts add equal steps.
- `INF` is 4 in the kite, 5 in the code: there the farthest subnet is three links
  away, and four once a link is lost, so both sides of the comparison are met with
  four routers.
- `Arriving`: the LSUs a router can send in the kite, chosen so that a link is lost
  from either end and an eth0 neighbour falls silent. `MaxSeq` = 2: an older, an equal and
  a newer LSU. An LSU that arrives any number of times stands for loss, delay,
  repetition and restart.
- `SeqSpace` = 3 where the code has 65536: numbers wrap in every fair behaviour, and the
  wait for the next number a router takes is short. `MaxQueued` = 0 lets `lsu_handler`
  wake when the wires are empty (30 seconds against milliseconds); the other sender is
  not bound by it, so LSUs do overtake each other.
- `DataSize` 9, `SlotSize` 2 in `hfpage_slots`: at most four records; a hole before,
  between and after others, and a page too full for one more slot.
- `MaxPages`, `MaxInserts` in `heapfile_scan`: two data pages to a directory page, so a
  second directory page, its loss and the reuse of the first are reached.
- `LeafCapacity` = `IndexCapacity` = 3: splits in the middle and at both ends, an index
  that is full, leaves emptied again.
- `CharBits` = 3, `NUM_REGS` = 2 in the compiler run: a cut that shows, and more live
  variables than registers. Two statements in a row let each rule of the optimiser work
  on what another one left; loops and branches are among the 22.

`CHECK_DEADLOCK FALSE` is set where the system really stops: the help queue when all
connections are used up and all threads ended, the compiler when the function has run,
the heap file and the B+ tree when their bounds are spent.

### Fairness

`neighbors_watch`: weak fairness for a thread that has started a call or a timer
that is counting (pthreads that the scheduler runs; `sleep` returns); strong fairness
for acquiring `lock`, whose other holders release it and then sleep for seconds.
Nothing is assumed of the periodic threads, of HELLOs, of LSUs or of the neighbour.

`flooding_triangle`: weak fairness of every sender inside `send_lsu`, of `lsu_handler`,
which loops over `sleep(OSPF_DEFAULT_LSUINT)`, and of every wire's delivery. No
fairness for changes, losses and restarts. The increment race is part of the model: it
cannot starve a router because threads other than `lsu_handler` send only after changes.

`compiler_passes`: weak fairness of the compiler, one thread. Each of its steps goes on to
another pass, quad or symbol, so `RunsAPass` under `turn` asks for no more than that
`Compile` goes on; TLC decides whether it is enabled without computing the pass.

## 4. Proofs

`BufMgr_proofs`, for any finite set of callers, any pages, frames, buckets, bounds
and failures allowed by `BufMgrAssumption` (finite `Clients`, `1 <= HTSIZE <=
NumBuffers`, which the code relies on and does not check):

- The inductive invariant `IInv` is `PoolInv` and `PinnedPagesAreAllocated`. Its parts
  are the checked invariants and `UnpinnedFramesAreCandidates`, the strengthening:
  a frame in use that nobody pins has been unpinned as loved or hated since its page
  came in. Without it `BUFFERFULL` could be returned with frames to spare.
  `PinsMatchHandles` needs `HashMatchesDescriptors`, since pins go through the hash
  table and unpins through the descriptors; `CleanPagesAreOnDisk` needs both.
- There is one lemma per path of `pinPage` and per call, and `InstallInv` for what
  replacing a frame's page and filling an unused one share. The victim and the least
  unused index are shown to exist by well-foundedness of the naturals. `Holders`
  lemmas count pins by cardinality.
- From `IInv` follow type correctness, each invariant, and the action property
  `HandleStable`.
- `BufMgrImplementsPageStore` is the refinement, where reads that fail leave the frame
  as it is and the disk does not fill (`~ShortReads`, `~DiskCanFill`, as in
  `bufmgr_store`): every call is a step of `PageStore` or a stutter. A replacement
  stutters because a clean victim is on disk already and a dirty one is written before
  its frame is given away, which is what `IInv` says of unsaved pages.

`HFPage_proofs`, for any sizes of page and slot and any records (`PageAssumption`):

- `PageInv` says that records lie apart and whole above the directory. No part is
  inductive alone: a compaction keeps a record whole only if it moves the record's bytes
  by as much as its offset, which needs the records apart, and a new record only avoids
  the others if the directory fits. `TrimmedCuts` shows that the directory without its
  last holes exists (well-foundedness of the naturals).
- `WalksMissNothing` has the inductive form `WalkInv`: what is left of the records
  present from the start and lies up to the cursor was returned.
- `SpaceStaysExact` needs `PageInv`: the records below a deleted one cover what they
  covered, moved by its length, because none of them reaches into it.
- `PageIsRecordPage` is the refinement: every step of the page is a step of `RecordPage`
  or a stutter, under the mapping that reads a slot's bytes. Compaction stutters since it
  moves bytes and offsets alike.

`HeapFile_proofs`, for any values, sizes of pages, slots and records, and bounds allowed by
`FileAssumption`:

- The inductive invariant `IInv` is `TypeOK`, `ScanMissesNothing` and, until the first of
  the four losses, six parts. `ListOfPages`: the directory pages are one list along their
  links, and none of several is empty, since `findDataPage` stops at an empty one.
  `PagesKept`: pages are slots with at most one trailing hole, and numbers are given out
  in order. `EntriesAreTrue` is what the checked `FileInv` says, for each entry.
  `RecordsAreContents` binds a record of the user to its page and to an entry.
  `ScanStands` and `ScanIsAhead`: what stayed and was not returned lies in the rest of
  the scan's page, of its directory page, or on the directory pages behind that.
- `EntriesAreTrue` needs `RecordsAreContents` for a deletion: only records that the
  user has are deleted, so an entry's page has a record until the entry is dropped.
  `ScanIsAhead` needs that no two entries lead to one page. That a deletion loses nothing
  where `empty()` errs is what `harm` says of it.
- `FreeSpace` and `Chain` are recursive functions: `FreeSpaceIs` and `ChainIs` show that
  they exist and what they yield, `FreeChanged`, `FreeAppend` and `FreeCut` what a change
  of one slot, a new slot and a removed last slot do to the space. A least slot at
  which the claim would fail takes the place of an induction.
- There is one lemma for each action. `DirectoryIsTrue`, `FileHoldsWhatIsWritten` and
  `ScanIsComplete` follow from `IInv`.

`BTree_proofs`, for any set of keys that are numbers, any capacities and number of leaves
allowed by `TreeAssumption`:

- The inductive invariant `IInv` is about the tree, the list `Chain` of its leaves along
  the links, and the keys that should be in it, so that an insertion can be followed
  through the split in its middle. `Whole` holds always: the leaves are one list, linked
  both ways, that holds the keys once each. `Searchable` holds until an insertion is
  misplaced or the index overflows (see section 5): leaves ascend, and the index has one
  separator for each leaf, in the order of the links, with the leaf's keys between it and
  the next. Then a scan that is open has `Returned` the keys from its lower bound to
  where it stands.
- `ChainIs` shows that the recursive function behind `Chain` exists and yields the one
  list that fits the links. `SplitOrder`, `SplitHolds` and `SortsAfter` say what a split
  does to the list, the keys and the separators; `Successor` that the next leaf with keys
  begins with the next key.
- From `IInv` follow `BTreeWhole`, `BTreeDescentFinds` and `BTreeScanCovers`.

`HelpQueue_proofs`, for any number of workstations, connections, administrators,
displays and failing statements:

- `IInv` is `TypeOK`; `LocalsOK`, where each thread is and what its locals are then;
  `RequestsOK` and `StartInv`, which bound dates and start a thread once for a connection.
  While no display sorts the vector, `HandlersInv` and `LiveInv` hold: indices point to
  the workstation they were looked up for, and a workstation has at most one live thread.
  They need each other: the accepting thread refuses a second connection by `online`,
  which only the first one's thread resets. `OfflineInv`, `AgreeInv` and `GoneInv` say
  where a thread is between the writes of `helping`, `date`, `online` and `Events`.
- There is one lemma for each part and kind of thread. The display's bubble sort is two
  recursive functions, shown to exist and to keep the vector's length.

In `Pwospf_proofs`, for any interfaces, timers and timeout: `NInv` is `NeighborsTypeOK`,
`LockDiscipline`, `PacketKnows` (what the packet thread has found out stays true while it
stands where it is), `OneTimerEach` (`AliveMeansWatched` without cardinalities, with the
thread that is about to create a timer) and `CountsBelow`. `AliveMeansWatched` is not
inductive by itself: that `revive` finds its neighbour dead, although it looked outside
of the lock, follows from `PacketKnows`, and that no second timer starts from the step
between the flag and `pthread_create`.

`PwospfFlooding_proofs`, for any topology, any threads that send, any losses and restarts:
`FInv` is `TypeOK` and `Ordered`: of two LSUs, on wires or remembered by routers, the one
with the higher number has seen no fewer changes, and neither exceeds what `Origin` has.
`NewsNeverOlder` compares a router's memory with one LSU; the invariant must compare
them all, since a copy may come from any wire. It stops where a number goes down
(`renumbered`), by wrapping, a lost increment or a restart of `Origin`.
`FloodedCopiesDieOut` proves `CopiesDieOut` for every finite topology in which each loop
leads through `Origin` (wires can be ranked so that a copy that another router sends on
climbs) and that has at most `TTL + 1` routers: a copy has lost no more of its ttl than
its wire has climbed. Nothing stops a copy on a loop that `Origin` is not part of.

In `Pwospf_proofs`, for any topology, router and LSUs allowed by
`TopologyAssumption` (ids are distinct and not 0, no router is its own neighbour, own
subnets differ and are not static routes, arriving LSUs are ones their senders can build):

- `GraphInv` is `GraphTypeOK`, `EdgesSymmetric` and `EdgesAreAdvertised`. Neither of the
  last two is inductive alone: an LSU looks for links to withdraw only on its sender's
  side, so a one-sided link would survive its last advertisement.
- `LinksAfterLsu` says what an LSU does to links: other routers' stay; the sender is
  linked to whom it lists, and to old neighbours if nothing is invalidated.
- `TopologyInv` is `TypeOK` with the router itself among the vertices. That the list
  has no vertex twice needs own subnets that differ: `pwospf_init` adds a vertex
  for each interface (130) without looking whether its subnet has one, as the
  handling of an LSU does (302).
- `RoutesFollowShortestPaths` proves `RoutesAreShortest`. The recursive functions on both
  sides exist by `StepByStep` and are reasoned about by induction over a set of numbers
  (`UpTo`), both proved from the well-foundedness of the naturals. `DistancesAre`: the
  layers of the reference are the distances (`IsDistance`: 0 at the start, an edge adds
  at most one, a positive distance has a predecessor), which are unique. `DijkstraIs`:
  between two steps no closed vertex is farther than an open one, an edge from a
  closed vertex is relaxed, and a parent is closed and one nearer (`Nearing`; `RelaxKeeps`); each
  step closes one vertex, so `Len(list)` steps close them all. `FirstHopIs`: going up the
  parents shortens the way to the target from the neighbour that is reached, and no
  neighbour is more than one nearer than the router (`NeighbourIsNear`).

`CmmOptimizer_proofs`, for any function bodies, flags and number of registers that
`OptimizerAssumption` allows: the generated quads are well formed (`WellFormed`: `enter`
first, `ret` last, a jump has its one label, a result is retrieved into a temporary that
nothing else writes), a name means one symbol, and an address is stored through in the
block that computes it (`AddressesComputed`). The generator itself is RECURSIVE, so
that its output is like this is checked by TLC for the functions of the run and assumed here.

- The inductive invariant `CInv` has six parts. `CodeInv`: every pass leaves the code well
  formed and brings in no symbol. `PlaceInv`: the passes stay in the list. `LiveInv`: when
  the sweeps end, the live sets solve their equations. `RegInv`: two symbols joined by an
  edge do not have one register, and the graph is that of the code that is emitted.
  `RunInv`: a register still holds what was last stored for the variable that is live in
  it. `LayoutInv`: the places given so far are apart and inside the frame.
- `RegistersKept` is about the quad that is executed and is far from inductive: `RunInv`
  speaks of every variable that is live there, and what a quad leaves live behind a branch
  is what the next block begins with (`FollowIsLive`), for which the live sets must fit
  the code *after* the dead code is gone although they were computed before.
  `DeadCodeIsCovered` shows that they do: an assignment is eliminated because nothing
  reads it later, and what only it read is at most too much in the live sets.
- The functions that go backwards over the list exist by `BackwardsExists`; `LiveNowIs`,
  `LiveAfterIs` and `DefAndUseIs` are their equations. `SameControlOK`, `WithoutGotoOK`
  and `CopyPropagateOK` say what the passes do to the list.
- `FrameSlotsDisjoint`: `PlaceASymbol` puts a symbol below all that were placed, at a
  multiple of 4 if it consists of words.

The same module proves what the three optimisations do to a run. Each theorem is about one
step of a pass, that is about the list before and the list after it, and relates any two
machines of `CmmMachine` that run them: if they are alike before a quad, they are alike
after it, and at quads that correspond. `StepsAlike` is the case of a quad that a pass does
not change; `StepCode` is looked at instruction by instruction only there, in `StepsBut`
(the same with cells that may differ), `ReplacedStep` and `CellKept`.

- `PeepholeKeepsRuns`: any machine, the variables in memory or in registers. A step of the
  new list is a step of the old one, or two where `if x goto L; goto M; L:` lost its goto
  (`WithoutGotoRun`; a label occurs once, so that the jumps still arrive). It holds while the old
  code computes with numbers and does not divide by 0 (`Defined`), which is not a detail:
  the pass makes `0 / x` 0 (section 5). `Neutral` has the identities it uses.
- `CopyPropagateKeepsRuns`: wherever a copy reaches, its two sides are equal in a run that
  does not begin there, and a quad in which one is put for the other does the same
  (`ReplacedStep`). That they stay equal is proved for the copies that are `Settled`: a constant, a
  variable or the address of a local array, into a variable, no global over a call, into a char
  only a constant that fits. These are all copies of the run into an int variable but those of array
  elements, for which the pass is wrong (section 5).
- `DeadCodeKeepsRuns`: the machines are alike but for the cells of locals that are not live
  (`lost`), so calls, arrays, globals and the result are the same. The live sets are not the
  usual ones: `calculateDefAndUse` takes the address temporary of a store through it for
  one that the quad defines. `LiveBeforeBlock` shows that this is harmless as the block
  computes the address before it; that no pass parts the two is
  `CompilerAddressesAreComputed`, and `LiveBeforeNext` what the simulation needs of it.

The last two are about lists whose variables are in memory, as they are while the passes run;
what registers change is `CompilerHomesDisjoint`. The hypothesis that the callees' global is
no local is about the callee of the model.

Model-checked only: that the quads generated for a tree do what the tree means, and with that
`MeaningKept` as a whole (an induction over syntax trees, of RECURSIVE operators); copies into chars;
liveness (`SilentNeighborIsWithdrawn`, the news of `flooding_triangle`, `Compiled`),
for which the prover has no rules about fairness.

## 5. Divergences

Kept as a run (`findings`): deleting one of two records takes the other along, since
`HFPage::empty` in `HeapFile/src` asks for the number of slots and not of records
(`DeletesKeepOthers`, run `heapfile_delete`). Four more can be seen by putting the named
definition in the place of the properties of a run: `FlushAllPagesSaves` in
`bufmgr_store`, `RefusedOnlyIfConnected` in `queue_faults`, `StaticRoutesKept` in
`topology_kite`, `RecordsAreSorted` in `btree_splits`.

Met while modelling; the models do what the code does:

- `buf.C`: `flushAllPages` and the destructor write nothing since no statement sets
  `dirtyBit` (304); freeing a page that was evicted does not deallocate it (275; the comment at
  259 promises it); `unpinPage` of an absent page reads past the array (210; the test
  `BMTester.C` 366 expects an error); an empty page is read from disk all the same if
  a frame is unused (83; 62 says not); `newPage` ignores a failing
  `allocate_page` (246) and then deallocates the caller's number (249).
- `hfpage.C`: `empty` tests `slotCnt == 0`, which no deletion brings about, where
  `hfpage.h` 86 promises true if the page "has no records in it"; `rid.slotNo > slotCnt` lets the slot behind
  the last through; deleting an empty slot moves bytes by -1.
- `heapfile.C`: four ways to lose a part of the file, named by `harm`: a record left in
  slot 0 when its page is taken for empty (the run above); a directory page freed when
  its last entry goes, the first one included; an emptied directory page that hides those
  behind it (`findDataPage` stops there); a change unpinned clean, lost when the pool needs
  the frame (`updateRecord`, the link to a new directory page). Besides: `recct` is
  never decremented, so `getRecCnt` counts deleted records (`heapfile.h` 66); emptied data
  pages are not freed; `deleteFile` copies through an uninitialised pointer; a record id
  that is not found gives OK and NULL pages.
- `scan.C`: a scan whose directory entry was given back ends early; deleting the record
  it has looked ahead to makes it copy a hole; a scan of an empty file follows garbage.
  Clients of the model delete and update live records, and not that one.
- B+ tree: a leaf with holes takes a key larger than all its own in the hole, out of order
  (`sorted_page.C` 23); a full index drops the separator; the first `get_next` hangs if the
  key it finds is the last of its leaf; a range that begins behind the last key of its
  leaf is empty; one key past the end of the range is returned at the edge of a leaf; a
  scan of a tree of one leaf reads the leaf as an index; a leaf that lost all its keys
  is read all the same; `delete_current` deletes nothing (`btreefilescan.h` 23: "delete the
  record currently scanned"); pins leak from every operation. The model leaves out equal
  keys, strings and the leaked pins, and no action reads an emptied leaf.
- Compiler: `c = s[0]; s[0] = x;` then a use of `c`: the copy of the element outlives the
  store (`codegen.c`, `copy_propagate`), so the run leaves this pair of statements out; a
  copy of a global outlives a call if the global is on the right; `return a[i]` returns the
  address; `0 / x` becomes 0 though `x` may be 0; `$s0` to `$s3` are saved in registers that
  a called function overwrites, `$s4` nowhere; the symbol with index 0 never gets
  a register; the lists of one function's interference graph are still there for
  the next one; `while (c);` dereferences NULL. Apart from the first pair, the functions
  of the run stay clear of these.
- Help queue: a client's thread dies when a second connection renames its handler first
  (`Server.java` 113); cancelling a request between its date and its row leaves a CANCEL
  without HELP (`ClientHandler.java` 87, 99); an administrator's cancel racing a new
  request leaves `helping` with no date (`AdministratorHandler.java` 151, 153); the
  display's comparator is not transitive (`DisplayHandler.java` 42); a sort between
  `indexOf` and `get` makes a thread work for another workstation (`Server.java` 112);
  a failed HELP row leaves the client queued (`ClientHandler.java` 52, 116);
  `initialize` erases a request made between its two `setHelping(false)`
  (`Server.java` 65).
- PWOSPF: static routes are overwritten by learned ones (`sr_pwospf.c` 421); a HELLO between the timer's last test and its expiry is lost, so a
  neighbour just heard is declared dead until its next HELLO (`sr_pwospf.c` 681;
  `pwospf_protocol.h` 25); a first hop that was not heard yet gives a route through
  eth0's neighbour (392); routes are never removed (391; the description, page 3:
  "added/removed"); one side's advertisement links both (322; the protocol calls the
  link invalid until they agree); `OSPF_TOPO_ENTRY_TIMEOUT` is unused; an LSU with an
  equal sequence number is taken and flooded again and the ttl is never tested (285,
  366; `pwospf_spec.pdf`, page 3, drops both), so copies circulate for ever in a loop
  that does not lead through their origin; two LSUs with different lists can carry one
  number (788); a neighbour's first HELLO triggers no LSU (235; page 7).

The properties that hold are stated where they hold: `OneHandlerPerWorkstation` and
`OfflineNotQueued` say nothing once a display sorts the vector, `FlagDateAndEventsAgree`
nothing once administrators are there, `GoneNotDisplayed` nothing once SQL fails, and
`CleanPagesAreOnDisk` leaves out bytes of short reads.

## 6. Plan

What is left, in this order:

1. `PwospfNetwork`: neighbours, flooding and topology composed, with several routers
   sending; once links are stable, all graphs agree.
2. `HeapFile` over `BufMgr`: the same directory with pins counted on every path.
3. The front end of the compiler: types and the symbol table, if a property of them is
   found that a test would not show.

### Not modelled

- *ARP and forwarding* of PWOSPF (`sr_router.c`): the threads share lists of which one
  frees what another still reads, so what happens next is decided by freed memory,
  not by the code. `Simple-Router` has one thread and an array that only grows.
- *Minishell*, *Encrypted file transfer*: behaviour of the kernel's processes and
  signals, respectively one sequential stream of bytes, more than of their own state.
- *Web platforms*: each request is a few SQL statements; their rules are in the database.
- *DB layer* of Minibase: a binary library, modelled by what `buf.C` uses of it.
- Page, error and test drivers, front ends, the VNS framework, scripts, notebooks, web
  pages and exercises: no state of their own that a property would be about.
- SPIM and the generated parsers under `Compiler-C--/spim-stats`: vendored. They are the
  larger part of the repository's lines, which is why the share of lines that the
  models map is small.
