------------------------------ MODULE HeapFile ------------------------------
(***************************************************************************)
(* A heap file of Minibase and a scan over it                              *)
(* (src/Minibase/HeapFile/src/heapfile.C, scan.C, and hfpage.C beside      *)
(* them): directory pages, linked by their next page, hold one entry per   *)
(* data page; data pages hold the records.                                 *)
(*                                                                         *)
(* A page is the sequence of its slots, without the bytes (HFPage has      *)
(* those); a slot of length 0 is a hole.  This hfpage.C counts slots from  *)
(* 0 to slotCnt and starts with the hole 0, so a page is never << >> and   *)
(* its empty() asks whether slot 0 is the last one.  Slots are numbered    *)
(* from 1 here.                                                            *)
(*                                                                         *)
(* The pool (libbm.a) writes a page back only if someone unpinned it       *)
(* dirty; `frame' says of each page whether its changes would survive.     *)
(* Where the code loses a part of the file for good, `harm' says which way *)
(* and the behaviour ends: after that it reads freed or forgotten pages.   *)
(***************************************************************************)
EXTENDS Integers, SequencesExt

CONSTANTS
    Values,         \* what records hold
    LengthOf,       \* value -> its length
    DataSize,       \* MAX_SPACE - DPFIXED of a data page
    DirSize,        \* the same of a directory page
    SlotSize,       \* sizeof(slot_t)
    EntrySize,      \* sizeof(DataPageInfo)
    MaxPages,       \* bound: pages the database gives out
    MaxInserts,     \* bound: insertions
    MaxEvictions    \* bound: pages the pool throws out

ASSUME FileAssumption ==
    /\ DataSize \in Nat /\ DirSize \in Nat /\ LengthOf \in [Values -> 1..DataSize]
    /\ SlotSize \in Nat \ {0} /\ EntrySize \in 1..DirSize
    /\ MaxPages \in Nat \ {0} /\ MaxInserts \in Nat /\ MaxEvictions \in Nat

VARIABLES
    dir,            \* directory page -> [slots, next]
    data,           \* data page -> its slots
    frame,          \* page -> "clean", "dirty", or "unsaved": changed but unpinned clean
    scan,           \* the scan's cursor
    seen,           \* the records the scan returned
    staying,        \* the records that have been in the file since it was opened
    contents,       \* record id -> the value its user wrote last
    harm,           \* "none", or how a part of the file was lost
    inserts, evictions

vars == << dir, data, frame, scan, seen, staying, contents, harm, inserts, evictions >>
user == << contents, harm, inserts, evictions >>
file == << dir, data, frame >>
cursor == << scan, seen, staying >>

INVALID_PAGE == 0
firstDirPageId == 1
Pages == 1..MaxPages
Closed == [state |-> "closed", dir |-> INVALID_PAGE, entry |-> 0, data |-> INVALID_PAGE,
           record |-> 0, more |-> FALSE, failed |-> FALSE]

(***************************************************************************)
(* The slots of one page.                                                  *)
(***************************************************************************)
Record(v) == [len |-> LengthOf[v], value |-> v]
NoRecord == [len |-> 0, value |-> 0]
Entry(p, space, ct) == [len |-> EntrySize, page |-> p, availspace |-> space, recct |-> ct]
NoEntry == [len |-> 0, page |-> INVALID_PAGE, availspace |-> 0, recct |-> 0]

Live(slots) == {i \in DOMAIN slots : slots[i].len # 0}
First(S) == CHOOSE i \in S : \A j \in S : i <= j
Later(slots, i) == {j \in Live(slots) : j > i}

FreeSpace(slots, size) ==
    LET taken[i \in 0..Len(slots)] == IF i = 0 THEN 0 ELSE slots[i].len + taken[i - 1]
    IN  size - taken[Len(slots)] - SlotSize * (Len(slots) - 1)

(* Mutant: the new slot is not counted.                                    *)
available_space_no_slot(slots, size) == FreeSpace(slots, size)
available_space(slots, size) ==
    LET free == FreeSpace(slots, size)
    IN  CASE Live(slots) # DOMAIN slots -> free
          [] Live(slots) = DOMAIN slots /\ free < SlotSize -> 0
          [] Live(slots) = DOMAIN slots /\ free >= SlotSize -> free - SlotSize

EmptySlot(slots) == IF Live(slots) = DOMAIN slots THEN Len(slots) + 1
                    ELSE First(DOMAIN slots \ Live(slots))
With(slots, i, x) == IF i > Len(slots) THEN Append(slots, x) ELSE [slots EXCEPT ![i] = x]

(* A deletion leaves a hole; holes at the end are given back, slot 0 never.*)
Without(slots, i, hole) ==
    LET holed == [slots EXCEPT ![i] = hole]
        last == CHOOSE n \in 1..Len(slots) : /\ \A j \in n + 1..Len(slots) : holed[j].len = 0
                                             /\ n = 1 \/ holed[n].len # 0
    IN  SubSeq(holed, 1, last)

(* Mutant: the page asks for more than the code's slot 0.                  *)
emptyNever(slots) == slots = << >>
empty(slots) == Len(slots) = 1

(***************************************************************************)
(* Directory pages in the order of their links, and their entries.         *)
(***************************************************************************)
Chain ==
    LET from[p \in 0..MaxPages] ==
            IF p \in DOMAIN dir THEN << p >> \o from[dir[p].next] ELSE << >>
    IN  from[firstDirPageId]
Entries(d) == Live(dir[d].slots)
LastDir == Chain[Len(Chain)]

(* findDataPage gives up at the first directory page without an entry.     *)
Searched ==
    LET chain == Chain
    IN  {chain[k] : k \in {n \in DOMAIN chain : \A j \in 1..n : Entries(chain[j]) # {}}}
Holders(p) == {d \in Searched : \E i \in Entries(d) : dir[d].slots[i].page = p}
findDataPage(p) ==
    LET d == CHOOSE d \in Holders(p) : TRUE
        i == First({j \in Entries(d) : dir[d].slots[j].page = p})
    IN  << d, i >>
Found == UNION {UNION {LET p == dir[d].slots[i].page IN {<< p, j >> : j \in Live(data[p])}
                         : i \in Entries(d)} : d \in Searched}

(* The first entry, page after page, that promises enough space.           *)
(* Mutant: an entry is taken however little space it promises.             *)
FitsAlways(d, len) == Entries(d)
Fits(d, len) == {i \in Entries(d) : dir[d].slots[i].availspace >= len}
FirstFit(len) ==
    LET chain == Chain
        d == chain[First({n \in DOMAIN chain : Fits(chain[n], len) # {}})]
    IN  << d, First(Fits(d, len)) >>

Pinned == {scan.dir, scan.data} \ {INVALID_PAGE}
NewPage == Cardinality(DOMAIN dir) + Cardinality(DOMAIN data) + 1
Extend(f, p, x) == [q \in DOMAIN f \cup {p} |-> IF q = p THEN x ELSE f[q]]
Dirty(P) == [q \in DOMAIN frame \cup P |-> IF q \in P THEN "dirty" ELSE frame[q]]
(* Unpinned clean: what was changed is lost unless the page is dirty.      *)
Unsaved(f, p) == [f EXCEPT ![p] = IF @ = "clean" THEN "unsaved" ELSE @]

Init ==
    /\ dir = [p \in {firstDirPageId} |-> [slots |-> << NoEntry >>, next |-> INVALID_PAGE]]
    /\ data = [p \in {} |-> << >>]
    /\ frame = [p \in {firstDirPageId} |-> "dirty"]
    /\ scan = Closed /\ seen = {} /\ staying = {}
    /\ contents = [r \in {} |-> 0] /\ harm = "none"
    /\ inserts = 0 /\ evictions = 0

(***************************************************************************)
(* HeapFile::insertRecord.                                                 *)
(***************************************************************************)
Inserted(p, i, v) ==
    /\ inserts < MaxInserts
    /\ inserts' = inserts + 1
    /\ contents' = Extend(contents, << p, i >>, v)
    /\ UNCHANGED << scan, seen, staying, harm, evictions >>

(* What the data page answers is ignored: a refused record is counted and  *)
(* gets a record id all the same.                                          *)
PutInto(slots, v) ==
    IF available_space(slots, DataSize) < LengthOf[v] THEN slots
    ELSE With(slots, EmptySlot(slots), Record(v))

insertIntoPage(v) ==
    /\ harm = "none"
    /\ \E k \in DOMAIN Chain : Fits(Chain[k], LengthOf[v]) # {}
    /\ LET d == FirstFit(LengthOf[v])[1]
           i == FirstFit(LengthOf[v])[2]
           p == dir[d].slots[i].page
           slots == PutInto(data[p], v)
       IN  /\ data' = [data EXCEPT ![p] = slots]
           /\ dir' = [dir EXCEPT ![d].slots[i] =
                        Entry(p, available_space(slots, DataSize), @.recct + 1)]
           /\ frame' = Dirty({p, d})
           /\ Inserted(p, EmptySlot(data[p]), v)

(* newDataPage, then allocateDirSpace: the entry goes to the first         *)
(* directory page with space for one, or to a new page behind the last,    *)
(* whose link is unpinned clean.                                           *)
HasDirSpace == {k \in DOMAIN Chain : available_space(dir[Chain[k]].slots, DirSize) >= EntrySize}

(* Mutant: the space is remembered as it was before the record came.       *)
NewEntryStale(p, slots) == Entry(p, DataSize, 1)
NewEntry(p, slots) == Entry(p, available_space(slots, DataSize), 1)

insertIntoNewPage(v) ==
    LET p == NewPage
        slots == << Record(v) >>
        entry == NewEntry(p, slots)
    IN  /\ harm = "none"
        /\ \A k \in DOMAIN Chain : Fits(Chain[k], LengthOf[v]) = {}
        /\ data' = Extend(data, p, slots)
        /\ Inserted(p, 1, v)
        /\ IF HasDirSpace # {}
           THEN LET d == Chain[First(HasDirSpace)]
                IN  /\ p <= MaxPages
                    /\ dir' = [dir EXCEPT ![d].slots = With(@, EmptySlot(@), entry)]
                    /\ frame' = Dirty({p, d})
           ELSE /\ p + 1 <= MaxPages
                /\ dir' = [Extend(dir, p + 1, [slots |-> << entry >>, next |-> INVALID_PAGE])
                             EXCEPT ![LastDir].next = p + 1]
                /\ frame' = Unsaved(Dirty({p, p + 1}), LastDir)

(***************************************************************************)
(* HeapFile::deleteRecord of a record id that is live.  A client with an   *)
(* open scan does not delete the record the scan has reached already: the  *)
(* scan would copy a hole.                                                 *)
(***************************************************************************)
deleteRecord(r) ==
    LET p == r[1]
        d == findDataPage(p)[1]
        slots == Without(data[p], r[2], NoRecord)
        entries == IF empty(slots) THEN Without(dir[d].slots, findDataPage(p)[2], NoEntry)
                   ELSE dir[d].slots
        freed == empty(entries) /\ d \notin Pinned
    IN  /\ harm = "none"
        /\ ~ (scan.state = "on" /\ scan.more /\ r = << scan.data, scan.record >>)
        /\ data' = [data EXCEPT ![p] = slots]
        /\ dir' = IF freed THEN [q \in DOMAIN dir \ {d} |-> dir[q]]
                  ELSE [dir EXCEPT ![d].slots = entries]
        /\ frame' = Dirty({p, d})
        /\ staying' = staying \ {r}
        /\ contents' = [q \in DOMAIN contents \ {r} |-> contents[q]]
        /\ harm' = CASE empty(slots) /\ Live(slots) # {} -> "a record left in slot 0"
                     [] freed -> "a directory page freed"
                     [] empty(entries) /\ ~ freed /\ Live(entries) = {} /\ Len(Chain) > 1
                          -> "a directory page emptied"
                     [] OTHER -> harm
        /\ UNCHANGED << scan, seen, inserts, evictions >>

(* HeapFile::updateRecord, only with a record of the same length; both     *)
(* pages are unpinned clean.                                               *)
updateRecord(r, v) ==
    /\ harm = "none"
    /\ LengthOf[v] = data[r[1]][r[2]].len
    /\ data' = [data EXCEPT ![r[1]][r[2]] = Record(v)]
    /\ frame' = Unsaved(frame, r[1])
    /\ contents' = [contents EXCEPT ![r] = v]
    /\ UNCHANGED << dir, cursor, harm, inserts, evictions >>

(* The pool needs the frame of a page that nobody has pinned.              *)
evict(p) ==
    /\ harm = "none"
    /\ evictions < MaxEvictions
    /\ p \in DOMAIN frame \ Pinned
    /\ frame[p] # "clean"
    /\ evictions' = evictions + 1
    /\ frame' = [frame EXCEPT ![p] = "clean"]
    /\ harm' = IF frame[p] = "unsaved" THEN "a change unpinned clean" ELSE harm
    /\ UNCHANGED << dir, data, cursor, contents, inserts >>

(***************************************************************************)
(* Scan.  It stays on the directory page and the data page it has pinned   *)
(* and remembers the record to return next.                                *)
(***************************************************************************)
(* Constructor: of a file without records it would follow garbage.         *)
openScan ==
    /\ harm = "none"
    /\ scan.state = "closed"
    /\ Entries(firstDirPageId) # {}
    /\ LET i == First(Entries(firstDirPageId))
           p == dir[firstDirPageId].slots[i].page
       IN  scan' = [Closed EXCEPT !.state = "on", !.dir = firstDirPageId, !.entry = i, !.data = p,
                                  !.record = First(Live(data[p])), !.more = TRUE]
    /\ seen' = {}
    /\ staying' = DOMAIN contents
    /\ UNCHANGED << file, user >>

(* getNext returns record i of page p, and looks for the next one there.   *)
Return(p, i, d, e) ==
    LET later == Later(data[p], i)
    IN  /\ seen' = seen \cup {<< p, i >>}
        /\ scan' = [scan EXCEPT !.dir = d, !.entry = e, !.data = p, !.more = later # {},
                                !.record = IF later = {} THEN i ELSE First(later)]

EndOfScan(failed) ==
    /\ scan' = [Closed EXCEPT !.state = "done", !.failed = failed]
    /\ UNCHANGED seen

(* nextDataPage and nextDirPage.  nextRecord fails on an entry that was    *)
(* given back meanwhile.                                                   *)
(* Mutant: the scan ends with the directory page.                          *)
nextDataPageStops ==
    LET slots == dir[scan.dir].slots
        later == Later(slots, scan.entry)
    IN  IF later # {}
        THEN LET p == slots[First(later)].page
             IN  Return(p, First(Live(data[p])), scan.dir, First(later))
        ELSE EndOfScan(scan.entry > Len(slots))
nextDataPage ==
    LET slots == dir[scan.dir].slots
        later == Later(slots, scan.entry)
        next == dir[scan.dir].next
    IN  CASE scan.entry > Len(slots) -> EndOfScan(TRUE)
          [] scan.entry <= Len(slots) /\ later # {} ->
                LET p == slots[First(later)].page
                IN  Return(p, First(Live(data[p])), scan.dir, First(later))
          [] scan.entry <= Len(slots) /\ later = {} /\ next # INVALID_PAGE ->
                LET e == First(Entries(next))
                    p == dir[next].slots[e].page
                IN  Return(p, First(Live(data[p])), next, e)
          [] scan.entry <= Len(slots) /\ later = {} /\ next = INVALID_PAGE -> EndOfScan(FALSE)

getNext ==
    /\ harm = "none"
    /\ scan.state = "on"
    /\ IF scan.more THEN Return(scan.data, scan.record, scan.dir, scan.entry) ELSE nextDataPage
    /\ UNCHANGED << file, staying, user >>

(* Destructor: reset unpins what is still pinned.                          *)
closeScan ==
    /\ harm = "none"
    /\ scan.state # "closed"
    /\ scan' = Closed /\ seen' = {} /\ staying' = {}
    /\ UNCHANGED << file, user >>

Next ==
    \/ \E v \in Values : insertIntoPage(v) \/ insertIntoNewPage(v)
    \/ \E r \in DOMAIN contents : deleteRecord(r) \/ \E v \in Values : updateRecord(r, v)
    \/ \E p \in DOMAIN frame : evict(p)
    \/ openScan \/ getNext \/ closeScan

Spec == Init /\ [][Next]_vars

(***************************************************************************)
(* Properties.                                                             *)
(***************************************************************************)
AllEntries == UNION {{<< d, i >> : i \in Entries(d)} : d \in DOMAIN dir}
EntryAt(e) == dir[e[1]].slots[e[2]]

(* The types, and the shape of a page: trailing holes are given back.      *)
TypeOK ==
    /\ DOMAIN dir \subseteq Pages /\ DOMAIN data \subseteq Pages
    /\ \A d \in DOMAIN dir : dir[d].next \in Pages \cup {INVALID_PAGE}
    /\ frame \in [DOMAIN frame -> {"clean", "dirty", "unsaved"}]
    /\ DOMAIN frame \subseteq Pages
    /\ \A p \in DOMAIN data : /\ data[p] # << >> /\ FreeSpace(data[p], DataSize) >= 0
                              /\ Len(data[p]) > 1 => data[p][Len(data[p])].len # 0
    /\ scan.state \in {"closed", "on", "done"}

(* An entry never promises more space than its page has, nor fewer         *)
(* records: insertRecord trusts it and ignores what the page answers       *)
(* (heapfile.C:194), and deletions do not correct it (heapfile.C:266).     *)
EntriesPromiseNoMore ==
    harm = "none" =>
        \A e \in AllEntries :
            LET slots == data[EntryAt(e).page]
            IN  /\ EntryAt(e).availspace <= available_space(slots, DataSize)
                /\ EntryAt(e).recct >= Cardinality(Live(slots))

(* A data page has at most one entry, and an entry leads to at least one   *)
(* record: a scan reads the first record of every page without asking      *)
(* whether there is one (scan.C:159).                                      *)
EntriesLeadToRecords ==
    harm = "none" =>
        /\ \A e \in AllEntries : Live(data[EntryAt(e).page]) # {}
        /\ \A e, f \in AllEntries : EntryAt(e).page = EntryAt(f).page => e = f

(* What the directory says is so: pages are well formed, and no entry       *)
(* promises space or leads to a page without records (heapfile.C:194,      *)
(* scan.C:159).                                                            *)
FileInv == TypeOK /\ EntriesPromiseNoMore /\ EntriesLeadToRecords

(* As long as none of the losses `harm' names has happened, findDataPage   *)
(* finds the records that were inserted and not deleted, no other, and     *)
(* they hold what was written last.                                        *)
FileHoldsContents ==
    harm = "none" => /\ Found = DOMAIN contents
                     /\ \A r \in Found : data[r[1]][r[2]].value = contents[r]

(* A scan that ended returned every record that was in the file from its   *)
(* beginning to its end, whatever was inserted, deleted and evicted under  *)
(* it -- unless it ended because nextRecord failed on its own entry.       *)
ScanMissesNothing ==
    scan.state = "done" /\ ~ scan.failed => staying \subseteq seen

(***************************************************************************)
(* The inductive invariant, up to the first loss.                          *)
(***************************************************************************)
(* A page of either kind: it has a slot, only the first may be a hole at   *)
(* the end, and holes are all alike.                                       *)
Page(slots, S, hole) ==
    /\ slots \in Seq(S) /\ Len(slots) >= 1
    /\ \A i \in DOMAIN slots : slots[i].len = 0 <=> slots[i] = hole
    /\ Len(slots) > 1 => slots[Len(slots)].len # 0

Records == {Record(v) : v \in Values} \cup {NoRecord}
DirEntries == [len : {0, EntrySize}, page : Nat, availspace : Int, recct : Nat]

(* The directory pages are one list; where there are several, none is      *)
(* empty.  All pages given out are in use.                                 *)
ListOfPages(c) ==
    /\ c \in Seq(DOMAIN dir) /\ Len(c) >= 1 /\ c[1] = firstDirPageId
    /\ ToSet(c) = DOMAIN dir
    /\ \A i, j \in DOMAIN c : c[i] = c[j] => i = j
    /\ \A i \in DOMAIN c : dir[c[i]].next = IF i = Len(c) THEN INVALID_PAGE ELSE c[i + 1]
    /\ Len(c) > 1 => \A d \in DOMAIN dir : Entries(d) # {}

PagesKept ==
    /\ \A d \in DOMAIN dir : /\ dir[d] = [slots |-> dir[d].slots, next |-> dir[d].next]
                             /\ Page(dir[d].slots, DirEntries, NoEntry)
    /\ \A p \in DOMAIN data : /\ Page(data[p], Records, NoRecord)
                              /\ FreeSpace(data[p], DataSize) >= 0
    /\ DOMAIN dir \cap DOMAIN data = {}
    /\ NewPage - 1 \in 1..MaxPages /\ DOMAIN dir \cup DOMAIN data = 1..NewPage - 1
    /\ frame \in [DOMAIN dir \cup DOMAIN data -> {"clean", "dirty", "unsaved"}]

Leads(d, i, p) == i \in Entries(d) /\ dir[d].slots[i].page = p

(* An entry leads to a page with records, to which no other one leads, and *)
(* promises no more than the page has.                                     *)
EntriesAreTrue ==
    \A d \in DOMAIN dir : \A i \in Entries(d) :
        LET entry == dir[d].slots[i]
        IN  /\ entry.page \in DOMAIN data
            /\ Live(data[entry.page]) # {}
            /\ entry.availspace <= available_space(data[entry.page], DataSize)
            /\ entry.recct >= Cardinality(Live(data[entry.page]))
            /\ \A f \in DOMAIN dir : \A j \in Entries(f) :
                  dir[f].slots[j].page = entry.page => f = d /\ j = i

(* The records of the user are those in pages to which an entry leads.     *)
RecordsAreContents ==
    /\ \A r \in DOMAIN contents : /\ r = << r[1], r[2] >> /\ r[1] \in DOMAIN data
                                  /\ r[2] \in Live(data[r[1]])
                                  /\ data[r[1]][r[2]] = Record(contents[r])
                                  /\ contents[r] \in Values
                                  /\ \E d \in DOMAIN dir : \E i \in DOMAIN dir[d].slots : Leads(d, i, r[1])
    /\ \A d \in DOMAIN dir : \A i \in Entries(d) : \A j \in Live(data[dir[d].slots[i].page]) :
          << dir[d].slots[i].page, j >> \in DOMAIN contents

(* What is ahead of an open scan: the rest of its page, the rest of its    *)
(* directory page, and the directory pages behind that.                    *)
Ahead(c, r) ==
    \/ scan.more /\ r[1] = scan.data /\ r[2] >= scan.record
    \/ \E i \in Entries(scan.dir) : i > scan.entry /\ Leads(scan.dir, i, r[1])
    \/ \E j, k \in DOMAIN c : /\ j < k /\ c[j] = scan.dir
                              /\ \E i \in Entries(c[k]) : Leads(c[k], i, r[1])

ScanStands ==
    /\ scan.state \in {"closed", "on", "done"}
    /\ scan = [state |-> scan.state, dir |-> scan.dir, entry |-> scan.entry, data |-> scan.data,
               record |-> scan.record, more |-> scan.more, failed |-> scan.failed]
    /\ staying \subseteq DOMAIN contents
    /\ scan.state = "closed" => staying = {}
    /\ scan.state = "on" => /\ scan.dir \in DOMAIN dir /\ scan.data \in DOMAIN data
                            /\ scan.entry \in Nat \ {0} /\ scan.record \in Nat /\ scan.more \in BOOLEAN

(* An open scan has returned the records that stayed, but for those ahead. *)
ScanIsAhead == scan.state = "on" => \A r \in staying \ seen : Ahead(Chain, r)

(* What every step keeps, until a part of the file is lost (heapfile.C:194,*)
(* 266, scan.C:159).                                                       *)
IInv ==
    /\ TypeOK /\ ScanMissesNothing
    /\ harm = "none" => /\ ListOfPages(Chain) /\ PagesKept /\ EntriesAreTrue
                        /\ RecordsAreContents /\ ScanStands /\ ScanIsAhead

(* heapfile.h:72 and hfpage.C:245: deleting a record removes that record,  *)
(* and a page is taken for empty when it has no record.                    *)
DeletesKeepOthers == DOMAIN contents \subseteq Found
=============================================================================
