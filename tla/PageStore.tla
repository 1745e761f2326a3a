----------------------------- MODULE PageStore ------------------------------
(***************************************************************************)
(* What the buffer manager promises its callers: one store of pages, as if *)
(* there were neither frames nor a disk.  A caller that holds a page reads *)
(* and writes its contents; a page whose last writer unpinned it as dirty  *)
(* survives the loss of the pool.                                          *)
(***************************************************************************)
CONSTANTS
  Clients, Pages, Data, NoPage,
  FlakyDisk       (* may a dirty unpin fail to save the page?              *)

VARIABLES
  store,          (* page -> contents                                      *)
  allocated,
  holds,          (* client -> the page it has pinned, or NoPage           *)
  atRisk          (* pages whose contents may not survive a restart        *)

storeVars == <<store, allocated, holds, atRisk>>

StoreInit ==
  /\ store \in [Pages -> Data]
  /\ allocated \in SUBSET Pages
  /\ holds = [c \in Clients |-> NoPage]
  /\ atRisk = {}

(* The manager may save pages at any time.                                 *)
SaveSome == atRisk' \in SUBSET atRisk

Save == SaveSome /\ UNCHANGED <<store, allocated, holds>>

Pin(c, p) ==
  /\ holds[c] = NoPage
  /\ p \in allocated
  /\ holds' = [holds EXCEPT ![c] = p]
  /\ SaveSome
  /\ UNCHANGED <<store, allocated>>

(* A new page starts with any contents; its old ones may be on disk.       *)
New(c, p) ==
  /\ holds[c] = NoPage
  /\ p \notin allocated
  /\ allocated' = allocated \cup {p}
  /\ holds' = [holds EXCEPT ![c] = p]
  /\ \E v \in Data : store' = [store EXCEPT ![p] = v]
  /\ atRisk' \in SUBSET (atRisk \cup {p})
  /\ store'[p] # store[p] => p \in atRisk'

Write(c, v) ==
  /\ holds[c] # NoPage
  /\ store' = [store EXCEPT ![holds[c]] = v]
  /\ atRisk' = atRisk \cup {holds[c]}
  /\ UNCHANGED <<allocated, holds>>

Unpin(c, dirty) ==
  /\ holds[c] # NoPage
  /\ holds' = [holds EXCEPT ![c] = NoPage]
  /\ \/ atRisk' = IF dirty THEN atRisk \ {holds[c]} ELSE atRisk
     \/ FlakyDisk /\ UNCHANGED atRisk
  /\ UNCHANGED <<store, allocated>>

Free(p) ==
  /\ p \in allocated
  /\ \A c \in Clients : holds[c] # p
  /\ allocated' = allocated \ {p}
  /\ UNCHANGED <<store, holds, atRisk>>

(* The pool is lost: every page that was not at risk is as it was.         *)
Restart ==
  /\ store' \in [Pages -> Data]
  /\ \A p \in Pages \ atRisk : store'[p] = store[p]
  /\ atRisk' = {}
  /\ holds' = [c \in Clients |-> NoPage]
  /\ UNCHANGED allocated

StoreNext ==
  \/ \E c \in Clients :
       \/ \E p \in Pages : Pin(c, p) \/ New(c, p)
       \/ \E v \in Data : Write(c, v)
       \/ \E dirty \in BOOLEAN : Unpin(c, dirty)
  \/ \E p \in Pages : Free(p)
  \/ Save
  \/ Restart

StoreSpec == StoreInit /\ [][StoreNext]_storeVars
=============================================================================
