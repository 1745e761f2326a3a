----------------------------- MODULE RecordPage -----------------------------
(***************************************************************************)
(* What a slotted page promises to its user (hfpage.h:62-87): records     *)
(* under numbers that never change, however the bytes are moved around.    *)
(***************************************************************************)
CONSTANTS Records, Rids

VARIABLE recs       \* number of a live record -> the record

None == << >>
TypeOK == \A r \in DOMAIN recs : r \in Rids /\ recs[r] \in Records

Init == recs = [r \in {} |-> None]

Insert(r, rec) == /\ r \in Rids \ DOMAIN recs
                  /\ recs' = [i \in DOMAIN recs \cup {r} |-> IF i = r THEN rec ELSE recs[i]]

Delete(r) == /\ r \in DOMAIN recs
             /\ recs' = [i \in DOMAIN recs \ {r} |-> recs[i]]

Next == \E r \in Rids : Delete(r) \/ \E rec \in Records : Insert(r, rec)

Spec == Init /\ [][Next]_recs
=============================================================================
