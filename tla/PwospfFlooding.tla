--------------------------- MODULE PwospfFlooding ---------------------------
(***************************************************************************)
(* How the LSUs of one PWOSPF router, Origin, reach the others             *)
(* (src/Pee-Wee-OSPF/sr_pwospf.c): the threads of Origin that number and   *)
(* send them, the routers that take a copy and send it on, losses and      *)
(* restarts.  LSUs of different routers do not touch each other's numbers, *)
(* so those of one router are followed.  What an LSU lists is abstracted   *)
(* to the number of changes of Origin's links it has seen: PwospfNeighbors *)
(* makes the changes, PwospfTopology reads the lists.                      *)
(***************************************************************************)
EXTENDS Naturals, Sequences, FiniteSets

CONSTANTS
  Routers, Origin,
  Interfaces,     (* router -> sequence of the routers at its interfaces   *)
  Timers,         (* threads of Origin that announce a change they make    *)
  SeqSpace,       (* 2^16: an LSU carries the low 16 bits of lsu_seq       *)
  TTL,            (* 64                                                    *)
  MaxChanges, MaxRestarts, MaxLost,   (* bounds on what can happen         *)
  MaxQueued       (* bound: copies on a wire when lsu_handler wakes        *)

Others   == Routers \ {Origin}
Peers(r) == {Interfaces[r][i] : i \in DOMAIN Interfaces[r]}
Wires    == {w \in Routers \X Routers : w[2] \in Peers(w[1])}
Senders  == Timers \cup {"lsu_handler"}

ASSUME FloodingAssumption ==
  /\ Origin \in Routers
  /\ Interfaces \in [Routers -> Seq(Routers)]
  /\ \A a, b \in Routers : b \in Peers(a) => a # b
  /\ "free" \notin Senders
  /\ SeqSpace \in Nat \ {0, 1} /\ TTL \in 0..255
  /\ MaxChanges \in Nat /\ MaxRestarts \in Nat /\ MaxLost \in Nat /\ MaxQueued \in Nat

VARIABLES
  lsu_seq,        (* modulo SeqSpace                                       *)
  links,          (* changes of Origin's links so far, counted from 1      *)
  lock,           (* the thread inside send_lsu, or "free"                 *)
  pc, todo, copy, (* per sender: where it is, peers left, lsu_seq as read  *)
  latestSeqNum,   (* router -> number of the last LSU of Origin it took    *)
  known,          (* router -> what that LSU had seen, 0 for none          *)
  wire,           (* <<a, b>> -> the LSUs under way from a to b            *)
  renumbered,     (* history: lsu_seq has gone down                        *)
  changes, restarts, lost

sender == <<lsu_seq, links, lock, pc, todo, copy, renumbered>>
others == <<latestSeqNum, known>>
faults == <<changes, restarts, lost>>
vars   == <<sender, others, wire, faults>>

Lsus == [seq : 0..SeqSpace - 1, links : Nat \ {0}, ttl : 0..255]

Init ==
  /\ lsu_seq = 1 /\ links = 1 /\ renumbered = FALSE
  /\ lock = "free"
  /\ pc = [s \in Senders |-> "idle"]
  /\ todo = [s \in Senders |-> <<>>]
  /\ copy = [s \in Senders |-> 0]
  /\ latestSeqNum = [r \in Routers |-> 0]
  /\ known = [r \in Routers |-> 0]
  /\ wire = [w \in Wires |-> <<>>]
  /\ changes = 0 /\ restarts = 0 /\ lost = 0

-----------------------------------------------------------------------------
(* The senders.  A timer that expires, or a HELLO that revives a neighbour, *)
(* changes the links and calls send_lsu; a neighbour's first HELLO only     *)
(* changes them.                                                            *)
ChangeLinks ==
  /\ changes < MaxChanges
  /\ changes' = changes + 1
  /\ links' = links + 1

FirstHello ==
  /\ ChangeLinks
  /\ UNCHANGED <<lsu_seq, lock, pc, todo, copy, renumbered, others, wire, restarts, lost>>

ChangeAndAnnounce(s) ==
  /\ pc[s] = "idle"
  /\ ChangeLinks
  /\ pc' = [pc EXCEPT ![s] = "locking"]
  /\ UNCHANGED <<lsu_seq, lock, todo, copy, renumbered, others, wire, restarts, lost>>

lsu_handler ==
  /\ pc["lsu_handler"] = "idle"
  /\ \A w \in Wires : Len(wire[w]) <= MaxQueued
  /\ pc' = [pc EXCEPT !["lsu_handler"] = "locking"]
  /\ UNCHANGED <<lsu_seq, links, lock, todo, copy, renumbered, others, wire, faults>>

(* send_lsu: one LSU per interface, each listing what is known of the links *)
(* and carrying the number lsu_seq has when it is built.                    *)
Lock(s) ==
  /\ pc[s] = "locking" /\ lock = "free"
  /\ lock' = s
  /\ pc' = [pc EXCEPT ![s] = "sending"]
  /\ todo' = [todo EXCEPT ![s] = Interfaces[Origin]]
  /\ UNCHANGED <<lsu_seq, links, copy, renumbered, others, wire, faults>>

send_lsu(s) ==
  /\ pc[s] = "sending" /\ todo[s] # <<>>
  /\ wire' = [wire EXCEPT ![<<Origin, Head(todo[s])>>] =
                Append(@, [seq |-> lsu_seq, links |-> links, ttl |-> TTL])]
  /\ todo' = [todo EXCEPT ![s] = Tail(@)]
  /\ UNCHANGED <<lsu_seq, links, lock, pc, copy, renumbered, others, faults>>

Unlock(s) ==
  /\ pc[s] = "sending" /\ todo[s] = <<>>
  /\ lock' = "free"
  /\ pc' = [pc EXCEPT ![s] = "reading"]
  /\ UNCHANGED <<lsu_seq, links, todo, copy, renumbered, others, wire, faults>>

(* lsu_seq++ comes after the unlock: a load and a store that other threads  *)
(* may come between.                                                        *)
LoadSeq(s) ==
  /\ pc[s] = "reading"
  /\ copy' = [copy EXCEPT ![s] = lsu_seq]
  /\ pc' = [pc EXCEPT ![s] = "storing"]
  /\ UNCHANGED <<lsu_seq, links, lock, todo, renumbered, others, wire, faults>>

(* Mutant: the number is not cut to 16 bits.                                *)
NextSeqUncut(n) == n + 1

NextSeq(n) == (n + 1) % SeqSpace

StoreSeq(s) ==
  /\ pc[s] = "storing"
  /\ lsu_seq' = NextSeq(copy[s])
  /\ renumbered' = (renumbered \/ NextSeq(copy[s]) < lsu_seq)
  /\ copy' = [copy EXCEPT ![s] = 0]
  /\ pc' = [pc EXCEPT ![s] = "idle"]
  /\ UNCHANGED <<links, lock, todo, others, wire, faults>>

-----------------------------------------------------------------------------
(* send_lsu_packet, for the LSUs of Origin.                                 *)

(* Mutant: the router's own LSUs are not recognised.                        *)
RefusedOwnToo(r, m) == latestSeqNum[r] > m.seq

(* Mutant: the number is not compared.                                      *)
RefusedAnyNumber(r, m) == r = Origin

(* Mutant: an LSU with the number of the last one is refused, too.          *)
RefusedEqual(r, m) == r = Origin \/ (latestSeqNum[r] >= m.seq /\ known[r] # 0)

Refused(r, m) == r = Origin \/ latestSeqNum[r] > m.seq

(* The ttl of the copy sent on is decremented, never tested.                *)
Reflooded(wires, a, b, m) ==
  [w \in Wires |-> IF w[1] = b /\ w[2] # a
                   THEN Append(wires[w], [m EXCEPT !.ttl = (m.ttl + 255) % 256])
                   ELSE wires[w]]

Dropped(a, b) == [wire EXCEPT ![<<a, b>>] = Tail(@)]

Refuse(a, b) ==
  /\ wire[<<a, b>>] # <<>>
  /\ Refused(b, Head(wire[<<a, b>>]))
  /\ wire' = Dropped(a, b)
  /\ UNCHANGED <<sender, others, faults>>

Take(a, b) ==
  LET m == Head(wire[<<a, b>>])
  IN  /\ wire[<<a, b>>] # <<>>
      /\ ~Refused(b, m)
      /\ latestSeqNum' = [latestSeqNum EXCEPT ![b] = m.seq]
      /\ known' = [known EXCEPT ![b] = m.links]
      /\ wire' = Reflooded(Dropped(a, b), a, b, m)
      /\ UNCHANGED <<sender, faults>>

-----------------------------------------------------------------------------
(* Nothing is acknowledged: a copy may be lost.  A router that restarts has *)
(* an empty graph, and Origin counts its LSUs from 1 again; what is under   *)
(* way to it is lost with its connection.                                   *)
Lose(a, b) ==
  /\ lost < MaxLost /\ wire[<<a, b>>] # <<>>
  /\ lost' = lost + 1
  /\ wire' = Dropped(a, b)
  /\ UNCHANGED <<sender, others, changes, restarts>>

Restart(r) ==
  /\ restarts < MaxRestarts
  /\ restarts' = restarts + 1
  /\ wire' = [w \in Wires |-> IF w[2] = r THEN <<>> ELSE wire[w]]
  /\ latestSeqNum' = [latestSeqNum EXCEPT ![r] = 0]
  /\ known' = [known EXCEPT ![r] = 0]
  /\ IF r = Origin
     THEN /\ lsu_seq' = 1 /\ links' = links + 1 /\ renumbered' = TRUE
          /\ lock' = "free"
          /\ pc' = [s \in Senders |-> "idle"]
          /\ todo' = [s \in Senders |-> <<>>]
          /\ copy' = [s \in Senders |-> 0]
     ELSE UNCHANGED sender
  /\ UNCHANGED <<changes, lost>>

-----------------------------------------------------------------------------
SendStep(s) == Lock(s) \/ send_lsu(s) \/ Unlock(s) \/ LoadSeq(s) \/ StoreSeq(s)

Receive(w) == Refuse(w[1], w[2]) \/ Take(w[1], w[2])

Next ==
  \/ FirstHello
  \/ \E s \in Timers : ChangeAndAnnounce(s)
  \/ lsu_handler
  \/ \E s \in Senders : SendStep(s)
  \/ \E w \in Wires : Receive(w) \/ Lose(w[1], w[2])
  \/ \E r \in Routers : Restart(r)

Spec == Init /\ [][Next]_vars

(* lsu_handler wakes every OSPF_DEFAULT_LSUINT seconds, every thread runs,  *)
(* and what is on a wire is delivered unless it is lost.  Changes, losses   *)
(* and restarts need not happen.                                            *)
Fairness ==
  /\ WF_vars(lsu_handler)
  /\ \A s \in Senders : WF_vars(SendStep(s))
  /\ \A w \in Wires : WF_vars(Receive(w))

FairSpec == Spec /\ Fairness

-----------------------------------------------------------------------------
SenderOK ==
  /\ lsu_seq \in 0..SeqSpace - 1
  /\ links \in Nat \ {0}
  /\ lock \in Senders \cup {"free"}
  /\ pc \in [Senders -> {"idle", "locking", "sending", "reading", "storing"}]
  /\ \A s \in Senders : pc[s] = "sending" <=> lock = s
  /\ todo \in [Senders -> Seq(Peers(Origin))]
  /\ copy \in [Senders -> 0..SeqSpace - 1]
  /\ renumbered \in BOOLEAN

RoutersOK ==
  /\ latestSeqNum \in [Routers -> 0..SeqSpace - 1]
  /\ known \in [Routers -> Nat]

WiresOK == wire \in [Wires -> Seq(Lsus)]

FaultsOK == changes \in 0..MaxChanges /\ restarts \in 0..MaxRestarts /\ lost \in 0..MaxLost

(* What each variable may hold; the lock belongs to whoever is sending, and *)
(* a number fits the 16 bits of an LSU.                                     *)
TypeOK == SenderOK /\ RoutersOK /\ WiresOK /\ FaultsOK

(* Copies die out: although an LSU with a known number is taken and sent on *)
(* again, and nobody looks at the ttl, no copy goes through a router twice. *)
(* It holds where every loop leads through Origin, as in the triangle of    *)
(* the course's topology; elsewhere copies circulate.                       *)
CopiesDieOut ==
  \A w \in Wires : \A i \in DOMAIN wire[w] :
    wire[w][i].ttl + Cardinality(Routers) > TTL

(* As long as Origin's numbers have not gone down, a router that takes an   *)
(* LSU with another number learns nothing older than it knew, whatever      *)
(* paths the copies took and however the threads of Origin met in           *)
(* send_lsu.                                                                *)
NewsNeverOlder ==
  [][\A r \in Others :
       ~renumbered /\ known'[r] < known[r]
         => known'[r] = 0 \/ latestSeqNum'[r] = latestSeqNum[r]]_vars

(* Once the links stop changing and nothing more is lost or restarted,      *)
(* every router ends up knowing the links as they are, although two LSUs    *)
(* may carry one number, lsu_seq wraps around and a restart resets it.      *)
NewsArrives == <>[](\A r \in Others : known[r] = links)
=============================================================================
