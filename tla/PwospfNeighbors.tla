-------------------------- MODULE PwospfNeighbors --------------------------
(***************************************************************************)
(* The neighbour table of a PWOSPF router and the threads that share it    *)
(* (src/Pee-Wee-OSPF/sr_pwospf.c): the thread that receives packets, the   *)
(* threads that send HELLOs and LSUs periodically, one timer thread per    *)
(* live neighbour, and the thread of the subsystem.  There is one possible *)
(* neighbour per interface.  What a received LSU does to the topology is   *)
(* module PwospfTopology's; here it only takes its lock.                   *)
(*                                                                         *)
(* all_lock protects single groups of assignments, so each group is one    *)
(* action.  lock is held while packets are built and sent.  is_alive, rid  *)
(* and timeCounter are also read without all_lock, and those reads are     *)
(* actions of their own.                                                   *)
(***************************************************************************)
EXTENDS Naturals, FiniteSets

CONSTANTS
  Ifaces,
  OSPF_NEIGHBOR_TIMEOUT, (* in seconds, that is, counts of a timer thread  *)
  Timers          (* bound: timer threads that exist at a time             *)

ASSUME NeighborsAssumption ==
  /\ IsFiniteSet(Ifaces) /\ Ifaces # {}
  /\ OSPF_NEIGHBOR_TIMEOUT \in Nat \ {0}
  /\ Timers \cap {"packet", "hello", "lsu", "subsystem", "none"} = {}

Free    == "none"
Threads == {"packet", "hello", "lsu", "subsystem"} \cup Timers

VARIABLES
  known,          (* interface -> has the neighbour's rid been learnt?     *)
  is_alive, timeCounter,
  pc,             (* thread -> its next step                               *)
  iface,          (* timer or packet thread -> interface it is about       *)
  lock,           (* the thread that holds lock, or Free                   *)
  subsys,         (* the thread that holds the subsystem's lock, or Free   *)
  toSend,         (* interfaces the lock holder has still to send to       *)
  listed,         (* interface -> neighbours in the last LSU sent on it    *)
  up              (* the neighbours that send HELLOs                       *)

table == <<known, is_alive, timeCounter>>
neighborsVars  == <<table, pc, iface, lock, subsys, toSend, listed, up>>

Goto(t, p) == pc' = [pc EXCEPT ![t] = p]

(* The steps between which a timer thread watches its neighbour.           *)
Watching(t, i) == iface[t] = i /\ pc[t] \in {"check", "sleep", "expire"}

-----------------------------------------------------------------------------
(* A HELLO with the right mask and interval arrives.                       *)
ReceiveHello(i) ==
  /\ pc["packet"] = "receive"
  /\ i \in up
  /\ iface' = [iface EXCEPT !["packet"] = i]
  /\ Goto("packet", IF known[i] THEN "known" ELSE "new")
  /\ UNCHANGED <<table, lock, subsys, toSend, listed, up>>

NewNeighbor ==
  LET i == iface["packet"] IN
  /\ pc["packet"] = "new"
  /\ known'       = [known       EXCEPT ![i] = TRUE]
  /\ is_alive'    = [is_alive    EXCEPT ![i] = TRUE]
  /\ timeCounter' = [timeCounter EXCEPT ![i] = 0]
  /\ Goto("packet", "timerOfNew")
  /\ UNCHANGED <<iface, lock, subsys, toSend, listed, up>>

ResetCounter ==
  /\ pc["packet"] = "known"
  /\ timeCounter' = [timeCounter EXCEPT ![iface["packet"]] = 0]
  /\ Goto("packet", "testAlive")
  /\ UNCHANGED <<known, is_alive, iface, lock, subsys, toSend, listed, up>>

(* Mutant: every HELLO starts a timer.                                     *)
TestAliveAlwaysRevives ==
  /\ pc["packet"] = "testAlive"
  /\ Goto("packet", "revive")
  /\ UNCHANGED <<table, iface, lock, subsys, toSend, listed, up>>

TestAlive ==
  /\ pc["packet"] = "testAlive"
  /\ Goto("packet", IF is_alive[iface["packet"]] THEN "receive" ELSE "revive")
  /\ UNCHANGED <<table, iface, lock, subsys, toSend, listed, up>>

Revive ==
  /\ pc["packet"] = "revive"
  /\ is_alive' = [is_alive EXCEPT ![iface["packet"]] = TRUE]
  /\ Goto("packet", "timerOfRevived")
  /\ UNCHANGED <<known, timeCounter, iface, lock, subsys, toSend, listed, up>>

(* Only a neighbour that comes back is announced at once.                  *)
CreateTimer ==
  /\ pc["packet"] \in {"timerOfNew", "timerOfRevived"}
  /\ \E t \in Timers :
       /\ pc[t] = "exited"
       /\ iface' = [iface EXCEPT ![t] = iface["packet"]]
       /\ pc' = [pc EXCEPT ![t] = "check",
                           !["packet"] = IF @ = "timerOfNew" THEN "receive" ELSE "sendLsu"]
  /\ UNCHANGED <<table, lock, subsys, toSend, listed, up>>

-----------------------------------------------------------------------------
(* The timer thread of a neighbour.                                        *)
(* Mutant: <= for <.                                                       *)
TimerTestOneMore(t) ==
  /\ pc[t] = "check"
  /\ Goto(t, IF timeCounter[iface[t]] <= OSPF_NEIGHBOR_TIMEOUT THEN "sleep" ELSE "expire")
  /\ UNCHANGED <<table, iface, lock, subsys, toSend, listed, up>>

TimerTest(t) ==
  /\ pc[t] = "check"
  /\ Goto(t, IF timeCounter[iface[t]] < OSPF_NEIGHBOR_TIMEOUT THEN "sleep" ELSE "expire")
  /\ UNCHANGED <<table, iface, lock, subsys, toSend, listed, up>>

TimerCount(t) ==
  /\ pc[t] = "sleep"
  /\ timeCounter' = [timeCounter EXCEPT ![iface[t]] = @ + 1]
  /\ Goto(t, "check")
  /\ UNCHANGED <<known, is_alive, iface, lock, subsys, toSend, listed, up>>

(* Mutant: the timer ends without is_alive = 0.                            *)
TimerExpireForgets(t) ==
  /\ pc[t] = "expire"
  /\ Goto(t, "sendLsu")
  /\ UNCHANGED <<table, iface, lock, subsys, toSend, listed, up>>

TimerExpire(t) ==
  /\ pc[t] = "expire"
  /\ is_alive' = [is_alive EXCEPT ![iface[t]] = FALSE]
  /\ Goto(t, "sendLsu")
  /\ UNCHANGED <<known, timeCounter, iface, lock, subsys, toSend, listed, up>>

-----------------------------------------------------------------------------
(* send_lsu, called by the packet thread, the timers and the LSU thread.   *)
LsuCallers == {"packet", "lsu"} \cup Timers

(* Mutant: send_lsu without pthread_mutex_lock(&lock).                     *)
AcquireForLsuNoLock(t) ==
  /\ pc[t] = "sendLsu"
  /\ lock' = t
  /\ toSend' = Ifaces
  /\ Goto(t, "building")
  /\ UNCHANGED <<table, iface, subsys, listed, up>>

AcquireForLsu(t) ==
  /\ pc[t] = "sendLsu"
  /\ lock = Free
  /\ lock' = t
  /\ toSend' = Ifaces
  /\ Goto(t, "building")
  /\ UNCHANGED <<table, iface, subsys, listed, up>>

(* The packet of each interface is built from the table as it is then; a   *)
(* neighbour that is not known has rid 0, as has a dead one.               *)
SendLsuOn(t, k) ==
  /\ pc[t] = "building"
  /\ k \in toSend
  /\ toSend' = toSend \ {k}
  /\ listed' = [listed EXCEPT ![k] = {i \in Ifaces : known[i] /\ is_alive[i]}]
  /\ UNCHANGED <<table, pc, iface, lock, subsys, up>>

(* After the call a timer ends, the others wait for their next packet or   *)
(* period.                                                                 *)
ReleaseAfterLsu(t) ==
  /\ pc[t] = "building"
  /\ toSend = {}
  /\ lock' = Free
  /\ Goto(t, IF t = "packet" THEN "receive" ELSE IF t = "lsu" THEN "asleep" ELSE "exited")
  /\ UNCHANGED <<table, iface, subsys, toSend, listed, up>>

LsuPeriod ==
  /\ pc["lsu"] = "asleep"
  /\ Goto("lsu", "sendLsu")
  /\ UNCHANGED <<table, iface, lock, subsys, toSend, listed, up>>

-----------------------------------------------------------------------------
(* The other users of the locks.                                           *)
HelloPeriod ==
  /\ pc["hello"] = "asleep"
  /\ lock = Free
  /\ lock' = "hello"
  /\ Goto("hello", "sending")
  /\ UNCHANGED <<table, iface, subsys, toSend, listed, up>>

HelloSent ==
  /\ pc["hello"] = "sending"
  /\ lock' = Free
  /\ Goto("hello", "asleep")
  /\ UNCHANGED <<table, iface, subsys, toSend, listed, up>>

SubsystemAwake ==
  /\ pc["subsystem"] = "asleep"
  /\ subsys = Free
  /\ subsys' = "subsystem"
  /\ Goto("subsystem", "locking")
  /\ UNCHANGED <<table, iface, lock, toSend, listed, up>>

SubsystemLocks ==
  /\ pc["subsystem"] = "locking"
  /\ lock = Free
  /\ lock' = "subsystem"
  /\ Goto("subsystem", "unlocking")
  /\ UNCHANGED <<table, iface, subsys, toSend, listed, up>>

SubsystemUnlocks ==
  /\ pc["subsystem"] = "unlocking"
  /\ lock' = Free
  /\ subsys' = Free
  /\ Goto("subsystem", "asleep")
  /\ UNCHANGED <<table, iface, toSend, listed, up>>

(* A received LSU: the routes are written under the subsystem's lock.      *)
LockRoutes ==
  /\ pc["packet"] = "receive"
  /\ subsys = Free
  /\ subsys' = "packet"
  /\ Goto("packet", "routes")
  /\ UNCHANGED <<table, iface, lock, toSend, listed, up>>

RoutesWritten ==
  /\ pc["packet"] = "routes"
  /\ subsys' = Free
  /\ Goto("packet", "receive")
  /\ UNCHANGED <<table, iface, lock, toSend, listed, up>>

(* A neighbour starts, or falls silent.                                    *)
NeighborFlips(i) ==
  /\ up' = IF i \in up THEN up \ {i} ELSE up \cup {i}
  /\ UNCHANGED <<table, pc, iface, lock, subsys, toSend, listed>>

-----------------------------------------------------------------------------
NeighborsInit ==
  /\ known       = [i \in Ifaces |-> FALSE]
  /\ is_alive    = [i \in Ifaces |-> TRUE]
  /\ timeCounter = [i \in Ifaces |-> 0]
  /\ pc = [t \in Threads |-> IF t \in Timers THEN "exited"
                             ELSE IF t = "packet" THEN "receive" ELSE "asleep"]
  /\ iface \in {[t \in Timers \cup {"packet"} |-> i] : i \in Ifaces}
  /\ lock = Free
  /\ subsys = Free
  /\ toSend = {}
  /\ listed = [i \in Ifaces |-> {}]
  /\ up \in SUBSET Ifaces

PacketNext ==
  \/ \E i \in Ifaces : ReceiveHello(i)
  \/ NewNeighbor \/ ResetCounter \/ TestAlive \/ Revive \/ CreateTimer
  \/ LockRoutes \/ RoutesWritten

TimerNext(t) == TimerTest(t) \/ TimerCount(t) \/ TimerExpire(t)

LsuNext(t) ==
  AcquireForLsu(t) \/ ReleaseAfterLsu(t) \/ \E k \in Ifaces : SendLsuOn(t, k)

HelloNext     == HelloPeriod \/ HelloSent
SubsystemNext == SubsystemAwake \/ SubsystemLocks \/ SubsystemUnlocks

NeighborsNext ==
  \/ PacketNext
  \/ \E t \in Timers : TimerNext(t)
  \/ \E t \in LsuCallers : LsuNext(t)
  \/ LsuPeriod
  \/ HelloNext
  \/ SubsystemNext
  \/ \E i \in Ifaces : NeighborFlips(i)

NeighborsSpec == NeighborsInit /\ [][NeighborsNext]_neighborsVars

(* Threads run: what they started inside a call goes on.  A mutex does not *)
(* starve a waiter for ever (its other users sleep seconds between uses).  *)
(* Nothing is assumed about periods, nor about HELLOs and LSUs arriving.   *)
Fairness ==
  /\ WF_neighborsVars(NewNeighbor \/ ResetCounter \/ TestAlive \/ Revive \/ CreateTimer \/ RoutesWritten)
  /\ \A t \in Timers : WF_neighborsVars(TimerNext(t))
  /\ \A t \in LsuCallers : /\ SF_neighborsVars(AcquireForLsu(t))
                           /\ WF_neighborsVars(ReleaseAfterLsu(t) \/ \E k \in Ifaces : SendLsuOn(t, k))
  /\ WF_neighborsVars(HelloSent)
  /\ SF_neighborsVars(SubsystemLocks)
  /\ WF_neighborsVars(SubsystemUnlocks)

FairSpec == NeighborsSpec /\ Fairness

-----------------------------------------------------------------------------
PacketSteps == {"receive", "new", "known", "testAlive", "revive", "timerOfNew",
                "timerOfRevived", "routes", "sendLsu", "building"}
TimerSteps  == {"exited", "check", "sleep", "expire", "sendLsu", "building"}
ThreadSteps       == PacketSteps \cup TimerSteps
                 \cup {"asleep", "sending", "locking", "unlocking"}

NeighborsTypeOK ==
  /\ known    \in [Ifaces -> BOOLEAN]
  /\ is_alive \in [Ifaces -> BOOLEAN]
  /\ timeCounter \in [Ifaces -> 0..OSPF_NEIGHBOR_TIMEOUT]
  /\ pc \in [Threads -> ThreadSteps]
  /\ pc["packet"] \in PacketSteps
  /\ \A t \in Timers : pc[t] \in TimerSteps
  /\ pc["lsu"] \in {"asleep", "sendLsu", "building"}
  /\ pc["hello"] \in {"asleep", "sending"}
  /\ pc["subsystem"] \in {"asleep", "locking", "unlocking"}
  /\ iface \in [Timers \cup {"packet"} -> Ifaces]
  /\ lock \in Threads \cup {Free}
  /\ subsys \in {"packet", "subsystem", Free}
  /\ toSend \subseteq Ifaces
  /\ listed \in [Ifaces -> SUBSET Ifaces]
  /\ up \subseteq Ifaces

CreatingTimer(i) == iface["packet"] = i /\ pc["packet"] \in {"timerOfNew", "timerOfRevived"}

(* A known neighbour that is alive is watched: by exactly one timer, since  *)
(* two would count its silence twice as fast, and none would leave it alive *)
(* for ever.  A dead one is watched by none.  HELLOs race the timer's test, *)
(* expiry and exit.                                                         *)
AliveMeansWatched ==
  \A i \in Ifaces :
    LET watchers == {t \in Timers : Watching(t, i)}
    IN  Cardinality(watchers) + (IF CreatingTimer(i) THEN 1 ELSE 0)
          = (IF known[i] /\ is_alive[i] THEN 1 ELSE 0)

(* The two mutexes: a thread between lock and unlock is the holder, so no   *)
(* two threads build packets at once, and the holder of lock never waits    *)
(* for the subsystem's lock.                                                *)
LockDiscipline ==
  /\ \A t \in Threads : pc[t] \in {"building", "sending", "unlocking"} <=> lock = t
  /\ subsys = "packet" <=> pc["packet"] = "routes"
  /\ subsys = "subsystem" <=> pc["subsystem"] \in {"locking", "unlocking"}

(* A neighbour that falls silent for good is in the end left out of the     *)
(* LSUs of every interface, whatever the threads were doing meanwhile.      *)
SilentNeighborIsWithdrawn ==
  \A i \in Ifaces :
    <>[](i \notin up) => <>[](\A k \in Ifaces : i \notin listed[k])
=============================================================================
