----------------------------- MODULE HelpQueue -----------------------------
(***************************************************************************)
(* The server of the lab help queue (src/Lab-Help-Queue-System/server).    *)
(* One thread accepts client programs; one thread serves each of them; the *)
(* administrators' threads cancel requests and clear the queue; a timer    *)
(* thread clears it when a class ends; the displays' threads sort it.  All *)
(* share clientVector and the ClientData objects in it.  Only the Vector's *)
(* own methods lock: between two of them, or between two field accesses,   *)
(* any other thread may run, so each shared access is an action of its own.*)
(*                                                                         *)
(* There is one ClientData per workstation, so a workstation stands for    *)
(* its object (and for the name it was given).  Class, section and wording *)
(* of events and messages are left out.                                    *)
(***************************************************************************)
EXTENDS Integers, Sequences, FiniteSets, SequencesExt

CONSTANTS
  Workstations,
  Admins,         (* administrator connections, logged in                  *)
  Updaters,       (* the timer thread, if it runs: at most one             *)
  AdminOps,       (* what administrators do, of "cancel", "queue", "event" *)
  Displays,       (* does a display poll the server?                       *)
  MaxConnections, (* bound on the client programs ever started             *)
  MaxRequests,    (* bound on the requests for help; dates are their number*)
  MaxSqlFaults,   (* bound on failing SQL statements                       *)
  MaxResets       (* bound on connections reset before the first answer    *)

Conns    == 1..MaxConnections
Acceptor == 0
NoDate   == 0
NoOne    == "none"
Tables   == {"Events", "ID"}

ASSUME HelpQueueAssumption ==
  /\ NoOne \notin Workstations
  /\ Admins \cap Updaters = {}
  /\ (Admins \cup Updaters) \cap Int = {}
  /\ AdminOps \subseteq {"cancel", "queue", "event"}
  /\ Displays \in BOOLEAN
  /\ {MaxConnections, MaxRequests, MaxSqlFaults, MaxResets} \subseteq Nat

Threads == {Acceptor} \cup Conns \cup Admins \cup Updaters

VARIABLES
  clientVector,   (* the workstations, in the order of the vector          *)
  online, helping, date, handler,   (* ClientData; handler is a connection *)
  peer,           (* connection -> workstation of its client program       *)
  conns,          (* connections accepted so far; the last is the one the  *)
                  (* accepting thread is busy with                         *)
  pc,             (* thread -> its next step                               *)
  cd,             (* thread -> its local clientData                        *)
  idx,            (* thread -> its local index into the vector             *)
  requests,       (* requests stamped so far: the clock                    *)
  tables,         (* which of table Events and sequence ID exist           *)
  open,           (* workstation -> HELP rows minus CANCEL rows in Events  *)
  sqlFaults, resets

clientData == <<online, helping, date, handler>>
events     == <<tables, open, sqlFaults>>
vars == <<clientVector, clientData, peer, conns, pc, cd, idx, requests, events, resets>>

Goto(t, p) == pc' = [pc EXCEPT ![t] = p]

(* indexOf: i is the first index of an element of S.                        *)
IsFirst(i, S) == /\ i \in DOMAIN clientVector
                 /\ clientVector[i] \in S
                 /\ \A j \in 1..(i - 1) : clientVector[j] \notin S

HandledBy(h) == {w \in Workstations : handler[w] = h}

-----------------------------------------------------------------------------
(* Definitions named after what they get wrong are mutants of the one that  *)
(* follows; no action uses them.                                            *)

(* The thread that accepts clients.                                        *)

(* The answer to the new client.  If that write fails, so does the whole   *)
(* accept loop: its try block is outside of it.                            *)
Answered(next) == \/ next = "accept" /\ UNCHANGED resets
                  \/ /\ next = "dead"
                     /\ resets < MaxResets
                     /\ resets' = resets + 1

AnswerThen(next) == Answered(next) /\ Goto(Acceptor, next)

Accept(w) ==
  /\ pc[Acceptor] = "accept"
  /\ conns < MaxConnections
  /\ conns' = conns + 1
  /\ peer' = [peer EXCEPT ![conns + 1] = w]
  /\ \/ /\ \A i \in DOMAIN clientVector : clientVector[i] # w
        /\ Goto(Acceptor, "add")
        /\ UNCHANGED idx
     \/ \E i \in DOMAIN clientVector :
          /\ IsFirst(i, {w})
          /\ idx' = [idx EXCEPT ![Acceptor] = i]
          /\ Goto(Acceptor, "get")
  /\ UNCHANGED <<clientVector, clientData, cd, requests, events, resets>>

Register ==
  /\ pc[Acceptor] = "add"
  /\ clientVector' = Append(clientVector, peer[conns])
  /\ online'  = [online  EXCEPT ![peer[conns]] = TRUE]
  /\ handler' = [handler EXCEPT ![peer[conns]] = conns]
  /\ Goto(Acceptor, "startNew")
  /\ UNCHANGED <<helping, date, peer, conns, cd, idx, requests, events, resets>>

StartNew ==
  /\ pc[Acceptor] = "startNew"
  /\ \E next \in {"accept", "dead"} :
       /\ Answered(next)
       /\ pc' = [pc EXCEPT ![Acceptor] = next, ![conns] = "lookup"]
  /\ UNCHANGED <<clientVector, clientData, peer, conns, cd, idx, requests, events>>

GetRecordFirst ==
  /\ pc[Acceptor] = "get"
  /\ cd' = [cd EXCEPT ![Acceptor] = clientVector[1]]
  /\ Goto(Acceptor, "setHandler")
  /\ UNCHANGED <<clientVector, clientData, peer, conns, idx, requests, events, resets>>

GetRecord ==
  /\ pc[Acceptor] = "get"
  /\ cd' = [cd EXCEPT ![Acceptor] = clientVector[idx[Acceptor]]]
  /\ Goto(Acceptor, "setHandler")
  /\ UNCHANGED <<clientVector, clientData, peer, conns, idx, requests, events, resets>>

SetHandler ==
  /\ pc[Acceptor] = "setHandler"
  /\ handler' = [handler EXCEPT ![cd[Acceptor]] = conns]
  /\ Goto(Acceptor, "checkOnline")
  /\ UNCHANGED <<clientVector, online, helping, date, peer, conns, cd, idx, requests,
                 events, resets>>

(* A client that is online already is told so and gets no thread.          *)
Refuse ==
  /\ pc[Acceptor] = "checkOnline"
  /\ online[cd[Acceptor]]
  /\ \E next \in {"accept", "dead"} : AnswerThen(next)
  /\ UNCHANGED <<clientVector, clientData, peer, conns, cd, idx, requests, events>>

StartAgainThoughOnline ==
  /\ pc[Acceptor] = "checkOnline"
  /\ pc' = [pc EXCEPT ![Acceptor] = "setOnline", ![conns] = "lookup"]
  /\ UNCHANGED <<clientVector, clientData, peer, conns, cd, idx, requests, events, resets>>

StartAgain ==
  /\ pc[Acceptor] = "checkOnline"
  /\ ~online[cd[Acceptor]]
  /\ pc' = [pc EXCEPT ![Acceptor] = "setOnline", ![conns] = "lookup"]
  /\ UNCHANGED <<clientVector, clientData, peer, conns, cd, idx, requests, events, resets>>

SetOnline ==
  /\ pc[Acceptor] = "setOnline"
  /\ online' = [online EXCEPT ![cd[Acceptor]] = TRUE]
  /\ \E next \in {"accept", "dead"} : AnswerThen(next)
  /\ UNCHANGED <<clientVector, helping, date, handler, peer, conns, cd, idx, requests, events>>

-----------------------------------------------------------------------------
(* Steps that several threads share.                                       *)

SetHelping(w, b) == helping' = [helping EXCEPT ![w] = b]
SetDate(w, d)    == date'    = [date    EXCEPT ![w] = d]

(* insertEvent: INSERT, then commit.  It throws if either fails; a row     *)
(* whose commit failed is committed with the next one.                     *)
InsertEvent(t, w, change, ok, failed) ==
  \/ /\ tables = Tables
     /\ open' = [open EXCEPT ![w] = @ + change]
     /\ Goto(t, ok)
     /\ UNCHANGED <<tables, sqlFaults>>
  \/ /\ tables # Tables
     /\ Goto(t, failed)
     /\ UNCHANGED events
  \/ /\ tables = Tables
     /\ sqlFaults < MaxSqlFaults
     /\ sqlFaults' = sqlFaults + 1
     /\ open' \in {open, [open EXCEPT ![w] = @ + change]}
     /\ Goto(t, failed)
     /\ UNCHANGED tables

(* A CANCEL event carries the wait time: with no date, evaluating it ends  *)
(* in a NullPointerException before the insertion.                         *)
InsertCancel(t, w, ok, failed) ==
  IF date[w] = NoDate
  THEN Goto(t, failed) /\ UNCHANGED events
  ELSE InsertEvent(t, w, -1, ok, failed)

-----------------------------------------------------------------------------
(* The thread of a client connection.                                      *)

LookupFound(h) ==
  /\ pc[h] = "lookup"
  /\ \E i \in DOMAIN clientVector :
       /\ IsFirst(i, HandledBy(h))
       /\ idx' = [idx EXCEPT ![h] = i]
  /\ Goto(h, "getData")
  /\ UNCHANGED <<clientVector, clientData, peer, conns, cd, requests, events, resets>>

LookupFailedGoesOn(h) ==
  /\ pc[h] = "lookup"
  /\ \A i \in DOMAIN clientVector : clientVector[i] \notin HandledBy(h)
  /\ Goto(h, "ready")
  /\ UNCHANGED <<clientVector, clientData, peer, conns, cd, idx, requests, events, resets>>

(* get(-1) throws: the thread ends.                                        *)
LookupFailed(h) ==
  /\ pc[h] = "lookup"
  /\ \A i \in DOMAIN clientVector : clientVector[i] \notin HandledBy(h)
  /\ Goto(h, "dead")
  /\ UNCHANGED <<clientVector, clientData, peer, conns, cd, idx, requests, events, resets>>

GetData(h) ==
  /\ pc[h] = "getData"
  /\ cd' = [cd EXCEPT ![h] = clientVector[idx[h]]]
  /\ Goto(h, "ready")
  /\ UNCHANGED <<clientVector, clientData, peer, conns, idx, requests, events, resets>>

(* "request" from a client that is not helping; another one is refused.    *)
Request(h) ==
  /\ pc[h] = "ready"
  /\ requests + Cardinality({g \in Conns : pc[g] \in {"reqHelping", "reqDate"}}) < MaxRequests
  /\ Goto(h, IF helping[cd[h]] THEN "ready" ELSE "reqHelping")
  /\ UNCHANGED <<clientVector, clientData, peer, conns, cd, idx, requests, events, resets>>

RequestHelping(h) ==
  /\ pc[h] = "reqHelping"
  /\ SetHelping(cd[h], TRUE)
  /\ Goto(h, "reqDate")
  /\ UNCHANGED <<clientVector, online, date, handler, peer, conns, cd, idx, requests,
                 events, resets>>

RequestDate(h) ==
  /\ pc[h] = "reqDate"
  /\ requests' = requests + 1
  /\ SetDate(cd[h], requests + 1)
  /\ Goto(h, "reqInsert")
  /\ UNCHANGED <<clientVector, online, helping, handler, peer, conns, cd, idx, events, resets>>

(* The HELP event carries the date: formatting null throws.                *)
RequestInsert(h) ==
  /\ pc[h] = "reqInsert"
  /\ IF date[cd[h]] = NoDate
     THEN Goto(h, "ready") /\ UNCHANGED events
     ELSE InsertEvent(h, cd[h], 1, "ready", "ready")
  /\ UNCHANGED <<clientVector, clientData, peer, conns, cd, idx, requests, resets>>

LeaveKeepsRequest(h) ==
  /\ pc[h] = "ready"
  /\ Goto(h, "endOnline")
  /\ UNCHANGED <<clientVector, clientData, peer, conns, cd, idx, requests, events, resets>>

(* "disconnect", or the connection breaks.                                 *)
Leave(h) ==
  /\ pc[h] = "ready"
  /\ Goto(h, IF helping[cd[h]] THEN "endInsert" ELSE "endHelping")
  /\ UNCHANGED <<clientVector, clientData, peer, conns, cd, idx, requests, events, resets>>

EndInsertFinally(h) ==
  /\ pc[h] = "endInsert"
  /\ InsertCancel(h, cd[h], "endHelping", "endOnline")
  /\ UNCHANGED <<clientVector, clientData, peer, conns, cd, idx, requests, resets>>

(* An exception here skips the steps below: the client stays online.       *)
EndInsert(h) ==
  /\ pc[h] = "endInsert"
  /\ InsertCancel(h, cd[h], "endHelping", "dead")
  /\ UNCHANGED <<clientVector, clientData, peer, conns, cd, idx, requests, resets>>

EndHelping(h) ==
  /\ pc[h] = "endHelping"
  /\ SetHelping(cd[h], FALSE)
  /\ Goto(h, "endDate")
  /\ UNCHANGED <<clientVector, online, date, handler, peer, conns, cd, idx, requests,
                 events, resets>>

EndDate(h) ==
  /\ pc[h] = "endDate"
  /\ SetDate(cd[h], NoDate)
  /\ Goto(h, "endOnline")
  /\ UNCHANGED <<clientVector, online, helping, handler, peer, conns, cd, idx, requests,
                 events, resets>>

EndOnline(h) ==
  /\ pc[h] = "endOnline"
  /\ online' = [online EXCEPT ![cd[h]] = FALSE]
  /\ Goto(h, "dead")
  /\ UNCHANGED <<clientVector, helping, date, handler, peer, conns, cd, idx, requests,
                 events, resets>>

-----------------------------------------------------------------------------
(* Cancelling a request: by the client ("cancel"), or by an administrator  *)
(* who names the workstation ("cancel: <name>").                           *)

ClientCancel(h) ==
  /\ pc[h] = "ready"
  /\ Goto(h, "cancelCheck")
  /\ UNCHANGED <<clientVector, clientData, peer, conns, cd, idx, requests, events, resets>>

AdminCancel(a, w) ==
  /\ pc[a] = "ready"
  /\ "cancel" \in AdminOps
  /\ \E i \in DOMAIN clientVector :
       /\ IsFirst(i, {w})
       /\ idx' = [idx EXCEPT ![a] = i]
  /\ Goto(a, "cancelGet")
  /\ UNCHANGED <<clientVector, clientData, peer, conns, cd, requests, events, resets>>

CancelGet(a) ==
  /\ pc[a] = "cancelGet"
  /\ cd' = [cd EXCEPT ![a] = clientVector[idx[a]]]
  /\ Goto(a, "cancelCheck")
  /\ UNCHANGED <<clientVector, clientData, peer, conns, idx, requests, events, resets>>

CancelCheck(t) ==
  /\ pc[t] = "cancelCheck"
  /\ Goto(t, IF helping[cd[t]] THEN "cancelInsert" ELSE "ready")
  /\ UNCHANGED <<clientVector, clientData, peer, conns, cd, idx, requests, events, resets>>

CancelInsert(t) ==
  /\ pc[t] = "cancelInsert"
  /\ InsertCancel(t, cd[t], "cancelHelping", "ready")
  /\ UNCHANGED <<clientVector, clientData, peer, conns, cd, idx, requests, resets>>

CancelHelpingKeepsDate(t) ==
  /\ pc[t] = "cancelHelping"
  /\ SetHelping(cd[t], FALSE)
  /\ Goto(t, "ready")
  /\ UNCHANGED <<clientVector, online, date, handler, peer, conns, cd, idx, requests,
                 events, resets>>

CancelHelping(t) ==
  /\ pc[t] = "cancelHelping"
  /\ SetHelping(cd[t], FALSE)
  /\ Goto(t, "cancelDate")
  /\ UNCHANGED <<clientVector, online, date, handler, peer, conns, cd, idx, requests,
                 events, resets>>

CancelDate(t) ==
  /\ pc[t] = "cancelDate"
  /\ SetDate(cd[t], NoDate)
  /\ Goto(t, "ready")
  /\ UNCHANGED <<clientVector, online, helping, handler, peer, conns, cd, idx, requests,
                 events, resets>>

-----------------------------------------------------------------------------
(* Server.initialize, by an administrator ("initialize queue") or by the   *)
(* timer thread at the end of a class.  Every statement of its loop fetches*)
(* the element anew; the arguments of one insertEvent are one step.        *)

Element(t) == clientVector[idx[t]]

InitializeQueue(t) ==
  /\ pc[t] = "ready"
  /\ t \in Admins => "queue" \in AdminOps
  /\ idx' = [idx EXCEPT ![t] = 1]
  /\ Goto(t, "initCheck")
  /\ UNCHANGED <<clientVector, clientData, peer, conns, cd, requests, events, resets>>

InitCheck(t) ==
  /\ pc[t] = "initCheck"
  /\ \/ /\ idx[t] > Len(clientVector)
        /\ Goto(t, "ready")
        /\ UNCHANGED idx
     \/ /\ idx[t] <= Len(clientVector)
        /\ helping[Element(t)]
        /\ Goto(t, "initHelping")
        /\ UNCHANGED idx
     \/ /\ idx[t] <= Len(clientVector)
        /\ ~helping[Element(t)]
        /\ idx' = [idx EXCEPT ![t] = @ + 1]
        /\ UNCHANGED pc
  /\ UNCHANGED <<clientVector, clientData, peer, conns, cd, requests, events, resets>>

InitHelping(t) ==
  /\ \/ pc[t] = "initHelping"  /\ Goto(t, "initInsert")
     \/ pc[t] = "initHelping2" /\ Goto(t, "initDate")
  /\ SetHelping(Element(t), FALSE)
  /\ UNCHANGED <<clientVector, online, date, handler, peer, conns, cd, idx, requests,
                 events, resets>>

(* An exception ends the call: the rest of the queue stays.                *)
InitInsert(t) ==
  /\ pc[t] = "initInsert"
  /\ InsertCancel(t, Element(t), "initHelping2", "ready")
  /\ UNCHANGED <<clientVector, clientData, peer, conns, cd, idx, requests, resets>>

InitDate(t) ==
  /\ pc[t] = "initDate"
  /\ SetDate(Element(t), NoDate)
  /\ idx' = [idx EXCEPT ![t] = @ + 1]
  /\ Goto(t, "initCheck")
  /\ UNCHANGED <<clientVector, online, helping, handler, peer, conns, cd, requests,
                 events, resets>>

(* "initialize event": four statements, the k-th of which may fail.        *)
Statements == << [table |-> "Events", create |-> FALSE], [table |-> "Events", create |-> TRUE],
                 [table |-> "ID", create |-> FALSE], [table |-> "ID", create |-> TRUE] >>

InitializeEvent(a) ==
  /\ pc[a] = "ready"
  /\ "event" \in AdminOps
  /\ idx' = [idx EXCEPT ![a] = 1]
  /\ Goto(a, "statement")
  /\ UNCHANGED <<clientVector, clientData, peer, conns, cd, requests, events, resets>>

ExecuteStatement(a) ==
  LET k == idx[a]
      s == Statements[k]
  IN  /\ pc[a] = "statement"
      /\ \/ /\ s.create = (s.table \notin tables)
            /\ tables' = IF s.create THEN tables \cup {s.table} ELSE tables \ {s.table}
            /\ open' = IF k = 1 THEN [w \in Workstations |-> 0] ELSE open
            /\ idx' = [idx EXCEPT ![a] = k + 1]
            /\ Goto(a, IF k = Len(Statements) THEN "ready" ELSE "statement")
            /\ UNCHANGED sqlFaults
         \/ /\ \/ s.create = (s.table \in tables) /\ UNCHANGED sqlFaults
               \/ sqlFaults < MaxSqlFaults /\ sqlFaults' = sqlFaults + 1
            /\ Goto(a, "ready")
            /\ UNCHANGED <<tables, open, idx>>
      /\ UNCHANGED <<clientVector, clientData, peer, conns, cd, requests, resets>>

-----------------------------------------------------------------------------
(* A display's "update" sorts the vector in place, under the vector's lock,*)
(* before it reads the queue from it.                                      *)

(* compare(v, w) < 0: entries without a date are equal to all others.      *)
Before(v, w) == date[v] # NoDate /\ date[w] # NoDate /\ date[v] < date[w]

(* java.util.TimSort on fewer than 32 elements: the leading run, reversed  *)
(* if it descends, then each other element by binary insertion.            *)
LeadingRun(s) ==
  LET down == Len(s) > 1 /\ Before(s[2], s[1])
  IN  CHOOSE n \in 1..Len(s) :
        /\ \A i \in 2..n : Before(s[i], s[i - 1]) = down
        /\ n < Len(s) => Before(s[n + 1], s[n]) # down

(* Where left and right meet after at most Len(s) probes of the middle.     *)
InsertionPoint(s, x) ==
  LET bounds[k \in 0..Len(s)] ==
        IF k = 0 THEN <<1, Len(s) + 1>>
        ELSE LET b   == bounds[k - 1]
                 mid == (b[1] + b[2] - 2) \div 2 + 1
             IN  IF b[1] >= b[2] THEN b
                 ELSE IF Before(x, s[mid]) THEN <<b[1], mid>> ELSE <<mid + 1, b[2]>>
  IN  bounds[Len(s)][1]

InsertSorted(s, x) == InsertAt(s, InsertionPoint(s, x), x)

(* s, with its elements from n + 1 to k inserted into the run before them.  *)
TimSort(s) ==
  LET n    == LeadingRun(s)
      run  == SubSeq(s, 1, n)
      down == n > 1 /\ Before(s[2], s[1])
      sorted[k \in 0..Len(s)] ==
        IF k <= n THEN (IF down THEN Reverse(run) ELSE run)
        ELSE InsertSorted(sorted[k - 1], s[k])
  IN  IF s = <<>> THEN s ELSE sorted[Len(s)]

DisplayUpdate ==
  /\ Displays
  /\ clientVector' = TimSort(clientVector)
  /\ UNCHANGED <<clientData, peer, conns, pc, cd, idx, requests, events, resets>>

-----------------------------------------------------------------------------
Init ==
  /\ clientVector = <<>>
  /\ online  = [w \in Workstations |-> FALSE]
  /\ helping = [w \in Workstations |-> FALSE]
  /\ date    = [w \in Workstations |-> NoDate]
  /\ handler = [w \in Workstations |-> 0]
  /\ peer    = [h \in Conns |-> NoOne]
  /\ conns   = 0
  /\ pc = [t \in Threads |-> IF t = Acceptor THEN "accept"
                             ELSE IF t \in Conns THEN "new" ELSE "ready"]
  /\ cd  = [t \in Threads |-> NoOne]
  /\ idx = [t \in Threads |-> 0]
  /\ requests = 0
  /\ tables = Tables
  /\ open = [w \in Workstations |-> 0]
  /\ sqlFaults = 0
  /\ resets = 0

AcceptorNext ==
  \/ \E w \in Workstations : Accept(w)
  \/ Register \/ StartNew \/ GetRecord \/ SetHandler \/ Refuse \/ StartAgain \/ SetOnline

ClientNext(h) ==
  \/ LookupFound(h) \/ LookupFailed(h) \/ GetData(h)
  \/ Request(h) \/ RequestHelping(h) \/ RequestDate(h) \/ RequestInsert(h)
  \/ Leave(h) \/ EndInsert(h) \/ EndHelping(h) \/ EndDate(h) \/ EndOnline(h)
  \/ ClientCancel(h)

CancelNext(t) ==
  CancelCheck(t) \/ CancelInsert(t) \/ CancelHelping(t) \/ CancelDate(t)

AdminNext(a) ==
  \/ \E w \in Workstations : AdminCancel(a, w)
  \/ CancelGet(a)
  \/ InitializeEvent(a) \/ ExecuteStatement(a)

InitializeNext(t) ==
  \/ InitializeQueue(t) \/ InitCheck(t) \/ InitHelping(t) \/ InitInsert(t) \/ InitDate(t)

Next ==
  \/ AcceptorNext
  \/ \E h \in Conns : ClientNext(h)
  \/ \E t \in Conns \cup Admins : CancelNext(t)
  \/ \E a \in Admins : AdminNext(a)
  \/ \E t \in Admins \cup Updaters : InitializeNext(t)
  \/ DisplayUpdate

Spec == Init /\ [][Next]_vars

-----------------------------------------------------------------------------
AcceptorSteps == {"accept", "add", "startNew", "get", "setHandler", "checkOnline",
                  "setOnline", "dead"}
CancelSteps   == {"cancelCheck", "cancelInsert", "cancelHelping", "cancelDate"}
RequestSteps  == {"reqHelping", "reqDate", "reqInsert"}
EndSteps      == {"endInsert", "endHelping", "endDate", "endOnline"}
InitSteps     == {"initCheck", "initHelping", "initInsert", "initHelping2", "initDate"}
ServingSteps  == {"ready"} \cup RequestSteps \cup CancelSteps \cup EndSteps

TypeOK ==
  /\ clientVector \in Seq(Workstations)
  /\ online  \in [Workstations -> BOOLEAN]
  /\ helping \in [Workstations -> BOOLEAN]
  /\ date    \in [Workstations -> 0..MaxRequests]
  /\ handler \in [Workstations -> 0..MaxConnections]
  /\ peer \in [Conns -> Workstations \cup {NoOne}]
  /\ conns \in 0..MaxConnections
  /\ pc[Acceptor] \in AcceptorSteps
  /\ \A h \in Conns : pc[h] \in {"new", "lookup", "getData", "dead"} \cup ServingSteps
  /\ \A h \in Conns : pc[h] \in ServingSteps => cd[h] \in Workstations
  /\ \A t \in Admins \cup Updaters :
       pc[t] \in {"ready", "cancelGet", "statement"} \cup CancelSteps \cup InitSteps
  /\ cd \in [Threads -> Workstations \cup {NoOne}]
  /\ idx \in [Threads -> Nat]
  /\ requests \in 0..MaxRequests
  /\ tables \subseteq Tables
  /\ open \in [Workstations -> Int]
  /\ sqlFaults \in 0..MaxSqlFaults
  /\ resets \in 0..MaxResets

Serving(h, w) == pc[h] \in ServingSteps /\ cd[h] = w

(* Each workstation's record is worked on by at most one client thread, the *)
(* accepting thread's check of isOnline being what keeps a second one away. *)
(* It needs the vector to keep its order between indexOf and get.           *)
OneHandlerPerWorkstation ==
  ~Displays => \A w \in Workstations : \A g, h \in Conns :
                 Serving(g, w) /\ Serving(h, w) => g = h

(* A client thread works on the record of the workstation its program runs  *)
(* on: lookup by handler finds what lookup by address stored.               *)
HandlerServesItsWorkstation ==
  \A h \in Conns : pc[h] \in ServingSteps => cd[h] = peer[h]

Reconnecting(w) == pc[Acceptor] = "setOnline" /\ cd[Acceptor] = w

(* A workstation marked offline has no request pending and shows on no      *)
(* display, whatever failed and whoever cancelled meanwhile, except while   *)
(* it is being reconnected: its new thread starts before it is marked.      *)
OfflineNotQueued ==
  ~Displays => \A w \in Workstations :
    ~online[w] /\ ~Reconnecting(w) => ~helping[w] /\ date[w] = NoDate

(* As long as SQL works, a workstation that no thread serves any more has   *)
(* left the displays, even if its thread ended in an exception.             *)
GoneNotDisplayed ==
  MaxSqlFaults = 0 /\ "event" \notin AdminOps =>
    \A w \in Workstations : (\A h \in Conns : ~Serving(h, w)) => date[w] = NoDate

(* A client thread is between two commands.                                 *)
Quiet(w) == \A h \in Conns : Serving(h, w) => pc[h] = "ready"

(* As long as administrators and timer have done nothing yet and SQL works, *)
(* flag, date and Events agree between two commands: a workstation that     *)
(* waits shows on the displays and has one HELP row without its CANCEL, any *)
(* other has none.                                                         *)
ClientsAlone ==
  (\A t \in Admins \cup Updaters : idx[t] = 0) /\ ~Displays /\ sqlFaults = 0

FlagDateAndEventsAgree ==
  ClientsAlone => \A w \in Workstations :
    Quiet(w) => /\ helping[w] <=> date[w] # NoDate
                /\ open[w] = IF helping[w] THEN 1 ELSE 0

-----------------------------------------------------------------------------
(* The inductive invariant.  A thread that has an index uses it on a vector *)
(* that has not shrunk since; a thread that has a record has a workstation. *)
Busy       == AcceptorSteps \ {"accept", "dead"}
Requesting == {g \in Conns : pc[g] \in {"reqHelping", "reqDate"}}

LocalsOK ==
  /\ pc \in [Threads -> AcceptorSteps \cup ServingSteps \cup InitSteps
                           \cup {"new", "lookup", "getData", "cancelGet", "statement"}]
  /\ pc[Acceptor] \in Busy => conns # 0 /\ peer[conns] \in Workstations
  /\ pc[Acceptor] = "get" => idx[Acceptor] \in DOMAIN clientVector
  /\ pc[Acceptor] \in {"setHandler", "checkOnline", "setOnline"} => cd[Acceptor] \in Workstations
  /\ \A h \in Conns : pc[h] = "getData" => idx[h] \in DOMAIN clientVector
  /\ \A t \in Admins \cup Updaters :
       /\ pc[t] \in {"cancelGet"} \cup (InitSteps \ {"initCheck"}) => idx[t] \in DOMAIN clientVector
       /\ pc[t] = "initCheck" => idx[t] # 0
       /\ pc[t] = "statement" => idx[t] \in DOMAIN Statements /\ "event" \in AdminOps
       /\ pc[t] \in CancelSteps => cd[t] \in Workstations
       /\ idx[t] = 0 => pc[t] = "ready"

(* Requests that a thread has begun but not stamped count as stamped.       *)
RequestsOK == requests + Cardinality(Requesting) <= MaxRequests

(* The accepting thread starts one thread for a connection, and only once.  *)
StartInv ==
  /\ \A h \in Conns : h > conns => pc[h] = "new"
  /\ pc[Acceptor] \in Busy \ {"setOnline"} => pc[conns] = "new"

(* While no display sorts the vector: what the accepting thread and the     *)
(* threads it starts look up is the workstation of their connection.        *)
InVector(w) == \E i \in DOMAIN clientVector : clientVector[i] = w
Live(h)     == pc[h] \notin {"new", "dead"}

HandlersInv ==
  /\ pc[Acceptor] = "get" => clientVector[idx[Acceptor]] = peer[conns]
  /\ pc[Acceptor] \in {"setHandler", "checkOnline", "setOnline"} => cd[Acceptor] = peer[conns]
  /\ \A w \in Workstations : handler[w] # 0 => handler[w] <= conns /\ peer[handler[w]] = w
  /\ \A h \in Conns : pc[h] = "getData" => clientVector[idx[h]] = peer[h]
  /\ HandlerServesItsWorkstation

(* Each workstation has at most one live thread, and then it is online.     *)
LiveInv ==
  /\ pc[Acceptor] \in Busy \ {"setOnline"} => (pc[Acceptor] = "add" <=> ~InVector(peer[conns]))
  /\ pc[Acceptor] = "startNew" =>
       online[peer[conns]] /\ \A h \in Conns : Live(h) => peer[h] # peer[conns]
  /\ \A h \in Conns : Live(h) =>
       InVector(peer[h]) /\ (online[peer[h]] \/ Reconnecting(peer[h]))
  /\ \A g, h \in Conns : Live(g) /\ Live(h) /\ peer[g] = peer[h] => g = h

OfflineInv ==
  /\ OfflineNotQueued
  /\ \A h \in Conns :
       /\ pc[h] \in {"endDate", "endOnline"} => ~helping[cd[h]]
       /\ pc[h] = "endOnline" => date[cd[h]] = NoDate

(* Where the request of a workstation stands while its thread is at a step. *)
Free(w)   == ~helping[w] /\ date[w] = NoDate /\ open[w] = 0
Waits(w)  == helping[w] /\ date[w] # NoDate /\ open[w] = 1
Stage(h, w) ==
  /\ pc[h] \in {"ready", "cancelCheck"} => Free(w) \/ Waits(w)
  /\ pc[h] \in {"reqHelping", "endOnline"} => Free(w)
  /\ pc[h] = "reqDate" => helping[w] /\ date[w] = NoDate /\ open[w] = 0
  /\ pc[h] \in {"reqInsert", "cancelHelping"} => helping[w] /\ date[w] # NoDate /\ open[w] = 0
  /\ pc[h] \in {"cancelInsert", "endInsert"} => Waits(w)
  /\ pc[h] = "cancelDate" => ~helping[w] /\ date[w] # NoDate /\ open[w] = 0
  /\ pc[h] = "endHelping" => open[w] = 0 /\ (helping[w] <=> date[w] # NoDate)
  /\ pc[h] = "endDate" => ~helping[w] /\ open[w] = 0

AgreeInv ==
  ClientsAlone =>
    /\ tables = Tables
    /\ \A w \in Workstations :
         /\ \A h \in Conns : Serving(h, w) => Stage(h, w)
         /\ (\A h \in Conns : ~Serving(h, w)) => Free(w) \/ Waits(w)

GoneInv ==
  MaxSqlFaults = 0 /\ "event" \notin AdminOps =>
    /\ tables = Tables
    /\ \A w \in Workstations : date[w] # NoDate =>
         \E h \in Conns : Serving(h, w) /\ pc[h] # "endOnline"

IInv ==
  /\ TypeOK
  /\ LocalsOK
  /\ RequestsOK
  /\ StartInv
  /\ Displays \/ (HandlersInv /\ LiveInv /\ OfflineInv /\ AgreeInv)
  /\ GoneInv

-----------------------------------------------------------------------------
(* Server.java:115 "duplicate client connect": a client is refused only     *)
(* while another one of its workstation is connected.                       *)
RefusedOnlyIfConnected ==
  [][Refuse => \E h \in Conns \ {conns} :
                 peer[h] = peer[conns] /\ pc[h] \notin {"new", "dead"}]_vars
=============================================================================
