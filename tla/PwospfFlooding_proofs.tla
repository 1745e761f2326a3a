----------------------- MODULE PwospfFlooding_proofs -----------------------
(***************************************************************************)
(* Proofs about PwospfFlooding for any topology, any threads that send and *)
(* any number of changes, losses and restarts: the types, and that a       *)
(* higher number never brings older news while numbers only go up.         *)
(***************************************************************************)
EXTENDS PwospfFlooding, SequenceTheorems, FiniteSetTheorems, TLAPS

Elems(s) == {s[i] : i \in DOMAIN s}

(* An LSU with number n that had seen l changes is on a wire, or a router's *)
(* last.                                                                    *)
News(n, l) ==
  \/ \E w \in Wires : \E m \in Elems(wire[w]) : m.seq = n /\ m.links = l
  \/ \E r \in Routers : latestSeqNum[r] = n /\ known[r] = l

(* Numbers order news, and nothing is newer than what Origin has.           *)
Ordered ==
  ~renumbered =>
    /\ \A n1, n2, l1, l2 \in Nat : News(n1, l1) /\ News(n2, l2) /\ n1 > n2 => l1 >= l2
    /\ \A n, l \in Nat : News(n, l) => n <= lsu_seq /\ l <= links

FInv == TypeOK /\ Ordered

(* Adding 255 in 8 bits takes one away.                                     *)
LEMMA LessByOne == \A k \in 1..255 : (k + 255) % 256 = k - 1
OBVIOUS

USE FloodingAssumption

-----------------------------------------------------------------------------
(* What Append and Tail do to the elements of a sequence.                   *)
LEMMA AppendElems ==
  ASSUME NEW S, NEW s \in Seq(S), NEW e \in S
  PROVE  Append(s, e) \in Seq(S) /\ Elems(Append(s, e)) \subseteq Elems(s) \cup {e}
BY DEF Elems

LEMMA TailElems ==
  ASSUME NEW S, NEW s \in Seq(S), s # <<>>
  PROVE  /\ Head(s) \in S /\ Head(s) \in Elems(s)
         /\ Tail(s) \in Seq(S) /\ Elems(Tail(s)) \subseteq Elems(s)
BY HeadTailProperties DEF Elems

(* A wire leads from a router to one of its peers.                          *)
LEMMA WireOf ==
  /\ \A w \in Wires : w = <<w[1], w[2]>> /\ w[1] \in Routers /\ w[2] \in Routers
  /\ \A r \in Peers(Origin) : <<Origin, r>> \in Wires
  /\ Peers(Origin) \subseteq Routers
  /\ Interfaces[Origin] \in Seq(Peers(Origin))
<1>1. Interfaces[Origin] \in Seq(Routers) /\ Origin \in Routers
  BY DEF FloodingAssumption
<1>2. Peers(Origin) \subseteq Routers
  BY <1>1 DEF Peers
<1>3. Interfaces[Origin] \in Seq(Peers(Origin))
  BY <1>1 DEF Peers
<1> QED
  BY <1>1, <1>2, <1>3 DEF Wires

LEMMA NextSeqFits ==
  ASSUME NEW n \in 0..SeqSpace - 1
  PROVE  NextSeq(n) \in 0..SeqSpace - 1
BY DEF FloodingAssumption, NextSeq

(* A copy that is sent on is the LSU that was taken, but for its ttl.       *)
LEMMA SentOn ==
  ASSUME NEW m \in Lsus
  PROVE  LET n == [m EXCEPT !.ttl = (m.ttl + 255) % 256]
         IN  n \in Lsus /\ n.seq = m.seq /\ n.links = m.links
<1>1. \A k \in 0..255 : (k + 255) % 256 \in 0..255
  OBVIOUS
<1>2. m.ttl \in 0..255
  BY DEF Lsus
<1>3. PICK t \in 0..255 : t = (m.ttl + 255) % 256
  BY <1>1, <1>2
<1>4. [m EXCEPT !.ttl = t] \in Lsus
  BY DEF Lsus
<1>5. [m EXCEPT !.ttl = t].seq = m.seq /\ [m EXCEPT !.ttl = t].links = m.links
  BY DEF Lsus
<1> QED
  BY <1>3, <1>4, <1>5

(* Senders that are all idle.                                               *)
LEMMA IdleSenders ==
  /\ [s \in Senders |-> "idle"] \in [Senders -> {"idle", "locking", "sending", "reading", "storing"}]
  /\ [s \in Senders |-> <<>>] \in [Senders -> Seq(Peers(Origin))]
  /\ [s \in Senders |-> 0] \in [Senders -> 0..SeqSpace - 1]
  /\ \A s \in Senders : [t \in Senders |-> "idle"][s] = "sending" <=> "free" = s
<1>1. 0 \in 0..SeqSpace - 1 /\ "free" \notin Senders
  BY DEF FloodingAssumption
<1>2. <<>> \in Seq(Peers(Origin))
  OBVIOUS
<1> QED
  BY <1>1, <1>2

LEMMA InitFInv == Init => FInv
<1> SUFFICES ASSUME Init PROVE FInv
  OBVIOUS
<1>0. 0 \in 0..SeqSpace - 1 /\ 1 \in 0..SeqSpace - 1 /\ 1 \in Nat \ {0} /\ "free" \notin Senders
  BY DEF FloodingAssumption
<1>1. SenderOK
  BY <1>0, IdleSenders DEF Init, SenderOK
<1>2. RoutersOK /\ FaultsOK
  BY DEF Init, RoutersOK, FaultsOK, FloodingAssumption
<1>3. WiresOK
  BY DEF Init, WiresOK
<1>4. Ordered
  BY DEF Init, Ordered, News, Elems
<1> QED
  BY <1>1, <1>2, <1>3, <1>4 DEF FInv, TypeOK

(* A step that adds no news keeps the order, if lsu_seq goes up.            *)
LEMMA NoNews ==
  ASSUME FInv, TypeOK',
         \A n, l \in Nat : News(n, l)' => News(n, l) \/ (n = 0 /\ l = 0),
         ~renumbered' => ~renumbered /\ lsu_seq' >= lsu_seq /\ links' >= links
  PROVE  Ordered'
<1> SUFFICES ASSUME ~renumbered' PROVE Ordered'
  BY DEF Ordered
<1>1. lsu_seq \in Nat /\ links \in Nat /\ lsu_seq' \in Nat /\ links' \in Nat
  BY DEF FInv, TypeOK, SenderOK, FloodingAssumption
<1>2. PICK q \in Nat : q = lsu_seq'
  BY <1>1
<1>3. PICK k \in Nat : k = links'
  BY <1>1
<1>4. q >= lsu_seq /\ k >= links /\ ~renumbered
  BY <1>2, <1>3
<1>5. \A n, l \in Nat : News(n, l)' => n <= q /\ l <= k
  BY <1>1, <1>4 DEF FInv, Ordered
<1>6. ASSUME NEW n1 \in Nat, NEW n2 \in Nat, NEW l1 \in Nat, NEW l2 \in Nat,
             News(n1, l1)', News(n2, l2)', n1 > n2
      PROVE  l1 >= l2
  BY <1>4, <1>6 DEF FInv, Ordered
<1> QED
  BY <1>2, <1>3, <1>5, <1>6 DEF Ordered

(* What News depends on.                                                    *)
LEMMA SameNews ==
  ASSUME UNCHANGED <<wire, latestSeqNum, known>>, NEW n, NEW l
  PROVE  News(n, l)' <=> News(n, l)
BY DEF News, Elems

(* Dropping the first LSU of a wire leaves the others.                      *)
LEMMA DroppedWires ==
  ASSUME WiresOK, NEW w \in Wires, wire[w] # <<>>
  PROVE  /\ Dropped(w[1], w[2]) \in [Wires -> Seq(Lsus)]
         /\ \A v \in Wires : Elems(Dropped(w[1], w[2])[v]) \subseteq Elems(wire[v])
         /\ Head(wire[w]) \in Lsus /\ Head(wire[w]) \in Elems(wire[w])
<1>1. w = <<w[1], w[2]>>
  BY WireOf
<1>2. wire[w] \in Seq(Lsus)
  BY DEF WiresOK
<1>3. /\ Head(wire[w]) \in Lsus /\ Head(wire[w]) \in Elems(wire[w])
      /\ Tail(wire[w]) \in Seq(Lsus) /\ Elems(Tail(wire[w])) \subseteq Elems(wire[w])
  BY <1>2, TailElems
<1>4. Dropped(w[1], w[2]) = [wire EXCEPT ![w] = Tail(@)]
  BY <1>1 DEF Dropped
<1> QED
  BY <1>3, <1>4 DEF WiresOK

(* A step that changes neither the wires nor the routers nor the numbers.   *)
LEMMA QuietInv ==
  ASSUME FInv, SenderOK', FaultsOK', UNCHANGED <<wire, others>>,
         ~renumbered' => ~renumbered /\ lsu_seq' >= lsu_seq /\ links' >= links
  PROVE  FInv'
<1>1. TypeOK'
  BY DEF FInv, TypeOK, RoutersOK, WiresOK, others
<1>2. \A n, l \in Nat : News(n, l)' => News(n, l)
  BY SameNews DEF others
<1> QED
  BY <1>1, <1>2, NoNews DEF FInv

LEMMA ChangeInv ==
  ASSUME FInv, FirstHello \/ \E s \in Timers : ChangeAndAnnounce(s)
  PROVE  FInv'
<1> USE DEF FInv, TypeOK, ChangeLinks
<1>1. links' = links + 1 /\ links \in Nat \ {0} /\ lsu_seq \in Nat /\ lsu_seq' = lsu_seq
  BY DEF FirstHello, ChangeAndAnnounce, SenderOK
<1>2. PICK k \in Nat \ {0} : k = links' /\ k >= links
  BY <1>1
<1>3. FaultsOK'
  BY DEF FirstHello, ChangeAndAnnounce, FaultsOK, FloodingAssumption
<1>4. CASE FirstHello
  <2>1. SenderOK'
    BY <1>2, <1>4 DEF FirstHello, SenderOK
  <2> QED
    BY <2>1, <1>1, <1>2, <1>3, <1>4, QuietInv DEF FirstHello
<1>5. ASSUME NEW s \in Timers, ChangeAndAnnounce(s) PROVE FInv'
  <2>1. s \in Senders
    BY DEF Senders
  <2>2. SenderOK'
    BY <1>2, <1>5, <2>1 DEF ChangeAndAnnounce, SenderOK
  <2> QED
    BY <2>2, <1>1, <1>2, <1>3, <1>5, QuietInv DEF ChangeAndAnnounce
<1> QED
  BY <1>4, <1>5

LEMMA WakeInv == FInv /\ lsu_handler => FInv'
<1> SUFFICES ASSUME FInv, lsu_handler PROVE FInv'
  OBVIOUS
<1>1. SenderOK'
  BY DEF FInv, TypeOK, lsu_handler, SenderOK, Senders
<1>2. FaultsOK'
  BY DEF FInv, TypeOK, lsu_handler, FaultsOK, faults
<1> QED
  BY <1>1, <1>2, QuietInv DEF FInv, TypeOK, SenderOK, lsu_handler

(* The steps of a sender but for the sending.                               *)
LEMMA CountInv ==
  ASSUME FInv, NEW s \in Senders, Lock(s) \/ Unlock(s) \/ LoadSeq(s) \/ StoreSeq(s)
  PROVE  FInv'
<1> USE DEF FInv, TypeOK
<1>1. FaultsOK' /\ UNCHANGED <<wire, others>>
  BY DEF Lock, Unlock, LoadSeq, StoreSeq, FaultsOK, faults
<1>2. s # "free"
  BY DEF FloodingAssumption
<1>3. CASE Lock(s)
  <2>1. SenderOK'
    BY <1>2, <1>3, WireOf DEF Lock, SenderOK
  <2> QED
    BY <1>1, <1>3, <2>1, QuietInv DEF Lock, SenderOK
<1>4. CASE Unlock(s)
  <2>1. SenderOK'
    BY <1>2, <1>4 DEF Unlock, SenderOK
  <2> QED
    BY <1>1, <1>4, <2>1, QuietInv DEF Unlock, SenderOK
<1>5. CASE LoadSeq(s)
  <2>1. SenderOK'
    BY <1>2, <1>5 DEF LoadSeq, SenderOK
  <2> QED
    BY <1>1, <1>5, <2>1, QuietInv DEF LoadSeq, SenderOK
<1>6. CASE StoreSeq(s)
  <2>1. PICK q \in 0..SeqSpace - 1 : q = NextSeq(copy[s])
    BY NextSeqFits DEF SenderOK
  <2>2. 0 \in 0..SeqSpace - 1
    BY DEF FloodingAssumption
  <2>3. SenderOK'
    BY <1>2, <1>6, <2>1, <2>2 DEF StoreSeq, SenderOK
  <2>4. lsu_seq \in Nat /\ lsu_seq' = q /\ links' = links
    BY <1>6, <2>1 DEF StoreSeq, SenderOK
  <2>5. ~renumbered' => ~renumbered /\ q >= lsu_seq
    <3>1. renumbered' = (renumbered \/ q < lsu_seq)
      BY <1>6, <2>1 DEF StoreSeq
    <3>2. ~renumbered' => ~renumbered /\ ~(q < lsu_seq)
      BY <3>1
    <3> QED
      BY <3>2, <2>1, <2>4
  <2> QED
    BY <1>1, <2>3, <2>4, <2>5, QuietInv DEF SenderOK
<1> QED
  BY <1>3, <1>4, <1>5, <1>6

LEMMA SendInv ==
  ASSUME FInv, NEW s \in Senders, send_lsu(s)
  PROVE  FInv'
<1> DEFINE w == <<Origin, Head(todo[s])>>
           m == [seq |-> lsu_seq, links |-> links, ttl |-> TTL]
<1>1. SenderOK /\ RoutersOK /\ WiresOK /\ FaultsOK /\ Ordered
  BY DEF FInv, TypeOK
<1>2. todo[s] \in Seq(Peers(Origin)) /\ todo[s] # <<>>
  BY <1>1 DEF SenderOK, send_lsu
<1>3. /\ Head(todo[s]) \in Peers(Origin) /\ Tail(todo[s]) \in Seq(Peers(Origin))
      /\ w \in Wires
  BY <1>2, TailElems, WireOf
<1>4. m \in Lsus /\ m.seq = lsu_seq /\ m.links = links
  BY <1>1 DEF SenderOK, Lsus, FloodingAssumption
<1>5. wire' = [wire EXCEPT ![w] = Append(@, m)]
  BY DEF send_lsu
<1> HIDE DEF m, w
<1>6. wire[w] \in Seq(Lsus)
  BY <1>1, <1>3 DEF WiresOK
<1>7. Append(wire[w], m) \in Seq(Lsus) /\ Elems(Append(wire[w], m)) \subseteq Elems(wire[w]) \cup {m}
  BY <1>4, <1>6, AppendElems
<1>8. TypeOK'
  <2>1. SenderOK'
    BY <1>1, <1>3 DEF send_lsu, SenderOK
  <2>2. RoutersOK' /\ FaultsOK'
    BY <1>1 DEF send_lsu, others, faults, RoutersOK, FaultsOK
  <2>3. WiresOK'
    BY <1>1, <1>3, <1>5, <1>7 DEF WiresOK
  <2> QED
    BY <2>1, <2>2, <2>3 DEF TypeOK
<1>9. \A n, l \in Nat : News(n, l)' => News(n, l) \/ (n = lsu_seq /\ l = links)
  <2>1. \A v \in Wires : Elems(wire'[v]) \subseteq Elems(wire[v]) \cup {m}
    BY <1>1, <1>3, <1>5, <1>7 DEF WiresOK
  <2>2. UNCHANGED <<latestSeqNum, known>>
    BY DEF send_lsu, others
  <2>3. \A v \in Wires : Elems(wire[v])' = Elems(wire'[v])
    BY DEF Elems
  <2> QED
    BY <2>1, <2>2, <2>3, <1>4 DEF News
<1>10. Ordered'
  <2> SUFFICES ASSUME ~renumbered' PROVE Ordered'
    BY DEF Ordered
  <2>1. ~renumbered /\ lsu_seq' = lsu_seq /\ links' = links
    BY DEF send_lsu
  <2>2. lsu_seq \in Nat /\ links \in Nat
    BY <1>1 DEF SenderOK, FloodingAssumption
  <2>3. \A n, l \in Nat : News(n, l)' => n <= lsu_seq /\ l <= links
    BY <1>1, <1>9, <2>1, <2>2 DEF Ordered
  <2>4. ASSUME NEW n1 \in Nat, NEW n2 \in Nat, NEW l1 \in Nat, NEW l2 \in Nat,
               News(n1, l1)', News(n2, l2)', n1 > n2
        PROVE  l1 >= l2
    <3>1. n1 <= lsu_seq /\ n2 <= lsu_seq /\ l1 <= links /\ l2 <= links
      BY <2>3, <2>4
    <3>2. CASE n1 = lsu_seq /\ l1 = links
      BY <3>1, <3>2, <2>2
    <3>3. CASE News(n1, l1) /\ News(n2, l2)
      BY <1>1, <2>1, <2>4, <3>3 DEF Ordered
    <3>4. CASE n2 = lsu_seq /\ l2 = links
      BY <3>1, <3>4, <2>2, <2>4
    <3> QED
      BY <3>2, <3>3, <3>4, <2>4, <1>9
  <2> QED
    BY <2>1, <2>3, <2>4 DEF Ordered
<1> QED
  BY <1>8, <1>10 DEF FInv

LEMMA DropInv ==
  ASSUME FInv, NEW w \in Wires, Refuse(w[1], w[2]) \/ Lose(w[1], w[2])
  PROVE  FInv'
<1>1. SenderOK /\ RoutersOK /\ WiresOK /\ FaultsOK /\ Ordered
  BY DEF FInv, TypeOK
<1>2. w = <<w[1], w[2]>>
  BY WireOf
<1>3. wire[w] # <<>> /\ wire' = Dropped(w[1], w[2]) /\ UNCHANGED <<sender, others>>
  BY <1>2 DEF Refuse, Lose
<1>4. FaultsOK'
  BY <1>1 DEF Refuse, Lose, FaultsOK, faults, FloodingAssumption
<1>5. SenderOK' /\ RoutersOK'
  BY <1>1, <1>3 DEF SenderOK, RoutersOK, sender, others
<1>6. wire' \in [Wires -> Seq(Lsus)] /\ \A v \in Wires : Elems(wire'[v]) \subseteq Elems(wire[v])
  BY <1>1, <1>3, DroppedWires
<1>7. TypeOK'
  BY <1>4, <1>5, <1>6 DEF TypeOK, WiresOK
<1>8. \A n, l \in Nat : News(n, l)' => News(n, l)
  <2>1. \A v \in Wires : Elems(wire[v])' = Elems(wire'[v])
    BY DEF Elems
  <2> QED
    BY <2>1, <1>3, <1>6 DEF News, others
<1>9. UNCHANGED <<renumbered, lsu_seq, links>> /\ lsu_seq \in Nat /\ links \in Nat
  BY <1>1, <1>3 DEF sender, SenderOK
<1> QED
  BY <1>7, <1>8, <1>9, NoNews DEF FInv

(* What Reflooded does to the wires.                                        *)
LEMMA RefloodedWires ==
  ASSUME NEW W \in [Wires -> Seq(Lsus)], NEW a, NEW b, NEW m \in Lsus
  PROVE  /\ Reflooded(W, a, b, m) \in [Wires -> Seq(Lsus)]
         /\ \A v \in Wires : \A e \in Elems(Reflooded(W, a, b, m)[v]) :
              e \in Elems(W[v]) \/ (e.seq = m.seq /\ e.links = m.links)
<1> DEFINE n == [m EXCEPT !.ttl = (m.ttl + 255) % 256]
<1>1. n \in Lsus /\ n.seq = m.seq /\ n.links = m.links
  BY SentOn
<1> HIDE DEF n
<1>2. ASSUME NEW v \in Wires
      PROVE  Append(W[v], n) \in Seq(Lsus) /\ Elems(Append(W[v], n)) \subseteq Elems(W[v]) \cup {n}
  BY <1>1, AppendElems
<1>3. Reflooded(W, a, b, m) = [v \in Wires |-> IF v[1] = b /\ v[2] # a THEN Append(W[v], n) ELSE W[v]]
  BY DEF Reflooded, n
<1> QED
  BY <1>1, <1>2, <1>3

LEMMA TakeInv ==
  ASSUME FInv, NEW w \in Wires, Take(w[1], w[2])
  PROVE  FInv'
<1> DEFINE m == Head(wire[w])
           W == Dropped(w[1], w[2])
<1>1. SenderOK /\ RoutersOK /\ WiresOK /\ FaultsOK /\ Ordered
  BY DEF FInv, TypeOK
<1>2. w = <<w[1], w[2]>> /\ w[2] \in Routers
  BY WireOf
<1>3. /\ wire[w] # <<>>
      /\ latestSeqNum' = [latestSeqNum EXCEPT ![w[2]] = m.seq]
      /\ known' = [known EXCEPT ![w[2]] = m.links]
      /\ wire' = Reflooded(W, w[1], w[2], m)
      /\ UNCHANGED <<sender, faults>>
  BY <1>2 DEF Take
<1>4. /\ W \in [Wires -> Seq(Lsus)]
      /\ \A v \in Wires : Elems(W[v]) \subseteq Elems(wire[v])
      /\ m \in Lsus /\ m \in Elems(wire[w])
  BY <1>1, <1>3, DroppedWires
<1>5. m.seq \in 0..SeqSpace - 1 /\ m.links \in Nat
  BY <1>4 DEF Lsus
<1> HIDE DEF m, W
<1>6. /\ wire' \in [Wires -> Seq(Lsus)]
      /\ \A v \in Wires : \A e \in Elems(wire'[v]) :
           e \in Elems(wire[v]) \/ (e.seq = m.seq /\ e.links = m.links)
  <2>1. /\ Reflooded(W, w[1], w[2], m) \in [Wires -> Seq(Lsus)]
        /\ \A v \in Wires : \A e \in Elems(Reflooded(W, w[1], w[2], m)[v]) :
             e \in Elems(W[v]) \/ (e.seq = m.seq /\ e.links = m.links)
    BY <1>4, RefloodedWires
  <2> QED
    BY <2>1, <1>3, <1>4
<1>7. TypeOK'
  <2>1. SenderOK' /\ FaultsOK'
    BY <1>1, <1>3 DEF SenderOK, FaultsOK, sender, faults
  <2>2. RoutersOK'
    BY <1>1, <1>3, <1>5 DEF RoutersOK
  <2> QED
    BY <2>1, <2>2, <1>6 DEF TypeOK, WiresOK
<1>8. News(m.seq, m.links)
  BY <1>4 DEF News
<1>9. \A n, l \in Nat : News(n, l)' => News(n, l)
  <2>1. \A v \in Wires : Elems(wire[v])' = Elems(wire'[v])
    BY DEF Elems
  <2> SUFFICES ASSUME NEW n \in Nat, NEW l \in Nat, News(n, l)' PROVE News(n, l)
    OBVIOUS
  <2>2. CASE \E v \in Wires : \E e \in Elems(wire'[v]) : e.seq = n /\ e.links = l
    BY <2>2, <1>6, <1>8 DEF News
  <2>3. CASE \E r \in Routers : latestSeqNum'[r] = n /\ known'[r] = l
    BY <2>3, <1>1, <1>3, <1>8 DEF News, RoutersOK
  <2> QED
    BY <2>1, <2>2, <2>3 DEF News
<1>10. UNCHANGED <<renumbered, lsu_seq, links>> /\ lsu_seq \in Nat /\ links \in Nat
  BY <1>1, <1>3 DEF sender, SenderOK
<1> QED
  BY <1>7, <1>9, <1>10, NoNews DEF FInv

LEMMA RestartInv ==
  ASSUME FInv, NEW r \in Routers, Restart(r)
  PROVE  FInv'
<1>1. SenderOK /\ RoutersOK /\ WiresOK /\ FaultsOK /\ Ordered
  BY DEF FInv, TypeOK
<1>2. 0 \in 0..SeqSpace - 1 /\ 1 \in 0..SeqSpace - 1 /\ "free" \notin Senders
  BY DEF FloodingAssumption
<1>3. RoutersOK'
  BY <1>1, <1>2 DEF Restart, RoutersOK
<1>4. FaultsOK'
  BY <1>1 DEF Restart, FaultsOK, FloodingAssumption
<1>5. \A v \in Wires : wire'[v] = <<>> \/ wire'[v] = wire[v]
  BY DEF Restart
<1>6. WiresOK'
  BY <1>1, <1>5 DEF Restart, WiresOK
<1>7. CASE r = Origin
  <2>1. PICK k \in Nat \ {0} : k = links'
    BY <1>1, <1>7 DEF Restart, SenderOK
  <2>2. SenderOK'
    <3>1. /\ lsu_seq' = 1 /\ renumbered' = TRUE /\ lock' = "free"
          /\ pc' = [s \in Senders |-> "idle"]
          /\ todo' = [s \in Senders |-> <<>>]
          /\ copy' = [s \in Senders |-> 0]
      BY <1>7 DEF Restart
    <3> QED
      BY <3>1, <2>1, <1>2, IdleSenders DEF SenderOK
  <2>3. renumbered'
    BY <1>7 DEF Restart
  <2> QED
    BY <2>2, <2>3, <1>3, <1>4, <1>6 DEF FInv, TypeOK, Ordered
<1>8. CASE r # Origin
  <2>1. UNCHANGED sender
    BY <1>8 DEF Restart
  <2>2. SenderOK'
    BY <1>1, <2>1 DEF SenderOK, sender
  <2>3. UNCHANGED <<renumbered, lsu_seq, links>> /\ lsu_seq \in Nat /\ links \in Nat
    BY <1>1, <2>1 DEF sender, SenderOK
  <2>4. \A n, l \in Nat : News(n, l)' => News(n, l) \/ (n = 0 /\ l = 0)
    <3>1. \A v \in Wires : Elems(wire[v])' = Elems(wire'[v])
      BY DEF Elems
    <3>2. \A v \in Wires : Elems(wire'[v]) \subseteq Elems(wire[v])
      BY <1>5 DEF Elems
    <3>3. \A q \in Routers : \/ latestSeqNum'[q] = 0 /\ known'[q] = 0
                             \/ latestSeqNum'[q] = latestSeqNum[q] /\ known'[q] = known[q]
      BY <1>1 DEF Restart, RoutersOK
    <3> QED
      BY <3>1, <3>2, <3>3 DEF News
  <2> QED
    BY <2>2, <2>3, <2>4, <1>3, <1>4, <1>6, NoNews DEF FInv, TypeOK
<1> QED
  BY <1>7, <1>8

LEMMA NextFInv == FInv /\ [Next]_vars => FInv'
<1> SUFFICES ASSUME FInv, [Next]_vars PROVE FInv'
  OBVIOUS
<1>1. CASE Next
  BY <1>1, ChangeInv, WakeInv, CountInv, SendInv, DropInv, TakeInv, RestartInv
     DEF Next, SendStep, Receive
<1>2. CASE UNCHANGED vars
  <2>1. SenderOK' /\ FaultsOK'
    BY <1>2 DEF FInv, TypeOK, SenderOK, FaultsOK, vars, sender, faults
  <2> QED
    BY <1>2, <2>1, QuietInv DEF FInv, TypeOK, SenderOK, vars, sender
<1> QED
  BY <1>1, <1>2

-----------------------------------------------------------------------------
(* While Origin's numbers only go up, a higher number never stands for      *)
(* older links, on the wires and in the routers, whichever threads of       *)
(* Origin numbered the LSUs.                                                *)
THEOREM FloodingInvariant == Spec => []FInv
BY InitFInv, NextFInv, PTL DEF Spec

(* Every variable stays in its range; the lock belongs to the one sender    *)
(* that is sending, and numbers fit the field of an LSU.                    *)
THEOREM FloodingTypeOK == Spec => []TypeOK
BY FloodingInvariant, PTL DEF FInv

(* A router that takes an LSU with a higher number never goes back to older *)
(* links, for any topology, threads, losses and restarts of others.         *)
THEOREM NewsOnlyImproves == Spec => NewsNeverOlder
<1>1. ASSUME FInv, Next, NEW r \in Others, ~renumbered, known'[r] < known[r]
      PROVE  known'[r] = 0 \/ latestSeqNum'[r] = latestSeqNum[r]
  <2>1. r \in Routers /\ RoutersOK /\ WiresOK /\ Ordered
    BY <1>1 DEF Others, FInv, TypeOK
  <2>2. ASSUME UNCHANGED known PROVE FALSE
    <3>1. PICK k \in Nat : k = known[r]
      BY <2>1 DEF RoutersOK
    <3>2. known'[r] = k
      BY <2>2, <3>1
    <3> QED
      BY <1>1, <3>1, <3>2
  <2>3. ASSUME NEW q \in Routers, Restart(q) PROVE known'[r] = 0
    <3>1. known' = [known EXCEPT ![q] = 0]
      BY <2>3 DEF Restart
    <3>2. CASE q = r
      BY <2>1, <3>1, <3>2 DEF RoutersOK
    <3>3. CASE q # r
      <4>1. PICK k \in Nat : k = known[r]
        BY <2>1 DEF RoutersOK
      <4>2. known'[r] = k
        BY <2>1, <3>1, <3>3, <4>1 DEF RoutersOK
      <4> QED
        BY <1>1, <4>1, <4>2
    <3> QED
      BY <3>2, <3>3
  <2>4. ASSUME NEW w \in Wires, Take(w[1], w[2]) PROVE latestSeqNum'[r] = latestSeqNum[r]
    <3> DEFINE m == Head(wire[w])
    <3>1. w = <<w[1], w[2]>> /\ w[2] \in Routers
      BY WireOf
    <3>2. m \in Lsus /\ m \in Elems(wire[w])
      BY <2>1, <2>4, <3>1, DroppedWires DEF Take
    <3>3. /\ latestSeqNum' = [latestSeqNum EXCEPT ![w[2]] = m.seq]
          /\ known' = [known EXCEPT ![w[2]] = m.links]
          /\ ~(latestSeqNum[w[2]] > m.seq)
      BY <2>4, <3>1 DEF Take, Refused
    <3>4. m.seq \in Nat /\ m.links \in Nat
      BY <3>2 DEF Lsus
    <3>5. News(m.seq, m.links) /\ News(latestSeqNum[r], known[r])
      BY <2>1, <3>2 DEF News
    <3> HIDE DEF m
    <3>6. latestSeqNum[r] \in Nat /\ known[r] \in Nat
      BY <2>1 DEF RoutersOK
    <3>7. CASE r = w[2]
      <4>1. known'[r] = m.links /\ latestSeqNum'[r] = m.seq /\ ~(latestSeqNum[r] > m.seq)
        BY <2>1, <3>3, <3>7 DEF RoutersOK
      <4>2. ~(m.seq > latestSeqNum[r])
        BY <1>1, <2>1, <3>4, <3>5, <3>6, <4>1 DEF Ordered
      <4> QED
        BY <4>1, <4>2, <3>4, <3>6
    <3>8. CASE r # w[2]
      BY <2>1, <3>3, <3>8 DEF RoutersOK
    <3> QED
      BY <3>7, <3>8
  <2>5. \/ UNCHANGED known
        \/ \E q \in Routers : Restart(q)
        \/ \E w \in Wires : Take(w[1], w[2])
    BY <1>1 DEF Next, FirstHello, ChangeAndAnnounce, lsu_handler, SendStep, Lock, send_lsu,
       Unlock, LoadSeq, StoreSeq, Receive, Refuse, Lose, others
  <2> QED
    BY <2>2, <2>3, <2>4, <2>5
<1>2. FInv /\ [Next]_vars =>
        [\A r \in Others : ~renumbered /\ known'[r] < known[r]
                             => known'[r] = 0 \/ latestSeqNum'[r] = latestSeqNum[r]]_vars
  BY <1>1
<1> QED
  BY <1>2, FloodingInvariant, PTL DEF Spec, NewsNeverOlder

-----------------------------------------------------------------------------
(* Every loop of the topology leads through Origin: wires can be ranked so  *)
(* that a copy that any other router sends on climbs.  The triangle is such *)
(* a topology, and every one whose routers but Origin form trees.           *)
LoopsLeadThroughOrigin(rank) ==
  /\ rank \in [Wires -> 1..Cardinality(Routers)]
  /\ \A v, w \in Wires : v[2] = w[1] /\ v[2] # Origin /\ w[2] # v[1] => rank[v] < rank[w]

(* A copy has lost no more of its ttl than its wire has climbed.            *)
Climbed(rank) == \A w \in Wires : \A m \in Elems(wire[w]) : m.ttl + rank[w] >= TTL + 1

(* A step that puts nothing on a wire keeps the copies as they are.         *)
LEMMA FewerCopies ==
  ASSUME NEW rank, Climbed(rank), \A w \in Wires : Elems(wire'[w]) \subseteq Elems(wire[w])
  PROVE  Climbed(rank)'
<1>1. \A v \in Wires : Elems(wire[v])' = Elems(wire'[v])
  BY DEF Elems
<1> QED
  BY <1>1 DEF Climbed

(* Origin sends with a full ttl.                                            *)
LEMMA SendClimbs ==
  ASSUME NEW rank, LoopsLeadThroughOrigin(rank), Cardinality(Routers) \in Nat,
         FInv, Climbed(rank), NEW s \in Senders, send_lsu(s)
  PROVE  Climbed(rank)'
<1> DEFINE w == <<Origin, Head(todo[s])>>
           m == [seq |-> lsu_seq, links |-> links, ttl |-> TTL]
<1>1. todo[s] \in Seq(Peers(Origin)) /\ todo[s] # <<>> /\ WiresOK /\ SenderOK
  BY DEF FInv, TypeOK, SenderOK, send_lsu
<1>2. w \in Wires
  BY <1>1, TailElems, WireOf
<1>3. m \in Lsus /\ m.ttl = TTL
  BY <1>1 DEF SenderOK, Lsus, FloodingAssumption
<1>4. wire' = [wire EXCEPT ![w] = Append(@, m)]
  BY DEF send_lsu
<1> HIDE DEF m, w
<1>5. wire[w] \in Seq(Lsus)
  BY <1>1, <1>2 DEF WiresOK
<1>6. Elems(Append(wire[w], m)) \subseteq Elems(wire[w]) \cup {m}
  BY <1>3, <1>5, AppendElems
<1>7. \A v \in Wires : Elems(wire'[v]) \subseteq Elems(wire[v]) \cup {m}
  BY <1>1, <1>2, <1>4, <1>6 DEF WiresOK
<1>8. \A v \in Wires : Elems(wire[v])' = Elems(wire'[v])
  BY DEF Elems
<1>9. \A v \in Wires : m.ttl + rank[v] >= TTL + 1
  BY <1>3 DEF LoopsLeadThroughOrigin, FloodingAssumption
<1> QED
  BY <1>7, <1>8, <1>9 DEF Climbed

(* A router that is not Origin sends on with a ttl less by one, on wires    *)
(* that are ranked higher.                                                  *)
LEMMA TakeClimbs ==
  ASSUME NEW rank, LoopsLeadThroughOrigin(rank),
         Cardinality(Routers) \in Nat, Cardinality(Routers) <= TTL + 1,
         FInv, Climbed(rank), NEW w \in Wires, Take(w[1], w[2])
  PROVE  Climbed(rank)'
<1> DEFINE m == Head(wire[w])
           W == Dropped(w[1], w[2])
           n == [m EXCEPT !.ttl = (m.ttl + 255) % 256]
<1>1. w = <<w[1], w[2]>> /\ WiresOK
  BY WireOf DEF FInv, TypeOK
<1>2. wire[w] # <<>> /\ ~Refused(w[2], m) /\ wire' = Reflooded(W, w[1], w[2], m)
  BY <1>1 DEF Take
<1>3. /\ W \in [Wires -> Seq(Lsus)]
      /\ \A v \in Wires : Elems(W[v]) \subseteq Elems(wire[v])
      /\ m \in Lsus /\ m \in Elems(wire[w])
  BY <1>1, <1>2, DroppedWires
<1>4. w[2] # Origin
  BY <1>2 DEF Refused
<1>5. wire' = [v \in Wires |-> IF v[1] = w[2] /\ v[2] # w[1] THEN Append(W[v], n) ELSE W[v]]
  BY <1>2 DEF Reflooded
<1>6. n \in Lsus
  BY <1>3, SentOn
<1>7. n.ttl = (m.ttl + 255) % 256 /\ m.ttl \in 0..255
  BY <1>3 DEF Lsus
<1> HIDE DEF m, W, n
<1>8. ASSUME NEW v \in Wires, v[1] = w[2], v[2] # w[1]
      PROVE  n.ttl + rank[v] >= TTL + 1
  <2>1. PICK t \in 0..255 : t = m.ttl
    BY <1>7
  <2>2. PICK high \in 1..Cardinality(Routers) : high = rank[v]
    BY DEF LoopsLeadThroughOrigin
  <2>3. PICK low \in 1..Cardinality(Routers) : low = rank[w]
    BY DEF LoopsLeadThroughOrigin
  <2>4. low < high
    BY <1>4, <1>8, <2>2, <2>3 DEF LoopsLeadThroughOrigin
  <2>5. t + low >= TTL + 1
    BY <1>3, <2>1, <2>3 DEF Climbed
  <2>6. TTL \in Nat
    BY DEF FloodingAssumption
  <2>7. t >= 1
    BY <2>2, <2>3, <2>4, <2>5, <2>6
  <2>8. (t + 255) % 256 = t - 1
    <3>1. t \in 1..255
      BY <2>7
    <3> QED
      BY <3>1, LessByOne
  <2>9. n.ttl = t - 1
    BY <1>7, <2>1, <2>8
  <2>10. TTL \in Int /\ t \in Int /\ low \in Int /\ high \in Int
    BY <2>6
  <2>11. (t - 1) + high >= TTL + 1
    BY <2>4, <2>5, <2>10
  <2> QED
    BY <2>2, <2>9, <2>11
<1>9. \A v \in Wires : Elems(Append(W[v], n)) \subseteq Elems(W[v]) \cup {n}
  BY <1>3, <1>6, AppendElems
<1>10. ASSUME NEW v \in Wires, NEW e \in Elems(wire'[v]) PROVE e.ttl + rank[v] >= TTL + 1
  <2>1. e \in Elems(W[v]) => e.ttl + rank[v] >= TTL + 1
    BY <1>3 DEF Climbed
  <2>2. CASE v[1] = w[2] /\ v[2] # w[1]
    <3>1. wire'[v] = Append(W[v], n)
      BY <1>5, <2>2
    <3>2. e \in Elems(Append(W[v], n))
      BY <1>10, <3>1
    <3>3. e \in Elems(W[v]) \/ e = n
      BY <1>9, <3>2
    <3> QED
      BY <1>8, <2>1, <2>2, <3>3
  <2>3. CASE ~(v[1] = w[2] /\ v[2] # w[1])
    <3>1. wire'[v] = W[v]
      BY <1>5, <2>3
    <3> QED
      BY <1>10, <2>1, <3>1
  <2> QED
    BY <2>2, <2>3
<1>11. \A v \in Wires : Elems(wire[v])' = Elems(wire'[v])
  BY DEF Elems
<1> QED
  BY <1>10, <1>11 DEF Climbed

(* Where every loop leads through Origin, copies die out although nobody    *)
(* tests the ttl: it never falls by as many as there are routers, for any   *)
(* number of them up to what a ttl can count.                               *)
THEOREM FloodedCopiesDieOut ==
  ASSUME NEW rank, LoopsLeadThroughOrigin(rank),
         IsFiniteSet(Routers), Cardinality(Routers) <= TTL + 1
  PROVE  Spec => []CopiesDieOut
<1>0. Cardinality(Routers) \in Nat
  BY FS_CardinalityType
<1>1. Init => Climbed(rank)
  BY DEF Init, Climbed, Elems
<1>2. FInv /\ Climbed(rank) /\ [Next]_vars => Climbed(rank)'
  <2> SUFFICES ASSUME FInv, Climbed(rank), [Next]_vars PROVE Climbed(rank)'
    OBVIOUS
  <2>1. WiresOK
    BY DEF FInv, TypeOK
  <2>2. ASSUME UNCHANGED wire PROVE Climbed(rank)'
    BY <2>2, FewerCopies
  <2>3. ASSUME NEW w \in Wires, Refuse(w[1], w[2]) \/ Lose(w[1], w[2]) PROVE Climbed(rank)'
    <3>1. w = <<w[1], w[2]>>
      BY WireOf
    <3>2. wire[w] # <<>> /\ wire' = Dropped(w[1], w[2])
      BY <2>3, <3>1 DEF Refuse, Lose
    <3> QED
      BY <2>1, <3>2, DroppedWires, FewerCopies
  <2>4. ASSUME NEW r \in Routers, Restart(r) PROVE Climbed(rank)'
    <3>1. \A v \in Wires : wire'[v] = <<>> \/ wire'[v] = wire[v]
      BY <2>4 DEF Restart
    <3>2. \A v \in Wires : Elems(wire'[v]) \subseteq Elems(wire[v])
      BY <3>1 DEF Elems
    <3> QED
      BY <3>2, FewerCopies
  <2>5. \/ UNCHANGED wire
        \/ \E s \in Senders : send_lsu(s)
        \/ \E w \in Wires : Refuse(w[1], w[2]) \/ Lose(w[1], w[2])
        \/ \E w \in Wires : Take(w[1], w[2])
        \/ \E r \in Routers : Restart(r)
    BY DEF Next, FirstHello, ChangeAndAnnounce, lsu_handler, SendStep, Lock, Unlock, LoadSeq,
       StoreSeq, Receive, vars
  <2> QED
    BY <1>0, <2>2, <2>3, <2>4, <2>5, SendClimbs, TakeClimbs
<1>3. FInv /\ Climbed(rank) => CopiesDieOut
  <2> SUFFICES ASSUME FInv, Climbed(rank), NEW w \in Wires, NEW i \in DOMAIN wire[w]
               PROVE  wire[w][i].ttl + Cardinality(Routers) > TTL
    BY DEF CopiesDieOut
  <2>1. wire[w] \in Seq(Lsus) /\ wire[w][i] \in Elems(wire[w])
    BY DEF FInv, TypeOK, WiresOK, Elems
  <2>2. wire[w][i] \in Lsus
    BY <2>1
  <2>3. PICK t \in 0..255 : t = wire[w][i].ttl
    BY <2>2 DEF Lsus
  <2>4. t + rank[w] >= TTL + 1 /\ rank[w] \in 1..Cardinality(Routers) /\ TTL \in Nat
    BY <2>1, <2>3 DEF Climbed, LoopsLeadThroughOrigin, FloodingAssumption
  <2>5. PICK high \in 1..Cardinality(Routers) : high = rank[w]
    BY <2>4
  <2>6. TTL < t + Cardinality(Routers)
    BY <1>0, <2>4, <2>5
  <2> QED
    BY <2>3, <2>6
<1> QED
  BY <1>1, <1>2, <1>3, FloodingInvariant, PTL DEF Spec
=============================================================================
