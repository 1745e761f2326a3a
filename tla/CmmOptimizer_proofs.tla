------------------------ MODULE CmmOptimizer_proofs -------------------------
(***************************************************************************)
(* Proofs about CmmOptimizer: the homes of the variables are disjoint, for *)
(* every set of generated functions, every list of flags and any number of *)
(* registers.                                                              *)
(*                                                                         *)
(* The code.  Every pass keeps the list well formed and free of new        *)
(* symbols: it begins with enter, ends with ret, a jump has its label, and *)
(* a result is only retrieved into its own temporary (CodeInv).            *)
(*                                                                         *)
(* Liveness.  calculateDefAndUse, deadCodeEliminate and reg_alloc each go  *)
(* backwards over the list; that the function they compute exists and      *)
(* satisfies its equation at every quad is BackwardsExists.  With a        *)
(* solution of the equations of the live sets, what is live before a block *)
(* after the dead code is gone is in its live set (DeadCodeIsCovered): so  *)
(* the sets computed before the elimination are still good for the         *)
(* interference graph (Covered).                                           *)
(*                                                                         *)
(* Colouring.  A variable that gets a register is free of its neighbours'  *)
(* (Proper), and an edge leads from what a quad defines to whatever is     *)
(* live after it.  Hence a run finds in the register of a live variable    *)
(* what was last stored for it (RunInv): a quad that stores another        *)
(* variable there defines one that is live together with it.               *)
(*                                                                         *)
(* The frame.  The places grow downwards from $fp: a new one lies below    *)
(* all earlier ones, at a multiple of its width (LayoutInv).               *)
(*                                                                         *)
(* The invariant is CInv; each group of actions has a lemma for each part  *)
(* of it that it can disturb.                                              *)
(*                                                                         *)
(* Runs of the code.  A step of a pass leaves a list that does, on every   *)
(* machine (CmmMachine), what the list before it does: the peephole        *)
(* (PeepholeKeepsRuns), copy propagation where the two sides of the copy   *)
(* stay equal (CopyPropagateKeepsRuns), and the elimination of dead code   *)
(* but for the cells of dead locals (DeadCodeKeepsRuns), for which an      *)
(* address must be computed in the block that stores through it            *)
(* (CompilerAddressesAreComputed).                                         *)
(***************************************************************************)
EXTENDS CmmOptimizer, CmmMachine, WellFoundedInduction, TLAPS

(***************************************************************************)
(* Numbers, and functions given backwards.                                 *)
(***************************************************************************)
(* Every nonempty set of natural numbers has a least element.              *)
LEMMA NatMin ==
  ASSUME NEW S \in SUBSET Nat, S # {}
  PROVE  \E m \in S : \A k \in S : m <= k
<1>1. PICK m \in S : \A k \in S : ~ (<<k, m>> \in OpToRel(<, Nat))
  BY NatLessThanWellFounded, WFMin
<1>2. \A k \in S : ~ (k < m)
  BY <1>1 DEF OpToRel
<1> QED
  BY <1>2

(* The least member of a set of numbers that is bounded below.             *)
LEMMA MinIsLeast ==
  ASSUME NEW S \in SUBSET Int, S # {}, NEW B \in Int, \A x \in S : B <= x
  PROVE  Min(S) \in S /\ \A x \in S : Min(S) <= x
<1> DEFINE T == {n \in Nat : B + n \in S}
<1>1. T # {}
  <2>1. PICK x \in S : TRUE
    OBVIOUS
  <2>2. x \in Int /\ B <= x
    BY <2>1
  <2>3. x - B \in Nat /\ B + (x - B) = x
    BY <2>2
  <2> QED
    BY <2>3
<1>2. PICK n \in T : \A k \in T : n <= k
  <2>1. T \in SUBSET Nat
    OBVIOUS
  <2> HIDE DEF T
  <2> QED
    BY <1>1, <2>1, NatMin
<1>3. ASSUME NEW x \in S PROVE B + n <= x
  <2>1. x \in Int /\ B <= x
    OBVIOUS
  <2>2. x - B \in Nat /\ B + (x - B) = x
    BY <2>1
  <2>3. x - B \in T
    BY <2>2
  <2>4. n \in Nat /\ n <= x - B
    BY <1>2, <2>3
  <2> QED
    BY <2>1, <2>4
<1>4. B + n \in S
  BY <1>2
<1> QED
  BY <1>3, <1>4 DEF Min

(* The same for natural numbers.                                           *)
LEMMA MinOfNats ==
  ASSUME NEW S \in SUBSET Nat, S # {}
  PROVE  Min(S) \in S /\ \A x \in S : Min(S) <= x
BY MinIsLeast

(* Induction backwards: where something fails for the last time.           *)
LEMMA LastOne ==
  ASSUME NEW N \in Nat, NEW S \in SUBSET (1..N), S # {}
  PROVE  \E i \in S : i + 1 \notin S
<1> DEFINE T == {n \in Nat : N - n \in S}
<1>1. T # {}
  <2>1. PICK i \in S : TRUE
    OBVIOUS
  <2>2. i \in 1..N
    OBVIOUS
  <2>3. N - i \in Nat /\ N - (N - i) = i
    BY <2>2
  <2> QED
    BY <2>1, <2>3
<1>2. PICK n \in T : \A k \in T : n <= k
  <2>1. T \in SUBSET Nat
    OBVIOUS
  <2> HIDE DEF T
  <2> QED
    BY <1>1, <2>1, NatMin
<1>3. n \in Nat /\ N - n \in S /\ N - n \in 1..N
  BY <1>2
<1>4. ASSUME N - n + 1 \in S PROVE FALSE
  <2>1. N - n + 1 \in 1..N
    BY <1>4
  <2>2. n - 1 \in Nat /\ N - (n - 1) = N - n + 1
    BY <1>3, <2>1
  <2>3. n - 1 \in T
    BY <1>4, <2>2
  <2> QED
    BY <1>2, <1>3, <2>3
<1> QED
  BY <1>3, <1>4

(* A function on the quads of a list that is given at the ends of blocks,  *)
(* and elsewhere by its value at the next quad.                            *)
Backwards(N, S, End, E, G, f) ==
  /\ f \in [1..N -> S]
  /\ \A i \in 1..N : f[i] = IF End[i] THEN E[i] ELSE G[<<i, f[i + 1]>>]

(* A function given by its value at the ends and by a step from the next   *)
(* place exists on 1..N.                                                   *)
LEMMA BackwardsExists ==
  ASSUME NEW N \in Nat, NEW S, NEW End \in [1..N -> BOOLEAN], N > 0 => End[N],
         NEW E \in [1..N -> S], NEW G \in [(1..N) \X S -> S]
  PROVE  \E f : Backwards(N, S, End, E, G, f)
<1> DEFINE Good(m, f) == \A i \in m..N : f[i] = IF End[i] THEN E[i] ELSE G[<<i, f[i + 1]>>]
           Bad == {m \in 1..N : ~ \E f \in [m..N -> S] : Good(m, f)}
<1>1. ASSUME Bad # {} PROVE FALSE
  <2>1. PICK m \in Bad : m + 1 \notin Bad
    <3>1. Bad \in SUBSET (1..N)
      OBVIOUS
    <3> HIDE DEF Bad
    <3> QED
      BY <1>1, <3>1, LastOne
  <2>2. m \in 1..N
    BY <2>1
  <2>3. CASE m = N
    <3> DEFINE g == [i \in m..N |-> E[i]]
    <3>1. \A i \in m..N : i = N /\ i \in 1..N
      BY <2>2, <2>3
    <3>2. End[N]
      BY <2>2
    <3>3. g \in [m..N -> S]
      BY <3>1
    <3>4. Good(m, g)
      BY <3>1, <3>2
    <3> HIDE DEF g, Good
    <3> QED
      BY <2>1, <3>3, <3>4
  <2>4. CASE m # N
    <3>1. m + 1 \in 1..N
      BY <2>2, <2>4
    <3>2. PICK f \in [m + 1..N -> S] : Good(m + 1, f)
      BY <2>1, <3>1
    <3> DEFINE v == IF End[m] THEN E[m] ELSE G[<<m, f[m + 1]>>]
               g == [i \in m..N |-> IF i = m THEN v ELSE f[i]]
    <3>3. v \in S
      <4>1. m + 1 \in m + 1..N
        BY <2>2, <3>1
      <4>2. f[m + 1] \in S
        BY <3>2, <4>1
      <4>3. <<m, f[m + 1]>> \in (1..N) \X S
        BY <2>2, <4>2
      <4> QED
        BY <2>2, <4>3
    <3>4. \A i \in m..N : i # m => i \in m + 1..N
      BY <2>2
    <3>5. g \in [m..N -> S]
      <4> HIDE DEF v
      <4> QED
        BY <3>2, <3>3, <3>4
    <3>6. ASSUME NEW i \in m..N PROVE g[i] = IF End[i] THEN E[i] ELSE G[<<i, g[i + 1]>>]
      <4>1. CASE i = N
        <5>1. End[i] /\ i # m
          BY <2>2, <2>4, <4>1
        <5>2. i \in m + 1..N
          BY <3>4, <5>1
        <5> QED
          BY <3>2, <5>1, <5>2
      <4>2. CASE i # N
        <5>1. i + 1 \in m..N /\ i + 1 # m
          BY <2>2, <4>2
        <5>2. g[i + 1] = f[i + 1]
          BY <5>1
        <5>3. CASE i = m
          BY <5>2, <5>3
        <5>4. CASE i # m
          <6>1. i \in m + 1..N
            BY <3>4, <5>4
          <6>2. g[i] = f[i]
            BY <5>4
          <6> QED
            BY <3>2, <5>2, <6>1, <6>2
        <5> QED
          BY <5>3, <5>4
      <4> QED
        BY <4>1, <4>2
    <3> HIDE DEF g
    <3>7. Good(m, g)
      BY <3>6
    <3> HIDE DEF Good
    <3> QED
      BY <2>1, <3>5, <3>7
  <2> QED
    BY <2>3, <2>4
<1>2. CASE N = 0
  <2> DEFINE g == [i \in 1..N |-> E[i]]
  <2>1. 1..N = {}
    BY <1>2
  <2>2. Backwards(N, S, End, E, G, g)
    BY <2>1 DEF Backwards
  <2> QED
    BY <2>2
<1>3. CASE N # 0
  <2>1. 1 \in 1..N
    BY <1>3
  <2>2. PICK f \in [1..N -> S] : Good(1, f)
    BY <1>1, <2>1
  <2> QED
    BY <2>2 DEF Backwards
<1> QED
  BY <1>2, <1>3
-----------------------------------------------------------------------------
(***************************************************************************)
(* Quads, and what a pass must keep of them.                               *)
(***************************************************************************)
CodeOK(c, A) == WellFormed(c) /\ AllSymbols(c) \subseteq A

SameControl(q, r) ==
  /\ q.op \in Control \/ r.op \in Control => r.op = q.op
  /\ q.op \in Jumps => r.dst.i = q.dst.i
  /\ q.op = "label" => r.src1.i = q.src1.i

(* The operands of a quad, and its symbols.                                *)
LEMMA QuadFields ==
  ASSUME NEW q \in Quads
  PROVE  /\ q.src1 \in Operands /\ q.src2 \in Operands /\ q.dst \in Operands
         /\ q.isLeader \in BOOLEAN
         /\ SymbolsIn(q) \subseteq Symbols
BY DEF Quads, Operands, SymbolsIn, SymbolIn, Jumps, Ifs, Ariths

(* The operand that is left empty.                                         *)
LEMMA NullIsOperand == Null \in Operands /\ SymbolIn(Null) = {} /\ Null.k = "null"
BY DEF Null, Operands, NoSym, Symbols, SymbolIn

(* A list of quads, and one that hands on control the same way.            *)
LEMMA CodeIsList ==
  ASSUME NEW c, NEW A, CodeOK(c, A)
  PROVE  /\ Len(c) \in Nat \ {0} /\ DOMAIN c = 1..Len(c) /\ c \in [1..Len(c) -> Quads]
         /\ \A i \in DOMAIN c : c[i] \in Quads /\ QuadOK(c[i]) /\ SymbolsIn(c[i]) \subseteq A
         /\ 1 \in DOMAIN c /\ Len(c) \in DOMAIN c /\ c[1].op = "enter" /\ c[Len(c)].op = "ret"
         /\ JumpsHaveLabels(c) /\ LabelsOnce(c)
<1>1. c \in Seq(Quads) /\ c # <<>>
  BY DEF CodeOK, WellFormed
<1>2. Len(c) \in Nat \ {0} /\ DOMAIN c = 1..Len(c) /\ c \in [1..Len(c) -> Quads]
  BY <1>1
<1>3. 1 \in 1..Len(c) /\ Len(c) \in 1..Len(c)
  BY <1>2
<1> QED
  BY <1>1, <1>2, <1>3 DEF CodeOK, WellFormed, AllSymbols

(* A list that hands on control like a well formed one is well formed.     *)
LEMMA SameControlOK ==
  ASSUME NEW c, NEW A, CodeOK(c, A), NEW d \in [DOMAIN c -> Quads],
         \A i \in DOMAIN c : QuadOK(d[i]) /\ SymbolsIn(d[i]) \subseteq A /\ SameControl(c[i], d[i])
  PROVE  CodeOK(d, A) /\ Len(d) = Len(c)
<1>1. PICK n \in Nat \ {0} : n = Len(c)
  BY CodeIsList
<1>2. /\ c \in Seq(Quads) /\ DOMAIN c = 1..n /\ 1 \in DOMAIN c /\ n \in DOMAIN c
      /\ c[1].op = "enter" /\ c[n].op = "ret" /\ JumpsHaveLabels(c)
  BY <1>1, CodeIsList DEF CodeOK, WellFormed
<1>3. d \in Seq(Quads) /\ Len(d) = n /\ DOMAIN d = DOMAIN c
  BY <1>1, <1>2
<1>4. d # <<>>
  BY <1>2, <1>3
<1>5. d[1].op = "enter" /\ d[Len(d)].op = "ret"
  BY <1>2, <1>3 DEF SameControl, Control
<1>6. JumpsHaveLabels(d)
  <2> SUFFICES ASSUME NEW i \in DOMAIN c, d[i].op \in Jumps
               PROVE  \E j \in DOMAIN c : d[j].op = "label" /\ d[j].src1.i = d[i].dst.i
    BY <1>3 DEF JumpsHaveLabels
  <2>1. c[i].op \in Jumps /\ d[i].dst.i = c[i].dst.i
    BY DEF SameControl, Control
  <2>2. PICK j \in DOMAIN c : c[j].op = "label" /\ c[j].src1.i = c[i].dst.i
    BY <1>2, <2>1 DEF JumpsHaveLabels
  <2> QED
    BY <2>1, <2>2 DEF SameControl, Control
<1>7. AllSymbols(d) \subseteq A
  BY <1>3 DEF AllSymbols
<1>8. LabelsOnce(d)
  <2>1. \A k \in DOMAIN c : d[k].op = "label" => c[k].op = "label" /\ c[k].src1.i = d[k].src1.i
    BY DEF SameControl, Control
  <2>2. LabelsOnce(c)
    BY CodeIsList
  <2> QED
    BY <1>3, <2>1, <2>2 DEF LabelsOnce
<1> QED
  BY <1>1, <1>3, <1>4, <1>5, <1>6, <1>7, <1>8 DEF CodeOK, WellFormed

(***************************************************************************)
(* The passes keep the code well formed, with symbols of the function.     *)
(***************************************************************************)
(* What the peephole makes of an arithmetic quad (peephole_optimize,       *)
(* codegen.c:1751).                                                        *)
LEMMA SimplifyOK ==
  ASSUME NEW q, QuadOK(q)
  PROVE  /\ QuadOK(Simplify(q)) /\ SymbolsIn(Simplify(q)) \subseteq SymbolsIn(q)
         /\ SameControl(q, Simplify(q))
<1> DEFINE M(src) == AsMove(q, src)
           N == [q EXCEPT !.op = "neg", !.src1 = q.src2, !.src2 = Null]
<1>1. CASE q.op \notin Ariths
  <2>1. Simplify(q) = q
    BY <1>1 DEF Simplify, Ariths
  <2> QED
    BY <2>1 DEF SameControl
<1>2. CASE q.op \in Ariths
  <2>1. Simplify(q) \in {M(q.src1), M(q.src2), N, q}
    BY DEF Simplify
  <2>2. q \in Quads
    BY DEF QuadOK
  <2>3. ASSUME NEW o \in {q.src1, q.src2}
        PROVE  QuadOK(M(o)) /\ SymbolsIn(M(o)) \subseteq SymbolsIn(q) /\ SameControl(q, M(o))
    <3>1. /\ M(o).op = "move" /\ M(o).src1 = o /\ M(o).src2 = Null /\ M(o).dst = q.dst
          /\ M(o) \in Quads
      BY <2>2, NullIsOperand DEF AsMove, Quads
    <3>2. QuadOK(M(o))
      BY <1>2, <3>1, NullIsOperand DEF QuadOK, Ariths, Null
    <3>3. SymbolsIn(M(o)) \subseteq SymbolsIn(q)
      BY <3>1, NullIsOperand DEF SymbolsIn
    <3>4. SameControl(q, M(o))
      BY <1>2, <3>1 DEF SameControl, Control, Jumps, Ifs, Ariths
    <3> QED
      BY <3>2, <3>3, <3>4
  <2>4. QuadOK(N) /\ SymbolsIn(N) \subseteq SymbolsIn(q) /\ SameControl(q, N)
    <3>1. /\ N.op = "neg" /\ N.src1 = q.src2 /\ N.src2 = Null /\ N.dst = q.dst
          /\ N \in Quads
      BY <2>2, NullIsOperand DEF Quads
    <3>2. QuadOK(N)
      BY <1>2, <3>1, NullIsOperand DEF QuadOK, Ariths, Null
    <3>3. SymbolsIn(N) \subseteq SymbolsIn(q)
      BY <3>1, NullIsOperand DEF SymbolsIn
    <3>4. SameControl(q, N)
      BY <1>2, <3>1 DEF SameControl, Control, Jumps, Ifs, Ariths
    <3> QED
      BY <3>2, <3>3, <3>4
  <2>5. QuadOK(q) /\ SameControl(q, q)
    BY DEF SameControl
  <2> HIDE DEF M, N
  <2> QED
    BY <2>1, <2>3, <2>4, <2>5
<1> QED
  BY <1>1, <1>2

(* The list with one quad simplified.                                      *)
LEMMA SimplifiedCodeOK ==
  ASSUME NEW c, NEW A, CodeOK(c, A), NEW i \in DOMAIN c
  PROVE  CodeOK([c EXCEPT ![i] = Simplify(@)], A)
<1> DEFINE d == [c EXCEPT ![i] = Simplify(@)]
<1>1. \A j \in DOMAIN c : QuadOK(c[j]) /\ SymbolsIn(c[j]) \subseteq A /\ c[j] \in Quads
  BY CodeIsList
<1>2. c \in [DOMAIN c -> Quads]
  BY CodeIsList
<1>3. QuadOK(Simplify(c[i])) /\ Simplify(c[i]) \in Quads
  BY <1>1, SimplifyOK DEF QuadOK
<1>4. d \in [DOMAIN c -> Quads]
  BY <1>2, <1>3
<1>5. \A j \in DOMAIN c : d[j] = IF j = i THEN Simplify(c[i]) ELSE c[j]
  BY <1>2
<1>6. \A j \in DOMAIN c : QuadOK(d[j]) /\ SymbolsIn(d[j]) \subseteq A /\ SameControl(c[j], d[j])
  <2> HIDE DEF d
  <2>1. \A j \in DOMAIN c : SameControl(c[j], c[j])
    BY DEF SameControl
  <2>2. SymbolsIn(Simplify(c[i])) \subseteq A /\ SameControl(c[i], Simplify(c[i]))
    BY <1>1, SimplifyOK
  <2> QED
    BY <1>1, <1>3, <1>5, <2>1, <2>2
<1> QED
  <2> HIDE DEF d
  <2>1. CodeOK(d, A)
    BY <1>4, <1>6, SameControlOK
  <2> QED
    BY <2>1 DEF d

(* The list with a jump over a goto turned round (codegen.c:1705): the     *)
(* label that the goto led to is still there.                              *)
LEMMA WithoutGotoOK ==
  ASSUME NEW c, NEW A, CodeOK(c, A), NEW i \in DOMAIN c, JumpsOverGoto(c, i)
  PROVE  CodeOK(WithoutGoto(c, i), A)
<1> DEFINE d == WithoutGoto(c, i)
           first == [c[i] EXCEPT !.op = Negation[@], !.dst = c[i + 1].dst]
<1>1. PICK n \in Nat \ {0} : n = Len(c)
  BY CodeIsList
<1>2. /\ c \in Seq(Quads) /\ DOMAIN c = 1..n /\ 1 \in DOMAIN c
      /\ c[1].op = "enter" /\ c[n].op = "ret" /\ JumpsHaveLabels(c)
      /\ \A j \in DOMAIN c : QuadOK(c[j]) /\ SymbolsIn(c[j]) \subseteq A /\ c[j] \in Quads
  BY <1>1, CodeIsList DEF CodeOK, WellFormed
<1>3. i \in 1..n /\ i + 2 <= n /\ c[i].op \in Ifs /\ c[i + 1].op = "goto" /\ c[i + 2].op = "label"
  BY <1>1, <1>2 DEF JumpsOverGoto
<1>4. i # 1 /\ i + 1 \in DOMAIN c /\ n - 1 \in Nat \ {0} /\ i \in 1..n - 1 /\ i < n - 1
  <2>1. i # 1
    BY <1>2, <1>3 DEF Ifs
  <2> QED
    BY <1>2, <1>3, <2>1
<1>5. /\ first \in Quads /\ QuadOK(first) /\ SymbolsIn(first) \subseteq A
      /\ first.op \in Ifs /\ first.dst = c[i + 1].dst
  <2>1. Negation[c[i].op] \in Ifs
    BY <1>3 DEF Negation, Ifs
  <2>2. c[i] \in Quads /\ c[i + 1] \in Quads
    BY <1>2, <1>4
  <2>3. /\ first.op = Negation[c[i].op] /\ first.src1 = c[i].src1 /\ first.src2 = c[i].src2
        /\ first.dst = c[i + 1].dst /\ first \in Quads
    <3>1. c[i + 1].dst \in Operands
      BY <2>2 DEF Quads
    <3> HIDE DEF Negation
    <3> QED
      BY <2>1, <2>2, <3>1 DEF Quads, Jumps
  <2> HIDE DEF first
  <2>4. first.op \in Ifs
    BY <2>1, <2>3
  <2>5. QuadOK(first)
    BY <1>2, <1>4, <2>3, <2>4 DEF QuadOK, Ifs, Ariths
  <2>6. SymbolsIn(first) \subseteq SymbolsIn(c[i]) \cup SymbolsIn(c[i + 1])
    BY <2>3 DEF SymbolsIn
  <2> QED
    BY <1>2, <1>4, <2>3, <2>4, <2>5, <2>6
<1>6. /\ d = [j \in 1..n - 1 |-> IF j = i THEN first ELSE IF j < i THEN c[j] ELSE c[j + 1]]
  BY <1>1 DEF WithoutGoto
<1>7. \A j \in 1..n - 1 : j \in DOMAIN c /\ j + 1 \in DOMAIN c
  BY <1>2
<1> HIDE DEF first, d
<1>8. d \in [1..n - 1 -> Quads]
  BY <1>2, <1>5, <1>6, <1>7
<1>9. d \in Seq(Quads) /\ Len(d) = n - 1 /\ DOMAIN d = 1..n - 1
  BY <1>4, <1>8
<1>10. \A j \in 1..n - 1 : QuadOK(d[j]) /\ SymbolsIn(d[j]) \subseteq A
  BY <1>2, <1>5, <1>6, <1>7
<1>11. d[1].op = "enter" /\ d[n - 1].op = "ret"
  <2>1. 1 \in 1..n - 1 /\ n - 1 \in 1..n - 1 /\ 1 < i /\ ~ (n - 1 < i) /\ n - 1 # i /\ (n - 1) + 1 = n
    BY <1>3, <1>4
  <2>2. d[1] = c[1] /\ d[n - 1] = c[n]
    BY <1>6, <2>1
  <2> QED
    BY <1>2, <2>2
<1>12. ASSUME NEW j \in DOMAIN c, c[j].op = "label"
       PROVE  \E k \in 1..n - 1 : d[k] = c[j]
  <2>1. j \in 1..n /\ j # i /\ j # i + 1
    BY <1>2, <1>3, <1>12 DEF Ifs
  <2>2. CASE j < i
    <3>1. j \in 1..n - 1
      BY <1>3, <2>1, <2>2
    <3> QED
      BY <1>6, <2>1, <2>2, <3>1
  <2>3. CASE ~ (j < i)
    <3>1. j - 1 \in 1..n - 1 /\ j - 1 # i /\ ~ (j - 1 < i) /\ (j - 1) + 1 = j
      BY <1>3, <2>1, <2>3
    <3>2. d[j - 1] = c[j]
      BY <1>6, <3>1
    <3> QED
      BY <3>1, <3>2
  <2> QED
    BY <2>2, <2>3
<1>13. ASSUME NEW j \in 1..n - 1, d[j].op \in Jumps
       PROVE  \E k \in DOMAIN c : c[k].op \in Jumps /\ c[k].dst = d[j].dst
  <2>1. CASE j = i
    BY <1>3, <1>4, <1>5, <1>6, <2>1 DEF Jumps
  <2>2. CASE j # i
    BY <1>6, <1>7, <1>13, <2>2
  <2> QED
    BY <2>1, <2>2
<1>14. JumpsHaveLabels(d)
  <2> SUFFICES ASSUME NEW j \in 1..n - 1, d[j].op \in Jumps
               PROVE  \E k \in 1..n - 1 : d[k].op = "label" /\ d[k].src1.i = d[j].dst.i
    BY <1>9 DEF JumpsHaveLabels
  <2>1. PICK k \in DOMAIN c : c[k].op \in Jumps /\ c[k].dst = d[j].dst
    BY <1>13
  <2>2. PICK l \in DOMAIN c : c[l].op = "label" /\ c[l].src1.i = c[k].dst.i
    BY <1>2, <2>1 DEF JumpsHaveLabels
  <2> QED
    BY <1>12, <2>1, <2>2
<1>15. d # <<>>
  BY <1>4, <1>9
<1>16. AllSymbols(d) \subseteq A
  BY <1>9, <1>10 DEF AllSymbols
<1>17. LabelsOnce(d)
  <2>1. ASSUME NEW j \in 1..n - 1, d[j].op = "label"
        PROVE  \E k \in DOMAIN c : /\ k = (IF j < i THEN j ELSE j + 1)
                                   /\ c[k].op = "label" /\ c[k].src1 = d[j].src1
    <3>1. j # i
      BY <1>3, <1>5, <1>6, <2>1 DEF Ifs
    <3> QED
      BY <1>6, <1>7, <2>1, <3>1
  <2> SUFFICES ASSUME NEW j \in 1..n - 1, NEW k \in 1..n - 1, d[j].op = "label", d[k].op = "label",
                      d[j].src1.i = d[k].src1.i
               PROVE  j = k
    BY <1>9 DEF LabelsOnce
  <2>2. (IF j < i THEN j ELSE j + 1) = (IF k < i THEN k ELSE k + 1)
    BY <2>1, CodeIsList DEF LabelsOnce
  <2>3. i \in Nat /\ j \in Nat /\ k \in Nat
    BY <1>3
  <2> QED
    BY <2>2, <2>3
<1> QED
  <2>1. CodeOK(d, A)
    BY <1>9, <1>10, <1>11, <1>14, <1>15, <1>16, <1>17 DEF CodeOK, WellFormed
  <2> QED
    BY <2>1 DEF d

(* A quad in which a copy was propagated.                                  *)
LEMMA ReplacedOK ==
  ASSUME NEW A, OneSymbolPerName(A),
         NEW p, QuadOK(p), SymbolsIn(p) \subseteq A, p.op = "move",
         NEW q, QuadOK(q), SymbolsIn(q) \subseteq A
  PROVE  LET r == Replaced(q, p.dst, p.src1)
         IN  QuadOK(r) /\ SymbolsIn(r) \subseteq A /\ SameControl(q, r)
<1> DEFINE Src(o) == IF operands_compare(p.dst, o) THEN p.src1 ELSE o
           r == Replaced(q, p.dst, p.src1)
<1>1. /\ p.src1 \in Operands /\ p.dst \in Operands
      /\ q \in Quads /\ q.src1 \in Operands /\ q.src2 \in Operands
  BY QuadFields DEF QuadOK
<1>2. /\ r.op = q.op /\ r.dst = q.dst /\ r.isLeader = q.isLeader
      /\ r.src1 = Src(q.src1) /\ r.src2 = Src(q.src2)
      /\ r \in Quads
  <2>1. Src(q.src1) \in Operands /\ Src(q.src2) \in Operands
    BY <1>1
  <2>2. r = [q EXCEPT !.src1 = Src(q.src1), !.src2 = Src(q.src2)]
    BY DEF Replaced
  <2> HIDE DEF Src, r
  <2> QED
    BY <1>1, <2>1, <2>2 DEF Quads
<1>3. \A o \in {q.src1, q.src2} : Src(o) # o => p.dst.k = "sym" /\ o.k = "sym" /\ o.s = p.dst.s
  <2> SUFFICES ASSUME NEW o \in {q.src1, q.src2}, operands_compare(p.dst, o)
               PROVE  p.dst.k = "sym" /\ o.k = "sym" /\ o.s = p.dst.s
    OBVIOUS
  <2>1. p.dst.k = "sym" /\ o.k = "sym" /\ o.s.id = p.dst.s.id
    BY DEF operands_compare
  <2>2. o.s \in A /\ p.dst.s \in A
    BY <2>1 DEF SymbolsIn, SymbolIn
  <2> QED
    BY <2>1, <2>2 DEF OneSymbolPerName
<1>4. \A o \in {q.src1, q.src2} : Src(o) \in {o, p.src1}
  OBVIOUS
<1> HIDE DEF Src, r
<1>5. SymbolsIn(r) \subseteq A
  BY <1>2, <1>4 DEF SymbolsIn
<1>6. q.op = "retrieve" => Src(q.src1) = q.src1
  BY <1>3 DEF QuadOK
<1>7. q.op \in {"label", "call"} => Src(q.src1) = q.src1
  BY <1>3 DEF QuadOK
<1>8. q.op \in {"move", "neg", "param", "ret"} => Src(q.src2) = q.src2
  BY <1>3 DEF QuadOK
<1>9. QuadOK(r)
  <2>1. \A o \in {r.src1, r.src2, r.dst} : o.k = "deref" => o.s.type = "addr"
    BY <1>2, <1>4 DEF QuadOK
  <2> QED
    BY <1>2, <1>6, <1>7, <1>8, <2>1 DEF QuadOK
<1>10. SameControl(q, r)
  BY <1>2, <1>7 DEF SameControl
<1> QED
  BY <1>5, <1>9, <1>10 DEF r

(* The list in which a copy was propagated (copy_propagate,                *)
(* codegen.c:1819).                                                        *)
LEMMA CopyPropagateOK ==
  ASSUME NEW c, NEW A, CodeOK(c, A), OneSymbolPerName(A), NEW i \in DOMAIN c, c[i].op = "move"
  PROVE  CodeOK(copy_propagate(c, i), A)
<1> DEFINE lhs == c[i].dst
           rhs == c[i].src1
           stop == Min({j \in i + 1..Len(c) : Stops(c[j], lhs, rhs)} \cup {Len(c) + 1})
           d == copy_propagate(c, i)
<1>1. \A j \in DOMAIN c : QuadOK(c[j]) /\ SymbolsIn(c[j]) \subseteq A /\ c[j] \in Quads
  BY CodeIsList
<1>2. \A j \in DOMAIN c : LET r == Replaced(c[j], lhs, rhs)
                          IN  QuadOK(r) /\ SymbolsIn(r) \subseteq A /\ SameControl(c[j], r)
  BY <1>1, ReplacedOK
<1>3. /\ DOMAIN d = DOMAIN c
      /\ d = [j \in DOMAIN c |-> d[j]]
      /\ \A j \in DOMAIN c : d[j] \in {Replaced(c[j], lhs, rhs), c[j]}
  <2> HIDE DEF lhs, rhs, stop
  <2>1. d = [j \in DOMAIN c |-> IF j \in i + 1..stop - 1 /\ ~ Skipped(c[j], lhs)
                                THEN Replaced(c[j], lhs, rhs) ELSE c[j]]
    BY DEF copy_propagate, lhs, rhs, stop
  <2> HIDE DEF d
  <2> QED
    BY <2>1
<1> HIDE DEF d, lhs, rhs
<1>4. \A j \in DOMAIN c : QuadOK(d[j]) /\ SymbolsIn(d[j]) \subseteq A /\ SameControl(c[j], d[j])
  <2>1. \A j \in DOMAIN c : SameControl(c[j], c[j])
    BY DEF SameControl
  <2> QED
    BY <1>1, <1>2, <1>3, <2>1
<1>5. d \in [DOMAIN c -> Quads]
  BY <1>3, <1>4 DEF QuadOK
<1>6. CodeOK(d, A)
  BY <1>4, <1>5, SameControlOK
<1> QED
  BY <1>6 DEF d

(* Where a label is depends on how a list hands on control only.           *)
LEMMA SameLabels ==
  ASSUME NEW c, NEW d, DOMAIN d = DOMAIN c, \A i \in DOMAIN c : SameControl(c[i], d[i]), NEW l
  PROVE  LabelAt(d, l) = LabelAt(c, l)
<1>1. \A i \in DOMAIN c : d[i].op = "label" /\ d[i].src1.i = l <=> c[i].op = "label" /\ c[i].src1.i = l
  BY DEF SameControl, Control
<1> QED
  BY <1>1 DEF LabelAt

(* A jump leads to a label of the list.                                    *)
LEMMA LabelIsThere ==
  ASSUME NEW c, NEW A, CodeOK(c, A), NEW i \in DOMAIN c, c[i].op \in Jumps
  PROVE  LabelAt(c, c[i].dst.i) \in DOMAIN c
<1>1. \E j \in DOMAIN c : c[j].op = "label" /\ c[j].src1.i = c[i].dst.i
  BY CodeIsList DEF JumpsHaveLabels
<1> QED
  BY <1>1 DEF LabelAt

(* The first quad, the target of a jump and the quad after it lead blocks. *)
Marked(c) ==
  /\ 1 \in Leaders(c)
  /\ \A i \in DOMAIN c : c[i].op \in Jumps => LabelAt(c, c[i].dst.i) \in Leaders(c) /\ i + 1 \in Leaders(c)

(* The list with its leaders marked (live_analysis, codegen.c:1889).       *)
LEMMA MarkLeadersOK ==
  ASSUME NEW c, NEW A, CodeOK(c, A)
  PROVE  CodeOK(MarkLeaders(c), A) /\ Marked(MarkLeaders(c))
<1> DEFINE targets == {LabelAt(c, c[i].dst.i) : i \in {j \in DOMAIN c : c[j].op \in Jumps}}
           after == {i \in DOMAIN c : i > 1 /\ c[i - 1].op \in Jumps}
           L(i) == c[i].isLeader \/ i \in targets \cup after \/ c[i].op = "enter"
           d == MarkLeaders(c)
<1>1. \A j \in DOMAIN c : QuadOK(c[j]) /\ SymbolsIn(c[j]) \subseteq A /\ c[j] \in Quads
  BY CodeIsList
<1>2. d = [i \in DOMAIN c |-> [c[i] EXCEPT !.isLeader = L(i)]]
  BY DEF MarkLeaders
<1>3. \A i \in DOMAIN c : L(i) \in BOOLEAN
  <2> HIDE DEF targets, after
  <2>1. \A i \in DOMAIN c : c[i].isLeader \in BOOLEAN
    BY <1>1 DEF Quads
  <2> QED
    BY <2>1
<1>4. DOMAIN d = DOMAIN c /\ d = [j \in DOMAIN c |-> d[j]]
  BY <1>2
<1>5. \A i \in DOMAIN c : /\ d[i].op = c[i].op /\ d[i].src1 = c[i].src1 /\ d[i].src2 = c[i].src2
                          /\ d[i].dst = c[i].dst /\ d[i].isLeader = L(i) /\ d[i] \in Quads
  <2> SUFFICES ASSUME NEW i \in DOMAIN c
               PROVE  /\ d[i].op = c[i].op /\ d[i].src1 = c[i].src1 /\ d[i].src2 = c[i].src2
                      /\ d[i].dst = c[i].dst /\ d[i].isLeader = L(i) /\ d[i] \in Quads
    OBVIOUS
  <2>1. d[i] = [c[i] EXCEPT !.isLeader = L(i)]
    BY <1>2
  <2>2. c[i] \in Quads /\ L(i) \in BOOLEAN
    BY <1>1, <1>3
  <2> HIDE DEF d, L
  <2> QED
    BY <2>1, <2>2 DEF Quads
<1> HIDE DEF d
<1>6. \A i \in DOMAIN c : QuadOK(d[i]) /\ SymbolsIn(d[i]) \subseteq A /\ SameControl(c[i], d[i])
  <2>1. \A i \in DOMAIN c : SymbolsIn(d[i]) = SymbolsIn(c[i])
    BY <1>5 DEF SymbolsIn
  <2>2. \A i \in DOMAIN c : SameControl(c[i], d[i])
    BY <1>5 DEF SameControl
  <2>3. \A i \in DOMAIN c : QuadOK(d[i])
    BY <1>1, <1>5 DEF QuadOK
  <2> QED
    BY <1>1, <2>1, <2>2, <2>3
<1>7. d \in [DOMAIN c -> Quads]
  BY <1>4, <1>5
<1>8. CodeOK(d, A)
  BY <1>6, <1>7, SameControlOK
<1>9. 1 \in Leaders(d)
  <2>1. 1 \in DOMAIN c /\ c[1].op = "enter"
    BY CodeIsList
  <2> QED
    BY <1>4, <1>5, <2>1 DEF Leaders
<1>10. ASSUME NEW i \in DOMAIN d, d[i].op \in Jumps
       PROVE  LabelAt(d, d[i].dst.i) \in Leaders(d) /\ i + 1 \in Leaders(d)
  <2>1. i \in DOMAIN c /\ c[i].op \in Jumps /\ d[i].dst.i = c[i].dst.i
    BY <1>4, <1>5, <1>10
  <2>2. LabelAt(d, d[i].dst.i) = LabelAt(c, c[i].dst.i)
    <3>1. LabelAt(d, d[i].dst.i) = LabelAt(c, d[i].dst.i)
      BY <1>4, <1>6, SameLabels
    <3> QED
      BY <2>1, <3>1
  <2>3. LabelAt(c, c[i].dst.i) \in targets /\ LabelAt(c, c[i].dst.i) \in DOMAIN c
    BY <2>1, LabelIsThere
  <2>4. i + 1 \in after
    <3>1. PICK n \in Nat \ {0} : n = Len(c)
      BY CodeIsList
    <3>2. DOMAIN c = 1..n /\ c[n].op = "ret"
      BY <3>1, CodeIsList
    <3>3. i \in 1..n /\ i # n
      BY <2>1, <3>2 DEF Jumps, Ifs
    <3>4. i + 1 \in 1..n /\ i + 1 > 1 /\ (i + 1) - 1 = i
      BY <3>3
    <3> QED
      BY <2>1, <3>2, <3>4
  <2>5. i + 1 \in DOMAIN c
    BY <2>4
  <2> HIDE DEF targets, after
  <2> QED
    BY <1>4, <1>5, <2>2, <2>3, <2>4, <2>5 DEF Leaders
<1> QED
  <2>1. CodeOK(d, A) /\ Marked(d)
    BY <1>8, <1>9, <1>10 DEF Marked
  <2> QED
    BY <2>1 DEF d
(* What a quad writes and reads are local symbols of it.                   *)
LEMMA SymbolsOfQuad ==
  ASSUME NEW q \in Quads
  PROVE  /\ DstOf(q) \subseteq Symbols /\ SrcOf(q) \subseteq Symbols
         /\ DstOf(q) \subseteq SymbolsIn(q) /\ SrcOf(q) \subseteq SymbolsIn(q)
         /\ \A s \in DstOf(q) \cup SrcOf(q) : s.scope = "local"
         /\ Ids(DstOf(q)) \subseteq Int /\ Ids(SrcOf(q)) \subseteq Int
         /\ Scalars(DstOf(q)) \subseteq Ids(DstOf(q)) /\ Scalars(SrcOf(q)) \subseteq Ids(SrcOf(q))
<1>1. DstOf(q) \subseteq SymbolsIn(q) /\ SrcOf(q) \subseteq SymbolsIn(q)
  BY DEF DstOf, SrcOf, LocalOf, SymbolsIn
<1>2. \A s \in DstOf(q) \cup SrcOf(q) : s.scope = "local"
  BY DEF DstOf, SrcOf, LocalOf
<1>3. DstOf(q) \subseteq Symbols /\ SrcOf(q) \subseteq Symbols
  BY <1>1, QuadFields
<1>4. \A s \in Symbols : s.id \in Int
  BY DEF Symbols
<1> QED
  BY <1>1, <1>2, <1>3, <1>4 DEF Ids, Scalars

(* A pass that turns assignments into NOPs.                                *)
LEMMA DeadCodeOK ==
  ASSUME NEW c, NEW A, CodeOK(c, A), NEW live
  PROVE  LET d == deadCodeEliminate(c, live)
         IN  /\ CodeOK(d, A) /\ DOMAIN d = DOMAIN c /\ Len(d) = Len(c)
             /\ \A i \in DOMAIN c : SameControl(c[i], d[i]) /\ d[i].isLeader = c[i].isLeader
             /\ \A i \in DOMAIN c : IF IsDead(c[i], LiveAfter(c, live)[i])
                                    THEN d[i].op = "nop" ELSE d[i] = c[i]
<1> DEFINE d == deadCodeEliminate(c, live)
           D(i) == IsDead(c[i], LiveAfter(c, live)[i])
           nop(i) == [c[i] EXCEPT !.op = "nop"]
<1>1. \A j \in DOMAIN c : QuadOK(c[j]) /\ SymbolsIn(c[j]) \subseteq A /\ c[j] \in Quads
  BY CodeIsList
<1>2. d = [i \in DOMAIN c |-> IF D(i) THEN nop(i) ELSE c[i]]
  BY DEF deadCodeEliminate
<1>3. \A i \in DOMAIN c : D(i) => Defines(c[i])
  BY DEF IsDead, DstOf
<1>4. \A i \in DOMAIN c : /\ nop(i).op = "nop" /\ nop(i).src1 = c[i].src1 /\ nop(i).src2 = c[i].src2
                          /\ nop(i).dst = c[i].dst /\ nop(i).isLeader = c[i].isLeader /\ nop(i) \in Quads
  BY <1>1 DEF Quads
<1> HIDE DEF nop, D
<1>5. DOMAIN d = DOMAIN c /\ d \in [DOMAIN c -> Quads]
  BY <1>1, <1>2, <1>4
<1>6. \A i \in DOMAIN c : IF D(i) THEN d[i] = nop(i) ELSE d[i] = c[i]
  BY <1>2
<1> HIDE DEF d
<1>7. \A i \in DOMAIN c : QuadOK(d[i]) /\ SymbolsIn(d[i]) \subseteq A /\ SameControl(c[i], d[i])
  <2> SUFFICES ASSUME NEW i \in DOMAIN c
               PROVE  QuadOK(d[i]) /\ SymbolsIn(d[i]) \subseteq A /\ SameControl(c[i], d[i])
    OBVIOUS
  <2>1. CASE ~ D(i)
    BY <1>1, <1>6, <2>1 DEF SameControl
  <2>2. CASE D(i)
    <3>1. d[i] = nop(i)
      BY <1>6, <2>2
    <3>2. QuadOK(d[i])
      BY <1>1, <1>4, <3>1 DEF QuadOK, Ariths, Jumps, Ifs
    <3>3. SymbolsIn(d[i]) = SymbolsIn(c[i])
      BY <1>4, <3>1 DEF SymbolsIn
    <3>4. SameControl(c[i], d[i])
      BY <1>3, <1>4, <2>2, <3>1 DEF SameControl, Control, Jumps, Ifs, Defines, Ariths
    <3> QED
      BY <1>1, <3>2, <3>3, <3>4
  <2> QED
    BY <2>1, <2>2
<1>8. CodeOK(d, A) /\ Len(d) = Len(c)
  BY <1>5, <1>7, SameControlOK
<1>9. \A i \in DOMAIN c : /\ d[i].isLeader = c[i].isLeader
                          /\ IF D(i) THEN d[i].op = "nop" ELSE d[i] = c[i]
  BY <1>4, <1>6
<1> QED
  BY <1>5, <1>7, <1>8, <1>9 DEF d, D

(***************************************************************************)
(* Blocks and the live sets.                                               *)
(***************************************************************************)
Analysed(c, live) == Marked(c) /\ live \in [Leaders(c) -> SUBSET Int]

(* A quad that ends no block is followed by one of the same block.         *)
LEMMA Blocks ==
  ASSUME NEW c, NEW A, CodeOK(c, A)
  PROVE  /\ EndsBlock(c, Len(c))
         /\ \A i \in DOMAIN c : EndsBlock(c, i) \in BOOLEAN
         /\ \A i \in DOMAIN c : ~ EndsBlock(c, i) => i + 1 \in DOMAIN c
         /\ \A i \in DOMAIN c : EndsBlock(c, i) /\ i # Len(c) => i + 1 \in Leaders(c)
<1>1. PICK n \in Nat \ {0} : n = Len(c)
  BY CodeIsList
<1>2. DOMAIN c = 1..n
  BY <1>1, CodeIsList
<1>3. \A i \in 1..n : i # n => i + 1 \in 1..n
  OBVIOUS
<1>4. \A i \in DOMAIN c : c[i].isLeader \in BOOLEAN
  BY CodeIsList DEF Quads
<1> QED
  BY <1>1, <1>2, <1>3, <1>4 DEF EndsBlock, Leaders

(* What follows a block are leaders.                                       *)
LEMMA SuccessorsLead ==
  ASSUME NEW c, NEW A, CodeOK(c, A), NEW live, Analysed(c, live),
         NEW i \in DOMAIN c, EndsBlock(c, i)
  PROVE  Successors(c, i) \subseteq Leaders(c) /\ Out(c, live, i) \in SUBSET Int
<1>1. Successors(c, i) \subseteq Leaders(c)
  BY Blocks DEF Successors, Analysed, Marked
<1>2. \A b \in Leaders(c) : live[b] \subseteq Int
  BY DEF Analysed
<1> QED
  BY <1>1, <1>2 DEF Out

(* What is live before a quad, given what is live after each.              *)
Before(c, now, i) == (now[i] \ Scalars(DstOf(c[i]))) \cup Scalars(SrcOf(c[i]))

(* The functions of the live analysis satisfy their equations.             *)
LEMMA LiveNowIs ==
  ASSUME NEW c, NEW A, CodeOK(c, A), NEW live, Analysed(c, live)
  PROVE  /\ liveNow(c, live) \in [DOMAIN c -> SUBSET Int]
         /\ \A i \in DOMAIN c : liveNow(c, live)[i] = IF EndsBlock(c, i) THEN Out(c, live, i)
                                                      ELSE Before(c, liveNow(c, live), i + 1)
<1> DEFINE S == SUBSET Int
           B(i, x) == (x \ Scalars(DstOf(c[i]))) \cup Scalars(SrcOf(c[i]))
           Rhs(g) == [i \in DOMAIN c |-> IF EndsBlock(c, i) THEN Out(c, live, i) ELSE B(i + 1, g[i + 1])]
           r == CHOOSE g : g = Rhs(g)
<1>1. PICK n \in Nat \ {0} : n = Len(c)
  BY CodeIsList
<1>2. /\ DOMAIN c = 1..n /\ EndsBlock(c, n) /\ n \in 1..n
      /\ \A i \in 1..n : EndsBlock(c, i) \in BOOLEAN
      /\ \A i \in 1..n : ~ EndsBlock(c, i) => i + 1 \in 1..n
  BY <1>1, CodeIsList, Blocks
<1>3. \A i \in 1..n : EndsBlock(c, i) => Out(c, live, i) \in S
  BY <1>2, SuccessorsLead
<1>4. \A i \in 1..n : \A x \in S : B(i, x) \in S
  <2> SUFFICES ASSUME NEW i \in 1..n, NEW x \in S PROVE B(i, x) \in S
    OBVIOUS
  <2>1. c[i] \in Quads
    BY <1>2, CodeIsList
  <2>2. Scalars(SrcOf(c[i])) \subseteq Int
    BY <2>1, SymbolsOfQuad
  <2> QED
    BY <2>2
<1> HIDE DEF S, B
<1> DEFINE End == [i \in 1..n |-> EndsBlock(c, i)]
           E == [i \in 1..n |-> IF EndsBlock(c, i) THEN Out(c, live, i) ELSE {}]
           G == [p \in (1..n) \X S |-> IF EndsBlock(c, p[1]) THEN {} ELSE B(p[1] + 1, p[2])]
<1>5. End \in [1..n -> BOOLEAN] /\ End[n] /\ E \in [1..n -> S] /\ G \in [(1..n) \X S -> S]
  <2>1. {} \in S
    BY DEF S
  <2>2. End \in [1..n -> BOOLEAN] /\ End[n]
    BY <1>2
  <2>3. E \in [1..n -> S]
    BY <1>3, <2>1
  <2>4. G \in [(1..n) \X S -> S]
    BY <1>2, <1>4, <2>1
  <2> QED
    BY <2>2, <2>3, <2>4
<1>6. PICK f : Backwards(n, S, End, E, G, f)
  <2>1. n \in Nat
    OBVIOUS
  <2> HIDE DEF End, E, G
  <2> QED
    BY <1>5, <2>1, BackwardsExists
<1>7. \A i \in 1..n : f[i] = IF EndsBlock(c, i) THEN Out(c, live, i) ELSE B(i + 1, f[i + 1])
  <2> SUFFICES ASSUME NEW i \in 1..n
               PROVE  f[i] = IF EndsBlock(c, i) THEN Out(c, live, i) ELSE B(i + 1, f[i + 1])
    OBVIOUS
  <2>1. f \in [1..n -> S] /\ f[i] = IF End[i] THEN E[i] ELSE G[<<i, f[i + 1]>>]
    BY <1>6 DEF Backwards
  <2>2. CASE EndsBlock(c, i)
    BY <2>1, <2>2
  <2>3. CASE ~ EndsBlock(c, i)
    <3>1. f[i + 1] \in S
      BY <1>2, <2>1, <2>3
    <3>2. <<i, f[i + 1]>> \in (1..n) \X S
      BY <3>1
    <3> QED
      BY <2>1, <2>3, <3>2
  <2> QED
    BY <2>2, <2>3
<1>8. f \in [1..n -> S]
  BY <1>6 DEF Backwards
<1> HIDE DEF End, E, G
<1>9. f = Rhs(f)
  BY <1>2, <1>7, <1>8
<1>10. r = Rhs(r)
  <2> HIDE DEF Rhs
  <2> QED
    BY <1>9
<1>11. r = liveNow(c, live)
  BY DEF liveNow, B
<1> HIDE DEF r
<1>12. DOMAIN r = 1..n
  BY <1>2, <1>10
<1>13. \A i \in 1..n : r[i] = IF EndsBlock(c, i) THEN Out(c, live, i) ELSE B(i + 1, r[i + 1])
  BY <1>2, <1>10
<1> HIDE DEF Rhs
<1>14. \A i \in 1..n : r[i] \in S
  <2> DEFINE Bad == {i \in 1..n : r[i] \notin S}
  <2> SUFFICES ASSUME Bad # {} PROVE FALSE
    OBVIOUS
  <2>1. PICK i \in Bad : i + 1 \notin Bad
    <3>1. Bad \in SUBSET (1..n) /\ n \in Nat
      OBVIOUS
    <3> HIDE DEF Bad
    <3> QED
      BY <3>1, LastOne
  <2>2. i \in 1..n /\ r[i] \notin S
    BY <2>1
  <2>3. ~ EndsBlock(c, i)
    BY <1>3, <1>13, <2>2
  <2>4. i + 1 \in 1..n /\ r[i + 1] \in S
    BY <1>2, <2>1, <2>2, <2>3
  <2> QED
    BY <1>4, <1>13, <2>2, <2>3, <2>4
<1>15. r = [i \in 1..n |-> r[i]]
  BY <1>2, <1>10 DEF Rhs
<1>16. r \in [1..n -> S]
  BY <1>14, <1>15
<1> QED
  BY <1>2, <1>11, <1>13, <1>16 DEF S, B, Before

(* The same for the live sets of the elimination of dead code.             *)
LEMMA LiveAfterIs ==
  ASSUME NEW c, NEW A, CodeOK(c, A), NEW live, Analysed(c, live)
  PROVE  /\ LiveAfter(c, live) \in [DOMAIN c -> SUBSET Int]
         /\ \A i \in DOMAIN c : LiveAfter(c, live)[i] = IF EndsBlock(c, i) THEN Out(c, live, i)
                                                      ELSE LiveBefore(c[i + 1], LiveAfter(c, live)[i + 1])
<1> DEFINE S == SUBSET Int
           B(i, x) == LiveBefore(c[i], x)
           Rhs(g) == [i \in DOMAIN c |-> IF EndsBlock(c, i) THEN Out(c, live, i) ELSE B(i + 1, g[i + 1])]
           r == CHOOSE g : g = Rhs(g)
<1>1. PICK n \in Nat \ {0} : n = Len(c)
  BY CodeIsList
<1>2. /\ DOMAIN c = 1..n /\ EndsBlock(c, n) /\ n \in 1..n
      /\ \A i \in 1..n : EndsBlock(c, i) \in BOOLEAN
      /\ \A i \in 1..n : ~ EndsBlock(c, i) => i + 1 \in 1..n
  BY <1>1, CodeIsList, Blocks
<1>3. \A i \in 1..n : EndsBlock(c, i) => Out(c, live, i) \in S
  BY <1>2, SuccessorsLead
<1>4. \A i \in 1..n : \A x \in S : B(i, x) \in S
  <2> SUFFICES ASSUME NEW i \in 1..n, NEW x \in S PROVE B(i, x) \in S
    OBVIOUS
  <2>1. c[i] \in Quads
    BY <1>2, CodeIsList
  <2>2. Ids(SrcOf(c[i])) \subseteq Int /\ Ids(DstOf(c[i])) \subseteq Int
    BY <2>1, SymbolsOfQuad
  <2> QED
    BY <2>2 DEF LiveBefore
<1> HIDE DEF S, B
<1> DEFINE End == [i \in 1..n |-> EndsBlock(c, i)]
           E == [i \in 1..n |-> IF EndsBlock(c, i) THEN Out(c, live, i) ELSE {}]
           G == [p \in (1..n) \X S |-> IF EndsBlock(c, p[1]) THEN {} ELSE B(p[1] + 1, p[2])]
<1>5. End \in [1..n -> BOOLEAN] /\ End[n] /\ E \in [1..n -> S] /\ G \in [(1..n) \X S -> S]
  <2>1. {} \in S
    BY DEF S
  <2>2. End \in [1..n -> BOOLEAN] /\ End[n]
    BY <1>2
  <2>3. E \in [1..n -> S]
    BY <1>3, <2>1
  <2>4. G \in [(1..n) \X S -> S]
    BY <1>2, <1>4, <2>1
  <2> QED
    BY <2>2, <2>3, <2>4
<1>6. PICK f : Backwards(n, S, End, E, G, f)
  <2>1. n \in Nat
    OBVIOUS
  <2> HIDE DEF End, E, G
  <2> QED
    BY <1>5, <2>1, BackwardsExists
<1>7. \A i \in 1..n : f[i] = IF EndsBlock(c, i) THEN Out(c, live, i) ELSE B(i + 1, f[i + 1])
  <2> SUFFICES ASSUME NEW i \in 1..n
               PROVE  f[i] = IF EndsBlock(c, i) THEN Out(c, live, i) ELSE B(i + 1, f[i + 1])
    OBVIOUS
  <2>1. f \in [1..n -> S] /\ f[i] = IF End[i] THEN E[i] ELSE G[<<i, f[i + 1]>>]
    BY <1>6 DEF Backwards
  <2>2. CASE EndsBlock(c, i)
    BY <2>1, <2>2
  <2>3. CASE ~ EndsBlock(c, i)
    <3>1. f[i + 1] \in S
      BY <1>2, <2>1, <2>3
    <3>2. <<i, f[i + 1]>> \in (1..n) \X S
      BY <3>1
    <3> QED
      BY <2>1, <2>3, <3>2
  <2> QED
    BY <2>2, <2>3
<1>8. f \in [1..n -> S]
  BY <1>6 DEF Backwards
<1> HIDE DEF End, E, G
<1>9. f = Rhs(f)
  BY <1>2, <1>7, <1>8
<1>10. r = Rhs(r)
  <2> HIDE DEF Rhs
  <2> QED
    BY <1>9
<1>11. r = LiveAfter(c, live)
  BY DEF LiveAfter, B
<1> HIDE DEF r
<1>12. DOMAIN r = 1..n
  BY <1>2, <1>10
<1>13. \A i \in 1..n : r[i] = IF EndsBlock(c, i) THEN Out(c, live, i) ELSE B(i + 1, r[i + 1])
  BY <1>2, <1>10
<1> HIDE DEF Rhs
<1>14. \A i \in 1..n : r[i] \in S
  <2> DEFINE Bad == {i \in 1..n : r[i] \notin S}
  <2> SUFFICES ASSUME Bad # {} PROVE FALSE
    OBVIOUS
  <2>1. PICK i \in Bad : i + 1 \notin Bad
    <3>1. Bad \in SUBSET (1..n) /\ n \in Nat
      OBVIOUS
    <3> HIDE DEF Bad
    <3> QED
      BY <3>1, LastOne
  <2>2. i \in 1..n /\ r[i] \notin S
    BY <2>1
  <2>3. ~ EndsBlock(c, i)
    BY <1>3, <1>13, <2>2
  <2>4. i + 1 \in 1..n /\ r[i + 1] \in S
    BY <1>2, <2>1, <2>2, <2>3
  <2> QED
    BY <1>4, <1>13, <2>2, <2>3, <2>4
<1>15. r = [i \in 1..n |-> r[i]]
  BY <1>2, <1>10 DEF Rhs
<1>16. r \in [1..n -> S]
  BY <1>14, <1>15
<1> QED
  BY <1>2, <1>11, <1>13, <1>16 DEF S, B

(* A quad put before a block.                                              *)
Nothing == [def |-> {}, use |-> {}]
Extended(q, x) == LET d == Ids(DstOf(q))
                      u == Ids(SrcOf(q))
                  IN  [def |-> (x.def \cup d) \ u, use |-> (x.use \ d) \cup u]

(* The same for what the rest of a block defines and uses.                 *)
LEMMA DefAndUseIs ==
  ASSUME NEW c, NEW A, CodeOK(c, A)
  PROVE  LET r == calculateDefAndUse(c)
         IN  /\ r \in [DOMAIN c -> [def : SUBSET Int, use : SUBSET Int]]
             /\ \A i \in DOMAIN c : r[i] = Extended(c[i], IF EndsBlock(c, i) THEN Nothing ELSE r[i + 1])
<1> DEFINE S == [def : SUBSET Int, use : SUBSET Int]
           B(i, x) == Extended(c[i], x)
           Rhs(g) == [i \in DOMAIN c |-> IF EndsBlock(c, i) THEN B(i, Nothing) ELSE B(i, g[i + 1])]
           r == CHOOSE g : g = Rhs(g)
<1>1. PICK n \in Nat \ {0} : n = Len(c)
  BY CodeIsList
<1>2. /\ DOMAIN c = 1..n /\ EndsBlock(c, n) /\ n \in 1..n
      /\ \A i \in 1..n : EndsBlock(c, i) \in BOOLEAN
      /\ \A i \in 1..n : ~ EndsBlock(c, i) => i + 1 \in 1..n
  BY <1>1, CodeIsList, Blocks
<1>4. \A i \in 1..n : \A x \in S : B(i, x) \in S
  <2> SUFFICES ASSUME NEW i \in 1..n, NEW x \in S PROVE B(i, x) \in S
    OBVIOUS
  <2>1. c[i] \in Quads
    BY <1>2, CodeIsList
  <2>2. Ids(SrcOf(c[i])) \subseteq Int /\ Ids(DstOf(c[i])) \subseteq Int
    BY <2>1, SymbolsOfQuad
  <2> QED
    BY <2>2 DEF Extended
<1>3. Nothing \in S /\ \A i \in 1..n : B(i, Nothing) \in S
  <2>1. Nothing \in S
    BY DEF Nothing
  <2> HIDE DEF B, S
  <2> QED
    BY <1>4, <2>1
<1> HIDE DEF S, B
<1> DEFINE End == [i \in 1..n |-> EndsBlock(c, i)]
           E == [i \in 1..n |-> IF EndsBlock(c, i) THEN B(i, Nothing) ELSE Nothing]
           G == [p \in (1..n) \X S |-> IF EndsBlock(c, p[1]) THEN Nothing ELSE B(p[1], p[2])]
<1>5. End \in [1..n -> BOOLEAN] /\ End[n] /\ E \in [1..n -> S] /\ G \in [(1..n) \X S -> S]
  <2>2. End \in [1..n -> BOOLEAN] /\ End[n]
    BY <1>2
  <2>3. E \in [1..n -> S]
    BY <1>3
  <2>4. G \in [(1..n) \X S -> S]
    BY <1>2, <1>3, <1>4
  <2> QED
    BY <2>2, <2>3, <2>4
<1>6. PICK f : Backwards(n, S, End, E, G, f)
  <2>1. n \in Nat
    OBVIOUS
  <2> HIDE DEF End, E, G
  <2> QED
    BY <1>5, <2>1, BackwardsExists
<1>7. \A i \in 1..n : f[i] = IF EndsBlock(c, i) THEN B(i, Nothing) ELSE B(i, f[i + 1])
  <2> SUFFICES ASSUME NEW i \in 1..n
               PROVE  f[i] = IF EndsBlock(c, i) THEN B(i, Nothing) ELSE B(i, f[i + 1])
    OBVIOUS
  <2>1. f \in [1..n -> S] /\ f[i] = IF End[i] THEN E[i] ELSE G[<<i, f[i + 1]>>]
    BY <1>6 DEF Backwards
  <2>2. CASE EndsBlock(c, i)
    BY <2>1, <2>2
  <2>3. CASE ~ EndsBlock(c, i)
    <3>1. f[i + 1] \in S
      BY <1>2, <2>1, <2>3
    <3>2. <<i, f[i + 1]>> \in (1..n) \X S
      BY <3>1
    <3> QED
      BY <2>1, <2>3, <3>2
  <2> QED
    BY <2>2, <2>3
<1>8. f \in [1..n -> S]
  BY <1>6 DEF Backwards
<1> HIDE DEF End, E, G
<1>9. f = Rhs(f)
  BY <1>2, <1>7, <1>8
<1>10. r = Rhs(r)
  <2> HIDE DEF Rhs
  <2> QED
    BY <1>9
<1>11. r = calculateDefAndUse(c)
  <2>1. \A g : Rhs(g) = [i \in DOMAIN c |->
                LET rest == IF EndsBlock(c, i) THEN [def |-> {}, use |-> {}] ELSE g[i + 1]
                    d == Ids(DstOf(c[i]))
                    u == Ids(SrcOf(c[i]))
                IN  [def |-> (rest.def \cup d) \ u, use |-> (rest.use \ d) \cup u]]
    BY DEF B, Extended, Nothing
  <2> QED
    BY <2>1 DEF calculateDefAndUse
<1> HIDE DEF r
<1>12. DOMAIN r = 1..n
  BY <1>2, <1>10
<1>13. \A i \in 1..n : r[i] = IF EndsBlock(c, i) THEN B(i, Nothing) ELSE B(i, r[i + 1])
  BY <1>2, <1>10
<1> HIDE DEF Rhs
<1>14. \A i \in 1..n : r[i] \in S
  <2> DEFINE Bad == {i \in 1..n : r[i] \notin S}
  <2> SUFFICES ASSUME Bad # {} PROVE FALSE
    OBVIOUS
  <2>1. PICK i \in Bad : i + 1 \notin Bad
    <3>1. Bad \in SUBSET (1..n) /\ n \in Nat
      OBVIOUS
    <3> HIDE DEF Bad
    <3> QED
      BY <3>1, LastOne
  <2>2. i \in 1..n /\ r[i] \notin S
    BY <2>1
  <2>3. ~ EndsBlock(c, i)
    BY <1>3, <1>13, <2>2
  <2>4. i + 1 \in 1..n /\ r[i + 1] \in S
    BY <1>2, <2>1, <2>2, <2>3
  <2> QED
    BY <1>4, <1>13, <2>2, <2>3, <2>4
<1>15. r = [i \in 1..n |-> r[i]]
  BY <1>2, <1>10 DEF Rhs
<1>16. r \in [1..n -> S]
  BY <1>14, <1>15
<1> QED
  BY <1>2, <1>11, <1>13, <1>16 DEF S, B

(* The last quad of a block, from any quad of it on.                       *)
LEMMA LastOfIs ==
  ASSUME NEW c, NEW A, CodeOK(c, A), NEW i \in DOMAIN c
  PROVE  /\ LastOf(c, i) \in DOMAIN c /\ EndsBlock(c, LastOf(c, i))
         /\ EndsBlock(c, i) => LastOf(c, i) = i
         /\ ~ EndsBlock(c, i) => LastOf(c, i) = LastOf(c, i + 1)
<1> DEFINE T(b) == {j \in b..Len(c) : EndsBlock(c, j)}
<1>1. PICK n \in Nat \ {0} : n = Len(c)
  BY CodeIsList
<1>2. DOMAIN c = 1..n /\ EndsBlock(c, n) /\ i \in 1..n
  BY <1>1, CodeIsList, Blocks
<1>3. T(i) \in SUBSET Nat /\ n \in T(i) /\ T(i) \subseteq 1..n
  BY <1>1, <1>2
<1>4. Min(T(i)) \in T(i) /\ \A x \in T(i) : Min(T(i)) <= x
  <2> HIDE DEF T
  <2> QED
    BY <1>3, MinOfNats
<1>5. LastOf(c, i) = Min(T(i)) /\ LastOf(c, i + 1) = Min(T(i + 1))
  BY DEF LastOf
<1>6. LastOf(c, i) \in DOMAIN c /\ EndsBlock(c, LastOf(c, i))
  BY <1>2, <1>3, <1>4, <1>5
<1>7. ASSUME EndsBlock(c, i) PROVE LastOf(c, i) = i
  <2>1. i \in T(i)
    BY <1>1, <1>2, <1>7
  <2>2. LastOf(c, i) \in i..n /\ LastOf(c, i) <= i
    BY <1>1, <1>4, <1>5, <2>1
  <2> QED
    BY <1>2, <2>2
<1>8. ASSUME ~ EndsBlock(c, i) PROVE LastOf(c, i) = LastOf(c, i + 1)
  <2>1. \A j \in i..n : j = i \/ j \in i + 1..n
    BY <1>2
  <2>2. i + 1..n \subseteq i..n
    BY <1>2
  <2>3. T(i) = T(i + 1)
    BY <1>1, <1>8, <2>1, <2>2
  <2> HIDE DEF T
  <2> QED
    BY <1>5, <2>3
<1> QED
  BY <1>6, <1>7, <1>8

(***************************************************************************)
(* The live sets of the dead code elimination serve the register           *)
(* allocation: a variable that may get a register and is live, in the code *)
(* that is left, before the first quad of a block, is in the set of that   *)
(* block.                                                                  *)
(***************************************************************************)
CanHoldIn(syms, v) == \A s \in syms : s.id = v => s.type = "int" /\ ~ s.isReturn

CoveredIn(syms, c, live) ==
  \A b \in Leaders(c) : \A v \in Before(c, liveNow(c, live), b) :
     v \in Ids(syms) /\ CanHoldIn(syms, v) => v \in live[b]

(* A variable that may have a register is not an address that is stored    *)
(* through.                                                                *)
LEMMA NeverThrough ==
  ASSUME NEW A, NEW q, QuadOK(q), SymbolsIn(q) \subseteq A,
         NEW v, CanHoldIn({s \in A : s.scope = "local"}, v)
  PROVE  /\ Through(q) => v \notin Ids(DstOf(q))
         /\ v \in Ids(DstOf(q)) => v \in Scalars(DstOf(q))
<1> DEFINE locs == {s \in A : s.scope = "local"}
<1>1. DstOf(q) \subseteq locs
  BY SymbolsOfQuad DEF QuadOK
<1>2. ASSUME Through(q) PROVE v \notin Ids(DstOf(q))
  <2>1. q.dst.k = "deref" /\ q.dst.s.type = "addr"
    BY <1>2 DEF Through, QuadOK
  <2>2. DstOf(q) \subseteq {q.dst.s}
    BY DEF DstOf, LocalOf, SymbolIn
  <2> QED
    BY <1>1, <2>1, <2>2 DEF Ids, CanHoldIn
<1>3. ASSUME v \in Ids(DstOf(q)) PROVE v \in Scalars(DstOf(q))
  <2>1. PICK s \in DstOf(q) : s.id = v
    BY <1>3 DEF Ids
  <2>2. s.type = "int"
    BY <1>1, <2>1 DEF CanHoldIn
  <2> QED
    BY <2>1, <2>2 DEF Scalars, Ids
<1> QED
  BY <1>2, <1>3

(* With live sets that solve their equations, what reg_alloc finds live    *)
(* before a block of the code left is in the live set of the block         *)
(* (live_analysis, codegen.c:1976).                                        *)
LEMMA DeadCodeIsCovered ==
  ASSUME NEW c, NEW A, CodeOK(c, A), NEW live, Analysed(c, live),
         live = calculateInAndOut(c, live)
  PROVE  LET d == deadCodeEliminate(c, live)
         IN  Analysed(d, live) /\ CoveredIn({s \in A : s.scope = "local"}, d, live)
<1> DEFINE d == deadCodeEliminate(c, live)
           locs == {s \in A : s.scope = "local"}
           after == LiveAfter(c, live)
           now == liveNow(d, live)
           du == calculateDefAndUse(c)
<1>1. PICK n \in Nat \ {0} : n = Len(c)
  BY CodeIsList
<1>2. /\ DOMAIN c = 1..n
      /\ \A i \in 1..n : QuadOK(c[i]) /\ SymbolsIn(c[i]) \subseteq A /\ c[i] \in Quads
      /\ \A i \in 1..n : ~ EndsBlock(c, i) => i + 1 \in 1..n
  BY <1>1, CodeIsList, Blocks
<1>3. /\ CodeOK(d, A) /\ DOMAIN d = 1..n /\ Len(d) = n
      /\ \A i \in 1..n : SameControl(c[i], d[i]) /\ d[i].isLeader = c[i].isLeader
      /\ \A i \in 1..n : IF IsDead(c[i], after[i]) THEN d[i].op = "nop" ELSE d[i] = c[i]
  BY <1>1, <1>2, DeadCodeOK
<1> HIDE DEF d
<1>4. Leaders(d) = Leaders(c)
  BY <1>2, <1>3 DEF Leaders
<1>5. \A l : LabelAt(d, l) = LabelAt(c, l)
  BY <1>2, <1>3, SameLabels
<1>6. Analysed(d, live)
  <2>1. \A i \in 1..n : d[i].op \in Jumps => c[i].op \in Jumps /\ d[i].dst.i = c[i].dst.i
    BY <1>3 DEF SameControl, Control
  <2>2. Marked(d)
    BY <1>2, <1>3, <1>4, <1>5, <2>1 DEF Analysed, Marked
  <2> QED
    BY <1>4, <2>2 DEF Analysed
<1>7. \A i \in 1..n : EndsBlock(d, i) = EndsBlock(c, i)
  <2> SUFFICES ASSUME NEW i \in 1..n PROVE EndsBlock(d, i) = EndsBlock(c, i)
    OBVIOUS
  <2>1. i = n \/ i + 1 \in 1..n
    OBVIOUS
  <2> QED
    BY <1>1, <1>3, <2>1 DEF EndsBlock
<1>8. \A i \in 1..n : Out(d, live, i) = Out(c, live, i)
  <2> SUFFICES ASSUME NEW i \in 1..n PROVE Successors(d, i) = Successors(c, i)
    BY DEF Out
  <2>1. /\ d[i].op \in Jumps <=> c[i].op \in Jumps
        /\ d[i].op = "goto" <=> c[i].op = "goto"
        /\ c[i].op \in Jumps => d[i].dst.i = c[i].dst.i
    BY <1>3 DEF SameControl, Control, Jumps
  <2> QED
    BY <1>1, <1>3, <1>5, <2>1 DEF Successors
<1>9. \A i \in 1..n : now[i] = IF EndsBlock(c, i) THEN Out(c, live, i) ELSE Before(d, now, i + 1)
  BY <1>3, <1>6, <1>7, <1>8, LiveNowIs
<1>10. \A i \in 1..n : after[i] = IF EndsBlock(c, i) THEN Out(c, live, i)
                                  ELSE LiveBefore(c[i + 1], after[i + 1])
  BY <1>2, LiveAfterIs
<1>11. \A i \in 1..n : du[i] = Extended(c[i], IF EndsBlock(c, i) THEN Nothing ELSE du[i + 1])
  BY <1>2, DefAndUseIs
<1> HIDE DEF now, after, du
<1> SUFFICES ASSUME NEW b \in Leaders(c), NEW v \in Before(d, now, b), CanHoldIn(locs, v)
             PROVE  v \in live[b]
  <2>1. CoveredIn(locs, d, live)
    BY <1>4 DEF CoveredIn, now
  <2> QED
    BY <1>6, <2>1 DEF d
<1>12. \A i \in 1..n : /\ Through(c[i]) => v \notin Ids(DstOf(c[i]))
                       /\ v \in Ids(DstOf(c[i])) => v \in Scalars(DstOf(c[i]))
  BY <1>2, NeverThrough
<1> DEFINE Left(i) == v \in Before(d, now, i) => v \in LiveBefore(c[i], after[i])
           Known(i) == v \in LiveBefore(c[i], after[i]) =>
                          v \in du[i].use \cup (Out(c, live, LastOf(c, i)) \ du[i].def)
<1>13. ASSUME NEW i \in 1..n, ~ EndsBlock(c, i) => Left(i + 1) PROVE Left(i)
  <2> SUFFICES ASSUME v \in Before(d, now, i) PROVE v \in LiveBefore(c[i], after[i])
    OBVIOUS
  <2>1. v \in now[i] => v \in after[i]
    BY <1>9, <1>10, <1>13
  <2>2. CASE IsDead(c[i], after[i])
    <3>1. DstOf(d[i]) = {} /\ SrcOf(d[i]) = {}
      <4>1. d[i].op = "nop"
        BY <1>3, <2>2
      <4> QED
        BY <4>1 DEF DstOf, SrcOf, Defines, Ariths, Ifs
    <3>2. v \in now[i]
      BY <3>1 DEF Before, Scalars, Ids
    <3> QED
      BY <2>1, <2>2, <3>2 DEF LiveBefore
  <2>3. CASE ~ IsDead(c[i], after[i])
    <3>1. d[i] = c[i]
      BY <1>3, <2>3
    <3>2. CASE v \in Scalars(SrcOf(c[i]))
      <4>1. v \in Ids(SrcOf(c[i]))
        BY <1>2, <3>2, SymbolsOfQuad
      <4> QED
        BY <2>3, <4>1 DEF LiveBefore
    <3>3. CASE v \in now[i] /\ v \notin Scalars(DstOf(c[i]))
      BY <1>12, <2>1, <2>3, <3>3 DEF LiveBefore
    <3> QED
      BY <3>1, <3>2, <3>3 DEF Before
  <2> QED
    BY <2>2, <2>3
<1>14. ASSUME NEW i \in 1..n, ~ EndsBlock(c, i) => Known(i + 1) PROVE Known(i)
  <2> SUFFICES ASSUME v \in LiveBefore(c[i], after[i])
               PROVE  v \in du[i].use \cup (Out(c, live, LastOf(c, i)) \ du[i].def)
    OBVIOUS
  <2> DEFINE u == Ids(SrcOf(c[i]))
             w == Ids(DstOf(c[i]))
             out == Out(c, live, LastOf(c, i))
             rest == IF EndsBlock(c, i) THEN Nothing ELSE du[i + 1]
  <2>1. v \in u \/ (v \in after[i] /\ v \notin w)
    BY <1>12 DEF LiveBefore, IsDead
  <2>2. v \in after[i] => v \in rest.use \cup (out \ rest.def)
    <3>1. CASE EndsBlock(c, i)
      <4>1. after[i] = Out(c, live, i) /\ LastOf(c, i) = i
        BY <1>2, <1>10, <3>1, LastOfIs
      <4> QED
        BY <3>1, <4>1 DEF Nothing
    <3>2. CASE ~ EndsBlock(c, i)
      <4>1. after[i] = LiveBefore(c[i + 1], after[i + 1]) /\ LastOf(c, i) = LastOf(c, i + 1)
        BY <1>2, <1>10, <3>2, LastOfIs
      <4> QED
        BY <1>14, <3>2, <4>1
    <3> QED
      BY <3>1, <3>2
  <2>3. du[i].def = (rest.def \cup w) \ u /\ du[i].use = (rest.use \ w) \cup u
    <3>1. du[i] = Extended(c[i], rest)
      BY <1>11
    <3> HIDE DEF rest
    <3> QED
      BY <3>1 DEF Extended
  <2> HIDE DEF u, w, out, rest
  <2>4. v \in du[i].use \cup (out \ du[i].def)
    BY <2>1, <2>2, <2>3
  <2> QED
    BY <2>4 DEF out
<1>15. \A i \in 1..n : Left(i) /\ Known(i)
  <2> DEFINE Bad == {i \in 1..n : ~ (Left(i) /\ Known(i))}
  <2> SUFFICES ASSUME Bad # {} PROVE FALSE
    OBVIOUS
  <2> HIDE DEF Left, Known
  <2>1. PICK i \in Bad : i + 1 \notin Bad
    <3>1. Bad \in SUBSET (1..n) /\ n \in Nat
      OBVIOUS
    <3> HIDE DEF Bad
    <3> QED
      BY <3>1, LastOne
  <2> QED
    BY <1>2, <1>13, <1>14, <2>1
<1>16. b \in 1..n
  BY <1>2 DEF Leaders
<1>17. v \in du[b].use \cup (Out(c, live, LastOf(c, b)) \ du[b].def)
  BY <1>15, <1>16
<1>18. live[b] = du[b].use \cup (Out(c, live, LastOf(c, b)) \ du[b].def)
  <2>1. DOMAIN live = Leaders(c)
    BY DEF Analysed
  <2>2. calculateInAndOut(c, live)[b] = du[b].use \cup (Out(c, live, LastOf(c, b)) \ du[b].def)
    BY <2>1 DEF calculateInAndOut, du
  <2> QED
    BY <2>2
<1> QED
  BY <1>17, <1>18
-----------------------------------------------------------------------------
(***************************************************************************)
(* The inductive invariant.  The code stays a list of quads over the       *)
(* symbols that the generator used; once the live analysis is done, the    *)
(* sets in are closed under it; once registers are given, the graph is     *)
(* that of the code with those sets, and neighbours in it have different   *)
(* registers.  That is enough for a run: a register read later belongs to  *)
(* a variable that is live, so what was stored since is a neighbour's and  *)
(* in another register.                                                    *)
(***************************************************************************)
Syms == AllSymbols(Generated[body])
CanHold(v) == CanHoldIn(locals, v)
Covered(c, live) == CoveredIn(locals, c, live)
Allocated == {"color", "emit", "layout", "done", "run"}

CodeInv ==
  /\ body \in Programs
  /\ phase = "generate" => code = <<>> /\ locals = {}
  /\ phase # "generate" => CodeOK(code, Syms) /\ locals = SymbolsOf(Generated[body])

PlaceInv ==
  /\ phase \in Phases
  /\ curr \in Nat \ {0}
  /\ todo \subseteq Ids(locals)

LiveInv ==
  /\ phase \in {"inout", "swept", "dead", "graph", "color"} => Analysed(code, in)
  /\ phase = "dead" \/ (phase = "swept" /\ ~ isInAndOutChanged) => in = calculateInAndOut(code, in)
  /\ phase \in {"graph", "color"} => Covered(code, in)
  /\ phase = "color" => edges = Interference(code, in)

NoRegisters == \A x \in DOMAIN regName : regName[x] = -1
Proper ==
  \A x, y \in DOMAIN regName :
     x # y /\ {x, y} \in edges /\ regName[x] = regName[y] => regName[x] = -1
Coloured == Analysed(code, in) /\ Covered(code, in) /\ edges = Interference(code, in) /\ Proper

RegInv ==
  /\ regName \in [Ids(locals) -> -1..NUM_REGS - 1]
  /\ phase \notin Allocated => NoRegisters
  /\ \A v \in DOMAIN regName : regName[v] # -1 => CanHold(v)
  /\ NoRegisters \/ Coloured
  /\ phase = "color" => \A v \in todo : CanHold(v)

RunInv ==
  phase = "run" =>
    /\ pc \in DOMAIN code /\ owner \in [0..NUM_REGS - 1 -> Ids(locals) \cup {Nobody}]
    /\ \A v \in DOMAIN regName :
         regName[v] # -1 /\ v \in Before(code, liveNow(code, in), pc) => owner[regName[v]] \in {v, Nobody}

BytesOf(s) == IF s.type = "array" THEN NumElts[s.id] * Width(s.elt) ELSE IF s.type = "char" THEN 1 ELSE 4
Bytes(s) == offset[s.id]..(offset[s.id] + BytesOf(s) - 1)
Placed(s) == ~ IsFormal(s) /\ s.id \notin todo

LayoutInv ==
  /\ curr_offset \in Nat
  /\ phase \notin {"layout", "done", "run"} => curr_offset = 0
  /\ phase \in {"layout", "done", "run"} =>
       /\ offset \in [Ids(locals) \cup {0} -> Int]
       /\ \A s \in locals : Placed(s) =>
            /\ Bytes(s) \subseteq -curr_offset..-1
            /\ Width(s.elt) = 4 /\ s.type # "char" => offset[s.id] % 4 = 0
            /\ \A r \in locals \ {s} : Placed(r) => Bytes(s) \cap Bytes(r) = {}
  /\ phase \in {"done", "run"} => todo = {} /\ offset[0] = RoundUp(curr_offset, 4)

CInv == CodeInv /\ PlaceInv /\ LiveInv /\ RegInv /\ RunInv /\ LayoutInv

(* What the assumption says of the generated code.                         *)
LEMMA GeneratedCode ==
  ASSUME body \in Programs
  PROVE  /\ CodeOK(Generated[body], Syms) /\ OneSymbolPerName(Syms) /\ Syms \subseteq Symbols
         /\ SymbolsOf(Generated[body]) = {s \in Syms : s.scope = "local"}
<1>1. CodeOK(Generated[body], Syms) /\ OneSymbolPerName(Syms)
  BY OptimizerAssumption DEF CodeOK, Syms
<1>2. Syms \subseteq Symbols
  <2>1. \A i \in DOMAIN Generated[body] : SymbolsIn(Generated[body][i]) \subseteq Symbols
    BY <1>1, CodeIsList, QuadFields
  <2> QED
    BY <2>1 DEF Syms, AllSymbols
<1> QED
  BY <1>1, <1>2 DEF SymbolsOf, Syms

(* The ids in a list of quads are bounded below.                           *)
LEMMA IdsBounded ==
  ASSUME NEW c, NEW A, CodeOK(c, A)
  PROVE  \E B \in Int : \A s \in AllSymbols(c) : B <= s.id
<1> DEFINE Bound(m, B) == \A i \in DOMAIN c : m <= i => \A s \in SymbolsIn(c[i]) : B <= s.id
<1>1. PICK n \in Nat \ {0} : n = Len(c)
  BY CodeIsList
<1>2. DOMAIN c = 1..n /\ \A i \in 1..n : c[i] \in Quads
  BY <1>1, CodeIsList
<1>3. \A m \in 1..n : \E B \in Int : Bound(m, B)
  <2> DEFINE Bad == {m \in 1..n : ~ \E B \in Int : Bound(m, B)}
  <2> SUFFICES ASSUME Bad # {} PROVE FALSE
    OBVIOUS
  <2>1. PICK m \in Bad : m + 1 \notin Bad
    <3>1. Bad \in SUBSET (1..n) /\ n \in Nat
      OBVIOUS
    <3> HIDE DEF Bad
    <3> QED
      BY <3>1, LastOne
  <2>2. m \in 1..n
    OBVIOUS
  <2>3. PICK C \in Int : Bound(m + 1, C)
    <3>1. CASE m = n
      <4>1. \A i \in DOMAIN c : ~ (m + 1 <= i)
        BY <1>2, <3>1
      <4>2. Bound(m + 1, 0)
        BY <4>1
      <4> QED
        BY <4>2
    <3>2. CASE m # n
      <4>1. m + 1 \in 1..n
        BY <2>2, <3>2
      <4> QED
        BY <2>1, <4>1
    <3> QED
      BY <3>1, <3>2
  <2>4. PICK D \in Int : D <= C /\ \A s \in SymbolsIn(c[m]) : D <= s.id
    <3>1. \A s \in SymbolsIn(c[m]) : s \in {c[m].src1.s, c[m].src2.s, c[m].dst.s}
      BY DEF SymbolsIn, SymbolIn
    <3>2. c[m].src1 \in Operands /\ c[m].src2 \in Operands /\ c[m].dst \in Operands
      BY <1>2, <2>2, QuadFields
    <3>3. PICK x \in Int, y \in Int, z \in Int :
             x = c[m].src1.s.id /\ y = c[m].src2.s.id /\ z = c[m].dst.s.id
      <4>1. c[m].src1.s.id \in Int /\ c[m].src2.s.id \in Int /\ c[m].dst.s.id \in Int
        BY <3>2 DEF Operands, Symbols
      <4> QED
        BY <4>1
    <3>4. \E D \in Int : D <= C /\ D <= x /\ D <= y /\ D <= z
      <4>1. PICK p \in {C, x} : p <= C /\ p <= x
        OBVIOUS
      <4>2. PICK q \in {y, z} : q <= y /\ q <= z
        OBVIOUS
      <4>3. PICK e \in {p, q} : e <= p /\ e <= q
        OBVIOUS
      <4> QED
        BY <4>1, <4>2, <4>3
    <3> QED
      BY <3>1, <3>3, <3>4
  <2>5. Bound(m, D)
    <3> SUFFICES ASSUME NEW i \in DOMAIN c, m <= i, NEW s \in SymbolsIn(c[i]) PROVE D <= s.id
      OBVIOUS
    <3>1. i = m \/ m + 1 <= i
      BY <1>2, <2>2
    <3>2. s.id \in Int
      <4>1. c[i] \in Quads
        BY <1>2
      <4>2. s \in Symbols
        BY <4>1, QuadFields
      <4> QED
        BY <4>2 DEF Symbols
    <3>3. m + 1 <= i => C <= s.id
      BY <2>3
    <3> QED
      BY <2>4, <3>1, <3>2, <3>3
  <2> QED
    BY <2>1, <2>5
<1>4. PICK B \in Int : Bound(1, B)
  <2>1. 1 \in 1..n
    OBVIOUS
  <2> HIDE DEF Bound
  <2> QED
    BY <1>3, <2>1
<1>5. \A i \in DOMAIN c : 1 <= i
  BY <1>2
<1>6. \A s \in AllSymbols(c) : B <= s.id
  BY <1>4, <1>5 DEF AllSymbols
<1> QED
  BY <1>6

(* The local symbols of the function.                                      *)
LEMMA LocalSymbols ==
  ASSUME CodeInv
  PROVE  /\ locals \subseteq Symbols /\ Ids(locals) \subseteq Int /\ 0 \notin Ids(locals)
         /\ \A s, t \in locals : s.id = t.id => s = t
         /\ \A s \in locals : s.scope = "local" /\ s.type \in {"int", "char", "addr", "array"}
         /\ \E B \in Int : \A x \in Ids(locals) : B <= x
<1>1. CASE phase = "generate"
  BY <1>1 DEF CodeInv, Ids
<1>2. CASE phase # "generate"
  <2>1. /\ CodeOK(Generated[body], Syms) /\ OneSymbolPerName(Syms) /\ Syms \subseteq Symbols
        /\ locals = {s \in Syms : s.scope = "local"}
    BY <1>2, GeneratedCode DEF CodeInv
  <2>2. \A s \in Symbols : s.id \in Int /\ s.type \in {"none", "int", "char", "addr", "array"}
    BY DEF Symbols
  <2>3. PICK B \in Int : \A s \in Syms : B <= s.id
    BY <2>1, IdsBounded DEF Syms
  <2> QED
    BY <2>1, <2>2, <2>3 DEF Ids, OneSymbolPerName
<1> QED
  BY <1>1, <1>2

(* The next symbol to be coloured or placed.                               *)
LEMMA NextSymbol ==
  ASSUME CodeInv, todo \subseteq Ids(locals), todo # {}
  PROVE  /\ Min(todo) \in todo /\ Min(todo) \in Ids(locals)
         /\ SymbolOf(Min(todo)) \in locals /\ SymbolOf(Min(todo)).id = Min(todo)
<1>1. PICK B \in Int : \A x \in Ids(locals) : B <= x
  BY LocalSymbols
<1>2. todo \in SUBSET Int /\ \A x \in todo : B <= x
  BY <1>1, LocalSymbols
<1>3. Min(todo) \in todo
  BY <1>2, MinIsLeast
<1>4. \E s \in locals : s.id = Min(todo)
  BY <1>3 DEF Ids
<1> QED
  BY <1>3, <1>4 DEF SymbolOf
-----------------------------------------------------------------------------
(***************************************************************************)
(* Every step keeps the invariant.                                         *)
(***************************************************************************)
(* The initial state.                                                      *)
LEMMA InitialCInv == Init => CInv
<1> SUFFICES ASSUME Init PROVE CInv
  OBVIOUS
<1>1. CodeInv
  BY DEF Init, CodeInv
<1>2. Ids(locals) = {}
  BY DEF Init, Ids
<1>3. PlaceInv
  BY DEF Init, PlaceInv, Phases
<1>4. LiveInv
  BY DEF Init, LiveInv
<1>5. RegInv
  BY <1>2 DEF Init, RegInv, NoRegisters
<1>6. RunInv /\ LayoutInv
  BY DEF Init, RunInv, LayoutInv
<1> QED
  BY <1>1, <1>3, <1>4, <1>5, <1>6 DEF CInv

(* The quad at which Peephole or CopyPropagate goes on.                    *)
LEMMA NextQuad ==
  ASSUME NEW A, CodeOK(code, A), curr \in Nat \ {0},
         NEW found \in SUBSET (curr..Len(code)), found # {}
  PROVE  Min(found) \in found /\ Min(found) \in DOMAIN code /\ Min(found) + 1 \in Nat \ {0}
<1>1. PICK n \in Nat \ {0} : n = Len(code)
  BY CodeIsList
<1>2. found \in SUBSET Nat /\ \A i \in found : i \in 1..n
  BY <1>1
<1>3. Min(found) \in found
  BY <1>2, MinOfNats
<1>4. Min(found) \in 1..n
  BY <1>2, <1>3
<1> QED
  BY <1>1, <1>3, <1>4, CodeIsList

(* The code stays well formed.                                             *)
LEMMA CodeStep ==
  ASSUME CInv, [Next]_vars
  PROVE  CodeInv'
<1> USE DEF compiled
<1>1. CodeInv /\ curr \in Nat \ {0}
  BY DEF CInv, PlaceInv
<1>2. ASSUME phase # "generate", phase' # "generate", UNCHANGED << body, code, locals >>
      PROVE  CodeInv'
  BY <1>1, <1>2 DEF CodeInv, Syms
<1>3. ASSUME phase # "generate", phase' # "generate", UNCHANGED << body, locals >>, CodeOK(code', Syms)
      PROVE  CodeInv'
  BY <1>1, <1>3 DEF CodeInv, Syms
<1>4. phase # "generate" => CodeOK(code, Syms) /\ OneSymbolPerName(Syms)
  BY <1>1, GeneratedCode DEF CodeInv
<1>5. CASE Generate
  <2>1. CodeOK(Generated[body], Syms)
    BY <1>1, GeneratedCode DEF CodeInv
  <2>2. body' = body /\ code' = Generated[body] /\ locals' = SymbolsOf(Generated[body]) /\ phase' = "round"
    BY <1>5 DEF Generate
  <2> QED
    BY <1>1, <2>1, <2>2 DEF CodeInv, Syms
<1>6. CASE Round
  BY <1>2, <1>6 DEF Round
<1>7. CASE Peephole
  <2> DEFINE found == {i \in curr..Len(code) : JumpsOverGoto(code, i) \/ Simplify(code[i]) # code[i]}
             i == Min(found)
  <2>1. /\ phase = "peephole" /\ phase' \in {"peephole", "copy"} /\ UNCHANGED << body, locals >>
        /\ (found # {} /\ code' = peephole_optimize(code, i)) \/ UNCHANGED code
    BY <1>7 DEF Peephole
  <2>2. ASSUME found # {} PROVE CodeOK(peephole_optimize(code, i), Syms)
    <3>1. found \in SUBSET (curr..Len(code))
      OBVIOUS
    <3>2. i \in DOMAIN code
      <4> HIDE DEF found
      <4> QED
        BY <1>1, <1>4, <2>1, <2>2, <3>1, NextQuad
    <3> HIDE DEF i
    <3> QED
      BY <1>4, <2>1, <3>2, SimplifiedCodeOK, WithoutGotoOK DEF peephole_optimize
  <2> HIDE DEF found, i
  <2> QED
    BY <1>2, <1>3, <2>1, <2>2
<1>8. CASE CopyPropagate
  <2> DEFINE found == {i \in curr..Len(code) : code[i].op = "move" /\ ~ Narrows(code[i])}
             i == Min(found)
  <2>1. /\ phase = "copy" /\ phase' \in {"copy", "live", "test"} /\ UNCHANGED << body, locals >>
        /\ (found # {} /\ code' = copy_propagate(code, i)) \/ UNCHANGED code
    BY <1>8 DEF CopyPropagate
  <2>2. ASSUME found # {} PROVE CodeOK(copy_propagate(code, i), Syms)
    <3>1. found \in SUBSET (curr..Len(code))
      OBVIOUS
    <3>2. i \in DOMAIN code /\ i \in found
      <4> HIDE DEF found
      <4> QED
        BY <1>1, <1>4, <2>1, <2>2, <3>1, NextQuad
    <3>3. code[i].op = "move"
      BY <3>2
    <3> HIDE DEF i
    <3> QED
      BY <1>4, <2>1, <3>2, <3>3, CopyPropagateOK
  <2> HIDE DEF found, i
  <2> QED
    BY <1>2, <1>3, <2>1, <2>2
<1>9. CASE LiveAnalysis
  <2>1. /\ phase = "live" /\ phase' \in {"inout", "emit", "test"}
        /\ code' = MarkLeaders(code) /\ UNCHANGED << body, locals >>
    BY <1>9 DEF LiveAnalysis
  <2> QED
    BY <1>3, <1>4, <2>1, MarkLeadersOK
<1>10. CASE InAndOut
  BY <1>2, <1>10 DEF InAndOut
<1>11. CASE SweepTest
  BY <1>2, <1>11 DEF SweepTest
<1>12. CASE DeadCode
  <2>1. /\ phase = "dead" /\ phase' \in {"graph", "test"}
        /\ code' = deadCodeEliminate(code, in) /\ UNCHANGED << body, locals >>
    BY <1>12 DEF DeadCode
  <2> QED
    BY <1>3, <1>4, <2>1, DeadCodeOK
<1>13. CASE RoundTest
  BY <1>2, <1>13 DEF RoundTest
<1>14. CASE RegAlloc
  BY <1>2, <1>14 DEF RegAlloc
<1>15. CASE Color
  BY <1>2, <1>15 DEF Color
<1>16. CASE Emit
  BY <1>2, <1>16 DEF Emit
<1>17. CASE allocate_storage
  BY <1>2, <1>17 DEF allocate_storage
<1>18. CASE Enter
  BY <1>2, <1>18 DEF Enter
<1>19. CASE Execute
  BY <1>2, <1>19 DEF Execute
<1>20. CASE UNCHANGED vars
  BY <1>1, <1>20 DEF CodeInv, Syms, vars
<1> QED
  BY <1>5, <1>6, <1>7, <1>8, <1>9, <1>10, <1>11, <1>12, <1>13, <1>14, <1>15, <1>16, <1>17, <1>18,
     <1>19, <1>20 DEF Next, Compile

(* The passes stay inside the list and the symbols.                        *)
LEMMA PlaceStep ==
  ASSUME CInv, [Next]_vars
  PROVE  PlaceInv'
<1> USE DEF compiled, Phases
<1>1. CodeInv /\ phase \in Phases /\ curr \in Nat \ {0} /\ todo \subseteq Ids(locals)
  BY DEF CInv, PlaceInv
<1>2. ASSUME phase' \in Phases, UNCHANGED << curr, todo, locals >>
      PROVE  PlaceInv'
  BY <1>1, <1>2 DEF PlaceInv
<1>3. phase # "generate" => CodeOK(code, Syms)
  BY <1>1 DEF CodeInv
<1>4. CASE Generate
  <2>1. locals = {} /\ todo' = todo /\ curr' = curr /\ phase' = "round"
    BY <1>1, <1>4 DEF Generate, CodeInv
  <2> QED
    BY <1>1, <2>1 DEF PlaceInv, Ids
<1>5. CASE Round
  BY <1>1, <1>5 DEF Round, PlaceInv
<1>6. CASE Peephole
  <2> DEFINE found == {i \in curr..Len(code) : JumpsOverGoto(code, i) \/ Simplify(code[i]) # code[i]}
  <2>1. /\ phase = "peephole" /\ phase' \in {"peephole", "copy"} /\ UNCHANGED << locals, todo >>
        /\ (found # {} /\ curr' = Min(found) + 1) \/ curr' = 1
    BY <1>6 DEF Peephole
  <2>2. found # {} => Min(found) + 1 \in Nat \ {0}
    <3>1. found \in SUBSET (curr..Len(code))
      OBVIOUS
    <3> HIDE DEF found
    <3> QED
      BY <1>1, <1>3, <2>1, <3>1, NextQuad
  <2> HIDE DEF found
  <2> QED
    BY <1>1, <2>1, <2>2 DEF PlaceInv
<1>7. CASE CopyPropagate
  <2> DEFINE found == {i \in curr..Len(code) : code[i].op = "move" /\ ~ Narrows(code[i])}
  <2>1. /\ phase = "copy" /\ phase' \in {"copy", "live", "test"} /\ UNCHANGED << locals, todo >>
        /\ (found # {} /\ curr' = Min(found) + 1) \/ curr' = curr
    BY <1>7 DEF CopyPropagate
  <2>2. found # {} => Min(found) + 1 \in Nat \ {0}
    <3>1. found \in SUBSET (curr..Len(code))
      OBVIOUS
    <3> HIDE DEF found
    <3> QED
      BY <1>1, <1>3, <2>1, <3>1, NextQuad
  <2> HIDE DEF found
  <2> QED
    BY <1>1, <2>1, <2>2 DEF PlaceInv
<1>8. CASE LiveAnalysis
  BY <1>2, <1>8 DEF LiveAnalysis
<1>9. CASE InAndOut
  BY <1>2, <1>9 DEF InAndOut
<1>10. CASE SweepTest
  BY <1>2, <1>10 DEF SweepTest, graph
<1>11. CASE DeadCode
  BY <1>2, <1>11 DEF DeadCode
<1>12. CASE RoundTest
  BY <1>2, <1>12 DEF RoundTest
<1>13. CASE RegAlloc
  <2>1. todo' \subseteq Ids(locals) /\ UNCHANGED << curr, locals >> /\ phase' = "color"
    BY <1>13 DEF RegAlloc, Ids
  <2> QED
    BY <1>1, <2>1 DEF PlaceInv
<1>14. CASE Color
  <2>1. todo' \subseteq todo /\ UNCHANGED << curr, locals >> /\ phase' \in {"color", "emit"}
    BY <1>14 DEF Color
  <2> QED
    BY <1>1, <2>1 DEF PlaceInv
<1>15. CASE Emit
  BY <1>1, <1>15 DEF Emit, PlaceInv
<1>16. CASE allocate_storage
  <2>1. todo' \subseteq todo /\ UNCHANGED << curr, locals >> /\ phase' \in {"layout", "done"}
    BY <1>16 DEF allocate_storage
  <2> QED
    BY <1>1, <2>1 DEF PlaceInv
<1>17. CASE Enter
  BY <1>2, <1>17 DEF Enter
<1>18. CASE Execute
  BY <1>1, <1>2, <1>18 DEF Execute
<1>19. CASE UNCHANGED vars
  BY <1>1, <1>2, <1>19 DEF vars
<1> QED
  BY <1>4, <1>5, <1>6, <1>7, <1>8, <1>9, <1>10, <1>11, <1>12, <1>13, <1>14, <1>15, <1>16, <1>17, <1>18,
     <1>19 DEF Next, Compile

(* Blocks and live sets as live_analysis begins with them.                 *)
LEMMA LiveAnalysisAnalyses ==
  ASSUME NEW c, NEW A, CodeOK(c, A)
  PROVE  LET d == MarkLeaders(c)
         IN  Analysed(d, [b \in Leaders(d) |-> calculateDefAndUse(d)[b].use])
<1> DEFINE d == MarkLeaders(c)
<1>1. CodeOK(d, A) /\ Marked(d)
  BY MarkLeadersOK
<1> HIDE DEF d
<1>2. \A b \in DOMAIN d : calculateDefAndUse(d)[b] \in [def : SUBSET Int, use : SUBSET Int]
  BY <1>1, DefAndUseIs
<1>3. \A b \in Leaders(d) : calculateDefAndUse(d)[b].use \in SUBSET Int
  BY <1>2 DEF Leaders
<1>4. Analysed(d, [b \in Leaders(d) |-> calculateDefAndUse(d)[b].use])
  BY <1>1, <1>3 DEF Analysed
<1> QED
  BY <1>4 DEF d

(* A sweep leaves a live set for each block.                               *)
LEMMA SweepKeepsType ==
  ASSUME NEW c, NEW A, CodeOK(c, A), NEW live, Analysed(c, live)
  PROVE  Analysed(c, calculateInAndOut(c, live))
<1> DEFINE du == calculateDefAndUse(c)
<1>1. DOMAIN live = Leaders(c) /\ \A b \in Leaders(c) : b \in DOMAIN c
  BY DEF Analysed, Leaders
<1>2. \A b \in DOMAIN c : du[b] \in [def : SUBSET Int, use : SUBSET Int]
  BY DefAndUseIs
<1>3. \A b \in Leaders(c) : Out(c, live, LastOf(c, b)) \in SUBSET Int
  BY <1>1, LastOfIs, SuccessorsLead
<1>4. calculateInAndOut(c, live) = [b \in Leaders(c) |-> du[b].use \cup (Out(c, live, LastOf(c, b)) \ du[b].def)]
  BY <1>1 DEF calculateInAndOut
<1> HIDE DEF du
<1>5. calculateInAndOut(c, live) \in [Leaders(c) -> SUBSET Int]
  BY <1>1, <1>2, <1>3, <1>4
<1> QED
  BY <1>5 DEF Analysed

(* The live sets solve their equations when the sweeps end, and cover the  *)
(* code left.                                                              *)
LEMMA LiveStep ==
  ASSUME CInv, [Next]_vars
  PROVE  LiveInv'
<1> USE DEF compiled
<1> DEFINE Live == {"inout", "swept", "dead", "graph", "color"}
<1>1. CodeInv /\ LiveInv
  BY DEF CInv
<1>2. phase # "generate" => CodeOK(code, Syms) /\ locals = {s \in Syms : s.scope = "local"}
  BY <1>1, GeneratedCode DEF CodeInv
<1>3. ASSUME phase' \notin Live PROVE LiveInv'
  BY <1>3 DEF LiveInv
<1>4. CASE Generate
  BY <1>3, <1>4 DEF Generate
<1>5. CASE Round
  <2>1. phase' \in {"peephole", "live", "test"}
    BY <1>5 DEF Round
  <2> QED
    BY <1>3, <2>1
<1>6. CASE Peephole
  BY <1>3, <1>6 DEF Peephole
<1>7. CASE CopyPropagate
  BY <1>3, <1>7 DEF CopyPropagate
<1>8. CASE LiveAnalysis
  <2>1. /\ phase = "live" /\ phase' \in {"inout", "emit", "test"} /\ code' = MarkLeaders(code)
        /\ in' = [b \in Leaders(code') |-> calculateDefAndUse(code')[b].use]
    BY <1>8 DEF LiveAnalysis
  <2>2. Analysed(code', in')
    BY <1>2, <2>1, LiveAnalysisAnalyses
  <2> QED
    BY <2>1, <2>2 DEF LiveInv
<1>9. CASE InAndOut
  <2>1. /\ phase = "inout" /\ phase' = "swept" /\ code' = code /\ in' = calculateInAndOut(code, in)
        /\ isInAndOutChanged' = (in' # in)
    BY <1>9 DEF InAndOut
  <2>2. Analysed(code', in')
    BY <1>1, <1>2, <2>1, SweepKeepsType DEF LiveInv
  <2>3. ~ isInAndOutChanged' => in' = calculateInAndOut(code', in')
    BY <2>1
  <2> QED
    BY <2>1, <2>2, <2>3 DEF LiveInv
<1>10. CASE SweepTest
  <2>1. /\ phase = "swept" /\ phase' = IF isInAndOutChanged THEN "inout" ELSE "dead"
        /\ UNCHANGED << code, in >>
    BY <1>10 DEF SweepTest, graph
  <2> QED
    BY <1>1, <2>1 DEF LiveInv
<1>11. CASE DeadCode
  <2>1. /\ phase = "dead" /\ phase' \in {"graph", "test"} /\ code' = deadCodeEliminate(code, in)
        /\ in' = in /\ locals' = locals
    BY <1>11 DEF DeadCode, graph
  <2>2. Analysed(code, in) /\ in = calculateInAndOut(code, in)
    BY <1>1, <2>1 DEF LiveInv
  <2>3. Analysed(code', in') /\ CoveredIn(locals', code', in')
    <3>1. CodeOK(code, Syms) /\ locals = {s \in Syms : s.scope = "local"}
      BY <1>2, <2>1
    <3>2. LET d == deadCodeEliminate(code, in)
          IN  Analysed(d, in) /\ CoveredIn({s \in Syms : s.scope = "local"}, d, in)
      BY <2>2, <3>1, DeadCodeIsCovered
    <3> QED
      BY <2>1, <3>1, <3>2
  <2> QED
    BY <2>1, <2>3 DEF LiveInv, Covered
<1>12. CASE RoundTest
  <2>1. phase' \in {"round", "live", "emit"}
    BY <1>12 DEF RoundTest
  <2> QED
    BY <1>3, <2>1
<1>13. CASE RegAlloc
  <2>1. /\ phase = "graph" /\ phase' = "color" /\ edges' = Interference(code, in)
        /\ UNCHANGED << code, in, locals >>
    BY <1>13 DEF RegAlloc
  <2> QED
    BY <1>1, <2>1 DEF LiveInv, Covered
<1>14. CASE Color
  <2>1. /\ phase = "color" /\ phase' \in {"color", "emit"} /\ UNCHANGED << code, in, locals, edges >>
    BY <1>14 DEF Color
  <2> QED
    BY <1>1, <2>1 DEF LiveInv, Covered
<1>15. CASE Emit
  BY <1>3, <1>15 DEF Emit
<1>16. CASE allocate_storage
  BY <1>3, <1>16 DEF allocate_storage
<1>17. CASE Enter
  BY <1>3, <1>17 DEF Enter
<1>18. CASE Execute
  BY <1>3, <1>18 DEF Execute
<1>19. CASE UNCHANGED vars
  BY <1>1, <1>19 DEF vars, graph, LiveInv, Covered
<1> QED
  BY <1>4, <1>5, <1>6, <1>7, <1>8, <1>9, <1>10, <1>11, <1>12, <1>13, <1>14, <1>15, <1>16, <1>17, <1>18,
     <1>19 DEF Next, Compile

(***************************************************************************)
(* Colouring.                                                              *)
(***************************************************************************)
(* A free register is one that no neighbour has.                           *)
LEMMA FreeRegister ==
  ASSUME NEW x, Free(x) # {}
  PROVE  /\ Min(Free(x)) \in 0..NUM_REGS - 1
         /\ \A y \in DOMAIN regName : {x, y} \in edges => regName[y] # Min(Free(x))
<1>1. Free(x) \in SUBSET Nat
  BY OptimizerAssumption DEF Free
<1>2. Min(Free(x)) \in Free(x)
  BY <1>1, MinOfNats
<1> QED
  BY <1>2 DEF Free

(* Only an int that is no parameter and no result gets a register.         *)
LEMMA MayHaveRegisterCanHold ==
  ASSUME CodeInv, NEW v \in Ids({s \in locals : MayHaveRegister(s)})
  PROVE  CanHold(v)
<1>1. PICK s \in locals : s.id = v /\ s.type = "int" /\ ~ s.isReturn
  BY DEF Ids, MayHaveRegister
<1> QED
  BY <1>1, LocalSymbols DEF CanHold, CanHoldIn

(* Colouring one variable keeps the colouring proper (reg_alloc,           *)
(* codegen.c:2236).                                                        *)
LEMMA ColorStep ==
  ASSUME CInv, Color
  PROVE  RegInv'
<1> USE DEF compiled
<1>1. CodeInv /\ RegInv /\ LiveInv /\ todo \subseteq Ids(locals) /\ NUM_REGS \in Nat
  BY OptimizerAssumption DEF CInv, PlaceInv
<1>2. /\ phase = "color" /\ phase' \in {"color", "emit"} /\ UNCHANGED << code, in, locals, edges >>
  BY DEF Color
<1>3. Analysed(code, in) /\ Covered(code, in) /\ edges = Interference(code, in) /\ Proper
  BY <1>1, <1>2 DEF LiveInv, RegInv, Coloured, NoRegisters, Proper
<1>4. ASSUME UNCHANGED regName, todo' \subseteq todo PROVE RegInv'
  BY <1>1, <1>2, <1>4, <1>3
     DEF RegInv, Allocated, CanHold, Coloured, Covered, Proper, NoRegisters
<1>5. ASSUME todo # {}, Free(Min(todo)) # {},
             regName' = [regName EXCEPT ![Min(todo)] = Min(Free(Min(todo)))], todo' \subseteq todo
      PROVE  RegInv'
  <2> DEFINE x == Min(todo)
             r == Min(Free(x))
  <2>1. x \in Ids(locals) /\ x \in todo
    BY <1>1, <1>5, NextSymbol
  <2>2. r \in 0..NUM_REGS - 1 /\ \A y \in DOMAIN regName : {x, y} \in edges => regName[y] # r
    BY <1>5, FreeRegister
  <2>3. regName' = [regName EXCEPT ![x] = r]
    BY <1>5
  <2> HIDE DEF x, r
  <2>4. /\ regName \in [Ids(locals) -> -1..NUM_REGS - 1] /\ \A v \in todo : CanHold(v)
        /\ \A v \in DOMAIN regName : regName[v] # -1 => CanHold(v)
    BY <1>1, <1>2 DEF RegInv
  <2>5. regName' \in [Ids(locals) -> -1..NUM_REGS - 1]
    BY <1>1, <2>1, <2>2, <2>3, <2>4
  <2>6. \A v \in Ids(locals) : regName'[v] = IF v = x THEN r ELSE regName[v]
    BY <2>3, <2>4
  <2>7. Proper'
    <3> SUFFICES ASSUME NEW v \in Ids(locals), NEW w \in Ids(locals),
                        v # w, {v, w} \in edges, regName'[v] = regName'[w]
                 PROVE  regName'[v] = -1
      BY <1>2, <2>5 DEF Proper
    <3>1. DOMAIN regName = Ids(locals)
      BY <2>4
    <3>2. CASE v = x
      BY <2>2, <2>6, <3>1, <3>2
    <3>3. CASE w = x
      <4>1. {w, v} \in edges
        OBVIOUS
      <4> QED
        BY <2>2, <2>6, <3>1, <3>3, <4>1
    <3>4. CASE v # x /\ w # x
      BY <1>3, <2>6, <3>1, <3>4 DEF Proper
    <3> QED
      BY <3>2, <3>3, <3>4
  <2>8. Coloured'
    BY <1>2, <1>3, <2>7 DEF Coloured, Covered
  <2>9. \A v \in DOMAIN regName' : regName'[v] # -1 => CanHold(v)'
    BY <1>2, <2>1, <2>4, <2>5, <2>6 DEF CanHold
  <2>10. \A v \in todo' : CanHold(v)'
    BY <1>2, <1>5, <2>4 DEF CanHold
  <2> QED
    BY <1>2, <2>5, <2>8, <2>9, <2>10 DEF RegInv, Allocated
<1>6. \/ UNCHANGED regName /\ todo' \subseteq todo
      \/ /\ todo # {} /\ Free(Min(todo)) # {} /\ todo' \subseteq todo
         /\ regName' = [regName EXCEPT ![Min(todo)] = Min(Free(Min(todo)))]
  BY DEF Color
<1> QED
  BY <1>4, <1>5, <1>6

(* Registers are given by the colouring only, and its graph stays that of  *)
(* the code.                                                               *)
LEMMA RegStep ==
  ASSUME CInv, [Next]_vars
  PROVE  RegInv'
<1> USE DEF compiled, graph
<1>1. CodeInv /\ RegInv /\ LiveInv
  BY DEF CInv
<1>2. ASSUME phase \notin Allocated, phase' # "color", UNCHANGED << regName, locals >>
      PROVE  RegInv'
  BY <1>1, <1>2 DEF RegInv, NoRegisters, CanHold
<1>3. ASSUME phase \in Allocated, phase' \in Allocated \ {"color"},
             UNCHANGED << regName, locals, code, in, edges >>
      PROVE  RegInv'
  BY <1>1, <1>3 DEF RegInv, NoRegisters, CanHold, Coloured, Covered, Proper
<1>4. CASE Generate
  <2>1. regName' = [x \in Ids(locals') |-> -1] /\ phase' = "round"
    BY <1>4 DEF Generate
  <2>2. -1 \in -1..NUM_REGS - 1
    BY OptimizerAssumption
  <2> QED
    BY <2>1, <2>2 DEF RegInv, NoRegisters
<1>5. CASE Round
  <2>1. phase' \in {"peephole", "live", "test"} /\ phase = "round" /\ UNCHANGED << regName, locals >>
    BY <1>5 DEF Round
  <2> QED
    BY <1>2, <2>1 DEF Allocated
<1>6. CASE Peephole
  BY <1>2, <1>6 DEF Peephole, Allocated
<1>7. CASE CopyPropagate
  BY <1>2, <1>7 DEF CopyPropagate, Allocated
<1>8. CASE LiveAnalysis
  BY <1>2, <1>8 DEF LiveAnalysis, Allocated
<1>9. CASE InAndOut
  BY <1>2, <1>9 DEF InAndOut, Allocated
<1>10. CASE SweepTest
  BY <1>2, <1>10 DEF SweepTest, Allocated
<1>11. CASE DeadCode
  BY <1>2, <1>11 DEF DeadCode, Allocated
<1>12. CASE RoundTest
  <2>1. phase' \in {"round", "live", "emit"} /\ phase = "test" /\ UNCHANGED << regName, locals >>
    BY <1>12 DEF RoundTest
  <2> QED
    BY <1>2, <2>1 DEF Allocated
<1>13. CASE RegAlloc
  <2>1. /\ phase = "graph" /\ phase' = "color" /\ UNCHANGED << regName, locals >>
        /\ todo' = Ids({s \in locals : MayHaveRegister(s)})
    BY <1>13 DEF RegAlloc
  <2>2. \A v \in todo' : CanHold(v)
    BY <1>1, <2>1, MayHaveRegisterCanHold
  <2> QED
    BY <1>1, <2>1, <2>2 DEF RegInv, NoRegisters, CanHold, Allocated
<1>14. CASE Color
  BY <1>14, ColorStep
<1>15. CASE Emit
  <2>1. phase = "emit" /\ phase' = "layout" /\ UNCHANGED << regName, locals, code, in, edges >>
    BY <1>15 DEF Emit
  <2> QED
    BY <1>3, <2>1 DEF Allocated
<1>16. CASE allocate_storage
  <2>1. phase = "layout" /\ phase' \in {"layout", "done"} /\ UNCHANGED << regName, locals, code, in, edges >>
    BY <1>16 DEF allocate_storage
  <2> QED
    BY <1>3, <2>1 DEF Allocated
<1>17. CASE Enter
  BY <1>3, <1>17 DEF Enter, Allocated
<1>18. CASE Execute
  BY <1>3, <1>18 DEF Execute, Allocated
<1>19. CASE UNCHANGED vars
  BY <1>1, <1>19 DEF vars, RegInv, NoRegisters, CanHold, Coloured, Covered, Proper
<1> QED
  BY <1>4, <1>5, <1>6, <1>7, <1>8, <1>9, <1>10, <1>11, <1>12, <1>13, <1>14, <1>15, <1>16, <1>17, <1>18,
     <1>19 DEF Next, Compile
(***************************************************************************)
(* A run.                                                                  *)
(***************************************************************************)
(* What is live before the next quad is live after this one.               *)
LEMMA FollowIsLive ==
  ASSUME CodeInv, phase = "run", Coloured, pc \in DOMAIN code, NEW q \in Follow(code, pc),
         NEW v \in Ids(locals), CanHold(v), v \in Before(code, liveNow(code, in), q)
  PROVE  v \in liveNow(code, in)[pc]
<1> DEFINE now == liveNow(code, in)
<1>1. CodeOK(code, Syms) /\ Analysed(code, in) /\ Covered(code, in)
  BY DEF CodeInv, Coloured
<1>2. now[pc] = IF EndsBlock(code, pc) THEN Out(code, in, pc) ELSE Before(code, now, pc + 1)
  BY <1>1, LiveNowIs
<1>3. PICK n \in Nat \ {0} : n = Len(code)
  BY <1>1, CodeIsList
<1>4. DOMAIN code = 1..n /\ code[n].op = "ret"
  BY <1>1, <1>3, CodeIsList
<1> HIDE DEF now
<1>5. CASE EndsBlock(code, pc)
  <2>1. pc # n
    BY <1>4 DEF Follow, Ifs
  <2>2. q \in Successors(code, pc)
    BY <1>3, <2>1 DEF Follow, Successors, Jumps, Ifs
  <2>3. q \in Leaders(code)
    BY <1>1, <1>5, <2>2, SuccessorsLead
  <2>4. v \in in[q]
    BY <1>1, <2>3 DEF Covered, CoveredIn, CanHold
  <2>5. v \in now[pc]
    BY <1>2, <1>5, <2>2, <2>4 DEF Out
  <2> QED
    BY <2>5 DEF now
<1>6. CASE ~ EndsBlock(code, pc)
  <2>1. code[pc].op \notin Jumps
    <3>1. ASSUME code[pc].op \in Jumps PROVE pc + 1 \in Leaders(code)
      BY <1>1, <3>1 DEF Analysed, Marked
    <3> QED
      BY <1>6, <3>1 DEF EndsBlock, Leaders
  <2>2. q = pc + 1
    BY <2>1 DEF Follow, Jumps
  <2>3. v \in now[pc]
    BY <1>2, <1>6, <2>2 DEF now
  <2> QED
    BY <2>3 DEF now
<1> QED
  BY <1>5, <1>6

(* A run goes on inside the code.                                          *)
LEMMA FollowIsThere ==
  ASSUME NEW c, NEW A, CodeOK(c, A), NEW i \in DOMAIN c, NEW q \in Follow(c, i)
  PROVE  q \in DOMAIN c
<1>1. PICK n \in Nat \ {0} : n = Len(c)
  BY CodeIsList
<1>2. DOMAIN c = 1..n /\ c[n].op = "ret"
  BY <1>1, CodeIsList
<1>3. i # n
  BY <1>2 DEF Follow, Ifs
<1>4. i + 1 \in DOMAIN c
  BY <1>2, <1>3
<1>5. c[i].op \in Jumps => LabelAt(c, c[i].dst.i) \in DOMAIN c
  BY LabelIsThere
<1> QED
  BY <1>4, <1>5 DEF Follow, Jumps

(* What a quad stores that may be in a register is what it defines; what   *)
(* it then shares no register with is what is live after it.               *)
LEMMA StoredIsAlone ==
  ASSUME CodeInv, phase = "run", Coloured, pc \in DOMAIN code,
         DOMAIN regName = Ids(locals),
         NEW w \in Ids(Stored(code[pc])), regName[w] # -1, CanHold(w),
         NEW v \in liveNow(code, in)[pc], v \in Ids(locals), regName[v] = regName[w]
  PROVE  v = w
<1> DEFINE q == code[pc]
           d == Scalars(DstOf(q))
<1>1. CodeOK(code, Syms) /\ locals = {s \in Syms : s.scope = "local"}
  BY GeneratedCode DEF CodeInv
<1>2. QuadOK(q) /\ SymbolsIn(q) \subseteq Syms
  BY <1>1, CodeIsList
<1>3. edges = Interference(code, in) /\ Proper
  BY DEF Coloured
<1> HIDE DEF q
<1>4. PICK s \in Stored(q) : s.id = w
  BY DEF Ids, q
<1>5. s \in locals
  BY <1>1, <1>2, <1>4 DEF Stored, LocalOf, SymbolsIn
<1>6. s.type = "int" /\ ~ s.isReturn
  BY <1>4, <1>5 DEF CanHold, CanHoldIn
<1>7. q.op \in Ariths \cup {"move", "neg"} /\ q.dst.k = "sym" /\ s \in LocalOf(q.dst)
  <2>1. q.op # "retrieve"
    BY <1>2, <1>4, <1>6 DEF Stored, QuadOK, LocalOf, SymbolIn, Ariths
  <2> QED
    BY <1>4, <2>1 DEF Stored
<1>8. DstOf(q) = {s}
  BY <1>7 DEF DstOf, Defines, LocalOf, SymbolIn
<1>9. d = {w}
  BY <1>4, <1>6, <1>8 DEF Scalars, Ids
<1>10. ASSUME v # w PROVE {w, v} \in edges
  <2>1. {w, v} \in registerAllocateInBlock(code, liveNow(code, in), pc)
    BY <1>9, <1>10 DEF registerAllocateInBlock, q
  <2> QED
    BY <1>3, <2>1 DEF Interference
<1>11. w \in Ids(locals)
  BY <1>4, <1>5 DEF Ids
<1> QED
  BY <1>3, <1>10, <1>11 DEF Proper

(* A quad that runs leaves in the registers of what is live after it what  *)
(* was there, or what it stored for it.                                    *)
LEMMA ExecuteStep ==
  ASSUME CInv, Execute
  PROVE  RunInv'
<1> USE DEF compiled, graph
<1> DEFINE written == Ids(Stored(code[pc]))
           In(r) == {v \in written : regName[v] = r}
           now == liveNow(code, in)
           Rs == 0..NUM_REGS - 1
<1>1. /\ CodeInv /\ RegInv /\ phase = "run" /\ CodeOK(code, Syms) /\ NUM_REGS \in Nat
      /\ locals = {s \in Syms : s.scope = "local"}
  BY OptimizerAssumption, GeneratedCode DEF CInv, CodeInv, Execute
<1>2. /\ pc \in DOMAIN code /\ owner \in [Rs -> Ids(locals) \cup {Nobody}]
      /\ \A v \in DOMAIN regName :
           regName[v] # -1 /\ v \in Before(code, now, pc) => owner[regName[v]] \in {v, Nobody}
  BY <1>1 DEF CInv, RunInv
<1>3. /\ pc' \in Follow(code, pc)
      /\ owner' = [r \in Rs |-> IF In(r) = {} THEN owner[r] ELSE CHOOSE v \in In(r) : TRUE]
      /\ UNCHANGED << code, in, regName, locals >> /\ phase' = phase
  BY <1>2 DEF Execute
<1>4. /\ regName \in [Ids(locals) -> -1..NUM_REGS - 1]
      /\ NoRegisters \/ Coloured
      /\ \A v \in DOMAIN regName : regName[v] # -1 => CanHold(v)
  BY <1>1 DEF RegInv
<1>5. pc' \in DOMAIN code
  BY <1>1, <1>2, <1>3, FollowIsThere
<1>6. written \subseteq Ids(locals)
  <2>1. Stored(code[pc]) \subseteq {s \in SymbolsIn(code[pc]) : s.scope = "local"}
    BY DEF Stored, LocalOf, SymbolsIn
  <2>2. SymbolsIn(code[pc]) \subseteq Syms
    BY <1>1, <1>2, CodeIsList
  <2> QED
    BY <1>1, <2>1, <2>2 DEF Ids
<1>7. \A r \in Rs : IF In(r) = {} THEN owner'[r] = owner[r]
                    ELSE owner'[r] \in written /\ regName[owner'[r]] = r
  <2> SUFFICES ASSUME NEW r \in Rs
               PROVE  IF In(r) = {} THEN owner'[r] = owner[r]
                      ELSE owner'[r] \in written /\ regName[owner'[r]] = r
    OBVIOUS
  <2>1. owner'[r] = IF In(r) = {} THEN owner[r] ELSE CHOOSE v \in In(r) : TRUE
    BY <1>3
  <2>2. In(r) # {} => (CHOOSE v \in In(r) : TRUE) \in In(r)
    OBVIOUS
  <2> QED
    BY <2>1, <2>2
<1>8. owner' \in [Rs -> Ids(locals) \cup {Nobody}]
  <2>1. \A r \in Rs : owner'[r] \in Ids(locals) \cup {Nobody}
    BY <1>2, <1>6, <1>7
  <2>2. owner' = [r \in Rs |-> owner'[r]]
    BY <1>3
  <2> QED
    BY <2>1, <2>2
<1>9. ASSUME NEW v \in Ids(locals), regName[v] # -1, v \in Before(code, now, pc')
      PROVE  owner'[regName[v]] \in {v, Nobody}
  <2>1. CanHold(v) /\ Coloured /\ regName[v] \in Rs /\ DOMAIN regName = Ids(locals)
    <3>1. DOMAIN regName = Ids(locals) /\ regName[v] \in -1..NUM_REGS - 1
      BY <1>4
    <3>2. regName[v] \in Rs
      BY <1>1, <1>9, <3>1
    <3> QED
      BY <1>4, <1>9, <3>1, <3>2 DEF NoRegisters
  <2>2. v \in now[pc]
    BY <1>1, <1>2, <1>3, <1>9, <2>1, FollowIsLive
  <2>3. CASE In(regName[v]) = {}
    <3>1. v \notin written
      BY <2>3
    <3>2. v \notin Scalars(DstOf(code[pc]))
      <4>1. QuadOK(code[pc]) /\ SymbolsIn(code[pc]) \subseteq Syms
        BY <1>1, <1>2, CodeIsList
      <4>2. ASSUME v \in Ids(DstOf(code[pc])) PROVE FALSE
        <5>1. ~ Through(code[pc])
          BY <1>1, <2>1, <4>1, <4>2, NeverThrough DEF CanHold
        <5>2. DstOf(code[pc]) = Stored(code[pc])
          <6>1. Defines(code[pc])
            BY <4>2 DEF DstOf, Ids
          <6>2. code[pc].op \in Ariths \cup {"move", "neg"} /\ code[pc].dst.k = "sym"
            BY <4>1, <5>1, <6>1 DEF Defines, Through, QuadOK
          <6> QED
            BY <6>1, <6>2 DEF DstOf, Stored, Ariths
        <5> QED
          BY <3>1, <4>2, <5>2
      <4> QED
        BY <4>2 DEF Scalars, Ids
    <3>3. v \in Before(code, now, pc)
      BY <2>2, <3>2 DEF Before
    <3> HIDE DEF now, In
    <3> QED
      BY <1>2, <1>7, <1>9, <2>1, <2>3, <3>3
  <2>4. CASE In(regName[v]) # {}
    <3>1. PICK w \in written : w = owner'[regName[v]] /\ regName[w] = regName[v]
      BY <1>7, <2>1, <2>4
    <3>2. CanHold(w)
      BY <1>4, <1>6, <1>9, <2>1, <3>1
    <3>3. v = w
      BY <1>1, <1>2, <1>9, <2>1, <2>2, <3>1, <3>2, StoredIsAlone
    <3> QED
      BY <3>1, <3>3
  <2> QED
    BY <2>3, <2>4
<1>10. DOMAIN regName = Ids(locals)
  BY <1>4
<1> HIDE DEF now, written, In, Rs
<1> QED
  BY <1>3, <1>5, <1>8, <1>9, <1>10 DEF RunInv, now, Rs

(* A run keeps the registers of the live variables.                        *)
LEMMA RunStep ==
  ASSUME CInv, [Next]_vars
  PROVE  RunInv'
<1> USE DEF compiled, graph, run
<1>1. ASSUME phase' # "run" PROVE RunInv'
  BY <1>1 DEF RunInv
<1>2. CASE Compile
  <2>1. phase' # "run"
    BY <1>2 DEF Compile, Generate, Round, Peephole, CopyPropagate, LiveAnalysis, InAndOut, SweepTest,
                DeadCode, RoundTest, RegAlloc, Color, Emit, allocate_storage
  <2> QED
    BY <1>1, <2>1
<1>3. CASE Enter
  <2>1. /\ pc' = 1 /\ owner' = [r \in 0..NUM_REGS - 1 |-> Nobody]
        /\ UNCHANGED << code, in, regName, locals >> /\ phase = "done"
    BY <1>3 DEF Enter
  <2>2. 1 \in DOMAIN code
    BY <2>1, CodeIsList DEF CInv, CodeInv
  <2>3. regName \in [Ids(locals) -> -1..NUM_REGS - 1] /\ NUM_REGS \in Nat
    BY OptimizerAssumption DEF CInv, RegInv
  <2>4. \A v \in DOMAIN regName : regName[v] # -1 => regName[v] \in 0..NUM_REGS - 1
    BY <2>3
  <2> QED
    BY <2>1, <2>2, <2>4 DEF RunInv
<1>4. CASE Execute
  BY <1>4, ExecuteStep
<1>5. CASE UNCHANGED vars
  BY <1>5 DEF vars, CInv, RunInv
<1> QED
  BY <1>2, <1>3, <1>4, <1>5 DEF Next
(***************************************************************************)
(* The frame.                                                              *)
(***************************************************************************)
(* The next multiple of 1 or 4.                                            *)
LEMMA RoundUpIs ==
  ASSUME NEW n \in Nat, NEW k \in {1, 4}
  PROVE  RoundUp(n, k) \in Nat /\ RoundUp(n, k) >= n /\ RoundUp(n, k) % k = 0
<1>1. CASE k = 1
  BY <1>1 DEF RoundUp
<1>2. CASE k = 4
  BY <1>2 DEF RoundUp
<1> QED
  BY <1>1, <1>2

(* The size of a local, and the alignment of its width.                    *)
LEMMA Sizes ==
  ASSUME CodeInv, NEW s \in locals, ~ IsFormal(s)
  PROVE  /\ memory_alignment(s) \in {1, 4} /\ space_needed(s) = BytesOf(s) /\ BytesOf(s) \in Nat
         /\ Width(s.elt) = 4 /\ s.type # "char" => memory_alignment(s) = 4 /\ BytesOf(s) % 4 = 0
<1>1. s.type \in {"int", "char", "addr", "array"}
  BY LocalSymbols
<1>2. s.type = "array" => NumElts[s.id] \in Nat
  <2>1. phase # "generate"
    BY DEF CodeInv
  <2> QED
    BY <2>1, OptimizerAssumption DEF CodeInv
<1>3. Width(s.elt) \in {1, 4}
  BY DEF Width
<1>4. CASE s.type = "array"
  <2>1. PICK n \in Nat : n = NumElts[s.id]
    BY <1>2, <1>4
  <2>2. space_needed(s) = n * Width(s.elt) /\ BytesOf(s) = n * Width(s.elt) /\ memory_alignment(s) = Width(s.elt)
    BY <1>4, <2>1 DEF space_needed, BytesOf, memory_alignment
  <2>3. n * 1 \in Nat /\ n * 4 \in Nat /\ (n * 4) % 4 = 0
    OBVIOUS
  <2> QED
    BY <1>3, <2>2, <2>3
<1>5. CASE s.type # "array"
  BY <1>1, <1>5 DEF space_needed, BytesOf, memory_alignment
<1> QED
  BY <1>4, <1>5

(* A symbol is placed below all those placed before (allocate_storage,     *)
(* symbol-table.c:338).                                                    *)
LEMMA PlaceASymbol ==
  ASSUME CInv, allocate_storage, todo # {}, NEW x, x = Min(todo),
         offset' = [offset EXCEPT ![x] = IF IsFormal(SymbolOf(x)) THEN 8 + 4 * (SymbolOf(x).argpos - 1)
                                         ELSE -(RoundUp(curr_offset, memory_alignment(SymbolOf(x)))
                                                  + space_needed(SymbolOf(x)))],
         curr_offset' = IF IsFormal(SymbolOf(x)) THEN curr_offset
                        ELSE RoundUp(curr_offset, memory_alignment(SymbolOf(x))) + space_needed(SymbolOf(x)),
         todo' = todo \ {x}, phase' = "layout"
  PROVE  LayoutInv'
<1>1. CodeInv /\ phase = "layout" /\ LayoutInv /\ todo \subseteq Ids(locals)
  BY DEF CInv, PlaceInv, allocate_storage
<1>2. PICK sx \in locals : sx = SymbolOf(x) /\ sx.id = x /\ x \in todo /\ x \in Ids(locals)
  BY <1>1, NextSymbol
<1>3. locals' = locals
  BY DEF allocate_storage, compiled
<1>4. /\ curr_offset \in Nat /\ offset \in [Ids(locals) \cup {0} -> Int]
      /\ \A s \in locals : Placed(s) =>
            /\ Bytes(s) \subseteq -curr_offset..-1
            /\ Width(s.elt) = 4 /\ s.type # "char" => offset[s.id] % 4 = 0
            /\ \A r \in locals \ {s} : Placed(r) => Bytes(s) \cap Bytes(r) = {}
  BY <1>1 DEF LayoutInv
<1>5. \A s \in locals : s # sx => s.id # x
  BY <1>1, <1>2, LocalSymbols
<1>6. \A s \in locals : s.id \in Ids(locals)
  BY DEF Ids
<1>7. CASE IsFormal(sx)
  <2>1. 8 + 4 * (sx.argpos - 1) \in Int
    <3>1. sx.argpos \in Int
      BY <1>1, <1>2, LocalSymbols DEF Symbols
    <3> QED
      BY <3>1
  <2>2. /\ offset' \in [Ids(locals) \cup {0} -> Int] /\ curr_offset' = curr_offset
        /\ \A s \in locals : s # sx => offset'[s.id] = offset[s.id]
    <3>1. offset' = [offset EXCEPT ![x] = 8 + 4 * (sx.argpos - 1)]
      BY <1>2, <1>7
    <3> QED
      BY <1>2, <1>4, <1>5, <1>6, <1>7, <2>1, <3>1
  <2>3. \A s \in locals : Placed(s)' => s # sx /\ Placed(s) /\ Bytes(s)' = Bytes(s)
    BY <1>5, <1>7, <2>2 DEF Placed, Bytes, BytesOf
  <2>4. \A s \in locals : Placed(s)' =>
            /\ Bytes(s)' \subseteq -curr_offset'..-1
            /\ Width(s.elt) = 4 /\ s.type # "char" => offset'[s.id] % 4 = 0
            /\ \A r \in locals \ {s} : Placed(r)' => Bytes(s)' \cap Bytes(r)' = {}
    BY <1>4, <2>2, <2>3
  <2> QED
    BY <1>3, <1>4, <2>2, <2>4 DEF LayoutInv
<1>8. CASE ~ IsFormal(sx)
  <2>1. PICK k \in {1, 4}, size \in Nat :
           /\ k = memory_alignment(sx) /\ size = space_needed(sx) /\ size = BytesOf(sx)
           /\ Width(sx.elt) = 4 /\ sx.type # "char" => k = 4 /\ size % 4 = 0
    <3>1. PICK k \in {1, 4} : k = memory_alignment(sx)
      BY <1>1, <1>2, <1>8, Sizes
    <3>2. PICK size \in Nat : size = BytesOf(sx) /\ size = space_needed(sx)
      BY <1>1, <1>2, <1>8, Sizes
    <3>3. Width(sx.elt) = 4 /\ sx.type # "char" => k = 4 /\ size % 4 = 0
      BY <1>1, <1>2, <1>8, <3>1, <3>2, Sizes
    <3> QED
      BY <3>1, <3>2, <3>3
  <2>2. PICK start \in Nat : start = RoundUp(curr_offset, k) /\ start >= curr_offset /\ start % k = 0
    BY <1>4, RoundUpIs
  <2>3. PICK end \in Nat : end = start + size
    OBVIOUS
  <2>4. curr_offset' = end /\ offset' = [offset EXCEPT ![x] = -end]
    BY <1>2, <1>8, <2>1, <2>2, <2>3
  <2>5. -end \in Int
    OBVIOUS
  <2>6. /\ offset' \in [Ids(locals) \cup {0} -> Int] /\ offset'[x] = -end
        /\ \A s \in locals : s # sx => offset'[s.id] = offset[s.id]
    BY <1>2, <1>4, <1>5, <1>6, <2>4, <2>5
  <2>7. \A s \in locals : s # sx /\ Placed(s)' => Placed(s) /\ Bytes(s)' = Bytes(s)
    BY <1>5, <2>6 DEF Placed, Bytes, BytesOf
  <2>8. Bytes(sx)' = -end..-end + size - 1
    BY <1>2, <2>1, <2>6 DEF Bytes, BytesOf
  <2>9. /\ Bytes(sx)' \subseteq -end..-1
        /\ Bytes(sx)' \cap -curr_offset..-1 = {}
        /\ -curr_offset..-1 \subseteq -end..-1
    <3>1. PICK co \in Nat : co = curr_offset
      BY <1>4
    <3>2. /\ (-end..-end + size - 1) \subseteq -end..-1
          /\ (-end..-end + size - 1) \cap (-co..-1) = {}
          /\ -co..-1 \subseteq -end..-1
      BY <2>2, <2>3, <3>1
    <3> QED
      BY <2>8, <3>1, <3>2
  <2>10. Width(sx.elt) = 4 /\ sx.type # "char" => offset'[x] % 4 = 0
    <3> SUFFICES ASSUME Width(sx.elt) = 4, sx.type # "char" PROVE (-end) % 4 = 0
      BY <2>6
    <3>1. start % 4 = 0 /\ size % 4 = 0
      BY <2>1, <2>2
    <3> QED
      BY <2>3, <3>1
  <2>11. ASSUME NEW s \in locals, Placed(s)'
         PROVE  /\ Bytes(s)' \subseteq -curr_offset'..-1
                /\ Width(s.elt) = 4 /\ s.type # "char" => offset'[s.id] % 4 = 0
                /\ \A r \in locals \ {s} : Placed(r)' => Bytes(s)' \cap Bytes(r)' = {}
    <3>1. \A r \in locals : r # sx /\ Placed(r)' => Bytes(r)' \subseteq -curr_offset..-1
      BY <1>4, <2>7
    <3>2. CASE s = sx
      <4>1. \A r \in locals \ {s} : Placed(r)' => Bytes(s)' \cap Bytes(r)' = {}
        BY <2>9, <3>1, <3>2
      <4> QED
        BY <1>2, <2>4, <2>9, <2>10, <3>2, <4>1
    <3>3. CASE s # sx
      <4>1. Placed(s) /\ Bytes(s)' = Bytes(s) /\ offset'[s.id] = offset[s.id]
        BY <2>6, <2>7, <2>11, <3>3
      <4>2. Bytes(s)' \subseteq -curr_offset'..-1
        BY <2>4, <2>9, <2>11, <3>1, <3>3
      <4>3. Width(s.elt) = 4 /\ s.type # "char" => offset'[s.id] % 4 = 0
        BY <1>4, <4>1
      <4>4. ASSUME NEW r \in locals \ {s}, Placed(r)' PROVE Bytes(s)' \cap Bytes(r)' = {}
        <5>1. CASE r = sx
          BY <2>9, <2>11, <3>1, <3>3, <5>1
        <5>2. CASE r # sx
          BY <1>4, <2>7, <4>1, <4>4, <5>2
        <5> QED
          BY <5>1, <5>2
      <4> QED
        BY <4>2, <4>3, <4>4
    <3> QED
      BY <3>2, <3>3
  <2>12. curr_offset' \in Nat
    BY <2>4
  <2> QED
    BY <1>3, <2>6, <2>11, <2>12 DEF LayoutInv
<1> QED
  BY <1>7, <1>8

(* The places stay apart.                                                  *)
LEMMA LayoutStep ==
  ASSUME CInv, [Next]_vars
  PROVE  LayoutInv'
<1> USE DEF compiled, frame
<1>1. CodeInv /\ LayoutInv /\ curr_offset \in Nat
  BY DEF CInv, LayoutInv
<1>2. ASSUME phase \notin {"layout", "done", "run"}, phase' \notin {"layout", "done", "run"},
             UNCHANGED curr_offset
      PROVE  LayoutInv'
  BY <1>1, <1>2 DEF LayoutInv
<1>3. ASSUME phase \in {"done", "run"}, phase' = "run", UNCHANGED << curr_offset, offset, todo, locals >>
      PROVE  LayoutInv'
  BY <1>1, <1>3 DEF LayoutInv, Placed, Bytes, BytesOf
<1>4. CASE Generate
  BY <1>2, <1>4 DEF Generate
<1>5. CASE Round
  <2>1. phase' \in {"peephole", "live", "test"} /\ phase = "round" /\ UNCHANGED curr_offset
    BY <1>5 DEF Round
  <2> QED
    BY <1>2, <2>1
<1>6. CASE Peephole
  BY <1>2, <1>6 DEF Peephole
<1>7. CASE CopyPropagate
  BY <1>2, <1>7 DEF CopyPropagate
<1>8. CASE LiveAnalysis
  BY <1>2, <1>8 DEF LiveAnalysis
<1>9. CASE InAndOut
  BY <1>2, <1>9 DEF InAndOut
<1>10. CASE SweepTest
  BY <1>2, <1>10 DEF SweepTest
<1>11. CASE DeadCode
  BY <1>2, <1>11 DEF DeadCode
<1>12. CASE RoundTest
  <2>1. phase' \in {"round", "live", "emit"} /\ phase = "test" /\ UNCHANGED curr_offset
    BY <1>12 DEF RoundTest
  <2> QED
    BY <1>2, <2>1
<1>13. CASE RegAlloc
  BY <1>2, <1>13 DEF RegAlloc
<1>14. CASE Color
  BY <1>2, <1>14 DEF Color
<1>15. CASE Emit
  <2>1. /\ phase = "emit" /\ phase' = "layout" /\ UNCHANGED << curr_offset, locals >>
        /\ offset' = [x \in Ids(locals) \cup {0} |-> 0] /\ todo' = Ids(locals)
    BY <1>15 DEF Emit
  <2>2. \A s \in locals : ~ Placed(s)'
    BY <2>1 DEF Placed, Ids
  <2> QED
    BY <1>1, <2>1, <2>2 DEF LayoutInv
<1>16. CASE allocate_storage
  <2>1. CASE todo # {} /\ phase' = phase
    <3>1. \E x : x = Min(todo)
      OBVIOUS
    <3> QED
      BY <1>16, <2>1, PlaceASymbol DEF allocate_storage
  <2>2. CASE todo = {}
    <3>1. /\ phase = "layout" /\ phase' = "done" /\ UNCHANGED << curr_offset, todo, locals >>
          /\ offset' = [offset EXCEPT ![0] = RoundUp(curr_offset, 4)]
      BY <1>16, <2>2 DEF allocate_storage
    <3>2. offset \in [Ids(locals) \cup {0} -> Int] /\ RoundUp(curr_offset, 4) \in Int
      BY <1>1, <3>1, RoundUpIs DEF LayoutInv
    <3>3. /\ offset' \in [Ids(locals) \cup {0} -> Int] /\ offset'[0] = RoundUp(curr_offset, 4)
          /\ \A s \in locals : offset'[s.id] = offset[s.id]
      <4>1. \A s \in locals : s.id \in Ids(locals) /\ s.id # 0
        BY <1>1, LocalSymbols DEF Ids
      <4> QED
        BY <3>1, <3>2, <4>1
    <3>4. \A s \in locals : Bytes(s)' = Bytes(s) /\ Placed(s)' = Placed(s)
      BY <3>1, <3>3 DEF Bytes, BytesOf, Placed
    <3> QED
      BY <1>1, <2>2, <3>1, <3>3, <3>4 DEF LayoutInv
  <2> QED
    BY <1>16, <2>1, <2>2 DEF allocate_storage
<1>17. CASE Enter
  BY <1>3, <1>17 DEF Enter
<1>18. CASE Execute
  BY <1>3, <1>18 DEF Execute
<1>19. CASE UNCHANGED vars
  BY <1>1, <1>19 DEF vars, LayoutInv, Placed, Bytes, BytesOf
<1> QED
  BY <1>4, <1>5, <1>6, <1>7, <1>8, <1>9, <1>10, <1>11, <1>12, <1>13, <1>14, <1>15, <1>16, <1>17, <1>18,
     <1>19 DEF Next, Compile

-----------------------------------------------------------------------------
(* The invariant holds throughout (CmmOptimizer.tla: every action).        *)
THEOREM CompilerInvariant == Spec => []CInv
<1>1. CInv /\ [Next]_vars => CInv'
  BY CodeStep, PlaceStep, LiveStep, RegStep, RunStep, LayoutStep DEF CInv
<1> QED
  BY <1>1, InitialCInv, PTL DEF Spec

(* The types of the compilation and of the run.                            *)
THEOREM CompilerTypeOK == Spec => []TypeOK
<1>1. CInv => TypeOK
  <2> SUFFICES ASSUME CInv PROVE TypeOK
    OBVIOUS
  <2>1. CodeInv /\ PlaceInv /\ RegInv /\ RunInv /\ LayoutInv
    BY DEF CInv
  <2>2. SymbolsOf(code) \subseteq locals
    <3>1. CASE phase = "generate"
      <4>1. code = <<>>
        BY <2>1, <3>1 DEF CodeInv
      <4> QED
        BY <4>1 DEF SymbolsOf, AllSymbols
    <3>2. CASE phase # "generate"
      BY <2>1, <3>2 DEF CodeInv, CodeOK, SymbolsOf, Syms
    <3> QED
      BY <3>1, <3>2
  <2>3. \A s, t \in locals : s.id = t.id => s = t
    BY <2>1, LocalSymbols
  <2> QED
    BY <2>1, <2>2, <2>3 DEF TypeOK, PlaceInv, RegInv, RunInv, LayoutInv
<1> QED
  BY <1>1, CompilerInvariant, PTL

(* A register still holds what was last stored for the variable that is    *)
(* read from it.                                                           *)
LEMMA RegistersAreKept == CInv => RegistersKept
<1> SUFFICES ASSUME CInv, phase = "run", NEW v \in Ids(Loaded(code[pc])), regName[v] # -1
             PROVE  owner[regName[v]] \in {v, Nobody}
  BY DEF RegistersKept
<1>1. /\ CodeInv /\ CodeOK(code, Syms) /\ locals = {s \in Syms : s.scope = "local"}
      /\ pc \in DOMAIN code
  BY GeneratedCode DEF CInv, CodeInv, RunInv
<1>2. PICK s \in Loaded(code[pc]) : s.id = v
  BY DEF Ids
<1>3. s \in SrcOf(code[pc])
  BY <1>2 DEF Loaded, SrcOf, Defines, Ariths, Ifs
<1>4. s \in locals
  <2>1. code[pc] \in Quads /\ SymbolsIn(code[pc]) \subseteq Syms
    BY <1>1, CodeIsList
  <2> QED
    BY <1>1, <1>3, <2>1, SymbolsOfQuad
<1>5. v \in DOMAIN regName
  BY <1>2, <1>4 DEF CInv, RegInv, Ids
<1>6. s.type = "int"
  BY <1>2, <1>4, <1>5 DEF CInv, RegInv, CanHold, CanHoldIn
<1>7. v \in Before(code, liveNow(code, in), pc)
  BY <1>2, <1>3, <1>6 DEF Before, Scalars, Ids
<1> QED
  BY <1>5, <1>7 DEF CInv, RunInv

(* The places of the locals in the frame are apart.                        *)
LEMMA SlotsAreDisjoint == CInv => FrameSlotsDisjoint
<1> SUFFICES ASSUME CInv, phase = "done" PROVE FrameSlotsDisjoint
  BY DEF FrameSlotsDisjoint
<1>1. PICK n \in Nat : n = curr_offset
  BY DEF CInv, LayoutInv
<1>2. /\ todo = {} /\ offset[0] = RoundUp(n, 4)
      /\ \A s \in locals : Placed(s) =>
            /\ Bytes(s) \subseteq -n..-1
            /\ Width(s.elt) = 4 /\ s.type # "char" => offset[s.id] % 4 = 0
            /\ \A r \in locals \ {s} : Placed(r) => Bytes(s) \cap Bytes(r) = {}
  BY <1>1 DEF CInv, LayoutInv
<1>3. -n..-1 \subseteq -offset[0]..-1
  <2>1. PICK m \in Nat : m = RoundUp(n, 4) /\ m >= n
    BY RoundUpIs
  <2>2. -n..-1 \subseteq -m..-1
    BY <2>1
  <2> QED
    BY <1>2, <2>1, <2>2
<1>4. \A s \in locals : Placed(s) <=> ~ IsFormal(s)
  BY <1>2 DEF Placed
<1> QED
  BY <1>2, <1>3, <1>4 DEF FrameSlotsDisjoint, Bytes, BytesOf

(* No variable is overwritten by another one, in its register on any path  *)
(* through the function or in its frame slot.                              *)
THEOREM CompilerHomesDisjoint == Spec => []HomesDisjoint
<1>1. CInv => HomesDisjoint
  BY RegistersAreKept, SlotsAreDisjoint DEF HomesDisjoint
<1> QED
  BY <1>1, CompilerInvariant, PTL

(***************************************************************************)
(* What the peephole does to a run of the code.                            *)
(***************************************************************************)
Machine(m) == m = [cell |-> m.cell, mem |-> m.mem, reg |-> m.reg, stack |-> m.stack,
                   calls |-> m.calls, rv |-> m.rv, pc |-> m.pc, ret |-> m.ret]

(* The same machine, perhaps at another quad.                              *)
Alike(m, n) ==
  /\ Machine(m) /\ Machine(n)
  /\ m.cell = n.cell /\ m.mem = n.mem /\ m.reg = n.reg /\ m.stack = n.stack
  /\ m.calls = n.calls /\ m.rv = n.rv /\ m.ret = n.ret

(* The next quad computes with numbers and does not divide by 0.           *)
Defined(c, rn, m) ==
  LET q == c[m.pc] IN
  q.op \in Ariths \cup Ifs =>
    /\ gen_mips_load(m, rn, q.src1) \in Int /\ gen_mips_load(m, rn, q.src2) \in Int
    /\ q.op = "/" => gen_mips_load(m, rn, q.src2) # 0

(* The code d does what c does: with each step of d, the machine does one  *)
(* or two steps of c, from the quads of c that at has a place for in d.    *)
Simulates(c, d, rn) ==
  \E at :
    /\ {0, 1} \subseteq DOMAIN at /\ DOMAIN at \subseteq 0..Len(c) /\ at[0] = 0 /\ at[1] = 1
    /\ \A p \in DOMAIN at \ {0} : at[p] \in DOMAIN d
    /\ \A m, n : Alike(m, n) /\ m.pc \in DOMAIN at \ {0} /\ n.pc = at[m.pc] /\ Defined(c, rn, m) =>
         \E k : /\ k = StepCode(c, rn, m) \/ k = StepCode(c, rn, StepCode(c, rn, m))
                /\ Alike(k, StepCode(d, rn, n))
                /\ k.pc \in DOMAIN at /\ StepCode(d, rn, n).pc = at[k.pc]

(* Machines alike load the same.                                           *)
LEMMA LoadsAlike ==
  ASSUME NEW m, NEW n, Alike(m, n), NEW rn, NEW o
  PROVE  gen_mips_load(m, rn, o) = gen_mips_load(n, rn, o)
BY DEF Alike, gen_mips_load

(* The place of a machine is no part of what it has in common.             *)
LEMMA AtPlace ==
  ASSUME NEW m, NEW n, Alike(m, n), NEW x, NEW y
  PROVE  /\ Alike([m EXCEPT !.pc = x], [n EXCEPT !.pc = y])
         /\ [m EXCEPT !.pc = x].pc = x /\ [n EXCEPT !.pc = y].pc = y
BY DEF Alike, Machine

(* Machines alike stay so when they store the same.                        *)
LEMMA StoresAlike ==
  ASSUME NEW m, NEW n, Alike(m, n), NEW rn, NEW o, o.k \in {"sym", "deref"}, NEW v
  PROVE  /\ Alike(gen_mips_store(m, rn, o, v), gen_mips_store(n, rn, o, v))
         /\ gen_mips_store(m, rn, o, v).pc = m.pc /\ gen_mips_store(n, rn, o, v).pc = n.pc
<1> DEFINE s == o.s
           x == Narrow(s.type, v)
           y == Narrow(s.elt, v)
           address(k) == IF InRegister(rn, s) THEN k.reg[rn[s.id]] ELSE k.cell[s.id]
<1>1. CASE o.k = "sym" /\ InRegister(rn, s)
  <2>1. /\ gen_mips_store(m, rn, o, v) = [m EXCEPT !.reg = [m.reg EXCEPT ![rn[s.id]] = v]]
        /\ gen_mips_store(n, rn, o, v) = [n EXCEPT !.reg = [m.reg EXCEPT ![rn[s.id]] = v]]
    BY <1>1 DEF gen_mips_store, Alike
  <2> DEFINE r == [m.reg EXCEPT ![rn[s.id]] = v]
  <2> HIDE DEF r
  <2>2. Alike([m EXCEPT !.reg = r], [n EXCEPT !.reg = r])
    BY DEF Alike, Machine
  <2>3. [m EXCEPT !.reg = r].pc = m.pc /\ [n EXCEPT !.reg = r].pc = n.pc
    BY DEF Alike, Machine
  <2> QED
    BY <2>1, <2>2, <2>3 DEF r
<1>2. CASE o.k = "sym" /\ ~ InRegister(rn, s)
  <2>1. /\ gen_mips_store(m, rn, o, v) = [m EXCEPT !.cell = [m.cell EXCEPT ![s.id] = x]]
        /\ gen_mips_store(n, rn, o, v) = [n EXCEPT !.cell = [m.cell EXCEPT ![s.id] = x]]
    BY <1>2 DEF gen_mips_store, Alike
  <2> DEFINE r == [m.cell EXCEPT ![s.id] = x]
  <2> HIDE DEF r
  <2>2. Alike([m EXCEPT !.cell = r], [n EXCEPT !.cell = r])
    BY DEF Alike, Machine
  <2>3. [m EXCEPT !.cell = r].pc = m.pc /\ [n EXCEPT !.cell = r].pc = n.pc
    BY DEF Alike, Machine
  <2> QED
    BY <2>1, <2>2, <2>3 DEF r
<1>3. CASE o.k = "deref"
  <2>0. address(n) = address(m)
    BY DEF Alike
  <2>1. /\ gen_mips_store(m, rn, o, v) = [m EXCEPT !.mem = [m.mem EXCEPT ![address(m)] = y]]
        /\ gen_mips_store(n, rn, o, v) = [n EXCEPT !.mem = [m.mem EXCEPT ![address(m)] = y]]
    BY <1>3, <2>0 DEF gen_mips_store, Alike
  <2> DEFINE r == [m.mem EXCEPT ![address(m)] = y]
  <2> HIDE DEF r
  <2>2. Alike([m EXCEPT !.mem = r], [n EXCEPT !.mem = r])
    BY DEF Alike, Machine
  <2>3. [m EXCEPT !.mem = r].pc = m.pc /\ [n EXCEPT !.mem = r].pc = n.pc
    BY DEF Alike, Machine
  <2> QED
    BY <2>1, <2>2, <2>3 DEF r
<1> QED
  BY <1>1, <1>2, <1>3

(* Where the machine is after the quad q.                                  *)
After(c, rn, m) ==
  LET q == c[m.pc] IN
  IF q.op = "ret" THEN 0
  ELSE IF q.op = "goto" \/ (q.op \in Ifs /\ Holds(q.op, gen_mips_load(m, rn, q.src1),
                                                      gen_mips_load(m, rn, q.src2)))
       THEN LabelAt(c, q.dst.i) ELSE m.pc + 1

(* The same quad does the same to machines alike (gen_mips_code,           *)
(* codegen.c:977).                                                         *)
LEMMA StepsAlike ==
  ASSUME NEW c, NEW d, NEW rn, NEW m, NEW n, Alike(m, n), QuadOK(c[m.pc]), d[n.pc] = c[m.pc]
  PROVE  /\ Alike(StepCode(c, rn, m), StepCode(d, rn, n))
         /\ StepCode(c, rn, m).pc = After(c, rn, m) /\ StepCode(d, rn, n).pc = After(d, rn, n)
<1> DEFINE q == c[m.pc]
           a == gen_mips_load(m, rn, q.src1)
           b == gen_mips_load(m, rn, q.src2)
           mx == [m EXCEPT !.pc = m.pc + 1]
           nx == [n EXCEPT !.pc = n.pc + 1]
<1>1. gen_mips_load(n, rn, q.src1) = a /\ gen_mips_load(n, rn, q.src2) = b
  BY LoadsAlike
<1>2. Alike(mx, nx) /\ mx.pc = m.pc + 1 /\ nx.pc = n.pc + 1
  BY AtPlace
<1>3. q.op \in Jumps \cup Ariths \cup {"move", "neg", "nop", "label", "enter", "leave", "param",
                                        "call", "retrieve", "ret"}
  BY DEF QuadOK, Quads
<1> HIDE DEF q
<1>4. CASE q.op \in {"nop", "label", "enter", "leave"}
  <2>1. StepCode(c, rn, m) = mx /\ StepCode(d, rn, n) = nx
    BY <1>4 DEF StepCode, q, Ariths, Ifs
  <2>2. After(c, rn, m) = m.pc + 1 /\ After(d, rn, n) = n.pc + 1
    BY <1>4 DEF After, q, Ifs
  <2> QED
    BY <1>2, <2>1, <2>2
<1>5. ASSUME NEW v, NEW o, o.k \in {"sym", "deref"}, StepCode(c, rn, m) = gen_mips_store(mx, rn, o, v),
             StepCode(d, rn, n) = gen_mips_store(nx, rn, o, v), q.op \notin Jumps \cup {"ret"}
      PROVE  /\ Alike(StepCode(c, rn, m), StepCode(d, rn, n))
             /\ StepCode(c, rn, m).pc = After(c, rn, m) /\ StepCode(d, rn, n).pc = After(d, rn, n)
  <2>1. After(c, rn, m) = m.pc + 1 /\ After(d, rn, n) = n.pc + 1
    BY <1>5 DEF After, q, Jumps
  <2> HIDE DEF mx, nx
  <2> QED
    BY <1>2, <1>5, <2>1, StoresAlike
<1>6. CASE q.op = "move"
  <2>1. q.dst.k \in {"sym", "deref"}
    BY <1>6 DEF QuadOK, q
  <2>2. StepCode(c, rn, m) = gen_mips_store(mx, rn, q.dst, a)
    BY <1>6 DEF StepCode, q, Ariths, Ifs
  <2>3. StepCode(d, rn, n) = gen_mips_store(nx, rn, q.dst, a)
    BY <1>1, <1>6 DEF StepCode, q, Ariths, Ifs
  <2>4. q.op \notin Jumps \cup {"ret"}
    BY <1>6 DEF Jumps, Ifs
  <2> QED
    BY <1>5, <2>1, <2>2, <2>3, <2>4
<1>7. CASE q.op = "neg"
  <2>1. q.dst.k \in {"sym", "deref"}
    BY <1>7 DEF QuadOK, q
  <2>2. StepCode(c, rn, m) = gen_mips_store(mx, rn, q.dst, -a)
    BY <1>7 DEF StepCode, q, Ariths, Ifs
  <2>3. StepCode(d, rn, n) = gen_mips_store(nx, rn, q.dst, -a)
    BY <1>1, <1>7 DEF StepCode, q, Ariths, Ifs
  <2>4. q.op \notin Jumps \cup {"ret"}
    BY <1>7 DEF Jumps, Ifs
  <2> QED
    BY <1>5, <2>1, <2>2, <2>3, <2>4
<1>8. CASE q.op \in Ariths
  <2>1. q.dst.k \in {"sym", "deref"}
    BY <1>8 DEF QuadOK, q
  <2>2. StepCode(c, rn, m) = gen_mips_store(mx, rn, q.dst, gen_mips_arith(q.op, a, b))
    BY <1>8 DEF StepCode, q, Ariths, Ifs
  <2>3. StepCode(d, rn, n) = gen_mips_store(nx, rn, q.dst, gen_mips_arith(q.op, a, b))
    BY <1>1, <1>8 DEF StepCode, q, Ariths, Ifs
  <2>4. q.op \notin Jumps \cup {"ret"}
    BY <1>8 DEF Jumps, Ifs, Ariths
  <2> QED
    BY <1>5, <2>1, <2>2, <2>3, <2>4
<1>9. CASE q.op = "retrieve"
  <2>1. q.src1.k \in {"sym", "deref"}
    BY <1>9 DEF QuadOK, q
  <2>2. StepCode(c, rn, m) = gen_mips_store(mx, rn, q.src1, m.rv)
    BY <1>9 DEF StepCode, q, Ariths, Ifs
  <2>3. StepCode(d, rn, n) = gen_mips_store(nx, rn, q.src1, m.rv)
    BY <1>9 DEF StepCode, q, Alike, Ariths, Ifs
  <2>4. q.op \notin Jumps \cup {"ret"}
    BY <1>9 DEF Jumps, Ifs
  <2> QED
    BY <1>5, <2>1, <2>2, <2>3, <2>4
<1>10. CASE q.op \in Jumps
  <2> DEFINE mj == [m EXCEPT !.pc = LabelAt(c, q.dst.i)]
             nj == [n EXCEPT !.pc = LabelAt(d, q.dst.i)]
  <2>1. Alike(mj, nj) /\ mj.pc = LabelAt(c, q.dst.i) /\ nj.pc = LabelAt(d, q.dst.i)
    BY AtPlace
  <2>2. CASE q.op = "goto"
    <3>1. StepCode(c, rn, m) = mj /\ StepCode(d, rn, n) = nj
      BY <2>2 DEF StepCode, q, Ariths, Ifs
    <3>2. After(c, rn, m) = LabelAt(c, q.dst.i) /\ After(d, rn, n) = LabelAt(d, q.dst.i)
      BY <2>2 DEF After, q
    <3> QED
      BY <2>1, <3>1, <3>2
  <2>3. CASE q.op \in Ifs
    <3>1. /\ StepCode(c, rn, m) = IF Holds(q.op, a, b) THEN mj ELSE mx
          /\ StepCode(d, rn, n) = IF Holds(q.op, a, b) THEN nj ELSE nx
      BY <1>1, <2>3 DEF StepCode, q, Ariths, Ifs
    <3>2. /\ After(c, rn, m) = IF Holds(q.op, a, b) THEN LabelAt(c, q.dst.i) ELSE m.pc + 1
          /\ After(d, rn, n) = IF Holds(q.op, a, b) THEN LabelAt(d, q.dst.i) ELSE n.pc + 1
      BY <1>1, <2>3 DEF After, q, Ifs
    <3> HIDE DEF mj, nj, mx, nx
    <3> QED
      BY <1>2, <2>1, <3>1, <3>2
  <2> QED
    BY <1>10, <2>2, <2>3 DEF Jumps
<1>11. CASE q.op = "param"
  <2>1. /\ StepCode(c, rn, m) = [mx EXCEPT !.stack = << a >> \o m.stack]
        /\ StepCode(d, rn, n) = [nx EXCEPT !.stack = << a >> \o m.stack]
    BY <1>1, <1>11 DEF StepCode, q, Ariths, Ifs, Alike
  <2>2. After(c, rn, m) = m.pc + 1 /\ After(d, rn, n) = n.pc + 1
    BY <1>11 DEF After, q, Ifs
  <2> HIDE DEF mx, nx, a
  <2>3. ASSUME NEW x
        PROVE  /\ Alike([mx EXCEPT !.stack = x], [nx EXCEPT !.stack = x])
               /\ [mx EXCEPT !.stack = x].pc = mx.pc /\ [nx EXCEPT !.stack = x].pc = nx.pc
    BY <1>2 DEF Alike, Machine
  <2> QED
    BY <1>2, <2>1, <2>2, <2>3
<1>12. CASE q.op = "call"
  <2> DEFINE args == SubSeq(m.stack, 1, q.src1.i)
             rest == SubSeq(m.stack, q.src1.i + 1, Len(m.stack))
             g == m.cell[Counter] + 1
             cell == [m.cell EXCEPT ![Counter] = g]
             calls == Append(m.calls, args)
             rv == g + IF args = <<>> THEN 0 ELSE IF Len(args) = 1 THEN args[1] ELSE args[1] - args[2]
  <2>1. /\ StepCode(c, rn, m) = [Called(mx, args) EXCEPT !.stack = rest]
        /\ StepCode(d, rn, n) = [Called(nx, args) EXCEPT !.stack = rest]
    BY <1>12 DEF StepCode, q, Ariths, Ifs, Alike
  <2>2. After(c, rn, m) = m.pc + 1 /\ After(d, rn, n) = n.pc + 1
    BY <1>12 DEF After, q, Ifs
  <2> HIDE DEF args
  <2>3. /\ mx.cell = m.cell /\ nx.cell = m.cell /\ mx.calls = m.calls /\ nx.calls = m.calls
    BY DEF Alike, Machine
  <2> HIDE DEF mx, nx, rest
  <2>4. /\ Called(mx, args) = [mx EXCEPT !.cell = cell, !.calls = calls, !.rv = rv]
        /\ Called(nx, args) = [nx EXCEPT !.cell = cell, !.calls = calls, !.rv = rv]
    BY <2>3 DEF Called
  <2> HIDE DEF cell, calls, rv
  <2>5. ASSUME NEW k, Machine(k)
        PROVE  [[k EXCEPT !.cell = cell, !.calls = calls, !.rv = rv] EXCEPT !.stack = rest]
                 = [cell |-> cell, mem |-> k.mem, reg |-> k.reg, stack |-> rest,
                    calls |-> calls, rv |-> rv, pc |-> k.pc, ret |-> k.ret]
    <3>1. [k EXCEPT !.cell = cell] = [cell |-> cell, mem |-> k.mem, reg |-> k.reg, stack |-> k.stack,
                                      calls |-> k.calls, rv |-> k.rv, pc |-> k.pc, ret |-> k.ret]
      BY <2>5 DEF Machine
    <3> DEFINE k1 == [k EXCEPT !.cell = cell]
    <3>2. [k1 EXCEPT !.calls = calls] = [cell |-> cell, mem |-> k.mem, reg |-> k.reg,
            stack |-> k.stack, calls |-> calls, rv |-> k.rv, pc |-> k.pc, ret |-> k.ret]
      <4> HIDE DEF k1
      <4>1. k1 = [cell |-> cell, mem |-> k.mem, reg |-> k.reg, stack |-> k.stack,
                  calls |-> k.calls, rv |-> k.rv, pc |-> k.pc, ret |-> k.ret]
        BY <3>1 DEF k1
      <4> QED
        BY <4>1
    <3> DEFINE k2 == [k1 EXCEPT !.calls = calls]
    <3>3. [k2 EXCEPT !.rv = rv] = [cell |-> cell, mem |-> k.mem, reg |-> k.reg,
            stack |-> k.stack, calls |-> calls, rv |-> rv, pc |-> k.pc, ret |-> k.ret]
      <4> HIDE DEF k2
      <4>1. k2 = [cell |-> cell, mem |-> k.mem, reg |-> k.reg, stack |-> k.stack,
                  calls |-> calls, rv |-> k.rv, pc |-> k.pc, ret |-> k.ret]
        BY <3>2 DEF k2
      <4> QED
        BY <4>1
    <3> DEFINE k3 == [k2 EXCEPT !.rv = rv]
    <3>4. [k3 EXCEPT !.stack = rest] = [cell |-> cell, mem |-> k.mem, reg |-> k.reg,
            stack |-> rest, calls |-> calls, rv |-> rv, pc |-> k.pc, ret |-> k.ret]
      <4> HIDE DEF k3
      <4>1. k3 = [cell |-> cell, mem |-> k.mem, reg |-> k.reg, stack |-> k.stack,
                  calls |-> calls, rv |-> rv, pc |-> k.pc, ret |-> k.ret]
        BY <3>3 DEF k3
      <4> QED
        BY <4>1
    <3> QED
      BY <3>4
  <2>6. Machine(mx) /\ Machine(nx) /\ mx.mem = nx.mem /\ mx.reg = nx.reg /\ mx.ret = nx.ret
    BY <1>2 DEF Alike
  <2>7. /\ StepCode(c, rn, m) = [cell |-> cell, mem |-> mx.mem, reg |-> mx.reg, stack |-> rest,
                                  calls |-> calls, rv |-> rv, pc |-> mx.pc, ret |-> mx.ret]
        /\ StepCode(d, rn, n) = [cell |-> cell, mem |-> mx.mem, reg |-> mx.reg, stack |-> rest,
                                  calls |-> calls, rv |-> rv, pc |-> nx.pc, ret |-> mx.ret]
    <3>1. /\ StepCode(c, rn, m) = [[mx EXCEPT !.cell = cell, !.calls = calls, !.rv = rv] EXCEPT !.stack = rest]
          /\ StepCode(d, rn, n) = [[nx EXCEPT !.cell = cell, !.calls = calls, !.rv = rv] EXCEPT !.stack = rest]
      BY <2>1, <2>4
    <3>2. nx.mem = mx.mem /\ nx.reg = mx.reg /\ nx.ret = mx.ret
      BY <2>6
    <3>3. /\ StepCode(c, rn, m) = [cell |-> cell, mem |-> mx.mem, reg |-> mx.reg, stack |-> rest,
                                  calls |-> calls, rv |-> rv, pc |-> mx.pc, ret |-> mx.ret]
      BY ONLY <3>1, <2>5, <2>6, Zenon
    <3>4. /\ StepCode(d, rn, n) = [cell |-> cell, mem |-> nx.mem, reg |-> nx.reg, stack |-> rest,
                                  calls |-> calls, rv |-> rv, pc |-> nx.pc, ret |-> nx.ret]
      BY ONLY <3>1, <2>5, <2>6, Zenon
    <3> QED
      BY <3>2, <3>3, <3>4
  <2>8. Alike(StepCode(c, rn, m), StepCode(d, rn, n))
    BY <2>7 DEF Alike, Machine
  <2>9. StepCode(c, rn, m).pc = mx.pc /\ StepCode(d, rn, n).pc = nx.pc
    BY <2>7
  <2> QED
    BY <1>2, <2>2, <2>8, <2>9
<1>13. CASE q.op = "ret"
  <2> DEFINE r == IF q.src1.k = "null" THEN <<>> ELSE << a >>
  <2>1. /\ StepCode(c, rn, m) = [m EXCEPT !.pc = 0, !.ret = r]
        /\ StepCode(d, rn, n) = [n EXCEPT !.pc = 0, !.ret = r]
    BY <1>1, <1>13 DEF StepCode, q, Ariths, Ifs
  <2>2. After(c, rn, m) = 0 /\ After(d, rn, n) = 0
    BY <1>13 DEF After, q
  <2> HIDE DEF r
  <2>3. Alike([m EXCEPT !.pc = 0], [n EXCEPT !.pc = 0]) /\ [m EXCEPT !.pc = 0].pc = 0
          /\ [n EXCEPT !.pc = 0].pc = 0
    BY AtPlace
  <2>4. ASSUME NEW k, NEW l, Alike(k, l)
        PROVE  /\ Alike([k EXCEPT !.ret = r], [l EXCEPT !.ret = r])
               /\ [k EXCEPT !.ret = r].pc = k.pc /\ [l EXCEPT !.ret = r].pc = l.pc
    BY <2>4 DEF Alike, Machine
  <2>5. /\ [m EXCEPT !.pc = 0, !.ret = r] = [[m EXCEPT !.pc = 0] EXCEPT !.ret = r]
        /\ [n EXCEPT !.pc = 0, !.ret = r] = [[n EXCEPT !.pc = 0] EXCEPT !.ret = r]
    OBVIOUS
  <2> QED
    <3> DEFINE k == [m EXCEPT !.pc = 0]
               l == [n EXCEPT !.pc = 0]
    <3>1. Alike(k, l) /\ k.pc = 0 /\ l.pc = 0
      BY <2>3
    <3>2. StepCode(c, rn, m) = [k EXCEPT !.ret = r] /\ StepCode(d, rn, n) = [l EXCEPT !.ret = r]
      BY <2>1, <2>5
    <3> HIDE DEF k, l
    <3>3. /\ Alike([k EXCEPT !.ret = r], [l EXCEPT !.ret = r])
          /\ [k EXCEPT !.ret = r].pc = k.pc /\ [l EXCEPT !.ret = r].pc = l.pc
      BY <2>4, <3>1
    <3> QED
      BY <2>2, <3>1, <3>2, <3>3
<1> QED
  BY <1>3, <1>4, <1>6, <1>7, <1>8, <1>9, <1>10, <1>11, <1>12, <1>13

(* What an assignment computes.                                            *)
Result(q, rn, m) ==
  LET a == gen_mips_load(m, rn, q.src1) IN
  IF q.op = "move" THEN a
  ELSE IF q.op = "neg" THEN -a ELSE gen_mips_arith(q.op, a, gen_mips_load(m, rn, q.src2))

(* An assignment stores what it computes.                                  *)
LEMMA AssignmentStep ==
  ASSUME NEW c, NEW rn, NEW m, Defines(c[m.pc])
  PROVE  StepCode(c, rn, m) = gen_mips_store([m EXCEPT !.pc = m.pc + 1], rn, c[m.pc].dst,
                                             Result(c[m.pc], rn, m))
<1> DEFINE q == c[m.pc]
<1> HIDE DEF q
<1>1. CASE q.op = "move"
  BY <1>1 DEF StepCode, Result, q, Ariths, Ifs
<1>2. CASE q.op = "neg"
  BY <1>2 DEF StepCode, Result, q, Ariths, Ifs
<1>3. CASE q.op \in Ariths
  BY <1>3 DEF StepCode, Result, q, Ariths, Ifs
<1> QED
  BY <1>1, <1>2, <1>3 DEF Defines, q

(* The neutral elements.                                                   *)
LEMMA Neutral ==
  ASSUME NEW x \in Int
  PROVE  /\ gen_mips_arith("+", 0, x) = x /\ gen_mips_arith("+", x, 0) = x
         /\ gen_mips_arith("-", x, 0) = x /\ gen_mips_arith("-", 0, x) = -x
         /\ gen_mips_arith("*", 1, x) = x /\ gen_mips_arith("*", x, 1) = x
         /\ gen_mips_arith("*", 0, x) = 0 /\ gen_mips_arith("*", x, 0) = 0
         /\ gen_mips_arith("/", x, 1) = x
         /\ x # 0 => gen_mips_arith("/", 0, x) = 0
<1>1. /\ gen_mips_arith("+", 0, x) = x /\ gen_mips_arith("+", x, 0) = x
      /\ gen_mips_arith("-", x, 0) = x /\ gen_mips_arith("-", 0, x) = -x
  BY DEF gen_mips_arith
<1>2. /\ gen_mips_arith("*", 1, x) = x /\ gen_mips_arith("*", x, 1) = x
      /\ gen_mips_arith("*", 0, x) = 0 /\ gen_mips_arith("*", x, 0) = 0
  BY DEF gen_mips_arith
<1>3. gen_mips_arith("/", x, 1) = x
  <2>1. gen_mips_arith("/", x, 1) = IF x >= 0 THEN x \div 1 ELSE -((-x) \div 1)
    BY DEF gen_mips_arith
  <2>2. \A y \in Int : y \div 1 = y
    OBVIOUS
  <2> QED
    BY <2>1, <2>2
<1>4. ASSUME x # 0 PROVE gen_mips_arith("/", 0, x) = 0
  <2>1. \A y \in Int : y > 0 => 0 \div y = 0
    OBVIOUS
  <2>2. CASE x > 0
    <3>1. gen_mips_arith("/", 0, x) = 0 \div x
      BY <2>2 DEF gen_mips_arith
    <3> QED
      BY <2>1, <2>2, <3>1
  <2>3. CASE x < 0
    <3>1. gen_mips_arith("/", 0, x) = -(0 \div (-x))
      BY <2>3 DEF gen_mips_arith
    <3>2. 0 \div (-x) = 0
      BY <2>1, <2>3
    <3> QED
      BY <3>1, <3>2
  <2> QED
    BY <1>4, <2>2, <2>3
<1> QED
  BY <1>1, <1>2, <1>3, <1>4

(* A simplified quad computes the same, unless it divides by 0.            *)
LEMMA SimplifyKeepsResult ==
  ASSUME NEW q, q \in Quads, q.op \in Ariths, NEW rn, NEW m,
         NEW a \in Int, a = gen_mips_load(m, rn, q.src1),
         NEW b \in Int, b = gen_mips_load(m, rn, q.src2), q.op = "/" => b # 0
  PROVE  /\ Defines(Simplify(q)) /\ Simplify(q).dst = q.dst
         /\ Result(Simplify(q), rn, m) = Result(q, rn, m)
<1>1. \A o : o.k = "int" => gen_mips_load(m, rn, o) = o.i
  BY DEF gen_mips_load
<1>2. \A i : (IsInt(q.src1, i) => a = i) /\ (IsInt(q.src2, i) => b = i)
  BY <1>1 DEF IsInt
<1>3. Result(q, rn, m) = gen_mips_arith(q.op, a, b)
  BY DEF Result, Ariths
<1>4. ASSUME NEW o
      PROVE  /\ Defines(AsMove(q, o)) /\ AsMove(q, o).dst = q.dst
             /\ Result(AsMove(q, o), rn, m) = gen_mips_load(m, rn, o)
  <2>1. AsMove(q, o).op = "move" /\ AsMove(q, o).src1 = o /\ AsMove(q, o).dst = q.dst
    BY DEF AsMove, Quads
  <2> QED
    BY <2>1 DEF Defines, Result
<1> DEFINE N == [q EXCEPT !.op = "neg", !.src1 = q.src2, !.src2 = Null]
<1>5. Defines(N) /\ N.dst = q.dst /\ Result(N, rn, m) = -b
  <2>1. N.op = "neg" /\ N.src1 = q.src2 /\ N.dst = q.dst
    BY DEF Quads
  <2> HIDE DEF N
  <2> QED
    BY <2>1 DEF Defines, Result
<1>6. Defines(q)
  BY DEF Defines
<1>7. CASE q.op = "+"
  <2>1. CASE IsInt(q.src1, 0)
    <3>1. Simplify(q) = AsMove(q, q.src2)
      BY <1>7, <2>1 DEF Simplify
    <3> QED
      BY <1>2, <1>3, <1>4, <1>7, <2>1, <3>1, Neutral
  <2>2. CASE ~ IsInt(q.src1, 0) /\ IsInt(q.src2, 0)
    <3>1. Simplify(q) = AsMove(q, q.src1)
      BY <1>7, <2>2 DEF Simplify
    <3> QED
      BY <1>2, <1>3, <1>4, <1>7, <2>2, <3>1, Neutral
  <2>3. CASE ~ IsInt(q.src1, 0) /\ ~ IsInt(q.src2, 0)
    <3>1. Simplify(q) = q
      BY <1>7, <2>3 DEF Simplify
    <3> QED
      BY <1>6, <3>1
  <2> QED
    BY <2>1, <2>2, <2>3
<1>8. CASE q.op = "-"
  <2>1. CASE IsInt(q.src1, 0)
    <3>1. Simplify(q) = N
      BY <1>8, <2>1 DEF Simplify
    <3> HIDE DEF N
    <3> QED
      BY <1>2, <1>3, <1>5, <1>8, <2>1, <3>1, Neutral
  <2>2. CASE ~ IsInt(q.src1, 0) /\ IsInt(q.src2, 0)
    <3>1. Simplify(q) = AsMove(q, q.src1)
      BY <1>8, <2>2 DEF Simplify
    <3> QED
      BY <1>2, <1>3, <1>4, <1>8, <2>2, <3>1, Neutral
  <2>3. CASE ~ IsInt(q.src1, 0) /\ ~ IsInt(q.src2, 0)
    <3>1. Simplify(q) = q
      BY <1>8, <2>3 DEF Simplify
    <3> QED
      BY <1>6, <3>1
  <2> QED
    BY <2>1, <2>2, <2>3
<1>9. CASE q.op = "*"
  <2>1. CASE IsInt(q.src1, 1)
    <3>1. Simplify(q) = AsMove(q, q.src2)
      BY <1>9, <2>1 DEF Simplify
    <3> QED
      BY <1>2, <1>3, <1>4, <1>9, <2>1, <3>1, Neutral
  <2>2. CASE ~ IsInt(q.src1, 1) /\ (IsInt(q.src2, 1) \/ IsInt(q.src1, 0))
    <3>1. Simplify(q) = AsMove(q, q.src1)
      <4>1. IsInt(q.src2, 1) => ~ IsInt(q.src2, 0)
        BY DEF IsInt
      <4> QED
        BY <1>9, <2>2, <4>1 DEF Simplify
    <3> QED
      BY <1>2, <1>3, <1>4, <1>9, <2>2, <3>1, Neutral
  <2>3. CASE IsInt(q.src2, 0) /\ ~ (IsInt(q.src1, 1) \/ IsInt(q.src1, 0))
    <3>1. ~ IsInt(q.src2, 1)
      BY <2>3 DEF IsInt
    <3>2. Simplify(q) = AsMove(q, q.src2)
      BY <1>9, <2>3, <3>1 DEF Simplify
    <3> QED
      BY <1>2, <1>3, <1>4, <1>9, <2>3, <3>2, Neutral
  <2>4. CASE ~ IsInt(q.src1, 1) /\ ~ IsInt(q.src2, 1) /\ ~ IsInt(q.src1, 0) /\ ~ IsInt(q.src2, 0)
    <3>1. Simplify(q) = q
      BY <1>9, <2>4 DEF Simplify
    <3> QED
      BY <1>6, <3>1
  <2> QED
    BY <2>1, <2>2, <2>3, <2>4
<1>10. CASE q.op = "/"
  <2>1. CASE IsInt(q.src1, 0) \/ IsInt(q.src2, 1)
    <3>1. Simplify(q) = AsMove(q, q.src1)
      BY <1>10, <2>1 DEF Simplify
    <3> QED
      BY <1>2, <1>3, <1>4, <1>10, <2>1, <3>1, Neutral
  <2>2. CASE ~ (IsInt(q.src1, 0) \/ IsInt(q.src2, 1))
    <3>1. Simplify(q) = q
      BY <1>10, <2>2 DEF Simplify
    <3> QED
      BY <1>6, <3>1
  <2> QED
    BY <2>1, <2>2
<1> QED
  BY <1>7, <1>8, <1>9, <1>10 DEF Ariths

(* The label l of a list is where it is.                                   *)
LEMMA LabelIs ==
  ASSUME NEW c, LabelsOnce(c), NEW p \in DOMAIN c, c[p].op = "label"
  PROVE  LabelAt(c, c[p].src1.i) = p
BY DEF LabelAt, LabelsOnce

(* From a quad of the list, a run goes on in the list or ends.             *)
LEMMA AfterIsThere ==
  ASSUME NEW c, NEW A, CodeOK(c, A), NEW rn, NEW m, m.pc \in DOMAIN c
  PROVE  /\ After(c, rn, m) \in DOMAIN c \cup {0}
         /\ After(c, rn, m) = 0 \/ After(c, rn, m) \in Follow(c, m.pc)
<1>1. After(c, rn, m) = 0 \/ After(c, rn, m) \in Follow(c, m.pc)
  BY DEF After, Follow, Ifs
<1> QED
  BY <1>1, FollowIsThere

(* The list with one quad simplified, or unchanged.                        *)
LEMMA SimplifiedRun ==
  ASSUME NEW c, NEW A, CodeOK(c, A), NEW d, DOMAIN d = DOMAIN c, NEW rn,
         \A i \in DOMAIN c : d[i] = c[i] \/ d[i] = Simplify(c[i])
  PROVE  Simulates(c, d, rn)
<1> DEFINE at == [p \in 0..Len(c) |-> p]
<1>1. PICK l \in Nat \ {0} : l = Len(c) /\ DOMAIN c = 1..l
  BY CodeIsList
<1>2. \A i \in DOMAIN c : SameControl(c[i], d[i]) /\ QuadOK(c[i]) /\ c[i] \in Quads
  <2>1. \A i \in DOMAIN c : QuadOK(c[i]) /\ c[i] \in Quads /\ SameControl(c[i], c[i])
    BY CodeIsList DEF SameControl
  <2> QED
    BY <2>1, SimplifyOK
<1>3. ASSUME NEW m, NEW n, Alike(m, n), m.pc \in 1..l, n.pc = m.pc, Defined(c, rn, m)
      PROVE  /\ Alike(StepCode(c, rn, m), StepCode(d, rn, n))
             /\ StepCode(c, rn, m).pc \in 0..l /\ StepCode(d, rn, n).pc = StepCode(c, rn, m).pc
  <2> DEFINE q == c[m.pc]
  <2>1. CASE d[m.pc] = q
    <3>1. /\ Alike(StepCode(c, rn, m), StepCode(d, rn, n))
          /\ StepCode(c, rn, m).pc = After(c, rn, m) /\ StepCode(d, rn, n).pc = After(d, rn, n)
      BY <1>1, <1>2, <1>3, <2>1, StepsAlike
    <3>2. LabelAt(d, q.dst.i) = LabelAt(c, q.dst.i)
      BY <1>2, SameLabels
    <3>3. After(d, rn, n) = After(c, rn, m)
      <4>1. /\ gen_mips_load(n, rn, q.src1) = gen_mips_load(m, rn, q.src1)
            /\ gen_mips_load(n, rn, q.src2) = gen_mips_load(m, rn, q.src2)
        BY <1>3, LoadsAlike
      <4> QED
        BY <1>3, <2>1, <3>2, <4>1 DEF After
    <3>4. After(c, rn, m) \in 0..l
      BY <1>1, <1>3, AfterIsThere
    <3> QED
      BY <3>1, <3>3, <3>4
  <2>2. CASE d[m.pc] # q
    <3>1. d[m.pc] = Simplify(q) /\ q \in Quads /\ QuadOK(q)
      BY <1>1, <1>2, <1>3, <2>2
    <3>2. q.op \in Ariths
      BY <2>2, <3>1 DEF Simplify, Ariths
    <3> DEFINE a == gen_mips_load(m, rn, q.src1)
               b == gen_mips_load(m, rn, q.src2)
    <3>3. a \in Int /\ b \in Int /\ (q.op = "/" => b # 0)
      BY <1>3, <3>2 DEF Defined
    <3>4. /\ Defines(Simplify(q)) /\ Simplify(q).dst = q.dst
          /\ Result(Simplify(q), rn, m) = Result(q, rn, m)
      <4> HIDE DEF a, b, q
      <4>1. PICK x \in Int, y \in Int : x = a /\ y = b
        BY <3>3
      <4>2. x = gen_mips_load(m, rn, q.src1) /\ y = gen_mips_load(m, rn, q.src2)
        BY <4>1 DEF a, b
      <4>3. q.op = "/" => y # 0
        BY <3>3, <4>1
      <4> QED
        BY <3>1, <3>2, <4>2, <4>3, SimplifyKeepsResult
    <3>5. Result(Simplify(q), rn, n) = Result(Simplify(q), rn, m)
      BY <1>3, LoadsAlike DEF Result
    <3> DEFINE mx == [m EXCEPT !.pc = m.pc + 1]
               nx == [n EXCEPT !.pc = n.pc + 1]
               v == Result(q, rn, m)
    <3>6. StepCode(c, rn, m) = gen_mips_store(mx, rn, q.dst, v)
      BY <3>2, AssignmentStep DEF Defines
    <3>7. StepCode(d, rn, n) = gen_mips_store(nx, rn, q.dst, v)
      <4>1. d[n.pc] = Simplify(q)
        BY <1>3, <3>1
      <4> HIDE DEF q
      <4> QED
        BY <3>4, <3>5, <4>1, AssignmentStep
    <3>8. Alike(mx, nx) /\ mx.pc = m.pc + 1 /\ nx.pc = m.pc + 1
      BY <1>3, AtPlace
    <3>9. q.dst.k \in {"sym", "deref"}
      BY <3>1, <3>2 DEF QuadOK
    <3>10. m.pc + 1 \in 0..l
      <4>1. Follow(c, m.pc) = {m.pc + 1}
        BY <3>2 DEF Follow, Ariths, Ifs
      <4> QED
        BY <1>1, <1>3, <4>1, FollowIsThere
    <3> HIDE DEF mx, nx, v
    <3> QED
      BY <3>6, <3>7, <3>8, <3>9, <3>10, StoresAlike
  <2> QED
    BY <2>1, <2>2
<1>4. {0, 1} \subseteq DOMAIN at /\ DOMAIN at \subseteq 0..Len(c) /\ at[0] = 0 /\ at[1] = 1
  BY <1>1
<1>5. ASSUME NEW m, NEW n, Alike(m, n) /\ m.pc \in DOMAIN at \ {0} /\ n.pc = at[m.pc] /\ Defined(c, rn, m)
      PROVE  \E k : /\ k = StepCode(c, rn, m) \/ k = StepCode(c, rn, StepCode(c, rn, m))
                    /\ Alike(k, StepCode(d, rn, n))
                    /\ k.pc \in DOMAIN at /\ StepCode(d, rn, n).pc = at[k.pc]
  <2>1. m.pc \in 1..l /\ n.pc = m.pc
    BY <1>1, <1>5
  <2>2. /\ Alike(StepCode(c, rn, m), StepCode(d, rn, n))
        /\ StepCode(c, rn, m).pc \in 0..l /\ StepCode(d, rn, n).pc = StepCode(c, rn, m).pc
    BY <1>3, <1>5, <2>1
  <2>3. StepCode(c, rn, m).pc \in DOMAIN at /\ at[StepCode(c, rn, m).pc] = StepCode(d, rn, n).pc
    BY <1>1, <2>2
  <2> HIDE DEF at
  <2> QED
    BY <2>2, <2>3
<1>6. \A p \in DOMAIN at \ {0} : at[p] \in DOMAIN d
  BY <1>1
<1> HIDE DEF at
<1> QED
  BY <1>4, <1>5, <1>6 DEF Simulates

(* A test and its negation.                                                *)
LEMMA NegationHolds ==
  ASSUME NEW op \in Ifs, NEW a \in Int, NEW b \in Int
  PROVE  Negation[op] \in Ifs /\ (Holds(Negation[op], a, b) <=> ~ Holds(op, a, b))
<1>1. CASE op = "=="
  <2>1. Negation[op] = "!="
    BY <1>1 DEF Negation, Ifs
  <2> QED
    BY <1>1, <2>1 DEF Holds, Ifs
<1>2. CASE op = "!="
  <2>1. Negation[op] = "=="
    BY <1>2 DEF Negation, Ifs
  <2> QED
    BY <1>2, <2>1 DEF Holds, Ifs
<1>3. CASE op = "<="
  <2>1. Negation[op] = ">"
    BY <1>3 DEF Negation, Ifs
  <2> QED
    BY <1>3, <2>1 DEF Holds, Ifs
<1>4. CASE op = ">"
  <2>1. Negation[op] = "<="
    BY <1>4 DEF Negation, Ifs
  <2> QED
    BY <1>4, <2>1 DEF Holds, Ifs
<1>5. CASE op = "<"
  <2>1. Negation[op] = ">="
    BY <1>5 DEF Negation, Ifs
  <2> QED
    BY <1>5, <2>1 DEF Holds, Ifs
<1>6. CASE op = ">="
  <2>1. Negation[op] = "<"
    BY <1>6 DEF Negation, Ifs
  <2> QED
    BY <1>6, <2>1 DEF Holds, Ifs
<1> QED
  BY <1>1, <1>2, <1>3, <1>4, <1>5, <1>6 DEF Ifs

(* The list with a test negated and the goto after it gone: one step for   *)
(* the two quads when the test fails.                                      *)
LEMMA WithoutGotoRun ==
  ASSUME NEW c, NEW A, CodeOK(c, A), NEW i \in DOMAIN c, JumpsOverGoto(c, i), NEW rn
  PROVE  Simulates(c, WithoutGoto(c, i), rn)
<1> DEFINE d == WithoutGoto(c, i)
           first == [c[i] EXCEPT !.op = Negation[@], !.dst = c[i + 1].dst]
<1>1. PICK l \in Nat \ {0} : l = Len(c) /\ DOMAIN c = 1..l
  BY CodeIsList
<1>2. /\ 1 \in DOMAIN c /\ c[1].op = "enter" /\ LabelsOnce(c)
      /\ \A j \in DOMAIN c : QuadOK(c[j]) /\ c[j] \in Quads
  BY CodeIsList
<1>3. /\ i \in 1..l /\ i + 2 <= l /\ c[i].op \in Ifs /\ c[i + 1].op = "goto"
      /\ c[i + 2].op = "label" /\ c[i].dst.i = c[i + 2].src1.i
  BY <1>1 DEF JumpsOverGoto
<1>4. i # 1 /\ i + 1 \in DOMAIN c /\ i + 2 \in DOMAIN c
  BY <1>1, <1>2, <1>3 DEF Ifs
<1>5. /\ first.op = Negation[c[i].op] /\ first.src1 = c[i].src1 /\ first.src2 = c[i].src2
      /\ first.dst = c[i + 1].dst
  <2>1. c[i] \in Quads
    BY <1>2
  <2> QED
    BY <2>1 DEF Quads
<1>6. d = [j \in 1..l - 1 |-> IF j = i THEN first ELSE IF j < i THEN c[j] ELSE c[j + 1]]
  BY <1>1 DEF WithoutGoto
<1> DEFINE at == [p \in (0..l) \ {i + 1} |-> IF p <= i THEN p ELSE p - 1]
<1>7. LabelsOnce(d)
  <2>1. CodeOK(d, A)
    BY WithoutGotoOK
  <2> HIDE DEF d
  <2> QED
    BY <2>1, CodeIsList
<1> HIDE DEF d, first
<1>8. DOMAIN d = 1..l - 1
  BY <1>6
<1>9. ASSUME NEW p \in 1..l, p # i + 1
      PROVE  /\ p \in DOMAIN at \ {0} /\ at[p] \in 1..l - 1
             /\ at[p] = IF p <= i THEN p ELSE p - 1
             /\ p # i => d[at[p]] = c[p]
  <2>1. p \in DOMAIN at \ {0} /\ at[p] = (IF p <= i THEN p ELSE p - 1) /\ i \in Nat
    BY <1>3, <1>9
  <2> HIDE DEF at
  <2>2. at[p] \in 1..l - 1
    BY <1>3, <1>9, <2>1
  <2>3. CASE p < i
    BY <1>6, <2>1, <2>2, <2>3
  <2>4. CASE p > i
    <3>1. at[p] = p - 1 /\ ~ (p - 1 < i) /\ p - 1 # i /\ (p - 1) + 1 = p
      BY <1>3, <1>9, <2>1, <2>4
    <3> QED
      BY <1>6, <2>1, <2>2, <3>1
  <2> QED
    BY <2>1, <2>2, <2>3, <2>4
<1>10. DOMAIN at = (0..l) \ {i + 1} /\ at[0] = 0
  BY <1>3
<1> HIDE DEF at
<1>11. ASSUME NEW k \in DOMAIN c, c[k].op = "label"
       PROVE  k # i + 1 /\ k # i /\ LabelAt(d, c[k].src1.i) = at[k]
  <2>1. k # i + 1 /\ k # i
    BY <1>3, <1>11 DEF Ifs
  <2>2. at[k] \in DOMAIN d /\ d[at[k]] = c[k]
    BY <1>1, <1>8, <1>9, <2>1
  <2> QED
    BY <1>7, <1>11, <2>1, <2>2, LabelIs
<1>12. ASSUME NEW k \in DOMAIN c, c[k].op \in Jumps
       PROVE  LET t == LabelAt(c, c[k].dst.i)
              IN  t \in 1..l /\ t # i + 1 /\ LabelAt(d, c[k].dst.i) = at[t]
  <2> DEFINE t == LabelAt(c, c[k].dst.i)
  <2>1. t \in DOMAIN c /\ c[t].op = "label" /\ c[t].src1.i = c[k].dst.i
    <3>1. \E j \in DOMAIN c : c[j].op = "label" /\ c[j].src1.i = c[k].dst.i
      BY <1>12, CodeIsList DEF JumpsHaveLabels
    <3> QED
      BY <3>1 DEF LabelAt
  <2> HIDE DEF t
  <2>2. t # i + 1 /\ LabelAt(d, c[k].dst.i) = at[t]
    BY <1>11, <2>1
  <2> QED
    BY <1>1, <2>1, <2>2 DEF t
<1>13. {0, 1} \subseteq DOMAIN at /\ DOMAIN at \subseteq 0..Len(c) /\ at[0] = 0 /\ at[1] = 1
  <2>1. 1 \in 1..l /\ 1 # i + 1 /\ 1 <= i
    BY <1>1, <1>3
  <2>2. at[1] = 1
    BY <1>9, <2>1
  <2> QED
    BY <1>1, <1>10, <2>1, <2>2
<1>14. \A p \in DOMAIN at \ {0} : at[p] \in DOMAIN d
  <2>1. \A p \in DOMAIN at \ {0} : p \in 1..l /\ p # i + 1
    BY <1>10
  <2> QED
    BY <1>8, <1>9, <2>1
<1>15. ASSUME NEW m, NEW n, Alike(m, n), m.pc \in 1..l, m.pc # i + 1, m.pc # i, n.pc = at[m.pc]
       PROVE  LET k == StepCode(c, rn, m)
              IN  /\ Alike(k, StepCode(d, rn, n))
                  /\ k.pc \in DOMAIN at /\ StepCode(d, rn, n).pc = at[k.pc]
  <2> DEFINE q == c[m.pc]
             L(o) == gen_mips_load(m, rn, o)
  <2>1. d[n.pc] = q /\ q \in Quads /\ QuadOK(q)
    BY <1>1, <1>2, <1>9, <1>15
  <2>2. /\ Alike(StepCode(c, rn, m), StepCode(d, rn, n))
        /\ StepCode(c, rn, m).pc = After(c, rn, m) /\ StepCode(d, rn, n).pc = After(d, rn, n)
    BY <1>15, <2>1, StepsAlike
  <2>3. gen_mips_load(n, rn, q.src1) = L(q.src1) /\ gen_mips_load(n, rn, q.src2) = L(q.src2)
    BY <1>15, LoadsAlike
  <2> HIDE DEF L
  <2>4. CASE q.op = "ret"
    <3>1. After(c, rn, m) = 0 /\ After(d, rn, n) = 0
      BY <2>1, <2>4 DEF After
    <3> QED
      BY <1>10, <1>13, <2>2, <3>1
  <2>5. CASE q.op = "goto" \/ (q.op \in Ifs /\ Holds(q.op, L(q.src1), L(q.src2)))
    <3>1. q.op \in Jumps /\ q.op # "ret"
      BY <2>5 DEF Jumps, Ifs
    <3>2. After(c, rn, m) = LabelAt(c, q.dst.i)
      BY <2>5, <3>1 DEF After, L
    <3>3. After(d, rn, n) = LabelAt(d, q.dst.i)
      <4>1. /\ d[n.pc].op # "ret"
            /\ d[n.pc].op = "goto" \/ (d[n.pc].op \in Ifs /\ Holds(d[n.pc].op,
                   gen_mips_load(n, rn, d[n.pc].src1), gen_mips_load(n, rn, d[n.pc].src2)))
        BY <2>1, <2>3, <2>5, <3>1
      <4>2. After(d, rn, n) = LabelAt(d, d[n.pc].dst.i)
        BY <4>1 DEF After
      <4> QED
        BY <2>1, <4>2
    <3>4. /\ LabelAt(c, q.dst.i) \in DOMAIN at
          /\ LabelAt(d, q.dst.i) = at[LabelAt(c, q.dst.i)]
      BY <1>1, <1>9, <1>12, <1>15, <3>1
    <3> QED
      BY <2>2, <3>2, <3>3, <3>4
  <2>6. CASE q.op # "ret" /\ ~ (q.op = "goto" \/ (q.op \in Ifs /\ Holds(q.op, L(q.src1), L(q.src2))))
    <3>1. After(c, rn, m) = m.pc + 1
      BY <2>6 DEF After, L
    <3>2. After(d, rn, n) = n.pc + 1
      <4>1. /\ d[n.pc].op # "ret"
            /\ ~ (d[n.pc].op = "goto" \/ (d[n.pc].op \in Ifs /\ Holds(d[n.pc].op,
                   gen_mips_load(n, rn, d[n.pc].src1), gen_mips_load(n, rn, d[n.pc].src2))))
        BY <2>1, <2>3, <2>6
      <4> QED
        BY <4>1 DEF After
    <3>3. m.pc + 1 \in 1..l
      <4>1. After(c, rn, m) \in DOMAIN c \cup {0} /\ m.pc \in Nat
        BY <1>1, <1>15, AfterIsThere
      <4> QED
        BY <1>1, <3>1, <4>1
    <3>4. m.pc + 1 # i + 1
      BY <1>1, <1>3, <1>15
    <3>5. m.pc + 1 \in DOMAIN at /\ at[m.pc + 1] = at[m.pc] + 1
      <4>1. /\ at[m.pc] = IF m.pc <= i THEN m.pc ELSE m.pc - 1
            /\ m.pc + 1 \in DOMAIN at
            /\ at[m.pc + 1] = IF m.pc + 1 <= i THEN m.pc + 1 ELSE (m.pc + 1) - 1
        BY <1>9, <1>15, <3>3, <3>4
      <4>2. m.pc + 1 <= i <=> m.pc <= i
        BY <1>3, <1>15
      <4>3. m.pc \in Int
        BY <1>15
      <4> QED
        BY <4>1, <4>2, <4>3
    <3> QED
      BY <1>15, <2>2, <3>1, <3>2, <3>5
  <2> QED
    BY <2>4, <2>5, <2>6
<1>16. ASSUME NEW m, NEW n, Alike(m, n), m.pc = i, n.pc = at[i], Defined(c, rn, m)
       PROVE  \E k : /\ k = StepCode(c, rn, m) \/ k = StepCode(c, rn, StepCode(c, rn, m))
                     /\ Alike(k, StepCode(d, rn, n))
                     /\ k.pc \in DOMAIN at /\ StepCode(d, rn, n).pc = at[k.pc]
  <2> DEFINE a == gen_mips_load(m, rn, c[i].src1)
             b == gen_mips_load(m, rn, c[i].src2)
             op == c[i].op
  <2>1. n.pc = i /\ d[i] = first
    <3>1. i \in 1..l /\ i # i + 1 /\ i <= i /\ i \in 1..l - 1
      BY <1>1, <1>3
    <3> QED
      BY <1>6, <1>9, <1>16, <3>1
  <2>2. a \in Int /\ b \in Int
    BY <1>3, <1>16 DEF Defined
  <2>3. gen_mips_load(n, rn, first.src1) = a /\ gen_mips_load(n, rn, first.src2) = b
    BY <1>5, <1>16, LoadsAlike
  <2> HIDE DEF a, b
  <2>4. /\ first.op \in Ifs /\ (Holds(first.op, a, b) <=> ~ Holds(op, a, b))
    BY <1>3, <1>5, <2>2, NegationHolds
  <2> DEFINE t == LabelAt(c, c[i + 1].dst.i)
             u == LabelAt(d, c[i + 1].dst.i)
  <2>5. /\ StepCode(c, rn, m) = IF Holds(op, a, b) THEN [m EXCEPT !.pc = LabelAt(c, c[i].dst.i)]
                                 ELSE [m EXCEPT !.pc = i + 1]
    BY <1>3, <1>16 DEF StepCode, Ifs, Ariths, a, b
  <2>6. /\ StepCode(d, rn, n) = IF Holds(op, a, b) THEN [n EXCEPT !.pc = i + 1]
                                 ELSE [n EXCEPT !.pc = u]
    <3> DEFINE o == first.op
    <3>1. d[n.pc].op = o /\ o \in Ifs /\ d[n.pc].src1 = first.src1 /\ d[n.pc].src2 = first.src2
            /\ d[n.pc].dst = c[i + 1].dst
      BY <1>5, <2>1, <2>4
    <3> HIDE DEF o
    <3>2. StepCode(d, rn, n) = IF Holds(o, a, b) THEN [n EXCEPT !.pc = u] ELSE [n EXCEPT !.pc = n.pc + 1]
      BY <2>3, <3>1 DEF StepCode, Ifs, Ariths
    <3> QED
      BY <2>1, <2>4, <3>2 DEF o
  <2>7. CASE Holds(op, a, b)
    <3>1. LabelAt(c, c[i].dst.i) = i + 2
      BY <1>2, <1>3, <1>4, LabelIs
    <3>2. i + 2 \in DOMAIN at /\ at[i + 2] = i + 1
      <4>1. i + 2 \in 1..l /\ i + 2 # i + 1 /\ ~ (i + 2 <= i) /\ (i + 2) - 1 = i + 1
        BY <1>1, <1>3
      <4> QED
        BY <1>9, <4>1
    <3> DEFINE mj == [m EXCEPT !.pc = i + 2]
               nj == [n EXCEPT !.pc = i + 1]
    <3>3. Alike(mj, nj) /\ mj.pc = i + 2 /\ nj.pc = i + 1
      BY <1>16, AtPlace
    <3>4. StepCode(c, rn, m) = mj /\ StepCode(d, rn, n) = nj
      BY <2>5, <2>6, <2>7, <3>1
    <3> HIDE DEF mj, nj
    <3> QED
      BY <3>2, <3>3, <3>4
  <2>8. CASE ~ Holds(op, a, b)
    <3> DEFINE mi == [m EXCEPT !.pc = i + 1]
               mj == [mi EXCEPT !.pc = t]
               nj == [n EXCEPT !.pc = u]
    <3>1. StepCode(c, rn, m) = mi /\ StepCode(d, rn, n) = nj
      BY <2>5, <2>6, <2>8
    <3>2. Alike(mi, n) /\ mi.pc = i + 1
      <4>1. Alike([m EXCEPT !.pc = i + 1], [n EXCEPT !.pc = n.pc]) /\ mi.pc = i + 1
        BY <1>16, AtPlace
      <4>2. [n EXCEPT !.pc = n.pc] = n
        BY <1>16 DEF Alike, Machine
      <4> QED
        BY <4>1, <4>2
    <3> HIDE DEF mi
    <3>3. StepCode(c, rn, mi) = mj
      BY <1>3, <3>2 DEF StepCode, Ifs, Ariths
    <3>4. Alike(mj, nj) /\ mj.pc = t /\ nj.pc = u
      BY <3>2, AtPlace
    <3>5. t \in DOMAIN at /\ u = at[t]
      <4>1. c[i + 1].op \in Jumps
        BY <1>3 DEF Jumps
      <4> QED
        BY <1>4, <1>9, <1>12, <4>1
    <3> HIDE DEF mj, nj, t, u
    <3> QED
      BY <3>1, <3>3, <3>4, <3>5
  <2> QED
    BY <2>7, <2>8
<1>17. ASSUME NEW m, NEW n, Alike(m, n) /\ m.pc \in DOMAIN at \ {0} /\ n.pc = at[m.pc] /\ Defined(c, rn, m)
       PROVE  \E k : /\ k = StepCode(c, rn, m) \/ k = StepCode(c, rn, StepCode(c, rn, m))
                     /\ Alike(k, StepCode(d, rn, n))
                     /\ k.pc \in DOMAIN at /\ StepCode(d, rn, n).pc = at[k.pc]
  <2>1. m.pc \in 1..l /\ m.pc # i + 1
    BY <1>10, <1>17
  <2>2. CASE m.pc = i
    BY <1>16, <1>17, <2>2
  <2>3. CASE m.pc # i
    BY <1>15, <1>17, <2>1, <2>3
  <2> QED
    BY <2>2, <2>3
<1>18. Simulates(c, d, rn)
  BY <1>13, <1>14, <1>17 DEF Simulates
<1> QED
  BY <1>18 DEF d

(* Every step of the peephole pass leaves a list that does what the list   *)
(* before it does (codegen.c:1699): a run of the new code goes through a   *)
(* run of the old one, quad by quad or two quads at a time, with the same  *)
(* variables, arrays, arguments and calls, wherever the variables are, and *)
(* returns the same.  A quad of the old code must compute with numbers and *)
(* not divide by 0: 0/x becomes 0.                                         *)
THEOREM PeepholeKeepsRuns == Spec => [][Peephole => \A rn : Simulates(code, code', rn)]_vars
<1>1. ASSUME CInv, Peephole, NEW rn PROVE Simulates(code, code', rn)
  <2> DEFINE found == {j \in curr..Len(code) : JumpsOverGoto(code, j) \/ Simplify(code[j]) # code[j]}
             i == Min(found)
  <2>1. /\ phase = "peephole"
        /\ (found # {} /\ code' = peephole_optimize(code, i)) \/ code' = code
    BY <1>1 DEF Peephole
  <2>2. CodeOK(code, Syms) /\ curr \in Nat \ {0}
    BY <1>1, <2>1 DEF CInv, CodeInv, PlaceInv
  <2>3. CASE code' = code
    <3> DEFINE d == code'
    <3>1. DOMAIN d = DOMAIN code /\ \A j \in DOMAIN code : d[j] = code[j] \/ d[j] = Simplify(code[j])
      BY <2>3
    <3> HIDE DEF d
    <3>2. Simulates(code, d, rn)
      BY <2>2, <3>1, SimplifiedRun
    <3> QED
      BY <3>2 DEF d
  <2>4. CASE found # {} /\ code' = peephole_optimize(code, i)
    <3>1. found \in SUBSET (curr..Len(code))
      OBVIOUS
    <3>2. i \in DOMAIN code
      <4> HIDE DEF found
      <4> QED
        BY <2>2, <2>4, <3>1, NextQuad
    <3> HIDE DEF i, found
    <3>3. CASE JumpsOverGoto(code, i)
      <4>1. code' = WithoutGoto(code, i)
        BY <2>4, <3>3 DEF peephole_optimize
      <4> QED
        BY <2>2, <3>2, <3>3, <4>1, WithoutGotoRun
    <3>4. CASE ~ JumpsOverGoto(code, i)
      <4> DEFINE d == [code EXCEPT ![i] = Simplify(@)]
      <4>1. code' = d
        BY <2>4, <3>4 DEF peephole_optimize
      <4>2. DOMAIN d = DOMAIN code /\ \A j \in DOMAIN code : d[j] = code[j] \/ d[j] = Simplify(code[j])
        OBVIOUS
      <4> HIDE DEF d
      <4> QED
        BY <2>2, <4>1, <4>2, SimplifiedRun
    <3> QED
      BY <3>3, <3>4
  <2> QED
    BY <2>1, <2>3, <2>4
<1>2. CInv /\ [Next]_vars => [Peephole => \A rn : Simulates(code, code', rn)]_vars
  BY <1>1
<1> QED
  BY <1>2, CompilerInvariant, PTL DEF Spec

(***************************************************************************)
(* Addresses are stored through right after they were computed.            *)
(***************************************************************************)
(* A quad in the place of another one that a pass does not move.           *)
SameShape(q, r) ==
  /\ Defines(r) <=> Defines(q)
  /\ Defines(q) => r.dst = q.dst
  /\ r.op \in Control <=> q.op \in Control
  /\ r.isLeader = q.isLeader

(* A simplified quad writes what it wrote (codegen.c:1751).                *)
LEMMA SimplifyShape ==
  ASSUME NEW q \in Quads
  PROVE  SameShape(q, Simplify(q))
<1> DEFINE N == [q EXCEPT !.op = "neg", !.src1 = q.src2, !.src2 = Null]
<1>1. ASSUME q.op \in Ariths, NEW o PROVE SameShape(q, AsMove(q, o))
  <2>1. /\ AsMove(q, o).op = "move" /\ AsMove(q, o).dst = q.dst
        /\ AsMove(q, o).isLeader = q.isLeader
    BY DEF AsMove, Quads
  <2> QED
    BY <1>1, <2>1 DEF SameShape, Defines, Control, Jumps, Ifs, Ariths
<1>2. ASSUME q.op \in Ariths PROVE SameShape(q, N)
  <2>1. N.op = "neg" /\ N.dst = q.dst /\ N.isLeader = q.isLeader
    BY DEF Quads
  <2> HIDE DEF N
  <2> QED
    BY <1>2, <2>1 DEF SameShape, Defines, Control, Jumps, Ifs, Ariths
<1>3. SameShape(q, q)
  BY DEF SameShape
<1>4. \/ Simplify(q) = q
      \/ q.op \in Ariths /\ (Simplify(q) = N \/ \E o : Simplify(q) = AsMove(q, o))
  <2> HIDE DEF N
  <2>1. CASE q.op \notin Ariths
    BY <2>1 DEF Simplify, Ariths
  <2>2. CASE q.op \in Ariths
    BY <2>2 DEF Simplify, N
  <2> QED
    BY <2>1, <2>2
<1> HIDE DEF N
<1> QED
  BY <1>1, <1>2, <1>3, <1>4

(* So does a quad in which a copy was put (codegen.c:1856).                *)
LEMMA ReplacedShape ==
  ASSUME NEW q \in Quads, NEW a, NEW b
  PROVE  SameShape(q, Replaced(q, a, b))
BY DEF SameShape, Replaced, Defines, Quads

(* The same quads but for their operands.                                  *)
LEMMA ShapeKeepsAddresses ==
  ASSUME NEW c, NEW A, CodeOK(c, A), AddressesComputed(c),
         NEW d, DOMAIN d = DOMAIN c, \A i \in DOMAIN c : SameShape(c[i], d[i])
  PROVE  AddressesComputed(d)
<1> SUFFICES ASSUME NEW j \in DOMAIN c, Through(d[j])
             PROVE  \E i \in 1..j - 1 : /\ Defines(d[i]) /\ d[i].dst.k = "sym" /\ d[i].dst.s = d[j].dst.s
                                        /\ Straight(d, i, j)
  BY DEF AddressesComputed
<1>1. Through(c[j]) /\ d[j].dst = c[j].dst
  BY DEF Through, SameShape
<1>2. PICK i \in 1..j - 1 : /\ Defines(c[i]) /\ c[i].dst.k = "sym" /\ c[i].dst.s = c[j].dst.s
                            /\ Straight(c, i, j)
  BY <1>1 DEF AddressesComputed
<1>3. PICK n \in Nat : DOMAIN c = 1..n
  BY CodeIsList
<1>4. i \in DOMAIN c /\ (\A k \in i..j : k \in DOMAIN c) /\ (\A k \in i + 1..j : k \in DOMAIN c)
  BY <1>3
<1>5. Straight(d, i, j)
  BY <1>2, <1>4 DEF Straight, SameShape
<1>6. Defines(d[i]) /\ d[i].dst = c[i].dst
  BY <1>2, <1>4 DEF SameShape
<1> QED
  BY <1>1, <1>2, <1>5, <1>6

(* A quad of the list that a pass makes of c by taking the goto out.       *)
LEMMA WithoutGotoKeepsAddresses ==
  ASSUME NEW c, NEW A, CodeOK(c, A), AddressesComputed(c), NEW g \in DOMAIN c, JumpsOverGoto(c, g)
  PROVE  AddressesComputed(WithoutGoto(c, g))
<1> DEFINE d == WithoutGoto(c, g)
           first == [c[g] EXCEPT !.op = Negation[@], !.dst = c[g + 1].dst]
<1>1. PICK n \in Nat \ {0} : n = Len(c) /\ DOMAIN c = 1..n
  BY CodeIsList
<1>2. /\ g \in 1..n /\ g + 2 <= n /\ c[g].op \in Ifs /\ c[g + 1].op = "goto"
      /\ c[g] \in Quads
  BY <1>1, CodeIsList DEF JumpsOverGoto
<1>3. d = [j \in 1..n - 1 |-> IF j = g THEN first ELSE IF j < g THEN c[j] ELSE c[j + 1]]
  BY <1>1 DEF WithoutGoto
<1>4. first.op \in Ifs
  <2>1. first.op = Negation[c[g].op]
    BY <1>2 DEF Quads
  <2> HIDE DEF first
  <2> QED
    BY <1>2, <2>1 DEF Negation, Ifs
<1> HIDE DEF d, first
<1>5. ~ Defines(first)
  BY <1>4 DEF Defines, Ariths, Ifs
<1> DEFINE old(j) == IF j < g THEN j ELSE j + 1
           new(k) == IF k < g THEN k ELSE k - 1
<1>6. \A j \in 1..n - 1 : j # g => old(j) \in 1..n /\ d[j] = c[old(j)] /\ new(old(j)) = j
  BY <1>2, <1>3
<1> SUFFICES ASSUME NEW j \in 1..n - 1, Through(d[j])
             PROVE  \E i \in 1..j - 1 : /\ Defines(d[i]) /\ d[i].dst.k = "sym" /\ d[i].dst.s = d[j].dst.s
                                        /\ Straight(d, i, j)
  <2>1. AddressesComputed(d)
    BY <1>3 DEF AddressesComputed
  <2> QED
    BY <2>1 DEF d
<1>7. j # g /\ old(j) \in 1..n /\ d[j] = c[old(j)]
  BY <1>3, <1>5, <1>6 DEF Through
<1>8. PICK i \in 1..old(j) - 1 : /\ Defines(c[i]) /\ c[i].dst.k = "sym" /\ c[i].dst.s = d[j].dst.s
                                 /\ Straight(c, i, old(j))
  BY <1>1, <1>7 DEF AddressesComputed
<1>9. ~ (g \in i..old(j)) /\ ~ (g + 1 \in i..old(j))
  BY <1>2, <1>8 DEF Straight, Control, Jumps
<1>10. \/ j < g /\ i < g
       \/ j > g /\ i > g + 1
  BY <1>2, <1>7, <1>9
<1>11. new(i) \in 1..j - 1 /\ new(i) # g /\ old(new(i)) = i /\ d[new(i)] = c[i]
  <2>1. new(i) \in 1..j - 1 /\ new(i) # g /\ old(new(i)) = i
    BY <1>2, <1>8, <1>10
  <2>2. new(i) \in 1..n - 1
    BY <2>1
  <2> HIDE DEF old, new
  <2> QED
    BY <1>6, <2>1, <2>2
<1>12. /\ \A k \in new(i)..j : old(k) \in i..old(j) /\ d[k] = c[old(k)]
       /\ \A k \in new(i) + 1..j : old(k) \in i + 1..old(j) /\ d[k] = c[old(k)]
  <2>1. \A k \in new(i)..j : k \in 1..n - 1 /\ k # g /\ old(k) \in i..old(j)
    BY <1>2, <1>8, <1>10
  <2>2. \A k \in new(i) + 1..j : k \in new(i)..j /\ old(k) \in i + 1..old(j)
    BY <1>2, <1>8, <1>10
  <2> HIDE DEF old, new
  <2> QED
    BY <1>6, <2>1, <2>2
<1>13. Straight(d, new(i), j)
  <2> HIDE DEF old, new
  <2> QED
    BY <1>8, <1>12 DEF Straight
<1> HIDE DEF new
<1> QED
  BY <1>8, <1>11, <1>13

(* Marking leaders: only a label, an enter and what follows a jump.        *)
LEMMA MarkLeadersKeepsAddresses ==
  ASSUME NEW c, NEW A, CodeOK(c, A), AddressesComputed(c)
  PROVE  AddressesComputed(MarkLeaders(c))
<1> DEFINE d == MarkLeaders(c)
           targets == {LabelAt(c, c[i].dst.i) : i \in {j \in DOMAIN c : c[j].op \in Jumps}}
           after == {i \in DOMAIN c : i > 1 /\ c[i - 1].op \in Jumps}
           L(i) == c[i].isLeader \/ i \in targets \cup after \/ c[i].op = "enter"
<1>1. PICK n \in Nat \ {0} : n = Len(c) /\ DOMAIN c = 1..n
  BY CodeIsList
<1>2. d = [i \in 1..n |-> [c[i] EXCEPT !.isLeader = L(i)]]
  BY <1>1 DEF MarkLeaders
<1>3. \A i \in 1..n : /\ d[i].op = c[i].op /\ d[i].dst = c[i].dst
                      /\ d[i].isLeader = L(i)
  <2> SUFFICES ASSUME NEW i \in 1..n
               PROVE  d[i].op = c[i].op /\ d[i].dst = c[i].dst /\ d[i].isLeader = L(i)
    OBVIOUS
  <2>1. d[i] = [c[i] EXCEPT !.isLeader = L(i)]
    BY <1>2
  <2>2. c[i] \in Quads
    BY <1>1, CodeIsList
  <2> HIDE DEF d, L
  <2> QED
    BY <2>1, <2>2 DEF Quads
<1>4. \A i \in targets : c[i].op = "label"
  <2> SUFFICES ASSUME NEW j \in DOMAIN c, c[j].op \in Jumps
               PROVE  c[LabelAt(c, c[j].dst.i)].op = "label"
    OBVIOUS
  <2>1. \E k \in DOMAIN c : c[k].op = "label" /\ c[k].src1.i = c[j].dst.i
    BY CodeIsList DEF JumpsHaveLabels
  <2> QED
    BY <2>1 DEF LabelAt
<1>5. \A i \in after : i - 1 \in 1..n /\ c[i - 1].op \in Jumps
  BY <1>1
<1>6. DOMAIN d = 1..n
  BY <1>2
<1> HIDE DEF d, targets, after
<1> SUFFICES ASSUME NEW j \in 1..n, Through(d[j])
             PROVE  \E i \in 1..j - 1 : /\ Defines(d[i]) /\ d[i].dst.k = "sym" /\ d[i].dst.s = d[j].dst.s
                                        /\ Straight(d, i, j)
  <2>1. AddressesComputed(d)
    BY <1>6 DEF AddressesComputed
  <2> QED
    BY <2>1 DEF d
<1>7. Through(c[j]) /\ d[j].dst = c[j].dst
  BY <1>3 DEF Through, Defines
<1>8. PICK i \in 1..j - 1 : /\ Defines(c[i]) /\ c[i].dst.k = "sym" /\ c[i].dst.s = c[j].dst.s
                            /\ Straight(c, i, j)
  BY <1>1, <1>7 DEF AddressesComputed
<1>9. i \in 1..n /\ (\A k \in i..j : k \in 1..n) /\ (\A k \in i + 1..j : k \in i..j /\ k - 1 \in i..j)
  OBVIOUS
<1>10. \A k \in i + 1..j : ~ L(k)
  <2> SUFFICES ASSUME NEW k \in i + 1..j PROVE ~ L(k)
    OBVIOUS
  <2>1. ~ c[k].isLeader /\ c[k].op \notin Control /\ c[k - 1].op \notin Control
    BY <1>8, <1>9 DEF Straight
  <2> QED
    BY <1>4, <1>5, <2>1 DEF Control
<1>11. Straight(d, i, j)
  <2> HIDE DEF L
  <2> QED
    BY <1>3, <1>8, <1>9, <1>10 DEF Straight
<1>12. Defines(d[i])
  BY <1>3, <1>8, <1>9 DEF Defines
<1> QED
  BY <1>3, <1>7, <1>8, <1>9, <1>11, <1>12

(* What is live before a quad that is stored through, and so on.           *)
LEMMA LiveBeforeIs ==
  ASSUME NEW q, NEW live, NEW v
  PROVE  /\ v \in live /\ v \notin Ids(DstOf(q)) => v \in LiveBefore(q, live)
         /\ v \in Ids(DstOf(q)) /\ Through(q) => v \in LiveBefore(q, live)
         /\ v \in LiveBefore(q, live) =>
               \/ v \in Ids(SrcOf(q))
               \/ v \in live /\ v \notin Ids(DstOf(q))
               \/ v \in Ids(DstOf(q)) /\ Through(q)
         /\ v \in Ids(SrcOf(q)) /\ ~ IsDead(q, live) => v \in LiveBefore(q, live)
BY DEF LiveBefore, IsDead

(* The elimination of dead code: the last quad that computes an address is *)
(* not dead.                                                               *)
LEMMA DeadCodeKeepsAddresses ==
  ASSUME NEW c, NEW A, CodeOK(c, A), OneSymbolPerName(A), AddressesComputed(c),
         NEW live, Analysed(c, live)
  PROVE  AddressesComputed(deadCodeEliminate(c, live))
<1> DEFINE d == deadCodeEliminate(c, live)
           after == LiveAfter(c, live)
<1>1. PICK n \in Nat \ {0} : n = Len(c) /\ DOMAIN c = 1..n
  BY CodeIsList
<1>2. \A i \in 1..n : QuadOK(c[i]) /\ c[i] \in Quads /\ SymbolsIn(c[i]) \subseteq A
  BY <1>1, CodeIsList
<1>3. /\ DOMAIN d = 1..n
      /\ \A i \in 1..n : SameControl(c[i], d[i]) /\ d[i].isLeader = c[i].isLeader
      /\ \A i \in 1..n : IF IsDead(c[i], after[i]) THEN d[i].op = "nop" ELSE d[i] = c[i]
  BY <1>1, DeadCodeOK
<1>4. \A i \in 1..n : after[i] = IF EndsBlock(c, i) THEN Out(c, live, i)
                                 ELSE LiveBefore(c[i + 1], after[i + 1])
  BY <1>1, LiveAfterIs
<1> HIDE DEF d, after
<1> SUFFICES ASSUME NEW j \in 1..n, Through(d[j])
             PROVE  \E i \in 1..j - 1 : /\ Defines(d[i]) /\ d[i].dst.k = "sym" /\ d[i].dst.s = d[j].dst.s
                                        /\ Straight(d, i, j)
  <2>1. AddressesComputed(d)
    BY <1>3 DEF AddressesComputed
  <2> QED
    BY <2>1 DEF d
<1>5. d[j] = c[j]
  BY <1>3 DEF Through, Defines, Ariths
<1> DEFINE s == c[j].dst.s
           Sets(k) == Defines(c[k]) /\ c[k].dst.k = "sym" /\ c[k].dst.s = s
<1>6. PICK i \in 1..j - 1 : Sets(i) /\ Straight(c, i, j)
  BY <1>1, <1>5 DEF AddressesComputed
<1>7. PICK k \in i..j - 1 : Sets(k) /\ \A p \in k + 1..j - 1 : ~ Sets(p)
  <2> DEFINE T == {p \in i..j - 1 : \E r \in p..j - 1 : Sets(r)}
  <2> HIDE DEF Sets
  <2>1. i \in T /\ T \in SUBSET (1..n) /\ n \in Nat
    BY <1>6
  <2>2. PICK p \in T : p + 1 \notin T
    <3> HIDE DEF T
    <3> QED
      BY <2>1, LastOne
  <2>3. PICK r \in p..j - 1 : Sets(r)
    BY <2>2
  <2>4. p \in i..j - 1
    BY <2>2
  <2>5. r = p
    <3>1. ASSUME r # p PROVE FALSE
      <4>1. p + 1 \in i..j - 1 /\ r \in p + 1..j - 1
        BY <2>3, <2>4, <3>1
      <4> QED
        BY <2>2, <2>3, <4>1
    <3> QED
      BY <3>1
  <2>6. \A x \in p + 1..j - 1 : ~ Sets(x)
    <3> SUFFICES ASSUME NEW x \in p + 1..j - 1, Sets(x) PROVE FALSE
      OBVIOUS
    <3>1. p + 1 \in i..j - 1
      BY <2>4
    <3> QED
      BY <2>2, <3>1
  <2> QED
    BY <2>3, <2>4, <2>5, <2>6
<1>8. k \in 1..n /\ k \in 1..j - 1
  BY <1>7
<1>9. Straight(c, k, j)
  <2>1. (\A x \in k..j : x \in i..j) /\ (\A x \in k + 1..j : x \in i + 1..j)
    BY <1>7
  <2> QED
    BY <1>6, <2>1 DEF Straight
<1>10. ~ IsDead(c[k], after[k])
  <2>1. CASE s.scope # "local"
    <3>1. DstOf(c[k]) = {}
      BY <1>7, <2>1 DEF DstOf, LocalOf, SymbolIn
    <3> QED
      BY <3>1 DEF IsDead
  <2>2. CASE s.scope = "local"
    <3> DEFINE v == s.id
               Bad == {p \in k..j - 1 : v \notin after[p]}
    <3>1. v \in Ids(DstOf(c[k])) /\ v \in Ids(DstOf(c[j]))
      <4>1. DstOf(c[k]) = {s}
        BY <1>7, <2>2 DEF DstOf, LocalOf, SymbolIn
      <4>2. DstOf(c[j]) = {s}
        BY <1>5, <2>2 DEF DstOf, LocalOf, SymbolIn, Through
      <4> QED
        BY <4>1, <4>2 DEF Ids
    <3>2. ASSUME NEW p \in k + 1..j - 1 PROVE v \in Ids(DstOf(c[p])) => Through(c[p])
      <4> SUFFICES ASSUME v \in Ids(DstOf(c[p])), ~ Through(c[p]) PROVE FALSE
        OBVIOUS
      <4>1. PICK t \in DstOf(c[p]) : t.id = v
        BY DEF Ids
      <4>2. Defines(c[p]) /\ t = c[p].dst.s /\ c[p].dst.k \in {"sym", "addr", "deref"}
        BY <4>1 DEF DstOf, LocalOf, SymbolIn
      <4>3. p \in 1..n /\ QuadOK(c[p]) /\ t \in A
        <5>1. p \in 1..n
          BY <1>8
        <5>2. t \in SymbolsIn(c[p])
          BY <1>2, <4>1, <5>1, SymbolsOfQuad
        <5> QED
          BY <1>2, <5>1, <5>2
      <4>4. c[p].dst.k = "sym"
        BY <4>2, <4>3 DEF QuadOK, Through, Defines
      <4>5. s \in A
        <5>1. s \in SymbolsIn(c[j])
          BY <1>5 DEF Through, SymbolsIn, SymbolIn
        <5> QED
          BY <1>2, <5>1
      <4>6. t = s
        BY <4>1, <4>3, <4>5 DEF OneSymbolPerName
      <4> QED
        BY <1>7, <4>2, <4>4, <4>6
    <3>3. ASSUME NEW p \in k..j - 1, p + 1 \notin Bad PROVE v \in after[p]
      <4>1. p \in 1..n /\ p + 1 \in k + 1..j /\ p + 1 \in 1..n
        BY <1>8
      <4>2. ~ EndsBlock(c, p)
        BY <1>1, <1>9, <4>1 DEF EndsBlock, Straight
      <4>3. after[p] = LiveBefore(c[p + 1], after[p + 1])
        BY <1>4, <4>1, <4>2
      <4>4. CASE p + 1 = j
        BY <1>5, <3>1, <4>3, <4>4, LiveBeforeIs
      <4>5. CASE p + 1 # j
        <5>1. p + 1 \in k..j - 1 /\ p + 1 \in k + 1..j - 1
          BY <4>1, <4>5
        <5>2. v \in after[p + 1]
          BY <3>3, <5>1
        <5> HIDE DEF v
        <5> QED
          BY <3>2, <4>3, <5>1, <5>2, LiveBeforeIs
      <4> QED
        BY <4>4, <4>5
    <3>4. Bad = {}
      <4> SUFFICES ASSUME Bad # {} PROVE FALSE
        OBVIOUS
      <4>1. Bad \in SUBSET (1..n) /\ n \in Nat
        BY <1>8
      <4>2. PICK p \in Bad : p + 1 \notin Bad
        <5> HIDE DEF Bad
        <5> QED
          BY <4>1, LastOne
      <4>3. p \in k..j - 1 /\ v \notin after[p]
        BY <4>2
      <4> HIDE DEF Bad, v
      <4> QED
        BY <3>3, <4>2, <4>3
    <3>5. v \in after[k]
      BY <1>7, <3>4
    <3> QED
      BY <3>1, <3>5 DEF IsDead
  <2> QED
    BY <2>1, <2>2
<1>11. d[k] = c[k]
  BY <1>3, <1>8, <1>10
<1>12. Straight(d, k, j)
  <2>1. \A x \in k..j : x \in 1..n /\ d[x].op \in Control => c[x].op \in Control
    BY <1>3, <1>8 DEF SameControl
  <2>2. \A x \in k..j : x \in 1..n
    BY <1>8
  <2>3. \A x \in k + 1..j : x \in 1..n
    BY <1>8
  <2> QED
    BY <1>3, <1>9, <2>2, <2>3 DEF Straight, SameControl
<1> QED
  BY <1>5, <1>7, <1>8, <1>11, <1>12

(***************************************************************************)
(* What is live before a block is in the set of the block.                 *)
(***************************************************************************)
(* calculateDefAndUse takes the address that a quad stores through for     *)
(* one that it defines: that is no harm as the block computes it first.    *)
LEMMA LiveBeforeBlock ==
  ASSUME NEW c, NEW A, CodeOK(c, A), AddressesComputed(c), NEW live, Analysed(c, live),
         live = calculateInAndOut(c, live),
         NEW b \in Leaders(c), NEW v \in LiveBefore(c[b], LiveAfter(c, live)[b])
  PROVE  v \in live[b]
<1> DEFINE after == LiveAfter(c, live)
           du == calculateDefAndUse(c)
           D(i) == Ids(DstOf(c[i]))
           U(i) == Ids(SrcOf(c[i]))
           out(i) == Out(c, live, LastOf(c, i))
<1>1. PICK n \in Nat \ {0} : n = Len(c) /\ DOMAIN c = 1..n
  BY CodeIsList
<1>2. /\ \A i \in 1..n : QuadOK(c[i]) /\ SymbolsIn(c[i]) \subseteq A /\ c[i] \in Quads
      /\ \A i \in 1..n : ~ EndsBlock(c, i) => i + 1 \in 1..n /\ ~ c[i + 1].isLeader
  BY <1>1, CodeIsList, Blocks DEF EndsBlock
<1>3. \A i \in 1..n : after[i] = IF EndsBlock(c, i) THEN Out(c, live, i)
                                 ELSE LiveBefore(c[i + 1], after[i + 1])
  BY <1>1, LiveAfterIs
<1>4. \A i \in 1..n : du[i] = Extended(c[i], IF EndsBlock(c, i) THEN Nothing ELSE du[i + 1])
  BY <1>1, DefAndUseIs
<1> DEFINE StoredBy(i, j) ==
             /\ Through(c[j]) /\ v \in D(j) /\ \A x \in i + 1..j : ~ c[x].isLeader
             /\ \A x \in i..j - 1 : v \in D(x) => Through(c[x])
           Pending(i) == \E j \in i..n : StoredBy(i, j)
           Known(i) == v \in LiveBefore(c[i], after[i]) =>
                          Pending(i) \/ v \in du[i].use \cup (out(i) \ du[i].def)
<1> HIDE DEF after, du
<1>5. ASSUME NEW i \in 1..n, ~ EndsBlock(c, i) => Known(i + 1) PROVE Known(i)
  <2> SUFFICES ASSUME v \in LiveBefore(c[i], after[i]), ~ Pending(i)
               PROVE  v \in du[i].use \cup (out(i) \ du[i].def)
    OBVIOUS
  <2> DEFINE rest == IF EndsBlock(c, i) THEN Nothing ELSE du[i + 1]
  <2>1. v \in U(i) \/ (v \in after[i] /\ v \notin D(i))
    <3>1. ~ (v \in D(i) /\ Through(c[i]))
      <4> SUFFICES ASSUME v \in D(i), Through(c[i]) PROVE Pending(i)
        OBVIOUS
      <4>1. i \in i..n /\ StoredBy(i, i)
        OBVIOUS
      <4> QED
        BY <4>1
    <3> QED
      BY <3>1, LiveBeforeIs
  <2>2. ASSUME v \in after[i], v \notin D(i) PROVE v \in rest.use \cup (out(i) \ rest.def)
    <3>1. CASE EndsBlock(c, i)
      <4>1. after[i] = Out(c, live, i) /\ LastOf(c, i) = i
        BY <1>1, <1>3, <3>1, LastOfIs
      <4> QED
        BY <2>2, <3>1, <4>1 DEF Nothing
    <3>2. CASE ~ EndsBlock(c, i)
      <4>1. after[i] = LiveBefore(c[i + 1], after[i + 1]) /\ LastOf(c, i) = LastOf(c, i + 1)
        BY <1>1, <1>3, <3>2, LastOfIs
      <4>2. ~ Pending(i + 1)
        <5> SUFFICES ASSUME NEW j \in i + 1..n, StoredBy(i + 1, j) PROVE Pending(i)
          OBVIOUS
        <5>1. /\ \A k \in i + 1..j : k = i + 1 \/ k \in (i + 1) + 1..j
              /\ \A k \in i..j - 1 : k = i \/ k \in i + 1..j - 1
              /\ j \in i..n
          OBVIOUS
        <5>2. ~ c[i + 1].isLeader
          BY <1>2, <3>2
        <5> HIDE DEF D
        <5>3. StoredBy(i, j)
          BY <2>2, <5>1, <5>2
        <5> QED
          BY <5>1, <5>3
      <4> QED
        BY <1>5, <2>2, <3>2, <4>1, <4>2
    <3> QED
      BY <3>1, <3>2
  <2>3. du[i].def = (rest.def \cup D(i)) \ U(i) /\ du[i].use = (rest.use \ D(i)) \cup U(i)
    <3>1. du[i] = Extended(c[i], rest)
      BY <1>4
    <3> HIDE DEF rest
    <3> QED
      BY <3>1 DEF Extended
  <2> HIDE DEF D, U, rest, out
  <2> QED
    BY <2>1, <2>2, <2>3
<1>6. \A i \in 1..n : Known(i)
  <2> DEFINE Bad == {i \in 1..n : ~ Known(i)}
  <2> SUFFICES ASSUME Bad # {} PROVE FALSE
    OBVIOUS
  <2> HIDE DEF Known
  <2>1. PICK i \in Bad : i + 1 \notin Bad
    <3>1. Bad \in SUBSET (1..n) /\ n \in Nat
      OBVIOUS
    <3> HIDE DEF Bad
    <3> QED
      BY <3>1, LastOne
  <2> QED
    BY <1>2, <1>5, <2>1
<1>7. b \in 1..n /\ c[b].isLeader
  BY <1>1 DEF Leaders
<1>8. ~ Pending(b)
  <2> SUFFICES ASSUME NEW j \in b..n, StoredBy(b, j) PROVE FALSE
    OBVIOUS
  <2>1. j \in 1..n
    BY <1>7
  <2>2. PICK i \in 1..j - 1 : /\ Defines(c[i]) /\ c[i].dst.k = "sym" /\ c[i].dst.s = c[j].dst.s
                              /\ Straight(c, i, j)
    BY <1>1, <2>1 DEF AddressesComputed
  <2>3. i \in b..j - 1
    <3>1. ~ (b \in i + 1..j)
      BY <1>7, <2>2 DEF Straight
    <3> QED
      BY <1>7, <2>1, <3>1
  <2>4. DstOf(c[i]) = DstOf(c[j])
    BY <2>2 DEF DstOf, LocalOf, SymbolIn, Through
  <2>5. ~ Through(c[i])
    BY <2>2 DEF Through
  <2> QED
    BY <2>3, <2>4, <2>5
<1>9. v \in du[b].use \cup (out(b) \ du[b].def)
  BY <1>6, <1>7, <1>8 DEF after
<1>10. live[b] = du[b].use \cup (out(b) \ du[b].def)
  <2>1. DOMAIN live = Leaders(c)
    BY DEF Analysed
  <2>2. calculateInAndOut(c, live)[b] = du[b].use \cup (out(b) \ du[b].def)
    BY <2>1 DEF calculateInAndOut, du
  <2> QED
    BY <2>2
<1> QED
  BY <1>9, <1>10

(* What is live before the next quad is live after this one.               *)
LEMMA LiveBeforeNext ==
  ASSUME NEW c, NEW A, CodeOK(c, A), AddressesComputed(c), NEW live, Analysed(c, live),
         live = calculateInAndOut(c, live),
         NEW i \in DOMAIN c, NEW t \in Follow(c, i)
  PROVE  LiveBefore(c[t], LiveAfter(c, live)[t]) \subseteq LiveAfter(c, live)[i]
<1> DEFINE after == LiveAfter(c, live)
<1>1. PICK n \in Nat \ {0} : n = Len(c) /\ DOMAIN c = 1..n
  BY CodeIsList
<1>2. after[i] = IF EndsBlock(c, i) THEN Out(c, live, i) ELSE LiveBefore(c[i + 1], after[i + 1])
  BY LiveAfterIs
<1>3. c[n].op = "ret"
  BY <1>1, CodeIsList
<1>4. CASE EndsBlock(c, i)
  <2>1. i # n
    BY <1>3 DEF Follow, Ifs
  <2>2. t \in Successors(c, i)
    BY <1>1, <2>1 DEF Follow, Successors, Jumps, Ifs
  <2>3. t \in Leaders(c)
    BY <1>4, <2>2, SuccessorsLead
  <2>4. LiveBefore(c[t], after[t]) \subseteq live[t]
    BY <2>3, LiveBeforeBlock
  <2> HIDE DEF after
  <2>5. LiveBefore(c[t], after[t]) \subseteq after[i]
    BY <1>2, <1>4, <2>2, <2>4 DEF Out
  <2> QED
    BY <2>5 DEF after
<1>5. CASE ~ EndsBlock(c, i)
  <2>1. c[i].op \notin Jumps
    <3>1. ASSUME c[i].op \in Jumps PROVE i + 1 \in Leaders(c)
      BY <3>1 DEF Analysed, Marked
    <3> QED
      BY <1>5, <3>1 DEF EndsBlock, Leaders
  <2>2. t = i + 1
    BY <2>1 DEF Follow, Jumps
  <2> QED
    BY <1>2, <1>5, <2>2
<1> QED
  BY <1>4, <1>5

(***************************************************************************)
(* What the elimination of dead code does to a run of the code.            *)
(***************************************************************************)
(* The same machine but for the cells of the symbols that are lost.        *)
AlikeBut(m, n, ids, lost) ==
  /\ Machine(m) /\ Machine(n)
  /\ m.mem = n.mem /\ m.reg = n.reg /\ m.stack = n.stack
  /\ m.calls = n.calls /\ m.rv = n.rv /\ m.ret = n.ret /\ m.pc = n.pc
  /\ ids \subseteq DOMAIN m.cell /\ DOMAIN n.cell = DOMAIN m.cell
  /\ \A x \in DOMAIN m.cell \ lost : m.cell[x] = n.cell[x]

(* The code d does what c does, quad by quad, but for cells of locals that *)
(* the rest of the run has no need of.                                     *)
SimulatesBut(c, d, rn, locs) ==
  LET ids == Ids(AllSymbols(c)) \cup {Counter} IN
  \E lost \in [0..Len(c) -> SUBSET Ids(locs)] :
    \A m, n :
      m.pc \in DOMAIN c /\ AlikeBut(m, n, ids, lost[m.pc]) =>
        /\ StepCode(c, rn, m).pc \in DOMAIN c \cup {0}
        /\ AlikeBut(StepCode(c, rn, m), StepCode(d, rn, n), ids, lost[StepCode(c, rn, m).pc])

(* A symbol that is not lost is loaded alike.                              *)
LEMMA LoadsBut ==
  ASSUME NEW m, NEW n, NEW ids, NEW lost, AlikeBut(m, n, ids, lost), NEW rn, NEW o,
         Ids(SymbolIn(o)) \subseteq ids \ lost
  PROVE  gen_mips_load(m, rn, o) = gen_mips_load(n, rn, o)
<1>1. o.k \in {"sym", "addr", "deref"} => m.cell[o.s.id] = n.cell[o.s.id]
  BY DEF AlikeBut, SymbolIn, Ids
<1>2. m.reg = n.reg /\ m.mem = n.mem
  BY DEF AlikeBut
<1> QED
  BY <1>1, <1>2 DEF gen_mips_load

(* The next place.                                                         *)
LEMMA AtPlaceBut ==
  ASSUME NEW m, NEW n, NEW ids, NEW lost, AlikeBut(m, n, ids, lost), NEW x
  PROVE  /\ AlikeBut([m EXCEPT !.pc = x], [n EXCEPT !.pc = x], ids, lost)
         /\ [m EXCEPT !.pc = x].pc = x /\ [n EXCEPT !.pc = x].pc = x
<1> DEFINE j == [m EXCEPT !.pc = x]
           k == [n EXCEPT !.pc = x]
<1>1. /\ j = [cell |-> m.cell, mem |-> m.mem, reg |-> m.reg, stack |-> m.stack,
              calls |-> m.calls, rv |-> m.rv, pc |-> x, ret |-> m.ret]
      /\ k = [cell |-> n.cell, mem |-> n.mem, reg |-> n.reg, stack |-> n.stack,
              calls |-> n.calls, rv |-> n.rv, pc |-> x, ret |-> n.ret]
  BY DEF AlikeBut, Machine
<1> HIDE DEF j, k
<1>2. AlikeBut(j, k, ids, lost)
  BY <1>1 DEF AlikeBut, Machine
<1> QED
  BY <1>1, <1>2 DEF j, k

(* Cells written alike.                                                    *)
LEMMA WrittenBut ==
  ASSUME NEW m, NEW n, NEW ids, NEW lost, AlikeBut(m, n, ids, lost), NEW x \in ids, NEW v
  PROVE  LET f == [m.cell EXCEPT ![x] = v]
             g == [n.cell EXCEPT ![x] = v]
         IN  /\ DOMAIN f = DOMAIN m.cell /\ DOMAIN g = DOMAIN f
             /\ \A y \in DOMAIN f \ (lost \ {x}) : f[y] = g[y]
BY DEF AlikeBut

(* Cells that are alike but for what is lost.                              *)
LEMMA CellsBut ==
  ASSUME NEW m, NEW n, NEW ids, NEW lost, AlikeBut(m, n, ids, lost), NEW f, NEW g, NEW less,
         DOMAIN f = DOMAIN m.cell, DOMAIN g = DOMAIN f, \A y \in DOMAIN f \ less : f[y] = g[y]
  PROVE  /\ AlikeBut([m EXCEPT !.cell = f], [n EXCEPT !.cell = g], ids, less)
         /\ [m EXCEPT !.cell = f].pc = m.pc /\ [n EXCEPT !.cell = g].pc = n.pc
<1> DEFINE j == [m EXCEPT !.cell = f]
           k == [n EXCEPT !.cell = g]
<1>1. /\ j = [cell |-> f, mem |-> m.mem, reg |-> m.reg, stack |-> m.stack,
              calls |-> m.calls, rv |-> m.rv, pc |-> m.pc, ret |-> m.ret]
      /\ k = [cell |-> g, mem |-> n.mem, reg |-> n.reg, stack |-> n.stack,
              calls |-> n.calls, rv |-> n.rv, pc |-> n.pc, ret |-> n.ret]
  BY DEF AlikeBut, Machine
<1> HIDE DEF j, k
<1>2. AlikeBut(j, k, ids, less)
  BY <1>1 DEF AlikeBut, Machine
<1> QED
  BY <1>1, <1>2 DEF j, k

(* What is stored alike is lost no more.                                   *)
LEMMA StoresBut ==
  ASSUME NEW m, NEW n, NEW ids, NEW lost, AlikeBut(m, n, ids, lost), NEW rn, NEW o, NEW v,
         o.k \in {"sym", "deref"}, o.s.id \in ids, ~ InRegister(rn, o.s),
         o.k = "deref" => o.s.id \notin lost
  PROVE  /\ AlikeBut(gen_mips_store(m, rn, o, v), gen_mips_store(n, rn, o, v), ids,
                     IF o.k = "sym" THEN lost \ {o.s.id} ELSE lost)
         /\ gen_mips_store(m, rn, o, v).pc = m.pc /\ gen_mips_store(n, rn, o, v).pc = n.pc
<1> DEFINE s == o.s
<1>1. CASE o.k = "sym"
  <2> DEFINE w == Narrow(s.type, v)
  <2>1. /\ gen_mips_store(m, rn, o, v) = [m EXCEPT !.cell = [m.cell EXCEPT ![s.id] = w]]
        /\ gen_mips_store(n, rn, o, v) = [n EXCEPT !.cell = [n.cell EXCEPT ![s.id] = w]]
    BY <1>1 DEF gen_mips_store
  <2> HIDE DEF w
  <2> DEFINE f == [m.cell EXCEPT ![s.id] = w]
             g == [n.cell EXCEPT ![s.id] = w]
             j == [m EXCEPT !.cell = f]
             k == [n EXCEPT !.cell = g]
  <2>2. AlikeBut(j, k, ids, lost \ {s.id}) /\ j.pc = m.pc /\ k.pc = n.pc
    <3>1. /\ DOMAIN f = DOMAIN m.cell /\ DOMAIN g = DOMAIN f
          /\ \A y \in DOMAIN f \ (lost \ {s.id}) : f[y] = g[y]
      <4> DEFINE x == s.id
      <4>1. x \in ids
        OBVIOUS
      <4> HIDE DEF x, j, k
      <4>2. LET F == [m.cell EXCEPT ![x] = w]
                G == [n.cell EXCEPT ![x] = w]
            IN  /\ DOMAIN F = DOMAIN m.cell /\ DOMAIN G = DOMAIN F
                /\ \A y \in DOMAIN F \ (lost \ {x}) : F[y] = G[y]
        BY ONLY AlikeBut(m, n, ids, lost), <4>1 DEF AlikeBut
      <4> QED
        BY <4>2 DEF x
    <3> HIDE DEF f, g
    <3> QED
      BY <3>1, CellsBut
  <2>3. gen_mips_store(m, rn, o, v) = j /\ gen_mips_store(n, rn, o, v) = k
    BY <2>1
  <2> HIDE DEF j, k
  <2> QED
    BY <1>1, <2>2, <2>3
<1>2. CASE o.k = "deref"
  <2> DEFINE w == Narrow(s.elt, v)
             x == m.cell[s.id]
             r == [m.mem EXCEPT ![x] = w]
  <2>1. n.cell[s.id] = x /\ n.mem = m.mem
    BY <1>2 DEF AlikeBut
  <2>2. /\ gen_mips_store(m, rn, o, v) = [m EXCEPT !.mem = r]
        /\ gen_mips_store(n, rn, o, v) = [n EXCEPT !.mem = r]
    BY <1>2, <2>1 DEF gen_mips_store
  <2> HIDE DEF r
  <2> DEFINE j == [m EXCEPT !.mem = r]
             k == [n EXCEPT !.mem = r]
  <2>3. /\ j = [cell |-> m.cell, mem |-> r, reg |-> m.reg, stack |-> m.stack,
                calls |-> m.calls, rv |-> m.rv, pc |-> m.pc, ret |-> m.ret]
        /\ k = [cell |-> n.cell, mem |-> r, reg |-> n.reg, stack |-> n.stack,
                calls |-> n.calls, rv |-> n.rv, pc |-> n.pc, ret |-> n.ret]
    BY DEF AlikeBut, Machine
  <2> HIDE DEF j, k
  <2>4. AlikeBut(j, k, ids, lost)
    BY <2>3 DEF AlikeBut, Machine
  <2>5. j.pc = m.pc /\ k.pc = n.pc
    BY <2>3
  <2> QED
    BY <1>2, <2>2, <2>4, <2>5 DEF j, k
<1> QED
  BY <1>1, <1>2

(* The symbols of which an instruction reads the cells, and the one that   *)
(* it writes.                                                              *)
Reads(q) ==
  (IF Defines(q) \/ q.op \in Ifs \cup {"param", "ret"} THEN SymbolIn(q.src1) ELSE {})
    \cup (IF q.op \in Ariths \cup Ifs THEN SymbolIn(q.src2) ELSE {})
    \cup (IF Through(q) THEN SymbolIn(q.dst) ELSE {})
Writes(q) ==
  (IF Defines(q) /\ q.dst.k = "sym" THEN {q.dst.s} ELSE {})
    \cup (IF q.op = "retrieve" THEN {q.src1.s} ELSE {})

(* One quad.                                                               *)
LEMMA StepsBut ==
  ASSUME NEW c, NEW d, NEW rn, NEW m, NEW n, NEW ids, NEW lost, AlikeBut(m, n, ids, lost),
         QuadOK(c[m.pc]), d[m.pc] = c[m.pc], \A l : LabelAt(d, l) = LabelAt(c, l),
         Ids(Reads(c[m.pc])) \subseteq ids \ lost, Ids(Writes(c[m.pc])) \subseteq ids,
         Counter \in ids \ lost, \A s \in SymbolsIn(c[m.pc]) : ~ InRegister(rn, s)
  PROVE  /\ AlikeBut(StepCode(c, rn, m), StepCode(d, rn, n), ids, lost \ Ids(Writes(c[m.pc])))
         /\ StepCode(c, rn, m).pc = After(c, rn, m)
<1> DEFINE q == c[m.pc]
           a == gen_mips_load(m, rn, q.src1)
           b == gen_mips_load(m, rn, q.src2)
           mx == [m EXCEPT !.pc = m.pc + 1]
           nx == [n EXCEPT !.pc = n.pc + 1]
           Goal == /\ AlikeBut(StepCode(c, rn, m), StepCode(d, rn, n), ids, lost \ Ids(Writes(q)))
                   /\ StepCode(c, rn, m).pc = After(c, rn, m)
<1> SUFFICES Goal
  OBVIOUS
<1>0. n.pc = m.pc /\ d[n.pc] = q /\ n.stack = m.stack /\ n.rv = m.rv
  BY DEF AlikeBut
<1>1. /\ Defines(q) \/ q.op \in Ifs \cup {"param", "ret"} => gen_mips_load(n, rn, q.src1) = a
      /\ q.op \in Ariths \cup Ifs => gen_mips_load(n, rn, q.src2) = b
  <2>1. Defines(q) \/ q.op \in Ifs \cup {"param", "ret"} => Ids(SymbolIn(q.src1)) \subseteq ids \ lost
    BY DEF Reads, Ids
  <2>2. q.op \in Ariths \cup Ifs => Ids(SymbolIn(q.src2)) \subseteq ids \ lost
    BY DEF Reads, Ids
  <2> QED
    BY <2>1, <2>2, LoadsBut
<1>2. AlikeBut(mx, nx, ids, lost) /\ mx.pc = m.pc + 1 /\ nx.pc = m.pc + 1
  BY <1>0, AtPlaceBut
<1>3. q.op \in Jumps \cup Ariths \cup {"move", "neg", "nop", "label", "enter", "leave", "param",
                                        "call", "retrieve", "ret"}
  BY DEF QuadOK, Quads
<1>4. ASSUME NEW v, NEW o, o.k \in {"sym", "deref"}, o \in {q.src1, q.dst},
             o.k = "sym" => Ids(Writes(q)) = {o.s.id},
             o.k = "deref" => Through(q) /\ o = q.dst /\ Writes(q) = {},
             StepCode(c, rn, m) = gen_mips_store(mx, rn, o, v),
             StepCode(d, rn, n) = gen_mips_store(nx, rn, o, v), q.op \notin Jumps \cup {"ret"}
      PROVE  Goal
  <2>1. After(c, rn, m) = m.pc + 1
    BY <1>4 DEF After, Jumps
  <2>2. o.s \in SymbolsIn(q)
    BY <1>4 DEF SymbolsIn, SymbolIn
  <2>3. o.k = "deref" => o.s.id \in ids \ lost
    BY <1>4 DEF Reads, SymbolIn, Ids
  <2>4. o.s.id \in ids /\ ~ InRegister(rn, o.s)
    BY <1>4, <2>2, <2>3
  <2>5. lost \ Ids(Writes(q)) = IF o.k = "sym" THEN lost \ {o.s.id} ELSE lost
    BY <1>4 DEF Ids
  <2> HIDE DEF mx, nx, q
  <2> DEFINE less == IF o.k = "sym" THEN lost \ {o.s.id} ELSE lost
  <2>6. /\ AlikeBut(gen_mips_store(mx, rn, o, v), gen_mips_store(nx, rn, o, v), ids, less)
        /\ gen_mips_store(mx, rn, o, v).pc = mx.pc
    <3>1. o.k = "deref" => o.s.id \notin lost
      BY <2>3
    <3>2. o.k \in {"sym", "deref"}
      BY <1>4
    <3> QED
      BY <1>2, <2>4, <3>1, <3>2, StoresBut
  <2> HIDE DEF less
  <2>7. AlikeBut(StepCode(c, rn, m), StepCode(d, rn, n), ids, less) /\ StepCode(c, rn, m).pc = mx.pc
    BY <1>4, <2>6
  <2>8. lost \ Ids(Writes(q)) = less
    BY <2>5 DEF less
  <2> QED
    BY <1>2, <2>1, <2>7, <2>8
<1>5. Ids({}) = {}
  BY DEF Ids
<1> HIDE DEF q
<1>6. CASE q.op \in {"nop", "label", "enter", "leave"}
  <2>1. StepCode(c, rn, m) = mx /\ StepCode(d, rn, n) = nx
    BY <1>0, <1>6 DEF StepCode, q, Ariths, Ifs
  <2>2. After(c, rn, m) = m.pc + 1 /\ Writes(q) = {}
    BY <1>6 DEF After, q, Ifs, Writes, Defines, Ariths
  <2> HIDE DEF mx, nx
  <2>3. lost \ Ids(Writes(q)) = lost
    BY <1>5, <2>2
  <2> QED
    BY <1>2, <2>1, <2>2, <2>3
<1>7. CASE Defines(q)
  <2>1. /\ q.dst.k \in {"sym", "deref"} /\ q.op \notin Jumps \cup {"ret"}
    BY <1>7 DEF QuadOK, q, Defines, Jumps, Ifs, Ariths
  <2>2. /\ q.dst.k = "sym" => Writes(q) = {q.dst.s}
        /\ q.dst.k = "deref" => Through(q) /\ Writes(q) = {}
    BY <1>7 DEF Writes, Through, Defines, Ariths
  <2>3. Ids({q.dst.s}) = {q.dst.s.id}
    BY DEF Ids
  <2>4. /\ StepCode(c, rn, m) = gen_mips_store(mx, rn, q.dst, Result(q, rn, m))
        /\ StepCode(d, rn, n) = gen_mips_store(nx, rn, q.dst, Result(q, rn, n))
    BY <1>0, <1>7, AssignmentStep DEF q
  <2>5. Result(q, rn, n) = Result(q, rn, m)
    BY <1>1, <1>7 DEF Result, Defines
  <2> HIDE DEF mx, nx, Goal
  <2> QED
    BY <1>4, <2>1, <2>2, <2>3, <2>4, <2>5
<1>8. CASE q.op = "retrieve"
  <2>1. q.src1.k = "sym" /\ q.op \notin Jumps \cup {"ret"} /\ Writes(q) = {q.src1.s}
    BY <1>8 DEF QuadOK, q, Defines, Jumps, Ifs, Ariths, Writes
  <2>2. Ids({q.src1.s}) = {q.src1.s.id}
    BY DEF Ids
  <2>3. /\ StepCode(c, rn, m) = gen_mips_store(mx, rn, q.src1, m.rv)
        /\ StepCode(d, rn, n) = gen_mips_store(nx, rn, q.src1, m.rv)
    BY <1>0, <1>8 DEF StepCode, q, Ariths, Ifs
  <2> HIDE DEF mx, nx, Goal
  <2> QED
    BY <1>4, <2>1, <2>2, <2>3
<1>9. CASE q.op \in Jumps
  <2> DEFINE t == LabelAt(c, q.dst.i)
             mj == [m EXCEPT !.pc = t]
             nj == [n EXCEPT !.pc = t]
  <2>1. AlikeBut(mj, nj, ids, lost) /\ mj.pc = t
    BY AtPlaceBut
  <2>2. lost \ Ids(Writes(q)) = lost
    <3>1. Writes(q) = {}
      BY <1>9 DEF Writes, Defines, Jumps, Ifs, Ariths
    <3> QED
      BY <1>5, <3>1
  <2>3. LabelAt(d, q.dst.i) = t
    OBVIOUS
  <2>4. CASE q.op = "goto"
    <3>1. StepCode(c, rn, m) = mj /\ StepCode(d, rn, n) = nj
      BY <1>0, <2>3, <2>4 DEF StepCode, q, Ariths, Ifs
    <3>2. After(c, rn, m) = t
      BY <2>4 DEF After, q
    <3> HIDE DEF mj, nj
    <3> QED
      BY <2>1, <2>2, <3>1, <3>2
  <2>5. CASE q.op \in Ifs
    <3>1. /\ StepCode(c, rn, m) = IF Holds(q.op, a, b) THEN mj ELSE mx
          /\ StepCode(d, rn, n) = IF Holds(q.op, a, b) THEN nj ELSE nx
      BY <1>0, <1>1, <2>3, <2>5 DEF StepCode, q, Ariths, Ifs
    <3>2. After(c, rn, m) = IF Holds(q.op, a, b) THEN t ELSE m.pc + 1
      BY <2>5 DEF After, q, Ifs
    <3> HIDE DEF mj, nj, mx, nx, t, a, b
    <3> QED
      BY <1>2, <2>1, <2>2, <3>1, <3>2
  <2> QED
    BY <1>9, <2>4, <2>5 DEF Jumps
<1>10. ASSUME NEW x
       PROVE  /\ AlikeBut([mx EXCEPT !.stack = x], [nx EXCEPT !.stack = x], ids, lost)
              /\ [mx EXCEPT !.stack = x].pc = mx.pc
  <2> HIDE DEF mx, nx
  <2> DEFINE j == [mx EXCEPT !.stack = x]
             k == [nx EXCEPT !.stack = x]
  <2>1. /\ j = [cell |-> mx.cell, mem |-> mx.mem, reg |-> mx.reg, stack |-> x,
                calls |-> mx.calls, rv |-> mx.rv, pc |-> mx.pc, ret |-> mx.ret]
        /\ k = [cell |-> nx.cell, mem |-> nx.mem, reg |-> nx.reg, stack |-> x,
                calls |-> nx.calls, rv |-> nx.rv, pc |-> nx.pc, ret |-> nx.ret]
    BY <1>2 DEF AlikeBut, Machine
  <2> HIDE DEF j, k
  <2>2. AlikeBut(j, k, ids, lost)
    BY <1>2, <2>1 DEF AlikeBut, Machine
  <2> QED
    BY <2>1, <2>2 DEF j, k
<1>11. CASE q.op = "param"
  <2>1. /\ StepCode(c, rn, m) = [mx EXCEPT !.stack = << a >> \o m.stack]
        /\ StepCode(d, rn, n) = [nx EXCEPT !.stack = << a >> \o m.stack]
    BY <1>0, <1>1, <1>11 DEF StepCode, q, Ariths, Ifs
  <2>2. After(c, rn, m) = m.pc + 1 /\ Writes(q) = {}
    BY <1>11 DEF After, q, Ifs, Writes, Defines, Ariths
  <2>3. lost \ Ids(Writes(q)) = lost
    BY <1>5, <2>2
  <2> HIDE DEF mx, nx, a
  <2> QED
    BY <1>2, <1>10, <2>1, <2>2, <2>3
<1>12. CASE q.op = "call"
  <2> DEFINE args == SubSeq(m.stack, 1, q.src1.i)
             rest == SubSeq(m.stack, q.src1.i + 1, Len(m.stack))
             g == m.cell[Counter] + 1
             j == [mx EXCEPT !.cell = [mx.cell EXCEPT ![Counter] = g]]
             k == [nx EXCEPT !.cell = [nx.cell EXCEPT ![Counter] = g]]
             calls == Append(m.calls, args)
             rv == g + IF args = <<>> THEN 0 ELSE IF Len(args) = 1 THEN args[1] ELSE args[1] - args[2]
  <2>0. /\ mx.cell[Counter] = m.cell[Counter] /\ nx.cell[Counter] = m.cell[Counter]
        /\ mx.calls = m.calls /\ nx.calls = m.calls
    BY <1>2 DEF AlikeBut, Machine
  <2>1. /\ StepCode(c, rn, m) = [Called(mx, args) EXCEPT !.stack = rest]
        /\ StepCode(d, rn, n) = [Called(nx, args) EXCEPT !.stack = rest]
    BY <1>0, <1>12 DEF StepCode, q, Ariths, Ifs
  <2>2. After(c, rn, m) = m.pc + 1 /\ Writes(q) = {}
    BY <1>12 DEF After, q, Ifs, Writes, Defines, Ariths
  <2>3. lost \ Ids(Writes(q)) = lost
    BY <1>5, <2>2
  <2>4. AlikeBut(j, k, ids, lost \ {Counter}) /\ j.pc = m.pc + 1 /\ k.pc = m.pc + 1
    <3> DEFINE f == [mx.cell EXCEPT ![Counter] = g]
               h == [nx.cell EXCEPT ![Counter] = g]
    <3> HIDE DEF g, mx, nx
    <3>1. /\ DOMAIN f = DOMAIN mx.cell /\ DOMAIN h = DOMAIN f
          /\ \A y \in DOMAIN f \ (lost \ {Counter}) : f[y] = h[y]
      BY <1>2, WrittenBut
    <3> HIDE DEF f, h
    <3>2. /\ AlikeBut([mx EXCEPT !.cell = f], [nx EXCEPT !.cell = h], ids, lost \ {Counter})
          /\ [mx EXCEPT !.cell = f].pc = mx.pc /\ [nx EXCEPT !.cell = h].pc = nx.pc
      BY <1>2, <3>1, CellsBut
    <3> QED
      BY <1>2, <3>2 DEF f, h
  <2>5. lost \ {Counter} = lost
    OBVIOUS
  <2>6. /\ Called(mx, args) = [j EXCEPT !.calls = calls, !.rv = rv]
        /\ Called(nx, args) = [k EXCEPT !.calls = calls, !.rv = rv]
    BY <2>0 DEF Called
  <2> HIDE DEF g, mx, nx, j, k, calls, rv, args, rest
  <2>7. /\ StepCode(c, rn, m) = [[j EXCEPT !.calls = calls, !.rv = rv] EXCEPT !.stack = rest]
        /\ StepCode(d, rn, n) = [[k EXCEPT !.calls = calls, !.rv = rv] EXCEPT !.stack = rest]
    BY <2>1, <2>6
  <2>8. ASSUME NEW h, Machine(h)
        PROVE  [[h EXCEPT !.calls = calls, !.rv = rv] EXCEPT !.stack = rest]
                 = [cell |-> h.cell, mem |-> h.mem, reg |-> h.reg, stack |-> rest,
                    calls |-> calls, rv |-> rv, pc |-> h.pc, ret |-> h.ret]
    <3> DEFINE h1 == [h EXCEPT !.calls = calls]
               h2 == [h1 EXCEPT !.rv = rv]
    <3>1. h1 = [cell |-> h.cell, mem |-> h.mem, reg |-> h.reg, stack |-> h.stack,
                calls |-> calls, rv |-> h.rv, pc |-> h.pc, ret |-> h.ret]
      BY <2>8 DEF Machine
    <3>2. h2 = [cell |-> h.cell, mem |-> h.mem, reg |-> h.reg, stack |-> h.stack,
                calls |-> calls, rv |-> rv, pc |-> h.pc, ret |-> h.ret]
      <4> HIDE DEF h1
      <4> QED
        BY <3>1
    <3>3. [h2 EXCEPT !.stack = rest] = [cell |-> h.cell, mem |-> h.mem, reg |-> h.reg, stack |-> rest,
                calls |-> calls, rv |-> rv, pc |-> h.pc, ret |-> h.ret]
      <4> HIDE DEF h2
      <4> QED
        BY <3>2
    <3> QED
      BY <3>3
  <2>9. AlikeBut(j, k, ids, lost) /\ Machine(j) /\ Machine(k)
    BY <2>4, <2>5 DEF AlikeBut
  <2> DEFINE x == StepCode(c, rn, m)
             y == StepCode(d, rn, n)
  <2>10. /\ x = [cell |-> j.cell, mem |-> j.mem, reg |-> j.reg, stack |-> rest,
                 calls |-> calls, rv |-> rv, pc |-> j.pc, ret |-> j.ret]
         /\ y = [cell |-> k.cell, mem |-> k.mem, reg |-> k.reg, stack |-> rest,
                 calls |-> calls, rv |-> rv, pc |-> k.pc, ret |-> k.ret]
    BY ONLY <2>7, <2>8, <2>9, Zenon
  <2> HIDE DEF x, y
  <2>11. AlikeBut(x, y, ids, lost) /\ x.pc = m.pc + 1
    BY <2>4, <2>9, <2>10 DEF AlikeBut, Machine
  <2> QED
    BY <2>2, <2>3, <2>11 DEF x, y
<1>13. CASE q.op = "ret"
  <2> DEFINE r == IF q.src1.k = "null" THEN <<>> ELSE << a >>
             j == [m EXCEPT !.pc = 0]
             k == [n EXCEPT !.pc = 0]
  <2>1. /\ StepCode(c, rn, m) = [m EXCEPT !.pc = 0, !.ret = r]
        /\ StepCode(d, rn, n) = [n EXCEPT !.pc = 0, !.ret = r]
    BY <1>0, <1>1, <1>13 DEF StepCode, q, Ariths, Ifs
  <2>2. After(c, rn, m) = 0 /\ Writes(q) = {}
    BY <1>13 DEF After, q, Writes, Defines, Ariths
  <2>3. lost \ Ids(Writes(q)) = lost
    BY <1>5, <2>2
  <2> HIDE DEF r
  <2>4. AlikeBut(j, k, ids, lost) /\ j.pc = 0
    BY AtPlaceBut
  <2>5. StepCode(c, rn, m) = [j EXCEPT !.ret = r] /\ StepCode(d, rn, n) = [k EXCEPT !.ret = r]
    BY <2>1
  <2> HIDE DEF j, k
  <2> DEFINE x == [j EXCEPT !.ret = r]
             y == [k EXCEPT !.ret = r]
  <2>6. /\ x = [cell |-> j.cell, mem |-> j.mem, reg |-> j.reg, stack |-> j.stack,
                calls |-> j.calls, rv |-> j.rv, pc |-> j.pc, ret |-> r]
        /\ y = [cell |-> k.cell, mem |-> k.mem, reg |-> k.reg, stack |-> k.stack,
                calls |-> k.calls, rv |-> k.rv, pc |-> k.pc, ret |-> r]
    BY <2>4 DEF AlikeBut, Machine
  <2> HIDE DEF x, y
  <2>7. AlikeBut(x, y, ids, lost) /\ x.pc = 0
    BY <2>4, <2>6 DEF AlikeBut, Machine
  <2> QED
    BY <2>2, <2>3, <2>5, <2>7 DEF x, y
<1> QED
  BY <1>3, <1>6, <1>7, <1>8, <1>9, <1>11, <1>12, <1>13 DEF Defines, q

(* What a quad reads is live before it, unless the quad is dead; what is   *)
(* live after it, it writes or it is live before.                          *)
LEMMA ReadsAndWrites ==
  ASSUME NEW A, OneSymbolPerName(A), NEW q, QuadOK(q), SymbolsIn(q) \subseteq A,
         NEW live, ~ IsDead(q, live)
  PROVE  LET locs == Ids({s \in A : s.scope = "local"})
         IN  /\ Reads(q) \subseteq SymbolsIn(q) /\ Writes(q) \subseteq SymbolsIn(q)
             /\ \A x \in Ids(Reads(q)) : x \in locs => x \in LiveBefore(q, live)
             /\ \A x \in live : x \in LiveBefore(q, live) \/ x \in Ids(Writes(q))
<1> DEFINE locs == {s \in A : s.scope = "local"}
<1>1. Reads(q) \subseteq SymbolsIn(q)
  BY DEF Reads, SymbolsIn
<1>2. Writes(q) \subseteq SymbolsIn(q)
  BY DEF Writes, SymbolsIn, SymbolIn, QuadOK
<1>3. ASSUME NEW x \in Ids(Reads(q)), x \in Ids(locs) PROVE x \in LiveBefore(q, live)
  <2>1. PICK s \in Reads(q) : s.id = x
    BY DEF Ids
  <2>2. PICK t \in locs : t.id = x
    BY <1>3 DEF Ids
  <2>3. s = t /\ s.scope = "local"
    BY <1>1, <2>1, <2>2 DEF OneSymbolPerName
  <2>4. s \in SrcOf(q) \/ (Through(q) /\ s \in DstOf(q))
    BY <2>1, <2>3 DEF Reads, SrcOf, DstOf, LocalOf, Through
  <2>5. x \in Ids(SrcOf(q)) \/ (Through(q) /\ x \in Ids(DstOf(q)))
    BY <2>1, <2>4 DEF Ids
  <2> QED
    BY <2>5, LiveBeforeIs
<1>4. ASSUME NEW x \in live, x \notin LiveBefore(q, live) PROVE x \in Ids(Writes(q))
  <2>1. x \in Ids(DstOf(q)) /\ ~ Through(q)
    BY <1>4, LiveBeforeIs
  <2>2. PICK s \in DstOf(q) : s.id = x
    BY <2>1 DEF Ids
  <2>3. Defines(q) /\ s = q.dst.s
    BY <2>2 DEF DstOf, LocalOf, SymbolIn
  <2>4. q.dst.k = "sym"
    BY <2>1, <2>3 DEF QuadOK, Through, Defines
  <2>5. s \in Writes(q)
    BY <2>3, <2>4 DEF Writes
  <2> QED
    BY <2>2, <2>5 DEF Ids
<1> QED
  BY <1>1, <1>2, <1>3, <1>4

(* What is lost may be taken for more.                                     *)
LEMMA LoseMore ==
  ASSUME NEW m, NEW n, NEW ids, NEW lost, AlikeBut(m, n, ids, lost), NEW more, lost \subseteq more
  PROVE  AlikeBut(m, n, ids, more)
BY DEF AlikeBut

(* A dead quad loses what it writes, and nothing else.                     *)
LEMMA DeadStep ==
  ASSUME NEW c, NEW d, NEW rn, NEW m, NEW n, NEW ids, NEW lost, AlikeBut(m, n, ids, lost),
         Defines(c[m.pc]), c[m.pc].dst.k = "sym", ~ InRegister(rn, c[m.pc].dst.s), d[m.pc].op = "nop"
  PROVE  /\ AlikeBut(StepCode(c, rn, m), StepCode(d, rn, n), ids, lost \cup {c[m.pc].dst.s.id})
         /\ StepCode(c, rn, m).pc = m.pc + 1
<1> DEFINE s == c[m.pc].dst.s
           w == Narrow(s.type, Result(c[m.pc], rn, m))
           mx == [m EXCEPT !.pc = m.pc + 1]
           nx == [n EXCEPT !.pc = m.pc + 1]
           f == [mx.cell EXCEPT ![s.id] = w]
           g == nx.cell
<1>0. n.pc = m.pc
  BY DEF AlikeBut
<1>1. AlikeBut(mx, nx, ids, lost) /\ mx.pc = m.pc + 1 /\ nx.pc = m.pc + 1
  BY AtPlaceBut
<1>2. StepCode(c, rn, m) = [mx EXCEPT !.cell = f]
  <2>1. StepCode(c, rn, m) = gen_mips_store(mx, rn, c[m.pc].dst, Result(c[m.pc], rn, m))
    BY AssignmentStep
  <2>2. ~ InRegister(rn, s)
    OBVIOUS
  <2> HIDE DEF mx
  <2> QED
    BY <2>1, <2>2 DEF gen_mips_store
<1>3. StepCode(d, rn, n) = nx
  <2>1. d[n.pc].op = "nop" /\ nx = [n EXCEPT !.pc = n.pc + 1]
    BY <1>0
  <2> HIDE DEF nx
  <2> QED
    BY <2>1 DEF StepCode, Ariths, Ifs
<1> HIDE DEF mx, nx, w
<1>4. [nx EXCEPT !.cell = g] = nx
  BY <1>1 DEF AlikeBut, Machine
<1>5. /\ DOMAIN f = DOMAIN mx.cell /\ DOMAIN g = DOMAIN f
      /\ \A y \in DOMAIN f \ (lost \cup {s.id}) : f[y] = g[y]
  BY <1>1 DEF AlikeBut
<1> HIDE DEF f, g, s
<1>6. /\ AlikeBut([mx EXCEPT !.cell = f], [nx EXCEPT !.cell = g], ids, lost \cup {s.id})
      /\ [mx EXCEPT !.cell = f].pc = mx.pc
  BY <1>1, <1>5, CellsBut
<1>7. /\ AlikeBut(StepCode(c, rn, m), StepCode(d, rn, n), ids, lost \cup {s.id})
      /\ StepCode(c, rn, m).pc = m.pc + 1
  BY <1>1, <1>2, <1>3, <1>4, <1>6
<1> QED
  BY <1>7 DEF s

(* The list without the dead quads, while no variable is in a register.    *)
LEMMA DeadRun ==
  ASSUME NEW c, NEW A, CodeOK(c, A), OneSymbolPerName(A), AddressesComputed(c),
         NEW live, Analysed(c, live), live = calculateInAndOut(c, live), NEW rn,
         \A s \in A : s.scope = "local" => rn[s.id] = -1,
         Counter \notin Ids({s \in A : s.scope = "local"})
  PROVE  SimulatesBut(c, deadCodeEliminate(c, live), rn, {s \in A : s.scope = "local"})
<1> DEFINE d == deadCodeEliminate(c, live)
           after == LiveAfter(c, live)
           locs == {s \in A : s.scope = "local"}
           ids == Ids(AllSymbols(c)) \cup {Counter}
           B(p) == LiveBefore(c[p], after[p])
           lost == [p \in 0..Len(c) |-> IF p = 0 THEN Ids(locs) ELSE Ids(locs) \ B(p)]
<1>1. PICK l \in Nat \ {0} : l = Len(c) /\ DOMAIN c = 1..l
  BY CodeIsList
<1>2. \A p \in 1..l : /\ QuadOK(c[p]) /\ SymbolsIn(c[p]) \subseteq A
                      /\ SymbolsIn(c[p]) \subseteq AllSymbols(c)
  BY <1>1, CodeIsList DEF AllSymbols
<1>3. /\ \A p \in 1..l : IF IsDead(c[p], after[p]) THEN d[p].op = "nop" ELSE d[p] = c[p]
      /\ \A x : LabelAt(d, x) = LabelAt(c, x)
  BY <1>1, DeadCodeOK, SameLabels
<1>4. \A p \in 1..l : \A t \in Follow(c, p) : t \in 1..l /\ B(t) \subseteq after[p]
  BY <1>1, FollowIsThere, LiveBeforeNext
<1>5. /\ lost \in [0..Len(c) -> SUBSET Ids(locs)]
      /\ lost[0] = Ids(locs) /\ \A p \in 1..l : lost[p] = Ids(locs) \ B(p)
  BY <1>1
<1> HIDE DEF d, after, lost
<1>6. \A s \in A : ~ InRegister(rn, s)
  BY DEF InRegister
<1>7. ASSUME NEW m, NEW n, m.pc \in 1..l, AlikeBut(m, n, ids, lost[m.pc])
      PROVE  /\ StepCode(c, rn, m).pc \in 1..l \cup {0}
             /\ AlikeBut(StepCode(c, rn, m), StepCode(d, rn, n), ids, lost[StepCode(c, rn, m).pc])
  <2> DEFINE p == m.pc
             q == c[p]
             live2 == after[p]
  <2>1. QuadOK(q) /\ SymbolsIn(q) \subseteq A /\ SymbolsIn(q) \subseteq AllSymbols(c) /\ p \in 1..l
    BY <1>2, <1>7
  <2>2. CASE IsDead(q, live2)
    <3>1. /\ Defines(q) /\ q.dst.k = "sym" /\ q.dst.s.scope = "local" /\ q.dst.s \in A
          /\ q.dst.s.id \notin live2
      <4>1. PICK s \in DstOf(q) : TRUE
        BY <2>2 DEF IsDead
      <4>2. Defines(q) /\ s = q.dst.s /\ s.scope = "local" /\ q.dst.k \in {"sym", "addr", "deref"}
        BY <4>1 DEF DstOf, LocalOf, SymbolIn
      <4>3. q.dst.k = "sym"
        BY <2>1, <2>2, <4>2 DEF QuadOK, IsDead, Through, Defines
      <4>4. s \in A
        BY <2>1, <4>2 DEF SymbolsIn, SymbolIn
      <4>5. s.id \in Ids(DstOf(q))
        BY <4>1 DEF Ids
      <4> QED
        BY <2>2, <4>2, <4>3, <4>4, <4>5 DEF IsDead
    <3>2. ~ InRegister(rn, q.dst.s) /\ d[p].op = "nop"
      BY <1>3, <1>6, <2>1, <2>2, <3>1
    <3>3. /\ AlikeBut(StepCode(c, rn, m), StepCode(d, rn, n), ids, lost[p] \cup {q.dst.s.id})
          /\ StepCode(c, rn, m).pc = p + 1
      BY <1>7, <3>1, <3>2, DeadStep
    <3>4. p + 1 \in Follow(c, p)
      BY <3>1 DEF Follow, Defines, Ariths, Ifs
    <3>5. p + 1 \in 1..l /\ B(p + 1) \subseteq live2
      BY <1>4, <2>1, <3>4
    <3>6. B(p) = live2
      BY <2>2 DEF LiveBefore
    <3>7. q.dst.s.id \in Ids(locs)
      BY <3>1 DEF Ids
    <3>8. lost[p] \cup {q.dst.s.id} \subseteq lost[p + 1]
      <4>1. lost[p] = Ids(locs) \ B(p) /\ lost[p + 1] = Ids(locs) \ B(p + 1)
        BY <1>5, <2>1, <3>5
      <4> HIDE DEF B, p, q, live2
      <4> QED
        BY <3>1, <3>5, <3>6, <3>7, <4>1
    <3> HIDE DEF p, q, B, ids
    <3> QED
      BY <3>3, <3>5, <3>8, LoseMore
  <2>3. CASE ~ IsDead(q, live2)
    <3> DEFINE t == StepCode(c, rn, m).pc
    <3>1. /\ Reads(q) \subseteq SymbolsIn(q) /\ Writes(q) \subseteq SymbolsIn(q)
          /\ \A x \in Ids(Reads(q)) : x \in Ids(locs) => x \in B(p)
          /\ \A x \in live2 : x \in B(p) \/ x \in Ids(Writes(q))
      <4> HIDE DEF p, q, live2
      <4>1. /\ Reads(q) \subseteq SymbolsIn(q) /\ Writes(q) \subseteq SymbolsIn(q)
            /\ \A x \in Ids(Reads(q)) : x \in Ids(locs) => x \in LiveBefore(q, live2)
            /\ \A x \in live2 : x \in LiveBefore(q, live2) \/ x \in Ids(Writes(q))
        BY <2>1, <2>3, ReadsAndWrites
      <4> QED
        BY <4>1 DEF q, live2
    <3>2. Ids(Reads(q)) \subseteq ids /\ Ids(Writes(q)) \subseteq ids
      BY <2>1, <3>1 DEF Ids
    <3>3. lost[p] = Ids(locs) \ B(p)
      BY <1>5, <2>1
    <3>4. Ids(Reads(q)) \subseteq ids \ lost[p] /\ Counter \in ids \ lost[p]
      BY <3>1, <3>2, <3>3
    <3>5. d[p] = c[p] /\ (\A s \in SymbolsIn(q) : ~ InRegister(rn, s)) /\ \A x : LabelAt(d, x) = LabelAt(c, x)
      BY <1>3, <1>6, <2>1, <2>3
    <3>6. /\ AlikeBut(StepCode(c, rn, m), StepCode(d, rn, n), ids, lost[p] \ Ids(Writes(q)))
          /\ t = After(c, rn, m)
      <4> HIDE DEF ids
      <4> QED
        BY <1>7, <2>1, <3>2, <3>4, <3>5, StepsBut
    <3>7. t = 0 \/ t \in Follow(c, p)
      BY <1>1, <1>7, <3>6, AfterIsThere
    <3>8. t \in 1..l \cup {0} /\ lost[p] \ Ids(Writes(q)) \subseteq lost[t]
      <4>1. CASE t = 0
        BY <1>5, <3>3, <4>1
      <4>2. CASE t \in Follow(c, p)
        <5>1. t \in 1..l /\ B(t) \subseteq live2
          BY <1>4, <2>1, <4>2
        <5>2. lost[t] = Ids(locs) \ B(t)
          BY <1>5, <5>1
        <5> HIDE DEF t, B, p, q, live2
        <5> QED
          BY <3>1, <3>3, <5>1, <5>2
      <4> QED
        BY <3>7, <4>1, <4>2
    <3> HIDE DEF p, q, ids
    <3> QED
      BY <3>6, <3>8, LoseMore
  <2> QED
    BY <2>2, <2>3
<1>8. SimulatesBut(c, d, rn, locs)
  BY <1>1, <1>5, <1>7 DEF SimulatesBut
<1> QED
  BY <1>8 DEF d

-----------------------------------------------------------------------------
(* A block that stores through an address has computed it before, without  *)
(* a jump or label between: calculateDefAndUse takes the address for one   *)
(* that the store defines, so that it is not live where the block begins   *)
(* (codegen.c:2046).                                                       *)
AddressesAreComputed == phase # "generate" => AddressesComputed(code)

(* No step parts a store through an address from its computation.          *)
LEMMA AddressStep ==
  ASSUME CInv, AddressesAreComputed, [Next]_vars
  PROVE  AddressesAreComputed'
<1> USE DEF compiled
<1>1. phase # "generate" => /\ CodeOK(code, Syms) /\ OneSymbolPerName(Syms) /\ AddressesComputed(code)
                            /\ curr \in Nat \ {0}
  BY GeneratedCode DEF CInv, CodeInv, PlaceInv, AddressesAreComputed
<1>2. ASSUME phase # "generate", UNCHANGED code PROVE AddressesAreComputed'
  BY <1>1, <1>2 DEF AddressesAreComputed
<1>3. CASE Generate
  <2>1. body \in Programs /\ code' = Generated[body]
    BY <1>3 DEF Generate, CInv, CodeInv
  <2> QED
    BY <2>1, OptimizerAssumption DEF AddressesAreComputed
<1>4. CASE Peephole
  <2> DEFINE found == {j \in curr..Len(code) : JumpsOverGoto(code, j) \/ Simplify(code[j]) # code[j]}
             i == Min(found)
  <2>1. phase = "peephole" /\ ((found # {} /\ code' = peephole_optimize(code, i)) \/ UNCHANGED code)
    BY <1>4 DEF Peephole
  <2>2. ASSUME found # {} PROVE AddressesComputed(peephole_optimize(code, i))
    <3>1. found \in SUBSET (curr..Len(code))
      OBVIOUS
    <3>2. i \in DOMAIN code
      <4> HIDE DEF found
      <4> QED
        BY <1>1, <2>1, <2>2, <3>1, NextQuad
    <3> HIDE DEF i, found
    <3>3. AddressesComputed([code EXCEPT ![i] = Simplify(@)])
      <4> DEFINE d == [code EXCEPT ![i] = Simplify(@)]
      <4>1. \A j \in DOMAIN code : code[j] \in Quads
        BY <1>1, <2>1, CodeIsList
      <4>2. DOMAIN d = DOMAIN code /\ \A j \in DOMAIN code : d[j] = code[j] \/ d[j] = Simplify(code[j])
        OBVIOUS
      <4> HIDE DEF d
      <4>3. \A j \in DOMAIN code : SameShape(code[j], d[j])
        <5>1. \A j \in DOMAIN code : SameShape(code[j], code[j])
          BY DEF SameShape
        <5> QED
          BY <4>1, <4>2, <5>1, SimplifyShape
      <4>4. AddressesComputed(d)
        BY <1>1, <2>1, <4>2, <4>3, ShapeKeepsAddresses
      <4> QED
        BY <4>4 DEF d
    <3> QED
      BY <1>1, <2>1, <3>2, <3>3, WithoutGotoKeepsAddresses DEF peephole_optimize
  <2> HIDE DEF found, i
  <2> QED
    BY <1>2, <2>1, <2>2 DEF AddressesAreComputed
<1>5. CASE CopyPropagate
  <2> DEFINE found == {i \in curr..Len(code) : code[i].op = "move" /\ ~ Narrows(code[i])}
             i == Min(found)
  <2>1. phase = "copy" /\ ((found # {} /\ code' = copy_propagate(code, i)) \/ UNCHANGED code)
    BY <1>5 DEF CopyPropagate
  <2>2. AddressesComputed(copy_propagate(code, i))
    <3> HIDE DEF i, found
    <3> DEFINE d == copy_propagate(code, i)
    <3>1. \A j \in DOMAIN code : code[j] \in Quads
      BY <1>1, <2>1, CodeIsList
    <3>2. /\ DOMAIN d = DOMAIN code
          /\ \A j \in DOMAIN code : d[j] = code[j] \/ d[j] = Replaced(code[j], code[i].dst, code[i].src1)
      BY DEF copy_propagate
    <3> HIDE DEF d
    <3>3. \A j \in DOMAIN code : SameShape(code[j], d[j])
      <4>1. \A j \in DOMAIN code : SameShape(code[j], code[j])
        BY DEF SameShape
      <4> QED
        BY <3>1, <3>2, <4>1, ReplacedShape
    <3>4. AddressesComputed(d)
      BY <1>1, <2>1, <3>2, <3>3, ShapeKeepsAddresses
    <3> QED
      BY <3>4 DEF d
  <2> HIDE DEF found, i
  <2> QED
    BY <1>2, <2>1, <2>2 DEF AddressesAreComputed
<1>6. CASE LiveAnalysis
  <2>1. phase = "live" /\ code' = MarkLeaders(code)
    BY <1>6 DEF LiveAnalysis
  <2> QED
    BY <1>1, <2>1, MarkLeadersKeepsAddresses DEF AddressesAreComputed
<1>7. CASE DeadCode
  <2>1. phase = "dead" /\ code' = deadCodeEliminate(code, in)
    BY <1>7 DEF DeadCode
  <2>2. Analysed(code, in)
    BY <2>1 DEF CInv, LiveInv
  <2> QED
    BY <1>1, <2>1, <2>2, DeadCodeKeepsAddresses DEF AddressesAreComputed
<1>8. CASE Round
  BY <1>2, <1>8 DEF Round
<1>9. CASE InAndOut
  BY <1>2, <1>9 DEF InAndOut
<1>10. CASE SweepTest
  BY <1>2, <1>10 DEF SweepTest
<1>11. CASE RoundTest
  BY <1>2, <1>11 DEF RoundTest
<1>12. CASE RegAlloc
  BY <1>2, <1>12 DEF RegAlloc
<1>13. CASE Color
  BY <1>2, <1>13 DEF Color
<1>14. CASE Emit
  BY <1>2, <1>14 DEF Emit
<1>15. CASE allocate_storage
  BY <1>2, <1>15 DEF allocate_storage
<1>16. CASE Enter
  BY <1>2, <1>16 DEF Enter
<1>17. CASE Execute
  BY <1>2, <1>17 DEF Execute
<1>18. CASE UNCHANGED vars
  BY <1>18 DEF vars, AddressesAreComputed
<1> QED
  BY <1>3, <1>4, <1>5, <1>6, <1>7, <1>8, <1>9, <1>10, <1>11, <1>12, <1>13, <1>14, <1>15, <1>16, <1>17,
     <1>18 DEF Next, Compile

(* Every pass leaves an address computed right before it is stored         *)
(* through, as calculateDefAndUse needs (codegen.c:2003).                  *)
THEOREM CompilerAddressesAreComputed == Spec => []AddressesAreComputed
<1>1. Init => AddressesAreComputed
  BY DEF Init, AddressesAreComputed
<1>2. CInv /\ AddressesAreComputed /\ [Next]_vars => AddressesAreComputed'
  BY AddressStep
<1> QED
  BY <1>1, <1>2, CompilerInvariant, PTL DEF Spec

(* The elimination of dead code (codegen.c:1976, 2092) leaves a list that  *)
(* does what the list before it does, quad by quad, but for the cells of   *)
(* locals that the rest of the run has no need of: it makes the same       *)
(* calls, writes the same arrays and globals and returns the same.  The    *)
(* hypothesis names the global that the model's callees change.            *)
THEOREM DeadCodeKeepsRuns ==
  Spec => [][DeadCode /\ Counter \notin Ids(locals) => SimulatesBut(code, code', regName, locals)]_vars
<1>1. ASSUME CInv, AddressesAreComputed, DeadCode, Counter \notin Ids(locals)
      PROVE  SimulatesBut(code, code', regName, locals)
  <2>1. phase = "dead" /\ code' = deadCodeEliminate(code, in)
    BY <1>1 DEF DeadCode
  <2>2. /\ CodeOK(code, Syms) /\ OneSymbolPerName(Syms) /\ AddressesComputed(code)
        /\ locals = {s \in Syms : s.scope = "local"}
    BY <1>1, <2>1, GeneratedCode DEF CInv, CodeInv, AddressesAreComputed
  <2>3. Analysed(code, in) /\ in = calculateInAndOut(code, in)
    BY <1>1, <2>1 DEF CInv, LiveInv
  <2>4. \A s \in Syms : s.scope = "local" => regName[s.id] = -1
    <3>1. NoRegisters /\ DOMAIN regName = Ids(locals)
      BY <1>1, <2>1 DEF CInv, RegInv, Allocated
    <3> QED
      BY <2>2, <3>1 DEF NoRegisters, Ids
  <2>5. Counter \notin Ids({s \in Syms : s.scope = "local"})
    BY <1>1, <2>2
  <2>6. SimulatesBut(code, deadCodeEliminate(code, in), regName, {s \in Syms : s.scope = "local"})
    BY <2>2, <2>3, <2>4, <2>5, DeadRun
  <2> QED
    BY <2>1, <2>2, <2>6
<1>2. CInv /\ AddressesAreComputed /\ [Next]_vars
        => [DeadCode /\ Counter \notin Ids(locals) => SimulatesBut(code, code', regName, locals)]_vars
  BY <1>1
<1> QED
  BY <1>2, CompilerInvariant, CompilerAddressesAreComputed, PTL DEF Spec

(***************************************************************************)
(* What copy propagation does to a run of the code.                        *)
(***************************************************************************)
(* The quads in which the copy that the MOVE at i made is put.             *)
CopyEnd(c, i) == Min({j \in i + 1..Len(c) : Stops(c[j], c[i].dst, c[i].src1)} \cup {Len(c) + 1})
CopyReaches(c, i) == i + 1..CopyEnd(c, i) - 1

(* A copy whose two sides are equal and stay equal as far as it reaches:   *)
(* what is copied is a constant, a variable or the address of a local      *)
(* array, whole, into a variable (into a char only a constant that fits),  *)
(* and it is no global over a call and no result over the retrieval of     *)
(* another one.                                                            *)
Settled(c, i) ==
  LET lhs == c[i].dst  rhs == c[i].src1 IN
  /\ lhs.k = "sym" /\ (lhs.s.type = "char" => rhs.k = "int" /\ Narrow("char", rhs.i) = rhs.i)
  /\ rhs.k \in {"int", "sym"} \/ (rhs.k = "addr" /\ ~ IsFormal(rhs.s))
  /\ rhs.k = "sym" => \A j \in CopyReaches(c, i) :
        /\ c[j].op = "call" => rhs.s.scope = "local"
        /\ c[j].op = "retrieve" => c[j].src1.s # rhs.s

(* The code d does what c does, quad by quad, if the two sides of the copy *)
(* are equal wherever it reaches; and they are, in a run that does not     *)
(* begin there.                                                            *)
SimulatesCopy(c, d, rn, i) ==
  LET ids == Ids(AllSymbols(c)) \cup {Counter}
      Held(m) == m.pc \in CopyReaches(c, i) =>
                    gen_mips_load(m, rn, c[i].dst) = gen_mips_load(m, rn, c[i].src1)
  IN
  \A m, n :
    /\ m.pc \in DOMAIN c /\ n.pc = m.pc /\ Alike(m, n) /\ ids \subseteq DOMAIN m.cell /\ Held(m)
    => /\ StepCode(c, rn, m).pc \in DOMAIN c \cup {0}
       /\ StepCode(d, rn, n).pc = StepCode(c, rn, m).pc
       /\ Alike(StepCode(c, rn, m), StepCode(d, rn, n))
       /\ ids \subseteq DOMAIN StepCode(c, rn, m).cell /\ Held(StepCode(c, rn, m))

(* Where a copy reaches: no label, and after a quad where it reaches too.  *)
LEMMA CopyReachesIs ==
  ASSUME NEW c, NEW A, CodeOK(c, A), NEW i \in DOMAIN c
  PROVE  /\ CopyReaches(c, i) \subseteq DOMAIN c
         /\ \A j \in CopyReaches(c, i) : ~ Stops(c[j], c[i].dst, c[i].src1) /\ j > i
         /\ \A j \in DOMAIN c : j + 1 \in CopyReaches(c, i) => j = i \/ j \in CopyReaches(c, i)
<1> DEFINE S == {j \in i + 1..Len(c) : Stops(c[j], c[i].dst, c[i].src1)} \cup {Len(c) + 1}
<1>1. PICK l \in Nat \ {0} : l = Len(c) /\ DOMAIN c = 1..l
  BY CodeIsList
<1>2. S \in SUBSET Nat /\ S # {} /\ \A j \in S : j \in 1..l + 1
  BY <1>1
<1>3. /\ Min(S) \in 1..l + 1
      /\ \A j \in i + 1..l : Stops(c[j], c[i].dst, c[i].src1) => Min(S) <= j
  <2>1. Min(S) \in S /\ \A x \in S : Min(S) <= x
    <3> HIDE DEF S
    <3> QED
      BY <1>2, MinOfNats
  <2>2. \A j \in i + 1..l : Stops(c[j], c[i].dst, c[i].src1) => j \in S
    BY <1>1
  <2> HIDE DEF S
  <2> QED
    BY <1>2, <2>1, <2>2
<1>4. PICK e \in 1..l + 1 : e = CopyEnd(c, i)
  BY <1>3 DEF CopyEnd
<1>5. CopyReaches(c, i) = i + 1..e - 1 /\ i \in 1..l
  BY <1>1, <1>4 DEF CopyReaches
<1>6. \A j \in i + 1..l : Stops(c[j], c[i].dst, c[i].src1) => e <= j
  BY <1>3, <1>4 DEF CopyEnd
<1> HIDE DEF S
<1> QED
  BY <1>1, <1>5, <1>6

(* Which cells a quad does not write.                                      *)
LEMMA CellKept ==
  ASSUME NEW c, NEW rn, NEW m, Machine(m), QuadOK(c[m.pc]), NEW x,
         x \notin Ids(Writes(c[m.pc])), c[m.pc].op = "call" => x # Counter,
         \A s \in SymbolsIn(c[m.pc]) : ~ InRegister(rn, s), x \in DOMAIN m.cell
  PROVE  StepCode(c, rn, m).cell[x] = m.cell[x]
<1> DEFINE q == c[m.pc]
           mx == [m EXCEPT !.pc = m.pc + 1]
<1>1. mx.cell = m.cell /\ Machine(mx)
  BY DEF Machine
<1>2. q.op \in Jumps \cup Ariths \cup {"move", "neg", "nop", "label", "enter", "leave", "param",
                                        "call", "retrieve", "ret"}
  BY DEF QuadOK, Quads
<1>3. ASSUME NEW o, NEW v, o.k \in {"sym", "deref"}, ~ InRegister(rn, o.s),
             o.k = "sym" => x # o.s.id
      PROVE  gen_mips_store(mx, rn, o, v).cell[x] = m.cell[x]
  <2> HIDE DEF mx
  <2>1. CASE o.k = "sym"
    <3> DEFINE w == Narrow(o.s.type, v)
               f == [mx.cell EXCEPT ![o.s.id] = w]
    <3>1. gen_mips_store(mx, rn, o, v) = [mx EXCEPT !.cell = f]
      BY <1>3, <2>1 DEF gen_mips_store
    <3>2. f[x] = m.cell[x]
      BY <1>1, <1>3, <2>1
    <3> HIDE DEF f
    <3>3. [mx EXCEPT !.cell = f].cell = f
      BY <1>1 DEF Machine
    <3> QED
      BY <3>1, <3>2, <3>3
  <2>2. CASE o.k = "deref"
    <3> DEFINE r == [mx.mem EXCEPT ![mx.cell[o.s.id]] = Narrow(o.s.elt, v)]
    <3>1. gen_mips_store(mx, rn, o, v) = [mx EXCEPT !.mem = r]
      BY <1>3, <2>2 DEF gen_mips_store
    <3> HIDE DEF r
    <3>2. [mx EXCEPT !.mem = r].cell = mx.cell
      BY <1>1 DEF Machine
    <3> QED
      BY <1>1, <3>1, <3>2
  <2> QED
    BY <1>3, <2>1, <2>2
<1>4. CASE Defines(q)
  <2>1. q.dst.k \in {"sym", "deref"} /\ ~ InRegister(rn, q.dst.s) /\ (q.dst.k = "sym" => x # q.dst.s.id)
    BY <1>4 DEF QuadOK, Defines, Ariths, SymbolsIn, SymbolIn, Writes, Ids
  <2>2. StepCode(c, rn, m) = gen_mips_store(mx, rn, q.dst, Result(q, rn, m))
    BY <1>4, AssignmentStep
  <2> HIDE DEF mx
  <2> QED
    BY <1>3, <2>1, <2>2
<1>5. CASE q.op = "retrieve"
  <2>1. q.src1.k = "sym" /\ ~ InRegister(rn, q.src1.s) /\ x # q.src1.s.id
    BY <1>5 DEF QuadOK, SymbolsIn, SymbolIn, Writes, Ids
  <2>2. StepCode(c, rn, m) = gen_mips_store(mx, rn, q.src1, m.rv)
    BY <1>5 DEF StepCode, Ariths, Ifs
  <2> HIDE DEF mx
  <2> QED
    BY <1>3, <2>1, <2>2
<1>6. CASE q.op = "call"
  <2> DEFINE args == SubSeq(m.stack, 1, q.src1.i)
             rest == SubSeq(m.stack, q.src1.i + 1, Len(m.stack))
             g == mx.cell[Counter] + 1
             f == [mx.cell EXCEPT ![Counter] = g]
             rv == g + IF args = <<>> THEN 0 ELSE IF Len(args) = 1 THEN args[1] ELSE args[1] - args[2]
  <2>1. StepCode(c, rn, m) = [Called(mx, args) EXCEPT !.stack = rest]
    BY <1>6 DEF StepCode, Ariths, Ifs
  <2>2. Called(mx, args) = [mx EXCEPT !.cell = f, !.calls = Append(mx.calls, args), !.rv = rv]
    BY DEF Called
  <2>3. f[x] = m.cell[x]
    BY <1>1, <1>6
  <2> DEFINE calls == Append(mx.calls, args)
  <2> HIDE DEF f, rv, args, rest, mx, g, calls
  <2>4. [[mx EXCEPT !.cell = f, !.calls = calls, !.rv = rv] EXCEPT !.stack = rest].cell = f
    BY <1>1 DEF Machine
  <2> QED
    BY <2>1, <2>2, <2>3, <2>4 DEF calls
<1>7. CASE q.op \in {"nop", "label", "enter", "leave"}
  <2>1. StepCode(c, rn, m) = mx
    BY <1>7 DEF StepCode, Ariths, Ifs
  <2> QED
    BY <1>1, <2>1
<1>8. CASE q.op \in Jumps
  <2>1. StepCode(c, rn, m) = mx \/ StepCode(c, rn, m) = [m EXCEPT !.pc = LabelAt(c, q.dst.i)]
    BY <1>8 DEF StepCode, Ariths, Jumps, Ifs
  <2>2. [m EXCEPT !.pc = LabelAt(c, q.dst.i)].cell = m.cell
    BY DEF Machine
  <2> QED
    BY <1>1, <2>1, <2>2
<1>9. CASE q.op = "param"
  <2> DEFINE z == << gen_mips_load(m, rn, q.src1) >> \o m.stack
  <2>1. StepCode(c, rn, m) = [mx EXCEPT !.stack = z]
    BY <1>9 DEF StepCode, Ariths, Ifs
  <2> HIDE DEF z, mx
  <2>2. [mx EXCEPT !.stack = z].cell = mx.cell
    BY <1>1 DEF Machine
  <2> QED
    BY <1>1, <2>1, <2>2
<1>10. CASE q.op = "ret"
  <2> DEFINE z == IF q.src1.k = "null" THEN <<>> ELSE << gen_mips_load(m, rn, q.src1) >>
  <2>1. StepCode(c, rn, m) = [m EXCEPT !.pc = 0, !.ret = z]
    BY <1>10 DEF StepCode, Ariths, Ifs
  <2> HIDE DEF z
  <2>2. [m EXCEPT !.pc = 0, !.ret = z].cell = m.cell
    BY DEF Machine
  <2> QED
    BY <2>1, <2>2
<1> QED
  BY <1>2, <1>4, <1>5, <1>6, <1>7, <1>8, <1>9, <1>10 DEF Defines

(* A quad with a source that is equal to the one it had.                   *)
LEMMA ReplacedStep ==
  ASSUME NEW A, OneSymbolPerName(A), NEW p, QuadOK(p), SymbolsIn(p) \subseteq A, p.op = "move",
         p.dst.k = "sym", p.src1.k \in {"int", "sym", "addr"},
         NEW rn, NEW n, gen_mips_load(n, rn, p.dst) = gen_mips_load(n, rn, p.src1),
         NEW c, QuadOK(c[n.pc]), SymbolsIn(c[n.pc]) \subseteq A,
         NEW d, d[n.pc] = Replaced(c[n.pc], p.dst, p.src1), \A l : LabelAt(d, l) = LabelAt(c, l)
  PROVE  StepCode(d, rn, n) = StepCode(c, rn, n)
<1> DEFINE q == c[n.pc]
           r == d[n.pc]
           Src(o) == IF operands_compare(p.dst, o) THEN p.src1 ELSE o
           a == gen_mips_load(n, rn, q.src1)
           b == gen_mips_load(n, rn, q.src2)
           next == [n EXCEPT !.pc = n.pc + 1]
<1>1. r.op = q.op /\ r.dst = q.dst /\ r.src1 = Src(q.src1) /\ r.src2 = Src(q.src2)
  <2>1. r = [q EXCEPT !.src1 = Src(q.src1), !.src2 = Src(q.src2)]
    BY DEF Replaced
  <2>2. q \in Quads
    BY DEF QuadOK
  <2> HIDE DEF Src, r, q
  <2> QED
    BY <2>1, <2>2 DEF Quads
<1>2. \A o \in {q.src1, q.src2} : Src(o) # o => o.k = "sym" /\ o.s = p.dst.s
  <2> SUFFICES ASSUME NEW o \in {q.src1, q.src2}, operands_compare(p.dst, o)
               PROVE  o.k = "sym" /\ o.s = p.dst.s
    OBVIOUS
  <2>1. p.dst.k = "sym" /\ o.k = "sym" /\ o.s.id = p.dst.s.id
    BY DEF operands_compare
  <2>2. o.s \in A /\ p.dst.s \in A
    BY <2>1 DEF SymbolsIn, SymbolIn
  <2> QED
    BY <2>1, <2>2 DEF OneSymbolPerName
<1>3. \A o : Src(o) \in {o, p.src1}
  OBVIOUS
<1>4. \A o : o.k = "sym" /\ o.s = p.dst.s => gen_mips_load(n, rn, o) = gen_mips_load(n, rn, p.dst)
  BY DEF gen_mips_load
<1> HIDE DEF Src
<1>5. gen_mips_load(n, rn, r.src1) = a /\ gen_mips_load(n, rn, r.src2) = b
  <2>1. \A o \in {q.src1, q.src2} : gen_mips_load(n, rn, Src(o)) = gen_mips_load(n, rn, o)
    <3> HIDE DEF q
    <3> QED
      BY <1>2, <1>3, <1>4
  <2> QED
    BY <1>1, <2>1
<1>6. q.op \in {"retrieve", "call"} => r.src1 = q.src1
  <2>1. q.op = "retrieve" => q.src1.s.isReturn
    BY DEF QuadOK
  <2>2. ~ p.dst.s.isReturn
    BY DEF QuadOK
  <2>3. q.op = "call" => q.src1.k = "int"
    BY DEF QuadOK
  <2> HIDE DEF q, r
  <2> QED
    BY <1>1, <1>2, <2>1, <2>2, <2>3
<1>7. r.src1.k = "null" <=> q.src1.k = "null"
  <2> HIDE DEF q, r
  <2> QED
    BY <1>1, <1>2, <1>3
<1>8. q.op \in Jumps \cup Ariths \cup {"move", "neg", "nop", "label", "enter", "leave", "param",
                                        "call", "retrieve", "ret"}
  BY DEF QuadOK, Quads
<1> HIDE DEF q, r, a, b
<1>9. CASE q.op \in {"nop", "label", "enter", "leave"}
  BY <1>1, <1>9 DEF StepCode, Ariths, Ifs, q, r
<1>10. CASE q.op \in {"move", "neg"} \cup Ariths
  <2>1. Defines(c[n.pc]) /\ Defines(d[n.pc])
    BY <1>1, <1>10 DEF q, r, Defines
  <2>2. /\ StepCode(c, rn, n) = gen_mips_store(next, rn, q.dst, Result(q, rn, n))
        /\ StepCode(d, rn, n) = gen_mips_store(next, rn, r.dst, Result(r, rn, n))
    BY <2>1, AssignmentStep DEF q, r
  <2>3. Result(r, rn, n) = Result(q, rn, n)
    BY <1>1, <1>5 DEF Result, a, b
  <2> HIDE DEF next
  <2> QED
    BY <1>1, <2>2, <2>3
<1>11. CASE q.op = "goto"
  BY <1>1, <1>11 DEF StepCode, Ariths, Ifs, q, r
<1>12. CASE q.op \in Ifs
  <2> DEFINE Jump(l, e) == [n EXCEPT !.pc = LabelAt(e, l)]
  <2>1. StepCode(c, rn, n) = IF Holds(q.op, a, b) THEN Jump(q.dst.i, c) ELSE next
    BY <1>12 DEF StepCode, Ariths, Ifs, q, a, b
  <2>2. StepCode(d, rn, n) = IF Holds(r.op, a, b) THEN Jump(r.dst.i, d) ELSE next
    BY <1>1, <1>5, <1>12 DEF StepCode, Ariths, Ifs, r
  <2>3. Jump(q.dst.i, c) = Jump(q.dst.i, d)
    OBVIOUS
  <2> HIDE DEF Jump, next
  <2> QED
    BY <1>1, <2>1, <2>2, <2>3
<1>13. CASE q.op = "param"
  <2> DEFINE st == << a >> \o n.stack
  <2>1. StepCode(c, rn, n) = [next EXCEPT !.stack = st]
    BY <1>13 DEF StepCode, Ariths, Ifs, q, a
  <2>2. StepCode(d, rn, n) = [next EXCEPT !.stack = st]
    BY <1>1, <1>5, <1>13 DEF StepCode, Ariths, Ifs, r
  <2> QED
    BY <2>1, <2>2
<1>14. CASE q.op = "call"
  <2> DEFINE S(x) == [Called(next, SubSeq(n.stack, 1, x.src1.i))
                        EXCEPT !.stack = SubSeq(n.stack, x.src1.i + 1, Len(n.stack))]
  <2>1. StepCode(c, rn, n) = S(q)
    BY <1>14 DEF StepCode, Ariths, Ifs, q
  <2>2. StepCode(d, rn, n) = S(r)
    BY <1>1, <1>14 DEF StepCode, Ariths, Ifs, r
  <2>3. q.src1.i = r.src1.i
    BY <1>6, <1>14
  <2>4. S(q) = S(r)
    <3> HIDE DEF next
    <3> QED
      BY <2>3
  <2> HIDE DEF S
  <2> QED
    BY <2>1, <2>2, <2>4
<1>15. CASE q.op = "retrieve"
  <2>1. StepCode(c, rn, n) = gen_mips_store(next, rn, q.src1, n.rv)
    BY <1>15 DEF StepCode, Ariths, Ifs, q
  <2>2. StepCode(d, rn, n) = gen_mips_store(next, rn, r.src1, n.rv)
    BY <1>1, <1>15 DEF StepCode, Ariths, Ifs, r
  <2> HIDE DEF next
  <2> QED
    BY <1>6, <1>15, <2>1, <2>2
<1>16. CASE q.op = "ret"
  <2> DEFINE R(x) == IF x.src1.k = "null" THEN <<>> ELSE << a >>
  <2>1. StepCode(c, rn, n) = [n EXCEPT !.pc = 0, !.ret = R(q)]
    BY <1>16 DEF StepCode, Ariths, Ifs, q, a
  <2>2. StepCode(d, rn, n) = [n EXCEPT !.pc = 0, !.ret = R(r)]
    BY <1>1, <1>5, <1>16 DEF StepCode, Ariths, Ifs, r
  <2>3. R(q) = R(r)
    BY <1>7
  <2> HIDE DEF R
  <2> QED
    BY <2>1, <2>2, <2>3
<1> QED
  BY <1>8, <1>9, <1>10, <1>11, <1>12, <1>13, <1>14, <1>15, <1>16 DEF Jumps

(* The list with the copy put in, while no variable is in a register.      *)
LEMMA CopyRun ==
  ASSUME NEW c, NEW A, CodeOK(c, A), OneSymbolPerName(A), NEW i \in DOMAIN c, c[i].op = "move",
         Settled(c, i), NEW rn, \A s \in A : s.scope = "local" => rn[s.id] = -1,
         Counter \notin Ids({s \in A : s.scope = "local"})
  PROVE  SimulatesCopy(c, copy_propagate(c, i), rn, i)
<1> DEFINE d == copy_propagate(c, i)
           lhs == c[i].dst
           rhs == c[i].src1
           R == CopyReaches(c, i)
           ids == Ids(AllSymbols(c)) \cup {Counter}
           Held(m) == m.pc \in R => gen_mips_load(m, rn, lhs) = gen_mips_load(m, rn, rhs)
<1>1. \A p \in DOMAIN c : /\ QuadOK(c[p]) /\ SymbolsIn(c[p]) \subseteq A
                          /\ SymbolsIn(c[p]) \subseteq AllSymbols(c)
  BY CodeIsList DEF AllSymbols
<1>2. /\ R \subseteq DOMAIN c
      /\ \A j \in R : ~ Stops(c[j], lhs, rhs) /\ j > i
      /\ \A j \in DOMAIN c : j + 1 \in R => j = i \/ j \in R
  BY CopyReachesIs
<1>3. \A p \in DOMAIN c : d[p] = IF p \in R /\ ~ Skipped(c[p], lhs)
                                 THEN Replaced(c[p], lhs, rhs) ELSE c[p]
  BY DEF copy_propagate, CopyReaches, CopyEnd
<1>4. DOMAIN d = DOMAIN c
  BY DEF copy_propagate
<1>5. \A p \in DOMAIN c : SameControl(c[p], d[p])
  <2>1. \A p \in DOMAIN c : SameControl(c[p], c[p])
    BY DEF SameControl
  <2>2. \A p \in DOMAIN c : SameControl(c[p], Replaced(c[p], lhs, rhs))
    BY <1>1, ReplacedOK
  <2> HIDE DEF d, lhs, rhs, R
  <2> QED
    BY <1>3, <2>1, <2>2
<1> HIDE DEF d
<1>6. \A l : LabelAt(d, l) = LabelAt(c, l)
  BY <1>4, <1>5, SameLabels
<1>7. \A p \in DOMAIN c : \A s \in SymbolsIn(c[p]) :
         /\ s \in A /\ ~ InRegister(rn, s) /\ s.id \in ids
         /\ s.scope = "local" => s.id # Counter
         /\ s.scope \in {"local", "global"}
  <2> SUFFICES ASSUME NEW p \in DOMAIN c, NEW s \in SymbolsIn(c[p])
               PROVE  /\ s \in A /\ ~ InRegister(rn, s) /\ s.id \in ids
                      /\ s.scope = "local" => s.id # Counter
                      /\ s.scope \in {"local", "global"}
    OBVIOUS
  <2>1. s \in A /\ s \in AllSymbols(c) /\ s \in Symbols
    BY <1>1, QuadFields DEF QuadOK
  <2>2. s.scope \in {"local", "global"}
    BY <2>1 DEF Symbols, OneSymbolPerName
  <2> QED
    BY <2>1, <2>2 DEF InRegister, Ids
<1>8. /\ lhs.k = "sym" /\ lhs.s \in SymbolsIn(c[i]) /\ ~ lhs.s.isReturn
      /\ lhs.s.type = "char" => rhs.k = "int" /\ Narrow("char", rhs.i) = rhs.i
      /\ rhs.k \in {"int", "sym"} \/ (rhs.k = "addr" /\ ~ IsFormal(rhs.s))
      /\ rhs.k = "sym" => rhs.s \in SymbolsIn(c[i])
  <2>1. QuadOK(c[i])
    BY <1>1
  <2> QED
    BY <2>1 DEF Settled, QuadOK, SymbolsIn, SymbolIn
<1>9. /\ ~ InRegister(rn, lhs.s) /\ lhs.s.id \in ids
      /\ rhs.k = "sym" => ~ InRegister(rn, rhs.s) /\ rhs.s.id \in ids
  BY <1>7, <1>8
<1>10. \A m : /\ gen_mips_load(m, rn, lhs) = m.cell[lhs.s.id]
              /\ gen_mips_load(m, rn, rhs) = CASE rhs.k = "int" -> rhs.i
                                              [] rhs.k = "sym" -> m.cell[rhs.s.id]
                                              [] rhs.k = "addr" -> ArrayBase[rhs.s.id]
  <2>1. \A m : gen_mips_load(m, rn, lhs) = m.cell[lhs.s.id]
    BY <1>8, <1>9 DEF gen_mips_load
  <2>2. \A m : gen_mips_load(m, rn, rhs) = CASE rhs.k = "int" -> rhs.i
                                              [] rhs.k = "sym" -> m.cell[rhs.s.id]
                                              [] rhs.k = "addr" -> ArrayBase[rhs.s.id]
    BY <1>8, <1>9 DEF gen_mips_load
  <2> QED
    BY <2>1, <2>2
<1> HIDE DEF lhs, rhs, R, ids
<1>11. ASSUME NEW m, NEW n, m.pc \in DOMAIN c, n.pc = m.pc, Alike(m, n), ids \subseteq DOMAIN m.cell, Held(m)
       PROVE  /\ StepCode(d, rn, n).pc = StepCode(c, rn, m).pc
              /\ Alike(StepCode(c, rn, m), StepCode(d, rn, n))
              /\ StepCode(c, rn, m).pc = After(c, rn, m)
  <2>1. QuadOK(c[m.pc]) /\ SymbolsIn(c[m.pc]) \subseteq A
    BY <1>1, <1>11
  <2>2. /\ gen_mips_load(n, rn, c[m.pc].src1) = gen_mips_load(m, rn, c[m.pc].src1)
        /\ gen_mips_load(n, rn, c[m.pc].src2) = gen_mips_load(m, rn, c[m.pc].src2)
    BY <1>11, LoadsAlike
  <2>3. CASE d[m.pc] = c[m.pc]
    <3>1. /\ Alike(StepCode(c, rn, m), StepCode(d, rn, n))
          /\ StepCode(c, rn, m).pc = After(c, rn, m) /\ StepCode(d, rn, n).pc = After(d, rn, n)
      BY <1>11, <2>1, <2>3, StepsAlike
    <3>2. After(d, rn, n) = After(c, rn, m)
      BY <1>6, <1>11, <2>2, <2>3 DEF After
    <3> QED
      BY <3>1, <3>2
  <2>4. CASE m.pc \in R /\ d[m.pc] = Replaced(c[m.pc], lhs, rhs)
    <3>1. gen_mips_load(n, rn, lhs) = gen_mips_load(n, rn, rhs)
      BY <1>11, <2>4, LoadsAlike
    <3>2. QuadOK(c[i]) /\ SymbolsIn(c[i]) \subseteq A
      BY <1>1
    <3>3. StepCode(d, rn, n) = StepCode(c, rn, n)
      BY <1>6, <1>8, <1>11, <2>1, <2>4, <3>1, <3>2, ReplacedStep DEF lhs, rhs
    <3>4. /\ Alike(StepCode(c, rn, m), StepCode(c, rn, n))
          /\ StepCode(c, rn, m).pc = After(c, rn, m) /\ StepCode(c, rn, n).pc = After(c, rn, n)
      BY <1>11, <2>1, StepsAlike
    <3>5. After(c, rn, n) = After(c, rn, m)
      BY <1>11, <2>2 DEF After
    <3> QED
      BY <3>3, <3>4, <3>5
  <2> QED
    BY <1>3, <1>11, <2>3, <2>4
<1>12. ASSUME NEW m, m.pc \in DOMAIN c, Machine(m), ids \subseteq DOMAIN m.cell
       PROVE  ids \subseteq DOMAIN StepCode(c, rn, m).cell
  <2> DEFINE q == c[m.pc]
  <2>1. AlikeBut(m, m, ids, {})
    BY <1>12 DEF AlikeBut
  <2>2. QuadOK(q) /\ \A s \in SymbolsIn(q) : ~ InRegister(rn, s) /\ s.id \in ids
    BY <1>1, <1>7, <1>12
  <2>3. Reads(q) \subseteq SymbolsIn(q) /\ Writes(q) \subseteq SymbolsIn(q)
    BY <2>2 DEF Reads, Writes, SymbolsIn, SymbolIn, QuadOK
  <2>4. Ids(Reads(q)) \subseteq ids /\ Ids(Writes(q)) \subseteq ids /\ Counter \in ids
    BY <2>2, <2>3 DEF Ids, ids
  <2>5. AlikeBut(StepCode(c, rn, m), StepCode(c, rn, m), ids, {} \ Ids(Writes(q)))
    BY <2>1, <2>2, <2>4, StepsBut
  <2> QED
    BY <2>5 DEF AlikeBut
<1>13. ASSUME NEW m, m.pc \in DOMAIN c, Machine(m), ids \subseteq DOMAIN m.cell, Held(m),
              StepCode(c, rn, m).pc = After(c, rn, m), After(c, rn, m) \in R
       PROVE  gen_mips_load(StepCode(c, rn, m), rn, lhs) = gen_mips_load(StepCode(c, rn, m), rn, rhs)
  <2> DEFINE q == c[m.pc]
             k == StepCode(c, rn, m)
  <2>1. After(c, rn, m) = m.pc + 1
    <3> SUFFICES ASSUME After(c, rn, m) # m.pc + 1 PROVE FALSE
      OBVIOUS
    <3>1. After(c, rn, m) # 0 /\ After(c, rn, m) \in DOMAIN c
      BY <1>2, <1>13, CodeIsList
    <3>2. q.op \in Jumps /\ After(c, rn, m) = LabelAt(c, q.dst.i)
      BY <3>1 DEF After, Jumps
    <3>3. \E j \in DOMAIN c : c[j].op = "label" /\ c[j].src1.i = q.dst.i
      BY <1>13, <3>2, CodeIsList DEF JumpsHaveLabels
    <3>4. c[After(c, rn, m)].op = "label"
      BY <3>2, <3>3 DEF LabelAt
    <3> QED
      BY <1>2, <1>13, <3>4 DEF Stops
  <2>2. m.pc = i \/ m.pc \in R
    BY <1>2, <1>13, <2>1
  <2>3. CASE m.pc = i
    <3> DEFINE a == gen_mips_load(m, rn, rhs)
               mx == [m EXCEPT !.pc = m.pc + 1]
               f == [m.cell EXCEPT ![lhs.s.id] = a]
    <3>1. Defines(q) /\ q.dst = lhs /\ Result(q, rn, m) = a
      BY <2>3 DEF Defines, Result, lhs, rhs
    <3>2. k = gen_mips_store(mx, rn, lhs, a)
      BY <3>1, AssignmentStep
    <3>3. mx.cell = m.cell /\ Machine(mx)
      BY <1>13 DEF Machine
    <3> HIDE DEF mx, a, q
    <3>4. k = [mx EXCEPT !.cell = [mx.cell EXCEPT ![lhs.s.id] = a]]
      <4>1. k = [mx EXCEPT !.cell = [mx.cell EXCEPT ![lhs.s.id] = Narrow(lhs.s.type, a)]]
        BY <1>8, <1>9, <3>2 DEF gen_mips_store
      <4>2. Narrow(lhs.s.type, a) = a
        <5>1. CASE lhs.s.type # "char"
          BY <5>1 DEF Narrow
        <5>2. CASE lhs.s.type = "char"
          BY <1>8, <1>10, <5>2 DEF a
        <5> QED
          BY <5>1, <5>2
      <4> QED
        BY <4>1, <4>2
    <3>5. k = [mx EXCEPT !.cell = f]
      BY <3>3, <3>4
    <3> HIDE DEF k
    <3>6. f[lhs.s.id] = a /\ \A x \in DOMAIN m.cell : x # lhs.s.id => f[x] = m.cell[x]
      BY <1>9, <1>13
    <3> HIDE DEF f
    <3>7. k.cell = f
      BY <3>3, <3>5 DEF Machine
    <3>8. gen_mips_load(k, rn, lhs) = a
      BY <1>10, <3>6, <3>7
    <3>9. CASE rhs.k = "sym"
      <4>1. a = m.cell[rhs.s.id] /\ gen_mips_load(k, rn, rhs) = f[rhs.s.id] /\ rhs.s.id \in DOMAIN m.cell
        BY <1>9, <1>10, <1>13, <3>7, <3>9 DEF a
      <4> QED
        BY <3>6, <3>8, <4>1 DEF k
    <3>10. CASE rhs.k # "sym"
      <4>1. gen_mips_load(k, rn, rhs) = gen_mips_load(m, rn, rhs)
        BY <1>8, <1>10, <3>10
      <4> QED
        BY <3>8, <4>1 DEF a, k
    <3> QED
      BY <3>9, <3>10
  <2>4. CASE m.pc \in R
    <3>1. ~ Stops(q, lhs, rhs) /\ QuadOK(q) /\ \A s \in SymbolsIn(q) : s \in A /\ ~ InRegister(rn, s)
      BY <1>1, <1>2, <1>7, <1>13, <2>4
    <3>2. Writes(q) \subseteq SymbolsIn(q)
      BY <3>1 DEF Writes, SymbolsIn, SymbolIn, QuadOK
    <3>3. ASSUME NEW o \in {lhs, rhs}, o.k = "sym",
                 q.op = "retrieve" => q.src1.s # o.s, q.op = "call" => o.s.scope = "local"
          PROVE  gen_mips_load(k, rn, o) = gen_mips_load(m, rn, o)
      <4>1. o.s \in SymbolsIn(c[i]) /\ o.s \in A /\ o.s.id \in ids
              /\ (o.s.scope = "local" => o.s.id # Counter)
        BY <1>7, <1>8, <3>3
      <4>2. o.s \notin Writes(q)
        <5>1. Defines(q) /\ q.dst.k = "sym" => q.dst.s # o.s
          BY <3>1, <3>3 DEF Stops, operands_compare
        <5> QED
          BY <3>3, <5>1 DEF Writes
      <4>3. o.s.id \notin Ids(Writes(q))
        <5>1. \A s \in Writes(q) : s.id # o.s.id
          BY <3>1, <3>2, <4>1, <4>2 DEF OneSymbolPerName
        <5> HIDE DEF q
        <5> QED
          BY <5>1 DEF Ids
      <4>4. k.cell[o.s.id] = m.cell[o.s.id]
        <5>1. o.s.id \in DOMAIN m.cell
          BY <1>13, <4>1
        <5> QED
          BY <1>13, <3>1, <3>3, <4>1, <4>3, <5>1, CellKept
      <4> HIDE DEF k
      <4> QED
        BY <1>10, <3>3, <4>4
    <3>4. gen_mips_load(k, rn, lhs) = gen_mips_load(m, rn, lhs)
      <4>1. q.op = "retrieve" => q.src1.s # lhs.s
        BY <1>8, <3>1 DEF QuadOK
      <4>2. q.op = "call" => lhs.s.scope = "local"
        BY <1>7, <1>8, <3>1 DEF Stops
      <4> QED
        BY <1>8, <3>3, <4>1, <4>2
    <3>5. gen_mips_load(k, rn, rhs) = gen_mips_load(m, rn, rhs)
      <4>1. CASE rhs.k = "sym"
        <5>1. /\ q.op = "call" => rhs.s.scope = "local"
              /\ q.op = "retrieve" => q.src1.s # rhs.s
          BY <2>4, <4>1 DEF Settled, lhs, rhs, R
        <5> HIDE DEF k, q
        <5> QED
          BY <3>3, <4>1, <5>1
      <4>2. CASE rhs.k # "sym"
        BY <1>8, <1>10, <4>2
      <4> QED
        BY <4>1, <4>2
    <3> HIDE DEF k
    <3> QED
      BY <1>13, <2>4, <3>4, <3>5 DEF k
  <2> QED
    BY <2>2, <2>3, <2>4
<1>14. ASSUME NEW m, NEW n, m.pc \in DOMAIN c, n.pc = m.pc, Alike(m, n), ids \subseteq DOMAIN m.cell, Held(m)
       PROVE  /\ StepCode(c, rn, m).pc \in DOMAIN c \cup {0}
              /\ StepCode(d, rn, n).pc = StepCode(c, rn, m).pc
              /\ Alike(StepCode(c, rn, m), StepCode(d, rn, n))
              /\ ids \subseteq DOMAIN StepCode(c, rn, m).cell /\ Held(StepCode(c, rn, m))
  <2>1. /\ StepCode(d, rn, n).pc = StepCode(c, rn, m).pc
        /\ Alike(StepCode(c, rn, m), StepCode(d, rn, n))
        /\ StepCode(c, rn, m).pc = After(c, rn, m)
    BY <1>11, <1>14
  <2>2. Machine(m)
    BY <1>14 DEF Alike
  <2>3. After(c, rn, m) \in DOMAIN c \cup {0}
    BY <1>14, AfterIsThere
  <2>4. ids \subseteq DOMAIN StepCode(c, rn, m).cell
    BY <1>12, <1>14, <2>2
  <2>5. Held(StepCode(c, rn, m))
    BY <1>13, <1>14, <2>1, <2>2
  <2> QED
    BY <2>1, <2>3, <2>4, <2>5
<1> QED
  BY <1>14 DEF SimulatesCopy, d, lhs, rhs, R, ids

(* Each step of copy propagation that puts in a copy of which the two      *)
(* sides stay equal as far as it reaches leaves a list that does what the  *)
(* list before it does (codegen.c:1819).  The other copies are those that  *)
(* the pass gets wrong or for which it takes more than the list: an        *)
(* element of an array over a store, a global over a call that changes it, *)
(* a value cut to a char.                                                  *)
THEOREM CopyPropagateKeepsRuns ==
  Spec => [][CopyPropagate /\ Counter \notin Ids(locals) =>
               \A i \in DOMAIN code :
                  code[i].op = "move" /\ code' = copy_propagate(code, i) /\ Settled(code, i)
                    => SimulatesCopy(code, code', regName, i)]_vars
<1>1. ASSUME CInv, CopyPropagate, Counter \notin Ids(locals), NEW i \in DOMAIN code,
             code[i].op = "move", code' = copy_propagate(code, i), Settled(code, i)
      PROVE  SimulatesCopy(code, code', regName, i)
  <2>1. phase = "copy"
    BY <1>1 DEF CopyPropagate
  <2>2. CodeOK(code, Syms) /\ OneSymbolPerName(Syms) /\ locals = {s \in Syms : s.scope = "local"}
    BY <1>1, <2>1, GeneratedCode DEF CInv, CodeInv
  <2>3. \A s \in Syms : s.scope = "local" => regName[s.id] = -1
    <3>1. NoRegisters /\ DOMAIN regName = Ids(locals)
      BY <1>1, <2>1 DEF CInv, RegInv, Allocated
    <3> QED
      BY <2>2, <3>1 DEF NoRegisters, Ids
  <2>4. Counter \notin Ids({s \in Syms : s.scope = "local"})
    BY <1>1, <2>2
  <2>5. SimulatesCopy(code, copy_propagate(code, i), regName, i)
    BY <1>1, <2>2, <2>3, <2>4, CopyRun
  <2> QED
    BY <1>1, <2>5
<1>2. CInv /\ [Next]_vars
        => [CopyPropagate /\ Counter \notin Ids(locals) =>
              \A i \in DOMAIN code :
                 code[i].op = "move" /\ code' = copy_propagate(code, i) /\ Settled(code, i)
                   => SimulatesCopy(code, code', regName, i)]_vars
  BY <1>1
<1> QED
  BY <1>2, CompilerInvariant, PTL DEF Spec
=============================================================================
