----------------------------- MODULE CmmMeaning -----------------------------
(***************************************************************************)
(* What a function body of C-- means, independently of any code: the       *)
(* evaluation of its tree, from left to right, on the cells of a machine   *)
(* of CmmCode (its registers and stack are not used, pc = 0 says that a    *)
(* return was executed).  Nothing here is translated from the compiler: it *)
(* is what the generated and the optimised code are compared with.         *)
(***************************************************************************)
EXTENDS CmmCode

RECURSIVE Eval(_, _), EvalArgs(_, _)

(* The address of an array element.                                        *)
AddressOf(s, i, m) == (IF IsFormal(s) THEN m.cell[s.id] ELSE ArrayBase[s.id]) + i * Width(s.elt)

EvalArgs(args, m) ==
    IF args = <<>> THEN [v |-> <<>>, m |-> m]
    ELSE LET a == Eval(Head(args), m)
             r == EvalArgs(Tail(args), a.m)
         IN  [v |-> << a.v >> \o r.v, m |-> r.m]

Eval(e, m) ==
    CASE e.t = "con" -> [v |-> e.i, m |-> m]
      [] e.t = "var" /\ e.s.type # "array" -> [v |-> m.cell[e.s.id], m |-> m]
      [] e.t = "var" /\ e.s.type = "array" -> [v |-> AddressOf(e.s, 0, m), m |-> m]
      [] e.t = "sub" -> LET i == Eval(e.e, m)
                        IN  [v |-> i.m.mem[AddressOf(e.s, i.v, i.m)], m |-> i.m]
      [] e.t = "neg" -> LET l == Eval(e.l, m) IN [v |-> -l.v, m |-> l.m]
      [] e.t = "bin" -> LET l == Eval(e.l, m)
                            r == Eval(e.r, l.m)
                        IN  [v |-> gen_mips_arith(e.op, l.v, r.v), m |-> r.m]
      [] e.t = "call" -> LET a == EvalArgs(e.args, m)
                             c == Called(a.m, a.v)
                         IN  [v |-> c.rv, m |-> c]

RECURSIVE IsTrue(_, _)
IsTrue(b, m) ==
    CASE b.t = "rel" -> LET l == Eval(b.l, m)
                            r == Eval(b.r, l.m)
                        IN  [v |-> Holds(b.op, l.v, r.v), m |-> r.m]
      [] b.t = "not" -> LET e == IsTrue(b.e, m) IN [v |-> ~e.v, m |-> e.m]
      [] b.t \in {"and", "or"} ->
           LET l == IsTrue(b.l, m)
           IN  IF l.v = (b.t = "or") THEN l ELSE IsTrue(b.r, l.m)

RECURSIVE Exec(_, _)
Exec(s, m) ==
    IF m.pc = 0 THEN m ELSE
    CASE s.t = "none" -> m
      [] s.t = "assg" /\ s.l.t = "var" ->
           LET r == Eval(s.r, m)
           IN  [r.m EXCEPT !.cell[s.l.s.id] = Narrow(s.l.s.type, r.v)]
      [] s.t = "assg" /\ s.l.t = "sub" ->
           LET i == Eval(s.l.e, m)
               r == Eval(s.r, i.m)
           IN  [r.m EXCEPT !.mem[AddressOf(s.l.s, i.v, i.m)] = Narrow(s.l.s.elt, r.v)]
      [] s.t = "call" -> Eval(s, m).m
      [] s.t = "if" -> LET b == IsTrue(s.b, m) IN Exec(IF b.v THEN s.yes ELSE s.no, b.m)
      [] s.t = "while" -> LET b == IsTrue(s.b, m)
                          IN  IF b.v THEN Exec(s, Exec(s.s, b.m)) ELSE b.m
      [] s.t = "for" -> Exec([t |-> "while", b |-> s.b,
                              s |-> [t |-> "list", ss |-> << s.s, s.upd >>]], Exec(s.init, m))
      [] s.t = "list" -> IF s.ss = <<>> THEN m
                         ELSE Exec([s EXCEPT !.ss = Tail(@)], Exec(Head(s.ss), m))
      [] s.t = "return" -> LET r == Eval(s.e, m)
                           IN  [r.m EXCEPT !.pc = 0, !.ret = << Narrow(RetType, r.v) >>]

(* What the caller of the function can see of a run.                       *)
Seen(m, globals) == << m.ret, m.calls, m.mem, [g \in globals |-> m.cell[g]] >>
=============================================================================
