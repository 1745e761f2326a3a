------------------------------ MODULE CmmCode ------------------------------
(***************************************************************************)
(* The code generator of the C-- compiler (src/Compiler-C--/codegen.c):    *)
(* from the syntax tree of a function to three-address instructions        *)
(* ("quads"), and a run of the MIPS code that is emitted for them.         *)
(*                                                                         *)
(* A generator takes a tree e and the number n of the next temporary or    *)
(* label, and returns its code c, the symbol p that holds its value, and   *)
(* the next number n.                                                      *)
(***************************************************************************)
EXTENDS CmmMachine

CONSTANTS
    RetType         \* the return type of the function, "int" or "char"

ASSUME CodeAssumption == /\ RetType \in {"int", "char"}
                         /\ CharBits \in Nat \ {0}

(* Code g followed by more; code g and then what H makes from the next      *)
(* number on.                                                              *)
Add(g, more) == [g EXCEPT !.c = @ \o more]
Then(g, H(_)) == [H(g.n) EXCEPT !.c = g.c \o @]

(***************************************************************************)
(* Expressions.  The trees: [t |-> "con", i], [t |-> "var", s],            *)
(* [t |-> "sub", s, e] (s[e]), [t |-> "bin", op, l, r], [t |-> "neg", e],  *)
(* [t |-> "call", void, args].                                             *)
(***************************************************************************)
RECURSIVE gen_3addr_code(_, _), Value(_, _), GenArgs(_, _)

(* An expression whose value is needed: an array element is loaded         *)
(* (deref_lvalue).                                                         *)
Value(e, n) ==
    LET g == gen_3addr_code(e, n)
        t == new_temp(g.n, e.s.elt)
    IN  IF e.t = "sub"
        THEN [c |-> Append(g.c, Move(DerefOp(g.p), SymOp(t))), p |-> t, n |-> g.n + 1]
        ELSE g

(* The arguments in order, then their PARAMs in reverse order.             *)
GenArgs(args, n) ==
    IF args = <<>> THEN [c |-> <<>>, params |-> <<>>, n |-> n]
    ELSE LET a == gen_3addr_code(Head(args), n)
             rest == GenArgs(Tail(args), a.n)
         IN  [c |-> a.c \o rest.c,
              params |-> Append(rest.params, new_instr("param", mk_expr_op(a.p), Null, Null)),
              n |-> rest.n]

gen_3addr_code_arraysub(e, n) ==
    LET addr == [new_temp(n, "addr") EXCEPT !.elt = e.s.elt]
        disp == new_temp(n + 1, "int")
        idx  == Value(e.e, n + 2)
        base == IF IsFormal(e.s) THEN SymOp(e.s) ELSE AddrOp(e.s)
    IN  [c |-> idx.c \o << Move(base, SymOp(addr)),
                           new_instr("*", SymOp(idx.p), IntOp(Width(e.s.elt)), SymOp(disp)),
                           new_instr("+", SymOp(addr), SymOp(disp), SymOp(addr)) >>,
         p |-> addr, n |-> idx.n]

gen_3addr_code_arithop(e, n) ==
    LET place == new_temp(n, "int")
        l == Value(e.l, n + 1)
        r == Value(e.r, l.n)
    IN  IF e.t = "neg"
        THEN [c |-> Append(l.c, new_instr("neg", SymOp(l.p), Null, SymOp(place))),
              p |-> place, n |-> l.n]
        ELSE [c |-> l.c \o r.c \o << new_instr(e.op, SymOp(l.p), SymOp(r.p), SymOp(place)) >>,
              p |-> place, n |-> r.n]

gen_3addr_code_funcall(e, n) ==
    LET args == GenArgs(e.args, n)
        ret  == [new_temp(args.n, "int") EXCEPT !.isReturn = TRUE]
        call == new_instr("call", IntOp(Len(e.args)), Null, Null)
    IN  [c |-> args.c \o args.params \o
                 << call, IF e.void THEN Nop ELSE new_instr("retrieve", SymOp(ret), Null, Null) >>,
         p |-> ret, n |-> args.n + 1]

gen_3addr_code(e, n) ==
    CASE e.t = "con" -> [c |-> << Move(IntOp(e.i), SymOp(new_temp(n, "int"))) >>,
                         p |-> new_temp(n, "int"), n |-> n + 1]
      [] e.t = "var" -> [c |-> << Nop >>, p |-> e.s, n |-> n]
      [] e.t = "sub" -> gen_3addr_code_arraysub(e, n)
      [] e.t \in {"bin", "neg"} -> gen_3addr_code_arithop(e, n)
      [] e.t = "call" -> gen_3addr_code_funcall(e, n)

(***************************************************************************)
(* Conditions: [t |-> "rel", op, l, r], [t |-> "and"/"or", l, r],          *)
(* [t |-> "not", e]; code that jumps to yes or to no.                      *)
(***************************************************************************)
RECURSIVE gen_3addr_code_boolexp(_, _, _, _)
gen_3addr_code_boolexp(e, yes, no, n) ==
    CASE e.t = "rel" ->
           LET l == Value(e.l, n)  r == Value(e.r, l.n)
           IN  [c |-> l.c \o r.c \o << new_instr(e.op, SymOp(l.p), SymOp(r.p), LabelOp(yes)),
                                       Goto(no) >>, n |-> r.n]
      [] e.t \in {"and", "or"} ->
           Then(Add(gen_3addr_code_boolexp(e.l, IF e.t = "and" THEN n ELSE yes,
                                                IF e.t = "and" THEN no ELSE n, n + 1),
                    << Label(n) >>),
                LAMBDA k : gen_3addr_code_boolexp(e.r, yes, no, k))
      [] e.t = "not" -> gen_3addr_code_boolexp(e.e, no, yes, n)

(***************************************************************************)
(* Statements: [t |-> "assg", l, r], [t |-> "if", b, yes, no],             *)
(* [t |-> "while", b, s], [t |-> "for", init, b, upd, s],                  *)
(* [t |-> "return", e], [t |-> "list", ss], [t |-> "none"], and calls.     *)
(***************************************************************************)
RECURSIVE GenStmt(_, _), gen_3addr_code_astlist(_, _)

gen_3addr_code_assg(s, n) ==
    LET l == gen_3addr_code(s.l, n)
        r == gen_3addr_code(s.r, l.n)
    IN  [c |-> l.c \o r.c \o << Move(mk_expr_op(r.p), mk_expr_op(l.p)) >>, n |-> r.n]

gen_3addr_code_if(s, n) ==
    Then(Then(Add(gen_3addr_code_boolexp(s.b, n, n + 1, n + 3), << Label(n) >>),
              LAMBDA k : Add(GenStmt(s.yes, k), << Goto(n + 2), Label(n + 1) >>)),
         LAMBDA k : Add(GenStmt(s.no, k), << Label(n + 2) >>))

gen_3addr_code_while(s, n) ==
    Then([c |-> << Label(n) >>, n |-> n + 3],
         LAMBDA i : Then(Add(gen_3addr_code_boolexp(s.b, n + 1, n + 2, i), << Label(n + 1) >>),
                         LAMBDA k : Add(GenStmt(s.s, k), << Goto(n), Label(n + 2) >>)))

(* The update is generated before the body and put behind it.              *)
gen_3addr_code_for(s, n) ==
    LET TestFrom(k) == Add(gen_3addr_code_boolexp(s.b, n + 1, n + 2, k), << Label(n + 1) >>)
        BodyFrom(k) == LET u == GenStmt(s.upd, k)
                    IN  Add(GenStmt(s.s, u.n), u.c \o << Goto(n), Label(n + 2) >>)
    IN  Then(Then(Add(GenStmt(s.init, n + 3), << Label(n) >>), TestFrom), BodyFrom)

gen_3addr_code_return(s, n) ==
    LET g == gen_3addr_code(s.e, n)
        t == new_temp(g.n, RetType)
        Ret(v) == << new_instr("leave", Null, Null, Null), new_instr("ret", SymOp(v), Null, Null) >>
    IN  IF g.p.type = RetType
        THEN [c |-> g.c \o Ret(g.p), n |-> g.n]
        ELSE [c |-> g.c \o << Move(SymOp(g.p), SymOp(t)) >> \o Ret(t), n |-> g.n + 1]

gen_3addr_code_astlist(ss, n) ==
    IF ss = <<>> THEN [c |-> <<>>, n |-> n]
    ELSE Then(GenStmt(Head(ss), n), LAMBDA k : gen_3addr_code_astlist(Tail(ss), k))

GenStmt(s, n) ==
    CASE s.t = "assg" -> gen_3addr_code_assg(s, n)
      [] s.t = "if" -> gen_3addr_code_if(s, n)
      [] s.t = "while" -> gen_3addr_code_while(s, n)
      [] s.t = "for" -> gen_3addr_code_for(s, n)
      [] s.t = "return" -> gen_3addr_code_return(s, n)
      [] s.t = "list" -> gen_3addr_code_astlist(s.ss, n)
      [] s.t = "none" -> [c |-> <<>>, n |-> n]
      [] OTHER -> gen_3addr_code(s, n)

gen_3addr_code_funcbody(body) ==
    << new_instr("enter", Null, Null, Null) >> \o GenStmt(body, 1).c \o
    << new_instr("leave", Null, Null, Null), new_instr("ret", Null, Null, Null) >>

(* A run of the code, of at most fuel instructions.                        *)
RECURSIVE RunCode(_, _, _, _)
RunCode(code, regName, m, fuel) ==
    IF m.pc = 0 \/ fuel = 0 THEN m ELSE RunCode(code, regName, StepCode(code, regName, m), fuel - 1)
=============================================================================
