------------------------------ MODULE CmmQuads ------------------------------
(***************************************************************************)
(* The three-address instructions ("quads") of the C-- compiler            *)
(* (src/Compiler-C--/codegen.c): symbols, operands, instructions, and how  *)
(* an instruction hands on control.  A symbol is a record of what the      *)
(* compiler looks at; argpos is the position of a parameter, else 0.       *)
(***************************************************************************)
EXTENDS Integers, Sequences, FiniteSets

NoSym == [id |-> 0, scope |-> "none", type |-> "none", elt |-> "none",
          argpos |-> 0, isReturn |-> FALSE]
IsFormal(s) == s.argpos > 0
Local(id, type, elt) == [NoSym EXCEPT !.id = id, !.scope = "local", !.type = type, !.elt = elt]
new_temp(n, type) == Local(n, type, "none")

(* Operands and instructions; an operand is [k, s, i] with a symbol s or a *)
(* number or label i, according to k.                                      *)
Null == [k |-> "null", s |-> NoSym, i |-> 0]
IntOp(i) == [Null EXCEPT !.k = "int", !.i = i]
SymOp(s) == [Null EXCEPT !.k = "sym", !.s = s]
AddrOp(s) == [Null EXCEPT !.k = "addr", !.s = s]
DerefOp(s) == [Null EXCEPT !.k = "deref", !.s = s]
LabelOp(l) == [Null EXCEPT !.k = "label", !.i = l]

mk_expr_op(s) == CASE s.type \in {"char", "int"} -> SymOp(s)
                   [] s.type = "addr" -> DerefOp(s)
                   [] s.type = "array" -> AddrOp(s)

new_instr(op, src1, src2, dst) ==
    [op |-> op, src1 |-> src1, src2 |-> src2, dst |-> dst, isLeader |-> FALSE]
Nop == new_instr("nop", Null, Null, Null)
Move(src, dst) == new_instr("move", src, Null, dst)
Goto(l) == new_instr("goto", Null, Null, LabelOp(l))
Label(l) == new_instr("label", IntOp(l), Null, Null)

Ifs == {"==", "!=", "<=", "<", ">=", ">"}
Ariths == {"+", "-", "*", "/"}

Jumps == Ifs \cup {"goto"}

Width(elt) == IF elt = "char" THEN 1 ELSE 4

(* The quad a jump to l leads to (insptr in the code).                     *)
LabelAt(code, l) == CHOOSE i \in DOMAIN code : code[i].op = "label" /\ code[i].src1.i = l

(***************************************************************************)
(* The quads that the generator makes for a function body: each name means *)
(* one symbol, every jump has one label, a result is only retrieved into   *)
(* its own temporary, stores go through address temporaries.               *)
(***************************************************************************)
Symbols == [id : Int, scope : {"none", "local", "global"},
            type : {"none", "int", "char", "addr", "array"}, elt : {"none", "int", "char"},
            argpos : Nat, isReturn : BOOLEAN]
Operands == [k : {"null", "int", "sym", "addr", "deref", "label"}, s : Symbols, i : Int]
Quads == [op : Jumps \cup Ariths \cup {"move", "neg", "nop", "label", "enter", "leave", "param",
                                        "call", "retrieve", "ret"},
          src1 : Operands, src2 : Operands, dst : Operands, isLeader : BOOLEAN]

SymbolIn(o) == IF o.k \in {"sym", "addr", "deref"} THEN {o.s} ELSE {}
SymbolsIn(q) == SymbolIn(q.src1) \cup SymbolIn(q.src2) \cup SymbolIn(q.dst)
AllSymbols(c) == UNION {SymbolsIn(c[i]) : i \in DOMAIN c}

QuadOK(q) ==
    /\ q \in Quads
    /\ \A o \in {q.src1, q.src2, q.dst} : o.k = "deref" => o.s.type = "addr"
    /\ q.op \in Ariths \cup {"move", "neg"} => q.dst.k \in {"sym", "deref"} /\ ~ q.dst.s.isReturn
    /\ q.op \in {"move", "neg", "param", "ret"} => q.src2.k = "null"
    /\ q.op = "retrieve" => q.src1.k = "sym" /\ q.src1.s.isReturn
    /\ q.op \in {"label", "call"} => q.src1.k = "int"

JumpsHaveLabels(c) ==
    \A i \in DOMAIN c : c[i].op \in Jumps =>
        \E j \in DOMAIN c : c[j].op = "label" /\ c[j].src1.i = c[i].dst.i

LabelsOnce(c) ==
    \A i, j \in DOMAIN c :
        c[i].op = "label" /\ c[j].op = "label" /\ c[i].src1.i = c[j].src1.i => i = j

WellFormed(c) ==
    /\ c \in Seq(Quads) /\ c # <<>>
    /\ c[1].op = "enter" /\ c[Len(c)].op = "ret"
    /\ \A i \in DOMAIN c : QuadOK(c[i])
    /\ JumpsHaveLabels(c) /\ LabelsOnce(c)

OneSymbolPerName(syms) ==
    /\ \A s, t \in syms : s.id = t.id => s = t
    /\ \A s \in syms : s.scope # "none"
    /\ \A s \in syms : s.scope = "local" => s.id # 0 /\ s.type # "none"
=============================================================================
