----------------------------- MODULE CmmMachine -----------------------------
(***************************************************************************)
(* What the MIPS code emitted for a list of quads does (the gen_mips_      *)
(* functions of src/Compiler-C--/codegen.c), one quad after the other.     *)
(***************************************************************************)
EXTENDS CmmQuads

CONSTANTS
    CharBits,       \* the width of a char: 8 in the code
    ArrayBase       \* symbol id -> address of the first byte of an array

(***************************************************************************)
(* A machine has the memory cells of the symbols (cell), the arrays (mem,  *)
(* by address), the registers $s0.. (reg), the stack of the arguments, the *)
(* value of the last call (rv), the next quad (pc, 0 after the return) and *)
(* the value returned (ret); calls are the arguments of the calls it made, *)
(* to observe it.  regName maps a symbol id to its register, or to -1.     *)
(***************************************************************************)
(* sb then lb: the low bits, sign extended.                                *)
Narrow(type, i) ==
    LET w == 2 ^ CharBits  low == i % w
    IN  IF type # "char" THEN i ELSE IF 2 * low >= w THEN low - w ELSE low

InRegister(regName, s) == s.scope = "local" /\ regName[s.id] # -1

gen_mips_load(m, regName, o) ==
    LET s == o.s
        scalar == IF InRegister(regName, s) THEN m.reg[regName[s.id]] ELSE m.cell[s.id]
    IN  CASE o.k = "int" -> o.i
          [] o.k = "sym" -> scalar
          [] o.k = "addr" -> IF IsFormal(s) THEN m.cell[s.id] ELSE ArrayBase[s.id]
          [] o.k = "deref" -> m.mem[scalar]

gen_mips_store(m, regName, o, i) ==
    LET s == o.s
        address == IF InRegister(regName, s) THEN m.reg[regName[s.id]] ELSE m.cell[s.id]
    IN  CASE o.k = "sym" /\ InRegister(regName, s) -> [m EXCEPT !.reg[regName[s.id]] = i]
          [] o.k = "sym" /\ ~InRegister(regName, s) ->
               [m EXCEPT !.cell[s.id] = Narrow(s.type, i)]
          [] o.k = "deref" -> [m EXCEPT !.mem[address] = Narrow(s.elt, i)]

Holds(op, a, b) == CASE op = "==" -> a = b
                     [] op = "!=" -> a # b
                     [] op = "<=" -> a <= b
                     [] op = "<" -> a < b
                     [] op = ">=" -> a >= b
                     [] op = ">" -> a > b

(* mul, div and so on; div truncates towards zero.                         *)
gen_mips_arith(op, a, b) ==
    CASE op = "+" -> a + b
      [] op = "-" -> a - b
      [] op = "*" -> a * b
      [] op = "/" -> IF (a >= 0) = (b > 0) THEN (IF b > 0 THEN a \div b ELSE (-a) \div (-b))
                     ELSE -(IF b > 0 THEN (-a) \div b ELSE a \div (-b))

(* A callee, outside of the model: it adds one to the global Counter,      *)
(* records its arguments and returns the first minus the others plus the   *)
(* counter.                                                                *)
Counter == -1
Called(m, args) ==
    LET g == m.cell[Counter] + 1
    IN  [m EXCEPT !.cell[Counter] = g, !.calls = Append(m.calls, args),
                  !.rv = g + IF args = <<>> THEN 0
                             ELSE IF Len(args) = 1 THEN args[1] ELSE args[1] - args[2]]

(* One instruction; jal finds its arguments on the stack, the first one on *)
(* top, and the space is released after it.                                *)
StepCode(code, regName, m) ==
    LET q == code[m.pc]
        a == gen_mips_load(m, regName, q.src1)
        b == gen_mips_load(m, regName, q.src2)
        next == [m EXCEPT !.pc = m.pc + 1]
        Jump(l) == [m EXCEPT !.pc = LabelAt(code, l)]
    IN  CASE q.op \in {"nop", "label", "enter", "leave"} -> next
          [] q.op = "move" -> gen_mips_store(next, regName, q.dst, a)
          [] q.op = "neg" -> gen_mips_store(next, regName, q.dst, -a)
          [] q.op \in Ariths -> gen_mips_store(next, regName, q.dst, gen_mips_arith(q.op, a, b))
          [] q.op = "goto" -> Jump(q.dst.i)
          [] q.op \in Ifs -> IF Holds(q.op, a, b) THEN Jump(q.dst.i) ELSE next
          [] q.op = "param" -> [next EXCEPT !.stack = << a >> \o m.stack]
          [] q.op = "call" ->
               [Called(next, SubSeq(m.stack, 1, q.src1.i))
                  EXCEPT !.stack = SubSeq(m.stack, q.src1.i + 1, Len(m.stack))]
          [] q.op = "retrieve" -> gen_mips_store(next, regName, q.src1, m.rv)
          [] q.op = "ret" -> [m EXCEPT !.pc = 0, !.ret = IF q.src1.k = "null" THEN <<>> ELSE << a >>]
=============================================================================
