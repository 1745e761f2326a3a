---------------------------- MODULE CmmOptimizer ----------------------------
(***************************************************************************)
(* The passes of the C-- compiler over the three-address code of one       *)
(* function, gen_code in src/Compiler-C--/codegen.c: code generation, the  *)
(* loop of peephole optimisation, copy propagation and dead code           *)
(* elimination, register allocation, the layout of the frame; then a run   *)
(* of the function.  The code is a sequence of quads; the numbering of the *)
(* local symbols in the bit vectors (the order of the hash table in the    *)
(* code) is the order of their ids.                                        *)
(*                                                                         *)
(* A loop of the compiler is an action per turn: per quad that a pass      *)
(* changes (curr), per sweep of the live sets, per symbol that gets a      *)
(* register or a place in the frame (todo).                                *)
(***************************************************************************)
EXTENDS CmmQuads, FiniteSetsExt

CONSTANTS
    Programs,       \* the function bodies to compile
    Generated,      \* function body -> its quads, as the generator makes them
    FlagSets,       \* records of the flags: oLocalFlag, oGlobalFlag, oRegallocFlag
    NUM_REGS,       \* the number of registers $s0, $s1, ...
    NumElts         \* symbol id -> elements of a local array

VARIABLES
    body,           \* the function being compiled
    flags,          \* the command line flags
    phase,          \* the pass that runs next
    code,           \* its quads
    quadNum,        \* quads that were not NOPs at the start of the round
    locals,         \* its local symbols and temporaries
    curr,           \* the quad the running pass has come to
    allocating,     \* is reg_alloc running?
    in,             \* leader of a block -> symbols live there
    isInAndOutChanged, \* did the last sweep over the blocks change it?
    edges,          \* the interference graph
    todo,           \* ids still to be coloured or given a place
    regName,        \* symbol id -> register number or -1
    curr_offset,    \* bytes of the frame in use
    offset,         \* symbol id -> offset from $fp; 0 -> the size of the frame
    pc,             \* the running function's next quad
    owner           \* register -> the variable last stored in it, or Nobody

compiled == << body, flags, code, quadNum, locals >>
graph == << allocating, in, isInAndOutChanged, edges, regName >>
frame == << curr_offset, offset >>
run == << pc, owner >>
vars == << compiled, phase, curr, graph, todo, frame, run >>

Nobody == 0

(***************************************************************************)
(* Peephole optimisation.                                                  *)
(***************************************************************************)
IsInt(o, i) == o.k = "int" /\ o.i = i

Negation == [x \in Ifs |-> CASE x = "==" -> "!="  [] x = "!=" -> "=="
                             [] x = "<=" -> ">"   [] x = ">" -> "<="
                             [] x = "<" -> ">="   [] x = ">=" -> "<"]

AsMove(q, src) == [q EXCEPT !.op = "move", !.src1 = src, !.src2 = Null]

Simplify(q) ==
    CASE q.op = "+" /\ IsInt(q.src1, 0) -> AsMove(q, q.src2)
      [] q.op \in {"+", "-"} /\ IsInt(q.src2, 0)
           /\ ~ IsInt(q.src1, 0) -> AsMove(q, q.src1)
      [] q.op = "-" /\ IsInt(q.src1, 0) ->
           [q EXCEPT !.op = "neg", !.src1 = q.src2, !.src2 = Null]
      [] q.op = "*" /\ IsInt(q.src1, 1) -> AsMove(q, q.src2)
      [] q.op = "*" /\ ~ IsInt(q.src1, 1)
           /\ (IsInt(q.src2, 1) \/ IsInt(q.src1, 0)) -> AsMove(q, q.src1)
      [] q.op = "*" /\ IsInt(q.src2, 0)
           /\ ~ (IsInt(q.src1, 1) \/ IsInt(q.src1, 0)) -> AsMove(q, q.src2)
      [] q.op = "/" /\ (IsInt(q.src1, 0) \/ IsInt(q.src2, 1)) -> AsMove(q, q.src1)
      [] OTHER -> q

(* if x goto L; goto M; L:  becomes  if not x goto M; L:                   *)
JumpsOverGoto(c, i) ==
    /\ c[i].op \in Ifs
    /\ i + 2 <= Len(c)
    /\ c[i + 1].op = "goto" /\ c[i + 2].op = "label"
    /\ c[i].dst.i = c[i + 2].src1.i

WithoutGoto(c, i) ==
    [j \in 1..(Len(c) - 1) |->
        IF j = i THEN [c[i] EXCEPT !.op = Negation[@], !.dst = c[i + 1].dst]
        ELSE IF j < i THEN c[j] ELSE c[j + 1]]

peephole_optimize(c, i) ==
    IF JumpsOverGoto(c, i) THEN WithoutGoto(c, i) ELSE [c EXCEPT ![i] = Simplify(@)]

(***************************************************************************)
(* Copy propagation: from each MOVE forward to the next label.             *)
(***************************************************************************)
operands_compare(a, b) == a.k = "sym" /\ b.k = "sym" /\ a.s.id = b.s.id

(* Mutant: a negation is not seen to write its destination.                *)
DefinesButNeg(q) == q.op \in Ariths \cup {"move"}
Defines(q) == q.op \in Ariths \cup {"move", "neg"}

Replaced(q, lhs, rhs) ==
    LET Src(o) == IF operands_compare(lhs, o) THEN rhs ELSE o
    IN  [q EXCEPT !.src1 = Src(@), !.src2 = Src(@)]

Stops(q, lhs, rhs) ==
    \/ q.op = "label"
    \/ lhs.s.scope = "global" /\ q.op = "call"
    \/ Defines(q) /\ (operands_compare(lhs, q.dst) \/ operands_compare(rhs, q.dst))

Skipped(q, lhs) == Defines(q) /\ lhs.s.type = "int" /\ q.dst.s.type = "char"

(* From the MOVE at i.                                                     *)
copy_propagate(c, i) ==
    LET lhs == c[i].dst
        rhs == c[i].src1
        stop == Min({j \in i + 1..Len(c) : Stops(c[j], lhs, rhs)} \cup {Len(c) + 1})
    IN  [j \in DOMAIN c |-> IF j \in i + 1..stop - 1 /\ ~ Skipped(c[j], lhs)
                            THEN Replaced(c[j], lhs, rhs) ELSE c[j]]

(* An int moved to a char is cut: it is not the same value.                *)
Narrows(q) == q.dst.s.type = "char" /\ q.src1.s.type = "int"

(***************************************************************************)
(* Live analysis.  A block reaches from a leader to the next one; it is    *)
(* named by its leader.                                                    *)
(***************************************************************************)
MarkLeaders(c) ==
    LET targets == {LabelAt(c, c[i].dst.i) : i \in {j \in DOMAIN c : c[j].op \in Jumps}}
        after == {i \in DOMAIN c : i > 1 /\ c[i - 1].op \in Jumps}
    IN  [i \in DOMAIN c |-> [c[i] EXCEPT !.isLeader = @ \/ i \in targets \cup after
                                                        \/ c[i].op = "enter"]]

Leaders(c) == {i \in DOMAIN c : c[i].isLeader}
EndsBlock(c, i) == i = Len(c) \/ c[i + 1].isLeader
LastOf(c, b) == Min({j \in b..Len(c) : EndsBlock(c, j)})

(* The blocks that follow the one that ends at i.                          *)
Successors(c, i) ==
    IF i = Len(c) THEN {}
    ELSE (IF c[i].op \in Jumps THEN {LabelAt(c, c[i].dst.i)} ELSE {})
         \cup (IF c[i].op = "goto" THEN {} ELSE {i + 1})

Out(c, live, i) == UNION {live[b] : b \in Successors(c, i)}

LocalOf(o) == {s \in SymbolIn(o) : s.scope = "local"}
Ids(syms) == {s.id : s \in syms}

(* The local symbols an instruction writes (or stores through) and reads.  *)
DstOf(q) == IF Defines(q) THEN LocalOf(q.dst) ELSE {}
SrcOf(q) == (IF Defines(q) \/ q.op \in Ifs \cup {"param", "ret"} THEN LocalOf(q.src1) ELSE {})
            \cup (IF q.op \in Ariths \cup Ifs THEN LocalOf(q.src2) ELSE {})

(* What the instructions of a block from i on define and use.              *)
calculateDefAndUse(c) ==
    LET r[i \in DOMAIN c] ==
            LET rest == IF EndsBlock(c, i) THEN [def |-> {}, use |-> {}] ELSE r[i + 1]
                d == Ids(DstOf(c[i]))
                u == Ids(SrcOf(c[i]))
            IN  [def |-> (rest.def \cup d) \ u, use |-> (rest.use \ d) \cup u]
    IN  r

(* calculateInAndOut on every block.  (The code goes through the blocks    *)
(* with the sets changed so far: the last sweep changes nothing, and both  *)
(* orders reach the same smallest sets.)                                   *)
calculateInAndOut(c, live) ==
    [b \in DOMAIN live |->
        LET r == calculateDefAndUse(c)[b] IN r.use \cup (Out(c, live, LastOf(c, b)) \ r.def)]

(* Backwards over each block: the assignments of which the result is not   *)
(* live made NOPs.  (The outer loop of live_analysis repeats this with the *)
(* same live sets and finds nothing new.)                                  *)
Through(q) == Defines(q) /\ q.dst.k = "deref"
IsDead(q, live) == /\ ~ Through(q) /\ DstOf(q) # {}
                   /\ Ids(DstOf(q)) \cap live = {}

LiveBefore(q, live) ==
    IF IsDead(q, live) THEN live
    ELSE (IF Through(q) THEN live \cup Ids(DstOf(q)) ELSE live \ Ids(DstOf(q))) \cup Ids(SrcOf(q))

LiveAfter(c, live) ==
    LET r[i \in DOMAIN c] ==
            IF EndsBlock(c, i) THEN Out(c, live, i) ELSE LiveBefore(c[i + 1], r[i + 1])
    IN  r

deadCodeEliminate(c, live) ==
    LET after == LiveAfter(c, live)
    IN  [i \in DOMAIN c |-> IF IsDead(c[i], after[i]) THEN [c[i] EXCEPT !.op = "nop"] ELSE c[i]]

(***************************************************************************)
(* Register allocation: the interference graph, then colouring in the      *)
(* order of the ids.  Index 0 is never given a register: searchByIndex(0)  *)
(* finds a global symbol first.  spillNode is never reached.               *)
(***************************************************************************)
Scalars(syms) == Ids({s \in syms : s.type \in {"int", "char"}})

(* What is live after each instruction, and the edges from what it writes. *)
liveNow(c, live) ==
    LET r[i \in DOMAIN c] ==
            IF EndsBlock(c, i) THEN Out(c, live, i)
            ELSE (r[i + 1] \ Scalars(DstOf(c[i + 1]))) \cup Scalars(SrcOf(c[i + 1]))
    IN  r

registerAllocateInBlock(c, now, i) ==
    LET d == Scalars(DstOf(c[i])) IN {{x, y} : x \in d, y \in now[i] \ d}

(* Mutant: the graph of each block without what is live after it.          *)
InterferenceInBlocks(c, live) ==
    UNION {registerAllocateInBlock(c, liveNow(c, [b \in DOMAIN live |-> {}]), i) : i \in DOMAIN c}
Interference(c, live) ==
    LET now == liveNow(c, live) IN UNION {registerAllocateInBlock(c, now, i) : i \in DOMAIN c}

MayHaveRegister(s) == /\ s.type = "int" /\ ~ IsFormal(s) /\ ~ s.isReturn
                      /\ s.id # Min(Ids(locals))

(* Mutant: i <= NUM_REGS in the loop over the registers.                   *)
FreeOneMore(x) ==
    {r \in 0..NUM_REGS : \A y \in DOMAIN regName : {x, y} \in edges => regName[y] # r}
Free(x) ==
    {r \in 0..NUM_REGS - 1 : \A y \in DOMAIN regName : {x, y} \in edges => regName[y] # r}

(***************************************************************************)
(* The frame: the symbols in turn, each at an offset from $fp that suits   *)
(* its width.                                                              *)
(***************************************************************************)
memory_alignment(s) == CASE s.type = "char" -> 1
                         [] s.type \in {"int", "addr"} -> 4
                         [] s.type = "array" -> Width(s.elt)
space_needed(s) == IF s.type = "array" THEN NumElts[s.id] * Width(s.elt) ELSE memory_alignment(s)
RoundUp(n, k) == k * ((n + k - 1) \div k)

SymbolOf(x) == CHOOSE s \in locals : s.id = x

(***************************************************************************)
(* gen_code: the passes.                                                   *)
(***************************************************************************)
SymbolsOf(c) == {s \in AllSymbols(c) : s.scope = "local"}
Size(c) == Cardinality({i \in DOMAIN c : c[i].op # "nop"})

(* An address is stored through right after it was computed: no jump and   *)
(* no label is between the two quads.                                      *)
Control == Jumps \cup {"enter", "ret", "label"}
Straight(c, i, j) == /\ \A k \in i..j : c[k].op \notin Control
                     /\ \A k \in i + 1..j : ~ c[k].isLeader
AddressesComputed(c) ==
    \A j \in DOMAIN c : Through(c[j]) =>
        \E i \in 1..j - 1 : /\ Defines(c[i]) /\ c[i].dst.k = "sym" /\ c[i].dst.s = c[j].dst.s
                            /\ Straight(c, i, j)

(* What the generator makes is well formed and names its symbols.          *)
ASSUME OptimizerAssumption ==
    /\ NUM_REGS \in Nat
    /\ \A b \in Programs :
          /\ WellFormed(Generated[b]) /\ AddressesComputed(Generated[b])
          /\ OneSymbolPerName(AllSymbols(Generated[b]))
          /\ \A s \in SymbolsOf(Generated[b]) :
                s.type = "array" /\ ~ IsFormal(s) => NumElts[s.id] \in Nat

Phases == {"generate", "round", "peephole", "copy", "live", "inout", "swept", "dead", "test",
           "graph", "color", "emit", "layout", "done", "run"}

Init == /\ body \in Programs
        /\ flags \in FlagSets
        /\ phase = "generate"
        /\ code = <<>> /\ quadNum = 0 /\ locals = {} /\ curr = 1
        /\ allocating = FALSE /\ in = [b \in {} |-> {}] /\ isInAndOutChanged = FALSE
        /\ edges = {} /\ todo = {}
        /\ regName = [x \in {} |-> -1]
        /\ curr_offset = 0 /\ offset = [x \in {0} |-> 0]
        /\ pc = 0 /\ owner = [r \in {} |-> Nobody]

Generate ==
    /\ phase = "generate"
    /\ code' = Generated[body]
    /\ locals' = SymbolsOf(code')
    /\ regName' = [x \in Ids(locals') |-> -1]
    /\ phase' = "round"
    /\ UNCHANGED << body, flags, quadNum, curr, allocating, in, isInAndOutChanged, edges, todo,
                    frame, run >>

(* The head of the do-while loop.                                          *)
Round ==
    /\ phase = "round"
    /\ quadNum' = Size(code)
    /\ curr' = 1
    /\ phase' = CASE flags.oLocalFlag -> "peephole"
                  [] ~flags.oLocalFlag /\ flags.oGlobalFlag -> "live"
                  [] OTHER -> "test"
    /\ UNCHANGED << body, flags, code, locals, graph, todo, frame, run >>

(* The next quad that the peephole changes, or the end of the list.        *)
Peephole ==
    LET found == {i \in curr..Len(code) : JumpsOverGoto(code, i) \/ Simplify(code[i]) # code[i]}
        i == Min(found)
    IN  /\ phase = "peephole"
        /\ \/ /\ found # {}
              /\ code' = peephole_optimize(code, i)
              /\ curr' = i + 1
              /\ UNCHANGED phase
           \/ /\ found = {}
              /\ curr' = 1
              /\ phase' = "copy"
              /\ UNCHANGED code
        /\ UNCHANGED << body, flags, quadNum, locals, graph, todo, frame, run >>

(* The next MOVE, or the end of the list.                                  *)
CopyPropagate ==
    LET found == {i \in curr..Len(code) : code[i].op = "move" /\ ~ Narrows(code[i])}
        i == Min(found)
    IN  /\ phase = "copy"
        /\ \/ /\ found # {}
              /\ code' = copy_propagate(code, i)
              /\ curr' = i + 1
              /\ UNCHANGED phase
           \/ /\ found = {}
              /\ phase' = IF flags.oGlobalFlag THEN "live" ELSE "test"
              /\ UNCHANGED << code, curr >>
        /\ UNCHANGED << body, flags, quadNum, locals, graph, todo, frame, run >>

(* live_analysis: blocks, with in = use; nothing else without locals.      *)
LiveAnalysis ==
    LET r == calculateDefAndUse(code')
    IN  /\ phase = "live"
        /\ code' = MarkLeaders(code)
        /\ in' = [b \in Leaders(code') |-> r[b].use]
        /\ phase' = IF locals # {} THEN "inout" ELSE IF allocating THEN "emit" ELSE "test"
        /\ UNCHANGED << body, flags, quadNum, locals, curr, allocating, isInAndOutChanged, edges, todo,
                        regName, frame, run >>

(* A sweep over the blocks, until one changes nothing.                     *)
InAndOut ==
    /\ phase = "inout"
    /\ in' = calculateInAndOut(code, in)
    /\ isInAndOutChanged' = (in' # in)
    /\ phase' = "swept"
    /\ UNCHANGED << compiled, curr, allocating, edges, todo, regName, frame, run >>

(* while (isInAndOutChanged)                                               *)
SweepTest ==
    /\ phase = "swept"
    /\ phase' = IF isInAndOutChanged THEN "inout" ELSE "dead"
    /\ UNCHANGED << compiled, curr, graph, todo, frame, run >>

DeadCode ==
    /\ phase = "dead"
    /\ code' = deadCodeEliminate(code, in)
    /\ phase' = IF allocating THEN "graph" ELSE "test"
    /\ UNCHANGED << body, flags, quadNum, locals, curr, graph, todo, frame, run >>

(* Mutant: while (newQuadNum <= quadNum).                                  *)
RoundTestUnlessGrown ==
    /\ phase = "test"
    /\ phase' = IF Size(code) <= quadNum THEN "round" ELSE "emit"
    /\ UNCHANGED << compiled, curr, graph, todo, frame, run >>
(* while (newQuadNum < quadNum); reg_alloc starts with live_analysis.      *)
RoundTest ==
    /\ phase = "test"
    /\ phase' = CASE Size(code) < quadNum -> "round"
                  [] ~(Size(code) < quadNum) /\ flags.oRegallocFlag -> "live"
                  [] OTHER -> "emit"
    /\ allocating' = (phase' = "live")
    /\ UNCHANGED << compiled, curr, in, isInAndOutChanged, edges, todo, regName, frame, run >>

RegAlloc ==
    /\ phase = "graph"
    /\ edges' = Interference(code, in)
    /\ todo' = Ids({s \in locals : MayHaveRegister(s)})
    /\ phase' = "color"
    /\ UNCHANGED << compiled, curr, allocating, in, isInAndOutChanged, regName, frame, run >>

Color ==
    /\ phase = "color"
    /\ \/ /\ todo # {}
          /\ LET x == Min(todo)
             IN  /\ regName' = IF Free(x) = {} THEN regName
                               ELSE [regName EXCEPT ![x] = Min(Free(x))]
                 /\ todo' = todo \ {x}
          /\ UNCHANGED phase
       \/ /\ todo = {}
          /\ phase' = "emit"
          /\ UNCHANGED << todo, regName >>
    /\ UNCHANGED << compiled, curr, allocating, in, isInAndOutChanged, edges, frame, run >>

(* print_code lays the frame out and emits the instructions.               *)
Emit ==
    /\ phase = "emit"
    /\ offset' = [x \in Ids(locals) \cup {0} |-> 0]
    /\ todo' = Ids(locals)
    /\ phase' = "layout"
    /\ UNCHANGED << compiled, curr, graph, curr_offset, run >>

(* allocate_storage: the arguments lie above $fp, the others below it.     *)
allocate_storage ==
    /\ phase = "layout"
    /\ \/ /\ todo # {}
          /\ LET x == Min(todo)
                 s == SymbolOf(x)
                 end == RoundUp(curr_offset, memory_alignment(s)) + space_needed(s)
             IN  /\ offset' = [offset EXCEPT ![x] =
                               IF IsFormal(s) THEN 8 + 4 * (s.argpos - 1) ELSE -end]
                 /\ curr_offset' = IF IsFormal(s) THEN curr_offset ELSE end
                 /\ todo' = todo \ {x}
          /\ UNCHANGED phase
       \/ /\ todo = {}
          /\ offset' = [offset EXCEPT ![0] = RoundUp(curr_offset, 4)]
          /\ phase' = "done"
          /\ UNCHANGED << curr_offset, todo >>
    /\ UNCHANGED << compiled, curr, graph, run >>

Compile == Generate \/ Round \/ Peephole \/ CopyPropagate \/ LiveAnalysis \/ InAndOut \/ SweepTest
           \/ DeadCode \/ RoundTest \/ RegAlloc \/ Color \/ Emit \/ allocate_storage

(***************************************************************************)
(* A run of the function: which way it goes at a branch is open, and the   *)
(* registers remember whose value they hold.                               *)
(***************************************************************************)
Follow(c, i) ==
    CASE c[i].op = "goto" -> {LabelAt(c, c[i].dst.i)}
      [] c[i].op \in Ifs -> {i + 1, LabelAt(c, c[i].dst.i)}
      [] c[i].op = "ret" -> {}
      [] OTHER -> {i + 1}

(* The locals that the instructions of a quad load and store.              *)
Loaded(q) ==
    CASE q.op \in Ariths \cup Ifs -> LocalOf(q.src1) \cup LocalOf(q.src2)
      [] q.op \in {"move", "neg", "param", "ret"} -> LocalOf(q.src1)
      [] OTHER -> {}
Stored(q) ==
    CASE q.op \in Ariths \cup {"move", "neg"} /\ q.dst.k = "sym" -> LocalOf(q.dst)
      [] q.op = "retrieve" -> LocalOf(q.src1)
      [] OTHER -> {}

Enter ==
    /\ phase = "done"
    /\ pc' = 1
    /\ owner' = [r \in 0..NUM_REGS - 1 |-> Nobody]
    /\ phase' = "run"
    /\ UNCHANGED << compiled, curr, graph, todo, frame >>

Execute ==
    LET written == Ids(Stored(code[pc]))
        In(r) == {v \in written : regName[v] = r}
    IN  /\ phase = "run"
        /\ pc' \in Follow(code, pc)
        /\ owner' = [r \in DOMAIN owner |->
                        IF In(r) = {} THEN owner[r] ELSE CHOOSE v \in In(r) : TRUE]
        /\ UNCHANGED << compiled, phase, curr, graph, todo, frame >>

Next == Compile \/ Enter \/ Execute

Spec == Init /\ [][Next]_vars

(* The compiler runs: while there is something left to compile, it goes    *)
(* on, and each step takes it to another pass, quad or symbol.             *)
turn == << phase, curr, todo >>
RunsAPass == /\ phase \notin {"done", "run"}
             /\ phase' \in Phases
             /\ curr' \in 1..Len(code) + 1
             /\ todo' \in SUBSET Ids(locals)
FairSpec == Spec /\ WF_turn(RunsAPass)

(***************************************************************************)
(* Properties.  MeaningKept, which runs the code, is in MCCmmOptimizer.    *)
(***************************************************************************)
(* The compilation state has its type: every symbol in the code is local   *)
(* or global, has one id, and its register is one of the machine's; the    *)
(* run stays inside the code.                                              *)
TypeOK ==
    /\ phase \in Phases
    /\ SymbolsOf(code) \subseteq locals
    /\ \A s, t \in locals : s.id = t.id => s = t
    /\ curr \in Nat \ {0}
    /\ todo \subseteq Ids(locals)
    /\ regName \in [Ids(locals) -> -1..NUM_REGS - 1]
    /\ curr_offset \in Nat
    /\ phase = "run" => /\ pc \in DOMAIN code
                        /\ owner \in [0..NUM_REGS - 1 -> Ids(locals) \cup {Nobody}]

(* An instruction that reads a variable from its register finds what was   *)
(* last stored there for that variable: no other one was put in the same   *)
(* register meanwhile, on any path (reg_alloc, codegen.c:2203).            *)
RegistersKept ==
    phase = "run" =>
        \A v \in Ids(Loaded(code[pc])) : regName[v] # -1 => owner[regName[v]] \in {v, Nobody}

(* The bytes of two locals never overlap, every word starts at a multiple  *)
(* of 4 and the frame that gen_mips_enter reserves holds them all          *)
(* (allocate_storage, symbol-table.c:338).                                 *)
FrameSlotsDisjoint ==
    phase = "done" =>
        LET BytesOf(s) == IF s.type = "array" THEN NumElts[s.id] * Width(s.elt)
                        ELSE IF s.type = "char" THEN 1 ELSE 4
            Bytes(s) == offset[s.id]..(offset[s.id] + BytesOf(s) - 1)
            stored == {s \in locals : ~ IsFormal(s)}
        IN  \A s \in stored :
                /\ Bytes(s) \subseteq -offset[0]..-1
                /\ Width(s.elt) = 4 /\ s.type # "char" => offset[s.id] % 4 = 0
                /\ \A r \in stored \ {s} : Bytes(s) \cap Bytes(r) = {}

(* No variable is overwritten by another one, in its register or in its    *)
(* frame slot (codegen.c:2203, symbol-table.c:338).                        *)
HomesDisjoint == RegistersKept /\ FrameSlotsDisjoint

(* The rounds of the optimiser end: every function is compiled (the test   *)
(* of the do-while loop, codegen.c:1686).                                  *)
Compiled == <>(phase = "done")
=============================================================================
