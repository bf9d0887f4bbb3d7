------------------------------- MODULE Inlining -------------------------------
(***************************************************************************)
(* Inlining::Run (passes/inlining.cpp): the blocks of a callee are put     *)
(* between the two halves of the block that calls it, and its values take  *)
(* the place of its parameters, its constants and the result of the call.  *)
(* One action per phase of DoInlineMethod, or per turn of its loops.       *)
(*                                                                         *)
(* Successors are sets (no parallel edges).  The ids that an erasure by id *)
(* assigns on its way are left out: BlockGraph shows that they are fresh.  *)
(***************************************************************************)
EXTENDS DefUse, Reachability, SequencesExt

\* Blocks are the BasicBlock objects of all graphs, and those SplitOn allocates.
CONSTANTS
  Main,      \* the Graph calls are inlined in
  Programs,  \* what to run on, see WellFormed
  Limit,     \* insns_limit_
  Gone,      \* bb_ of instructions that SplitOn moved: a destroyed temporary
  Unset,      \* id_ without a value
  NoInstr    \* nullptr

VARIABLES
  prog,   \* history: the program as it was given to the pass
  means,  \* history: what is to stand for each of its instructions
  code,   \* instructions: the list from first_instr_, last_instr_; bb_
  flow,   \* blocks: successors, predecessors, graph_ and id_
  store,  \* op_, inputs_ and users_ of the instructions
  todo,   \* call_insns still to inline
  at,     \* the step reached, the halves of the split block, inl_ret_count
  work    \* what the loop of this step has still to do

given == <<prog, means>>
inlineVars == <<given, code, flow, store, todo, at, work>>

call == Head(todo)
callee == prog.callee[call]
root == prog.root[callee]
end == prog.end[callee]
Has(i, o) == store.op[i] = o

Goto(step) == at' = [at EXCEPT !.step = step] /\ UNCHANGED given
Fault == Goto("fault") /\ UNCHANGED <<code, flow, store, todo, work>>

ReachIn(g, b) == LET r[n \in 0 .. Cardinality(Blocks)] ==
                       IF n = 0 THEN {b} ELSE UNION {g[x] \cup {x} : x \in r[n - 1]}
                 IN  r[Cardinality(Blocks)]

-----------------------------------------------------------------------------
\* The instructions of s with opcode o.
Only(s, op, o) == FlattenSeq([k \in DOMAIN s |-> IF op[s[k]] = o THEN <<s[k]>> ELSE << >>])

Calls == LET instrs == FlattenSeq([k \in DOMAIN prog.rpo |-> code.list[prog.rpo[k]]])
         IN  IF Len(instrs) > Limit THEN << >> ELSE Only(instrs, store.op, "CALL")

\* IsGraphSuitableForInl.
Start ==
  /\ at.step = "start"
  /\ todo' = Calls
  /\ Goto("next")
  /\ UNCHANGED <<code, flow, store, work>>

Finish ==
  /\ at.step = "next" /\ todo = << >>
  /\ Goto("done")
  /\ UNCHANGED <<code, flow, store, todo, work>>

\* Mutant of MoveSuccs: the successors keep their predecessor.
MoveSuccsHalf(f, b, second) ==
  [f EXCEPT !.succs = [@ EXCEPT ![b] = {}, ![second] = f.succs[b]]]

MoveSuccs(f, b, second) ==
  [f EXCEPT !.succs = [@ EXCEPT ![b] = {}, ![second] = f.succs[b]],
            !.preds = [x \in Blocks |-> IF x \in f.succs[b] THEN (@[x] \ {b}) \cup {second}
                                                            ELSE @[x]]]

Position(b, i) == CHOOSE k \in DOMAIN code.list[b] : code.list[b][k] = i

\* The first input of a call is the label of its callee; a label without a Graph
\* counts as none, the assertions on the two being next to each other.
CalleeKnown == store.ins[call] # << >> /\ Head(store.ins[call]) = Label

\* SplitOn reads through bb_ of the call and through its next_.
SplitOn ==
  /\ at.step = "next" /\ todo # << >>
  /\ LET cur == code.home[call]
         second == prog.spare[call]
         k == Position(cur, call)
         rest == SubSeq(code.list[cur], k + 1, Len(code.list[cur]))
     IN  IF ~ CalleeKnown \/ cur = Gone \/ code.last[cur] = call
           THEN Fault
           ELSE /\ code' = [list |-> [code.list EXCEPT ![cur] = SubSeq(@, 1, k), ![second] = rest],
                            last |-> [code.last EXCEPT ![cur] = call, ![second] = code.last[cur]],
                            home |-> [i \in Instrs |-> IF Slots(rest, i) # {} THEN Gone
                                                                             ELSE code.home[i]]]
                /\ flow' = [MoveSuccs(flow, cur, second) EXCEPT !.graph[second] = Main]
                /\ at' = [at EXCEPT !.step = "params", !.cur = cur, !.second = second]
                /\ work' = DOMAIN Tail(store.ins[call])
                /\ UNCHANGED <<given, store, todo>>

\* Mutant of Params: the constants of the root count as parameters.
ParamsAll == code.list[root]

Params == Only(code.list[root], store.op, "PARAMETER")
Args == Tail(store.ins[call])

\* Mutant of PassArg: the argument does not learn of the parameter's users.
PassArgQuietly(a, p) == RemoveUser(ReplaceInputForUsers(store, p, a), a, call)

PassArg(a, p) == RemoveUser(AddUsers(ReplaceInputForUsers(store, p, a), a, p), a, call)

ReplaceParam(k) ==
  /\ at.step = "params" /\ k \in work
  /\ IF Len(Args) # Len(Params) \/ Args[k] \notin Instrs \/ ReplaceInputFails(store, Params[k])
       THEN Fault
       ELSE /\ store' = PassArg(Args[k], Params[k])
            /\ work' = work \ {k}
            /\ UNCHANGED <<given, code, flow, todo, at>>

CountReturns ==
  /\ at.step = "params" /\ work = {}
  /\ LET ends == flow.preds[end]
     IN  IF Len(Args) # Len(Params) \/ \E b \in ends : code.last[b] = NoInstr
           THEN Fault
           ELSE /\ at' = [at EXCEPT !.step = "exits",
                            !.rets = Cardinality({b \in ends : Has(code.last[b], "RET")})]
                /\ work' = ends
                /\ UNCHANGED <<given, code, flow, store, todo>>

\* Mutant of RemoveLastInstr: the next_ of the new last instruction is kept.
RemoveLastInstrHalf(c, b) ==
  LET n == Len(c.list[b])
  IN  [c EXCEPT !.last[b] = IF @ = NoInstr \/ n = 1 THEN NoInstr ELSE c.list[b][n - 1]]

\* The only instruction of a block has no prev_: it stays its first_instr_.
RemoveLastInstr(c, b) ==
  LET n == Len(c.list[b])
  IN  IF c.last[b] = NoInstr THEN c
      ELSE IF n = 1 THEN [c EXCEPT !.last[b] = NoInstr]
      ELSE [c EXCEPT !.list[b] = SubSeq(@, 1, n - 1), !.last[b] = c.list[b][n - 1]]

InFront(c, b, i) == IF Head(c.list[b]) = i THEN c ELSE [c EXCEPT !.list[b] = <<i>> \o @]

\* More than one RET: the PHI in front of the second half takes over the inputs
\* of this one, in place of those it has.  It shares the InstrArg objects with
\* the RET, through which nothing reads them any more.
MergeReturn(b, e) ==
  LET phi == IF Has(Head(code.list[at.second]), "PHI") THEN Head(code.list[at.second])
                                                       ELSE prog.phi[call]
      m == ReplaceUserForInputs(store, e, phi)
  IN  /\ store' = [m EXCEPT !.op[phi] = "PHI", !.ins[phi] = m.ins[e]]
      /\ code' = RemoveLastInstr(InFront(code, at.second, phi), b)

\* e leaves the users of the value d it returns, once there is a user of the
\* call to take its place.
HandOver(e, d) ==
  IF store.users[call] = NoUsers THEN store
  ELSE [store EXCEPT !.users[d] = [u \in Instrs |-> store.users[call][u]
                                     + (IF u = e THEN Less(@[u], 1) ELSE @[u])]]

UseReturned(b, e) ==
  LET d == store.ins[e][1]
  IN  /\ store' = ReplaceInputForUsers(HandOver(e, d), call, d)
      /\ code' = RemoveLastInstr(code, b)

\* A RET has one input, the value it returns; a RET_VOID and a THROW have none.
ExitFails(e) ==
  \/ Has(e, "RET") /\ \/ Len(store.ins[e]) # 1
                      \/ store.ins[e][1] \notin Instrs
                      \/ at.rets = 1 /\ ReplaceInputFails(store, call)
  \/ (Has(e, "RET_VOID") \/ Has(e, "THROW")) /\ store.ins[e] # << >>

ReplaceExit(b) ==
  /\ at.step = "exits" /\ b \in work
  /\ LET e == code.last[b]
     IN  IF ExitFails(e)
           THEN Fault
           ELSE /\ CASE Has(e, "RET") /\ at.rets > 1 -> MergeReturn(b, e)
                     [] Has(e, "RET") /\ at.rets = 1 -> UseReturned(b, e)
                     [] OTHER -> code' = RemoveLastInstr(code, b) /\ UNCHANGED store
                /\ work' = work \ {b}
                /\ UNCHANGED <<given, flow, todo, at>>

StartConstants ==
  /\ at.step = "exits" /\ work = {}
  /\ Goto("constants")
  /\ work' = {i \in Instrs : Has(i, "CONSTANT") /\ Slots(code.list[root], i) # {}}
  /\ UNCHANGED <<code, flow, store, todo>>

\* Mutant of SameConstants: any constant will do.
SameConstantsAny(i) == {j \in Instrs : /\ Slots(code.list[prog.root[Main]], j) # {}
                                       /\ Has(j, "CONSTANT")}

SameConstants(i) == {j \in Instrs : /\ Slots(code.list[prog.root[Main]], j) # {}
                                    /\ Has(j, "CONSTANT") /\ prog.value[j] = prog.value[i]}

ConstantDone(i) == work' = work \ {i}

\* Without an equal constant in Main the past-the-end iterator is dereferenced,
\* since it is compared with the end of another vector.
MoveConstant(i) ==
  /\ at.step = "constants" /\ i \in work
  /\ IF SameConstants(i) = {} \/ ReplaceInputFails(store, i)
       THEN Fault
       ELSE /\ \E j \in SameConstants(i) : store' = ReplaceInputForUsers(store, i, j)
            /\ ConstantDone(i)
            /\ UNCHANGED <<given, code, flow, todo, at>>

\* The blocks that may be the last of the RPO: the walk leaves a block first
\* when all its successors are still being visited.
LastOfRpo == {b \in ReachIn(flow.succs, root) \ {root} :
                \A s \in flow.succs[b] : b \in ReachIn(flow.succs, s)}

\* Mutant of Adopted: the ids of the callee are kept.
AdoptedNumbered(f, bs) == [f EXCEPT !.graph = [b \in Blocks |-> IF b \in bs THEN Main ELSE @[b]]]

Adopted(f, bs) == [f EXCEPT !.graph = [b \in Blocks |-> IF b \in bs THEN Main ELSE @[b]],
                            !.id = [b \in Blocks |-> IF b \in bs THEN Unset ELSE @[b]]]

ChangeInlBlocksRelation ==
  /\ at.step = "constants" /\ work = {}
  /\ \E l \in LastOfRpo : flow' = Adopted(flow, ReachIn(flow.succs, root) \ {root, l})
  /\ Goto("connect")
  /\ UNCHANGED <<code, store, todo, work>>

Linked(f, a, b) == [f EXCEPT !.succs[a] = @ \cup {b}, !.preds[b] = @ \cup {a}]

\* The erasure of the root from the predecessors by id is undefined if it is
\* not one of them.
ConnectRoot ==
  /\ at.step = "connect"
  /\ IF \E b \in flow.succs[root] : flow.succs[root] # {b} \/ root \notin flow.preds[b]
       THEN Fault
       ELSE /\ \E b \in flow.succs[root] :
                 flow' = Linked([flow EXCEPT !.preds[b] = @ \ {root}], at.cur, b)
            /\ Goto("ends")
            /\ UNCHANGED <<code, store, todo, work>>

ConnectEnds ==
  /\ at.step = "ends"
  /\ LET ends == flow.preds[end]
     IN  IF \E b \in ends : flow.succs[b] # {end}
           THEN Fault
           ELSE /\ flow' = [flow EXCEPT
                     !.succs = [b \in Blocks |-> IF b \in ends THEN {at.second} ELSE @[b]],
                     !.preds[at.second] = @ \cup ends]
                /\ Goto("remove")
                /\ UNCHANGED <<code, store, todo, work>>

RemoveCall ==
  /\ at.step = "remove"
  /\ code' = RemoveLastInstr(code, at.cur)
  /\ todo' = Tail(todo)
  /\ Goto("next")
  /\ UNCHANGED <<flow, store, work>>

-----------------------------------------------------------------------------
ListedAt(l, i) == {b \in Blocks : Slots(l[b], i) # {}}

\* The blocks of graph g between root and end, and those in front of the end.
Body(p, g) == ReachIn(p.succs, p.root[g]) \ {p.root[g], p.end[g]}
AtEnd(p, g) == {b \in Blocks : p.end[g] \in p.succs[b]}

(***************************************************************************)
(* What clients build: edges stay in a graph, an instruction has one place *)
(* and a block of the caller one id, the caller is reachable and no PHI    *)
(* follows a call.  Control enters a callee at the root, leaves it at the  *)
(* end, and passes a block between the two.  The caller does not call      *)
(* itself: recursion is left out.                                          *)
(***************************************************************************)
Callee(p, g) ==
  /\ g \in DOMAIN p.root \ {Main}
  /\ p.root[g] \in Blocks /\ p.graph[p.root[g]] = g /\ \A b \in Blocks : p.root[g] \notin p.succs[b]
  /\ p.end[g] \in Blocks /\ p.graph[p.end[g]] = g /\ p.succs[p.end[g]] = {}
  /\ p.end[g] \in ReachIn(p.succs, p.root[g]) \ ({p.root[g]} \cup p.succs[p.root[g]])
  /\ \A b \in Body(p, g) : p.succs[b] # {}

\* What SplitOn and ReplaceExitDataFlowEdges will allocate.
NewBlock(p, b) == /\ b \in Blocks /\ p.list[b] = << >> /\ p.succs[b] = {}
                  /\ p.graph[b] \notin DOMAIN p.root /\ p.id[b] = Unset
                  /\ \A a \in Blocks : b \notin p.succs[a]
NewInstr(p, i) == i \in Instrs /\ ListedAt(p.list, i) = {}

CallsOf(p) == {i \in Instrs : p.op[i] = "CALL" /\ \E b \in ListedAt(p.list, i) : p.graph[b] = Main}

WellFormed(p) ==
  /\ p.list \in [Blocks -> Seq(Instrs)] /\ p.succs \in [Blocks -> SUBSET Blocks]
  /\ DOMAIN p.graph = Blocks /\ DOMAIN p.id = Blocks /\ DOMAIN p.op = Instrs
  /\ \A a \in Blocks : \A b \in p.succs[a] : p.graph[a] = p.graph[b]
  /\ \A a, b \in Blocks : \A j \in DOMAIN p.list[a], k \in DOMAIN p.list[b] :
       p.list[a][j] = p.list[b][k] => a = b /\ j = k
  /\ LET main == {b \in Blocks : p.graph[b] = Main}
     IN  /\ Main \in DOMAIN p.root /\ p.root[Main] \in main /\ ReachIn(p.succs, p.root[Main]) = main
         /\ p.rpo \in Seq(Blocks) /\ IsInjective(p.rpo) /\ Range(p.rpo) = main
         /\ \A a, b \in main : p.id[a] = p.id[b] => a = b \/ p.id[a] = Unset
         /\ \A b \in main : \A k \in 2 .. Len(p.list[b]) :
              p.op[p.list[b][k - 1]] = "CALL" => p.op[p.list[b][k]] # "PHI"
  /\ \A c \in CallsOf(p) :
       /\ Callee(p, p.callee[c]) /\ NewBlock(p, p.spare[c]) /\ NewInstr(p, p.phi[c])
       /\ \A d \in CallsOf(p) \ {c} : p.spare[c] # p.spare[d] /\ p.phi[c] # p.phi[d]

ASSUME ProgramsAssumption == IsFiniteSet(Blocks) /\ \A p \in Programs : WellFormed(p)
ASSUME NamesAssumption == Gone \notin Blocks /\ NoInstr \notin Instrs /\ Limit \in Nat

(***************************************************************************)
(* What the program given to the pass says about its calls.                *)
(***************************************************************************)
In(b) == {i \in Instrs : Slots(prog.list[b], i) # {}}
HomeOf(i) == CHOOSE b \in Blocks : i \in In(b)
InMain == UNION {In(b) : b \in {x \in Blocks : prog.graph[x] = Main}}
InlinedCalls == {i \in InMain : prog.op[i] = "CALL" /\ Cardinality(InMain) <= Limit}
Inner(c) == Body(prog, prog.callee[c])
ExitBlocks(c) == AtEnd(prog, prog.callee[c])
ExitOf(b) == IF prog.list[b] = << >> THEN NoInstr ELSE prog.list[b][Len(prog.list[b])]
Returns(c) == {ExitOf(b) : b \in {x \in ExitBlocks(c) : ExitOf(x) \in Instrs
                                                          /\ prog.op[ExitOf(x)] = "RET"}}
ParamsOf(c) == Only(prog.list[prog.root[prog.callee[c]]], prog.op, "PARAMETER")
ConstantsIn(b) == {i \in In(b) : prog.op[i] = "CONSTANT"}

\* What stands for an instruction of a callee, or for a call, after inlining.
StandsFor(i) ==
  LET args(c) == {x \in DOMAIN ParamsOf(c) : x < Len(prog.ins[c]) /\ ParamsOf(c)[x] = i}
      passed == UNION {{prog.ins[c][x + 1] : x \in args(c)} : c \in InlinedCalls}
      equal == {j \in ConstantsIn(prog.root[Main]) : prog.value[j] = prog.value[i]}
      returned == IF i \in InlinedCalls THEN UNION {Range(prog.ins[e]) : e \in Returns(i)} ELSE {}
  IN  IF passed # {} THEN CHOOSE a \in passed : TRUE
      ELSE IF \E c \in InlinedCalls : i \in ConstantsIn(prog.root[prog.callee[c]]) /\ equal # {}
        THEN CHOOSE j \in equal : TRUE
      ELSE IF returned # {} /\ Cardinality(Returns(i)) = 1 THEN CHOOSE d \in returned : TRUE
      ELSE i

\* A caller and its callees as clients build them: both copies of every edge
\* and of every use agree, and the ids are those the walks of the pass assign.
InlineInit ==
  /\ prog \in Programs
  /\ means = [i \in Instrs |-> StandsFor(i)]
  /\ code = [list |-> prog.list,
             last |-> [b \in Blocks |-> IF prog.list[b] = << >> THEN NoInstr
                                        ELSE prog.list[b][Len(prog.list[b])]],
             home |-> [i \in Instrs |-> IF ListedAt(prog.list, i) = {} THEN Gone
                                        ELSE CHOOSE b \in Blocks : b \in ListedAt(prog.list, i)]]
  /\ flow = [succs |-> prog.succs,
             preds |-> [b \in Blocks |-> {a \in Blocks : b \in prog.succs[a]}],
             graph |-> prog.graph, id |-> prog.id]
  /\ store = [op |-> prog.op, ins |-> prog.ins,
              users |-> [d \in Instrs |-> [u \in Instrs |-> Cardinality(Slots(prog.ins[u], d))]]]
  /\ todo = << >>
  /\ at = [step |-> "start", cur |-> prog.root[Main], second |-> prog.root[Main], rets |-> 0]
  /\ work = {}

InlineNext == \/ Start \/ Finish \/ SplitOn \/ CountReturns \/ StartConstants
              \/ ChangeInlBlocksRelation \/ ConnectRoot \/ ConnectEnds \/ RemoveCall
              \/ \E x \in work : ReplaceParam(x) \/ ReplaceExit(x) \/ MoveConstant(x)

InlineSpec == InlineInit /\ [][InlineNext]_inlineVars

-----------------------------------------------------------------------------
\* A value passes through at most two parameters and two calls.
Meaning(a) == LET f(x) == IF x \in Instrs THEN means[x] ELSE x IN f(f(f(f(a))))

Done == at.step = "done"
Reached == ReachIn(flow.succs, prog.root[Main])
Listed == {i \in Instrs : \E b \in Reached : Slots(code.list[b], i) # {}}
Removed == InlinedCalls \cup UNION {{ExitOf(b) : b \in ExitBlocks(c)} : c \in InlinedCalls}
Phis == {prog.phi[c] : c \in {x \in InlinedCalls : Cardinality(Returns(x)) > 1}}
KeptBlocks == {x \in Blocks : prog.graph[x] = Main} \cup UNION {Inner(c) : c \in InlinedCalls}
Kept == (UNION {In(b) : b \in KeptBlocks}) \ Removed

\* After the pass control runs through the inner blocks of the callees: the two
\* halves of a block are connected through the exits of the callee and not
\* otherwise, and both copies of every edge that can be taken agree.
ControlSpliced ==
  Done =>
    /\ Reached = {b \in Blocks : prog.graph[b] = Main}
                   \cup UNION {Inner(c) \cup {prog.spare[c]} : c \in InlinedCalls}
    /\ LET reached == Reached
       IN  \A a, b \in reached : b \in flow.succs[a] <=> a \in flow.preds[b]
    /\ \A c \in InlinedCalls :
         LET cut == [b \in Blocks |-> IF b \in ExitBlocks(c) THEN {} ELSE flow.succs[b]]
         IN  prog.spare[c] \notin ReachIn(cut, prog.root[Main])

\* The caller owns its blocks, the second halves and the inner blocks of every
\* callee, whose ids are gone, but for at most one block for each call: the last
\* of the RPO is taken for the end block (inlining.cpp:149).  It keeps the graph
\* of the callee, and every way out of it leads back to it.  No two blocks the
\* caller owns have the same id.
BlocksAdopted ==
  Done =>
    /\ \A c \in InlinedCalls :
         \E l \in Inner(c) \cup {prog.end[prog.callee[c]]} :
           /\ flow.graph[l] = prog.callee[c]
           /\ \A s \in prog.succs[l] : l \in ReachIn(prog.succs, s)
           /\ \A b \in Inner(c) \ {l} : flow.graph[b] = Main /\ flow.id[b] = Unset
    /\ \A b \in {x \in Blocks : prog.graph[x] = Main} \cup {prog.spare[c] : c \in InlinedCalls} :
         flow.graph[b] = Main
    /\ LET owned == {b \in Reached : flow.graph[b] = Main}
       IN  \A a \in owned, b \in owned : flow.id[a] = flow.id[b] => a = b \/ flow.id[a] = Unset

\* Every instruction of the caller and of the inner blocks is still there, once,
\* besides the calls and the last instructions of the exits; one that was the
\* only or the first of its block stays on the list (basic_block.h:66).
NothingLost ==
  Done => /\ Kept \cup Phis \subseteq Listed
          /\ LET removed == Removed IN \A i \in Listed \ (Kept \cup Phis) :
               i \in removed /\ prog.list[HomeOf(i)][1] = i
          /\ \A i \in Instrs : Cardinality(ListedAt(code.list, i) \cap Reached) <= 1

\* What is kept computes what it did: parameters stand for the arguments,
\* constants for equal ones of the caller, the call for what the only RET returns.
\* And what it uses is still there, unless it is the result of a call whose callee
\* has no RET or several.
ValuesResolved ==
  Done => LET listed == Listed IN \A i \in Kept :
    /\ store.ins[i] = [x \in DOMAIN prog.ins[i] |-> Meaning(prog.ins[i][x])]
    /\ \A x \in DOMAIN store.ins[i] :
         \/ store.ins[i][x] \in listed \cup {Label, NoDef}
         \/ store.ins[i][x] \in InlinedCalls /\ Cardinality(Returns(store.ins[i][x])) # 1

\* Every value but the constants of the caller's root knows its users: the
\* constants are not told of what they took over (inlining.cpp:140).
UsersKnown ==
  Done => LET kept == Kept IN \A d, i \in kept :
            d \notin ConstantsIn(prog.root[Main]) => store.users[d][i] = Uses(store, i, d)

\* The pass fails only on calls without the label of a callee in front, that end
\* their block or share it with an earlier call, that repeat a callee, pass what
\* is no value or not as many values as there are parameters; on callees with an
\* empty exit block, one that has another successor, a RET that does not return
\* exactly one value, a RET_VOID or THROW with an input, or a constant the caller
\* lacks; and on calls that use the result of another.
FaultsExplained ==
  at.step = "fault" =>
    \E c \in InlinedCalls :
      \/ prog.ins[c] = << >> \/ Head(prog.ins[c]) # Label
      \/ ExitOf(HomeOf(c)) = c
      \/ \E d \in InlinedCalls \ {c} : \/ HomeOf(d) = HomeOf(c)
                                       \/ prog.callee[d] = prog.callee[c]
                                       \/ Slots(prog.ins[d], c) # {}
      \/ Len(ParamsOf(c)) # Len(prog.ins[c]) - 1
      \/ Slots(prog.ins[c], NoDef) # {}
      \/ \E b \in ExitBlocks(c) : ExitOf(b) = NoInstr \/ Cardinality(prog.succs[b]) # 1
      \/ \E e \in Returns(c) : Len(prog.ins[e]) # 1 \/ prog.ins[e] = <<NoDef>>
      \/ \E b \in ExitBlocks(c) : /\ prog.op[ExitOf(b)] \in {"RET_VOID", "THROW"}
                                  /\ prog.ins[ExitOf(b)] # << >>
      \/ \E i \in ConstantsIn(prog.root[prog.callee[c]]) :
           prog.value[i] \notin {prog.value[j] : j \in ConstantsIn(prog.root[Main])}

\* "Convert return or throw instructions to phi function" (inlining.cpp:67): the
\* PHI of a call with several RETs chooses among all returned values.
ReturnsMerged ==
  Done => \A c \in InlinedCalls : \A e \in Returns(c) :
    Cardinality(Returns(c)) > 1 =>
      \E x \in DOMAIN store.ins[prog.phi[c]] :
        store.ins[prog.phi[c]][x] = Meaning(prog.ins[e][1])
=============================================================================
