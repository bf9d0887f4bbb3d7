------------------------------ MODULE IrBuilder ------------------------------
(***************************************************************************)
(* IrBuilder::Run (passes/ir_builder.cpp): a stream of instructions is cut *)
(* into basic blocks at jump targets and after control flow, the blocks    *)
(* are connected, and the graph gets its root and its end.                 *)
(*                                                                         *)
(* An instruction is its position in the stream, a block its position in   *)
(* bbs_pointers_.  The links inside a block are those of InstrList.        *)
(***************************************************************************)
EXTENDS Naturals, FiniteSets, SequencesExt

CONSTANTS
  Streams,   \* the instruction streams a client passes, see Insns
  NoId       \* id_ without a value

VARIABLES
  insns,   \* insns_
  cut,     \* [bbs: the blocks made so far; buf: the instructions collected]
  next,    \* the position of the loop over the instructions, then the blocks
  edges,   \* the pairs <<b, c>> with c among the successors of b
  graph,   \* the blocks whose graph_ is set
  id,      \* id_ of every block
  num,     \* blocks_num_ of the graph
  pc       \* "start", "split", "connect", or how Run ended

vars == <<insns, cut, next, edges, graph, id, num, pc>>

\* JE stands for the conditional branches, CALL for JO as well, THROW for
\* RET_VOID as well.  to: the target of the id argument of a jump, or 0 if it
\* has no such argument or a null one.
Insns(n) == [op : {"ADD", "CALL", "RET", "THROW"}, is_target : BOOLEAN, to : {0}]
              \cup [op : {"JMP", "JE"}, is_target : BOOLEAN, to : 0 .. n]

ASSUME StreamsAssumption == \A s \in Streams : s \in Seq(Insns(Len(s)))
ASSUME NoIdAssumption == NoId \notin Nat

IsControlFlow(op) == op # "ADD"
IsBranch(op) == op \in {"JMP", "JE"}

\* Mutant of IsReturn: whatever comes from CALL on is a return.
IsReturnByRange(op) == op \in {"CALL", "RET", "THROW"}

IsReturn(op) == op = "RET"

Bbs == cut.bbs

-----------------------------------------------------------------------------
\* root_ is not initialised by Graph(Allocator *): the builder may take the
\* graph for one that has been built already.
Start ==
  /\ pc = "start"
  /\ pc' \in {"refused", "split"}
  /\ UNCHANGED <<insns, cut, next, edges, graph, id, num>>

\* A target starts a block, even if it is control flow; the one before it may
\* be empty.
AtTarget(c, x) == [bbs |-> Append(c.bbs, c.buf), buf |-> <<x>>]

\* Mutant of AtControlFlow: the buffer is not cleared.
AtControlFlowAgain(c, x) == [bbs |-> Append(c.bbs, Append(c.buf, x)), buf |-> Append(c.buf, x)]

AtControlFlow(c, x) == [bbs |-> Append(c.bbs, Append(c.buf, x)), buf |-> << >>]

Collect(c, x) == [c EXCEPT !.buf = Append(@, x)]

BuildBlock ==
  /\ pc = "split" /\ next <= Len(insns)
  /\ cut' = IF insns[next].is_target THEN AtTarget(cut, next)
            ELSE IF IsControlFlow(insns[next].op) THEN AtControlFlow(cut, next)
            ELSE Collect(cut, next)
  /\ next' = next + 1
  /\ UNCHANGED <<insns, edges, graph, id, num, pc>>

\* Mutant of Counted: SetRoot does not count the root.
CountedLate(n) == n

Counted(n) == n + 1

\* The instructions still in the buffer are dropped.  Without a block, front()
\* of the empty vector is undefined.
SetRoot ==
  /\ pc = "split" /\ next > Len(insns)
  /\ IF Bbs = << >>
       THEN pc' = "undefined" /\ UNCHANGED <<next, id, num>>
       ELSE /\ pc' = "connect"
            /\ next' = 1
            /\ id' = [b \in DOMAIN Bbs |-> IF b = 1 THEN 0 ELSE NoId]
            /\ num' = Counted(num)
  /\ UNCHANGED <<insns, cut, edges, graph>>

LastInstr(b) == insns[Bbs[b][Len(Bbs[b])]]

NoNext(b) == b = Len(Bbs)

Attached(b) == {b, b + 1}

\* How the pass ends at block b, if it does.  An empty block has no last_instr_ to
\* ask.  A jump without a target ends the pass, which still answers true.  bb_ of a
\* target is null if the target was dropped, and otherwise names the local variable
\* of MakeBasicBlock: nothing can be said of what follows.
Ending(b) ==
  CASE Bbs[b] = << >> -> "undefined"
    [] Bbs[b] # << >> /\ IsBranch(LastInstr(b).op) ->
         CASE LastInstr(b).to = 0 -> "partial"
           [] LastInstr(b).to \in ToSet(cut.buf) -> "aborted"
           [] OTHER -> "undefined"
    [] OTHER -> IF ~IsReturn(LastInstr(b).op) /\ NoNext(b) THEN "thrown" ELSE "connect"

\* One turn of the loop over the blocks.
ConnectBlock ==
  /\ pc = "connect" /\ next \in DOMAIN Bbs
  /\ pc' = Ending(next)
  /\ IF Ending(next) = "connect" /\ ~IsReturn(LastInstr(next).op)
       THEN /\ graph' = graph \cup Attached(next)
            /\ edges' = edges \cup {<<next, next + 1>>}
       ELSE graph' = graph \cup {next} /\ UNCHANGED edges
  /\ next' = next + 1
  /\ UNCHANGED <<insns, cut, id, num>>

\* Without jumps the blocks reached from the root are a chain.
Reached == {b \in DOMAIN Bbs : \A a \in 1 .. b - 1 : <<a, a + 1>> \in edges}

\* The walk numbers the blocks it reaches, and the last of them becomes the end.
SetEnd ==
  /\ pc = "connect" /\ next > Len(Bbs)
  /\ LET end == CHOOSE b \in Reached : b + 1 \notin Reached
     IN  id' = [b \in DOMAIN Bbs |-> IF b = end THEN 1
                                     ELSE IF b \in Reached /\ id[b] = NoId THEN num + b - 2
                                     ELSE id[b]]
  /\ num' = num + Cardinality({b \in Reached : id[b] = NoId}) + 1
  /\ pc' = "done"
  /\ UNCHANGED <<insns, cut, next, edges, graph>>

Init ==
  /\ insns \in Streams
  /\ cut = [bbs |-> << >>, buf |-> << >>]
  /\ next = 1
  /\ edges = {} /\ graph = {} /\ id = << >> /\ num = 0
  /\ pc = "start"

Next == Start \/ BuildBlock \/ SetRoot \/ ConnectBlock \/ SetEnd

Spec == Init /\ [][Next]_vars

-----------------------------------------------------------------------------
\* The blocks and what is in the buffer, and how far the stream has been read.
Parts == Append(Bbs, cut.buf)
Read == CASE pc \in {"start", "refused"} -> 0
          [] pc = "split" -> next - 1
          [] OTHER -> Len(insns)

\* No instruction is lost, doubled or moved on its way through the buffer: the
\* blocks one after the other and what is in the buffer are the stream so far,
\* and what stays in the buffer in the end was followed by no cut.  The blocks are
\* basic: a target is only ever the first of a block, control flow the last, unless
\* it is itself the target that starts the block: then the instructions behind it
\* join its block (ir_builder.cpp:18-21).
StreamPartitioned ==
  /\ UNION {ToSet(Parts[b]) : b \in DOMAIN Parts} = 1 .. Read
  /\ \A b \in DOMAIN Parts : \A j, k \in DOMAIN Parts[b] :
       j < k => Parts[b][j] < Parts[b][k]
  /\ \A a, b \in DOMAIN Parts :
       a < b => \A x \in ToSet(Parts[a]), y \in ToSet(Parts[b]) : x < y
  /\ \A b \in DOMAIN Bbs : \A k \in DOMAIN Bbs[b] :
       LET x == insns[Bbs[b][k]]
       IN  /\ x.is_target => k = 1
           /\ IsControlFlow(x.op) /\ k < Len(Bbs[b]) => k = 1 /\ x.is_target

\* What can run after an instruction in the stream can run after it in the graph:
\* next in the block, or first in a block the edges lead to.
FallThroughCovered ==
  pc = "done" =>
    LET In(x) == CHOOSE b \in DOMAIN Bbs : x \in ToSet(Bbs[b])
        kept == UNION {ToSet(Bbs[b]) : b \in DOMAIN Bbs}
    IN  \A x \in DOMAIN insns :
          {x, x + 1} \subseteq kept /\ insns[x].op \in {"ADD", "CALL"} =>
            \/ In(x) = In(x + 1)
            \/ <<In(x), In(x + 1)>> \in edges /\ Head(Bbs[In(x + 1)]) = x + 1

\* Where the stream is cut: behind these instructions a block ends.
Exits == {x \in DOMAIN insns :
            \/ IsControlFlow(insns[x].op) /\ ~insns[x].is_target
            \/ x < Len(insns) /\ insns[x + 1].is_target}

\* The streams the builder can turn into a graph: no block is empty, none ends
\* with a jump, and the last one that is complete ends with a RET.
Buildable ==
  /\ Exits # {}
  /\ \A x \in DOMAIN insns : insns[x].is_target =>
       x > 1 /\ (IsControlFlow(insns[x - 1].op) => insns[x - 1].is_target)
  /\ \A x \in Exits : ~IsBranch(insns[x].op)
  /\ \A x \in Exits : (\A y \in Exits : y <= x) => insns[x].op = "RET"

\* The builder finishes exactly the streams above: any other one ends in undefined
\* behaviour, a failed assertion, an exception or a graph that is half connected,
\* for which Run answers true (ir_builder.cpp:45).
OutcomeExplained ==
  /\ pc = "done" => Buildable
  /\ pc \in {"undefined", "partial", "aborted", "thrown"} => ~Buildable

\* In a built graph two reached blocks share an id only if they are the end and
\* the second block, which the walk gave the id of the end; the root keeps 0
\* unless it is the end.
IdsSharedWithEnd ==
  pc = "done" =>
    /\ \A a, b \in Reached : a < b /\ id[a] = id[b] => a = 2 /\ b + 1 \notin Reached
    /\ id[1] = IF 2 \in Reached THEN 0 ELSE 1
=============================================================================
