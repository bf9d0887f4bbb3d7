--------------------------- MODULE CheckElimination ---------------------------
(***************************************************************************)
(* CheckElimination::Run (passes/check_elimination.cpp): for each check,   *)
(* the equal checks it dominates become NOPs and their users use it.  One  *)
(* action per instruction of the listing and per user considered.          *)
(*                                                                         *)
(* The listing order is any order the theorems about Traversal allow.  The *)
(* pass constructs a DomTree but does not run it (line 12): the dominator  *)
(* lists are empty or those of an earlier run of DomTree on the same       *)
(* graph.  Lists that the graph has outgrown since are not considered.     *)
(***************************************************************************)
EXTENDS DefUse, Reachability

CONSTANTS
  Entry,     \* the root block
  Shapes,    \* the graphs to run on, and the instructions of their blocks in order
  Codes(_)   \* the opcodes and inputs to try on such a shape

VARIABLES
  prog,      \* history: the program as it was given to the pass
  doms,      \* dom_blocks_ of the blocks
  store,     \* op_, inputs_ and users_ of the instructions
  todo,      \* instructions still to visit, in the order of the listing
  check,     \* the check whose equals are looked for, or NoArg
  pending,   \* users of its first input still to consider, with multiplicity
  keeper,    \* history: the check that replaced an eliminated one, or NoArg
  state      \* "running", "done" or "fault"

vars == <<prog, doms, store, todo, check, pending, keeper, state>>

UnaryChecks == {"NULL_CHECK", "ZERO_CHECK"}
BoundsCheck == "BOUNDS_CHECK"
Checks == UnaryChecks \cup {BoundsCheck}
IsCheck(i) == store.op[i] \in Checks

\* Where an instruction is: its block and its index there.
Places(lists, i) == {p \in UNION {{x} \X DOMAIN lists[x] : x \in Blocks} :
                       lists[p[1]][p[2]] = i}
Place(lists, i) == CHOOSE p \in Places(lists, i) : TRUE
BlockOf(i) == Place(prog.lists, i)[1]
IndexOf(i) == Place(prog.lists, i)[2]

(***************************************************************************)
(* The reference: domination by paths, of blocks and of the instructions   *)
(* of a program p.                                                         *)
(***************************************************************************)
Cut(g, a) == [x \in Blocks |-> IF x = a THEN {} ELSE g[x] \ {a}]

BlockDominates(g, a, b) == b \notin Reach(Cut(g, a), Entry) \/ a = b

DominatesIn(p, d, i) ==
  LET from == Place(p.lists, d)
      to == Place(p.lists, i)
  IN  IF from[1] = to[1] THEN from[2] <= to[2] ELSE BlockDominates(p.succs, from[1], to[1])

Dominates(d, i) == DominatesIn(prog, d, i)

(***************************************************************************)
(* The programs the pass is given: every instruction is in one place, an   *)
(* input dominates its user (there are no phis), NOPs have no uses and are *)
(* not used, only calls have a label, as their first input, and checks     *)
(* have the number of inputs the pass asserts.                             *)
(***************************************************************************)
Program(s, c) == [succs |-> s.succs, lists |-> s.lists, op |-> c.op, ins |-> c.ins]

ArgumentFits(p, i, k) ==
  LET a == p.ins[i][k]
  IN  /\ a \in Instrs => /\ a # i /\ DominatesIn(p, a, i)
                        /\ p.op[i] # "NOP" /\ p.op[a] # "NOP"
      /\ a = Label => k = 1 /\ p.op[i] \notin Checks
      /\ a = NoArg => p.op[i] = "NOP" /\ i \notin Dynamic

WellFormed(p) ==
  /\ p.succs \in [Blocks -> SUBSET Blocks]
  /\ p.lists \in [Blocks -> Seq(Instrs)]
  /\ p.op \in [Instrs -> STRING]
  /\ p.ins \in [Instrs -> Seq(Instrs \cup {NoDef, Label, NoArg})]
  /\ \A i \in Instrs :
       /\ \E x \in Places(p.lists, i) : Places(p.lists, i) = {x}
       /\ \A k \in DOMAIN p.ins[i] : ArgumentFits(p, i, k)
       /\ p.op[i] \in UnaryChecks => Len(p.ins[i]) = 1
       /\ p.op[i] = BoundsCheck => Len(p.ins[i]) = 2

ASSUME EntryAssumption == Entry \in Blocks /\ IsFiniteSet(Blocks)
ASSUME ProgramsAssumption ==
  \A s \in Shapes : \A c \in Codes(s) : WellFormed(Program(s, c))

-----------------------------------------------------------------------------
\* Mutant of IsDominatedBy: the blocks are swapped.
IsDominatedBySwapped(u, c) == IF BlockOf(u) = BlockOf(c) THEN IndexOf(c) <= IndexOf(u)
                              ELSE BlockOf(u) \in doms[BlockOf(c)]

IsDominatedBy(u, c) == IF BlockOf(u) = BlockOf(c) THEN IndexOf(c) <= IndexOf(u)
                       ELSE BlockOf(c) \in doms[BlockOf(u)]

IsSameOpcode(u, c) == u # c /\ store.op[u] = store.op[c]

\* Mutant of SameArguments: the index of a bounds check is not compared.
SameLength(u, c) == store.ins[u][1] = store.ins[c][1]

\* A user of the input of a null or zero check has that input, whatever else it has.
SameArguments(u, c) == store.op[c] = BoundsCheck => /\ store.ins[u][1] = store.ins[c][1]
                                                    /\ store.ins[u][2] = store.ins[c][2]

\* at(0)->def() and, if that is the length, at(1)->def() of a user u.
ReadFails(u, c) ==
  /\ store.op[c] = BoundsCheck
  /\ LET s == store.ins[u]
     IN  \/ s = << >> \/ s[1] \in Unreadable
         \/ s[1] = store.ins[c][1] /\ (Len(s) > 1 => s[2] \in Unreadable)

Skip ==
  /\ ~IsCheck(Head(todo))
  /\ todo' = Tail(todo)
  /\ UNCHANGED <<prog, doms, store, check, pending, keeper, state>>

Fail == state' = "fault" /\ UNCHANGED <<prog, doms, store, todo, check, pending, keeper>>

\* GetUsers copies the list of the first input, the check itself included.
StartCheck ==
  /\ IsCheck(Head(todo))
  /\ LET input == store.ins[Head(todo)][1]
     IN  IF input \notin Instrs
           THEN Fail
           ELSE /\ check' = Head(todo) /\ pending' = store.users[input]
                /\ todo' = Tail(todo)
                /\ UNCHANGED <<prog, doms, store, keeper, state>>

\* Mutant of Considered: the loop ends after the first user.
ConsideredFirst(u) == pending' = NoUsers

Considered(u) == pending' = [pending EXCEPT ![u] = @ - 1]

Keep(u) ==
  /\ pending[u] > 0
  /\ ~ReadFails(u, check)
  /\ ~(IsSameOpcode(u, check) /\ SameArguments(u, check) /\ IsDominatedBy(u, check))
  /\ Considered(u)
  /\ UNCHANGED <<prog, doms, store, todo, check, keeper, state>>

\* Mutant of Redirect: the users of u are forgotten.
RedirectNone(u) == RemoveUser(store, store.ins[check][1], u)

Redirect(u) == ReplaceInputForUsers(RemoveUser(store, store.ins[check][1], u), u, check)

Eliminate(u) ==
  /\ pending[u] > 0
  /\ ~ReadFails(u, check)
  /\ IsSameOpcode(u, check) /\ SameArguments(u, check) /\ IsDominatedBy(u, check)
  /\ IF ReplaceInputFails(store, u) \/ MakeNopFails(Redirect(u), u)
       THEN Fail
       ELSE /\ store' = MakeNop(Redirect(u), u)
            /\ keeper' = [keeper EXCEPT ![u] = check]
            /\ Considered(u)
            /\ UNCHANGED <<prog, doms, todo, check, state>>

ReadFailure(u) == pending[u] > 0 /\ ReadFails(u, check) /\ Fail

FinishCheck ==
  /\ pending = NoUsers
  /\ check' = NoArg
  /\ UNCHANGED <<prog, doms, store, todo, pending, keeper, state>>

Finish ==
  /\ todo = << >>
  /\ state' = "done"
  /\ UNCHANGED <<prog, doms, store, todo, check, pending, keeper>>

-----------------------------------------------------------------------------
Orders(g) == {q \in [1 .. Cardinality(Blocks) -> Blocks] : IsPostOrder(g, Entry, q)}

\* The lists of a run of DomTree on this graph, or of none.
DomLists(g) == {[x \in Blocks |-> {}],
                [x \in Blocks |-> {d \in Blocks : BlockDominates(g, d, x)}]}

\* The instructions in the order of the listing: q reversed is the RPO.
Earlier(lists, q, i, j) ==
  LET x == Place(lists, i)
      y == Place(lists, j)
  IN  IF x[1] = y[1] THEN x[2] < y[2]
      ELSE \E m, n \in DOMAIN q : m < n /\ q[m] = y[1] /\ q[n] = x[1]

Listings(lists, q) == {t \in [1 .. Cardinality(Instrs) -> Instrs] :
                         \A m, n \in DOMAIN t : m < n => Earlier(lists, q, t[m], t[n])}

Init == /\ \E s \in Shapes : \E q \in Orders(s.succs) :
             /\ doms \in DomLists(s.succs)
             /\ todo \in Listings(s.lists, q)
             /\ \E c \in Codes(s) : prog = Program(s, c)
        /\ store = [op |-> prog.op, ins |-> prog.ins,
                    users |-> [d \in Instrs |-> [u \in Instrs |->
                                 Cardinality(Slots(prog.ins[u], d))]]]
        /\ check = NoArg
        /\ pending = NoUsers
        /\ keeper = [i \in Instrs |-> NoArg]
        /\ state = "running"

Next == /\ state = "running"
        /\ IF check = NoArg
             THEN IF todo = << >> THEN Finish ELSE Skip \/ StartCheck
             ELSE FinishCheck \/ \E u \in Instrs : Keep(u) \/ Eliminate(u) \/ ReadFailure(u)

Spec == Init /\ [][Next]_vars

-----------------------------------------------------------------------------
Eliminated == {i \in Instrs : keeper[i] # NoArg}

\* SSA form survives every step: an instruction that is not a NOP uses only
\* instructions that are no NOPs and that dominate it, although the users of an
\* eliminated check are redirected to a check of another block.
DefsDominateUses ==
  \A u \in Instrs : store.op[u] # "NOP" =>
    \A k \in DOMAIN store.ins[u] : LET d == store.ins[u][k]
                                   IN  d \in Instrs => store.op[d] # "NOP" /\ Dominates(d, u)

\* The definition that stands for a in the end.  That the check which replaced
\* an eliminated one is never eliminated itself is part of EliminatedIsRedundant.
Resolve(a) == IF a \in Eliminated THEN keeper[a] ELSE a

\* The inputs of i, each the one it was given or the check that stands for it.
Inputs(i) == [k \in DOMAIN prog.ins[i] |-> Resolve(prog.ins[i][k])]

\* An instruction the pass keeps computes what it did.
UsesResolved ==
  \A u \in Instrs \ Eliminated :
    /\ store.op[u] = prog.op[u]
    /\ store.ins[u] = Inputs(u)

\* What was eliminated is tested anyway: by a check of the same kind and the
\* same arguments that dominates it and that is still there.
EliminatedIsRedundant ==
  \A e \in Eliminated : LET c == keeper[e]
                        IN  /\ c \notin Eliminated
                            /\ prog.op[c] = prog.op[e]
                            /\ Inputs(c) = Inputs(e)
                            /\ Dominates(c, e)

\* With dominators known, an equal check below another survives only if their
\* input has taken over users that it was not told of, because it is itself a
\* check that replaced one (ReplaceInputForUsers, instruction.h:96).
LeftoversExplained ==
  state = "done" =>
    \A c, u \in Instrs :
      /\ IsCheck(c) /\ IsSameOpcode(u, c) /\ store.ins[u] = store.ins[c]
      /\ IsDominatedBy(u, c)
      => \E e \in Eliminated : Resolve(e) = store.ins[c][1]

\* The pass fails only on a check of a null definition, on a user of the length
\* of a bounds check that has one input or is a call, on a bounds check whose
\* length is its index, and on a call that uses an eliminated check.
FaultsExplained ==
  state = "fault" =>
    \/ \E c \in Instrs : IsCheck(c) /\ NoDef \in {store.ins[c][k] : k \in DOMAIN store.ins[c]}
    \/ \E c, u \in Instrs :
         /\ IsCheck(c) /\ store.op[c] = BoundsCheck
         /\ Slots(store.ins[u], store.ins[c][1]) # {}
         /\ Len(store.ins[u]) = 1 \/ store.ins[u][1] = Label
    \/ \E c \in Instrs : store.op[c] \in {BoundsCheck, "NOP"} /\ prog.op[c] = BoundsCheck
                           /\ Resolve(prog.ins[c][1]) = Resolve(prog.ins[c][2])
    \/ \E c, u \in Instrs : IsCheck(c) /\ Slots(store.ins[u], c) # {} /\ store.ins[u][1] = Label
=============================================================================
