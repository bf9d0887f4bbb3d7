# Verification of Compiler-IR

TLA+ models, TLC runs and TLAPS proofs for the IR library in `src/`: an
intermediate representation (instructions, basic blocks, control-flow graph) and
the analyses and optimisations on it. The library is sequential and keeps
nothing outside memory, so there are no interleavings, messages or crashes to
model. What is hard in it is *aliasing and history*: every fact is stored
twice or cached (both ends of an edge, `prev_` and `next_`, `bb_`, ids handed
out lazily, dominator lists, validity flags), objects outlive the pass that
filled them, and whether a call is safe depends on all calls before it. The
models therefore let a client make any sequence of legal calls and ask what
stays true.

## 1. Inventory

| Component | State | Operations | Uses | What makes it correct |
|---|---|---|---|---|
| Graph and block edges (`graph.*`, `basic_block.*`) | `preds_`, `succs_`, `id_` per block; `root_`, `end_`, `blocks_num_` | `AddEdge`, `MoveSuccs`, `MovePreds`, `SplitOn`, `MoveRoot`, `SetRoot`, `SetEnd`, `GetId`, `RemoveBlock`, `RestoreBlock` | Traversal (`FindBlock`) | both copies of an edge agree; ids are distinct and stable; edges appear and disappear only as asked |
| Traversal (`passes/pass.*`) | `dfs_bbs_`, the set of discovered ids, the recursion | `Run`, `DFSWalk`, `getDFS`, `getRPO` | block ids, successors | a post-order of exactly the reachable blocks; bounded recursion; it ends |
| DomTree (`passes/pass.*`) | `dom_blocks_`, `imm_dom_` of the blocks | `Run`, `SlowDomTree`, `CalcDifference`, `CalcImmDominator` | Traversal, `RemoveBlock`, `RestoreBlock` | the dominators by the path definition; the graph is left as it was; it can be run again |
| Instruction list (`basic_block.*`, `instruction.*`) | `first_instr_`, `last_instr_`; `prev_`, `next_`, `bb_` | `MakeBasicBlock`, `Remove*Instr`, `InsertInstr*`, `SplitOn`, `GetAllInstrs`, `IsNextTo` | | both chains agree; one sequence per block; `bb_` names the block |
| Instructions and def-use (`instruction.h`, `common.h`) | `users_`, inputs (`InstrArg`) | `AddUsers`, `RemoveUser`, `ReplaceInputForUsers`, `ReplaceUserForInputs`, `MakeNop`, PHI inputs | | users and inputs mirror each other |
| Marker (`marker.h`) | two colour bits per block | set, unset | | clean before each search |
| LoopAnalyzer (`loop_analyzer.*`, `loop.h`) | `holder_`, `loop_` of the blocks, loop tree | `Run` and its four phases | DomTree, Traversal, Marker, `MoveRoot` | each natural loop is found with its blocks and its place in the tree |
| CheckElimination | none of its own | `Run`, `RemoveDominatedChecks`, `RemoveDominatedBoundsCheck` | DomTree lists, def-use, `IsNextTo` | only checks dominated by an equal check disappear |
| Inlining | `bbs_in_rpo_` | `DoInlineMethod` and its parts | `SplitOn`, edges, ids, def-use | the callee's inner blocks and values replace the call |
| IrBuilder | `bbs_pointers_`, `bbs_in_rpo_` | `BuildBasicBlocks`, `ConnectBasicBlocks` | `MakeBasicBlock`, edges, Traversal, `SetRoot`, `SetEnd` | blocks partition the stream; edges follow jumps and fall-through |
| Allocator (`allocator.h`) | a storage and a pool storage per class | `New`, `NewPool`, `NewPoolAsArray` | | pointers stay valid |

The graph is shared by all passes. A pass reads it through Traversal, DomTree
takes blocks out of it while it runs, LoopAnalyzer and Inlining change it.
Passes communicate through fields of the blocks (`dom_blocks_`, `imm_dom_`,
`loop_`, colours) and through three validity flags of the graph.

`PROJECT.json` lists the hazards at their lines.

## 2. Modules

    Reachability          paths, and what an order of blocks must satisfy
     +- BlockGraph        Graph and the edge/id part of BasicBlock
     |   +- FlowGraph     (abstract: a bag of edges and an entry; implemented by BlockGraph)
     |   +- DomTree       the pass, step by step, on BlockGraph
     |   +- LoopAnalyzer  the pass, its loops and the colours, on BlockGraph
     +- Traversal         the walk, one DFSWalk step at a time
     |   +- Walk          (abstract: every call is answered with a post-order)
    InstrList             the instruction list of blocks
     +- InstrSequences    (abstract: a sequence per block)
    DefUse                users_ and inputs: the member functions as operators
     +- UseLists          arbitrary clients of them
     +- CheckElimination  the pass, on DefUse and Reachability
     +- Inlining          the pass, on DefUse and Reachability
    IrBuilder             the pass
    Allocator             storages, pools and the pointers into them
    MCBlockGraph, MCTraversal, MCDomTree, MCLoopAnalyzer, MCCheckElimination,
    MCInlining, MCIrBuilder      symmetry, graphs, programs and streams to check on
    ReachabilityTheorems         lemmas on paths, domination and finite sets
     +- DomTreeProofs (with those about BlockGraph), LoopAnalyzerProofs,
        CheckEliminationProofs
     +- ControlFlowProofs        the proofs about Traversal and Inlining
    UseListsProofs, IrBuilderProofs
                                 the proofs about the modules they are named after
    StorageProofs                the proofs about Allocator and InstrList

A definition whose comment begins with *Mutant of* is not part of a model: it is
the named definition with a bug put in. In its place, each makes some property
fail, which shows that the property depends on that piece of the code
(`PROJECT.json`, "mutants").

**BlockGraph.** `succs[a][b]` and `preds[b][a]` count the entries of `b` in
`a.succs_` and of `a` in `b.preds_`: a list is the bag of its entries, since no
operation of the graph depends on their order. What does depend on it is which
ids a `find_if` by id happens to assign before its match; `NumberScanned` leaves
that open. `Number` is `GetId` on several blocks, in any order. An erasure by id
subtracts one; if it does not find its entry (undefined behaviour in the code)
the count would become negative, so `TypeOK` together with `EdgeMirror` says
that this never happens. `removed` is the block `CalcDifference` has taken out:
between `RemoveBlock` and `RestoreBlock` nobody but a walk runs, hence the
guards `removed = None`. A client sets both ends before anything asks for an
id (`EndsSet`), uses fresh blocks for `NewBlock` and `SplitOn`, and, with
`FreshTargets`, moves edge lists only to blocks that have none, as `SplitOn`,
the only caller in `src/`, does.

**Traversal.** The recursion of `DFSWalk` is an explicit stack with the position
of each activation in its successor list. `Skip` and `Descend` are the recursive
call for a met and a new successor, `Emit` is the end of the function. Blocks are
recognised by ids that `GetId` assigns on the way, from any earlier numbering
(`Numbering`). `getRPO` delivers the same list reversed.

**DomTree.** The actions follow `SlowDomTree`: `Start` (the listing walk),
for each block `TakeOut` (root entry, `RemoveBlock`), `WalkWithout`, `PutBack`,
`Record` (the `FindBlock` loop), then `StartImm`, `SetImmDom` per block, and
`Succeed` or `Fail`. A walk is one step whose result is any order the Traversal
theorems allow. The reference (`Paths`, `StrictlyDominates`) enumerates
the simple paths from the root.

**LoopAnalyzer.** One `Run` on a graph without earlier analyses. The recursion of
`CollectBackEdges` is a stack whose frames hold the bag of successors still to
visit; `BackEdge`, `Known`, `Descend` are the three cases of its loop, `Leave`
its end, `CleanMarkers` included. The walk of `PopulateLoops` meets the blocks in the
order in which that search left them (`order`): both follow the same lists.
`NotHeader`, `FillIrreducible` and `FillReducible` are its cases, `LoopSearch` one
call of the backward search (the calls are independent of their order, so
`pending` is a set), `LoopFilled` the cleaning after it. Three actions consist of what they do
(`TakeSources`, `Visit`, `GatherLoops`) and of the assertions of `AddLoopBlock` and
`AddInLoop` on the way (`Listed`). `CreateRootLoop` and
`BuildLoopTree` follow the code; the root loop is its own outer and
inner loop, as there. The dominator lists are what DomTree computes (`DomSets`);
loops are indices of `holder`, which stay valid when the pointers of the code would dangle (`ReserveSuffices`
says when); an assertion that fails leads to `pc = "abort"`.
The reference is the usual natural loop, defined by reachability.

**InstrList.** The pointers as functions. `SplitOn` writes `Gone` into `bb_`,
the address of the temporary that `MakeBasicBlock` returns by value into
`Allocator::New`; `MakeBasicBlock` into a variable constructs its local there,
as compilers do. `KeepOne` and `CleanInsert` are the calling
discipline under which the lists are sound (section 4).

**DefUse, UseLists.** A use is an input of one instruction and an entry in
`users_` of another, and no function of the code writes both. DefUse holds the
functions as operators on a value `m` with fields `op`, `ins` and `users`:
inputs are sequences, user lists bags. Instructions with fixed slots keep a
null pointer (`NoArg`) where an input was; dynamic ones close the gap (`Dropped`).
`MakeNop` calls `TryRemoveInput` and `TryRemoveUser` once per entry, whence the counts.
The operators ending in `Fails` say where a function dereferences a null pointer
or where `def()` asserts: on a label or callee argument (`Label`), on an emptied
slot, through a definition that was never set (`NoDef`). UseLists lets clients
create, eliminate (as CheckElimination does), substitute an argument of a call for a
parameter (as Inlining does, which makes no NOP of the parameter), make
NOPs and remove single uses; a call that fails ends the history (`fault`). `lost`
records who was given users without being told, `stale` which parameters still list users that
use their argument by now, and `inlined` which arguments were passed on.

**CheckElimination.** Per instruction of the listing `Skip` or `StartCheck`, which
copies the user list of the first input (`pending`, a bag), per user `Keep`,
`Eliminate` or `ReadFailure`, then `FinishCheck`. The listing (`Listings`) is any order the
Traversal theorems allow, on graphs all of whose blocks are reachable. The pass builds a DomTree
that it never runs, so `doms` holds the lists of an earlier run or nothing. `WellFormed` is what
the pass may presume of a program: every instruction has one place, definitions dominate their
uses (programs without PHI), NOPs neither use nor are used, a label is the first input of
a call, and checks have the inputs the pass asserts. `ZERO_CHECK` and `NULL_CHECK` are the checks with one input
(`UnaryChecks`). Lists of a graph that was changed after the earlier run are not represented. `keeper` and `prog` remember what
the properties compare with; `Resolve` is one step, because what replaced a check is never
eliminated itself (`EliminatedIsRedundant`).

**Inlining.** `at.step` is the place in `DoInlineMethod`: `SplitOn`, `ReplaceParam`
per argument, `CountReturns`, `ReplaceExit` per block in front of the end block,
`MoveConstant` per constant, `ChangeInlBlocksRelation`, `ConnectRoot`, `ConnectEnds`,
`RemoveCall`; `todo` holds the calls still to inline. Caller and callees live in one
state: instruction lists (`code`), edges, graphs and ids (`flow`), def-use (`store`).
A call whose first input is no label, or a label without a graph, fails before the split
(`CalleeKnown`), and `ExitFails` holds the assertions on the inputs of RET, RET_VOID and THROW. The turns of a loop commute or follow the order of a list that is open, so
`work` is a set. Where the code is undefined or asserts, the step is `fault`.
`means` says what each instruction is to stand for afterwards, computed from the program
alone. `WellFormed` says what the pass may presume of a program, for any number of blocks and calls:
edges stay in a graph, an instruction has one place, all blocks of the caller are reachable and have different
ids, no PHI follows a call, and control enters a callee at its root, passes
a block and leaves it at its end. Two calls may name the same callee; a caller that calls itself is
left out. Calls and returns may have any inputs.

**IrBuilder.** An instruction is its position in the stream, with its kind, target
flag and jump target. `BuildBlock` is one turn of the loop over the stream,
`ConnectBlock` one over the blocks; `Ending` lists how a turn can end the pass
(undefined behaviour, a failed assertion, an exception, the early return). Edges
exist only between consecutive blocks, because a jump always ends the pass: its
target's `bb_` names a local of `MakeBasicBlock` or is null.

**Allocator.** An address is a buffer and an index. `AddElem` moves a full vector
to a new buffer; `AddPool` moves the vectors in it, which keep theirs.

## 3. Runs

| Run | Bounds | Shows |
|---|---|---|
| `block_graph` | 4 blocks (interchangeable), 2 edges, both constructors | `EdgeMirror`, `IdsDistinct`, `IdsStable`, implements `FlowGraph` |
| `traversal` | every graph of 4 blocks, lists up to 2 long, all earlier numberings | the post-order, bounded recursion, termination, implements `Walk` |
| `instr_list` | 2 blocks, 4 instructions | both chains agree and `IsNextTo` is the list order, `bb_` never names another block, implements `InstrSequences` |
| `dom_tree` | 4 blocks, at most 2 successors, any edges, two runs | dominators and immediate dominators are right; `FindBlock` always finds; every edge comes back, a second run does no harm, every run returns |
| `dom_tree_rerun` | the same | the second run fails |
| `loops` | 5 blocks and the preheader: all reducible graphs, at most 2 successors; on 4 of the blocks any graph, self and parallel edges included | on structured graphs loops, blocks and nesting are the natural loops, also when a new root is put in front of the entry; on all graphs an assertion (of `AddBackEdge`, `AddLoopBlock` or `AddInLoop`) fails only on parallel edges, the reserve suffices if all blocks were counted, the chains of outer loops end at the root loop or at a loop whose header an irreducible one took |
| `def_use` | 4 instructions, one of them dynamic, up to 2 inputs | users and inputs agree, apart from what the code leaves behind, and the faults are explained |
| `check_elim` | 3 blocks (a chain, two arms), a value and 4 instructions in any places; dominators known or not | only repeated checks go, SSA form and every computation are kept, which equal checks stay, when it fails |
| `inlining` | callers with one or two calls, callees of six shapes; see MCInlining | control is spliced, blocks are adopted, nothing is lost, values resolved, users known, when it fails; returns with the wrong inputs and calls without a label are among the programs |
| `inlining_phi` | the same | the PHI of two RETs has one value |
| `ir_builder` | streams up to 3 long, up to 5 without jumps | blocks partition the stream and are basic; fall-through is covered; the outcome and shared ids are explained |
| `allocator` | 2 classes, a reserve of 2, 5 objects and pools each | pointers stay valid within the reserve, pool pointers always |

*Bounds.* Four blocks hold a split between two others and the smallest case of
two blocks that get their ids lazily, since root and end have fixed ids; two
edges may be parallel, chained, or an edge and its reverse. The theorems below
cover all other sizes. Four blocks with two successors contain all shapes
a walk distinguishes (back, forward and cross edges, self edges, diamonds,
unreachable blocks). For DomTree four blocks hold the irreducible two-entry
loop and dominator chains of length three. Four
instructions in two blocks give a middle with two neighbours, and a split whose
second half is edited again. `MaxEdges`, `MaxSuccs`, `MaxRuns` and `EdgeSets`
are the named bounds. For LoopAnalyzer five blocks, the last of which never has successors, hold two nested
loops, two loops side by side, and two headers that share a latch; without the
block in `Aside` the rest still holds the irreducible two-entry loop and
self edges inside a loop. The graph `Robbed` of MCLoopAnalyzer holds, on all blocks, an irreducible
loop that takes over the header of another one. The block in `Aside` and the preheader have no ids at first,
so that the reserve does not count them. Four
instructions hold a definition used twice by one user, a replacement of a
replacement, and a dynamic user among fixed ones (`MaxInputs`, `OtherArgs`); the
argument without a definition is in `check_elim` and `inlining`. A value and
four checks hold a check that is eliminated, one that it stood for, and checks that only
become equal on the way. In `inlining`, `Limit` is 6 instead of 50, so that some
callers are refused; the callee shapes have one exit, two, an inner loop, an exit
with two successors, an exit block with one instruction or none. Three
instructions are enough for every way a stream can end the builder, five without jumps for three blocks
behind each other (`MaxAny`, `MaxPlain`). `Reserve` is 2 instead of 1024, and `MaxObjects` twice outgrows it. `SYMMETRY` in `BlockGraph.cfg` permutes the blocks, none of which a
definition names; that run checks no liveness.
The runs of the passes disable the deadlock check because a pass that has
run as often as it may is over; so do `def_use` and `allocator`, whose clients stop when
every instruction or object they may create has been created.

*Fairness.* `Traversal` and `DomTree` assume weak fairness of the steps inside a running call, nothing
else: the code is sequential and a started function is executed to its end. Whether a client calls at
all is left open. The other modules state no fairness and check no liveness.

## 4. Disagreements found

Two have runs whose property the code violates:

* `dom_tree_rerun`: dominator lists are never cleared; a second run fails
  on every graph with a block whose immediate dominator is not the root.
* `inlining_phi`: `inlining.cpp:67` announces a PHI for the returns of the callee; with
  two RETs each call of `SetInputs` replaces what the last one contributed, and the users
  of the call are never redirected to it.

The others are in the properties of passing runs, as the exceptions these state:

* `basic_block.h:157` promises that successors are added to the target;
  `AddToSuccs(std::vector &&)` assigns them, so a target must have none (`FreshTargets`,
  assumed for `EdgeMirror`).
* `inlining.cpp:149` takes the last block of the RPO for the end block. In a callee
  with a loop it may be the loop's body, which then keeps the callee's graph
  and id. `BlocksAdopted` allows that for one block of each callee, every way out of which leads back to it.
* After `SplitOn` `bb_` of the moved instructions dangles (`README.md:34` of the repository
  says it is the block that contains the instruction): `BbNeverAnotherBlock` of
  InstrList, and `FaultsExplained` of Inlining for a second call in the block.
* A block with a self edge does not list itself as a dominator; its loop counts as
  irreducible and takes blocks over that another loop goes on listing (`Structured` in
  `LoopsAreNatural`).
* An irreducible loop takes the sources of its back edges over even if one is the header of
  another loop (`loop_analyzer.cpp:82`). `BuildLoopTree` finds loops only through the blocks that
  name them (`:129`), so a loop that loses its header this way never gets an outer loop
  (the exception in `OutLoopsEnd`; the proof of it first failed without).
* Two parallel edges to a header fail the assertion of `loop.h:32` (`AbortsOnlyOnParallel`).
* `holder_` is reserved for the blocks counted so far; a graph with unnumbered blocks
  can outgrow it (the condition of `ReserveSuffices`).
* `ReplaceInputForUsers` does not tell the new input of its users (`lost` in UseLists;
  `LeftoversExplained`; the constants in `UsersKnown`), and it asserts as soon as one user
  is a call. `TryRemoveInput` lacks the null test of `RemoveInput`, and both read a label in front of what
  they look for (`FaultsExplained` of UseLists).
* A parameter that Inlining replaced keeps its `users_` (`inlining.cpp:61-63`; `stale` in UseLists): it lists
  instructions that no longer use it, and a function called on it may fail over their slots.
* CheckElimination reads `at(1)` of any user of an array length (`FaultsExplained`).
* Inlining moves the callee instead of copying it, presumes an instruction behind the call,
  dereferences an end iterator for a constant the caller lacks, and asserts on a RET without
  exactly one input (`FaultsExplained`), which `basic_tests.cpp:43` builds;
  the only instruction of an exit block stays in its list (`NothingLost`).
  `inlining_tests.cpp:156` expects a PHI although the callee has a single RET.
* IrBuilder cannot connect any stream that jumps, and answers true for a malformed
  jump (`OutcomeExplained`); `SetEnd` after the walk gives the end an id that another
  block may have (`IdsSharedWithEnd`).

Two are ruled out by what InstrList assumes of clients: removing the only instruction
of a block leaves the opposite end pointer on it (`KeepOne`; Inlining does so), and an
instruction taken from the middle of a list and put in front of one keeps
its old `prev_` (`CleanInsert`).

## 5. Proofs

All theorems hold for every finite set of blocks; nothing is assumed but the
named ASSUMEs of the modules and, of InstrList, the calling discipline that is a hypothesis of its theorems.

*DomTreeProofs, the part about BlockGraph*, assumes `FreshTargets` (section 4 says why it is needed). The invariant `IInv` adds to `TypeOK` and `EdgeMirror` what the ids rest
on: every id is below `blocksNum`, ids are distinct, root and end hold 0 and 1
or are chosen before any other id, and unnumbered blocks are where `NewBlock`
and `SplitOn` expect them. Its parts (`IdInv`, `EdgeInv`,
`PointerInv`) are preserved action by action; `EdgeInv` is inductive only
together with the freshness of the targets, because `MoveSuccs` replaces a list.
The refinement to `FlowGraph` maps each action to an abstract step or a stutter.

*ControlFlowProofs, the part about Traversal*. The invariant says that the frames of the stack form a path
of distinct blocks from the root, that the discovered blocks are exactly those on
the stack or emitted, that a frame's successors before its position are
discovered, and that each emitted block has its successors emitted before it or
reaches itself through a block of the stack. At the end the stack is empty, so
the emitted blocks are closed under successors, and `ReachLeast` (in
`ReachabilityTheorems`) makes them the reachable ones. `Reach` is defined as
the least closed set instead of recursively: that makes these arguments first-order. The three theorems on answers are the three parts of the contract `Walk`, which `WalkSpec` states as one.

*StorageProofs, the part about Allocator*. The invariant adds to the checked properties that a storage
within its reserve still has its first capacity (`Room`), so that `AddElem` did not
move it, and that the buffers of pools have lower numbers than the next one (`Fresh`), so
that a new pool shares none. `ReserveAssumption` is used for the first object.

*DomTreeProofs, the part about DomTree*, rests on `DomSpec` alone, for every finite graph and any number of runs.
Domination is stated three ways and the proofs connect them: by simple paths (the reference in
the properties), by `Left`, what can be reached when a block is taken out (in
`ReachabilityTheorems`), and by what the pass compares. `DomInv` has four parts. `GraphInv`
is the invariant of BlockGraph, so that the lemmas of the first part on `RemoveBlock`,
`RestoreBlock` and walks apply; `PhaseInv` says that while a block is out,
`missing` is exactly what cannot be reached without it; `ListInv` says which dominators are
recorded by now, without repetition in a first run; `ImmInv` says that the immediate
dominators chosen so far are closest: in a first run those of the blocks outside `ToChoose`, later
all of them, since a second run that fails half way must leave them right. That there is a closest one, and
that the comparison of the lists finds it, rests on the dominators of a block being ordered
(`CutsComparable`, `CutsNested`, `CutsAntisymmetric` and `LastCut` of ReachabilityTheorems).

*StorageProofs, the part about InstrList*. The theorems carry `KeepOne` and `CleanInsert` as hypotheses, the
calling discipline of section 4 and the values the run gives; no finite number of blocks,
and no bound on instructions or calls, is assumed. `LinkInv` says that there are sequences, one for each
block, that every pointer agrees with (`ListOf`) and that share no instruction (`Apart`). Two facts connect
it with the walks of the code. The recursion of `Follow` is well-founded (`WalkExists`, by the least length for
which it would not be; no induction theorem is needed), and from the first of a linked list it meets the
list (`FollowIs`); it is never cut off, since a list without repetitions is no longer than there are
instructions (`InjectiveLength`, the only use of `InstrsAssumption`). Read along `prev_` the same lemma gives the part of the list up to an
instruction backwards (`MetBackwards`), whence `IsNextTo` is its order. Each operation then has a lemma (`SplitOnStep`, ...)
that names the sequences after it, and these are the step of `InstrSequences` too, so the invariant and the
refinement are one argument. `Null` in `prev_` of the first instruction and `next_` of the last has to be part of the
invariant: this is what an instruction that is put elsewhere with its old `prev_`
would break. `LinkInv`, with what `GetAllInstrs` answers for the sequences, was checked with TLC first.

*IrBuilderProofs* assumes of the streams that jump targets are positions in them
(`StreamsAssumption`). `BuilderInv` says how far the stream has been read and that blocks and buffer
laid end to end are what was read (`StreamPartitioned`), that the buffer ends at the
last instruction read (`BufferInv`), that each block that is not empty ends at an exit and each
exit read so far has its block (`ExitsInv`, `CutsInv`), when an empty block was made
(`EmptyInv`), and what the connecting loop has done (`PhaseInv`). The property is inductive
only together with these: whether the builder gets through depends on empty blocks and on
what each block ends with, which `OutcomeExplained` states of the stream alone.
`StreamPartitioned` says by positions, without concatenating, that the blocks are the stream: every
instruction has one place and places are in order.

*UseListsProofs*. `UseInv` is `UsersMirrorUses` and `FaultsExplained` with the types and the fact
that an instruction that is not live has only empty slots (`IdleInv`). It is kept entry by entry:
a use that is not listed (`Short`) is one of a user `lost` or of an `inlined` call, a listed user that is none (`Extra`) is that
of a `stale` parameter. Most of the module is about counting: `MakeNop` calls
`TryRemoveInput` as often as there are entries, and a dynamic instruction closes the gap
(`Packed`), so the lemmas say how many uses are left (`RankAbove`) and that closing
a gap loses none. No bound on instructions, inputs or calls is assumed.

*LoopAnalyzerProofs* assumes that no client has linked the preheader, a private
member of the analyzer (`EdgesAssumption`). `LoopInv` follows the three searches. While back edges
are collected, the stack is a path from the root (`StackInv`), and a source of a recorded back edge has been
left or its frame has ticked the edge off (`CollectInv`): recording it again
takes a second entry for the same successor, which is `AbortsOnlyOnParallel`. That the other two assertions hold
(`NothingListedTwice`) is the work of `ListsInv`: listed blocks have a loop, inner loops an outer one, and a loop that is not filled yet
lists its header alone. `OrderInv` says that a
block is left after all blocks it cuts off, because the search cannot leave it before (a
path that avoids it would exist otherwise). Hence the loops are filled from the inside to the outside:
`SearchInv` keeps the backward search among the blocks the header dominates, `FilledInv` says that a loop gets an outer
loop only from one that is filled later, and `RankInv` turns this into a ranking of the loops
in which outer loops have the higher rank; a set that leads only into itself would have no element of greatest rank.
`RobbedInv` explains the loops that have lost their header, `HeaderInv` that no two
share one, which bounds their number (`OneLoopPerBlock`, and with it `ReserveIsEnough`). The invariant
was checked with TLC on the graphs of the run `loops` before it was proved, except for `RankInv`, which quantifies over functions on Nat.

`NatInv` adds what structured graphs guarantee: every retreating edge leads to a dominator. It is the longest
proof of the project, in three layers. The first is about graphs alone: the lists of the dominator tree are exact (`DomsExact`),
domination is transitive and antisymmetric and the dominators of a block are linearly ordered, so two
natural loops with different headers are nested or disjoint (`LoopsNest`). The second is the run:
the edges recorded are the edges to dominators passed so far (`CollectNat`), so that each header gets one loop with all its
latches and keeps it (`LoopsNat`); the backward search stays in the
natural loop and, with nothing pending, has all of it (`SearchNat`); and since inner loops are searched first, a block not yet
taken, or a loop without an outer one, has the current header as the innermost around it (`BlocksNat`,
`NestNat`). The third is the end: the preheader put in front of the root changes neither
domination nor the natural loops of the others (`NewRootGraph`, `NewRootPaths`, `NewRootNat`), so the
tree, which is read on the new graph, is their nesting (`TreeNat`). `LoopsAreNatural` and
`LoopTreeIsNesting` follow. `NatInv` was checked with TLC on graphs of five blocks first.

*CheckEliminationProofs* assumes that the programs are well-formed (`ProgramsAssumption`), for any
number of blocks and instructions, any lengths of inputs and either kind of
instruction. Two lemmas about the listing carry the rest. If all predecessors of a block
come before it, back edges apart, a dominator comes before what it dominates
(`DominatorFirst`: take out the dominator, and the first listed block that can
then be reached though it should not be has an earlier predecessor that can). So
an instruction that a check replaces has not been visited (`OrderInv`, `VisitedInv`), which is why a
check that replaced others is never replaced: keepers need no chains and `Resolve` is one
step. `SafetyInv` says what the store has become of the program: kept code has the inputs
`Inputs` gives it, eliminated code is an empty NOP (`CodeInv`), a user list has only users, and all of them unless
the instruction is a keeper (`UsersInv`), and the users still pending use the check's first input, or
are eliminated checks that had it twice (`CheckInv`). `VisitedInv` says that an equal
check below a finished one is left only if their input is a keeper, which is
`LeftoversExplained` when nothing is left to visit. `SafetyInv` was checked with TLC on the programs of the run `check_elim`
before it was proved.

*ControlFlowProofs, the part about Inlining*, assumes that the programs are well-formed
(`ProgramsAssumption`) and that the names for nothing name nothing (`NamesAssumption`); nothing is assumed of the number of calls,
of the shape of callees between root and end, or of what is inlined twice. A call changes what the calls after it
find, so the invariants speak of sets of calls, which the step determines: those through, those
whose block is split, whose callee is adopted, entered, and left again. `SpliceInv` carries `ControlSpliced` and `BlocksAdopted`:
`Planned` says which calls are left and where the one at hand stands, `AtHome` that no
instruction of the caller gets into a callee, `FlowNow` what the edges are and `AdoptNow` whose the
blocks are, both as functions of the program and these sets. Of each callee at most one block may stay behind, and only
if every way out of it leads back (`LeftBehind`): a block that
ends the RPO was left first by the walk, so its successors were on the way to it. That one half of a block is connected with the other through the callee only
does not follow from what single edges are: `Halves`, `StaysIn`, `NoWayIn` and `Mirrored` say where
edges can lead, `Entered` and `Covered` what is reached, and cutting the exits then leaves a set of
blocks that is closed (`AllThrough`). A repeated callee needs no assumption: its root has lost its edges, so that
inlining it again faults (`Distinct`). `CodeInv` carries `NothingLost`: an instruction has one place
(`OnePlace`), a list is a beginning of what it was or the second half (`Truncated`, `Seconds`), no instruction of the caller but
a call is missing (`CallerKept`), a call that is through is only left where it was the only one of its list
(`CallsGone`), and an exit has lost its last instruction and nothing else (`Stripped`). `last_` and `bb_` are part of it (`Lasts`,
`Homes`), because the operations on lists go by them. `Fresh` suspends it for a repeated callee, whose lists
are changed twice before the fault. `CountReturns` counts instructions and the property blocks (`ReturnsCounted`).
Both invariants were checked with TLC on the programs of the run `inlining` before they were proved.

*Only model-checked*: termination (`Terminates` of Traversal, `RunReturns` of DomTree; liveness is
beyond the prover); and of Inlining `ValuesResolved` (`Meaning` follows a value through two calls, as many as
the programs of the run have; for any number it would be a recursion over data), `UsersKnown` and
`FaultsExplained` (they depend on which instructions use which across graphs, for which `WellFormed` asks nothing).

## 6. Not modelled, and the plan

Every pass and every data structure of the library has a module. Not modelled:

* the validity flags `rpo_valid_`, `dom_tree_valid_`, `loop_analysis_valid_`, with the
  cached answers of Traversal and a second loop analysis of the same graph (its loops
  live in an analyzer that may be gone);
* types, registers and literals of arguments, printing, opcode names, label tables: no state
  the properties depend on;
* the empty `compiler.cpp`, and the tests.

Next, theorems: `UsersKnown` and `FaultsExplained` of Inlining, with a notion of well-formed values
beside `WellFormed`.
