------------------------------- MODULE Traversal -------------------------------
(***************************************************************************)
(* Class Traversal (passes/pass.h, passes/pass.cpp): the depth-first walk  *)
(* every pass starts with.  DFSWalk is recursive; its activation records   *)
(* are the stack here, one frame per call with the position of its loop    *)
(* over the successors.  The walk also numbers the blocks it meets         *)
(* (BasicBlock::GetId) and recognises the ones it has seen by their ids.   *)
(*                                                                         *)
(* Clients use an object the way those in src/ do: a fresh object for each *)
(* call, with need_to_rerun set.                                           *)
(***************************************************************************)
EXTENDS Reachability, Integers, FiniteSets

CONSTANTS Root,    \* root_ of the graph
          End,     \* end_ of the graph
          Graphs   \* the successor lists a client may build

ASSUME BlocksAssumption == IsFiniteSet(Blocks)
ASSUME EndsAssumption == Root \in Blocks /\ End \in Blocks /\ Root # End
ASSUME GraphsAssumption == Graphs \subseteq [Blocks -> Seq(Blocks)]

VARIABLES
  succs,       \* succs[b]: succs_ of block b
  id,          \* id[b]: id_ of block b, or NoId
  blocksNum,   \* blocks_num_ of the graph
  dfsBbs,      \* dfs_bbs_ of the Traversal object
  discovered,  \* discovered_bbs of the running Run
  stack,       \* the active DFSWalk calls, the innermost last
  pc           \* "idle": no call; "walk": in Run; "done": answer ready

vars == <<succs, id, blocksNum, dfsBbs, discovered, stack, pc>>

NoId == -1
Frames == [bb : Blocks, next : Nat \ {0}]

SuccSets == [b \in Blocks |-> {succs[b][i] : i \in 1 .. Len(succs[b])}]

Top == stack[Len(stack)]
Below == SubSeq(stack, 1, Len(stack) - 1)

\* BasicBlock::GetId: the id b has, or the one it gets now.
IdOf(b) == IF id[b] = NoId THEN blocksNum ELSE id[b]
GetId(b) == /\ id' = [id EXCEPT ![b] = IdOf(b)]
            /\ blocksNum' = IF id[b] = NoId THEN blocksNum + 1 ELSE blocksNum

\* Mutant of Enter: the block is not marked as discovered.
EnterUnmarked(b, frames) == /\ GetId(b)
                            /\ UNCHANGED discovered
                            /\ stack' = Append(frames, [bb |-> b, next |-> 1])

\* The entry of DFSWalk for a block not met before; frames is the stack of
\* its callers.
Enter(b, frames) == /\ GetId(b)
                    /\ discovered' = discovered \cup {IdOf(b)}
                    /\ stack' = Append(frames, [bb |-> b, next |-> 1])

\* The caller's loop moves past the successor it is about to visit.
Advanced == [stack EXCEPT ![Len(stack)].next = @ + 1]

-----------------------------------------------------------------------------
\* Mutant of Call: the object of the last call is used again; Run does not
\* clear dfs_bbs_.
CallReused == /\ pc # "walk"
              /\ pc' = "walk"
              /\ GetId(Root)
              /\ discovered' = {IdOf(Root)}
              /\ stack' = << [bb |-> Root, next |-> 1] >>
              /\ UNCHANGED <<succs, dfsBbs>>

\* Traversal{graph}.getDFS(true) up to the first DFSWalk, on the root.  Any
\* earlier object is gone.
Call == /\ pc # "walk"
        /\ pc' = "walk"
        /\ dfsBbs' = << >>
        /\ GetId(Root)
        /\ discovered' = {IdOf(Root)}
        /\ stack' = << [bb |-> Root, next |-> 1] >>
        /\ UNCHANGED succs

HasNextSucc == Top.next <= Len(succs[Top.bb])
NextSucc == succs[Top.bb][Top.next]

\* Mutant of Skip: the loop stays at the successor.
SkipStays == /\ pc = "walk"
             /\ HasNextSucc
             /\ IdOf(NextSucc) \in discovered
             /\ GetId(NextSucc)
             /\ UNCHANGED <<succs, dfsBbs, discovered, stack, pc>>

\* DFSWalk on a successor that was met before returns at once.
Skip == /\ pc = "walk"
        /\ HasNextSucc
        /\ IdOf(NextSucc) \in discovered
        /\ GetId(NextSucc)
        /\ stack' = Advanced
        /\ UNCHANGED <<succs, dfsBbs, discovered, pc>>

\* DFSWalk on a new successor.
Descend == /\ pc = "walk"
           /\ HasNextSucc
           /\ IdOf(NextSucc) \notin discovered
           /\ Enter(NextSucc, Advanced)
           /\ UNCHANGED <<succs, dfsBbs, pc>>

\* All successors are done: the block is emitted and DFSWalk returns, from the
\* root to Run.
Emit == /\ pc = "walk"
        /\ ~HasNextSucc
        /\ dfsBbs' = Append(dfsBbs, Top.bb)
        /\ stack' = Below
        /\ pc' = IF Below = << >> THEN "done" ELSE "walk"
        /\ UNCHANGED <<succs, id, blocksNum, discovered>>

DFSWalk == Skip \/ Descend \/ Emit

\* Root and end are numbered 0 and 1; earlier walks of the graph, when it had
\* other edges, may have numbered any other blocks.
Numbering == /\ id \in [Blocks -> NoId .. Cardinality(Blocks) - 1]
             /\ id[Root] = 0 /\ id[End] = 1
             /\ \A a, b \in Blocks : id[a] = id[b] /\ a # b => id[a] = NoId
             /\ blocksNum = Cardinality({b \in Blocks : id[b] # NoId})
             /\ \A b \in Blocks : id[b] < blocksNum

Init == /\ Numbering
        /\ succs \in Graphs
        /\ dfsBbs = << >>
        /\ discovered = {}
        /\ stack = << >>
        /\ pc = "idle"

Next == Call \/ DFSWalk

\* Once called, the walk runs to its end: it is sequential code.
Spec == Init /\ [][Next]_vars /\ WF_vars(DFSWalk)

-----------------------------------------------------------------------------
TypeOK == /\ succs \in Graphs
          /\ id \in [Blocks -> Nat \cup {NoId}]
          /\ blocksNum \in Nat
          /\ dfsBbs \in Seq(Blocks)
          /\ discovered \subseteq Nat
          /\ stack \in Seq(Frames)
          /\ pc \in {"idle", "walk", "done"}

\* The answer holds every block reachable from the root, each once, although
\* the walk tells blocks apart only by ids it assigns on the way.
AnswerListsReachable == pc = "done" => ListsReachable(SuccSets, Root, dfsBbs)

\* In the answer every successor precedes its block, back edges apart: in RPO,
\* Inlining and CheckElimination see definitions before uses.
AnswerSuccessorsFirst == pc = "done" => SuccessorsFirst(SuccSets, dfsBbs)

\* In the answer every block but the root precedes one of its predecessors.
AnswerPredecessorLater ==
  pc = "done" => SomePredecessorLater(SuccSets, Root, dfsBbs)

\* No two active DFSWalk calls are on the same block, so the recursion is never
\* deeper than the number of blocks, however many edges and cycles there are.
RecursionBounded == /\ \A i, j \in 1 .. Len(stack) :
                         stack[i].bb = stack[j].bb => i = j
                    /\ Len(stack) <= Cardinality(Blocks)

\* A walk that was started ends.
Terminates == pc = "walk" ~> pc = "done"

\* The class delivers what its clients rely on.
Abstract == INSTANCE Walk WITH
              calling <- (pc = "walk"),
              answer <- IF pc = "done" THEN dfsBbs ELSE << >>
WalkSpec == Abstract!Spec
=============================================================================
