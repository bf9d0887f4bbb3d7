-------------------------------- MODULE DomTree --------------------------------
(***************************************************************************)
(* Class DomTree (passes/pass.h, passes/pass.cpp) on top of BlockGraph.    *)
(* For every reachable block the pass takes it out of the graph, walks     *)
(* what is left, puts it back and records it as a dominator of the blocks  *)
(* the walk missed; then it picks the immediate dominators.  The lists it  *)
(* fills belong to the blocks and outlive the pass.                        *)
(*                                                                         *)
(* A walk is one step here: module Traversal is shown to answer with a     *)
(* listing of the reachable blocks in such an order, and any may come.     *)
(***************************************************************************)
EXTENDS BlockGraph, SequencesExt

CONSTANTS
  Entry, Exit,   \* root and end of the graph the pass runs on
  EdgeSets,      \* the edges a client may have added, as sets of pairs
  MaxRuns        \* bound: how often the pass runs on the graph

ASSUME EndsAssumption == Entry \in Blocks /\ Exit \in Blocks /\ Entry # Exit

VARIABLES
  domBlocks,  \* dom_blocks_ of every block
  immDom,     \* imm_dom_ of every block
  dfsBlocks,  \* the local dfs_blocks of SlowDomTree
  todo,       \* what is left of it for the current loop
  missing,    \* the result of CalcDifference, once the walk is done
  pc,         \* where SlowDomTree is
  result,     \* what the last Run returned
  runs        \* how many times Run was called

domVars == <<domBlocks, immDom, dfsBlocks, todo, missing, pc, result, runs>>
allVars == <<vars, domVars>>

IsDominatedBy(b, d) == Contains(domBlocks[b], d)

\* Mutant of Candidates: the two blocks are swapped.
CandidatesSwapped(doms) == {i \in DOMAIN doms :
                              \A j \in DOMAIN doms \ {i} : IsDominatedBy(doms[j], doms[i])}

\* CalcImmDominator: the first entry that all other entries dominate.
Candidates(doms) == {i \in DOMAIN doms :
                       \A j \in DOMAIN doms \ {i} : IsDominatedBy(doms[i], doms[j])}
CalcImmDominator(doms) == IF Candidates(doms) = {} THEN None
                                                   ELSE doms[Min(Candidates(doms))]

-----------------------------------------------------------------------------
\* Run, SlowDomTree: the walk that lists the blocks.
Start == /\ pc = "idle" /\ runs < MaxRuns
         /\ Traverse
         /\ dfsBlocks' \in SetToSeqs(Reachable)
         /\ SomePredecessorLater(SuccSets, root, dfsBlocks')
         /\ SuccessorsFirst(SuccSets, dfsBlocks')
         /\ todo' = dfsBlocks'
         /\ pc' = "remove"
         /\ runs' = runs + 1
         /\ UNCHANGED <<domBlocks, immDom, missing, result>>

\* The next block: its first dominator entry is the root; CalcDifference takes
\* it out of the graph.
TakeOut == /\ pc = "remove" /\ todo # << >>
           /\ RemoveBlock(Head(todo))
           /\ domBlocks' = [domBlocks EXCEPT ![Head(todo)] = Append(@, root)]
           /\ pc' = "walk"
           /\ UNCHANGED <<immDom, dfsBlocks, todo, missing, result, runs>>

\* Mutant of WalkWithout: the removed block stays in the difference.
WalkWithoutErase == /\ pc = "walk"
                    /\ Traverse
                    /\ missing' = ToSet(dfsBlocks) \ Reachable
                    /\ pc' = "restore"
                    /\ UNCHANGED <<domBlocks, immDom, dfsBlocks, todo, result, runs>>

\* CalcDifference: a walk of what is left.
WalkWithout == /\ pc = "walk"
               /\ Traverse
               /\ missing' = ToSet(dfsBlocks) \ (Reachable \cup {removed})
               /\ pc' = "restore"
               /\ UNCHANGED <<domBlocks, immDom, dfsBlocks, todo, result, runs>>

PutBack == /\ pc = "restore"
           /\ RestoreBlock
           /\ pc' = "record"
           /\ UNCHANGED <<domBlocks, immDom, dfsBlocks, todo, missing, result, runs>>

\* Each missed block is looked up by id (FindBlock, a walk) and gets the entry.
Record == /\ pc = "record"
          /\ IF missing = {} THEN UNCHANGED vars ELSE Traverse
          /\ domBlocks' = [b \in Blocks |-> IF b \in missing
                                              THEN Append(domBlocks[b], Head(todo))
                                              ELSE domBlocks[b]]
          /\ todo' = Tail(todo)
          /\ pc' = "remove"
          /\ UNCHANGED <<immDom, dfsBlocks, missing, result, runs>>

StartImm == /\ pc = "remove" /\ todo = << >>
            /\ todo' = dfsBlocks
            /\ pc' = "imm"
            /\ UNCHANGED <<vars, domBlocks, immDom, dfsBlocks, missing, result, runs>>

\* Mutant of SetImmDom: the loop never moves on to the next block.
SetImmDomStays == /\ pc = "imm" /\ todo # << >>
                  /\ LET dom == CalcImmDominator(domBlocks[Head(todo)])
                     IN  /\ dom # None
                         /\ immDom' = [immDom EXCEPT ![Head(todo)] = dom]
                  /\ UNCHANGED <<vars, domBlocks, dfsBlocks, todo, missing, pc, result, runs>>

\* A block without an immediate dominator makes Run return false at once.
SetImmDom == /\ pc = "imm" /\ todo # << >>
             /\ LET dom == CalcImmDominator(domBlocks[Head(todo)])
                IN  /\ dom # None
                    /\ immDom' = [immDom EXCEPT ![Head(todo)] = dom]
             /\ todo' = Tail(todo)
             /\ UNCHANGED <<vars, domBlocks, dfsBlocks, missing, pc, result, runs>>

Finish(res) == /\ pc' = "idle"
               /\ result' = res
               /\ UNCHANGED <<vars, domBlocks, immDom, dfsBlocks, todo, missing, runs>>

Fail == /\ pc = "imm" /\ todo # << >>
        /\ CalcImmDominator(domBlocks[Head(todo)]) = None
        /\ Finish("false")

Succeed == pc = "imm" /\ todo = << >> /\ Finish("true")

Step == \/ TakeOut \/ WalkWithout \/ PutBack \/ Record
        \/ StartImm \/ SetImmDom \/ Fail \/ Succeed

DomInit == /\ \E E \in EdgeSets :
                /\ succs = [a \in Blocks |-> [b \in Blocks |->
                              IF <<a, b>> \in E THEN 1 ELSE 0]]
                /\ preds = [b \in Blocks |-> [a \in Blocks |->
                              IF <<a, b>> \in E THEN 1 ELSE 0]]
           /\ WholeGraph(Entry, Exit)
           /\ attached = Blocks
           /\ removed = None
           /\ domBlocks = [b \in Blocks |-> << >>]
           /\ immDom = [b \in Blocks |-> None]
           /\ dfsBlocks = << >> /\ todo = << >> /\ missing = {}
           /\ pc = "idle" /\ result = "none" /\ runs = 0

DomNext == Start \/ Step

\* Once called, the pass runs to its end: it is sequential code.
DomSpec == DomInit /\ [][DomNext]_allVars /\ WF_allVars(Step)

-----------------------------------------------------------------------------
(***************************************************************************)
(* The reference: every simple path from the root, and the blocks on it.   *)
(***************************************************************************)
IsSimplePath(p) == /\ p[1] = root
                   /\ \A i, j \in DOMAIN p : p[i] = p[j] => i = j
                   /\ \A i \in DOMAIN p \ {1} : p[i] \in SuccsOf({p[i - 1]})

\* A path without a repetition has at most as many blocks as there are.
Paths == {p \in UNION {[1 .. n -> Blocks] : n \in 1 .. Cardinality(Blocks)} :
            IsSimplePath(p)}

StrictlyDominates(paths, d, b) ==
  d # b /\ \A p \in paths : Last(p) = b => Contains(p, d)

\* The reduced walks find exactly the blocks that lie on every path: beside
\* the root, which every block lists, a block lists its strict dominators,
\* however often the pass ran.
DominatorsCorrect ==
  pc = "idle" /\ runs > 0 =>
    LET R == Reachable
        paths == Paths
        strict == [b \in R |-> {d \in R : StrictlyDominates(paths, d, b)}]
    IN  \A b \in R : ToSet(domBlocks[b]) = {root} \cup strict[b]

\* The immediate dominator is the closest: all other strict dominators of the
\* block dominate it.  The root is its own.  A second run, which may give up
\* half way, does not spoil what the first one found.
ImmDomClosest ==
  pc = "idle" /\ runs > 0 =>
    LET R == Reachable
        paths == Paths
        strict == [b \in R |-> {d \in R : StrictlyDominates(paths, d, b)}]
    IN  \A b \in R : IF b = root
                       THEN immDom[b] = root
                       ELSE /\ immDom[b] \in strict[b]
                            /\ strict[b] \ {immDom[b]} \subseteq strict[immDom[b]]

\* FindBlock dereferences the end of its list if the walk did not meet the
\* block: it is only asked for blocks that can be reached again.
MissingIsFound == pc = "record" => missing \subseteq Reachable

\* The pass leaves no edge out: it never touches a predecessor list, and
\* whenever no block is taken out the successor lists agree with those again, but
\* for their order (RestoreBlock appends).
GraphIntact ==
  [][preds' = preds /\ (removed' = None => \A a, b \in Blocks : succs'[a][b] = preds'[b][a])]_allVars

\* The tests assert that Run succeeds (graph_tests.cpp:375) and LoopAnalyzer
\* takes its failure for a corrupted tree (loop_analyzer.cpp:9).  Nothing says
\* that it may only run once, and edits of the graph call for a new run.
RunSucceeds == result # "false"

\* A Run that was started returns.
RunReturns == pc # "idle" ~> pc = "idle"
=============================================================================
