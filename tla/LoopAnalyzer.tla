----------------------------- MODULE LoopAnalyzer -----------------------------
(***************************************************************************)
(* Class LoopAnalyzer (passes/loop_analyzer.h, passes/loop_analyzer.cpp)   *)
(* with the Loop objects it owns and the colours of the blocks (marker.h), *)
(* on top of BlockGraph: one Run on a graph that no analysis has touched.  *)
(* Run has four phases: dominators, the depth-first search for back edges, *)
(* the backward searches that fill the loops, and the tree of the loops.   *)
(*                                                                         *)
(* The order of a successor list is open, as in BlockGraph; the walk of    *)
(* PopulateLoops follows the lists exactly as the search for back edges    *)
(* did, so its answer is the order in which that search left the blocks.   *)
(***************************************************************************)
EXTENDS BlockGraph, Sequences, FiniteSetsExt

CONSTANTS
  Entry, Exit,  \* root and end of the graph the pass runs on
  PreHeader,    \* root_preheader_ of the analyzer
  Edges,        \* the successor lists a client may have built, as bags
  Numberings    \* the ids the blocks may have when the analyzer is constructed

ASSUME EndsAssumption == /\ Entry \in Blocks /\ Exit \in Blocks /\ PreHeader \in Blocks
                         /\ Entry # Exit /\ PreHeader \notin {Entry, Exit}

\* The preheader is a member of the analyzer: no client has linked it.
ASSUME EdgesAssumption ==
  \A E \in Edges : /\ E \in [Blocks -> [Blocks -> Nat]]
                   /\ \A b \in Blocks : E[b][PreHeader] = 0 /\ E[PreHeader][b] = 0

VARIABLES
  doms,      \* dom_blocks_ of every block, as a set
  color,     \* the colours in marker_ of every block
  loop,      \* loop_ of every block: an index of holder, or NoLoop
  holder,    \* holder_, the loops
  capacity,  \* what the constructor reserved for holder_
  stack,     \* the active CollectBackEdges calls, with the successors to visit
  order,     \* the blocks the search left, then: those PopulateLoops has to do
  current,   \* the loop PopulateLoops fills
  pending,   \* the blocks LoopSearch was called for and has not looked at
  pc

loopVars == <<doms, color, loop, holder, capacity, stack, order, current, pending, pc>>
allVars == <<vars, loopVars>>

NoLoop == 0

\* Loop::Loop, and AddLoopBlock of the header.
NewLoop(h) == [header |-> h, blocks |-> {h}, backEdges |-> {}, inLoops |-> {},
               outLoop |-> NoLoop, irreducible |-> FALSE, isRoot |-> FALSE]

\* The pass DomTree on the current graph (module DomTree): a block lists the
\* root and the blocks without which it cannot be reached.
Without(d) == [b \in Blocks |-> SuccSets[b] \ {d}]
Avoiding(d) == IF d = root THEN {} ELSE Reach(Without(d), root) \ {d}
DomSets == LET R == Reachable
               cuts == {[without |-> d, reached |-> Avoiding(d)] : d \in R}
               needed(b) == {c \in cuts : c.without # b /\ b \notin c.reached}
           IN  [b \in Blocks |-> IF b \in R THEN {root} \cup {c.without : c \in needed(b)}
                                            ELSE {}]
IsDominatedBy(b, d) == d \in doms[b]

Painted(b, cs) == [color EXCEPT ![b] = @ \cup cs]

\* CleanMarkers unsets both colours of every block a walk meets.
Cleaned == LET R == Reachable IN [b \in Blocks |-> IF b \in R THEN {} ELSE color[b]]

Top == stack[Len(stack)]
Below == SubSeq(stack, 1, Len(stack) - 1)
Frame(b) == [bb |-> b, todo |-> succs[b]]
Rest(s) == [stack EXCEPT ![Len(stack)].todo[s] = @ - 1]

-----------------------------------------------------------------------------
\* Run up to CollectBackEdges on the root.
Run == /\ pc = "idle"
       /\ Traverse
       /\ doms' = DomSets
       /\ color' = Painted(root, {"grey", "black"})
       /\ stack' = << Frame(root) >>
       /\ pc' = "collect"
       /\ UNCHANGED <<loop, holder, capacity, order, current, pending>>

\* Mutant of BackEdge: every back edge gets a loop of its own.
BackEdgeAllocates(s) ==
  /\ pc = "collect" /\ Top.todo[s] > 0
  /\ "grey" \in color[s]
  /\ holder' = Append(holder, [NewLoop(s) EXCEPT !.backEdges = {Top.bb}])
  /\ loop' = [loop EXCEPT ![s] = Len(holder')]
  /\ stack' = Rest(s)
  /\ UNCHANGED <<vars, doms, color, capacity, order, current, pending, pc>>

\* A successor that is on the stack: CreateNewBackEdge.  AddBackEdge asserts
\* that the source is new.
BackEdge(s) ==
  /\ pc = "collect" /\ Top.todo[s] > 0
  /\ "grey" \in color[s]
  /\ LET l == IF loop[s] = NoLoop THEN Len(holder) + 1 ELSE loop[s]
         loops == IF loop[s] = NoLoop THEN Append(holder, NewLoop(s)) ELSE holder
     IN  IF Top.bb \in loops[l].backEdges
           THEN pc' = "abort" /\ UNCHANGED <<loop, holder, stack>>
           ELSE /\ holder' = [loops EXCEPT ![l].backEdges = @ \cup {Top.bb},
                                           ![l].irreducible = @ \/ ~IsDominatedBy(Top.bb, s)]
                /\ loop' = [loop EXCEPT ![s] = l]
                /\ stack' = Rest(s)
                /\ UNCHANGED pc
  /\ UNCHANGED <<vars, doms, color, capacity, order, current, pending>>

\* A successor the search has left: nothing happens.
Known(s) == /\ pc = "collect" /\ Top.todo[s] > 0
            /\ color[s] = {"black"}
            /\ stack' = Rest(s)
            /\ UNCHANGED <<vars, doms, color, loop, holder, capacity, order, current,
                           pending, pc>>

\* Mutant of Descend: a block the search has left is searched again.
DescendAgain(s) == /\ pc = "collect" /\ Top.todo[s] > 0
                   /\ "grey" \notin color[s]
                   /\ color' = Painted(s, {"grey", "black"})
                   /\ stack' = Append(Rest(s), Frame(s))
                   /\ UNCHANGED <<vars, doms, loop, holder, capacity, order, current,
                                  pending, pc>>

Descend(s) == /\ pc = "collect" /\ Top.todo[s] > 0
              /\ color[s] = {}
              /\ color' = Painted(s, {"grey", "black"})
              /\ stack' = Append(Rest(s), Frame(s))
              /\ UNCHANGED <<vars, doms, loop, holder, capacity, order, current, pending, pc>>

\* Mutant of Leave: the block stays grey.
LeaveGrey == /\ pc = "collect"
             /\ \A s \in Blocks : Top.todo[s] = 0
             /\ order' = Append(order, Top.bb)
             /\ stack' = Below
             /\ IF Below = << >> THEN color' = Cleaned /\ pc' = "populate"
                                 ELSE UNCHANGED <<color, pc>>
             /\ UNCHANGED <<vars, doms, loop, holder, capacity, current, pending>>

\* All successors done; when the root is left, CleanMarkers.
Leave == /\ pc = "collect"
         /\ \A s \in Blocks : Top.todo[s] = 0
         /\ order' = Append(order, Top.bb)
         /\ stack' = Below
         /\ IF Below = << >>
              THEN color' = Cleaned /\ pc' = "populate"
              ELSE color' = [color EXCEPT ![Top.bb] = @ \ {"grey"}] /\ UNCHANGED pc
         /\ UNCHANGED <<vars, doms, loop, holder, capacity, current, pending>>

-----------------------------------------------------------------------------
\* PopulateLoops on the next block of its walk.
IsLoopHeader(b) == loop[b] # NoLoop /\ holder[loop[b]].header = b

NotHeader == /\ pc = "populate" /\ order # << >>
             /\ ~IsLoopHeader(Head(order))
             /\ order' = Tail(order)
             /\ UNCHANGED <<vars, doms, color, loop, holder, capacity, stack, current,
                            pending, pc>>

\* AddLoopBlock and AddInLoop assert that loop l does not yet list a block of bs,
\* or a loop of ls.
Listed(l, bs, ls) == bs \cap holder[l].blocks # {} \/ ls \cap holder[l].inLoops # {}

Abort == /\ pc' = "abort"
         /\ UNCHANGED <<vars, doms, color, loop, holder, capacity, stack, order, current, pending>>

\* An irreducible loop takes the sources of its back edges, whatever loop they
\* are in already.
Sources(l) == {b \in holder[l].backEdges : loop[b] # l}

TakeSources ==
  /\ pc = "populate" /\ order # << >>
  /\ IsLoopHeader(Head(order))
  /\ LET l == loop[Head(order)]
     IN  /\ holder[l].irreducible
         /\ holder' = [holder EXCEPT ![l].blocks = @ \cup Sources(l)]
         /\ loop' = [b \in Blocks |-> IF b \in Sources(l) THEN l ELSE loop[b]]
  /\ order' = Tail(order)
  /\ UNCHANGED <<vars, doms, color, capacity, stack, current, pending, pc>>

SourcesListed ==
  /\ pc = "populate" /\ order # << >>
  /\ IsLoopHeader(Head(order))
  /\ LET l == loop[Head(order)] IN holder[l].irreducible /\ Listed(l, Sources(l), {})

FillIrreducible == IF SourcesListed THEN Abort ELSE TakeSources

FillReducible ==
  /\ pc = "populate" /\ order # << >>
  /\ IsLoopHeader(Head(order))
  /\ ~holder[loop[Head(order)]].irreducible
  /\ color' = Painted(Head(order), {"black"})
  /\ current' = loop[Head(order)]
  /\ pending' = holder[current'].backEdges
  /\ pc' = "search"
  /\ UNCHANGED <<vars, doms, loop, holder, capacity, stack, order>>

\* The loop of b has no outer loop yet, and its header is another.
Nests(b) == /\ loop[b] # NoLoop /\ holder[loop[b]].header # holder[current].header
            /\ holder[loop[b]].outLoop = NoLoop

\* b joins the loop, or its loop becomes an inner loop; then the predecessors.
Visit(b) ==
  /\ pc = "search" /\ b \in pending
  /\ IF "black" \in color[b]
       THEN /\ pending' = pending \ {b}
            /\ UNCHANGED <<color, loop, holder, id, blocksNum>>
       ELSE /\ color' = Painted(b, {"black"})
            /\ pending' = (pending \ {b}) \cup PredsOf({b})
            /\ IF loop[b] = NoLoop
                 THEN /\ loop' = [loop EXCEPT ![b] = current]
                      /\ holder' = [holder EXCEPT ![current].blocks = @ \cup {b}]
                      /\ NumberScanned({b}, {})
                 ELSE /\ IF Nests(b)
                           THEN holder' = [holder EXCEPT ![loop[b]].outLoop = current,
                                                         ![current].inLoops = @ \cup {loop[b]}]
                           ELSE UNCHANGED holder
                      /\ UNCHANGED <<loop, id, blocksNum>>
  /\ UNCHANGED <<succs, preds, attached, root, end, removed,
                 doms, capacity, stack, order, current, pc>>

VisitListed(b) ==
  /\ pc = "search" /\ b \in pending /\ "black" \notin color[b]
  /\ IF loop[b] = NoLoop THEN Listed(current, {b}, {})
                         ELSE Nests(b) /\ Listed(current, {}, {loop[b]})

\* LoopSearch on b.
LoopSearch(b) == IF VisitListed(b) THEN Abort ELSE Visit(b)

\* Mutant of LoopFilled: the colours are left for the next loop.
LoopFilledDirty == /\ pc = "search" /\ pending = {}
                   /\ order' = Tail(order)
                   /\ pc' = "populate"
                   /\ UNCHANGED <<vars, doms, color, loop, holder, capacity, stack,
                                  current, pending>>

LoopFilled == /\ pc = "search" /\ pending = {}
              /\ color' = Cleaned
              /\ order' = Tail(order)
              /\ pc' = "populate"
              /\ UNCHANGED <<vars, doms, loop, holder, capacity, stack, current, pending>>

-----------------------------------------------------------------------------
\* CreateRootLoop: the root is the header of the root loop, unless it is in a
\* loop already; then a new root is put in front of it.
CreateRootLoop ==
  /\ pc = "populate" /\ order = << >>
  /\ IF loop[root] # NoLoop THEN MoveRoot(PreHeader) ELSE UNCHANGED vars
  /\ holder' = Append(holder, [NewLoop(root') EXCEPT !.isRoot = TRUE])
  /\ loop' = [loop EXCEPT ![root'] = Len(holder')]
  /\ current' = Len(holder')
  /\ pc' = "tree"
  /\ UNCHANGED <<doms, color, capacity, stack, order, pending>>

\* Mutant of GatherLoops: loops without an outer loop are left alone.
GatherLoopsBlocksOnly ==
  /\ pc = "tree"
  /\ Traverse
  /\ LET homeless == {b \in Reachable : loop[b] = NoLoop}
     IN  /\ loop' = [b \in Blocks |-> IF b \in homeless THEN current ELSE loop[b]]
         /\ holder' = [holder EXCEPT ![current].blocks = @ \cup homeless]
  /\ pc' = "done"
  /\ UNCHANGED <<doms, color, capacity, stack, order, current, pending>>

\* Blocks without a loop join the root loop, loops without an outer loop become
\* its inner loops (the root loop is one of those).
Homeless == {b \in Reachable : loop[b] = NoLoop}
Outermost == {l \in {loop[b] : b \in Reachable \ Homeless} : holder[l].outLoop = NoLoop}

GatherLoops ==
  /\ pc = "tree"
  /\ Traverse
  /\ LET homeless == Homeless
         outermost == Outermost
     IN  /\ loop' = [b \in Blocks |-> IF b \in homeless THEN current ELSE loop[b]]
         /\ holder' = [l \in DOMAIN holder |->
              [holder[l] EXCEPT !.outLoop = IF l \in outermost THEN current ELSE @,
                                !.inLoops = IF l = current THEN @ \cup outermost ELSE @,
                                !.blocks = IF l = current THEN @ \cup homeless ELSE @]]
  /\ pc' = "done"
  /\ UNCHANGED <<doms, color, capacity, stack, order, current, pending>>

BuildLoopTree == IF pc = "tree" /\ Listed(current, Homeless, Outermost) THEN Abort ELSE GatherLoops

Step == \/ \E s \in Blocks : BackEdge(s) \/ Known(s) \/ Descend(s) \/ LoopSearch(s)
        \/ Leave \/ NotHeader \/ FillIrreducible \/ FillReducible \/ LoopFilled
        \/ CreateRootLoop \/ BuildLoopTree

LoopInit ==
  /\ \E E \in Edges : succs = E /\ preds = [b \in Blocks |-> [a \in Blocks |-> E[a][b]]]
  /\ id \in Numberings
  /\ id[Entry] = 0 /\ id[Exit] = 1
  /\ blocksNum = Cardinality({b \in Blocks : id[b] # NoId})
  /\ root = Entry /\ end = Exit
  /\ attached = Blocks \ {PreHeader}
  /\ removed = None
  /\ doms = [b \in Blocks |-> {}]
  /\ color = [b \in Blocks |-> {}]
  /\ loop = [b \in Blocks |-> NoLoop]
  /\ holder = << >>
  /\ capacity = blocksNum
  /\ stack = << >> /\ order = << >> /\ current = NoLoop /\ pending = {}
  /\ pc = "idle"

LoopNext == Run \/ Step

LoopSpec == LoopInit /\ [][LoopNext]_allVars

-----------------------------------------------------------------------------
(***************************************************************************)
(* The reference: natural loops.  The loop of a header holds the blocks    *)
(* from which a source of a back edge is reached without passing it.       *)
(***************************************************************************)
Done == pc = "done"

Dominates(d, b) == d = b \/ b \notin Avoiding(d)
Latches(h) == {b \in PredsOf({h}) \cap Reachable : Dominates(h, b)}
NaturalLoop(h, latches) ==
  [header |-> h, blocks |-> {b \in Reachable : b = h \/ latches \cap Reach(Without(h), b) # {}}]
NaturalLoops == {NaturalLoop(h, Latches(h)) : h \in {h \in Reachable : Latches(h) # {}}}

\* The header of the smallest of the loops L that b is in, the root if none.
Innermost(L, b) == LET around == {l \in L : b \in l.blocks}
                       smallest(l) == \A m \in around : l.blocks \subseteq m.blocks
                   IN  IF around = {} THEN root ELSE (CHOOSE l \in around : smallest(l)).header

\* No block has an edge to itself, and every cycle has a block that dominates the
\* others: without the edges to dominators, every set of blocks has one that no
\* edge leads from to the others.
Structured ==
  LET forward(b) == {s \in SuccSets[b] : ~IsDominatedBy(b, s)}
  IN  \A S \in SUBSET {b \in Blocks : doms[b] # {}} :
        S # {} => \E b \in S : forward(b) \cap S = {}

\* On a structured graph every block belongs to the innermost natural loop around
\* it, or to the root loop if there is none, and that loop alone lists it: the
\* tests read a loop both ways (graph_tests.cpp:576).  Elsewhere an irreducible
\* loop takes blocks over from loops that go on listing them
\* (loop_analyzer.cpp:82-88).
LoopsAreNatural ==
  Done /\ Structured =>
    LET L == NaturalLoops
    IN  \A b \in Reachable :
          /\ holder[loop[b]].header = Innermost(L, b)
          /\ \A l \in DOMAIN holder : b \in holder[l].blocks <=> l = loop[b]

\* There the outer loop of a loop is the innermost of the others around its
\* header, and the inner loops are those it is the outer loop of.
LoopTreeIsNesting ==
  Done /\ Structured =>
    LET L == NaturalLoops
        others(h) == {l \in L : l.header # h}
    IN  /\ \A l \in DOMAIN holder :
             LET h == holder[l].header
             IN  /\ holder[l].outLoop # NoLoop
                 /\ holder[holder[l].outLoop].header = Innermost(others(h), h)
        /\ \A l, m \in DOMAIN holder : m \in holder[l].inLoops <=> holder[m].outLoop = l

\* Climbing along the outer loops ends at the root loop: no other set of loops
\* leads only into itself, and a loop is left without an outer loop only if an
\* irreducible one took its header over (loop_analyzer.cpp:82-88), for
\* BuildLoopTree finds the loops through their blocks (loop_analyzer.cpp:129-136).
OutLoopsEnd ==
  Done => /\ \A S \in SUBSET {l \in DOMAIN holder : ~holder[l].isRoot} :
               S # {} => \E l \in S : holder[l].outLoop \notin S
          /\ \A l \in DOMAIN holder : holder[l].outLoop = NoLoop =>
               \E m \in DOMAIN holder \ {l} : /\ holder[m].irreducible
                                              /\ holder[l].header \in holder[m].backEdges

\* A loop never lists a block, a back edge or an inner loop twice: of the
\* assertions of AddBackEdge, AddLoopBlock and AddInLoop (loop.h:32, 43, 63) only
\* the first can fail, and only on a block that has the same successor twice.
AbortsOnlyOnParallel == pc = "abort" => \E a, b \in Blocks : succs[a][b] > 1

\* Blocks point into holder_: it must not grow beyond what the constructor
\* reserved for it ("Allocate memory", loop_analyzer.h:12), or their pointers
\* dangle (loop_analyzer.cpp:63; the indices that stand for them here do not, so
\* the other properties speak of runs within the reserve).  It does so only if
\* the graph had counted fewer blocks by then than the walk reaches.
ReserveSuffices == Len(holder) > capacity => Cardinality(Reachable) > capacity
=============================================================================
