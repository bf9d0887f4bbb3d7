--------------------------- MODULE LoopAnalyzerProofs ---------------------------
(***************************************************************************)
(* Proofs about LoopAnalyzer, for any finite set of blocks and any graph a *)
(* client may have built: how many loops there are, when an assertion of   *)
(* the analysis fails, where the chains of outer loops end, and, on a      *)
(* structured graph, that the loops and their tree are the natural ones.   *)
(***************************************************************************)
EXTENDS LoopAnalyzer, ReachabilityTheorems, SequenceTheorems

FrameType == [bb : Blocks, todo : [Blocks -> Nat]]
LoopType == [header : Blocks, blocks : SUBSET Blocks, backEdges : SUBSET Blocks,
             inLoops : SUBSET Nat, outLoop : Nat, irreducible : BOOLEAN, isRoot : BOOLEAN]

White == {}
Grey == {"grey", "black"}
Black == {"black"}

Loops == 1 .. Len(holder)
Positions == 1 .. Len(order)

\* d lies on every path from the root to the other block b.
Cuts(d, b) == /\ b \in Reachable /\ b # d
              /\ d = root \/ b \notin Left(SuccSets, root, d)

\* PopulateLoops has not come to the header of l; it has, or is there.
Waiting(l) == \E i \in Positions : order[i] = holder[l].header
Filled(l) == ~Waiting(l) \/ (pc = "search" /\ l = current)

TypeInv ==
  /\ pc \in {"idle", "collect", "abort", "populate", "search", "tree", "done"}
  /\ color \in [Blocks -> SUBSET {"grey", "black"}]
  /\ holder \in Seq(LoopType)
  /\ loop \in [Blocks -> 0 .. Len(holder)]
  /\ \A l \in Loops : holder[l].outLoop \in 0 .. Len(holder)
  /\ stack \in Seq(FrameType)
  /\ order \in Seq(Blocks)
  /\ current \in 0 .. Len(holder)
  /\ pending \subseteq Blocks
  /\ root \in Blocks

\* Both copies of every edge agree, and nothing leads to the preheader.
EdgesInv ==
  pc \notin {"tree", "done"} =>
    /\ succs \in [Blocks -> [Blocks -> Nat]]
    /\ \A a, b \in Blocks : preds[b][a] = succs[a][b]
    /\ \A b \in Blocks : succs[b][PreHeader] = 0
    /\ root = Entry

IdleInv == pc = "idle" => /\ color = [b \in Blocks |-> White]
                          /\ loop = [b \in Blocks |-> NoLoop]
                          /\ holder = << >> /\ order = << >>

DomsInv == pc \in {"collect", "populate", "search"} =>
             \A b \in Blocks : \A d \in doms[b] : d = root \/ b \notin Left(SuccSets, root, d)

\* The stack is a path from the root, and lists the grey blocks.  What a frame
\* has ticked off, and what a block that was left leads to, is discovered.
FrameOK(k) ==
  /\ color[stack[k].bb] = Grey
  /\ stack[k].bb \in Reachable
  /\ \A j \in 1 .. Len(stack) : stack[j].bb = stack[k].bb => j = k
  /\ k > 1 => stack[k].bb \in SuccSets[stack[k - 1].bb]
  /\ \A s \in Blocks : /\ stack[k].todo[s] <= succs[stack[k].bb][s]
                       /\ stack[k].todo[s] < succs[stack[k].bb][s] => color[s] # White

StackInv ==
  pc = "collect" =>
    /\ stack # << >> /\ stack[1].bb = root
    /\ \A b \in Blocks : color[b] \in {White, Grey, Black}
    /\ \A b \in Blocks : color[b] = Grey => \E k \in 1 .. Len(stack) : stack[k].bb = b
    /\ \A k \in 1 .. Len(stack) : FrameOK(k)
    /\ \A b \in Blocks : color[b] = Black => \A s \in SuccSets[b] : color[s] # White

\* A block is left after all blocks it cuts off.
OrderInv ==
  /\ pc = "collect" =>
       /\ \A b \in Blocks : color[b] = Black <=> \E i \in Positions : order[i] = b
       /\ \A j \in Positions : \A b \in Blocks : Cuts(order[j], b) => color[b] = Black
  /\ pc \in {"collect", "populate", "search"} =>
       \A i, j \in Positions : /\ order[i] = order[j] => i = j
                               /\ Cuts(order[j], order[i]) => i < j
                               /\ order[j] \in Reachable

\* Every loop has a header of its own.
HeaderInv == /\ \A l \in Loops : holder[l].header \in Reachable /\ loop[holder[l].header] # NoLoop
             /\ \A l, m \in Loops : holder[l].header = holder[m].header => l = m

\* While back edges are collected: a source of one has been left, or its frame
\* has ticked the edge off.
CollectInv ==
  pc = "collect" =>
    /\ \A b \in Blocks : loop[b] # NoLoop => holder[loop[b]].header = b
    /\ \A l \in Loops :
         /\ holder[l].outLoop = NoLoop
         /\ \A x \in holder[l].backEdges :
              \/ color[x] = Black
              \/ \E k \in 1 .. Len(stack) :
                   /\ stack[k].bb = x
                   /\ stack[k].todo[holder[l].header] < succs[x][holder[l].header]

ReducibleInv ==
  pc \in {"collect", "populate", "search"} =>
    \A l \in Loops : ~holder[l].irreducible =>
      \A x \in holder[l].backEdges : holder[l].header \in doms[x]

\* Only loops that are filled have other blocks than their header, and outer loops.
FilledInv ==
  pc \in {"populate", "search"} =>
    /\ \A b \in Blocks : \A l \in Loops : loop[b] = l => holder[l].header = b \/ Filled(l)
    /\ \A l, m \in Loops : holder[l].outLoop = m => ~Waiting(l) /\ Filled(m)

\* The backward search stays among the blocks the header cuts off.
SearchInv ==
  pc = "search" =>
    /\ current \in Loops /\ order # << >>
    /\ holder[current].header = order[1]
    /\ "black" \in color[order[1]]
    /\ \A b \in pending : b \in Reachable => b = order[1] \/ Cuts(order[1], b)

\* A loop that lost its header lost it to an irreducible loop.
RobbedInv ==
  pc \in {"populate", "search", "tree"} =>
    \A l \in Loops : \/ loop[holder[l].header] = l
                     \/ \E m \in Loops \ {l} : /\ holder[m].irreducible
                                               /\ holder[l].header \in holder[m].backEdges

\* Outer loops come later: in the order in which they are filled, the root loop last.
RankInv ==
  pc \in {"populate", "search", "tree"} =>
    \E f \in [Nat -> Nat], n \in Nat :
      \A l \in Loops :
        /\ f[l] < n
        /\ holder[l].outLoop # NoLoop => f[l] < f[holder[l].outLoop]
        /\ pc \in {"search", "tree"} /\ l # current => f[l] < f[current]

RootInv == /\ pc \notin {"tree", "done"} => \A l \in Loops : ~holder[l].isRoot
           /\ pc = "tree" => /\ current \in Loops
                             /\ \A l \in Loops : holder[l].isRoot <=> l = current

OutcomeInv == OutLoopsEnd /\ AbortsOnlyOnParallel

LoopInv == /\ TypeInv /\ EdgesInv /\ IdleInv /\ DomsInv /\ StackInv /\ OrderInv /\ HeaderInv
           /\ CollectInv /\ ReducibleInv /\ FilledInv /\ SearchInv /\ RobbedInv /\ RankInv
           /\ RootInv /\ OutcomeInv

-----------------------------------------------------------------------------
LEMMA SuccFacts ==
  /\ \A x, y \in Blocks : y \in SuccSets[x] <=> succs[x][y] > 0
  /\ \A x \in Blocks : SuccSets[x] \subseteq Blocks
BY DEF SuccSets, SuccsOf

\* Only the edges and the root decide what is reachable and what cuts it off.
LEMMA SameGraph ==
  ASSUME UNCHANGED <<succs, root>>
  PROVE  /\ SuccSets' = SuccSets /\ Reachable' = Reachable
         /\ \A d, b : Cuts(d, b)' <=> Cuts(d, b)
<1>1. SuccSets' = SuccSets
  BY DEF SuccSets, SuccsOf
<1>2. Reachable' = Reachable
  BY <1>1 DEF Reachable
<1> QED BY <1>1, <1>2 DEF Cuts

\* The blocks reached without passing d are those left when no edge leads to d.
LEMMA AvoidingIsLeft ==
  ASSUME NEW d, d # root
  PROVE  Avoiding(d) = Left(SuccSets, root, d) \ {d}
<1>1. Without(d) = NoEdgeTo(SuccSets, d)
  BY DEF Without, NoEdgeTo
<1> QED BY <1>1 DEF Avoiding, Left

\* The preheader cannot be reached before it becomes the root.
LEMMA PreHeaderUnreached ==
  ASSUME EdgesInv, pc \notin {"tree", "done"}
  PROVE  PreHeader \notin Reachable
<1> DEFINE S == Blocks \ {PreHeader}
<1>1. root \in S
  BY EndsAssumption DEF EdgesInv
<1>2. Closed(SuccSets, S)
  <2> SUFFICES ASSUME NEW x \in S, NEW y \in SuccSets[x] PROVE y \in S
    BY DEF Closed
  <2>1. y \in Blocks /\ succs[x][y] > 0
    BY SuccFacts
  <2>2. succs[x][PreHeader] = 0
    BY DEF EdgesInv
  <2> QED BY <2>1, <2>2
<1>3. Reach(SuccSets, root) \subseteq S
  BY <1>1, <1>2, ReachLeast
<1> QED BY <1>3 DEF Reachable

LEMMA ReachableFacts ==
  ASSUME root \in Blocks
  PROVE  /\ root \in Reachable /\ Reachable \subseteq Blocks
         /\ \A x \in Reachable : \A y \in SuccSets[x] : y \in Reachable
BY ReachSelf, ReachBlocks, ReachStep, SuccFacts DEF Reachable

LEMMA LoopFacts ==
  ASSUME TypeInv
  PROVE  /\ Len(holder) \in Nat /\ DOMAIN holder = Loops
         /\ \A l \in Loops : /\ holder[l] \in LoopType /\ holder[l].header \in Blocks
                             /\ holder[l].backEdges \subseteq Blocks
                             /\ holder[l].outLoop \in 0 .. Len(holder)
         /\ \A b \in Blocks : loop[b] # NoLoop => loop[b] \in Loops
<1>1. Len(holder) \in Nat /\ DOMAIN holder = Loops
  BY LenProperties DEF TypeInv, Loops
<1>2. \A l \in Loops : holder[l] \in LoopType /\ holder[l].outLoop \in 0 .. Len(holder)
  BY ElementOfSeq DEF TypeInv, Loops
<1>3. \A r \in LoopType : r.header \in Blocks /\ r.backEdges \subseteq Blocks
  BY DEF LoopType
<1>4. \A b \in Blocks : loop[b] # NoLoop => loop[b] \in Loops
  BY <1>1 DEF TypeInv, Loops, NoLoop
<1> QED BY <1>1, <1>2, <1>3, <1>4

LEMMA TopFacts ==
  ASSUME TypeInv, stack # << >>
  PROVE  /\ Len(stack) \in Nat \ {0} /\ Top = stack[Len(stack)]
         /\ Top \in FrameType /\ Top.bb \in Blocks /\ Top.todo \in [Blocks -> Nat]
         /\ \A k \in 1 .. Len(stack) : stack[k] \in FrameType
<1>1. Len(stack) \in Nat \ {0} /\ \A k \in 1 .. Len(stack) : stack[k] \in FrameType
  BY EmptySeq, LenProperties, ElementOfSeq DEF TypeInv
<1>2. Top = stack[Len(stack)]
  BY DEF Top
<1> QED BY <1>1, <1>2 DEF FrameType

\* When all edges of the top of the stack are ticked off, the blocks it cuts off
\* have been left: a path to one of them cannot get past the blocks that were
\* left and those on the stack without going through the top.
LEMMA CutOffAreLeft ==
  ASSUME TypeInv, EdgesInv, StackInv, pc = "collect",
         \A s \in Blocks : Top.todo[s] = 0
  PROVE  \A b \in Blocks : Cuts(Top.bb, b) => color[b] = Black
<1> DEFINE n == Len(stack)
           h == Top.bb
           L == IF h = root THEN {} ELSE Left(SuccSets, root, h)
           X == {b \in Blocks : color[b] = Black} \cup {h} \cup L
<1>0. stack # << >> /\ root \in Blocks
  BY DEF StackInv, TypeInv
<1>1. /\ n \in Nat \ {0} /\ h = stack[n].bb /\ h \in Blocks
      /\ \A k \in 1 .. n : stack[k].bb \in Blocks
  BY <1>0, TopFacts DEF FrameType
<1>2. /\ stack[1].bb = root
      /\ \A k \in 1 .. n : stack[k].bb = h => k = n
      /\ \A k \in 1 .. n : k > 1 => stack[k].bb \in SuccSets[stack[k - 1].bb]
  <2>1. n \in 1 .. n /\ \A k \in 1 .. n : FrameOK(k)
    BY <1>1 DEF StackInv
  <2>2. \A k \in 1 .. n : stack[n].bb = stack[k].bb => n = k
    BY <2>1 DEF FrameOK
  <2>3. \A k \in 1 .. n : k > 1 => stack[k].bb \in SuccSets[stack[k - 1].bb]
    BY <2>1 DEF FrameOK
  <2>4. stack[1].bb = root
    BY DEF StackInv
  <2> QED BY <1>1, <2>2, <2>3, <2>4
<1>3. \A k \in 1 .. n - 1 : stack[k].bb \in L
  <2>1. CASE h = root
    BY <1>1, <1>2, <2>1
  <2>2. CASE h # root
    <3> DEFINE wrong == {k \in 1 .. n - 1 : stack[k].bb \notin L}
    <3>1. L = Left(SuccSets, root, h)
      BY <2>2
    <3> HIDE DEF L
    <3> SUFFICES ASSUME wrong # {} PROVE FALSE
      OBVIOUS
    <3>2. wrong \in SUBSET Nat
      BY <1>1
    <3>3. PICK m \in wrong : \A k \in wrong : m <= k
      BY <3>2, LeastNatural
    <3>4. m # 1
      BY <1>0, <1>2, <3>1, LeftSelf
    <3>5. m \in 1 .. n - 1 /\ m - 1 \in 1 .. n - 1 /\ m \in 1 .. n /\ m > 1
      BY <1>1, <3>4
    <3>6. stack[m - 1].bb \in L
      BY <3>3, <3>5
    <3>7. stack[m].bb \in SuccSets[stack[m - 1].bb] /\ stack[m].bb # h
      BY <1>1, <1>2, <3>5
    <3>8. stack[m].bb \in L
      BY <1>1, <3>1, <3>5, <3>6, <3>7, LeftStep
    <3> QED BY <3>3, <3>8
  <2> QED BY <2>1, <2>2
<1>4. L \subseteq Blocks
  BY ReachBlocks DEF Left
<1>5. ASSUME NEW y \in Blocks, color[y] # White PROVE y \in X
  <2>1. CASE color[y] = Black
    BY <2>1
  <2>2. CASE color[y] = Grey
    <3>1. PICK k \in 1 .. n : stack[k].bb = y
      BY <2>2 DEF StackInv
    <3>2. k = n \/ k \in 1 .. n - 1
      BY <1>1
    <3> QED BY <1>1, <1>3, <3>1, <3>2
  <2> QED BY <1>5, <2>1, <2>2 DEF StackInv
<1>6. ASSUME NEW x \in X, NEW y \in SuccSets[x] PROVE y \in X
  <2>1. x \in Blocks /\ y \in Blocks /\ succs[x][y] > 0
    BY <1>1, <1>4, SuccFacts
  <2>2. CASE color[x] = Black
    <3>1. color[y] # White
      BY <2>1, <2>2 DEF StackInv
    <3> QED BY <1>5, <2>1, <3>1
  <2>3. CASE x = h
    <3>1. stack[n].todo[y] = 0 /\ n \in 1 .. n
      BY <1>1, <2>1 DEF Top
    <3>2. color[y] # White
      BY <1>1, <2>1, <2>3, <3>1 DEF StackInv, FrameOK
    <3> QED BY <1>5, <2>1, <3>2
  <2>4. CASE x \in L
    <3>1. h # root /\ L = Left(SuccSets, root, h)
      BY <2>4
    <3> QED BY <2>1, <2>4, <3>1, LeftStep
  <2> QED BY <2>2, <2>3, <2>4
<1>7. root \in X
  <2>1. CASE h = root
    BY <2>1
  <2>2. CASE h # root
    BY <1>0, <2>2, LeftSelf
  <2> QED BY <2>1, <2>2
<1>8. X \in SUBSET Blocks
  BY <1>1, <1>4
<1>9. Reachable \subseteq X
  <2> HIDE DEF X
  <2>1. Closed(SuccSets, X)
    BY <1>6 DEF Closed
  <2> QED BY <1>7, <1>8, <2>1, ReachLeast DEF Reachable
<1> QED BY <1>9 DEF Cuts

\* Ticking off one entry for s in the frame at the top.
LEMMA RestFacts ==
  ASSUME TypeInv, stack # << >>, NEW s \in Blocks, Top.todo[s] > 0
  PROVE  /\ Rest(s) \in Seq(FrameType) /\ Len(Rest(s)) = Len(stack)
         /\ \A k \in 1 .. Len(stack) :
              /\ Rest(s)[k] \in FrameType
              /\ Rest(s)[k].bb = stack[k].bb
              /\ \A t \in Blocks : Rest(s)[k].todo[t] =
                   IF k = Len(stack) /\ t = s THEN Top.todo[s] - 1 ELSE stack[k].todo[t]
<1> DEFINE n == Len(stack)
           top == [stack[n] EXCEPT !.todo[s] = stack[n].todo[s] - 1]
<1>1. /\ n \in Nat \ {0} /\ Top = stack[n] /\ stack[n] \in FrameType
      /\ stack[n].todo \in [Blocks -> Nat] /\ stack[n].bb \in Blocks
      /\ \A k \in 1 .. n : stack[k] \in FrameType
  BY TopFacts
<1>2. stack[n].todo[s] - 1 \in Nat
  BY <1>1
<1>3. /\ top \in FrameType /\ top.bb = stack[n].bb
      /\ \A t \in Blocks : top.todo[t] = IF t = s THEN stack[n].todo[s] - 1 ELSE stack[n].todo[t]
  BY <1>1, <1>2 DEF FrameType
<1>4. Rest(s) = [stack EXCEPT ![n] = top]
  BY DEF Rest
<1> HIDE DEF top
<1>5. /\ Rest(s) \in Seq(FrameType) /\ Len(Rest(s)) = n
      /\ \A k \in 1 .. n : Rest(s)[k] = IF k = n THEN top ELSE stack[k]
  <2>1. n \in 1 .. n /\ stack \in Seq(FrameType)
    BY <1>1 DEF TypeInv
  <2> QED BY <1>3, <1>4, <2>1, ExceptSeq
<1> QED BY <1>1, <1>3, <1>5

LEMMA InitInv == ASSUME LoopInit PROVE LoopInv
<1>1. PICK E \in Edges : succs = E /\ preds = [b \in Blocks |-> [a \in Blocks |-> E[a][b]]]
  BY DEF LoopInit
<1>2. pc = "idle" /\ holder = << >> /\ Len(holder) = 0 /\ Loops = {} /\ root = Entry
  BY EmptySeq DEF LoopInit, Loops
<1>3. EdgesInv
  BY <1>1, <1>2, EdgesAssumption, EndsAssumption DEF EdgesInv
<1>4. TypeInv
  <2>1. \A S : << >> \in Seq(S)
    BY EmptySeq
  <2>2. color \in [Blocks -> SUBSET {"grey", "black"}] /\ pending \subseteq Blocks
    BY DEF LoopInit
  <2>3. loop \in [Blocks -> 0 .. Len(holder)] /\ current \in 0 .. Len(holder)
    BY <1>2 DEF LoopInit, NoLoop
  <2> QED BY <1>2, <2>1, <2>2, <2>3, EndsAssumption DEF TypeInv, LoopInit
<1>5. IdleInv
  BY DEF IdleInv, LoopInit, White
<1>6. HeaderInv
  BY <1>2 DEF HeaderInv
<1>7. RootInv /\ OutcomeInv
  BY <1>2 DEF RootInv, OutcomeInv, OutLoopsEnd, Done, AbortsOnlyOnParallel
<1>8. DomsInv /\ StackInv /\ OrderInv /\ CollectInv /\ ReducibleInv /\ FilledInv
  BY <1>2 DEF DomsInv, StackInv, OrderInv, CollectInv, ReducibleInv, FilledInv
<1>9. SearchInv /\ RobbedInv /\ RankInv
  BY <1>2 DEF SearchInv, RobbedInv, RankInv
<1> QED BY <1>3, <1>4, <1>5, <1>6, <1>7, <1>8, <1>9 DEF LoopInv

\* What does not depend on the phase but on the graph and on the loops, when
\* neither changes in a step that collects back edges.
LEMMA CollectFrame ==
  ASSUME LoopInv, UNCHANGED <<vars, doms>>, pc = "collect", pc' \in {"collect", "abort"}
  PROVE  /\ EdgesInv' /\ IdleInv' /\ DomsInv' /\ FilledInv' /\ SearchInv'
         /\ RobbedInv' /\ RankInv' /\ OutLoopsEnd'
<1>1. SuccSets' = SuccSets /\ root' = root
  BY SameGraph DEF vars
<1>2. EdgesInv'
  BY DEF LoopInv, EdgesInv, vars
<1>3. DomsInv'
  BY <1>1 DEF LoopInv, DomsInv
<1>4. IdleInv' /\ FilledInv' /\ SearchInv' /\ RobbedInv' /\ RankInv' /\ OutLoopsEnd'
  BY DEF IdleInv, FilledInv, SearchInv, RobbedInv, RankInv, OutLoopsEnd, Done
<1> QED BY <1>2, <1>3, <1>4

\* Ticking off an edge to a discovered block keeps the stack in order, and no
\* edge that was ticked off is forgotten.
LEMMA TickKeepsStack ==
  ASSUME TypeInv, EdgesInv, StackInv, pc = "collect", pc' = "collect",
         UNCHANGED <<succs, root, color>>,
         NEW s \in Blocks, Top.todo[s] > 0, color[s] # White, stack' = Rest(s)
  PROVE  /\ StackInv' /\ stack' \in Seq(FrameType)
         /\ \A x, t \in Blocks :
              (\E k \in 1 .. Len(stack) : stack[k].bb = x /\ stack[k].todo[t] < succs[x][t])
                => \E k \in 1 .. Len(stack') : stack'[k].bb = x /\ stack'[k].todo[t] < succs'[x][t]
         /\ \E k \in 1 .. Len(stack') : stack'[k].bb = Top.bb /\ stack'[k].todo[s] < succs'[Top.bb][s]
<1> DEFINE n == Len(stack)
<1>1. /\ stack # << >> /\ n \in Nat \ {0} /\ Top = stack[n] /\ Top.bb \in Blocks
      /\ \A k \in 1 .. n : stack[k].bb \in Blocks /\ stack[k].todo \in [Blocks -> Nat]
  BY TopFacts DEF StackInv, FrameType
<1>2. /\ Rest(s) \in Seq(FrameType) /\ Len(Rest(s)) = n
      /\ \A k \in 1 .. n :
           /\ Rest(s)[k] \in FrameType
           /\ Rest(s)[k].bb = stack[k].bb
           /\ \A t \in Blocks : Rest(s)[k].todo[t] =
                IF k = n /\ t = s THEN Top.todo[s] - 1 ELSE stack[k].todo[t]
  BY <1>1, RestFacts
<1>3. SuccSets' = SuccSets /\ Reachable' = Reachable
  BY SameGraph
<1>4. \A a, b \in Blocks : succs[a][b] \in Nat
  BY DEF EdgesInv
<1>5. \A k \in 1 .. n : \A t \in Blocks :
        /\ stack'[k].todo[t] \in Nat /\ stack[k].todo[t] \in Nat
        /\ stack'[k].todo[t] <= stack[k].todo[t]
        /\ stack'[k].todo[t] # stack[k].todo[t] => t = s
  <2> SUFFICES ASSUME NEW k \in 1 .. n, NEW t \in Blocks
               PROVE  /\ stack'[k].todo[t] \in Nat /\ stack[k].todo[t] \in Nat
                      /\ stack'[k].todo[t] <= stack[k].todo[t]
                      /\ stack'[k].todo[t] # stack[k].todo[t] => t = s
    OBVIOUS
  <2>1. stack[k].todo[t] \in Nat /\ Top.todo[s] \in Nat \ {0}
    BY <1>1
  <2>2. stack'[k].todo[t] = IF k = n /\ t = s THEN Top.todo[s] - 1 ELSE stack[k].todo[t]
    BY <1>2
  <2> QED BY <1>1, <2>1, <2>2
<1>6. Len(stack') = n /\ \A k \in 1 .. n : stack'[k].bb = stack[k].bb
  BY <1>2
<1>7. stack' # << >>
  BY <1>1, <1>6, EmptySeq
<1>8. ASSUME NEW k \in 1 .. n, NEW t \in Blocks
      PROVE  /\ stack'[k].todo[t] <= succs[stack[k].bb][t]
             /\ stack'[k].todo[t] < succs[stack[k].bb][t] => color[t] # White
  <2>1. /\ stack[k].todo[t] <= succs[stack[k].bb][t] /\ succs[stack[k].bb][t] \in Nat
        /\ stack[k].todo[t] < succs[stack[k].bb][t] => color[t] # White
    BY <1>1, <1>4 DEF StackInv, FrameOK
  <2> QED BY <1>5, <2>1
<1>9. StackInv'
  <2>1. /\ stack'[1].bb = root'
        /\ \A b \in Blocks : color'[b] = Grey => \E k \in 1 .. n : stack'[k].bb = b
    <3>1. 1 \in 1 .. n
      BY <1>1
    <3>2. /\ stack[1].bb = root
          /\ \A b \in Blocks : color[b] = Grey => \E k \in 1 .. n : stack[k].bb = b
      BY DEF StackInv
    <3> QED BY <1>6, <3>1, <3>2
  <2>2. ASSUME NEW k \in 1 .. n
        PROVE  FrameOK(k)'
    <3>1. k > 1 => k - 1 \in 1 .. n
      BY <1>1
    <3>2. stack'[k].bb = stack[k].bb /\ (k > 1 => stack'[k - 1].bb = stack[k - 1].bb)
      BY <1>6, <3>1
    <3>3. /\ color[stack[k].bb] = Grey /\ stack[k].bb \in Reachable
          /\ \A j \in 1 .. n : stack[j].bb = stack[k].bb => j = k
          /\ k > 1 => stack[k].bb \in SuccSets[stack[k - 1].bb]
      BY DEF StackInv, FrameOK
    <3>4. color'[stack'[k].bb] = Grey /\ stack'[k].bb \in Reachable'
      BY <1>3, <3>2, <3>3
    <3>5. \A j \in 1 .. n : stack'[j].bb = stack'[k].bb => j = k
      BY <1>6, <3>3
    <3>6. k > 1 => stack'[k].bb \in SuccSets'[stack'[k - 1].bb]
      BY <1>3, <3>2, <3>3
    <3> QED BY <1>6, <1>8, <3>2, <3>4, <3>5, <3>6 DEF FrameOK
  <2> QED BY <1>3, <1>6, <1>7, <2>1, <2>2 DEF StackInv
<1>10. ASSUME NEW x \in Blocks, NEW t \in Blocks, NEW k \in 1 .. n,
              stack[k].bb = x, stack[k].todo[t] < succs[x][t]
       PROVE  \E m \in 1 .. Len(stack') : stack'[m].bb = x /\ stack'[m].todo[t] < succs'[x][t]
  <2>1. stack'[k].bb = x /\ stack'[k].todo[t] < succs'[x][t]
    BY <1>4, <1>5, <1>6, <1>10
  <2> QED BY <1>6, <2>1
<1>11. stack'[n].bb = Top.bb /\ stack'[n].todo[s] < succs'[Top.bb][s] /\ n \in 1 .. Len(stack')
  <2>1. Top.todo[s] <= succs[Top.bb][s] /\ succs[Top.bb][s] \in Nat /\ Top.todo[s] \in Nat
    BY <1>1, <1>4 DEF StackInv, FrameOK
  <2>2. stack'[n].todo[s] = Top.todo[s] - 1
    BY <1>1, <1>2
  <2> QED BY <1>1, <1>6, <2>1, <2>2
<1> QED BY <1>2, <1>9, <1>10, <1>11

LEMMA KnownStep ==
  ASSUME LoopInv, NEW s \in Blocks, Known(s)
  PROVE  LoopInv'
<1> USE DEF LoopInv
<1>1. /\ pc = "collect" /\ pc' = "collect" /\ Top.todo[s] > 0 /\ color[s] = Black
      /\ UNCHANGED <<vars, doms, color, loop, holder, order, current, pending>>
      /\ stack' = Rest(s) /\ UNCHANGED <<succs, root>>
  BY DEF Known, Black, vars
<1>2. /\ StackInv' /\ stack' \in Seq(FrameType)
      /\ \A x, t \in Blocks :
           (\E k \in 1 .. Len(stack) : stack[k].bb = x /\ stack[k].todo[t] < succs[x][t])
             => \E k \in 1 .. Len(stack') : stack'[k].bb = x /\ stack'[k].todo[t] < succs'[x][t]
  BY <1>1, TickKeepsStack DEF White, Black
<1>3. TypeInv'
  BY <1>1, <1>2 DEF TypeInv, Loops
<1>4. /\ EdgesInv' /\ IdleInv' /\ DomsInv' /\ FilledInv' /\ SearchInv'
      /\ RobbedInv' /\ RankInv' /\ OutLoopsEnd'
  BY <1>1, CollectFrame
<1>5. /\ Reachable' = Reachable
      /\ \A d, b : Cuts(d, b)' <=> Cuts(d, b)
  BY <1>1, SameGraph
<1>6. OrderInv'
  BY <1>1, <1>5 DEF OrderInv, Positions
<1>7. HeaderInv' /\ ReducibleInv' /\ RootInv'
  BY <1>1, <1>5 DEF HeaderInv, ReducibleInv, RootInv, Loops
<1>8. CollectInv'
  <2>1. \A l \in Loops : holder[l].header \in Blocks /\ holder[l].backEdges \subseteq Blocks
    BY LoopFacts
  <2>2. Loops' = Loops
    BY <1>1 DEF Loops
  <2>3. ASSUME NEW l \in Loops, NEW x \in holder[l].backEdges
        PROVE  \/ color'[x] = Black
               \/ \E k \in 1 .. Len(stack') :
                    /\ stack'[k].bb = x
                    /\ stack'[k].todo[holder[l].header] < succs'[x][holder[l].header]
    <3>1. \/ color[x] = Black
          \/ \E k \in 1 .. Len(stack) :
               /\ stack[k].bb = x
               /\ stack[k].todo[holder[l].header] < succs[x][holder[l].header]
      BY <1>1 DEF CollectInv
    <3>2. x \in Blocks /\ holder[l].header \in Blocks /\ color' = color
      BY <1>1, <2>1
    <3> QED BY <1>2, <3>1, <3>2
  <2> QED BY <1>1, <2>2, <2>3 DEF CollectInv
<1>9. AbortsOnlyOnParallel'
  BY <1>1 DEF AbortsOnlyOnParallel
<1> QED BY <1>2, <1>3, <1>4, <1>6, <1>7, <1>8, <1>9 DEF OutcomeInv

LEMMA DescendStep ==
  ASSUME LoopInv, NEW s \in Blocks, Descend(s)
  PROVE  LoopInv'
<1> USE DEF LoopInv
<1> DEFINE n == Len(stack)
<1>1. /\ pc = "collect" /\ pc' = "collect" /\ Top.todo[s] > 0 /\ color[s] = White
      /\ UNCHANGED <<vars, doms, loop, holder, order, current, pending>>
      /\ stack' = Append(Rest(s), Frame(s)) /\ UNCHANGED <<succs, root>>
      /\ color' = [color EXCEPT ![s] = White \cup Grey]
  BY DEF Descend, Painted, White, Grey, vars
<1>2. /\ stack # << >> /\ n \in Nat \ {0} /\ Top = stack[n] /\ Top.bb \in Blocks
      /\ \A k \in 1 .. n : stack[k].bb \in Blocks /\ stack[k].todo \in [Blocks -> Nat]
  BY <1>1, TopFacts DEF StackInv, FrameType
<1>3. /\ Rest(s) \in Seq(FrameType) /\ Len(Rest(s)) = n
      /\ \A k \in 1 .. n :
           /\ Rest(s)[k] \in FrameType
           /\ Rest(s)[k].bb = stack[k].bb
           /\ \A t \in Blocks : Rest(s)[k].todo[t] =
                IF k = n /\ t = s THEN Top.todo[s] - 1 ELSE stack[k].todo[t]
  BY <1>1, <1>2, RestFacts
<1>4. Frame(s) \in FrameType /\ Frame(s).bb = s /\ Frame(s).todo = succs[s]
  BY <1>1 DEF Frame, FrameType, EdgesInv
<1>5. /\ stack' \in Seq(FrameType) /\ Len(stack') = n + 1 /\ stack' # << >>
      /\ \A k \in 1 .. n : stack'[k] = Rest(s)[k]
      /\ stack'[n + 1] = Frame(s)
  BY <1>1, <1>3, <1>4, AppendProperties
<1>5a. \A k \in 1 .. n :
         /\ stack'[k].bb = stack[k].bb
         /\ \A t \in Blocks : stack'[k].todo[t] =
              IF k = n /\ t = s THEN stack[n].todo[s] - 1 ELSE stack[k].todo[t]
  <2> SUFFICES ASSUME NEW k \in 1 .. n
               PROVE  /\ stack'[k].bb = stack[k].bb
                      /\ \A t \in Blocks : stack'[k].todo[t] =
                           IF k = n /\ t = s THEN stack[n].todo[s] - 1 ELSE stack[k].todo[t]
    OBVIOUS
  <2>1. stack'[k] = Rest(s)[k] /\ Top = stack[n]
    BY <1>2, <1>5
  <2> QED BY <1>3, <2>1
<1>6. \A b \in Blocks : color'[b] = IF b = s THEN Grey ELSE color[b]
  BY <1>1 DEF TypeInv, White
<1>7. color' \in [Blocks -> SUBSET {"grey", "black"}]
  BY <1>1 DEF TypeInv, White, Grey
<1>8. TypeInv'
  BY <1>1, <1>5, <1>7 DEF TypeInv, Loops
<1>9. /\ EdgesInv' /\ IdleInv' /\ DomsInv' /\ FilledInv' /\ SearchInv'
      /\ RobbedInv' /\ RankInv' /\ OutLoopsEnd'
  BY <1>1, CollectFrame
<1>10. /\ Reachable' = Reachable /\ SuccSets' = SuccSets
       /\ \A d, b : Cuts(d, b)' <=> Cuts(d, b)
  BY <1>1, SameGraph
<1>11. \A a, b \in Blocks : succs[a][b] \in Nat
  BY <1>1 DEF EdgesInv
<1>12. Grey # White /\ Grey # Black /\ Black # White
  BY DEF Grey, White, Black
<1>13. \A k \in 1 .. n : FrameOK(k) /\ stack[k].bb # s
  BY <1>1, <1>12 DEF StackInv, FrameOK
<1>14. \A k \in 1 .. n : \A t \in Blocks :
         /\ stack'[k].todo[t] <= succs[stack[k].bb][t]
         /\ stack'[k].todo[t] < succs[stack[k].bb][t] => color'[t] # White
  <2> SUFFICES ASSUME NEW k \in 1 .. n, NEW t \in Blocks
               PROVE  /\ stack'[k].todo[t] <= succs[stack[k].bb][t]
                      /\ stack'[k].todo[t] < succs[stack[k].bb][t] => color'[t] # White
    OBVIOUS
  <2>1. /\ stack[k].todo[t] <= succs[stack[k].bb][t]
        /\ stack[k].todo[t] < succs[stack[k].bb][t] => color[t] # White
        /\ succs[stack[k].bb][t] \in Nat /\ stack[k].todo[t] \in Nat
    BY <1>2, <1>11, <1>13 DEF FrameOK
  <2>2. stack'[k].todo[t] = IF k = n /\ t = s THEN stack[n].todo[s] - 1 ELSE stack[k].todo[t]
    BY <1>5a
  <2>3. stack[n].todo[s] \in Nat
    BY <1>2
  <2> QED BY <1>6, <1>12, <2>1, <2>2, <2>3
<1>15. \A k \in 1 .. n + 1 : stack'[k].bb = IF k = n + 1 THEN s ELSE stack[k].bb
  <2>1. stack'[n + 1].bb = s
    BY <1>4, <1>5
  <2>2. \A k \in 1 .. n + 1 : k # n + 1 => k \in 1 .. n
    BY <1>2
  <2> QED BY <1>5a, <2>1, <2>2
<1>16. s \in Reachable /\ s \in SuccSets[stack[n].bb]
  <2>1. n \in 1 .. n
    BY <1>2
  <2>2. /\ stack[n].todo[s] <= succs[stack[n].bb][s] /\ stack[n].bb \in Reachable
        /\ stack[n].todo[s] \in Nat
    BY <1>2, <1>13, <2>1 DEF FrameOK
  <2>3. succs[stack[n].bb][s] > 0
    BY <1>1, <1>2, <1>11, <2>2
  <2> QED BY <1>2, <2>2, <2>3, SuccFacts, ReachableFacts DEF TypeInv
<1>17. ASSUME NEW k \in 1 .. n + 1 PROVE FrameOK(k)'
  <2>1. CASE k \in 1 .. n
    <3>1. k > 1 => k - 1 \in 1 .. n
      BY <1>2, <2>1
    <3>2. stack'[k].bb = stack[k].bb /\ (k > 1 => stack'[k - 1].bb = stack[k - 1].bb)
      BY <1>5a, <2>1, <3>1
    <3>3. /\ color[stack[k].bb] = Grey /\ stack[k].bb \in Reachable
          /\ \A j \in 1 .. n : stack[j].bb = stack[k].bb => j = k
          /\ k > 1 => stack[k].bb \in SuccSets[stack[k - 1].bb]
      BY <1>13, <2>1 DEF FrameOK
    <3>4. color'[stack'[k].bb] = Grey /\ stack'[k].bb \in Reachable'
      BY <1>2, <1>6, <1>10, <2>1, <3>2, <3>3
    <3>5. \A j \in 1 .. n + 1 : stack'[j].bb = stack'[k].bb => j = k
      BY <1>2, <1>13, <1>15, <2>1, <3>3
    <3>6. k > 1 => stack'[k].bb \in SuccSets'[stack'[k - 1].bb]
      BY <1>10, <3>2, <3>3
    <3>7. \A t \in Blocks : /\ stack'[k].todo[t] <= succs'[stack'[k].bb][t]
                            /\ stack'[k].todo[t] < succs'[stack'[k].bb][t] => color'[t] # White
      BY <1>1, <1>14, <2>1, <3>2
    <3> QED BY <1>5, <3>4, <3>5, <3>6, <3>7 DEF FrameOK
  <2>2. CASE k = n + 1
    <3>1. stack'[k].bb = s /\ k - 1 = n /\ k > 1 /\ stack'[k - 1].bb = stack[n].bb
      BY <1>2, <1>15, <2>2
    <3>2. \A j \in 1 .. n + 1 : stack'[j].bb = stack'[k].bb => j = k
      BY <1>2, <1>13, <1>15, <2>2
    <3>3. \A t \in Blocks : /\ stack'[k].todo[t] <= succs'[stack'[k].bb][t]
                            /\ ~(stack'[k].todo[t] < succs'[stack'[k].bb][t])
      <4>1. stack'[k].todo = succs[s] /\ succs' = succs
        BY <1>1, <1>4, <1>5, <2>2
      <4>2. \A t \in Blocks : succs[s][t] <= succs[s][t] /\ ~(succs[s][t] < succs[s][t])
        BY <1>11
      <4> QED BY <3>1, <4>1, <4>2
    <3> QED BY <1>5, <1>6, <1>10, <1>16, <3>1, <3>2, <3>3 DEF FrameOK
  <2> QED BY <1>2, <2>1, <2>2
<1>18. StackInv'
  <2>1. stack'[1].bb = root'
    <3>1. 1 \in 1 .. n
      BY <1>2
    <3>2. stack[1].bb = root /\ root' = root
      BY <1>1 DEF StackInv
    <3> QED BY <1>5a, <3>1, <3>2
  <2>2. \A b \in Blocks : color'[b] \in {White, Grey, Black}
    BY <1>1, <1>6 DEF StackInv
  <2>3. ASSUME NEW b \in Blocks, color'[b] = Grey
        PROVE  \E k \in 1 .. n + 1 : stack'[k].bb = b
    <3>1. CASE b = s
      BY <1>2, <1>15, <3>1
    <3>2. CASE b # s
      <4>1. PICK k \in 1 .. n : stack[k].bb = b
        BY <1>1, <1>6, <2>3, <3>2 DEF StackInv
      <4>2. k \in 1 .. n + 1 /\ k # n + 1
        BY <1>2
      <4> QED BY <1>15, <4>1, <4>2
    <3> QED BY <3>1, <3>2
  <2>4. \A b \in Blocks : color'[b] = Black => \A t \in SuccSets'[b] : color'[t] # White
    <3> SUFFICES ASSUME NEW b \in Blocks, color'[b] = Black, NEW t \in SuccSets[b]
                 PROVE  color'[t] # White
      BY <1>10
    <3>1. t \in Blocks /\ color[b] = Black
      BY <1>6, <1>12, SuccFacts
    <3>2. color[t] # White
      BY <1>1, <3>1 DEF StackInv
    <3> QED BY <1>6, <1>12, <3>1, <3>2
  <2> QED BY <1>5, <1>17, <2>1, <2>2, <2>3, <2>4 DEF StackInv
<1>19. OrderInv'
  <2>1. \A b \in Blocks : color'[b] = Black <=> color[b] = Black
    BY <1>1, <1>6, <1>12
  <2>2. Positions' = Positions
    BY <1>1 DEF Positions
  <2> QED BY <1>1, <1>10, <2>1, <2>2 DEF OrderInv
<1>20. HeaderInv' /\ ReducibleInv' /\ RootInv'
  BY <1>1, <1>10 DEF HeaderInv, ReducibleInv, RootInv, Loops
<1>21. CollectInv'
  <2>1. \A l \in Loops : holder[l].header \in Blocks /\ holder[l].backEdges \subseteq Blocks
    BY LoopFacts
  <2>2. Loops' = Loops
    BY <1>1 DEF Loops
  <2>3. ASSUME NEW l \in Loops, NEW x \in holder[l].backEdges
        PROVE  \/ color'[x] = Black
               \/ \E k \in 1 .. Len(stack') :
                    /\ stack'[k].bb = x
                    /\ stack'[k].todo[holder[l].header] < succs'[x][holder[l].header]
    <3>1. CASE color[x] = Black
      BY <1>1, <1>6, <1>12, <2>1, <3>1
    <3>2. CASE color[x] # Black
      <4> DEFINE t == holder[l].header
      <4>1. PICK k \in 1 .. n : stack[k].bb = x /\ stack[k].todo[t] < succs[x][t]
        BY <1>1, <3>2 DEF CollectInv
      <4>2. t \in Blocks /\ x \in Blocks
        BY <2>1
      <4> HIDE DEF t
      <4>3. stack'[k].todo[t] = IF k = n /\ t = s THEN stack[n].todo[s] - 1 ELSE stack[k].todo[t]
        BY <1>5a, <4>1, <4>2
      <4>4. stack[k].todo[t] \in Nat /\ stack[n].todo[s] \in Nat /\ succs[x][t] \in Nat
        BY <1>2, <1>11, <4>2
      <4>5. stack'[k].todo[t] < succs'[x][t]
        BY <1>1, <4>1, <4>3, <4>4
      <4>6. stack'[k].bb = x
        BY <1>5a, <4>1
      <4>7. k \in 1 .. n + 1
        BY <1>2, <4>1
      <4> QED BY <1>5, <4>5, <4>6, <4>7 DEF t
    <3> QED BY <3>1, <3>2
  <2> QED BY <1>1, <2>2, <2>3 DEF CollectInv
<1>22. AbortsOnlyOnParallel'
  BY <1>1 DEF AbortsOnlyOnParallel
<1> QED BY <1>8, <1>9, <1>18, <1>19, <1>20, <1>21, <1>22 DEF OutcomeInv

-----------------------------------------------------------------------------
\* The loop that CreateNewBackEdge finds or allocates, and the loops with the
\* back edge from the top of the stack.
LoopOf(s) == IF loop[s] = NoLoop THEN Len(holder) + 1 ELSE loop[s]
WithLoop(s) == IF loop[s] = NoLoop THEN Append(holder, NewLoop(s)) ELSE holder
WithBackEdge(s) ==
  [WithLoop(s) EXCEPT ![LoopOf(s)].backEdges = @ \cup {Top.bb},
                      ![LoopOf(s)].irreducible = @ \/ ~IsDominatedBy(Top.bb, s)]

LEMMA WithBackEdgeFacts ==
  ASSUME TypeInv, CollectInv, RootInv, pc = "collect", NEW s \in Blocks, Top.bb \in Blocks
  PROVE  LET l == LoopOf(s)
             n == Len(holder)
             after == WithBackEdge(s)
         IN  /\ after \in Seq(LoopType) /\ l \in 1 .. Len(after) /\ l # NoLoop
             /\ Len(after) = IF loop[s] = NoLoop THEN n + 1 ELSE n
             /\ loop[s] = NoLoop => l = n + 1
             /\ loop[s] # NoLoop => l \in Loops /\ loop[s] = l /\ holder[l].header = s
             /\ \A k \in 1 .. Len(after) \ {l} : k \in Loops /\ after[k] = holder[k]
             /\ after[l].header = s /\ after[l].outLoop = NoLoop /\ ~after[l].isRoot
             /\ after[l].backEdges = {Top.bb} \cup (IF loop[s] = NoLoop THEN {}
                                                    ELSE holder[l].backEdges)
             /\ ~after[l].irreducible => /\ IsDominatedBy(Top.bb, s)
                                         /\ loop[s] # NoLoop => ~holder[l].irreducible
             /\ after[l].irreducible => \/ ~IsDominatedBy(Top.bb, s)
                                        \/ loop[s] # NoLoop /\ holder[l].irreducible
             /\ after[l].blocks = IF loop[s] = NoLoop THEN {s} ELSE holder[l].blocks
             /\ after[l].inLoops = IF loop[s] = NoLoop THEN {} ELSE holder[l].inLoops
<1> DEFINE l == LoopOf(s)
           n == Len(holder)
           base == WithLoop(s)
           old == base[l]
           new == [old EXCEPT !.backEdges = old.backEdges \cup {Top.bb},
                              !.irreducible = old.irreducible \/ ~IsDominatedBy(Top.bb, s)]
<1>1. n \in Nat /\ holder \in Seq(LoopType) /\ Loops = 1 .. n
  BY LoopFacts DEF TypeInv, Loops
<1>2. /\ NewLoop(s) \in LoopType /\ NewLoop(s).header = s /\ NewLoop(s).backEdges = {}
      /\ NewLoop(s).outLoop = NoLoop /\ ~NewLoop(s).irreducible /\ ~NewLoop(s).isRoot
      /\ NewLoop(s).blocks = {s} /\ NewLoop(s).inLoops = {}
  BY DEF NewLoop, LoopType, NoLoop
<1>3. /\ base \in Seq(LoopType) /\ l \in 1 .. Len(base) /\ l # NoLoop
      /\ Len(base) = IF loop[s] = NoLoop THEN n + 1 ELSE n
      /\ loop[s] = NoLoop => l = n + 1 /\ old = NewLoop(s)
      /\ loop[s] # NoLoop => l \in Loops /\ loop[s] = l /\ old = holder[l]
      /\ \A k \in 1 .. Len(base) \ {l} : k \in Loops /\ base[k] = holder[k]
  <2>1. CASE loop[s] = NoLoop
    <3>1. base = Append(holder, NewLoop(s)) /\ l = n + 1
      BY <2>1 DEF WithLoop, LoopOf
    <3> HIDE DEF base, l
    <3>2. /\ base \in Seq(LoopType) /\ Len(base) = n + 1
          /\ \A k \in 1 .. n : base[k] = holder[k]
          /\ base[n + 1] = NewLoop(s)
      BY <1>1, <1>2, <3>1, AppendProperties
    <3> QED BY <1>1, <2>1, <3>1, <3>2 DEF NoLoop
  <2>2. CASE loop[s] # NoLoop
    <3>1. base = holder /\ l = loop[s] /\ l \in Loops
      BY <2>2, LoopFacts DEF WithLoop, LoopOf
    <3> HIDE DEF base, l
    <3> QED BY <1>1, <2>2, <3>1
  <2> QED BY <2>1, <2>2
<1>4. old \in LoopType
  <2>1. \A k \in Loops : holder[k] \in LoopType
    BY LoopFacts
  <2> QED BY <1>2, <1>3, <2>1
<1>5. old.outLoop = NoLoop /\ ~old.isRoot /\ old.header = s
  <2>1. CASE loop[s] = NoLoop
    BY <1>2, <1>3, <2>1
  <2>2. CASE loop[s] # NoLoop
    BY <1>3, <2>2 DEF CollectInv, RootInv
  <2> QED BY <2>1, <2>2
<1>6. WithBackEdge(s) = [base EXCEPT ![l] = new]
  BY DEF WithBackEdge
<1>7. /\ new \in LoopType
      /\ new.header = old.header /\ new.outLoop = old.outLoop /\ new.isRoot = old.isRoot
      /\ new.backEdges = old.backEdges \cup {Top.bb}
      /\ new.irreducible = (old.irreducible \/ ~IsDominatedBy(Top.bb, s))
      /\ new.blocks = old.blocks /\ new.inLoops = old.inLoops
  <2> HIDE DEF old
  <2> QED BY <1>4 DEF LoopType
<1> HIDE DEF new
<1>8. /\ WithBackEdge(s) \in Seq(LoopType) /\ Len(WithBackEdge(s)) = Len(base)
      /\ \A k \in 1 .. Len(base) : WithBackEdge(s)[k] = IF k = l THEN new ELSE base[k]
  BY <1>3, <1>6, <1>7, ExceptSeq
<1> HIDE DEF l, base
<1>9. WithBackEdge(s)[l] = new /\ \A k \in 1 .. Len(base) \ {l} : WithBackEdge(s)[k] = base[k]
  BY <1>3, <1>8
<1>10. new.backEdges = {Top.bb} \cup (IF loop[s] = NoLoop THEN {} ELSE holder[l].backEdges)
  BY <1>2, <1>3, <1>7
<1>11. ~new.irreducible => /\ IsDominatedBy(Top.bb, s)
                           /\ loop[s] # NoLoop => ~holder[l].irreducible
  BY <1>3, <1>7
<1>12. new.irreducible => \/ ~IsDominatedBy(Top.bb, s)
                          \/ loop[s] # NoLoop /\ holder[l].irreducible
  BY <1>2, <1>3, <1>7
<1>13. /\ new.blocks = IF loop[s] = NoLoop THEN {s} ELSE holder[l].blocks
       /\ new.inLoops = IF loop[s] = NoLoop THEN {} ELSE holder[l].inLoops
  BY <1>2, <1>3, <1>7
<1> QED BY <1>3, <1>5, <1>7, <1>8, <1>9, <1>10, <1>11, <1>12, <1>13 DEF l

LEMMA BackEdgeStep ==
  ASSUME LoopInv, NEW s \in Blocks, BackEdge(s)
  PROVE  LoopInv'
<1> USE DEF LoopInv
<1> DEFINE n == Len(stack)
           l == LoopOf(s)
<1>1. /\ pc = "collect" /\ Top.todo[s] > 0 /\ "grey" \in color[s]
      /\ UNCHANGED <<vars, doms, color, capacity, order, current, pending>>
      /\ UNCHANGED <<succs, root>>
      /\ \/ /\ Top.bb \in WithLoop(s)[l].backEdges
            /\ pc' = "abort" /\ UNCHANGED <<loop, holder, stack>>
         \/ /\ holder' = WithBackEdge(s) /\ loop' = [loop EXCEPT ![s] = l]
            /\ stack' = Rest(s) /\ pc' = pc
  BY DEF BackEdge, vars, LoopOf, WithLoop, WithBackEdge
<1>2. /\ stack # << >> /\ n \in Nat \ {0} /\ n \in 1 .. n /\ Top = stack[n] /\ Top.bb \in Blocks
      /\ Top.todo \in [Blocks -> Nat]
  BY <1>1, TopFacts DEF StackInv
<1>3. color[s] = Grey
  BY <1>1 DEF StackInv, White, Grey, Black
<1>4. s \in Reachable
  <2>1. PICK k \in 1 .. n : stack[k].bb = s
    BY <1>1, <1>3 DEF StackInv
  <2> QED BY <1>1, <2>1 DEF StackInv, FrameOK
<1>5. /\ EdgesInv' /\ IdleInv' /\ DomsInv' /\ FilledInv' /\ SearchInv'
      /\ RobbedInv' /\ RankInv' /\ OutLoopsEnd'
  <2>1. pc' \in {"collect", "abort"}
    BY <1>1
  <2> QED BY <1>1, <2>1, CollectFrame
<1>6. /\ Reachable' = Reachable
      /\ \A d, b : Cuts(d, b)' <=> Cuts(d, b)
  BY <1>1, SameGraph
<1>7. /\ l \in 1 .. Len(WithBackEdge(s)) /\ l # NoLoop
      /\ WithBackEdge(s) \in Seq(LoopType)
      /\ Len(WithBackEdge(s)) = IF loop[s] = NoLoop THEN Len(holder) + 1 ELSE Len(holder)
      /\ loop[s] = NoLoop => l = Len(holder) + 1
      /\ loop[s] # NoLoop => l \in Loops /\ loop[s] = l /\ holder[l].header = s
      /\ \A k \in 1 .. Len(WithBackEdge(s)) \ {l} : k \in Loops /\ WithBackEdge(s)[k] = holder[k]
      /\ WithBackEdge(s)[l].header = s /\ WithBackEdge(s)[l].outLoop = NoLoop
      /\ ~WithBackEdge(s)[l].isRoot
      /\ WithBackEdge(s)[l].backEdges = {Top.bb} \cup (IF loop[s] = NoLoop THEN {}
                                                       ELSE holder[l].backEdges)
      /\ ~WithBackEdge(s)[l].irreducible => /\ IsDominatedBy(Top.bb, s)
                                            /\ loop[s] # NoLoop => ~holder[l].irreducible
  BY <1>1, <1>2, WithBackEdgeFacts, Zenon
<1> HIDE DEF l
<1>8. CASE /\ Top.bb \in WithLoop(s)[l].backEdges
           /\ pc' = "abort" /\ UNCHANGED <<loop, holder, stack>>
  <2>1. TypeInv'
    BY <1>1, <1>8 DEF TypeInv, Loops
  <2>2. HeaderInv' /\ RootInv'
    BY <1>1, <1>6, <1>8 DEF HeaderInv, RootInv, Loops
  <2>3. StackInv' /\ OrderInv' /\ CollectInv' /\ ReducibleInv'
    BY <1>8 DEF StackInv, OrderInv, CollectInv, ReducibleInv
  <2>4. loop[s] # NoLoop
    <3> SUFFICES ASSUME loop[s] = NoLoop PROVE FALSE
      OBVIOUS
    <3>1. NewLoop(s) \in LoopType /\ NewLoop(s).backEdges = {}
      BY DEF NewLoop, LoopType, NoLoop
    <3>2. WithLoop(s)[l] = NewLoop(s)
      BY <1>7, <3>1, AppendProperties DEF WithLoop, TypeInv
    <3> QED BY <1>8, <3>1, <3>2
  <2>5. Top.bb \in holder[l].backEdges /\ l \in Loops /\ holder[l].header = s
    BY <1>7, <1>8, <2>4 DEF WithLoop
  <2>6. FrameOK(n) /\ color[Top.bb] = Grey
    BY <1>1, <1>2 DEF StackInv, FrameOK
  <2>7. PICK k \in 1 .. n : stack[k].bb = Top.bb /\ stack[k].todo[s] < succs[Top.bb][s]
    <3>1. \/ color[Top.bb] = Black
          \/ \E k \in 1 .. n : /\ stack[k].bb = Top.bb
                               /\ stack[k].todo[holder[l].header] < succs[Top.bb][holder[l].header]
      BY <1>1, <2>5 DEF CollectInv
    <3>2. Grey # Black
      BY DEF Grey, Black
    <3> QED BY <2>5, <2>6, <3>1, <3>2
  <2>8. k = n
    BY <1>2, <2>6, <2>7 DEF FrameOK
  <2>9. succs[Top.bb][s] > 1
    <3>1. succs[Top.bb][s] \in Nat /\ Top.todo[s] \in Nat
      BY <1>1, <1>2 DEF EdgesInv
    <3> QED BY <1>1, <1>2, <2>7, <2>8, <3>1
  <2>10. AbortsOnlyOnParallel'
    BY <1>1, <1>2, <2>9 DEF AbortsOnlyOnParallel
  <2> QED BY <1>5, <2>1, <2>2, <2>3, <2>10 DEF OutcomeInv
<1>9. CASE /\ holder' = WithBackEdge(s) /\ loop' = [loop EXCEPT ![s] = l]
           /\ stack' = Rest(s) /\ pc' = pc
  <2>1. /\ StackInv' /\ stack' \in Seq(FrameType)
        /\ \A x, t \in Blocks :
             (\E k \in 1 .. Len(stack) : stack[k].bb = x /\ stack[k].todo[t] < succs[x][t])
               => \E k \in 1 .. Len(stack') : stack'[k].bb = x /\ stack'[k].todo[t] < succs'[x][t]
        /\ \E k \in 1 .. Len(stack') : stack'[k].bb = Top.bb /\ stack'[k].todo[s] < succs'[Top.bb][s]
    <3>1. color[s] # White /\ pc' = "collect" /\ UNCHANGED <<succs, root, color>>
      BY <1>1, <1>3, <1>9 DEF White, Grey
    <3> QED BY <1>1, <1>9, <3>1, TickKeepsStack
  <2>2. /\ holder' \in Seq(LoopType) /\ Loops' = 1 .. Len(holder') /\ Len(holder') \in Nat
        /\ Loops \subseteq Loops' /\ l \in Loops'
        /\ \A k \in Loops' \ {l} : k \in Loops /\ holder'[k] = holder[k]
        /\ \A b \in Blocks : loop'[b] = IF b = s THEN l ELSE loop[b]
    <3>1. Len(holder) \in Nat
      BY LoopFacts
    <3>2. Len(holder') \in Nat /\ Loops' = 1 .. Len(holder') /\ Loops \subseteq Loops' /\ l \in Loops'
      BY <1>7, <1>9, <3>1 DEF Loops
    <3> QED BY <1>7, <1>9, <3>2 DEF TypeInv
  <2>3. TypeInv'
    <3>1. loop' \in [Blocks -> 0 .. Len(holder')]
      <4>1. Len(holder) \in Nat /\ Len(holder') \in Nat /\ Len(holder) <= Len(holder')
        BY <1>7, <1>9, LoopFacts
      <4>2. l \in 0 .. Len(holder')
        BY <1>7, <1>9, <4>1
      <4>3. \A i \in 0 .. Len(holder) : i \in 0 .. Len(holder')
        BY <4>1
      <4> QED BY <1>9, <4>2, <4>3 DEF TypeInv
    <3>2. \A k \in Loops' : holder'[k].outLoop \in 0 .. Len(holder')
      <4> SUFFICES ASSUME NEW k \in Loops' PROVE holder'[k].outLoop = NoLoop
        BY <2>2 DEF NoLoop
      <4> QED BY <1>1, <1>7, <1>9, <2>2 DEF CollectInv
    <3>3. current' \in 0 .. Len(holder')
      BY <1>1, <1>7, <1>9, LoopFacts DEF TypeInv
    <3> QED BY <1>1, <1>9, <2>1, <2>2, <3>1, <3>2, <3>3 DEF TypeInv
  <2>4. OrderInv'
    <3>1. Positions' = Positions
      BY <1>1 DEF Positions
    <3> QED BY <1>1, <1>6, <1>9, <3>1 DEF OrderInv
  <2>5. HeaderInv'
    <3>1. \A k \in Loops' : /\ holder'[k].header \in Reachable'
                            /\ loop'[holder'[k].header] # NoLoop
      <4> SUFFICES ASSUME NEW k \in Loops'
                   PROVE  /\ holder'[k].header \in Reachable
                          /\ loop'[holder'[k].header] # NoLoop
        BY <1>6
      <4>1. CASE k = l
        BY <1>4, <1>7, <1>9, <2>2, <4>1
      <4>2. CASE k # l
        <5>1. k \in Loops /\ holder'[k] = holder[k]
          BY <2>2, <4>2
        <5> QED BY <1>7, <2>2, <5>1, LoopFacts DEF HeaderInv
      <4> QED BY <4>1, <4>2
    <3>2. ASSUME NEW k \in Loops' \ {l} PROVE holder'[k].header # s
      <4>1. k \in Loops /\ holder'[k] = holder[k]
        BY <2>2
      <4> SUFFICES ASSUME holder[k].header = s PROVE FALSE
        BY <4>1
      <4>2. loop[s] # NoLoop
        BY <4>1 DEF HeaderInv
      <4>3. k = l
        BY <1>7, <4>1, <4>2 DEF HeaderInv
      <4> QED BY <4>3
    <3>3. holder'[l].header = s
      BY <1>7, <1>9
    <3>4. \A k, m \in Loops' \ {l} : holder'[k].header = holder'[m].header => k = m
      BY <2>2 DEF HeaderInv
    <3>5. \A k, m \in Loops' : holder'[k].header = holder'[m].header => k = m
      BY <3>2, <3>3, <3>4
    <3> QED BY <3>1, <3>5 DEF HeaderInv
  <2>6. CollectInv'
    <3>1. ASSUME NEW b \in Blocks, loop'[b] # NoLoop PROVE holder'[loop'[b]].header = b
      <4>1. CASE b = s
        BY <1>7, <1>9, <2>2, <4>1
      <4>2. CASE b # s
        <5>1. loop'[b] = loop[b] /\ loop[b] \in Loops /\ holder[loop[b]].header = b
          BY <1>1, <2>2, <3>1, <4>2, LoopFacts DEF CollectInv
        <5>2. loop[b] # l
          <6>1. Len(holder) \in Nat
            BY LoopFacts
          <6> QED BY <1>7, <4>2, <5>1, <6>1 DEF Loops
        <5> QED BY <2>2, <5>1, <5>2
      <4> QED BY <4>1, <4>2
    <3>2. \A k \in Loops' : holder'[k].outLoop = NoLoop
      BY <1>1, <1>7, <1>9, <2>2 DEF CollectInv
    <3>3. ASSUME NEW k \in Loops', NEW x \in holder'[k].backEdges
          PROVE  \/ color'[x] = Black
                 \/ \E m \in 1 .. Len(stack') :
                      /\ stack'[m].bb = x
                      /\ stack'[m].todo[holder'[k].header] < succs'[x][holder'[k].header]
      <4>1. CASE k = l /\ x = Top.bb
        BY <1>7, <1>9, <2>1, <4>1
      <4>2. CASE k \in Loops /\ x \in holder[k].backEdges /\ holder'[k].header = holder[k].header
        <5>1. x \in Blocks /\ holder[k].header \in Blocks
          BY <4>2, LoopFacts
        <5>2. \/ color[x] = Black
              \/ \E m \in 1 .. Len(stack) :
                   /\ stack[m].bb = x
                   /\ stack[m].todo[holder[k].header] < succs[x][holder[k].header]
          BY <1>1, <4>2 DEF CollectInv
        <5> QED BY <1>1, <2>1, <4>2, <5>1, <5>2
      <4>3. CASE k # l
        <5>1. k \in Loops /\ holder'[k] = holder[k]
          BY <2>2, <4>3
        <5> QED BY <4>2, <5>1
      <4>4. CASE k = l /\ x # Top.bb
        <5>1. loop[s] # NoLoop /\ x \in holder[l].backEdges
          BY <1>7, <1>9, <4>4
        <5>2. l \in Loops /\ holder[l].header = s /\ holder'[l].header = s
          BY <1>7, <1>9, <5>1
        <5> QED BY <4>2, <4>4, <5>1, <5>2
      <4> QED BY <4>1, <4>3, <4>4
    <3> QED BY <3>1, <3>2, <3>3 DEF CollectInv
  <2>7. ReducibleInv'
    <3> SUFFICES ASSUME NEW k \in Loops', ~holder'[k].irreducible, NEW x \in holder'[k].backEdges
                 PROVE  holder'[k].header \in doms[x]
      BY <1>1 DEF ReducibleInv
    <3>1. CASE k = l /\ x = Top.bb
      BY <1>7, <1>9, <3>1 DEF IsDominatedBy
    <3>2. CASE k = l /\ x # Top.bb
      <4>1. loop[s] # NoLoop /\ x \in holder[l].backEdges /\ l \in Loops
            /\ holder[l].header = s /\ holder'[l].header = s /\ ~holder[l].irreducible
        BY <1>7, <1>9, <3>2
      <4> QED BY <1>1, <3>2, <4>1 DEF ReducibleInv
    <3>3. CASE k # l
      <4>1. k \in Loops /\ holder'[k] = holder[k]
        BY <2>2, <3>3
      <4> QED BY <1>1, <4>1 DEF ReducibleInv
    <3> QED BY <3>1, <3>2, <3>3
  <2>8. RootInv'
    BY <1>1, <1>7, <1>9, <2>2 DEF RootInv
  <2>9. AbortsOnlyOnParallel'
    BY <1>1, <1>9 DEF AbortsOnlyOnParallel
  <2>10. /\ EdgesInv' /\ IdleInv' /\ DomsInv' /\ FilledInv' /\ SearchInv'
         /\ RobbedInv' /\ RankInv' /\ OutLoopsEnd'
    BY <1>5
  <2> QED BY <2>1, <2>3, <2>4, <2>5, <2>6, <2>7, <2>8, <2>9, <2>10 DEF OutcomeInv
<1> QED BY <1>1, <1>8, <1>9

-----------------------------------------------------------------------------
\* The top of the stack comes off, and the order grows by it.
LEMMA LeaveFacts ==
  ASSUME LoopInv, Leave
  PROVE  LET n == Len(stack)
             h == Top.bb
             m == Len(order)
         IN  /\ pc = "collect" /\ n \in Nat \ {0} /\ n \in 1 .. n /\ Top = stack[n]
             /\ h \in Blocks /\ h \in Reachable /\ color[h] = Grey
             /\ \A k \in 1 .. n : FrameOK(k)
             /\ \A s \in SuccSets[h] : color[s] # White
             /\ \A b \in Blocks : Cuts(h, b) => color[b] = Black
             /\ Below \in Seq(FrameType) /\ Len(Below) = n - 1
             /\ \A k \in 1 .. n - 1 : k \in 1 .. n /\ Below[k] = stack[k] /\ stack[k].bb # h
             /\ order' \in Seq(Blocks) /\ m \in Nat /\ Len(order') = m + 1
             /\ \A i \in 1 .. m : order'[i] = order[i]
             /\ order'[m + 1] = h
             /\ UNCHANGED <<vars, succs, root, doms, loop, holder, current, pending>>
             /\ stack' = Below
<1> USE DEF LoopInv
<1> DEFINE n == Len(stack)
           h == Top.bb
           m == Len(order)
<1>1. /\ pc = "collect" /\ \A s \in Blocks : Top.todo[s] = 0
      /\ order' = Append(order, h) /\ stack' = Below
      /\ UNCHANGED <<vars, succs, root, doms, loop, holder, current, pending>>
  BY DEF Leave, vars
<1>2. /\ stack # << >> /\ n \in Nat \ {0} /\ n \in 1 .. n /\ Top = stack[n] /\ h \in Blocks
      /\ \A k \in 1 .. n : stack[k] \in FrameType
  BY <1>1, TopFacts DEF StackInv
<1>3. \A k \in 1 .. n : FrameOK(k)
  BY <1>1 DEF StackInv
<1>4. color[h] = Grey /\ h \in Reachable
  BY <1>2, <1>3 DEF FrameOK
<1>5. \A s \in SuccSets[h] : color[s] # White
  <2> SUFFICES ASSUME NEW s \in SuccSets[h] PROVE color[s] # White
    OBVIOUS
  <2>1. s \in Blocks /\ succs[h][s] > 0
    BY <1>2, SuccFacts
  <2>2. stack[n].todo[s] = 0
    BY <1>1, <1>2, <2>1
  <2>3. stack[n].todo[s] < succs[stack[n].bb][s] => color[s] # White
    BY <1>2, <1>3, <2>1 DEF FrameOK
  <2> QED BY <1>2, <2>1, <2>2, <2>3
<1>6. \A b \in Blocks : Cuts(h, b) => color[b] = Black
  BY <1>1, CutOffAreLeft
<1>7. /\ Below \in Seq(FrameType) /\ Len(Below) = n - 1
      /\ \A k \in 1 .. n - 1 : Below[k] = stack[k]
  <2>1. \A k \in 1 .. n - 1 : stack[k] \in FrameType
    BY <1>2
  <2>2. 1 \in Int /\ n - 1 \in Int
    BY <1>2
  <2>3. /\ SubSeq(stack, 1, n - 1) \in Seq(FrameType)
        /\ Len(SubSeq(stack, 1, n - 1)) = IF 1 <= n - 1 THEN (n - 1) - 1 + 1 ELSE 0
        /\ \A i \in 1 .. (n - 1) - 1 + 1 : SubSeq(stack, 1, n - 1)[i] = stack[1 + i - 1]
    BY <2>1, <2>2, SubSeqProperties
  <2>4. (n - 1) - 1 + 1 = n - 1 /\ (IF 1 <= n - 1 THEN (n - 1) - 1 + 1 ELSE 0) = n - 1
    <3>1. \A k \in Nat \ {0} : (k - 1) - 1 + 1 = k - 1
      OBVIOUS
    <3>2. \A k \in Nat \ {0} : ~(1 <= k - 1) => k - 1 = 0
      OBVIOUS
    <3>3. n \in Nat \ {0}
      BY <1>2
    <3> HIDE DEF n
    <3> QED BY <3>1, <3>2, <3>3
  <2>5. \A i \in 1 .. n - 1 : 1 + i - 1 = i
    BY <1>2
  <2>6. Below = SubSeq(stack, 1, n - 1)
    BY DEF Below
  <2> QED BY <2>3, <2>4, <2>5, <2>6
<1>8. \A k \in 1 .. n - 1 : k \in 1 .. n /\ stack[k].bb # h
  BY <1>2, <1>3 DEF FrameOK
<1>9. /\ order' \in Seq(Blocks) /\ m \in Nat /\ Len(order') = m + 1
      /\ \A i \in 1 .. m : order'[i] = order[i]
      /\ order'[m + 1] = h
  BY <1>1, <1>2, AppendProperties, LenProperties DEF TypeInv
<1> QED BY <1>1, <1>2, <1>3, <1>4, <1>5, <1>6, <1>7, <1>8, <1>9

\* The block that is left is the last in the order, after all it cuts off.
LEMMA LeaveKeepsOrder ==
  ASSUME LoopInv, Leave
  PROVE  /\ \A b \in Blocks : (color[b] = Black \/ b = Top.bb)
                                <=> \E i \in Positions' : order'[i] = b
         /\ \A j \in Positions' : \A b \in Blocks : Cuts(order[j], b)' => color[b] = Black
         /\ \A i, j \in Positions' : /\ order'[i] = order'[j] => i = j
                                     /\ Cuts(order[j], order[i])' => i < j
                                     /\ order'[j] \in Reachable'
<1> DEFINE h == Top.bb
           m == Len(order)
<1>1. /\ pc = "collect" /\ h \in Blocks /\ h \in Reachable /\ color[h] = Grey
      /\ \A b \in Blocks : Cuts(h, b) => color[b] = Black
      /\ m \in Nat /\ Len(order') = m + 1
      /\ \A i \in 1 .. m : order'[i] = order[i]
      /\ order'[m + 1] = h
      /\ UNCHANGED <<succs, root>>
  BY LeaveFacts, Zenon
<1>2. /\ \A i \in 1 .. m : order[i] \in Blocks
      /\ Positions = 1 .. m /\ Positions' = 1 .. m + 1
  BY <1>1, ElementOfSeq DEF Positions, LoopInv, TypeInv
<1>3. /\ \A b \in Blocks : color[b] = Black <=> \E i \in 1 .. m : order[i] = b
      /\ \A j \in 1 .. m : \A b \in Blocks : Cuts(order[j], b) => color[b] = Black
      /\ \A i, j \in 1 .. m : /\ order[i] = order[j] => i = j
                              /\ Cuts(order[j], order[i]) => i < j
                              /\ order[j] \in Reachable
  BY <1>1, <1>2 DEF LoopInv, OrderInv
<1>4. /\ Reachable' = Reachable
      /\ \A d, b : Cuts(d, b)' <=> Cuts(d, b)
  BY <1>1, SameGraph
<1>5. \A i \in 1 .. m : order[i] # h /\ ~Cuts(order[i], h)
  <2>1. Grey # Black
    BY DEF Grey, Black
  <2>2. \A i \in 1 .. m : order[i] = h => color[h] = Black
    BY <1>1, <1>3
  <2> QED BY <1>1, <1>3, <2>1, <2>2
<1>6. ~Cuts(h, h)
  BY DEF Cuts
<1>7. \A i \in 1 .. m + 1 : i = m + 1 \/ (i \in 1 .. m /\ i < m + 1)
  BY <1>1
<1>8. \A i \in 1 .. m : i \in 1 .. m + 1
  BY <1>1
<1>9. ASSUME NEW b \in Blocks
      PROVE  (color[b] = Black \/ b = h) <=> \E i \in 1 .. m + 1 : order'[i] = b
  <2>1. m + 1 \in 1 .. m + 1
    BY <1>1
  <2> QED BY <1>1, <1>3, <1>7, <1>8, <2>1
<1>10. ASSUME NEW j \in 1 .. m + 1, NEW b \in Blocks, Cuts(order'[j], b)
       PROVE  color[b] = Black
  BY <1>1, <1>3, <1>7, <1>10
<1>11. ASSUME NEW i \in 1 .. m + 1, NEW j \in 1 .. m + 1
       PROVE  /\ order'[i] = order'[j] => i = j
              /\ Cuts(order'[j], order'[i]) => i < j
              /\ order'[j] \in Reachable
  <2>1. CASE i = m + 1 /\ j = m + 1
    BY <1>1, <1>6, <2>1
  <2>2. CASE i = m + 1 /\ j \in 1 .. m
    BY <1>1, <1>3, <1>5, <2>2
  <2>3. CASE i \in 1 .. m /\ i < m + 1 /\ j = m + 1
    BY <1>1, <1>3, <1>5, <2>3
  <2>4. CASE i \in 1 .. m /\ j \in 1 .. m
    BY <1>1, <1>3, <2>4
  <2> QED BY <1>7, <2>1, <2>2, <2>3, <2>4
<1>12. \A i, j \in Positions' : /\ order'[i] = order'[j] => i = j
                                /\ Cuts(order[j], order[i])' => i < j
                                /\ order'[j] \in Reachable'
  BY <1>2, <1>4, <1>11, Zenon
<1>13. \A j \in Positions' : \A b \in Blocks : Cuts(order[j], b)' => color[b] = Black
  BY <1>2, <1>4, <1>10, Zenon
<1> QED BY <1>2, <1>9, <1>12, <1>13

LEMMA LeaveStep ==
  ASSUME LoopInv, Leave
  PROVE  LoopInv'
<1> USE DEF LoopInv
<1> DEFINE n == Len(stack)
           h == Top.bb
<1>1. /\ pc = "collect" /\ n \in Nat \ {0} /\ n \in 1 .. n /\ Top = stack[n]
      /\ h \in Blocks /\ h \in Reachable /\ color[h] = Grey
      /\ \A k \in 1 .. n : FrameOK(k)
      /\ \A s \in SuccSets[h] : color[s] # White
      /\ Below \in Seq(FrameType) /\ Len(Below) = n - 1
      /\ \A k \in 1 .. n - 1 : k \in 1 .. n /\ Below[k] = stack[k] /\ stack[k].bb # h
      /\ order' \in Seq(Blocks)
      /\ UNCHANGED <<vars, succs, root, doms, loop, holder, current, pending>>
      /\ stack' = Below
  BY LeaveFacts, Zenon
<1>2. /\ \A b \in Blocks : (color[b] = Black \/ b = h)
                              <=> \E i \in Positions' : order'[i] = b
      /\ \A j \in Positions' : \A b \in Blocks : Cuts(order[j], b)' => color[b] = Black
      /\ \A i, j \in Positions' : /\ order'[i] = order'[j] => i = j
                                  /\ Cuts(order[j], order[i])' => i < j
                                  /\ order'[j] \in Reachable'
  BY LeaveKeepsOrder, Zenon
<1>3. /\ Reachable' = Reachable /\ SuccSets' = SuccSets
      /\ \A d, b : Cuts(d, b)' <=> Cuts(d, b)
  BY <1>1, SameGraph
<1>4. Grey # White /\ Grey # Black /\ Black # White
  BY DEF Grey, White, Black
<1>5. \/ Below = << >> /\ color' = Cleaned /\ pc' = "populate"
      \/ /\ Below # << >> /\ pc' = "collect"
         /\ color' = [color EXCEPT ![h] = Black]
  <2>1. color[h] \ {"grey"} = Black
    BY <1>1 DEF Grey, Black
  <2> QED BY <1>1, <2>1 DEF Leave
<1>6. HeaderInv' /\ RootInv' /\ Loops' = Loops
  BY <1>1, <1>3, <1>5 DEF HeaderInv, RootInv, Loops
<1>7. EdgesInv' /\ IdleInv' /\ DomsInv' /\ ReducibleInv' /\ OutcomeInv'
  <2>1. EdgesInv' /\ IdleInv'
    BY <1>1, <1>5 DEF EdgesInv, IdleInv, vars
  <2>2. DomsInv' /\ ReducibleInv'
    BY <1>1, <1>3, <1>5, <1>6 DEF DomsInv, ReducibleInv
  <2>3. OutcomeInv'
    BY <1>5 DEF OutcomeInv, OutLoopsEnd, Done, AbortsOnlyOnParallel
  <2> QED BY <2>1, <2>2, <2>3
<1>8. color' \in [Blocks -> SUBSET {"grey", "black"}] => TypeInv'
  BY <1>1, <1>5 DEF TypeInv, Loops
<1>9. CASE Below = << >> /\ color' = Cleaned /\ pc' = "populate"
  <2>1. TypeInv'
    BY <1>8, <1>9 DEF Cleaned, TypeInv
  <2>2. StackInv' /\ CollectInv' /\ SearchInv'
    BY <1>9 DEF StackInv, CollectInv, SearchInv
  <2>3. OrderInv'
    BY <1>2, <1>9 DEF OrderInv
  <2>4. FilledInv'
    <3>1. \A l \in Loops : l # NoLoop
      BY DEF Loops, NoLoop
    <3> QED BY <1>1, <1>6, <1>9, <3>1 DEF CollectInv, FilledInv
  <2>5. RobbedInv'
    <3>1. \A l \in Loops : loop[holder[l].header] = l
      <4> SUFFICES ASSUME NEW l \in Loops PROVE loop[holder[l].header] = l
        OBVIOUS
      <4> DEFINE b == holder[l].header
      <4>1. b \in Blocks /\ loop[b] # NoLoop
        BY LoopFacts DEF HeaderInv
      <4>2. loop[b] \in Loops /\ holder[loop[b]].header = b
        BY <1>1, <4>1, LoopFacts DEF CollectInv
      <4> QED BY <4>2 DEF HeaderInv
    <3> QED BY <1>1, <1>6, <3>1 DEF RobbedInv
  <2>6. RankInv'
    <3> DEFINE f == [i \in Nat |-> 0]
    <3>1. f \in [Nat -> Nat] /\ 1 \in Nat
      OBVIOUS
    <3>2. \A l \in Loops' :
            /\ f[l] < 1
            /\ holder'[l].outLoop # NoLoop => f[l] < f[holder'[l].outLoop]
            /\ pc' \in {"search", "tree"} /\ l # current' => f[l] < f[current']
      <4> SUFFICES ASSUME NEW l \in Loops
                   PROVE  f[l] < 1 /\ holder[l].outLoop = NoLoop
        BY <1>1, <1>6, <1>9
      <4> QED BY <1>1 DEF CollectInv, Loops
    <3> HIDE DEF f
    <3> QED BY <3>1, <3>2 DEF RankInv
  <2> QED BY <1>6, <1>7, <2>1, <2>2, <2>3, <2>4, <2>5, <2>6
<1>10. CASE /\ Below # << >> /\ pc' = "collect"
            /\ color' = [color EXCEPT ![h] = Black]
  <2>1. \A b \in Blocks : color'[b] = IF b = h THEN Black ELSE color[b]
    BY <1>10 DEF TypeInv
  <2>2. TypeInv'
    BY <1>8, <1>10 DEF TypeInv, Black
  <2>3. \A b \in Blocks : color'[b] = White <=> color[b] = White
    BY <1>1, <1>4, <2>1
  <2>4. FilledInv' /\ SearchInv' /\ RobbedInv' /\ RankInv'
    BY <1>10 DEF FilledInv, SearchInv, RobbedInv, RankInv
  <2>5. n - 1 \in Nat /\ n - 1 # 0 /\ 1 \in 1 .. n - 1
    <3>1. n - 1 \in Nat
      BY <1>1
    <3>2. n - 1 # 0
      BY <1>1, <1>10, EmptySeq
    <3> QED BY <3>1, <3>2
  <2>6. ASSUME NEW k \in 1 .. n - 1 PROVE FrameOK(k)'
    <3>1. k \in 1 .. n /\ stack'[k] = stack[k] /\ stack[k].bb # h /\ FrameOK(k)
      BY <1>1
    <3>2. k > 1 => stack'[k - 1] = stack[k - 1]
      BY <1>1, <2>5
    <3>3. stack[k].bb \in Blocks
      BY <3>1, ReachableFacts DEF FrameOK, TypeInv
    <3>4. color'[stack'[k].bb] = Grey /\ stack'[k].bb \in Reachable'
      BY <1>3, <2>1, <3>1, <3>3 DEF FrameOK
    <3>5. \A j \in 1 .. Len(stack') : stack'[j].bb = stack'[k].bb => j = k
      BY <1>1, <3>1 DEF FrameOK
    <3>6. k > 1 => stack'[k].bb \in SuccSets'[stack'[k - 1].bb]
      BY <1>3, <3>1, <3>2 DEF FrameOK
    <3>7. \A s \in Blocks : /\ stack'[k].todo[s] <= succs'[stack'[k].bb][s]
                            /\ stack'[k].todo[s] < succs'[stack'[k].bb][s] => color'[s] # White
      BY <1>1, <2>3, <3>1 DEF FrameOK
    <3> QED BY <3>4, <3>5, <3>6, <3>7 DEF FrameOK
  <2>7. StackInv'
    <3>1. stack' # << >> /\ stack'[1].bb = root'
      BY <1>1, <1>10, <2>5 DEF StackInv
    <3>2. \A b \in Blocks : color'[b] \in {White, Grey, Black}
      BY <1>1, <2>1 DEF StackInv
    <3>3. ASSUME NEW b \in Blocks, color'[b] = Grey
          PROVE  \E k \in 1 .. Len(stack') : stack'[k].bb = b
      <4>1. b # h /\ color[b] = Grey
        BY <1>4, <2>1, <3>3
      <4>2. PICK k \in 1 .. n : stack[k].bb = b
        BY <1>1, <4>1 DEF StackInv
      <4>3. k \in 1 .. n - 1
        <5>1. k # n
          BY <1>1, <4>1, <4>2
        <5> QED BY <1>1, <4>2, <5>1
      <4> QED BY <1>1, <4>2, <4>3
    <3>4. ASSUME NEW b \in Blocks, color'[b] = Black, NEW t \in SuccSets[b]
          PROVE  color'[t] # White
      <4>1. t \in Blocks
        BY SuccFacts
      <4>2. CASE b = h
        BY <1>1, <2>3, <4>1, <4>2
      <4>3. CASE b # h
        <5>1. color[b] = Black
          BY <2>1, <3>4, <4>3
        <5> QED BY <1>1, <2>3, <4>1, <5>1 DEF StackInv
      <4> QED BY <4>2, <4>3
    <3>5. \A k \in 1 .. Len(stack') : FrameOK(k)'
      BY <1>1, <2>6
    <3>6. \A b \in Blocks : color'[b] = Black => \A t \in SuccSets'[b] : color'[t] # White
      BY <1>3, <3>4
    <3>7. \A b \in Blocks : color'[b] = Grey => \E k \in 1 .. Len(stack') : stack'[k].bb = b
      BY <3>3
    <3> QED BY <3>1, <3>2, <3>5, <3>6, <3>7 DEF StackInv
  <2>8. OrderInv'
    <3>1. \A b \in Blocks : color'[b] = Black <=> (color[b] = Black \/ b = h)
      BY <2>1
    <3>2. \A b \in Blocks : color'[b] = Black <=> \E i \in Positions' : order'[i] = b
      BY <1>2, <3>1
    <3>3. \A j \in Positions' : \A b \in Blocks : Cuts(order[j], b)' => color'[b] = Black
      BY <1>2, <3>1
    <3> QED BY <1>2, <3>2, <3>3 DEF OrderInv
  <2>9. CollectInv'
    <3>1. ASSUME NEW l \in Loops, NEW x \in holder[l].backEdges
          PROVE  \/ color'[x] = Black
                 \/ \E k \in 1 .. Len(stack') :
                      /\ stack'[k].bb = x
                      /\ stack'[k].todo[holder[l].header] < succs'[x][holder[l].header]
      <4>1. x \in Blocks
        BY LoopFacts
      <4>2. CASE color[x] = Black \/ x = h
        BY <2>1, <4>1, <4>2
      <4>3. CASE color[x] # Black /\ x # h
        <5>1. PICK k \in 1 .. n : /\ stack[k].bb = x
                                  /\ stack[k].todo[holder[l].header] < succs[x][holder[l].header]
          BY <1>1, <4>3 DEF CollectInv
        <5>2. k \in 1 .. n - 1
          <6>1. k # n /\ n \in Nat
            BY <1>1, <4>3, <5>1
          <6> QED BY <6>1
        <5>3. stack'[k] = stack[k] /\ k \in 1 .. Len(stack')
          BY <1>1, <5>2
        <5> QED BY <1>1, <5>1, <5>3
      <4> QED BY <4>2, <4>3
    <3>2. /\ \A b \in Blocks : loop'[b] # NoLoop => holder'[loop'[b]].header = b
          /\ \A l \in Loops' : holder'[l].outLoop = NoLoop
      BY <1>1, <1>6 DEF CollectInv
    <3> QED BY <1>1, <1>6, <3>1, <3>2 DEF CollectInv
  <2> QED BY <1>6, <1>7, <2>2, <2>4, <2>7, <2>8, <2>9
<1> QED BY <1>5, <1>9, <1>10

-----------------------------------------------------------------------------
\* The search starts at the root, with nothing discovered.
LEMMA RunStep ==
  ASSUME LoopInv, Run
  PROVE  LoopInv'
<1> USE DEF LoopInv
<1>1. /\ pc = "idle" /\ pc' = "collect"
      /\ UNCHANGED <<succs, preds, root, loop, holder, order, current, pending>>
      /\ doms' = DomSets /\ stack' = << Frame(root) >>
      /\ color' = [color EXCEPT ![root] = @ \cup Grey]
  BY DEF Run, Traverse, Painted, Grey
<1>2. /\ root \in Blocks /\ color = [b \in Blocks |-> White] /\ loop = [b \in Blocks |-> NoLoop]
      /\ holder = << >> /\ order = << >> /\ Len(holder) = 0 /\ Len(order) = 0
      /\ Loops = {} /\ Loops' = {} /\ Positions' = {}
  BY <1>1, EmptySeq DEF IdleInv, TypeInv, Loops, Positions
<1>3. \A b \in Blocks : color'[b] = IF b = root THEN Grey ELSE White
  BY <1>1, <1>2 DEF White
<1>4. /\ SuccSets' = SuccSets /\ Reachable' = Reachable
  BY <1>1, SameGraph
<1>5. EdgesInv' /\ succs[root] \in [Blocks -> Nat]
  BY <1>1, <1>2 DEF EdgesInv
<1>6. Frame(root) \in FrameType /\ Frame(root).bb = root /\ Frame(root).todo = succs[root]
  BY <1>2, <1>5 DEF Frame, FrameType
<1>7. /\ stack' \in Seq(FrameType) /\ Len(stack') = 1 /\ stack'[1] = Frame(root) /\ stack' # << >>
  BY <1>1, <1>6
<1>8. TypeInv'
  <2>1. color' \in [Blocks -> SUBSET {"grey", "black"}]
    BY <1>1, <1>2 DEF White, Grey
  <2> QED BY <1>1, <1>2, <1>7, <2>1 DEF TypeInv
<1>9. StackInv'
  <2>1. Grey # White /\ Grey # Black /\ White # Black
    BY DEF Grey, White, Black
  <2>2. FrameOK(1)'
    <3>1. \A s \in Blocks : /\ succs[root][s] <= succs[root][s]
                            /\ ~(succs[root][s] < succs[root][s])
      BY <1>5
    <3>2. \A j \in 1 .. Len(stack') : j = 1
      BY <1>7
    <3> QED BY <1>1, <1>2, <1>3, <1>4, <1>6, <1>7, <3>1, <3>2, ReachableFacts DEF FrameOK
  <2>3. \A k \in 1 .. Len(stack') : FrameOK(k)'
    <3>1. \A k \in 1 .. Len(stack') : k = 1
      BY <1>7
    <3> QED BY <2>2, <3>1
  <2>4. \A b \in Blocks : color'[b] = Grey => \E k \in 1 .. Len(stack') : stack'[k].bb = b
    <3>1. 1 \in 1 .. Len(stack')
      BY <1>7
    <3> QED BY <1>3, <1>6, <1>7, <2>1, <3>1
  <2> QED BY <1>1, <1>3, <1>6, <1>7, <2>1, <2>3, <2>4 DEF StackInv
<1>10. OrderInv'
  <2>1. \A b \in Blocks : color'[b] # Black
    BY <1>3 DEF Grey, White, Black
  <2> QED BY <1>2, <2>1 DEF OrderInv
<1>11. HeaderInv' /\ ReducibleInv' /\ RootInv'
  BY <1>1, <1>2 DEF HeaderInv, ReducibleInv, RootInv
<1>12. CollectInv'
  BY <1>1, <1>2 DEF CollectInv
<1>13. DomsInv'
  <2> SUFFICES ASSUME NEW b \in Blocks, NEW d \in DomSets[b], d # root
               PROVE  b \notin Left(SuccSets, root, d)
    BY <1>1, <1>4 DEF DomsInv
  <2> DEFINE cuts == {[without |-> e, reached |-> Avoiding(e)] : e \in Reachable}
  <2>1. \E c \in cuts : d = c.without /\ c.without # b /\ b \notin c.reached
    BY DEF DomSets
  <2>2. b # d /\ b \notin Avoiding(d)
    BY <2>1
  <2> QED BY <2>2, AvoidingIsLeft
<1>14. IdleInv' /\ FilledInv' /\ SearchInv' /\ RobbedInv' /\ RankInv' /\ OutcomeInv'
  BY <1>1 DEF IdleInv, FilledInv, SearchInv, RobbedInv, RankInv, OutcomeInv, OutLoopsEnd, Done,
              AbortsOnlyOnParallel
<1> QED BY <1>5, <1>8, <1>9, <1>10, <1>11, <1>12, <1>13, <1>14

-----------------------------------------------------------------------------
\* The next block of PopulateLoops, and the order without it.
LEMMA PopFacts ==
  ASSUME TypeInv, OrderInv, pc \in {"populate", "search"}, order # << >>,
         UNCHANGED <<succs, root>>
  PROVE  /\ Head(order) = order[1] /\ order[1] \in Blocks /\ 1 \in Positions
         /\ order' = Tail(order) /\ pc' = "populate" =>
              /\ order' \in Seq(Blocks) /\ OrderInv'
              /\ \A b : (\E i \in Positions' : order'[i] = b)
                          <=> b # order[1] /\ \E i \in Positions : order[i] = b
<1> DEFINE n == Len(order)
<1>1. /\ Head(order) = order[1] /\ n \in Nat \ {0} /\ 1 \in 1 .. n /\ order[1] \in Blocks
      /\ Tail(order) \in Seq(Blocks) /\ Len(Tail(order)) = n - 1
      /\ \A i \in 1 .. n - 1 : Tail(order)[i] = order[i + 1]
  <2>1. order \in Seq(Blocks)
    BY DEF TypeInv
  <2>2. n \in Nat \ {0} /\ Head(order) = order[1]
    BY <2>1, EmptySeq, LenProperties
  <2>3. /\ Tail(order) \in Seq(Blocks) /\ Len(Tail(order)) = n - 1
        /\ \A i \in 1 .. Len(Tail(order)) : Tail(order)[i] = order[i + 1]
    BY <2>1, HeadTailProperties
  <2>4. 1 \in 1 .. n
    BY <2>2
  <2> QED BY <2>1, <2>2, <2>3, <2>4, ElementOfSeq
<1>2. ASSUME order' = Tail(order), pc' = "populate"
      PROVE  /\ order' \in Seq(Blocks) /\ OrderInv'
             /\ \A b : (\E i \in Positions' : order'[i] = b)
                         <=> b # order[1] /\ \E i \in Positions : order[i] = b
  <2>1. /\ Positions = 1 .. n /\ Positions' = 1 .. n - 1
    BY <1>1, <1>2 DEF Positions
  <2>2. \A i \in 1 .. n - 1 : i + 1 \in 1 .. n /\ i + 1 # 1 /\ order'[i] = order[i + 1]
    BY <1>1, <1>2
  <2>3. /\ \A i, j \in 1 .. n : /\ order[i] = order[j] => i = j
                                /\ Cuts(order[j], order[i]) => i < j
                                /\ order[j] \in Reachable
    BY <2>1 DEF OrderInv
  <2>4. /\ Reachable' = Reachable
        /\ \A d, b : Cuts(d, b)' <=> Cuts(d, b)
    BY SameGraph
  <2>5. ASSUME NEW i \in 1 .. n - 1, NEW j \in 1 .. n - 1
        PROVE  /\ order'[i] = order'[j] => i = j
               /\ Cuts(order'[j], order'[i]) => i < j
               /\ order'[j] \in Reachable
    <3>1. /\ order[i + 1] = order[j + 1] => i + 1 = j + 1
          /\ Cuts(order[j + 1], order[i + 1]) => i + 1 < j + 1
          /\ order[j + 1] \in Reachable
      BY <2>2, <2>3
    <3> QED BY <1>1, <2>2, <3>1
  <2>6. \A i, j \in Positions' : /\ order'[i] = order'[j] => i = j
                                 /\ Cuts(order[j], order[i])' => i < j
                                 /\ order'[j] \in Reachable'
    BY <2>1, <2>4, <2>5, Zenon
  <2>7. OrderInv'
    BY <1>2, <2>6 DEF OrderInv
  <2>8. ASSUME NEW b
        PROVE  (\E i \in Positions' : order'[i] = b)
                 <=> b # order[1] /\ \E i \in Positions : order[i] = b
    <3>1. ASSUME NEW i \in Positions', order'[i] = b
          PROVE  b # order[1] /\ \E k \in Positions : order[k] = b
      BY <1>1, <2>1, <2>2, <2>3, <3>1
    <3>2. ASSUME b # order[1], NEW k \in Positions, order[k] = b
          PROVE  \E i \in Positions' : order'[i] = b
      <4>1. k - 1 \in 1 .. n - 1 /\ (k - 1) + 1 = k
        BY <1>1, <2>1, <3>2
      <4> QED BY <2>1, <2>2, <3>2, <4>1
    <3> QED BY <3>1, <3>2
  <2> QED BY <1>1, <1>2, <2>7, <2>8
<1> QED BY <1>1, <1>2 DEF Positions

\* The parts that do not depend on what PopulateLoops does.
LEMMA PopulateFrame ==
  ASSUME LoopInv, UNCHANGED <<succs, preds, root, doms>>, pc \in {"populate", "search"},
         pc' \in {"populate", "search"}
  PROVE  /\ EdgesInv' /\ IdleInv' /\ DomsInv' /\ StackInv' /\ CollectInv' /\ OutcomeInv'
<1>1. SuccSets' = SuccSets
  BY SameGraph
<1>2. EdgesInv' /\ DomsInv'
  BY <1>1 DEF LoopInv, EdgesInv, DomsInv
<1>3. IdleInv' /\ StackInv' /\ CollectInv'
  BY DEF IdleInv, StackInv, CollectInv
<1>4. OutcomeInv'
  BY DEF OutcomeInv, OutLoopsEnd, Done, AbortsOnlyOnParallel
<1> QED BY <1>2, <1>3, <1>4

\* The loops without the data that only LoopsAreNatural and LoopTreeIsNesting
\* are about.
SameLoop(k, l) ==
  /\ k.header = l.header /\ k.backEdges = l.backEdges
  /\ k.irreducible = l.irreducible /\ k.isRoot = l.isRoot

\* What BuildLoopTree changes of a loop.
LEMMA LoopUpdated ==
  ASSUME NEW l \in LoopType, NEW x \in Nat, NEW y \in SUBSET Nat, NEW z \in SUBSET Blocks,
         NEW q, q = [l EXCEPT !.outLoop = x, !.inLoops = y, !.blocks = z]
  PROVE  q \in LoopType /\ SameLoop(q, l) /\ q.outLoop = x
BY DEF LoopType, SameLoop

\* What a step of PopulateLoops keeps when it keeps those data and gives no
\* header another loop unless it is irreducible.
LEMMA LoopsFrame ==
  ASSUME LoopInv, UNCHANGED <<succs, root, doms>>, pc \in {"populate", "search"},
         pc' \in {"populate", "search"}, Len(holder') = Len(holder),
         \A l \in Loops : SameLoop(holder'[l], holder[l]),
         \A b \in Blocks : loop[b] # NoLoop => loop'[b] # NoLoop
  PROVE  HeaderInv' /\ ReducibleInv' /\ RootInv' /\ Loops' = Loops
<1>1. Loops' = Loops
  BY DEF Loops
<1>2. Reachable' = Reachable
  BY SameGraph
<1>3. HeaderInv'
  BY <1>1, <1>2, LoopFacts DEF LoopInv, HeaderInv, SameLoop
<1>4. ReducibleInv'
  BY <1>1 DEF LoopInv, ReducibleInv, SameLoop
<1>5. RootInv'
  BY <1>1 DEF LoopInv, RootInv, SameLoop
<1> QED BY <1>1, <1>3, <1>4, <1>5

\* Coming to the next block ends the wait of its loop alone, and the wait of
\* every loop that is filled is over.
LEMMA PopEndsWait ==
  ASSUME LoopInv, pc \in {"populate", "search"}, order # << >>, order' = Tail(order),
         pc' = "populate", UNCHANGED <<succs, root>>, Len(holder') = Len(holder),
         \A l \in Loops : SameLoop(holder'[l], holder[l])
  PROVE  \A l \in Loops :
           /\ Filled(l)' <=> ~Waiting(l)'
           /\ ~Waiting(l) => ~Waiting(l)'
           /\ Filled(l) => ~Waiting(l)'
           /\ holder[l].header = order[1] => ~Waiting(l)'
<1> USE DEF LoopInv
<1>1. /\ order[1] \in Blocks
      /\ \A b : (\E i \in Positions' : order'[i] = b)
                  <=> b # order[1] /\ \E i \in Positions : order[i] = b
  BY PopFacts
<1>2. SUFFICES ASSUME NEW l \in Loops
               PROVE  /\ Filled(l)' <=> ~Waiting(l)'
                      /\ ~Waiting(l) => ~Waiting(l)'
                      /\ Filled(l) => ~Waiting(l)'
                      /\ holder[l].header = order[1] => ~Waiting(l)'
  OBVIOUS
<1>3. Waiting(l)' <=> holder[l].header # order[1] /\ Waiting(l)
  <2>1. holder'[l].header = holder[l].header
    BY DEF SameLoop
  <2>2. (\E i \in Positions' : order'[i] = holder[l].header)
          <=> holder[l].header # order[1] /\ \E i \in Positions : order[i] = holder[l].header
    BY <1>1, Zenon
  <2>3. Waiting(l)' <=> \E i \in Positions' : order'[i] = holder[l].header
    BY <2>1 DEF Waiting
  <2>4. Waiting(l) <=> \E i \in Positions : order[i] = holder[l].header
    BY DEF Waiting
  <2> QED BY <2>2, <2>3, <2>4
<1>4. Filled(l)' <=> ~Waiting(l)'
  BY DEF Filled
<1>5. ASSUME Filled(l) PROVE ~Waiting(l)'
  <2>1. CASE ~Waiting(l)
    BY <1>3, <2>1
  <2>2. CASE pc = "search" /\ l = current
    BY <1>3, <2>2 DEF SearchInv
  <2> QED BY <1>5, <2>1, <2>2 DEF Filled
<1> QED BY <1>3, <1>4, <1>5

\* Nothing that the order of the loops rests on changes.
LEMMA RankKept ==
  ASSUME LoopInv, pc \in {"populate", "search"}, pc' \in {"populate", "search"},
         pc' = "search" => pc = "search" /\ current' = current,
         Len(holder') = Len(holder),
         \A l \in Loops : holder'[l].outLoop = holder[l].outLoop
  PROVE  RankInv'
<1>1. Loops' = Loops
  BY DEF Loops
<1>2. PICK f \in [Nat -> Nat], n \in Nat :
        \A l \in Loops :
          /\ f[l] < n
          /\ holder[l].outLoop # NoLoop => f[l] < f[holder[l].outLoop]
          /\ pc \in {"search", "tree"} /\ l # current => f[l] < f[current]
  BY DEF LoopInv, RankInv
<1>3. \A l \in Loops' :
        /\ f[l] < n
        /\ holder'[l].outLoop # NoLoop => f[l] < f[holder'[l].outLoop]
        /\ pc' \in {"search", "tree"} /\ l # current' => f[l] < f[current']
  BY <1>1, <1>2
<1> QED BY <1>3 DEF RankInv

LEMMA NotHeaderStep ==
  ASSUME LoopInv, NotHeader
  PROVE  LoopInv'
<1> USE DEF LoopInv
<1>1. /\ pc = "populate" /\ pc' = "populate" /\ order # << >> /\ order' = Tail(order)
      /\ UNCHANGED <<succs, preds, root, doms, color, loop, holder, stack, current, pending>>
  BY DEF NotHeader, vars
<1>2. \A l \in Loops : SameLoop(holder'[l], holder[l]) /\ holder'[l].outLoop = holder[l].outLoop
  BY <1>1 DEF SameLoop
<1>3. order' \in Seq(Blocks) /\ OrderInv'
  BY <1>1, PopFacts
<1>4. EdgesInv' /\ IdleInv' /\ DomsInv' /\ StackInv' /\ CollectInv' /\ OutcomeInv'
  BY <1>1, PopulateFrame
<1>5. HeaderInv' /\ ReducibleInv' /\ RootInv' /\ Loops' = Loops
  BY <1>1, <1>2, LoopsFrame
<1>6. TypeInv'
  BY <1>1, <1>3, <1>5 DEF TypeInv
<1>7. FilledInv' /\ SearchInv'
  <2>1. \A l \in Loops :
          /\ Filled(l)' <=> ~Waiting(l)'
          /\ ~Waiting(l) => ~Waiting(l)'
          /\ Filled(l) => ~Waiting(l)'
    BY <1>1, <1>2, PopEndsWait
  <2> QED BY <1>1, <1>5, <2>1 DEF FilledInv, SearchInv
<1>8. RobbedInv'
  BY <1>1, <1>5 DEF RobbedInv
<1>9. RankInv'
  BY <1>1, <1>2, RankKept
<1> QED BY <1>3, <1>4, <1>5, <1>6, <1>7, <1>8, <1>9

LEMMA LoopFilledStep ==
  ASSUME LoopInv, LoopFilled
  PROVE  LoopInv'
<1> USE DEF LoopInv
<1>1. /\ pc = "search" /\ pc' = "populate" /\ order # << >> /\ order' = Tail(order)
      /\ color' = Cleaned
      /\ UNCHANGED <<succs, preds, root, doms, loop, holder, stack, current, pending>>
  BY DEF LoopFilled, SearchInv, vars
<1>2. \A l \in Loops : SameLoop(holder'[l], holder[l]) /\ holder'[l].outLoop = holder[l].outLoop
  BY <1>1 DEF SameLoop
<1>3. order' \in Seq(Blocks) /\ OrderInv'
  BY <1>1, PopFacts
<1>4. EdgesInv' /\ IdleInv' /\ DomsInv' /\ StackInv' /\ CollectInv' /\ OutcomeInv'
  BY <1>1, PopulateFrame
<1>5. HeaderInv' /\ ReducibleInv' /\ RootInv' /\ Loops' = Loops
  BY <1>1, <1>2, LoopsFrame
<1>6. TypeInv'
  <2>1. color' \in [Blocks -> SUBSET {"grey", "black"}]
    BY <1>1 DEF TypeInv, Cleaned
  <2> QED BY <1>1, <1>3, <1>5, <2>1 DEF TypeInv
<1>7. FilledInv' /\ SearchInv'
  <2>1. \A l \in Loops :
          /\ Filled(l)' <=> ~Waiting(l)'
          /\ ~Waiting(l) => ~Waiting(l)'
          /\ Filled(l) => ~Waiting(l)'
    BY <1>1, <1>2, PopEndsWait
  <2> QED BY <1>1, <1>5, <2>1 DEF FilledInv, SearchInv
<1>8. RobbedInv'
  BY <1>1, <1>5 DEF RobbedInv
<1>9. RankInv'
  BY <1>1, <1>2, RankKept
<1> QED BY <1>3, <1>4, <1>5, <1>6, <1>7, <1>8, <1>9

\* The sources of the back edges go to a loop whose wait ends with this step.
LEMMA TakeSourcesStep ==
  ASSUME LoopInv, TakeSources
  PROVE  LoopInv'
<1> USE DEF LoopInv
<1> DEFINE m == loop[Head(order)]
           new == {b \in holder[m].backEdges : loop[b] # m}
           r == [holder[m] EXCEPT !.blocks = holder[m].blocks \cup new]
<1>1. /\ pc = "populate" /\ pc' = "populate" /\ order # << >> /\ order' = Tail(order)
      /\ m # NoLoop /\ holder[m].header = Head(order) /\ holder[m].irreducible
      /\ holder' = [holder EXCEPT ![m] = r]
      /\ loop' = [b \in Blocks |-> IF b \in new THEN m ELSE loop[b]]
      /\ UNCHANGED <<succs, preds, root, doms, color, stack, current, pending>>
  BY DEF TakeSources, Sources, IsLoopHeader, vars
<1>2. Head(order) = order[1] /\ order[1] \in Blocks /\ order' \in Seq(Blocks) /\ OrderInv'
  BY <1>1, PopFacts
<1>3. m \in Loops /\ holder[m] \in LoopType /\ new \subseteq Blocks
  BY <1>1, <1>2, LoopFacts
<1>4. /\ r \in LoopType /\ SameLoop(r, holder[m]) /\ r.outLoop = holder[m].outLoop
  <2>1. holder[m].blocks \cup new \in SUBSET Blocks
    BY <1>3 DEF LoopType
  <2> HIDE DEF new, m
  <2> QED BY <1>3, <2>1 DEF LoopType, SameLoop
<1> HIDE DEF r
<1>5. /\ holder' \in Seq(LoopType) /\ Len(holder') = Len(holder)
      /\ \A l \in Loops : SameLoop(holder'[l], holder[l]) /\ holder'[l].outLoop = holder[l].outLoop
  <2>1. /\ holder' \in Seq(LoopType) /\ Len(holder') = Len(holder)
        /\ \A l \in Loops : holder'[l] = IF l = m THEN r ELSE holder[l]
    BY <1>1, <1>3, <1>4, ExceptSeq DEF TypeInv, Loops
  <2> QED BY <1>4, <2>1 DEF SameLoop
<1>6. \A b \in Blocks : loop'[b] = IF b \in new THEN m ELSE loop[b]
  BY <1>1
<1>7. EdgesInv' /\ IdleInv' /\ DomsInv' /\ StackInv' /\ CollectInv' /\ OutcomeInv'
  BY <1>1, PopulateFrame
<1>8. HeaderInv' /\ ReducibleInv' /\ RootInv' /\ Loops' = Loops
  BY <1>1, <1>5, <1>6, LoopsFrame
<1>9. TypeInv'
  <2>1. loop' \in [Blocks -> 0 .. Len(holder')]
    BY <1>1, <1>2, <1>5 DEF TypeInv
  <2> QED BY <1>1, <1>2, <1>5, <1>8, <2>1 DEF TypeInv
<1>10. FilledInv' /\ SearchInv'
  <2>1. \A l \in Loops :
          /\ Filled(l)' <=> ~Waiting(l)'
          /\ ~Waiting(l) => ~Waiting(l)'
          /\ Filled(l) => ~Waiting(l)'
          /\ holder[l].header = order[1] => ~Waiting(l)'
    BY <1>1, <1>5, PopEndsWait
  <2>2. \A l \in Loops : l = m => Filled(l)'
    BY <1>1, <1>2, <2>1
  <2>3. ASSUME NEW b \in Blocks, NEW l \in Loops, loop'[b] = l
        PROVE  holder'[l].header = b \/ Filled(l)'
    <3>1. CASE b \in new
      BY <1>6, <2>2, <2>3, <3>1
    <3>2. CASE b \notin new
      <4>1. loop[b] = l
        BY <1>6, <2>3, <3>2
      <4> QED BY <1>1, <1>5, <2>1, <4>1 DEF FilledInv, SameLoop
    <3> QED BY <3>1, <3>2
  <2>4. \A l, k \in Loops : holder'[l].outLoop = k => ~Waiting(l)' /\ Filled(k)'
    BY <1>1, <1>5, <2>1 DEF FilledInv
  <2> QED BY <1>1, <1>8, <2>3, <2>4 DEF FilledInv, SearchInv
<1>11. RobbedInv'
  <2> SUFFICES ASSUME NEW l \in Loops
               PROVE  \/ loop'[holder'[l].header] = l
                      \/ \E k \in Loops \ {l} : /\ holder'[k].irreducible
                                                /\ holder'[l].header \in holder'[k].backEdges
    BY <1>8 DEF RobbedInv
  <2> DEFINE h == holder[l].header
  <2>1. h \in Blocks /\ holder'[l].header = h
    BY <1>5, LoopFacts DEF SameLoop
  <2>2. CASE h \in new /\ l # m
    BY <1>1, <1>3, <1>5, <2>1, <2>2 DEF SameLoop
  <2>3. CASE h \in new /\ l = m
    BY <1>6, <2>1, <2>3
  <2>4. CASE h \notin new
    <3>1. loop'[h] = loop[h]
      BY <1>6, <2>1, <2>4
    <3>2. \/ loop[h] = l
          \/ \E k \in Loops \ {l} : holder[k].irreducible /\ h \in holder[k].backEdges
      BY <1>1 DEF RobbedInv
    <3>3. \A k \in Loops : /\ holder'[k].irreducible = holder[k].irreducible
                           /\ holder'[k].backEdges = holder[k].backEdges
      BY <1>5 DEF SameLoop
    <3> HIDE DEF h
    <3> QED BY <2>1, <3>1, <3>2, <3>3
  <2> QED BY <2>2, <2>3, <2>4
<1>12. RankInv'
  BY <1>1, <1>5, RankKept
<1> QED BY <1>2, <1>7, <1>8, <1>9, <1>10, <1>11, <1>12

\* The search for the blocks of a loop begins: the loop comes after all others
\* that are filled, and no loop points to it yet.
LEMMA FillReducibleStep ==
  ASSUME LoopInv, FillReducible
  PROVE  LoopInv'
<1> USE DEF LoopInv
<1> DEFINE m == loop[Head(order)]
<1>1. /\ pc = "populate" /\ pc' = "search" /\ order # << >> /\ current' = m
      /\ m # NoLoop /\ holder[m].header = Head(order) /\ ~holder[m].irreducible
      /\ color' = [color EXCEPT ![Head(order)] = @ \cup {"black"}]
      /\ pending' = holder[m].backEdges
      /\ UNCHANGED <<succs, preds, root, doms, loop, holder, stack, order>>
  BY DEF FillReducible, IsLoopHeader, Painted, vars
<1>2. Head(order) = order[1] /\ order[1] \in Blocks /\ 1 \in Positions
  BY <1>1, PopFacts
<1>3. m \in Loops /\ holder[m].backEdges \subseteq Blocks
  BY <1>1, <1>2, LoopFacts
<1>4. \A l \in Loops : SameLoop(holder'[l], holder[l])
  BY <1>1 DEF SameLoop
<1>5. EdgesInv' /\ IdleInv' /\ DomsInv' /\ StackInv' /\ CollectInv' /\ OutcomeInv'
  BY <1>1, PopulateFrame
<1>6. HeaderInv' /\ ReducibleInv' /\ RootInv' /\ Loops' = Loops
  BY <1>1, <1>4, LoopsFrame
<1>7. SuccSets' = SuccSets /\ Reachable' = Reachable /\ \A d, b : Cuts(d, b)' <=> Cuts(d, b)
  BY <1>1, SameGraph
<1>8. /\ color' \in [Blocks -> SUBSET {"grey", "black"}]
      /\ "black" \in color'[order[1]]
  BY <1>1, <1>2 DEF TypeInv
<1>9. TypeInv'
  <2>1. current' \in 0 .. Len(holder')
    BY <1>1, <1>2 DEF TypeInv
  <2> QED BY <1>1, <1>3, <1>6, <1>8, <2>1 DEF TypeInv
<1>10. OrderInv'
  BY <1>1, <1>7 DEF OrderInv, Positions
<1>11. \A l \in Loops : (Waiting(l)' <=> Waiting(l)) /\ (Filled(l) => Filled(l)')
  BY <1>1 DEF Waiting, Filled, Positions
<1>12. FilledInv'
  BY <1>1, <1>6, <1>11 DEF FilledInv
<1>13. SearchInv'
  <2>1. ASSUME NEW b \in holder[m].backEdges, b \in Reachable, b # order[1]
        PROVE  Cuts(order[1], b)
    <3>1. order[1] \in doms[b] /\ b \in Blocks
      BY <1>1, <1>2, <1>3 DEF ReducibleInv
    <3>2. order[1] = root \/ b \notin Left(SuccSets, root, order[1])
      BY <1>1, <3>1 DEF DomsInv
    <3> QED BY <2>1, <3>2 DEF Cuts
  <2>2. \A b \in pending' : b \in Reachable' => b = order[1] \/ Cuts(order[1], b)
    BY <1>1, <1>7, <2>1
  <2> QED BY <1>1, <1>2, <1>3, <1>6, <1>7, <1>8, <2>2 DEF SearchInv
<1>14. RobbedInv'
  BY <1>1, <1>6 DEF RobbedInv
<1>15. RankInv'
  <2>1. PICK f \in [Nat -> Nat], n \in Nat :
          \A l \in Loops :
            /\ f[l] < n
            /\ holder[l].outLoop # NoLoop => f[l] < f[holder[l].outLoop]
    BY <1>1 DEF RankInv
  <2> DEFINE g == [f EXCEPT ![m] = n]
  <2>2. \A l \in Loops : l \in Nat
    BY LoopFacts DEF Loops
  <2>3. g \in [Nat -> Nat] /\ \A i \in Nat : g[i] = IF i = m THEN n ELSE f[i]
    BY <1>3, <2>2
  <2>4. Waiting(m)
    BY <1>1, <1>2 DEF Waiting
  <2>5. ~Filled(m)
    BY <1>1, <2>4 DEF Filled
  <2> HIDE DEF g, m
  <2>6. \A l \in Loops :
          /\ g[l] < n + 1
          /\ holder[l].outLoop # NoLoop => g[l] < g[holder[l].outLoop]
          /\ l # m => g[l] < g[m]
    <3> SUFFICES ASSUME NEW l \in Loops
                 PROVE  /\ g[l] < n + 1
                        /\ holder[l].outLoop # NoLoop => g[l] < g[holder[l].outLoop]
                        /\ l # m => g[l] < g[m]
      OBVIOUS
    <3>1. l \in Nat /\ m \in Nat /\ f[l] \in Nat /\ f[l] < n /\ g[m] = n
      BY <1>3, <2>1, <2>2, <2>3
    <3>2. g[l] < n + 1 /\ (l # m => g[l] < g[m])
      BY <2>3, <3>1
    <3>3. ASSUME holder[l].outLoop # NoLoop PROVE g[l] < g[holder[l].outLoop]
      <4> DEFINE k == holder[l].outLoop
      <4>1. k \in Loops
        <5>1. Len(holder) \in Nat /\ holder[l].outLoop \in 0 .. Len(holder)
          BY LoopFacts DEF TypeInv
        <5>2. \A i \in Nat : \A o \in 0 .. i : o # 0 => o \in 1 .. i
          OBVIOUS
        <5>3. holder[l].outLoop # 0
          BY <3>3 DEF NoLoop
        <5> QED BY <5>1, <5>2, <5>3 DEF Loops
      <4>2. ~Waiting(l) /\ Filled(k)
        BY <1>1, <4>1 DEF FilledInv
      <4>3. l # m /\ k # m
        BY <2>4, <2>5, <4>2
      <4>4. g[l] = f[l] /\ g[k] = f[k] /\ f[l] < f[k]
        BY <2>1, <2>2, <2>3, <3>3, <4>1, <4>3
      <4> QED BY <4>4
    <3> QED BY <3>2, <3>3
  <2>7. n + 1 \in Nat
    OBVIOUS
  <2> QED BY <1>1, <1>6, <2>3, <2>6, <2>7 DEF RankInv, m
<1> QED BY <1>5, <1>6, <1>9, <1>10, <1>12, <1>13, <1>14, <1>15

-----------------------------------------------------------------------------
\* The backward search does not leave the blocks that the header cuts off: a
\* path to a predecessor that avoids the header would go on to the block.
LEMMA PredecessorsCutOff ==
  ASSUME TypeInv, EdgesInv, pc = "search", NEW h \in Blocks, NEW b \in Blocks, b # h,
         b \in Reachable => Cuts(h, b),
         NEW a \in PredsOf({b}), a \in Reachable
  PROVE  a = h \/ Cuts(h, a)
<1>1. a \in Blocks /\ b \in SuccSets[a]
  <2>1. a \in Blocks /\ preds[b][a] > 0
    BY DEF PredsOf
  <2>2. succs[a][b] > 0
    BY <2>1 DEF EdgesInv
  <2> QED BY <2>1, <2>2, SuccFacts
<1>2. Cuts(h, b)
  BY <1>1, ReachableFacts DEF TypeInv
<1>3. CASE h = root
  BY <1>3 DEF Cuts
<1>4. CASE h # root
  <2>1. b \notin Left(SuccSets, root, h)
    BY <1>2, <1>4 DEF Cuts
  <2>2. a \notin Left(SuccSets, root, h)
    BY <1>1, <2>1, LeftStep
  <2> QED BY <2>2 DEF Cuts
<1> QED BY <1>3, <1>4

\* What all cases of a step of the search have in common.
LEMMA SearchFrame ==
  ASSUME LoopInv, NEW b \in Blocks, Visit(b),
         holder' \in Seq(LoopType), Len(holder') = Len(holder),
         \A l \in Loops : SameLoop(holder'[l], holder[l])
                          /\ holder'[l].outLoop \in 0 .. Len(holder),
         \A x \in Blocks : \/ loop'[x] = loop[x]
                           \/ loop[x] = NoLoop /\ loop'[x] = current,
         loop' \in [Blocks -> 0 .. Len(holder)]
  PROVE  /\ TypeInv' /\ EdgesInv' /\ IdleInv' /\ DomsInv' /\ StackInv' /\ CollectInv'
         /\ OutcomeInv' /\ HeaderInv' /\ ReducibleInv' /\ RootInv' /\ OrderInv'
         /\ SearchInv' /\ RobbedInv' /\ Loops' = Loops
<1> USE DEF LoopInv
<1>1. /\ pc = "search" /\ pc' = "search" /\ b \in pending
      /\ UNCHANGED <<succs, preds, root, doms, stack, order, current>>
      /\ \/ "black" \in color[b] /\ pending' = pending \ {b} /\ UNCHANGED color
         \/ /\ "black" \notin color[b] /\ color' = [color EXCEPT ![b] = @ \cup {"black"}]
            /\ pending' = (pending \ {b}) \cup PredsOf({b})
  BY DEF Visit, Nests, Painted
<1>2. EdgesInv' /\ IdleInv' /\ DomsInv' /\ StackInv' /\ CollectInv' /\ OutcomeInv'
  BY <1>1, PopulateFrame
<1>3. /\ current \in Loops /\ current # NoLoop /\ order # << >>
      /\ holder[current].header = order[1]
      /\ "black" \in color[order[1]]
      /\ \A x \in pending : x \in Reachable => x = order[1] \/ Cuts(order[1], x)
  BY <1>1 DEF SearchInv, Loops, NoLoop
<1>4. HeaderInv' /\ ReducibleInv' /\ RootInv' /\ Loops' = Loops
  BY <1>1, <1>3, LoopsFrame
<1>5. SuccSets' = SuccSets /\ Reachable' = Reachable /\ \A d, x : Cuts(d, x)' <=> Cuts(d, x)
  BY <1>1, SameGraph
<1>6. order[1] \in Blocks
  BY <1>3, LoopFacts
<1>7. /\ color' \in [Blocks -> SUBSET {"grey", "black"}] /\ pending' \subseteq Blocks
      /\ "black" \in color'[order[1]]
  <2>1. PredsOf({b}) \subseteq Blocks /\ pending \subseteq Blocks
    BY DEF PredsOf, TypeInv
  <2>2. CASE pending' = pending \ {b} /\ UNCHANGED color
    BY <1>3, <2>1, <2>2 DEF TypeInv
  <2>3. CASE /\ color' = [color EXCEPT ![b] = @ \cup {"black"}]
             /\ pending' = (pending \ {b}) \cup PredsOf({b})
    <3>1. pending' \subseteq Blocks
      BY <2>1, <2>3
    <3>2. \A x \in Blocks : color[x] \in SUBSET {"grey", "black"}
      BY DEF TypeInv
    <3>3. color[b] \cup {"black"} \in SUBSET {"grey", "black"}
      BY <3>2
    <3>4. color' \in [Blocks -> SUBSET {"grey", "black"}]
      BY <2>3, <3>3 DEF TypeInv
    <3>5. color'[order[1]] = IF order[1] = b THEN color[b] \cup {"black"} ELSE color[order[1]]
      BY <1>6, <2>3 DEF TypeInv
    <3> QED BY <1>3, <3>1, <3>4, <3>5
  <2> QED BY <1>1, <2>2, <2>3
<1>8. TypeInv'
  <2>1. \A l \in Loops' : holder'[l].outLoop \in 0 .. Len(holder')
    BY <1>4
  <2> QED BY <1>1, <1>7, <2>1 DEF TypeInv
<1>9. OrderInv'
  BY <1>1, <1>5 DEF OrderInv, Positions
<1>10. \A x \in pending' : x \in Reachable => x = order[1] \/ Cuts(order[1], x)
  <2>1. CASE pending' = pending \ {b}
    BY <1>3, <2>1
  <2>2. CASE "black" \notin color[b] /\ pending' = (pending \ {b}) \cup PredsOf({b})
    <3>1. b # order[1]
      BY <1>3, <2>2
    <3>2. b \in Reachable => Cuts(order[1], b)
      BY <1>1, <1>3, <3>1
    <3>3. \A x \in PredsOf({b}) : x \in Reachable => x = order[1] \/ Cuts(order[1], x)
      BY <1>1, <1>6, <3>1, <3>2, PredecessorsCutOff
    <3> QED BY <1>3, <2>2, <3>3
  <2> QED BY <1>1, <2>1, <2>2
<1>11. SearchInv'
  <2>1. current' \in Loops' /\ order' # << >> /\ holder'[current'].header = order'[1]
    BY <1>1, <1>3, <1>4 DEF SameLoop
  <2>2. \A x \in pending' : x \in Reachable' => x = order'[1] \/ Cuts(order[1], x)'
    BY <1>1, <1>5, <1>10
  <2> QED BY <1>1, <1>7, <2>1, <2>2 DEF SearchInv
<1>12. RobbedInv'
  <2> SUFFICES ASSUME NEW l \in Loops
               PROVE  \/ loop'[holder'[l].header] = l
                      \/ \E k \in Loops \ {l} : /\ holder'[k].irreducible
                                                /\ holder'[l].header \in holder'[k].backEdges
    BY <1>4 DEF RobbedInv
  <2>1. /\ holder'[l].header = holder[l].header /\ holder[l].header \in Blocks
        /\ loop[holder[l].header] # NoLoop
    BY LoopFacts DEF SameLoop, HeaderInv
  <2>2. loop'[holder[l].header] = loop[holder[l].header]
    BY <2>1
  <2> QED BY <1>1, <2>1, <2>2 DEF RobbedInv, SameLoop
<1> QED BY <1>2, <1>4, <1>8, <1>9, <1>11, <1>12

LEMMA VisitStep ==
  ASSUME LoopInv, NEW b \in Blocks, Visit(b)
  PROVE  LoopInv'
<1> USE DEF LoopInv
<1> DEFINE m == loop[b]
<1>1. /\ pc = "search" /\ pc' = "search" /\ b \in pending
      /\ UNCHANGED <<succs, preds, root, doms, stack, order, current>>
  BY DEF Visit, Nests
<1>2. /\ current \in Loops /\ current # NoLoop /\ order # << >>
      /\ holder[current].header = order[1] /\ "black" \in color[order[1]]
      /\ (b \in Reachable => b = order[1] \/ Cuts(order[1], b))
      /\ holder[current] \in LoopType /\ holder[current].outLoop \in 0 .. Len(holder)
  BY <1>1, LoopFacts DEF SearchInv, Loops, NoLoop
<1>3. /\ holder \in Seq(LoopType) /\ loop \in [Blocks -> 0 .. Len(holder)]
      /\ \A l \in Loops : holder[l].outLoop \in 0 .. Len(holder)
      /\ \A l \in Loops : SameLoop(holder[l], holder[l])
  BY LoopFacts DEF TypeInv, SameLoop
<1>4. \/ "black" \in color[b] /\ UNCHANGED <<loop, holder>>
      \/ /\ "black" \notin color[b] /\ m = NoLoop
         /\ loop' = [loop EXCEPT ![b] = current]
         /\ holder' = [holder EXCEPT ![current].blocks = @ \cup {b}]
      \/ /\ "black" \notin color[b] /\ m # NoLoop /\ UNCHANGED <<loop, holder>>
      \/ /\ "black" \notin color[b] /\ m # NoLoop /\ UNCHANGED loop
         /\ holder[m].header # holder[current].header /\ holder[m].outLoop = NoLoop
         /\ holder' = [holder EXCEPT ![m].outLoop = current, ![current].inLoops = @ \cup {m}]
  BY DEF Visit, Nests
<1>5. CASE UNCHANGED <<loop, holder>>
  <2>1. /\ TypeInv' /\ EdgesInv' /\ IdleInv' /\ DomsInv' /\ StackInv' /\ CollectInv'
        /\ OutcomeInv' /\ HeaderInv' /\ ReducibleInv' /\ RootInv' /\ OrderInv'
        /\ SearchInv' /\ RobbedInv' /\ Loops' = Loops
    BY <1>3, <1>5, SearchFrame
  <2>2. \A l \in Loops : (Waiting(l)' <=> Waiting(l)) /\ (Filled(l)' <=> Filled(l))
    BY <1>1, <1>5 DEF Waiting, Filled, Positions
  <2>3. FilledInv'
    BY <1>1, <1>5, <2>1, <2>2 DEF FilledInv
  <2>4. RankInv'
    BY <1>1, <1>5, RankKept
  <2> QED BY <2>1, <2>3, <2>4
<1>6. CASE /\ m = NoLoop
           /\ loop' = [loop EXCEPT ![b] = current]
           /\ holder' = [holder EXCEPT ![current].blocks = @ \cup {b}]
  <2> DEFINE r == [holder[current] EXCEPT !.blocks = holder[current].blocks \cup {b}]
  <2>1. /\ r \in LoopType /\ SameLoop(r, holder[current])
        /\ r.outLoop = holder[current].outLoop
    BY <1>2 DEF LoopType, SameLoop
  <2>2. holder' = [holder EXCEPT ![current] = r]
    BY <1>6
  <2> HIDE DEF r
  <2>3. /\ holder' \in Seq(LoopType) /\ Len(holder') = Len(holder)
        /\ \A l \in Loops : holder'[l] = IF l = current THEN r ELSE holder[l]
    BY <1>2, <1>3, <2>1, <2>2, ExceptSeq DEF Loops
  <2>4. \A l \in Loops : /\ SameLoop(holder'[l], holder[l])
                         /\ holder'[l].outLoop = holder[l].outLoop
                         /\ holder'[l].outLoop \in 0 .. Len(holder)
    BY <1>3, <2>1, <2>3
  <2>5. \A x \in Blocks : loop'[x] = IF x = b THEN current ELSE loop[x]
    BY <1>3, <1>6
  <2>6. loop' \in [Blocks -> 0 .. Len(holder)]
    BY <1>3, <1>6 DEF TypeInv
  <2>7. /\ TypeInv' /\ EdgesInv' /\ IdleInv' /\ DomsInv' /\ StackInv' /\ CollectInv'
        /\ OutcomeInv' /\ HeaderInv' /\ ReducibleInv' /\ RootInv' /\ OrderInv'
        /\ SearchInv' /\ RobbedInv' /\ Loops' = Loops
    BY <1>6, <2>3, <2>4, <2>5, <2>6, SearchFrame
  <2>8. \A l \in Loops : (Waiting(l)' <=> Waiting(l)) /\ (Filled(l)' <=> Filled(l))
    BY <1>1, <2>4 DEF Waiting, Filled, Positions, SameLoop
  <2>9. FilledInv'
    <3>1. Filled(current)
      BY <1>1 DEF Filled
    <3>2. ASSUME NEW x \in Blocks, NEW l \in Loops, loop'[x] = l
          PROVE  holder'[l].header = x \/ Filled(l)'
      <4>1. CASE x = b
        BY <2>5, <2>8, <3>1, <3>2, <4>1
      <4>2. CASE x # b
        BY <1>1, <2>4, <2>5, <2>8, <3>2, <4>2 DEF FilledInv, SameLoop
      <4> QED BY <4>1, <4>2
    <3>3. \A l, k \in Loops : holder'[l].outLoop = k => ~Waiting(l)' /\ Filled(k)'
      BY <1>1, <2>4, <2>8 DEF FilledInv
    <3> QED BY <2>7, <3>2, <3>3 DEF FilledInv
  <2>10. RankInv'
    BY <1>1, <2>3, <2>4, RankKept
  <2> QED BY <2>7, <2>9, <2>10
<1>7. CASE /\ "black" \notin color[b] /\ m # NoLoop /\ UNCHANGED loop
           /\ holder[m].header # holder[current].header /\ holder[m].outLoop = NoLoop
           /\ holder' = [holder EXCEPT ![m].outLoop = current, ![current].inLoops = @ \cup {m}]
  <2>1. /\ m \in Loops /\ m # current /\ holder[m] \in LoopType
        /\ current \in Nat /\ m \in Nat
    BY <1>2, <1>7, LoopFacts DEF Loops
  <2> DEFINE r == [holder[m] EXCEPT !.outLoop = current]
             q == [holder[current] EXCEPT !.inLoops = holder[current].inLoops \cup {m}]
             h == [holder EXCEPT ![m] = r]
  <2> HIDE DEF m
  <2>2. /\ r \in LoopType /\ SameLoop(r, holder[m]) /\ r.outLoop = current
    BY <2>1 DEF LoopType, SameLoop
  <2>3. /\ q \in LoopType /\ SameLoop(q, holder[current]) /\ q.outLoop = holder[current].outLoop
    BY <1>2, <2>1 DEF LoopType, SameLoop
  <2>4. holder' = [h EXCEPT ![current] = q]
    <3>1. h[current] = holder[current]
      BY <1>2, <2>1
    <3> QED BY <1>7, <3>1
  <2> HIDE DEF r, q
  <2>5. /\ h \in Seq(LoopType) /\ Len(h) = Len(holder)
        /\ \A l \in Loops : h[l] = IF l = m THEN r ELSE holder[l]
    BY <1>3, <2>1, <2>2, ExceptSeq DEF Loops
  <2> HIDE DEF h
  <2>6. /\ holder' \in Seq(LoopType) /\ Len(holder') = Len(holder)
        /\ \A l \in Loops : holder'[l] = IF l = current THEN q ELSE h[l]
    BY <1>2, <2>3, <2>4, <2>5, ExceptSeq DEF Loops
  <2>7. \A l \in Loops : /\ SameLoop(holder'[l], holder[l])
                         /\ holder'[l].outLoop = IF l = m THEN current ELSE holder[l].outLoop
                         /\ holder'[l].outLoop \in 0 .. Len(holder)
    <3>1. current \in 0 .. Len(holder)
      BY DEF TypeInv
    <3> QED BY <1>3, <2>1, <2>2, <2>3, <2>5, <2>6, <3>1
  <2>8. /\ TypeInv' /\ EdgesInv' /\ IdleInv' /\ DomsInv' /\ StackInv' /\ CollectInv'
        /\ OutcomeInv' /\ HeaderInv' /\ ReducibleInv' /\ RootInv' /\ OrderInv'
        /\ SearchInv' /\ RobbedInv' /\ Loops' = Loops
    BY <1>3, <1>7, <2>6, <2>7, SearchFrame
  <2>9. \A l \in Loops : (Waiting(l)' <=> Waiting(l)) /\ (Filled(l)' <=> Filled(l))
    BY <1>1, <2>7 DEF Waiting, Filled, Positions, SameLoop
  <2>10. ~Waiting(m)
    <3>1. holder[m].header = b \/ Filled(m)
      BY <1>1, <2>1 DEF FilledInv, m
    <3>2. Filled(m) => ~Waiting(m)
      BY <2>1 DEF Filled
    <3>3. CASE holder[m].header = b
      <4>1. b # order[1] /\ b \in Reachable
        BY <1>2, <1>7, <2>1, <3>3 DEF HeaderInv
      <4>2. Cuts(order[1], b)
        BY <1>2, <4>1
      <4>3. 1 \in Positions
        BY <1>1, <1>2, PopFacts
      <4>4. ASSUME NEW i \in Positions, order[i] = b PROVE FALSE
        <5>1. i < 1
          BY <1>1, <4>2, <4>3, <4>4 DEF OrderInv
        <5> QED BY <5>1 DEF Positions
      <4> QED BY <3>3, <4>4 DEF Waiting
    <3> QED BY <3>1, <3>2, <3>3
  <2>11. FilledInv'
    <3>1. Filled(current)
      BY <1>1 DEF Filled
    <3>2. \A x \in Blocks : \A l \in Loops : loop'[x] = l => holder'[l].header = x \/ Filled(l)'
      <4> SUFFICES ASSUME NEW x \in Blocks, NEW l \in Loops, loop'[x] = l
                   PROVE  holder'[l].header = x \/ Filled(l)'
        OBVIOUS
      <4>1. loop[x] = l
        BY <1>1, <1>7
      <4>2. holder[l].header = x \/ Filled(l)
        BY <1>1, <4>1 DEF FilledInv
      <4>3. holder'[l].header = holder[l].header
        BY <2>7 DEF SameLoop
      <4> QED BY <2>9, <4>2, <4>3
    <3>3. ASSUME NEW l \in Loops, NEW k \in Loops, holder'[l].outLoop = k
          PROVE  ~Waiting(l)' /\ Filled(k)'
      <4>1. CASE l = m
        BY <2>7, <2>9, <2>10, <3>1, <3>3, <4>1
      <4>2. CASE l # m
        BY <1>1, <2>7, <2>9, <3>3, <4>2 DEF FilledInv
      <4> QED BY <4>1, <4>2
    <3> QED BY <2>8, <3>2, <3>3 DEF FilledInv
  <2>12. RankInv'
    <3>1. PICK f \in [Nat -> Nat], n \in Nat :
            \A l \in Loops :
              /\ f[l] < n
              /\ holder[l].outLoop # NoLoop => f[l] < f[holder[l].outLoop]
              /\ l # current => f[l] < f[current]
      BY <1>1 DEF RankInv
    <3>2. ASSUME NEW l \in Loops
          PROVE  /\ f[l] < n
                 /\ holder'[l].outLoop # NoLoop => f[l] < f[holder'[l].outLoop]
                 /\ l # current' => f[l] < f[current']
      <4>1. CASE l = m
        BY <1>1, <2>1, <2>7, <3>1, <4>1
      <4>2. CASE l # m
        BY <1>1, <2>7, <3>1, <4>2
      <4> QED BY <4>1, <4>2
    <3> QED BY <1>1, <2>8, <3>2 DEF RankInv
  <2> QED BY <2>8, <2>11, <2>12
<1> QED BY <1>4, <1>5, <1>6, <1>7

-----------------------------------------------------------------------------
\* A new root in front of the old one reaches all that was reached before.
LEMMA NewRootReaches ==
  ASSUME TypeInv, EdgesInv, pc = "populate", MoveRoot(PreHeader)
  PROVE  Reachable \subseteq Reachable'
<1> DEFINE S == Reach(SuccSets', PreHeader)
<1>1. /\ root' = PreHeader
      /\ succs' = [succs EXCEPT ![PreHeader][root] = @ + 1]
  BY DEF MoveRoot, LinkEdge
<1>2. PreHeader \in Blocks /\ root \in Blocks /\ \A a, b \in Blocks : succs[a][b] \in Nat
  BY EndsAssumption DEF TypeInv, EdgesInv
<1>3. \A a, b \in Blocks :
        succs'[a][b] = IF a = PreHeader /\ b = root THEN succs[a][b] + 1 ELSE succs[a][b]
  BY <1>1, <1>2 DEF EdgesInv
<1>4. \A x, y \in Blocks : y \in SuccSets'[x] <=> succs'[x][y] > 0
  BY DEF SuccSets, SuccsOf
<1>5. root \in SuccSets'[PreHeader]
  <2>1. succs'[PreHeader][root] = succs[PreHeader][root] + 1
    BY <1>2, <1>3
  <2>2. succs[PreHeader][root] \in Nat
    BY <1>2
  <2>3. succs'[PreHeader][root] > 0
    BY <2>1, <2>2
  <2> QED BY <1>2, <1>4, <2>3
<1>6. PreHeader \in S /\ root \in S /\ S \in SUBSET Blocks
  BY <1>2, <1>5, ReachSelf, ReachStep, ReachBlocks
<1>7. Closed(SuccSets, S)
  <2> SUFFICES ASSUME NEW x \in S, NEW y \in SuccSets[x] PROVE y \in S
    BY DEF Closed
  <2>1. x \in Blocks
    BY <1>6
  <2>2. y \in Blocks /\ succs[x][y] > 0
    BY <2>1, SuccFacts
  <2>3. succs'[x][y] > 0
    BY <1>2, <1>3, <2>1, <2>2
  <2>4. y \in SuccSets'[x]
    BY <1>4, <2>1, <2>2, <2>3
  <2> QED BY <2>2, <2>4, ReachStep
<1>8. Reach(SuccSets, root) \subseteq S
  BY <1>6, <1>7, ReachLeast
<1> QED BY <1>1, <1>8 DEF Reachable

\* The root loop is the last, and its header is that of no other loop.
LEMMA CreateRootLoopStep ==
  ASSUME LoopInv, CreateRootLoop
  PROVE  LoopInv'
<1> USE DEF LoopInv
<1> DEFINE n == Len(holder)
           r == [NewLoop(root') EXCEPT !.isRoot = TRUE]
<1>1. /\ pc = "populate" /\ pc' = "tree" /\ order = << >>
      /\ \/ loop[root] # NoLoop /\ MoveRoot(PreHeader)
         \/ loop[root] = NoLoop /\ UNCHANGED <<succs, root>>
      /\ holder' = Append(holder, r)
      /\ loop' = [loop EXCEPT ![root'] = Len(holder')]
      /\ current' = Len(holder')
      /\ UNCHANGED <<doms, color, stack, order, pending>>
  BY DEF CreateRootLoop, vars
<1>2. /\ Reachable \subseteq Reachable' /\ root' \in Blocks
      /\ \A b \in Reachable : b = root' => loop[b] = NoLoop
  <2>1. CASE loop[root] = NoLoop /\ UNCHANGED <<succs, root>>
    BY <2>1, SameGraph DEF TypeInv
  <2>2. CASE loop[root] # NoLoop /\ MoveRoot(PreHeader)
    <3>1. root' = PreHeader /\ PreHeader \in Blocks
      BY <2>2, EndsAssumption DEF MoveRoot
    <3>2. PreHeader \notin Reachable
      BY <1>1, PreHeaderUnreached
    <3> QED BY <1>1, <2>2, <3>1, <3>2, NewRootReaches
  <2> QED BY <1>1, <2>1, <2>2
<1>3. root' \in Reachable'
  BY <1>2, ReachSelf DEF Reachable
<1>4. /\ n \in Nat /\ Loops = 1 .. n /\ holder \in Seq(LoopType)
      /\ \A l \in Loops : /\ holder[l].header \in Reachable /\ holder[l].header \in Blocks
                          /\ holder[l].outLoop \in 0 .. n
                          /\ holder[l].header # root'
  BY <1>2, LoopFacts DEF TypeInv, Loops, HeaderInv
<1>5. /\ r \in LoopType /\ r.header = root' /\ r.outLoop = NoLoop /\ r.isRoot
  BY <1>2 DEF NewLoop, LoopType, NoLoop
<1> HIDE DEF r
<1>6. /\ holder' \in Seq(LoopType) /\ Len(holder') = n + 1
      /\ \A l \in 1 .. n : holder'[l] = holder[l]
      /\ holder'[n + 1] = r
  BY <1>1, <1>4, <1>5, AppendProperties
<1>7. Loops' = 1 .. n + 1 /\ \A l \in Loops' : l = n + 1 \/ (l \in Loops /\ l # n + 1)
  BY <1>4, <1>6 DEF Loops
<1>8. \A l \in Loops : l \in Loops' /\ l # n + 1
  BY <1>4, <1>7
<1>9. \A b \in Blocks : loop'[b] = IF b = root' THEN n + 1 ELSE loop[b]
  BY <1>1, <1>6 DEF TypeInv
<1>10. n + 1 \in Loops' /\ n + 1 # NoLoop /\ n + 1 \in Nat /\ current' = n + 1
  BY <1>1, <1>4, <1>6, <1>7 DEF NoLoop
<1>11. TypeInv'
  <2>1. \A i \in 0 .. n : i \in 0 .. n + 1
    BY <1>4
  <2>2. n + 1 \in 0 .. n + 1 /\ 0 \in 0 .. n + 1
    BY <1>4
  <2>3. loop' \in [Blocks -> 0 .. n + 1]
    BY <1>1, <1>6, <2>1, <2>2 DEF TypeInv
  <2>4. \A l \in Loops' : holder'[l].outLoop \in 0 .. n + 1
    BY <1>4, <1>5, <1>6, <1>7, <2>1, <2>2 DEF NoLoop
  <2> QED BY <1>1, <1>2, <1>6, <1>10, <2>2, <2>3, <2>4 DEF TypeInv
<1>12. HeaderInv'
  <2>1. \A l \in Loops : holder'[l].header = holder[l].header
    BY <1>4, <1>6
  <2>2. holder'[n + 1].header = root'
    BY <1>5, <1>6
  <2>3. ASSUME NEW l \in Loops'
        PROVE  holder'[l].header \in Reachable' /\ loop'[holder'[l].header] # NoLoop
    <3>1. CASE l = n + 1
      BY <1>2, <1>3, <1>9, <1>10, <2>2, <3>1
    <3>2. CASE l \in Loops
      BY <1>2, <1>4, <1>9, <2>1, <3>2 DEF HeaderInv
    <3> QED BY <1>7, <3>1, <3>2
  <2>4. ASSUME NEW l \in Loops', NEW k \in Loops', holder'[l].header = holder'[k].header
        PROVE  l = k
    BY <1>4, <1>7, <2>1, <2>2, <2>4 DEF HeaderInv
  <2> QED BY <2>3, <2>4 DEF HeaderInv
<1>13. RobbedInv'
  <2>1. ASSUME NEW l \in Loops
        PROVE  \/ loop'[holder'[l].header] = l
               \/ \E k \in Loops' \ {l} : /\ holder'[k].irreducible
                                          /\ holder'[l].header \in holder'[k].backEdges
    <3>1. holder'[l] = holder[l] /\ loop'[holder[l].header] = loop[holder[l].header]
      BY <1>4, <1>6, <1>9
    <3>2. CASE loop[holder[l].header] = l
      BY <3>1, <3>2
    <3>3. CASE \E k \in Loops \ {l} : /\ holder[k].irreducible
                                      /\ holder[l].header \in holder[k].backEdges
      BY <1>4, <1>6, <1>8, <3>1, <3>3
    <3> QED BY <1>1, <3>2, <3>3 DEF RobbedInv
  <2>2. loop'[holder'[n + 1].header] = n + 1
    BY <1>2, <1>5, <1>6, <1>9
  <2> QED BY <1>7, <2>1, <2>2 DEF RobbedInv
<1>14. RankInv'
  <2>1. PICK f \in [Nat -> Nat], k \in Nat :
          \A l \in Loops :
            /\ f[l] < k
            /\ holder[l].outLoop # NoLoop => f[l] < f[holder[l].outLoop]
    BY <1>1 DEF RankInv
  <2> DEFINE g == [f EXCEPT ![n + 1] = k]
  <2>2. g \in [Nat -> Nat] /\ \A i \in Nat : g[i] = IF i = n + 1 THEN k ELSE f[i]
    BY <1>10
  <2> HIDE DEF g
  <2>3. ASSUME NEW l \in Loops
        PROVE  /\ g[l] < k /\ g[l] < g[n + 1]
               /\ holder[l].outLoop # NoLoop => g[l] < g[holder[l].outLoop]
    <3> DEFINE o == holder[l].outLoop
    <3>1. l \in 1 .. n /\ o \in 0 .. n
      BY <1>4
    <3>2. o # NoLoop => f[l] < f[o]
      BY <2>1
    <3>3. f[l] < k
      BY <2>1
    <3> HIDE DEF n, o
    <3>4. l \in Nat /\ l # n + 1 /\ o \in Nat /\ o # n + 1
      BY <1>4, <3>1
    <3>5. g[l] = f[l] /\ g[o] = f[o] /\ g[n + 1] = k
      BY <1>10, <2>2, <3>4
    <3> QED BY <3>2, <3>3, <3>5 DEF o
  <2>4. ASSUME NEW l \in Loops'
        PROVE  /\ g[l] < k + 1
               /\ holder'[l].outLoop # NoLoop => g[l] < g[holder'[l].outLoop]
               /\ l # current' => g[l] < g[current']
    <3>1. CASE l = n + 1
      <4>1. holder'[l].outLoop = NoLoop /\ l = current'
        BY <1>5, <1>6, <1>10, <3>1
      <4>2. g[l] = k
        BY <1>10, <2>2, <3>1
      <4>3. k < k + 1
        OBVIOUS
      <4> QED BY <4>1, <4>2, <4>3
    <3>2. CASE l \in Loops
      <4>1. l \in Nat /\ holder'[l] = holder[l]
        BY <1>4, <1>6, <3>2
      <4>2. g[l] \in Nat
        BY <2>2, <4>1
      <4>3. \A x \in Nat : x < k => x < k + 1
        OBVIOUS
      <4>4. g[l] < k + 1
        BY <2>3, <3>2, <4>2, <4>3
      <4> QED BY <1>10, <2>3, <3>2, <4>1, <4>4
    <3> QED BY <1>7, <3>1, <3>2
  <2>5. k + 1 \in Nat
    OBVIOUS
  <2> QED BY <2>2, <2>4, <2>5 DEF RankInv
<1>15. RootInv'
  <2>1. \A l \in Loops : ~holder'[l].isRoot
    BY <1>1, <1>4, <1>6 DEF RootInv
  <2>2. holder'[n + 1].isRoot
    BY <1>5, <1>6
  <2> QED BY <1>1, <1>7, <1>10, <2>1, <2>2 DEF RootInv
<1>16. /\ EdgesInv' /\ IdleInv' /\ DomsInv' /\ StackInv' /\ OrderInv' /\ CollectInv'
       /\ ReducibleInv' /\ FilledInv' /\ SearchInv'
  BY <1>1 DEF EdgesInv, IdleInv, DomsInv, StackInv, OrderInv, CollectInv, ReducibleInv,
              FilledInv, SearchInv
<1>17. OutcomeInv'
  BY <1>1 DEF OutcomeInv, OutLoopsEnd, Done, AbortsOnlyOnParallel
<1> QED BY <1>11, <1>12, <1>13, <1>14, <1>15, <1>16, <1>17

\* A set has an element of greatest rank, when ranks are bounded.
LEMMA GreatestRank ==
  ASSUME NEW S \in SUBSET Nat, S # {}, NEW f \in [Nat -> Nat], NEW n \in Nat,
         \A l \in S : f[l] < n
  PROVE  \E l \in S : \A m \in S : f[m] <= f[l]
<1> DEFINE T == {n - f[l] : l \in S}
<1>1. T \in SUBSET Nat /\ T # {}
  <2>1. \A l \in S : f[l] \in Nat /\ n - f[l] \in Nat
    OBVIOUS
  <2> QED BY <2>1
<1>2. PICK t \in T : \A k \in T : t <= k
  BY <1>1, LeastNatural
<1>3. PICK l \in S : t = n - f[l]
  OBVIOUS
<1>4. ASSUME NEW m \in S PROVE f[m] <= f[l]
  <2>1. n - f[l] <= n - f[m]
    BY <1>2, <1>3
  <2>2. f[l] \in Nat /\ f[m] \in Nat
    OBVIOUS
  <2> QED BY <2>1, <2>2
<1> QED BY <1>4

\* The loops that still have a block of theirs get the root loop as outer loop:
\* those that kept their header do, and the rest lost theirs to an irreducible one.
LEMMA GatherLoopsStep ==
  ASSUME LoopInv, GatherLoops
  PROVE  LoopInv'
<1> USE DEF LoopInv
<1> DEFINE homeless == {b \in Reachable : loop[b] = NoLoop}
           outermost == {l \in {loop[b] : b \in Reachable \ homeless} : holder[l].outLoop = NoLoop}
           r(l) == [holder[l] EXCEPT !.outLoop = IF l \in outermost THEN current ELSE holder[l].outLoop,
                                     !.inLoops = IF l = current THEN holder[l].inLoops \cup outermost
                                                                ELSE holder[l].inLoops,
                                     !.blocks = IF l = current THEN holder[l].blocks \cup homeless
                                                               ELSE holder[l].blocks]
<1>1. /\ pc = "tree" /\ pc' = "done" /\ UNCHANGED <<succs, root>>
      /\ loop' = [b \in Blocks |-> IF b \in homeless THEN current ELSE loop[b]]
      /\ holder' = [l \in DOMAIN holder |-> r(l)]
      /\ UNCHANGED <<doms, color, stack, order, current, pending>>
  BY DEF GatherLoops, Homeless, Outermost, Traverse
<1>2. /\ Len(holder) \in Nat /\ DOMAIN holder = Loops /\ current \in Loops
      /\ \A l \in Loops : /\ holder[l] \in LoopType /\ holder[l].header \in Blocks
                          /\ holder[l].outLoop \in 0 .. Len(holder)
      /\ \A b \in Blocks : loop[b] # NoLoop => loop[b] \in Loops
  BY <1>1, LoopFacts DEF RootInv
<1>3. homeless \subseteq Blocks /\ outermost \subseteq Loops /\ Loops \subseteq Nat
  <2>1. homeless \subseteq Blocks /\ Reachable \subseteq Blocks
    BY ReachableFacts DEF TypeInv
  <2> QED BY <1>2, <2>1 DEF Loops
<1> HIDE DEF homeless, outermost
<1>4. ASSUME NEW l \in Loops
      PROVE  /\ r(l) \in LoopType /\ SameLoop(r(l), holder[l])
             /\ r(l).outLoop = IF l \in outermost THEN current ELSE holder[l].outLoop
  <2>1. holder[l].outLoop \in Nat /\ current \in Nat
    BY <1>2, <1>3
  <2>2. holder[l].inLoops \cup outermost \in SUBSET Nat
        /\ holder[l].blocks \cup homeless \in SUBSET Blocks
    BY <1>2, <1>3 DEF LoopType
  <2>3. holder[l] \in LoopType
    BY <1>2
  <2> DEFINE x == IF l \in outermost THEN current ELSE holder[l].outLoop
             y == IF l = current THEN holder[l].inLoops \cup outermost ELSE holder[l].inLoops
             z == IF l = current THEN holder[l].blocks \cup homeless ELSE holder[l].blocks
  <2>4. x \in Nat
    BY <2>1
  <2>5. y \in SUBSET Nat /\ z \in SUBSET Blocks
    BY <1>2, <2>2 DEF LoopType
  <2>6. r(l) = [holder[l] EXCEPT !.outLoop = x, !.inLoops = y, !.blocks = z]
    OBVIOUS
  <2>7. x = IF l \in outermost THEN current ELSE holder[l].outLoop
    OBVIOUS
  <2> HIDE DEF x, y, z, r
  <2>8. r(l) \in LoopType /\ SameLoop(r(l), holder[l]) /\ r(l).outLoop = x
    BY <2>3, <2>4, <2>5, <2>6 DEF LoopType, SameLoop
  <2> QED BY <2>7, <2>8
<1> HIDE DEF r
<1>5. /\ holder' \in Seq(LoopType) /\ Len(holder') = Len(holder) /\ Loops' = Loops
      /\ DOMAIN holder' = Loops
      /\ \A l \in Loops : holder'[l] = r(l)
  <2>1. holder' \in [Loops -> LoopType]
    BY <1>1, <1>2, <1>4
  <2>2. holder' \in Seq(LoopType)
    BY <1>2, <2>1, SeqDef DEF Loops
  <2>3. Len(holder') = Len(holder)
    BY <1>2, <2>1, <2>2, LenProperties DEF Loops
  <2> QED BY <1>1, <1>2, <2>1, <2>2, <2>3 DEF Loops
<1>6. \A l \in Loops :
        /\ SameLoop(holder'[l], holder[l])
        /\ holder'[l].outLoop = IF l \in outermost THEN current ELSE holder[l].outLoop
  BY <1>4, <1>5
<1>7. Reachable' = Reachable
  BY <1>1, SameGraph
<1>8. \A b \in Blocks : /\ loop'[b] = loop[b] \/ loop'[b] = current
                        /\ loop[b] # NoLoop => loop'[b] = loop[b]
  BY <1>1 DEF homeless
<1>9. current # NoLoop
  BY <1>2 DEF Loops, NoLoop
<1>10. TypeInv'
  <2>1. current \in 0 .. Len(holder)
    BY DEF TypeInv
  <2>2. loop' \in [Blocks -> 0 .. Len(holder')]
    BY <1>1, <1>5, <2>1 DEF TypeInv
  <2>3. \A l \in Loops' : holder'[l].outLoop \in 0 .. Len(holder')
    BY <1>2, <1>5, <1>6, <2>1
  <2> QED BY <1>1, <1>5, <2>1, <2>2, <2>3 DEF TypeInv
<1>11. HeaderInv'
  BY <1>2, <1>5, <1>6, <1>7, <1>8 DEF HeaderInv, SameLoop
<1>12. ASSUME NEW l \in Loops, holder'[l].outLoop = NoLoop
       PROVE  \E m \in Loops \ {l} : /\ holder'[m].irreducible
                                     /\ holder'[l].header \in holder'[m].backEdges
  <2>1. l \notin outermost /\ holder[l].outLoop = NoLoop
    BY <1>6, <1>9, <1>12
  <2>2. loop[holder[l].header] # l
    <3> SUFFICES ASSUME loop[holder[l].header] = l PROVE FALSE
      OBVIOUS
    <3>1. holder[l].header \in Reachable \ homeless
      BY DEF HeaderInv, homeless
    <3> QED BY <2>1, <3>1 DEF outermost
  <2>3. \E m \in Loops \ {l} : holder[m].irreducible /\ holder[l].header \in holder[m].backEdges
    BY <1>1, <2>2 DEF RobbedInv
  <2> QED BY <1>6, <2>3 DEF SameLoop
<1>13. ASSUME NEW S \in SUBSET {l \in Loops : ~holder'[l].isRoot}, S # {}
       PROVE  \E l \in S : holder'[l].outLoop \notin S
  <2>1. \A l \in S : l \in Loops /\ l # current /\ l \in Nat
    BY <1>1, <1>3, <1>6 DEF RootInv, SameLoop
  <2>2. PICK f \in [Nat -> Nat], n \in Nat :
          \A l \in Loops : /\ f[l] < n
                           /\ holder[l].outLoop # NoLoop => f[l] < f[holder[l].outLoop]
    BY <1>1 DEF RankInv
  <2>3. S \in SUBSET Nat /\ \A l \in S : f[l] < n
    BY <2>1, <2>2
  <2>4. PICK l \in S : \A m \in S : f[m] <= f[l]
    BY <1>13, <2>3, GreatestRank
  <2>5. ASSUME holder'[l].outLoop \in S PROVE FALSE
    <3>1. holder'[l].outLoop # current /\ holder'[l].outLoop \in Loops
      BY <2>1, <2>5
    <3>2. holder[l].outLoop = holder'[l].outLoop /\ holder'[l].outLoop # NoLoop
      <4>1. l \in Loops
        BY <2>1
      <4>2. holder'[l].outLoop = IF l \in outermost THEN current ELSE holder[l].outLoop
        BY <1>6, <4>1
      <4>3. NoLoop \notin Loops
        BY <1>2 DEF Loops, NoLoop
      <4> QED BY <3>1, <4>2, <4>3
    <3>3. f[l] < f[holder'[l].outLoop] /\ f[holder'[l].outLoop] <= f[l]
      BY <2>1, <2>2, <2>4, <2>5, <3>2
    <3>4. f[l] \in Nat /\ f[holder'[l].outLoop] \in Nat
      BY <2>1, <2>5
    <3> QED BY <3>3, <3>4
  <2> QED BY <2>5
<1>14. OutcomeInv'
  <2>1. OutLoopsEnd'
    BY <1>5, <1>12, <1>13 DEF OutLoopsEnd
  <2> QED BY <1>1, <2>1 DEF OutcomeInv, AbortsOnlyOnParallel
<1>15. /\ EdgesInv' /\ IdleInv' /\ DomsInv' /\ StackInv' /\ OrderInv' /\ CollectInv'
       /\ ReducibleInv' /\ FilledInv' /\ SearchInv' /\ RobbedInv' /\ RankInv' /\ RootInv'
  BY <1>1 DEF EdgesInv, IdleInv, DomsInv, StackInv, OrderInv, CollectInv, ReducibleInv,
              FilledInv, SearchInv, RobbedInv, RankInv, RootInv
<1> QED BY <1>10, <1>11, <1>14, <1>15

LEMMA Stutter == ASSUME LoopInv, UNCHANGED allVars PROVE LoopInv'
<1> USE DEF LoopInv
<1>1. UNCHANGED <<succs, preds, root, doms, color, loop, holder, stack, order, current,
                  pending, pc>>
  BY DEF allVars, vars, loopVars
<1>2. /\ SuccSets' = SuccSets /\ Reachable' = Reachable
      /\ \A d, b : Cuts(d, b)' <=> Cuts(d, b)
  BY <1>1, SameGraph
<1>3. Loops' = Loops /\ Positions' = Positions
  BY <1>1 DEF Loops, Positions
<1>4. TypeInv' /\ EdgesInv' /\ IdleInv' /\ DomsInv'
  BY <1>1, <1>2, <1>3 DEF TypeInv, EdgesInv, IdleInv, DomsInv
<1>5. StackInv'
  <2>1. \A k : FrameOK(k)' <=> FrameOK(k)
    BY <1>1, <1>2 DEF FrameOK
  <2> QED BY <1>1, <1>2, <2>1 DEF StackInv
<1>6. OrderInv' /\ HeaderInv' /\ CollectInv' /\ ReducibleInv'
  BY <1>1, <1>2, <1>3 DEF OrderInv, HeaderInv, CollectInv, ReducibleInv
<1>7. FilledInv'
  <2>1. \A l : (Waiting(l)' <=> Waiting(l)) /\ (Filled(l)' <=> Filled(l))
    BY <1>1, <1>3 DEF Waiting, Filled
  <2> QED BY <1>1, <1>3, <2>1 DEF FilledInv
<1>8. SearchInv' /\ RobbedInv' /\ RankInv' /\ RootInv'
  BY <1>1, <1>2, <1>3 DEF SearchInv, RobbedInv, RankInv, RootInv
<1>9. OutcomeInv'
  BY <1>1 DEF OutcomeInv, OutLoopsEnd, Done, AbortsOnlyOnParallel
<1> QED BY <1>4, <1>5, <1>6, <1>7, <1>8, <1>9

-----------------------------------------------------------------------------
\* What a loop lists belongs to some loop, what it nests has an outer loop, and a
\* loop that PopulateLoops has not filled lists no block but its header.
Unfilled(l) == pc = "collect" \/ (pc \in {"populate", "search"} /\ ~Filled(l))
ListsInv ==
  /\ \A l \in Loops : \A b \in holder[l].blocks : loop[b] # NoLoop
  /\ \A l \in Loops : \A m \in holder[l].inLoops : m \in Loops /\ holder[m].outLoop # NoLoop
  /\ \A l \in Loops : Unfilled(l) => holder[l].blocks \subseteq {holder[l].header}

LEMMA ListsSame ==
  ASSUME ListsInv, UNCHANGED <<loop, holder>>,
         \A l \in Loops : Unfilled(l)' => Unfilled(l)
  PROVE  ListsInv'
<1>1. Loops' = Loops
  BY DEF Loops
<1> QED BY <1>1 DEF ListsInv

\* Coming to the next block leaves no loop unfilled that was filled before.
LEMMA PopKeepsFilled ==
  ASSUME LoopInv, pc \in {"populate", "search"}, order # << >>, order' = Tail(order),
         pc' = "populate", UNCHANGED <<succs, root>>, Len(holder') = Len(holder),
         \A l \in Loops : SameLoop(holder'[l], holder[l])
  PROVE  \A l \in Loops : Unfilled(l)' => /\ Unfilled(l)
                                          /\ holder[l].header # order[1]
<1>1. \A l \in Loops : /\ Filled(l)' <=> ~Waiting(l)'
                       /\ Filled(l) => ~Waiting(l)'
                       /\ holder[l].header = order[1] => ~Waiting(l)'
  BY PopEndsWait
<1> QED BY <1>1 DEF Unfilled

LEMMA CollectLists ==
  ASSUME LoopInv, ListsInv, Run \/ Leave \/ \E s \in Blocks : Known(s) \/ Descend(s)
  PROVE  ListsInv'
<1>1. CASE Run
  <2>1. Len(holder) = 0 /\ UNCHANGED <<loop, holder>>
    BY <1>1, EmptySeq DEF Run, LoopInv, IdleInv
  <2>2. Loops = {}
    BY <2>1 DEF Loops
  <2> QED BY <2>1, <2>2, ListsSame
<1>2. CASE Leave \/ \E s \in Blocks : Known(s) \/ Descend(s)
  <2>1. pc = "collect" /\ UNCHANGED <<loop, holder>>
    BY <1>2 DEF Leave, Known, Descend
  <2> QED BY <2>1, ListsSame DEF Unfilled
<1> QED BY <1>1, <1>2

LEMMA BackEdgeLists ==
  ASSUME LoopInv, ListsInv, NEW s \in Blocks, BackEdge(s)
  PROVE  ListsInv'
<1> USE DEF LoopInv
<1> DEFINE l == LoopOf(s)
           n == Len(holder)
<1>1. /\ pc = "collect"
      /\ \/ pc' = "abort" /\ UNCHANGED <<loop, holder, stack>>
         \/ /\ holder' = WithBackEdge(s) /\ loop' = [loop EXCEPT ![s] = l]
            /\ pc' = pc
  BY DEF BackEdge, vars, LoopOf, WithLoop, WithBackEdge
<1>2. CASE pc' = "abort" /\ UNCHANGED <<loop, holder, stack>>
  BY <1>1, <1>2, ListsSame DEF Unfilled
<1>3. CASE holder' = WithBackEdge(s) /\ loop' = [loop EXCEPT ![s] = l] /\ pc' = pc
  <2>1. Top.bb \in Blocks
    BY <1>1, TopFacts DEF StackInv
  <2>2. /\ l \in 1 .. Len(holder') /\ l # NoLoop
        /\ Len(holder') = IF loop[s] = NoLoop THEN n + 1 ELSE n
        /\ loop[s] = NoLoop => l = n + 1
        /\ loop[s] # NoLoop => l \in Loops /\ loop[s] = l /\ holder[l].header = s
        /\ \A k \in 1 .. Len(holder') \ {l} : k \in Loops /\ holder'[k] = holder[k]
        /\ holder'[l].header = s
        /\ holder'[l].blocks = IF loop[s] = NoLoop THEN {s} ELSE holder[l].blocks
        /\ holder'[l].inLoops = IF loop[s] = NoLoop THEN {} ELSE holder[l].inLoops
    BY <1>1, <1>3, <2>1, WithBackEdgeFacts
  <2>3. \A k \in Loops : /\ holder[k].outLoop = NoLoop
                         /\ holder[k].inLoops = {}
                         /\ holder[k].blocks \subseteq {holder[k].header}
    BY <1>1 DEF ListsInv, CollectInv, Unfilled
  <2>4. \A k \in Loops' : /\ holder'[k].inLoops = {}
                          /\ holder'[k].blocks \subseteq {holder'[k].header}
    <3> SUFFICES ASSUME NEW k \in 1 .. Len(holder')
                 PROVE  /\ holder'[k].inLoops = {}
                        /\ holder'[k].blocks \subseteq {holder'[k].header}
      BY DEF Loops
    <3> HIDE DEF l
    <3>1. CASE k = l
      BY <2>2, <2>3, <3>1
    <3>2. CASE k # l
      BY <2>2, <2>3, <3>2
    <3> QED BY <3>1, <3>2
  <2>5. \A k \in Loops' : loop'[holder'[k].header] # NoLoop
    <3>1. HeaderInv'
      BY BackEdgeStep
    <3> QED BY <3>1 DEF HeaderInv
  <2>6. \A k \in Loops' : \A b \in holder'[k].blocks : loop'[b] # NoLoop
    <3> SUFFICES ASSUME NEW k \in Loops', NEW b \in holder'[k].blocks PROVE loop'[b] # NoLoop
      OBVIOUS
    <3>1. b = holder'[k].header
      BY <2>4
    <3> QED BY <2>5, <3>1
  <2> QED BY <2>4, <2>6 DEF ListsInv
<1> QED BY <1>1, <1>2, <1>3

LEMMA PassLists ==
  ASSUME LoopInv, ListsInv, NotHeader \/ FillReducible \/ LoopFilled
  PROVE  ListsInv'
<1> USE DEF LoopInv
<1>1. UNCHANGED <<succs, root, loop, holder>>
  BY DEF NotHeader, FillReducible, LoopFilled, vars
<1>2. \A l \in Loops : SameLoop(holder'[l], holder[l])
  BY <1>1 DEF SameLoop
<1>3. CASE NotHeader \/ LoopFilled
  <2>1. /\ pc \in {"populate", "search"} /\ pc' = "populate"
        /\ order # << >> /\ order' = Tail(order)
    BY <1>3 DEF NotHeader, LoopFilled, SearchInv
  <2>2. \A l \in Loops : Unfilled(l)' => Unfilled(l)
    BY <1>1, <1>2, <2>1, PopKeepsFilled
  <2> QED BY <1>1, <2>2, ListsSame
<1>4. CASE FillReducible
  <2>1. pc = "populate" /\ UNCHANGED order
    BY <1>4 DEF FillReducible
  <2>2. \A l : Waiting(l)' <=> Waiting(l)
    BY <1>1, <2>1 DEF Waiting, Positions
  <2>3. ASSUME NEW l \in Loops, Unfilled(l)' PROVE Unfilled(l)
    <3>1. pc' = "search"
      BY <1>4 DEF FillReducible
    <3>2. ~Filled(l)'
      BY <2>3, <3>1 DEF Unfilled
    <3>3. Waiting(l)
      BY <2>2, <3>2, Zenon DEF Filled
    <3> QED BY <2>1, <3>3 DEF Unfilled, Filled
  <2> QED BY <1>1, <2>3, ListsSame
<1> QED BY <1>3, <1>4

LEMMA TakeSourcesLists ==
  ASSUME LoopInv, ListsInv, TakeSources
  PROVE  ListsInv'
<1> USE DEF LoopInv
<1> DEFINE m == loop[Head(order)]
           r == [holder[m] EXCEPT !.blocks = holder[m].blocks \cup Sources(m)]
<1>1. /\ pc = "populate" /\ pc' = "populate" /\ order # << >> /\ order' = Tail(order)
      /\ m # NoLoop /\ holder[m].header = Head(order)
      /\ holder' = [holder EXCEPT ![m] = r]
      /\ loop' = [b \in Blocks |-> IF b \in Sources(m) THEN m ELSE loop[b]]
      /\ UNCHANGED <<succs, root>>
  BY DEF TakeSources, IsLoopHeader, vars
<1>2. Head(order) = order[1] /\ order[1] \in Blocks
  BY <1>1, PopFacts
<1>3. m \in Loops /\ \A l \in Loops : holder[l] \in LoopType
  BY <1>1, <1>2, LoopFacts
<1>4. Sources(m) \subseteq Blocks
  BY <1>3, LoopFacts DEF Sources
<1>5. /\ r \in LoopType /\ SameLoop(r, holder[m]) /\ r.outLoop = holder[m].outLoop
      /\ r.inLoops = holder[m].inLoops /\ r.blocks = holder[m].blocks \cup Sources(m)
  <2>1. holder[m].blocks \cup Sources(m) \in SUBSET Blocks /\ holder[m] \in LoopType
    BY <1>3, <1>4 DEF LoopType
  <2> HIDE DEF m
  <2> QED BY <2>1 DEF LoopType, SameLoop
<1> HIDE DEF r
<1>6. /\ Len(holder') = Len(holder) /\ Loops' = Loops
      /\ \A l \in Loops : holder'[l] = IF l = m THEN r ELSE holder[l]
  BY <1>1, <1>3, <1>5, ExceptSeq DEF TypeInv, Loops
<1>7. \A l \in Loops :
        /\ SameLoop(holder'[l], holder[l])
        /\ holder'[l].outLoop = holder[l].outLoop /\ holder'[l].inLoops = holder[l].inLoops
        /\ holder'[l].blocks = IF l = m THEN holder[l].blocks \cup Sources(m)
                                        ELSE holder[l].blocks
  BY <1>5, <1>6 DEF SameLoop
<1>8. \A b \in Blocks : /\ loop[b] # NoLoop => loop'[b] # NoLoop
                        /\ b \in Sources(m) => loop'[b] # NoLoop
  BY <1>1
<1>9. \A l \in Loops : Unfilled(l)' => Unfilled(l) /\ l # m
  BY <1>1, <1>2, <1>6, <1>7, PopKeepsFilled
<1>10. \A l \in Loops : holder[l].blocks \subseteq Blocks
  BY <1>3 DEF LoopType
<1> HIDE DEF m
<1>11. ASSUME NEW l \in Loops, NEW b \in holder'[l].blocks PROVE loop'[b] # NoLoop
  <2>1. b \in holder[l].blocks \/ b \in Sources(m)
    BY <1>7, <1>11
  <2> QED BY <1>4, <1>8, <1>10, <2>1 DEF ListsInv
<1>12. \A l \in Loops : \A k \in holder'[l].inLoops : k \in Loops /\ holder'[k].outLoop # NoLoop
  BY <1>7 DEF ListsInv
<1>13. ASSUME NEW l \in Loops, Unfilled(l)'
       PROVE  holder'[l].blocks \subseteq {holder'[l].header}
  BY <1>7, <1>9, <1>13 DEF ListsInv, SameLoop
<1> QED BY <1>6, <1>11, <1>12, <1>13 DEF ListsInv

LEMMA VisitLists ==
  ASSUME LoopInv, ListsInv, NEW b \in Blocks, Visit(b)
  PROVE  ListsInv'
<1> USE DEF LoopInv
<1> DEFINE m == loop[b]
<1>1. pc = "search" /\ UNCHANGED <<pc, order, current>>
  BY DEF Visit
<1>2. /\ current \in Loops /\ current # NoLoop /\ holder \in Seq(LoopType)
      /\ \A l \in Loops : holder[l] \in LoopType
      /\ loop \in [Blocks -> 0 .. Len(holder)]
  BY <1>1, LoopFacts DEF SearchInv, Loops, NoLoop, TypeInv
<1>3. \/ UNCHANGED <<loop, holder>>
      \/ /\ m = NoLoop
         /\ loop' = [loop EXCEPT ![b] = current]
         /\ holder' = [holder EXCEPT ![current].blocks = @ \cup {b}]
      \/ /\ m # NoLoop /\ UNCHANGED loop
         /\ holder[m].header # holder[current].header
         /\ holder' = [holder EXCEPT ![m].outLoop = current, ![current].inLoops = @ \cup {m}]
  BY DEF Visit, Nests
<1>4. Filled(current)
  BY <1>1 DEF Filled
<1>5. CASE UNCHANGED <<loop, holder>>
  <2>1. \A l : Unfilled(l)' <=> Unfilled(l)
    BY <1>1, <1>5 DEF Unfilled, Filled, Waiting, Positions
  <2> QED BY <1>5, <2>1, ListsSame
<1>6. CASE /\ m = NoLoop
           /\ loop' = [loop EXCEPT ![b] = current]
           /\ holder' = [holder EXCEPT ![current].blocks = @ \cup {b}]
  <2> DEFINE r == [holder[current] EXCEPT !.blocks = holder[current].blocks \cup {b}]
  <2>1. /\ r \in LoopType /\ r.header = holder[current].header
        /\ r.outLoop = holder[current].outLoop /\ r.inLoops = holder[current].inLoops
        /\ r.blocks = holder[current].blocks \cup {b}
    BY <1>2 DEF LoopType
  <2>2. holder' = [holder EXCEPT ![current] = r]
    BY <1>6
  <2> HIDE DEF r
  <2>3. /\ Len(holder') = Len(holder)
        /\ \A l \in Loops : holder'[l] = IF l = current THEN r ELSE holder[l]
    BY <1>2, <2>1, <2>2, ExceptSeq DEF Loops
  <2>4. /\ Loops' = Loops
        /\ \A l \in Loops :
             /\ holder'[l].header = holder[l].header
             /\ holder'[l].outLoop = holder[l].outLoop
             /\ holder'[l].inLoops = holder[l].inLoops
             /\ holder'[l].blocks = IF l = current THEN holder[l].blocks \cup {b}
                                                   ELSE holder[l].blocks
    BY <2>1, <2>3 DEF Loops
  <2>5. \A x \in Blocks : loop'[x] = IF x = b THEN current ELSE loop[x]
    BY <1>2, <1>6
  <2>6. \A l \in Loops : (Unfilled(l)' <=> Unfilled(l)) /\ (Unfilled(l) => l # current)
    BY <1>1, <1>4, <2>4 DEF Unfilled, Filled, Waiting, Positions
  <2>7. \A l \in Loops : holder[l].blocks \subseteq Blocks
    BY <1>2 DEF LoopType
  <2>8. ASSUME NEW l \in Loops, NEW x \in holder'[l].blocks PROVE loop'[x] # NoLoop
    <3>1. x \in holder[l].blocks \/ x = b
      BY <2>4
    <3>2. x \in Blocks
      BY <2>7, <3>1
    <3> QED BY <1>2, <2>5, <3>1, <3>2 DEF ListsInv
  <2> QED BY <2>4, <2>6, <2>8 DEF ListsInv
<1>7. CASE /\ m # NoLoop /\ UNCHANGED loop
           /\ holder[m].header # holder[current].header
           /\ holder' = [holder EXCEPT ![m].outLoop = current, ![current].inLoops = @ \cup {m}]
  <2>1. m \in Loops /\ m # current /\ current \in Nat /\ m \in Nat
    BY <1>2, <1>7, LoopFacts DEF Loops
  <2> DEFINE r == [holder[m] EXCEPT !.outLoop = current]
             q == [holder[current] EXCEPT !.inLoops = holder[current].inLoops \cup {m}]
             h == [holder EXCEPT ![m] = r]
  <2> HIDE DEF m
  <2>2. /\ r \in LoopType /\ r.header = holder[m].header /\ r.outLoop = current
        /\ r.inLoops = holder[m].inLoops /\ r.blocks = holder[m].blocks
    BY <1>2, <2>1 DEF LoopType
  <2>3. /\ q \in LoopType /\ q.header = holder[current].header
        /\ q.outLoop = holder[current].outLoop
        /\ q.inLoops = holder[current].inLoops \cup {m} /\ q.blocks = holder[current].blocks
    BY <1>2, <2>1 DEF LoopType
  <2>4. holder' = [h EXCEPT ![current] = q]
    <3>1. h[current] = holder[current]
      BY <1>2, <2>1
    <3> QED BY <1>7, <3>1
  <2> HIDE DEF r, q
  <2>5. /\ h \in Seq(LoopType) /\ Len(h) = Len(holder)
        /\ \A l \in Loops : h[l] = IF l = m THEN r ELSE holder[l]
    BY <1>2, <2>1, <2>2, ExceptSeq DEF Loops
  <2> HIDE DEF h
  <2>6. /\ Len(holder') = Len(holder)
        /\ \A l \in Loops : holder'[l] = IF l = current THEN q ELSE h[l]
    BY <1>2, <2>3, <2>4, <2>5, ExceptSeq DEF Loops
  <2>7. /\ Loops' = Loops
        /\ \A l \in Loops :
             /\ holder'[l].header = holder[l].header /\ holder'[l].blocks = holder[l].blocks
             /\ holder'[l].outLoop = IF l = m THEN current ELSE holder[l].outLoop
             /\ holder'[l].inLoops = IF l = current THEN holder[l].inLoops \cup {m}
                                                    ELSE holder[l].inLoops
    BY <2>1, <2>2, <2>3, <2>5, <2>6 DEF Loops
  <2>8. \A l \in Loops : Unfilled(l)' <=> Unfilled(l)
    BY <1>1, <2>7 DEF Unfilled, Filled, Waiting, Positions
  <2>9. ASSUME NEW l \in Loops, NEW k \in holder'[l].inLoops
        PROVE  k \in Loops /\ holder'[k].outLoop # NoLoop
    <3>1. k \in holder[l].inLoops \/ k = m
      BY <2>7
    <3>2. k \in Loops /\ (k # m => holder[k].outLoop # NoLoop)
      BY <2>1, <3>1 DEF ListsInv
    <3> QED BY <1>2, <2>7, <3>2
  <2> QED BY <1>7, <2>7, <2>8, <2>9 DEF ListsInv
<1> QED BY <1>3, <1>5, <1>6, <1>7

LEMMA CreateRootLoopLists ==
  ASSUME LoopInv, ListsInv, CreateRootLoop
  PROVE  ListsInv'
<1> USE DEF LoopInv
<1> DEFINE n == Len(holder)
           r == [NewLoop(root') EXCEPT !.isRoot = TRUE]
<1>1. /\ pc' = "tree" /\ holder' = Append(holder, r)
      /\ loop' = [loop EXCEPT ![root'] = Len(holder')]
  BY DEF CreateRootLoop
<1>2. n \in Nat /\ holder \in Seq(LoopType) /\ Loops = 1 .. n /\ \A l \in Loops : holder[l] \in LoopType
  BY LoopFacts DEF TypeInv, Loops
<1>3. root' \in Blocks
  <2>1. LoopInv'
    BY CreateRootLoopStep
  <2> QED BY <2>1 DEF TypeInv
<1>4. r \in LoopType /\ r.blocks = {root'} /\ r.inLoops = {}
  BY <1>3 DEF NewLoop, LoopType, NoLoop
<1> HIDE DEF r
<1>5. /\ Len(holder') = n + 1 /\ holder'[n + 1] = r
      /\ \A l \in 1 .. n : holder'[l] = holder[l]
  BY <1>1, <1>2, <1>4, AppendProperties
<1>6. Loops' = 1 .. n + 1 /\ \A l \in Loops' : l \in Loops \/ l = n + 1
  BY <1>2, <1>5 DEF Loops
<1>7. \A b \in Blocks : /\ loop[b] # NoLoop => loop'[b] # NoLoop
                        /\ b = root' => loop'[b] # NoLoop
  BY <1>1, <1>2, <1>5 DEF TypeInv, NoLoop
<1>8. \A l \in Loops : holder[l].blocks \subseteq Blocks
  BY <1>2 DEF LoopType
<1>9. \A l \in Loops' : \A b \in holder'[l].blocks : loop'[b] # NoLoop
  <2> SUFFICES ASSUME NEW l \in Loops', NEW b \in holder'[l].blocks PROVE loop'[b] # NoLoop
    OBVIOUS
  <2>1. CASE l \in Loops
    BY <1>2, <1>5, <1>7, <1>8, <2>1 DEF ListsInv
  <2>2. CASE l = n + 1
    BY <1>3, <1>4, <1>5, <1>7, <2>2
  <2> QED BY <1>6, <2>1, <2>2
<1>10. \A l \in Loops' : \A m \in holder'[l].inLoops : m \in Loops' /\ holder'[m].outLoop # NoLoop
  <2> SUFFICES ASSUME NEW l \in Loops', NEW m \in holder'[l].inLoops
               PROVE  m \in Loops' /\ holder'[m].outLoop # NoLoop
    OBVIOUS
  <2>1. l \in Loops
    BY <1>4, <1>5, <1>6
  <2>2. m \in Loops /\ holder[m].outLoop # NoLoop
    BY <1>2, <1>5, <2>1 DEF ListsInv
  <2> QED BY <1>2, <1>5, <1>6, <2>2
<1> QED BY <1>1, <1>9, <1>10 DEF ListsInv, Unfilled

LEMMA GatherLists ==
  ASSUME LoopInv, ListsInv, GatherLoops
  PROVE  ListsInv'
<1> USE DEF LoopInv
<1> DEFINE homeless == Homeless
           outermost == Outermost
           r(l) == [holder[l] EXCEPT !.outLoop = IF l \in outermost THEN current ELSE holder[l].outLoop,
                                     !.inLoops = IF l = current THEN holder[l].inLoops \cup outermost
                                                                ELSE holder[l].inLoops,
                                     !.blocks = IF l = current THEN holder[l].blocks \cup homeless
                                                               ELSE holder[l].blocks]
<1>1. /\ pc = "tree" /\ pc' = "done"
      /\ loop' = [b \in Blocks |-> IF b \in homeless THEN current ELSE loop[b]]
      /\ holder' = [l \in DOMAIN holder |-> r(l)]
  BY DEF GatherLoops
<1>2. /\ DOMAIN holder = Loops /\ current \in Loops /\ current # NoLoop
      /\ \A l \in Loops : holder[l] \in LoopType
      /\ \A b \in Blocks : loop[b] # NoLoop => loop[b] \in Loops
  <2>1. /\ DOMAIN holder = Loops /\ current \in Loops
        /\ \A l \in Loops : holder[l] \in LoopType
        /\ \A b \in Blocks : loop[b] # NoLoop => loop[b] \in Loops
    BY <1>1, LoopFacts DEF RootInv
  <2>2. NoLoop \notin Loops
    BY LoopFacts DEF Loops, NoLoop
  <2> QED BY <2>1, <2>2
<1>3. homeless \subseteq Blocks /\ outermost \subseteq Loops
  <2>1. Reachable \subseteq Blocks
    BY ReachableFacts DEF TypeInv
  <2> QED BY <1>2, <2>1 DEF Homeless, Outermost
<1>4. \A l \in Loops : holder[l].blocks \subseteq Blocks
  BY <1>2 DEF LoopType
<1>5. Loops' = Loops
  <2>1. LoopInv'
    BY GatherLoopsStep
  <2>2. DOMAIN holder' = Loops
    BY <1>1, <1>2
  <2>3. DOMAIN holder' = Loops'
    BY <2>1, LenProperties DEF TypeInv, Loops
  <2> QED BY <2>2, <2>3
<1> HIDE DEF homeless, outermost
<1>6. \A l \in Loops :
        /\ holder'[l].outLoop = IF l \in outermost THEN current ELSE holder[l].outLoop
        /\ holder'[l].inLoops = IF l = current THEN holder[l].inLoops \cup outermost
                                               ELSE holder[l].inLoops
        /\ holder'[l].blocks = IF l = current THEN holder[l].blocks \cup homeless
                                              ELSE holder[l].blocks
  <2> SUFFICES ASSUME NEW l \in Loops
               PROVE  /\ r(l).outLoop = IF l \in outermost THEN current ELSE holder[l].outLoop
                      /\ r(l).inLoops = IF l = current THEN holder[l].inLoops \cup outermost
                                                       ELSE holder[l].inLoops
                      /\ r(l).blocks = IF l = current THEN holder[l].blocks \cup homeless
                                                      ELSE holder[l].blocks
    BY <1>1, <1>2
  <2> DEFINE x == IF l \in outermost THEN current ELSE holder[l].outLoop
             y == IF l = current THEN holder[l].inLoops \cup outermost ELSE holder[l].inLoops
             z == IF l = current THEN holder[l].blocks \cup homeless ELSE holder[l].blocks
  <2>1. holder[l] \in LoopType
    BY <1>2
  <2>2. r(l) = [holder[l] EXCEPT !.outLoop = x, !.inLoops = y, !.blocks = z]
    OBVIOUS
  <2> HIDE DEF x, y, z, r
  <2>3. r(l).outLoop = x /\ r(l).inLoops = y /\ r(l).blocks = z
    BY <2>1, <2>2 DEF LoopType
  <2> QED BY <2>3 DEF x, y, z
<1> HIDE DEF r
<1>7. \A b \in Blocks : /\ loop[b] # NoLoop => loop'[b] # NoLoop
                        /\ b \in homeless => loop'[b] # NoLoop
  BY <1>1, <1>2
<1>8. ASSUME NEW l \in Loops, NEW b \in holder'[l].blocks PROVE loop'[b] # NoLoop
  <2>1. b \in holder[l].blocks \/ b \in homeless
    BY <1>6
  <2> QED BY <1>3, <1>4, <1>7, <2>1 DEF ListsInv
<1>9. ASSUME NEW l \in Loops, NEW m \in holder'[l].inLoops
      PROVE  m \in Loops /\ holder'[m].outLoop # NoLoop
  <2>1. m \in holder[l].inLoops \/ m \in outermost
    BY <1>6
  <2> QED BY <1>2, <1>3, <1>6, <2>1 DEF ListsInv
<1> QED BY <1>1, <1>5, <1>8, <1>9 DEF ListsInv, Unfilled

\* LoopNext without the assertions of AddLoopBlock and AddInLoop.
ListingStep ==
  \/ Run \/ Leave \/ NotHeader \/ TakeSources \/ FillReducible \/ LoopFilled
  \/ CreateRootLoop \/ GatherLoops
  \/ \E s \in Blocks : BackEdge(s) \/ Known(s) \/ Descend(s) \/ Visit(s)

\* Loop::AddLoopBlock and AddInLoop: their assertions hold, for a block is only
\* listed when it has no loop, or when the loop that takes it has not been filled,
\* and a loop only when it has no outer loop.
LEMMA NothingListedTwice ==
  ASSUME LoopInv, ListsInv, LoopNext
  PROVE  ListingStep
<1> USE DEF LoopInv
<1>1. \A l : {} \cap holder[l].blocks = {} /\ {} \cap holder[l].inLoops = {}
  OBVIOUS
<1>2. ~SourcesListed
  <2> SUFFICES ASSUME SourcesListed PROVE FALSE
    OBVIOUS
  <2> DEFINE l == loop[Head(order)]
  <2>1. /\ pc = "populate" /\ order # << >> /\ l # NoLoop /\ holder[l].header = Head(order)
        /\ Listed(l, Sources(l), {})
    BY DEF SourcesListed, IsLoopHeader
  <2>2. PICK b \in Sources(l) : b \in holder[l].blocks
    BY <1>1, <2>1 DEF Listed
  <2>3. order \in Seq(Blocks) /\ Len(order) \in Nat \ {0} /\ Head(order) = order[1]
    BY <2>1, EmptySeq, LenProperties DEF TypeInv
  <2>4. 1 \in Positions /\ Head(order) \in Blocks
    BY <2>3, ElementOfSeq DEF Positions
  <2>5. Unfilled(l)
    BY <2>1, <2>3, <2>4 DEF Unfilled, Filled, Waiting
  <2>6. l \in Loops
    BY <2>1, <2>4, LoopFacts
  <2>7. b = Head(order)
    BY <2>1, <2>2, <2>5, <2>6 DEF ListsInv
  <2> QED BY <2>2, <2>7 DEF Sources
<1>3. ASSUME NEW b \in Blocks, VisitListed(b) PROVE FALSE
  <2>1. pc = "search" /\ current \in Loops
    BY <1>3 DEF VisitListed, SearchInv
  <2>2. CASE loop[b] = NoLoop
    <3>1. b \in holder[current].blocks
      BY <1>1, <1>3, <2>2 DEF VisitListed, Listed
    <3> QED BY <2>1, <2>2, <3>1 DEF ListsInv
  <2>3. CASE loop[b] # NoLoop
    <3>1. loop[b] \in holder[current].inLoops /\ holder[loop[b]].outLoop = NoLoop
      BY <1>1, <1>3, <2>3 DEF VisitListed, Listed, Nests
    <3> QED BY <2>1, <3>1 DEF ListsInv
  <2> QED BY <2>2, <2>3
<1>4. ASSUME pc = "tree", Listed(current, Homeless, Outermost) PROVE FALSE
  <2>1. current \in Loops
    BY <1>4 DEF RootInv
  <2>2. \A b \in Homeless : loop[b] = NoLoop
    BY DEF Homeless
  <2>3. \A l \in Outermost : holder[l].outLoop = NoLoop
    BY DEF Outermost
  <2> QED BY <1>4, <2>1, <2>2, <2>3 DEF Listed, ListsInv
<1>5. (FillIrreducible => TakeSources) /\ (BuildLoopTree => GatherLoops)
  BY <1>2, <1>4 DEF FillIrreducible, BuildLoopTree
<1>6. \A b \in Blocks : LoopSearch(b) => Visit(b)
  BY <1>3 DEF LoopSearch
<1> QED BY <1>5, <1>6, Zenon DEF LoopNext, Step, ListingStep

-----------------------------------------------------------------------------
\* The inductive invariant: the search for back edges leaves a block after all it
\* cuts off, so the loops are filled from the inside to the outside
\* (LoopAnalyzer::CollectBackEdges, PopulateLoops), and what a loop is to list is
\* not listed by it yet.
THEOREM LoopInvHolds == LoopSpec => [](LoopInv /\ ListsInv)
<1>1. LoopInit => LoopInv /\ ListsInv
  <2> SUFFICES ASSUME LoopInit PROVE LoopInv /\ ListsInv
    OBVIOUS
  <2>1. LoopInv
    BY InitInv
  <2>2. Loops = {}
    BY EmptySeq DEF LoopInit, Loops
  <2> QED BY <2>1, <2>2 DEF ListsInv
<1>2. LoopInv /\ ListsInv /\ [LoopNext]_allVars => LoopInv' /\ ListsInv'
  <2> SUFFICES ASSUME LoopInv, ListsInv, [LoopNext]_allVars PROVE LoopInv' /\ ListsInv'
    OBVIOUS
  <2>1. CASE Run
    BY <2>1, RunStep, CollectLists
  <2>2. ASSUME NEW s \in Blocks, BackEdge(s)
        PROVE  LoopInv' /\ ListsInv'
    BY <2>2, BackEdgeStep, BackEdgeLists
  <2>3. ASSUME NEW s \in Blocks, Known(s) \/ Descend(s)
        PROVE  LoopInv' /\ ListsInv'
    BY <2>3, KnownStep, DescendStep, CollectLists
  <2>4. ASSUME NEW s \in Blocks, Visit(s)
        PROVE  LoopInv' /\ ListsInv'
    BY <2>4, VisitStep, VisitLists
  <2>5. CASE Leave
    BY <2>5, LeaveStep, CollectLists
  <2>6. CASE NotHeader \/ FillReducible \/ LoopFilled
    BY <2>6, NotHeaderStep, FillReducibleStep, LoopFilledStep, PassLists
  <2>7. CASE TakeSources
    BY <2>7, TakeSourcesStep, TakeSourcesLists
  <2>8. CASE CreateRootLoop
    BY <2>8, CreateRootLoopStep, CreateRootLoopLists
  <2>9. CASE GatherLoops
    BY <2>9, GatherLoopsStep, GatherLists
  <2>10. CASE UNCHANGED allVars
    <3>1. UNCHANGED <<loop, holder>> /\ \A l : Unfilled(l)' <=> Unfilled(l)
      BY <2>10 DEF allVars, loopVars, Unfilled, Filled, Waiting, Positions
    <3> QED BY <2>10, <3>1, Stutter, ListsSame
  <2>11. LoopNext => ListingStep
    BY NothingListedTwice
  <2> QED BY <2>1, <2>2, <2>3, <2>4, <2>5, <2>6, <2>7, <2>8, <2>9, <2>10, <2>11, Zenon DEF ListingStep
<1> QED BY <1>1, <1>2, PTL DEF LoopSpec

\* Loop::AddBackEdge: its assertion fails only for a block that lists the same
\* successor twice, and those of AddLoopBlock and AddInLoop never do
\* (NothingListedTwice).
THEOREM AbortNeedsParallelEdges == LoopSpec => []AbortsOnlyOnParallel
<1>1. LoopInv => AbortsOnlyOnParallel
  BY DEF LoopInv, OutcomeInv
<1> QED BY <1>1, LoopInvHolds, PTL

\* BuildLoopTree: the chains of outer loops end at the root loop, but for loops
\* whose header an irreducible loop took over.
THEOREM ChainsEnd == LoopSpec => []OutLoopsEnd
<1>1. LoopInv => OutLoopsEnd
  BY DEF LoopInv, OutcomeInv
<1> QED BY <1>1, LoopInvHolds, PTL

LEMMA OneTo ==
  ASSUME NEW n \in Nat
  PROVE  IsFiniteSet(1 .. n) /\ Cardinality(1 .. n) = n
<1>1. /\ IsFiniteSet(1 .. n)
      /\ Cardinality(1 .. n) = IF 1 > n THEN 0 ELSE n - 1 + 1
  BY FS_Interval
<1> QED BY <1>1

LoopsWithinBlocks == Len(holder) <= Cardinality(Reachable)

\* There are never more loops than blocks that the walk reaches: every loop has its
\* own header (LoopAnalyzer::CreateNewBackEdge, CreateRootLoop).
THEOREM OneLoopPerBlock == LoopSpec => []LoopsWithinBlocks
<1>1. LoopInv => LoopsWithinBlocks
  <2> SUFFICES ASSUME LoopInv PROVE LoopsWithinBlocks
    OBVIOUS
  <2> DEFINE f == [l \in Loops |-> holder[l].header]
  <2>1. TypeInv /\ HeaderInv
    BY DEF LoopInv
  <2>2. Len(holder) \in Nat
    BY <2>1, LoopFacts
  <2>3. f \in Injection(Loops, Reachable)
    <3>1. f \in [Loops -> Reachable]
      BY <2>1 DEF HeaderInv
    <3>2. \A l, m \in Loops : f[l] = f[m] => l = m
      BY <2>1 DEF HeaderInv
    <3> HIDE DEF f
    <3> QED BY <3>1, <3>2 DEF Injection, IsInjective
  <2>4. IsFiniteSet(Reachable)
    <3>1. Reachable \subseteq Blocks
      BY <2>1, ReachableFacts DEF TypeInv
    <3> QED BY <3>1, BlocksAssumption, FS_Subset
  <2>5. IsFiniteSet(Loops) /\ Cardinality(Loops) = Len(holder)
    BY <2>2, OneTo DEF Loops
  <2> HIDE DEF f
  <2>6. Cardinality(Loops) <= Cardinality(Reachable)
    BY <2>3, <2>4, <2>5, FS_Injection
  <2> QED BY <2>5, <2>6 DEF LoopsWithinBlocks
<1> QED BY <1>1, LoopInvHolds, PTL

CapacityIsNat == capacity \in Nat

\* The constructor's reserve: holder_ outgrows it only if the walk reaches more
\* blocks than the graph had counted.
THEOREM ReserveIsEnough == LoopSpec => []ReserveSuffices
<1>1. TypeInv /\ LoopsWithinBlocks /\ CapacityIsNat => ReserveSuffices
  <2> SUFFICES ASSUME TypeInv, LoopsWithinBlocks, CapacityIsNat PROVE ReserveSuffices
    OBVIOUS
  <2>1. Len(holder) \in Nat
    BY LoopFacts
  <2>2. IsFiniteSet(Reachable)
    <3>1. Reachable \subseteq Blocks
      BY ReachableFacts DEF TypeInv
    <3> QED BY <3>1, BlocksAssumption, FS_Subset
  <2>3. Cardinality(Reachable) \in Nat
    BY <2>2, FS_CardinalityType
  <2> QED BY <2>1, <2>3 DEF LoopsWithinBlocks, ReserveSuffices, CapacityIsNat
<1>2. LoopSpec => []CapacityIsNat
  <2>1. LoopInit => CapacityIsNat
    <3> SUFFICES ASSUME LoopInit PROVE CapacityIsNat
      OBVIOUS
    <3>1. IsFiniteSet({b \in Blocks : id[b] # NoId})
      BY BlocksAssumption, FS_Subset
    <3>2. capacity = Cardinality({b \in Blocks : id[b] # NoId})
      BY DEF LoopInit
    <3> QED BY <3>1, <3>2, FS_CardinalityType DEF CapacityIsNat
  <2>2. CapacityIsNat /\ [LoopNext]_allVars => CapacityIsNat'
    BY DEF CapacityIsNat, LoopNext, Run, Step, BackEdge, Known, Descend, LoopSearch, Leave, NotHeader,
           FillIrreducible, TakeSources, Abort, Visit, FillReducible, LoopFilled,
           CreateRootLoop, BuildLoopTree, GatherLoops, allVars, loopVars
  <2> QED BY <2>1, <2>2, PTL DEF LoopSpec
<1>3. LoopInv => TypeInv
  BY DEF LoopInv
<1> QED BY <1>1, <1>2, <1>3, LoopInvHolds, OneLoopPerBlock, PTL

-----------------------------------------------------------------------------
(***************************************************************************)
(* Structured graphs.  The invariant that makes the loops the natural ones *)
(* speaks of their headers and of the blocks that belong to a header's     *)
(* loop, in the graph as it is: In is said of reachable blocks only.       *)
(***************************************************************************)
Headers == {h \in Reachable : Latches(h) # {}}
In(h, b) == b = h \/ Latches(h) \cap Reach(Without(h), b) # {}

\* Of the headers around b other than those in X, h is the innermost.
Inner(X, h, b) == /\ h \in Headers \ X /\ In(h, b)
                  /\ \A k \in Headers \ X : In(k, b) => Dominates(k, h)

\* PopulateLoops is done with h.
IsDone(h) == \A i \in Positions : order[i] # h

\* The edges are stored twice.
MirrorInv == \A a, b \in Blocks : preds[b][a] > 0 <=> succs[a][b] > 0

DomsExact ==
  pc \in {"collect", "populate", "search"} =>
    \A b \in Blocks :
      /\ doms[b] \subseteq Blocks
      /\ \A d \in Blocks :
           d \in doms[b] <=> b \in Reachable /\ (d = root \/ (d \in Reachable /\ Cuts(d, b)))

\* The preheader leads nowhere, is in no loop, and is not searched.
PreHeaderInv == /\ pc \notin {"tree", "done"} =>
                     /\ preds \in [Blocks -> [Blocks -> Nat]]
                     /\ \A b \in Blocks : succs[PreHeader][b] = 0
                /\ pc = "idle" => pending = {}
PreHeaderNat == pc \notin {"tree", "done"} => loop[PreHeader] = NoLoop /\ PreHeader \notin pending

\* A block is listed by its loop alone, a loop by its outer loop.
ListedInv ==
  /\ \A l \in Loops : \A b \in Blocks : b \in holder[l].blocks <=> loop[b] = l
  /\ \A l \in Loops : holder[l].inLoops \subseteq Loops
  /\ \A l, m \in Loops : m \in holder[l].inLoops <=> holder[m].outLoop = l

\* The frame of x has ticked an edge to h off.
Ticked(x, h) == \/ color[x] = Black /\ succs[x][h] > 0
                \/ \E k \in 1 .. Len(stack) : stack[k].bb = x /\ stack[k].todo[h] < succs[x][h]

\* The back edges found so far are those to dominators, and no such edge has
\* been passed over.
CollectNat ==
  pc = "collect" =>
    /\ \A l \in Loops : ~holder[l].irreducible /\ holder[l].backEdges # {}
    /\ \A l \in Loops, h \in Blocks : h = holder[l].header => holder[l].backEdges \subseteq Latches(h)
    /\ \A x, h \in Blocks :
         h \in doms[x] /\ Ticked(x, h) => /\ loop[h] # NoLoop
                                          /\ x \in holder[loop[h]].backEdges

\* Every header has its loop, with all its back edges.
LoopsNat ==
  pc \in {"populate", "search"} =>
    /\ \A l \in Loops : ~holder[l].irreducible /\ loop[holder[l].header] = l
    /\ \A l \in Loops, h \in Blocks :
         h = holder[l].header => holder[l].backEdges = Latches(h) /\ h \in Headers
    /\ \A h \in Headers : loop[h] # NoLoop /\ holder[loop[h]].header = h

\* The loop of a block is the innermost around it, and a block has one if
\* PopulateLoops is done with a header around it.
BlocksNat ==
  pc \in {"populate", "search"} =>
    /\ \A b \in Reachable, h \in Blocks :
         loop[b] # NoLoop /\ h = holder[loop[b]].header => Inner({}, h, b)
    /\ \A b \in Reachable, h \in Headers : In(h, b) /\ IsDone(h) => loop[b] # NoLoop
    /\ \A b \in Blocks \ Reachable : loop[b] # NoLoop => "black" \in color[b]

\* The same of the outer loops.
NestNat ==
  pc \in {"populate", "search"} =>
    \A l \in Loops, b \in Blocks :
      b = holder[l].header =>
        /\ \A h \in Blocks : /\ holder[l].outLoop # NoLoop
                             /\ h = holder[holder[l].outLoop].header
                             => Inner({b}, h, b)
        /\ \A h \in Headers \ {b} : In(h, b) /\ IsDone(h) => holder[l].outLoop # NoLoop

CleanNat == pc = "populate" => \A b \in Reachable : color[b] = White

\* The search stays in the loop, has looked at whatever it has painted, and what
\* leads to a painted block is painted or pending.
SearchNat ==
  pc = "search" =>
    \A h \in Blocks : h = holder[current].header =>
      /\ \A b \in pending \cap Reachable : In(h, b)
      /\ \A b \in Reachable : "black" \in color[b] =>
           /\ In(h, b) /\ loop[b] # NoLoop
           /\ b # h => \A a \in PredsOf({b}) : a \in pending \/ "black" \in color[a]
           /\ b # h /\ b \in Headers => holder[loop[b]].outLoop # NoLoop
      /\ \A a \in Latches(h) : a \in pending \/ "black" \in color[a]

\* All headers are done; the root loop has only its header.
TreeNat ==
  pc = "tree" =>
    /\ current \in Loops /\ holder[current].header = root /\ loop[root] = current
    /\ holder[current].outLoop = NoLoop
    /\ \A l \in Loops \ {current} : /\ loop[holder[l].header] = l
                                    /\ holder[l].header \in Headers
    /\ \A h \in Headers : loop[h] \in Loops \ {current} /\ holder[loop[h]].header = h
    /\ \A b \in Reachable :
         IF loop[b] \in {NoLoop, current} THEN \A h \in Headers : ~In(h, b)
         ELSE \A h \in Blocks : h = holder[loop[b]].header => Inner({}, h, b)
    /\ \A l \in Loops \ {current}, b \in Blocks :
         b = holder[l].header =>
           IF holder[l].outLoop = NoLoop THEN \A h \in Headers \ {b} : ~In(h, b)
           ELSE \A h \in Blocks : h = holder[holder[l].outLoop].header => Inner({b}, h, b)

LoopsInv == /\ PreHeaderNat /\ ListedInv /\ CollectNat /\ LoopsNat /\ BlocksNat /\ NestNat
            /\ CleanNat /\ SearchNat /\ TreeNat

NatInv == /\ MirrorInv /\ DomsExact /\ PreHeaderInv
          /\ Structured => LoopsInv
          /\ LoopsAreNatural /\ LoopTreeIsNesting

-----------------------------------------------------------------------------
(***************************************************************************)
(* Domination and natural loops of the graph as it is.                     *)
(***************************************************************************)
LEMMA NatFacts ==
  ASSUME root \in Blocks, MirrorInv
  PROVE  /\ root \in Reachable /\ Reachable \subseteq Blocks /\ Headers \subseteq Reachable
         /\ \A x \in Blocks : SuccSets[x] \subseteq Blocks
         /\ \A x \in Reachable : \A y \in SuccSets[x] : y \in Reachable
         /\ \A x, y \in Blocks : y \in SuccSets[x] <=> x \in PredsOf({y})
         /\ Reachable = Reach(SuccSets, root)
<1>1. \A x, y \in Blocks : x \in PredsOf({y}) <=> preds[y][x] > 0
  BY DEF PredsOf
<1>2. \A x, y \in Blocks : y \in SuccSets[x] <=> x \in PredsOf({y})
  BY <1>1, SuccFacts DEF MirrorInv
<1> QED BY <1>2, ReachableFacts, SuccFacts DEF Headers, Reachable

\* A reachable block is dominated by itself and by what cuts it off.
LEMMA DominatesCuts ==
  ASSUME root \in Blocks, NEW b \in Reachable, NEW d
  PROVE  Dominates(d, b) <=> d = b \/ Cuts(d, b)
<1>1. CASE d = root
  BY <1>1 DEF Dominates, Avoiding, Cuts
<1>2. CASE d # root
  BY <1>2, AvoidingIsLeft DEF Dominates, Cuts
<1> QED BY <1>1, <1>2

LEMMA RootUncut ==
  ASSUME root \in Blocks, NEW d, Cuts(d, root)
  PROVE  FALSE
BY LeftSelf DEF Cuts

LEMMA DominatesTransitive ==
  ASSUME root \in Blocks, NEW a, NEW b \in Reachable, NEW c \in Reachable,
         Dominates(a, b), Dominates(b, c)
  PROVE  Dominates(a, c)
<1>1. (a = b \/ Cuts(a, b)) /\ (b = c \/ Cuts(b, c))
  BY DominatesCuts
<1> SUFFICES ASSUME Cuts(a, b), Cuts(b, c), a # c PROVE Cuts(a, c)
  BY <1>1, DominatesCuts
<1>2. a = root \/ (b # root /\ b \notin Left(SuccSets, root, a))
  BY RootUncut DEF Cuts
<1>3. CASE a = root
  BY <1>3 DEF Cuts
<1>4. CASE b # root /\ b \notin Left(SuccSets, root, a)
  <2>1. Left(SuccSets, root, a) \subseteq Left(SuccSets, root, b)
    BY <1>4, CutsNested, SuccFacts
  <2> QED BY <1>4, <2>1 DEF Cuts
<1> QED BY <1>2, <1>3, <1>4

LEMMA DominatesAntisymmetric ==
  ASSUME root \in Blocks, NEW a \in Reachable, NEW b \in Reachable,
         Dominates(a, b), Dominates(b, a)
  PROVE  a = b
<1> SUFFICES ASSUME a # b PROVE FALSE
  OBVIOUS
<1>1. Cuts(a, b) /\ Cuts(b, a)
  BY DominatesCuts
<1>2. a # root /\ b # root
  BY <1>1, RootUncut
<1>3. a \notin Left(SuccSets, root, b) /\ b \notin Left(SuccSets, root, a)
  BY <1>1, <1>2 DEF Cuts
<1>4. a \in Reach(SuccSets, root)
  BY DEF Reachable
<1> QED BY <1>2, <1>3, <1>4, CutsAntisymmetric, SuccFacts

LEMMA DominatorsComparable ==
  ASSUME root \in Blocks, NEW c \in Reachable, NEW d \in Reachable, NEW b \in Reachable,
         Dominates(c, b), Dominates(d, b)
  PROVE  Dominates(c, d) \/ Dominates(d, c)
<1>1. (c = b \/ Cuts(c, b)) /\ (d = b \/ Cuts(d, b))
  BY DominatesCuts
<1> SUFFICES ASSUME Cuts(c, b), Cuts(d, b), c # d PROVE Cuts(c, d) \/ Cuts(d, c)
  BY <1>1, DominatesCuts DEF Dominates
<1>2. CASE c = root \/ d = root
  BY <1>2 DEF Cuts
<1>3. CASE c # root /\ d # root
  <2>1. b \in Reach(SuccSets, root)
    BY DEF Reachable
  <2>2. b \notin Left(SuccSets, root, c) /\ b \notin Left(SuccSets, root, d)
    BY <1>3 DEF Cuts
  <2>3. c \notin Left(SuccSets, root, d) \/ d \notin Left(SuccSets, root, c)
    BY <2>1, <2>2, CutsComparable, SuccFacts
  <2> QED BY <2>3 DEF Cuts
<1> QED BY <1>2, <1>3

\* Edges without those to h.
LEMMA WithoutFacts ==
  ASSUME NEW h
  PROVE  \A x \in Blocks : /\ Without(h)[x] = SuccSets[x] \ {h}
                           /\ Without(h)[x] \subseteq Blocks
BY SuccFacts DEF Without

\* No path that avoids h comes to h.
LEMMA NeverBack ==
  ASSUME NEW h, NEW b \in Blocks, b # h
  PROVE  h \notin Reach(Without(h), b)
<1> DEFINE S == Blocks \ {h}
<1>1. S \in SUBSET Blocks /\ b \in S
  OBVIOUS
<1>2. Closed(Without(h), S)
  BY WithoutFacts DEF Closed
<1>3. Reach(Without(h), b) \subseteq S
  BY <1>1, <1>2, ReachLeast
<1> QED BY <1>3

LEMMA LatchFacts ==
  ASSUME root \in Blocks, MirrorInv, NEW h \in Blocks, NEW a \in Latches(h)
  PROVE  /\ a \in Reachable /\ a \in Blocks /\ Dominates(h, a) /\ h \in SuccSets[a]
         /\ a \in PredsOf({h}) /\ h \in Reachable /\ h \in Headers
<1>1. a \in Reachable /\ a \in PredsOf({h}) /\ Dominates(h, a)
  BY DEF Latches
<1>2. a \in Blocks /\ h \in SuccSets[a] /\ h \in Reachable
  BY <1>1, NatFacts
<1> QED BY <1>1, <1>2 DEF Headers

LEMMA LatchIn ==
  ASSUME root \in Blocks, MirrorInv, NEW h \in Blocks, NEW a \in Latches(h)
  PROVE  In(h, a)
BY LatchFacts, ReachSelf DEF In

\* What leads to a block of a loop other than the header belongs to the loop.
LEMMA InBefore ==
  ASSUME NEW h, NEW b \in Blocks, b # h, In(h, b), NEW a \in Blocks, b \in SuccSets[a]
  PROVE  In(h, a)
<1>1. b \in Without(h)[a]
  BY WithoutFacts
<1>2. b \in Reach(Without(h), a)
  BY <1>1, ReachSelf, ReachStep
<1>3. Reach(Without(h), b) \subseteq Reach(Without(h), a)
  <2> DEFINE S == Reach(Without(h), a)
  <2>1. S \in SUBSET Blocks
    BY ReachBlocks
  <2>2. Closed(Without(h), S)
    <3> SUFFICES ASSUME NEW x \in S, NEW y \in Without(h)[x] PROVE y \in S
      BY DEF Closed
    <3>1. y \in Blocks
      BY <2>1, WithoutFacts
    <3> QED BY <3>1, ReachStep
  <2> HIDE DEF S
  <2>3. Reach(Without(h), b) \subseteq S
    BY <1>2, <2>1, <2>2, ReachLeast DEF S
  <2> QED BY <2>3 DEF S
<1> QED BY <1>3 DEF In

\* A header dominates its loop: a path from elsewhere that avoids it would go on
\* to the source of a back edge.
LEMMA InDominated ==
  ASSUME root \in Blocks, MirrorInv, NEW h \in Blocks, NEW b \in Reachable, In(h, b)
  PROVE  Dominates(h, b)
<1> SUFFICES ASSUME b # h, h # root, b \in Left(SuccSets, root, h) PROVE FALSE
  <2>1. Dominates(h, b) <=> h = b \/ Cuts(h, b)
    BY DominatesCuts
  <2> QED BY <2>1 DEF Cuts
<1> DEFINE L == Left(SuccSets, root, h)
<1>1. L \in SUBSET Blocks
  BY ReachBlocks DEF Left
<1>2. Closed(Without(h), L)
  <2> SUFFICES ASSUME NEW x \in L, NEW y \in Without(h)[x] PROVE y \in L
    BY DEF Closed
  <2>1. y \in SuccSets[x] /\ y # h /\ y \in Blocks
    BY <1>1, WithoutFacts
  <2> QED BY <2>1, LeftStep
<1>3. Reach(Without(h), b) \subseteq L
  <2> HIDE DEF L
  <2>1. b \in L
    BY DEF L
  <2> QED BY <1>1, <1>2, <2>1, ReachLeast
<1>4. b \in Blocks
  BY NatFacts
<1>5. PICK t \in Latches(h) : t \in Reach(Without(h), b)
  BY DEF In
<1>6. t # h /\ t \in L
  BY <1>3, <1>4, <1>5, NeverBack
<1>7. t \in Reachable /\ Dominates(h, t)
  BY LatchFacts
<1>8. Cuts(h, t)
  BY <1>6, <1>7, DominatesCuts
<1> QED BY <1>6, <1>8 DEF Cuts

\* A strict dominator of h is not on the way from h to what h dominates.
LEMMA BelowHeader ==
  ASSUME root \in Blocks, NEW h \in Reachable, NEW k \in Reachable, Dominates(k, h), k # h,
         NEW b \in Reachable, Dominates(h, b)
  PROVE  b \in Reach(Without(k), h)
<1> DEFINE F == Reach(Without(k), h)
           L == Left(SuccSets, root, h)
           X == L \cup F
<1>1. h \in Blocks /\ b \in Blocks /\ k \in Blocks
  BY ReachableFacts
<1>2. h \in F
  BY <1>1, ReachSelf
<1>3. h # root
  BY DominatesCuts, RootUncut
<1>4. k \in L
  <2>1. CASE k = root
    BY <2>1, LeftSelf
  <2>2. CASE k # root
    <3>1. ~Dominates(h, k)
      BY DominatesAntisymmetric
    <3>2. ~Cuts(h, k)
      BY <3>1, DominatesCuts
    <3> QED BY <1>3, <3>2 DEF Cuts
  <2> QED BY <2>1, <2>2
<1>5. L \subseteq Blocks /\ F \subseteq Blocks
  BY ReachBlocks DEF Left
<1>6. Closed(SuccSets, X)
  <2> SUFFICES ASSUME NEW x \in X, NEW y \in SuccSets[x] PROVE y \in X
    BY DEF Closed
  <2>1. x \in Blocks /\ y \in Blocks
    BY <1>5, SuccFacts
  <2>2. CASE x \in L
    <3>1. y # h => y \in L
      BY <2>1, <2>2, LeftStep
    <3> QED BY <1>2, <3>1
  <2>3. CASE x \in F
    <3>1. y # k => y \in F
      BY <2>1, <2>3, WithoutFacts, ReachStep
    <3> QED BY <1>4, <3>1
  <2> QED BY <2>2, <2>3
<1>7. root \in X
  BY LeftSelf
<1>8. Reachable \subseteq X
  <2> HIDE DEF X
  <2>1. X \in SUBSET Blocks
    BY <1>5 DEF X
  <2> QED BY <1>6, <1>7, <2>1, ReachLeast DEF Reachable
<1>9. b \in X
  BY <1>8
<1>10. b = h \/ b \notin L
  BY <1>3, DominatesCuts DEF Cuts
<1> QED BY <1>2, <1>9, <1>10

\* If a block is in the loops of two headers, one of which dominates the other,
\* the loop of that one holds the other loop.
LEMMA LoopsNest ==
  ASSUME root \in Blocks, MirrorInv, NEW h \in Headers, NEW k \in Headers,
         Dominates(k, h), k # h,
         NEW b \in Reachable, In(h, b), In(k, b)
  PROVE  \A x \in Reachable : In(h, x) => In(k, x)
<1>1. /\ h \in Reachable /\ k \in Reachable /\ h \in Blocks /\ k \in Blocks /\ b \in Blocks
      /\ Reachable \subseteq Blocks
  BY NatFacts
<1>2. Dominates(h, b) /\ ~In(h, k)
  <2>1. Dominates(h, b)
    BY <1>1, InDominated
  <2>2. ~Dominates(h, k)
    BY <1>1, DominatesAntisymmetric
  <2> QED BY <1>1, <2>1, <2>2, InDominated
<1>3. In(k, h)
  <2>1. b # k
    BY <1>2
  <2>2. PICK t \in Latches(k) : t \in Reach(Without(k), b)
    BY <2>1 DEF In
  <2>3. b \in Reach(Without(k), h)
    BY <1>1, <1>2, BelowHeader
  <2> DEFINE S == Reach(Without(k), h)
  <2>4. S \in SUBSET Blocks
    BY ReachBlocks
  <2>5. Closed(Without(k), S)
    <3> SUFFICES ASSUME NEW x \in S, NEW y \in Without(k)[x] PROVE y \in S
      BY DEF Closed
    <3>1. y \in Blocks
      BY <2>4, WithoutFacts
    <3> QED BY <3>1, ReachStep
  <2>6. Reach(Without(k), b) \subseteq S
    <3> HIDE DEF S
    <3>1. b \in S
      BY <2>3 DEF S
    <3> QED BY <2>4, <2>5, <3>1, ReachLeast
  <2> QED BY <2>2, <2>6 DEF In
<1> SUFFICES ASSUME NEW x \in Reachable, In(h, x), ~In(k, x) PROVE FALSE
  OBVIOUS
<1> DEFINE B == {y \in Reachable : ~(In(h, y) /\ In(k, y))}
<1>4. B \in SUBSET Blocks /\ x \in B
  BY <1>1
<1>5. Closed(Without(h), B)
  <2> SUFFICES ASSUME NEW y \in B, NEW z \in Without(h)[y], In(h, z), In(k, z) PROVE FALSE
    <3>1. \A y \in B : \A z \in Without(h)[y] : z \in Reachable
      BY <1>1, NatFacts, WithoutFacts
    <3> QED BY <3>1 DEF Closed
  <2>1. y \in Blocks /\ z \in Blocks /\ z \in SuccSets[y] /\ z # h
    BY <1>1, WithoutFacts
  <2>2. In(h, y)
    BY <2>1, InBefore
  <2>3. z # k
    BY <1>2
  <2>4. In(k, y)
    BY <2>1, <2>3, InBefore
  <2> QED BY <2>2, <2>4
<1>6. x # h
  BY <1>3
<1>7. PICK t \in Latches(h) : t \in Reach(Without(h), x)
  BY <1>6 DEF In
<1>8. t \in B
  <2> HIDE DEF B
  <2>1. Reach(Without(h), x) \subseteq B
    BY <1>4, <1>5, ReachLeast
  <2> QED BY <1>7, <2>1
<1>9. In(h, t)
  BY <1>1, LatchIn
<1>10. h \in SuccSets[t] /\ t \in Blocks
  BY <1>1, LatchFacts
<1>11. In(k, t)
  BY <1>1, <1>3, <1>10, InBefore
<1> QED BY <1>8, <1>9, <1>11

LEMMA NaturalLoopFacts ==
  ASSUME NEW h
  PROVE  /\ NaturalLoop(h, Latches(h)).header = h
         /\ \A b : b \in NaturalLoop(h, Latches(h)).blocks <=> b \in Reachable /\ In(h, b)
BY DEF NaturalLoop, In

LoopsOf(K) == {NaturalLoop(h, Latches(h)) : h \in K}

\* The innermost header gives the innermost of the natural loops.
LEMMA InnermostIs ==
  ASSUME root \in Blocks, MirrorInv, NEW X, NEW h, NEW b \in Reachable, Inner(X, h, b)
  PROVE  Innermost(LoopsOf(Headers \ X), b) = h
<1> DEFINE L == LoopsOf(Headers \ X)
           N(k) == NaturalLoop(k, Latches(k))
           around == {l \in L : b \in l.blocks}
           smallest(l) == \A m \in around : l.blocks \subseteq m.blocks
           c == CHOOSE l \in around : smallest(l)
<1>1. \A l : l \in around <=> \E k \in Headers \ X : l = N(k) /\ In(k, b)
  BY NaturalLoopFacts DEF LoopsOf
<1>2. /\ h \in Headers \ X /\ In(h, b)
      /\ \A k \in Headers \ X : In(k, b) => Dominates(k, h)
  BY DEF Inner
<1>3. Headers \subseteq Reachable /\ Reachable \subseteq Blocks
  BY NatFacts
<1>4. N(h) \in around /\ smallest(N(h))
  <2>1. N(h) \in around
    BY <1>1, <1>2
  <2> SUFFICES ASSUME NEW m \in around PROVE N(h).blocks \subseteq m.blocks
    BY <2>1
  <2>2. PICK k \in Headers \ X : m = N(k) /\ In(k, b)
    BY <1>1
  <2>3. CASE k = h
    BY <2>2, <2>3
  <2>4. CASE k # h
    <3>1. Dominates(k, h) /\ k \in Headers /\ h \in Headers
      BY <1>2, <2>2
    <3>2. \A x \in Reachable : In(h, x) => In(k, x)
      BY <1>2, <2>2, <2>4, <3>1, LoopsNest
    <3> QED BY <2>2, <3>2, NaturalLoopFacts
  <2> QED BY <2>3, <2>4
<1>5. c \in around /\ smallest(c)
  <2> HIDE DEF around, smallest
  <2> QED BY <1>4
<1>6. PICK k \in Headers \ X : c = N(k) /\ In(k, b)
  BY <1>1, <1>5
<1>7. c.blocks \subseteq N(h).blocks
  <2> HIDE DEF c, around
  <2> QED BY <1>4, <1>5
<1>8. In(h, k)
  <2>1. k \in N(k).blocks
    BY <1>3, NaturalLoopFacts DEF In
  <2>2. k \in N(h).blocks
    BY <1>6, <1>7, <2>1
  <2> QED BY <2>2, NaturalLoopFacts
<1>9. Dominates(h, k) /\ Dominates(k, h)
  BY <1>2, <1>3, <1>6, <1>8, InDominated
<1>10. k = h
  BY <1>2, <1>3, <1>9, DominatesAntisymmetric
<1>11. c.header = h
  BY <1>6, <1>10, NaturalLoopFacts
<1>12. around # {}
  BY <1>4
<1> QED BY <1>11, <1>12 DEF Innermost

LEMMA InnermostNone ==
  ASSUME NEW K, NEW b \in Reachable, \A h \in K : ~In(h, b)
  PROVE  Innermost(LoopsOf(K), b) = root
<1>1. {l \in LoopsOf(K) : b \in l.blocks} = {}
  BY NaturalLoopFacts DEF LoopsOf
<1> QED BY <1>1 DEF Innermost

\* The loops the properties speak of.
LEMMA NaturalLoopsOf ==
  /\ NaturalLoops = LoopsOf(Headers \ {})
  /\ \A h : {l \in NaturalLoops : l.header # h} = LoopsOf(Headers \ {h})
<1>1. NaturalLoops = LoopsOf(Headers)
  BY DEF NaturalLoops, LoopsOf, Headers
<1>2. \A h : {l \in LoopsOf(Headers) : l.header # h} = LoopsOf(Headers \ {h})
  BY NaturalLoopFacts DEF LoopsOf
<1> QED BY <1>1, <1>2

-----------------------------------------------------------------------------
\* Only the edges and the root decide what the natural loops are, and with the
\* dominator lists whether the graph is structured.
LEMMA SameNat ==
  ASSUME UNCHANGED <<succs, preds, root>>
  PROVE  /\ SuccSets' = SuccSets /\ Reachable' = Reachable /\ Headers' = Headers
         /\ \A h : Latches(h)' = Latches(h)
         /\ \A h, b : In(h, b)' <=> In(h, b)
         /\ \A h, b : Dominates(h, b)' <=> Dominates(h, b)
         /\ \A X, h, b : Inner(X, h, b)' <=> Inner(X, h, b)
         /\ \A d, b : Cuts(d, b)' <=> Cuts(d, b)
         /\ MirrorInv' <=> MirrorInv
<1>1. SuccSets' = SuccSets /\ Reachable' = Reachable /\ \A d, b : Cuts(d, b)' <=> Cuts(d, b)
  BY SameGraph
<1>2. \A h : Without(h)' = Without(h)
  BY <1>1 DEF Without
<1>3. \A h : Avoiding(h)' = Avoiding(h)
  BY <1>2 DEF Avoiding
<1>4. \A h, b : Dominates(h, b)' <=> Dominates(h, b)
  BY <1>3 DEF Dominates
<1>5. \A h : Latches(h)' = Latches(h)
  BY <1>1, <1>4 DEF Latches, PredsOf
<1>6. Headers' = Headers
  BY <1>1, <1>5 DEF Headers
<1>7. \A h, b : In(h, b)' <=> In(h, b)
  BY <1>2, <1>5 DEF In
<1>8. \A X, h, b : Inner(X, h, b)' <=> Inner(X, h, b)
  BY <1>4, <1>6, <1>7 DEF Inner
<1>9. MirrorInv' <=> MirrorInv
  BY DEF MirrorInv
<1> QED BY <1>1, <1>4, <1>5, <1>6, <1>7, <1>8, <1>9

LEMMA SameStructure ==
  ASSUME UNCHANGED <<succs, doms>>
  PROVE  Structured' <=> Structured
BY DEF Structured, SuccSets, SuccsOf, IsDominatedBy

\* Up to the creation of the root loop, the edges are mirrored by LoopInv.
LEMMA Mirrored ==
  ASSUME EdgesInv, pc \notin {"tree", "done"}
  PROVE  MirrorInv /\ \A a, b \in Blocks : succs[a][b] \in Nat
BY DEF EdgesInv, MirrorInv

\* What the dominator lists say of reachable blocks.
LEMMA DomsFacts ==
  ASSUME LoopInv, DomsExact, pc \in {"collect", "populate", "search"}
  PROVE  /\ \A b \in Reachable : root \in doms[b]
         /\ \A b, d \in Blocks : d \in doms[b] => b \in Reachable /\ d \in Reachable /\ Dominates(d, b)
         /\ \A b \in Reachable, d \in Reachable : d # b /\ Dominates(d, b) => d \in doms[b]
<1>1. root \in Blocks /\ root \in Reachable /\ Reachable \subseteq Blocks
  BY ReachableFacts DEF LoopInv, TypeInv
<1>2. \A b \in Reachable : \A d : Dominates(d, b) <=> d = b \/ Cuts(d, b)
  BY <1>1, DominatesCuts
<1>3. \A b \in Reachable : Dominates(root, b)
  BY DEF Dominates, Avoiding
<1>4. \A b \in Reachable : root \in doms[b]
  BY <1>1 DEF DomsExact
<1>5. \A b, d \in Blocks : d \in doms[b] => b \in Reachable /\ d \in Reachable /\ Dominates(d, b)
  BY <1>1, <1>2, <1>3 DEF DomsExact
<1>6. \A b \in Reachable, d \in Reachable : d # b /\ Dominates(d, b) => d \in doms[b]
  BY <1>1, <1>2 DEF DomsExact
<1> QED BY <1>4, <1>5, <1>6

-----------------------------------------------------------------------------
(***************************************************************************)
(* The search for back edges on a structured graph.                        *)
(***************************************************************************)
\* The stack is a path: what it avoids cuts off none of its blocks.
LEMMA StackAvoids ==
  ASSUME LoopInv, pc = "collect", NEW d \in Blocks, d # root, NEW m \in 1 .. Len(stack),
         \A j \in 1 .. m : stack[j].bb # d
  PROVE  \A j \in 1 .. m : stack[j].bb \in Left(SuccSets, root, d)
<1> DEFINE L == Left(SuccSets, root, d)
           wrong == {j \in 1 .. m : stack[j].bb \notin L}
<1> SUFFICES ASSUME wrong # {} PROVE FALSE
  OBVIOUS
<1>1. /\ root \in Blocks /\ stack # << >> /\ stack[1].bb = root
      /\ Len(stack) \in Nat
      /\ \A k \in 1 .. Len(stack) : stack[k].bb \in Blocks
  BY TopFacts DEF LoopInv, TypeInv, StackInv, FrameType
<1>2. wrong \in SUBSET Nat
  BY <1>1
<1>3. PICK j \in wrong : \A k \in wrong : j <= k
  <2> HIDE DEF wrong
  <2> QED BY <1>2, LeastNatural
<1>4. j # 1
  BY <1>1, <1>3, LeftSelf
<1>5. j \in 1 .. m /\ j - 1 \in 1 .. m /\ j \in 1 .. Len(stack) /\ j > 1
  BY <1>1, <1>3, <1>4
<1>6. stack[j - 1].bb \in L
  BY <1>3, <1>5
<1>7. stack[j].bb \in SuccSets[stack[j - 1].bb]
  <2>1. FrameOK(j)
    BY <1>5 DEF LoopInv, StackInv
  <2> QED BY <1>5, <2>1 DEF FrameOK
<1>8. stack[j].bb \in L
  BY <1>1, <1>5, <1>6, <1>7, LeftStep
<1> QED BY <1>3, <1>8

LEMMA StackFacts ==
  ASSUME LoopInv, pc = "collect"
  PROVE  /\ root \in Blocks /\ stack # << >> /\ Len(stack) \in Nat \ {0} /\ stack[1].bb = root
         /\ Top = stack[Len(stack)] /\ Top.bb \in Reachable /\ Top.bb \in Blocks
         /\ \A k \in 1 .. Len(stack) :
              /\ stack[k].bb \in Reachable /\ stack[k].bb \in Blocks
              /\ color[stack[k].bb] = Grey
              /\ stack[k].todo \in [Blocks -> Nat]
              /\ k > 1 => stack[k].bb \in SuccSets[stack[k - 1].bb]
              /\ \A s \in Blocks : stack[k].todo[s] <= succs[stack[k].bb][s]
         /\ \A j, k \in 1 .. Len(stack) : stack[j].bb = stack[k].bb => j = k
         /\ \A b \in Blocks : color[b] = Grey => \E k \in 1 .. Len(stack) : stack[k].bb = b
<1>1. TypeInv /\ StackInv /\ stack # << >>
  BY DEF LoopInv, StackInv
<1>2. /\ Len(stack) \in Nat \ {0} /\ Top = stack[Len(stack)] /\ Top.bb \in Blocks
      /\ \A k \in 1 .. Len(stack) : stack[k] \in FrameType
  BY <1>1, TopFacts
<1>3. \A k \in 1 .. Len(stack) : stack[k].bb \in Blocks /\ stack[k].todo \in [Blocks -> Nat]
  BY <1>2 DEF FrameType
<1>4. \A k \in 1 .. Len(stack) : FrameOK(k)
  BY <1>1 DEF StackInv
<1>5. \A k \in 1 .. Len(stack) :
        /\ color[stack[k].bb] = Grey /\ stack[k].bb \in Reachable
        /\ \A j \in 1 .. Len(stack) : stack[j].bb = stack[k].bb => j = k
        /\ k > 1 => stack[k].bb \in SuccSets[stack[k - 1].bb]
        /\ \A s \in Blocks : stack[k].todo[s] <= succs[stack[k].bb][s]
  BY <1>4 DEF FrameOK
<1>6. Len(stack) \in 1 .. Len(stack)
  BY <1>2
<1>7. root \in Blocks /\ stack[1].bb = root
      /\ \A b \in Blocks : color[b] = Grey => \E k \in 1 .. Len(stack) : stack[k].bb = b
  BY <1>1 DEF TypeInv, StackInv
<1> QED BY <1>1, <1>2, <1>3, <1>5, <1>6, <1>7

\* A listed dominator of the block at the top is on the stack.
LEMMA DominatorIsGrey ==
  ASSUME LoopInv, DomsExact, pc = "collect", NEW h \in Blocks, h \in doms[Top.bb]
  PROVE  color[h] = Grey
<1> DEFINE n == Len(stack)
<1>1. /\ n \in Nat \ {0} /\ n \in 1 .. n /\ Top.bb = stack[n].bb /\ stack[1].bb = root /\ 1 \in 1 .. n
      /\ \A k \in 1 .. n : color[stack[k].bb] = Grey
      /\ Top.bb \in Blocks
  BY StackFacts
<1>2. CASE h = root
  BY <1>1, <1>2
<1>3. CASE h # root
  <2> SUFFICES ASSUME \A j \in 1 .. n : stack[j].bb # h PROVE FALSE
    BY <1>1
  <2>1. Top.bb \in Left(SuccSets, root, h)
    <3>1. \A j \in 1 .. n : stack[j].bb \in Left(SuccSets, root, h)
      BY <1>1, <1>3, StackAvoids
    <3> QED BY <1>1, <3>1
  <2>2. Cuts(h, Top.bb)
    BY <1>1, <1>3 DEF DomsExact
  <2> QED BY <1>3, <2>1, <2>2 DEF Cuts
<1> QED BY <1>2, <1>3

\* No block on the stack is a listed dominator of the one before it.
LEMMA StackGoesForward ==
  ASSUME LoopInv, DomsExact, pc = "collect", NEW k \in 1 .. Len(stack), k > 1
  PROVE  stack[k].bb \notin doms[stack[k - 1].bb]
<1> DEFINE d == stack[k].bb
           x == stack[k - 1].bb
<1>1. /\ Len(stack) \in Nat /\ k \in Nat /\ k - 1 \in 1 .. Len(stack) /\ 1 \in 1 .. Len(stack)
      /\ stack[1].bb = root /\ d \in Blocks /\ x \in Blocks
      /\ \A j \in 1 .. Len(stack) : stack[j].bb = d => j = k
  <2>1. Len(stack) \in Nat /\ k \in Nat /\ k - 1 \in 1 .. Len(stack) /\ 1 \in 1 .. Len(stack)
    BY StackFacts
  <2> QED BY <2>1, StackFacts
<1>2. d # root
  BY <1>1
<1>3. \A j \in 1 .. k - 1 : stack[j].bb # d
  BY <1>1
<1> HIDE DEF d, x
<1>4. \A j \in 1 .. k - 1 : stack[j].bb \in Left(SuccSets, root, d)
  BY <1>1, <1>2, <1>3, StackAvoids
<1>5. k - 1 \in 1 .. k - 1
  BY <1>1
<1>6. x \in Left(SuccSets, root, d)
  BY <1>4, <1>5 DEF x
<1>7. ~Cuts(d, x)
  BY <1>2, <1>6 DEF Cuts
<1>8. d \notin doms[x]
  BY <1>1, <1>2, <1>7 DEF DomsExact
<1> QED BY <1>8 DEF d, x

\* On a structured graph an edge to a block on the stack leads to a dominator:
\* otherwise the part of the stack from that block on is a cycle of forward edges.
LEMMA GreyIsDominator ==
  ASSUME LoopInv, DomsExact, Structured, pc = "collect",
         NEW s \in Blocks, color[s] = Grey, Top.todo[s] > 0
  PROVE  s \in doms[Top.bb]
<1> DEFINE n == Len(stack)
<1>1. /\ n \in Nat \ {0} /\ n \in 1 .. n /\ Top.bb = stack[n].bb /\ Top = stack[n]
      /\ Top.bb \in Blocks /\ root \in Blocks
      /\ \A k \in 1 .. n : stack[k].bb \in Reachable /\ stack[k].bb \in Blocks
  BY StackFacts
<1>2. PICK m \in 1 .. n : stack[m].bb = s
  BY StackFacts
<1> DEFINE S == {stack[j].bb : j \in m .. n}
<1>3. \A j \in m .. n : j \in 1 .. n
  BY <1>1
<1>4. S \in SUBSET {b \in Blocks : doms[b] # {}} /\ s \in S
  <2>1. \A j \in m .. n : root \in doms[stack[j].bb] /\ stack[j].bb \in Blocks
    BY <1>1, <1>3, DomsFacts
  <2>2. m \in m .. n
    BY <1>1
  <2> QED BY <1>2, <2>1, <2>2
<1>5. PICK b \in S : {t \in SuccSets[b] : ~IsDominatedBy(b, t)} \cap S = {}
  <2> HIDE DEF S
  <2> QED BY <1>4 DEF Structured
<1>6. PICK j \in m .. n : b = stack[j].bb
  BY <1>5
<1>7. CASE j = n
  <2>1. s \in SuccSets[b]
    <3>1. stack[n].todo[s] <= succs[stack[n].bb][s] /\ stack[n].todo[s] \in Nat
      BY <1>1, StackFacts
    <3>2. succs[stack[n].bb][s] \in Nat
      BY <1>1, Mirrored DEF LoopInv
    <3>3. succs[Top.bb][s] > 0
      BY <1>1, <3>1, <3>2
    <3> QED BY <1>1, <1>6, <1>7, <3>3, SuccFacts
  <2>2. IsDominatedBy(b, s)
    <3> HIDE DEF S
    <3> QED BY <1>4, <1>5, <2>1
  <2> QED BY <1>1, <1>6, <1>7, <2>2 DEF IsDominatedBy
<1>8. CASE j # n
  <2>1. j + 1 \in m .. n /\ j + 1 \in 1 .. n /\ j + 1 > 1 /\ (j + 1) - 1 = j
    BY <1>1, <1>6, <1>8
  <2>2. stack[j + 1].bb \in SuccSets[b] /\ stack[j + 1].bb \in S
    BY <1>6, <2>1, StackFacts
  <2>3. stack[j + 1].bb \notin doms[b]
    BY <1>6, <2>1, StackGoesForward
  <2> QED BY <1>5, <2>2, <2>3 DEF IsDominatedBy
<1> QED BY <1>7, <1>8

\* No block but the root has an edge to itself.
LEMMA NoSelfEdge ==
  ASSUME LoopInv, DomsExact, Structured, pc \in {"collect", "populate", "search"},
         NEW b \in Reachable, b \in SuccSets[b]
  PROVE  b = root
<1>1. root \in Blocks /\ b \in Blocks /\ root \in doms[b]
  BY ReachableFacts, DomsFacts DEF LoopInv, TypeInv
<1>2. {b} \in SUBSET {x \in Blocks : doms[x] # {}}
  BY <1>1
<1>3. PICK c \in {b} : {t \in SuccSets[c] : ~IsDominatedBy(c, t)} \cap {b} = {}
  <2> DEFINE S == {b}
  <2>1. S # {} /\ S \in SUBSET {x \in Blocks : doms[x] # {}}
    BY <1>2
  <2> HIDE DEF S
  <2>2. \E c \in S : {t \in SuccSets[c] : ~IsDominatedBy(c, t)} \cap S = {}
    BY <2>1 DEF Structured
  <2> QED BY <2>2 DEF S
<1>4. b \in doms[b]
  BY <1>3 DEF IsDominatedBy
<1>5. b = root \/ Cuts(b, b)
  BY <1>1, <1>4 DEF DomsExact
<1> QED BY <1>5 DEF Cuts

\* An edge to a listed dominator makes its source the source of a back edge.
LEMMA ListedLatch ==
  ASSUME LoopInv, DomsExact, pc \in {"collect", "populate", "search"},
         NEW x \in Blocks, NEW h \in Blocks, h \in doms[x], succs[x][h] > 0
  PROVE  x \in Latches(h)
<1>1. x \in Reachable /\ Dominates(h, x)
  BY DomsFacts
<1>2. x \in PredsOf({h})
  BY Mirrored DEF LoopInv, MirrorInv, PredsOf
<1> QED BY <1>1, <1>2 DEF Latches

LEMMA LatchListed ==
  ASSUME LoopInv, DomsExact, Structured, pc \in {"collect", "populate", "search"},
         NEW h \in Blocks, NEW x \in Latches(h)
  PROVE  h \in doms[x] /\ succs[x][h] > 0
<1>1. root \in Blocks /\ MirrorInv
  BY Mirrored DEF LoopInv, TypeInv
<1>2. /\ x \in Reachable /\ x \in Blocks /\ h \in Reachable /\ Dominates(h, x) /\ h \in SuccSets[x]
      /\ root \in doms[x]
  BY <1>1, LatchFacts, DomsFacts
<1>3. succs[x][h] > 0
  BY <1>2, SuccFacts
<1>4. CASE h = x
  BY <1>2, <1>3, <1>4, NoSelfEdge
<1>5. CASE h # x
  BY <1>2, <1>3, <1>5, DomsFacts
<1> QED BY <1>4, <1>5

-----------------------------------------------------------------------------
\* What no step before the creation of the root loop disturbs.
LEMMA NatFrame ==
  ASSUME NatInv, UNCHANGED <<succs, preds, root, doms>>,
         pc \in {"collect", "populate", "search"},
         pc' \in {"collect", "abort", "populate", "search"}
  PROVE  /\ MirrorInv' /\ DomsExact' /\ PreHeaderInv' /\ LoopsAreNatural' /\ LoopTreeIsNesting'
         /\ Structured' <=> Structured
<1>1. MirrorInv' /\ Reachable' = Reachable /\ \A d, b : Cuts(d, b)' <=> Cuts(d, b)
  BY SameNat DEF NatInv
<1>2. DomsExact'
  BY <1>1 DEF NatInv, DomsExact
<1>3. LoopsAreNatural' /\ LoopTreeIsNesting'
  BY DEF LoopsAreNatural, LoopTreeIsNesting, Done
<1>4. PreHeaderInv'
  BY DEF NatInv, PreHeaderInv
<1> QED BY <1>1, <1>2, <1>3, <1>4, SameStructure

LEMMA InitNat == ASSUME LoopInit, LoopInv PROVE NatInv
<1>1. PICK E \in Edges : succs = E /\ preds = [b \in Blocks |-> [a \in Blocks |-> E[a][b]]]
  BY DEF LoopInit
<1>2. /\ pc = "idle" /\ holder = << >> /\ Len(holder) = 0 /\ Loops = {} /\ root = Entry
      /\ loop = [b \in Blocks |-> NoLoop] /\ pending = {}
  BY EmptySeq DEF LoopInit, Loops
<1>3. MirrorInv
  BY <1>2, Mirrored DEF LoopInv
<1>4. DomsExact /\ LoopsAreNatural /\ LoopTreeIsNesting
  BY <1>2 DEF DomsExact, LoopsAreNatural, LoopTreeIsNesting, Done
<1>5. PreHeaderInv /\ PreHeaderNat
  BY <1>1, <1>2, EdgesAssumption, EndsAssumption DEF PreHeaderInv, PreHeaderNat
<1>6. LoopsInv
  BY <1>2, <1>5 DEF LoopsInv, ListedInv, CollectNat, LoopsNat, BlocksNat, NestNat, CleanNat, SearchNat,
              TreeNat
<1> QED BY <1>3, <1>4, <1>5, <1>6 DEF NatInv

LEMMA DomSetsExact ==
  ASSUME root \in Blocks, NEW b \in Blocks, NEW d \in Blocks
  PROVE  /\ DomSets[b] \subseteq Blocks
         /\ d \in DomSets[b] <=> b \in Reachable /\ (d = root \/ (d \in Reachable /\ Cuts(d, b)))
<1> DEFINE cuts == {[without |-> e, reached |-> Avoiding(e)] : e \in Reachable}
           needed == {c \in cuts : c.without # b /\ b \notin c.reached}
<1>1. DomSets[b] = IF b \in Reachable THEN {root} \cup {c.without : c \in needed} ELSE {}
  BY DEF DomSets
<1>2. \A e : (\E c \in needed : e = c.without) <=> e \in Reachable /\ e # b /\ b \notin Avoiding(e)
  <2> SUFFICES ASSUME NEW e
               PROVE  (\E c \in needed : e = c.without)
                        <=> e \in Reachable /\ e # b /\ b \notin Avoiding(e)
    OBVIOUS
  <2>1. ASSUME e \in Reachable, e # b, b \notin Avoiding(e) PROVE \E c \in needed : e = c.without
    <3> DEFINE c == [without |-> e, reached |-> Avoiding(e)]
    <3>1. c \in cuts /\ c.without = e /\ c.reached = Avoiding(e)
      BY <2>1
    <3>2. c \in needed
      BY <2>1, <3>1
    <3> QED BY <3>1, <3>2
  <2>2. ASSUME NEW c \in needed, e = c.without PROVE e \in Reachable /\ e # b /\ b \notin Avoiding(e)
    <3>1. PICK f \in Reachable : c = [without |-> f, reached |-> Avoiding(f)]
      OBVIOUS
    <3> QED BY <2>2, <3>1
  <2> QED BY <2>1, <2>2
<1>3. ASSUME b \in Reachable, NEW e
      PROVE  e # b /\ b \notin Avoiding(e) <=> Cuts(e, b)
  <2>1. CASE e = root
    BY <1>3, <2>1 DEF Avoiding, Cuts
  <2>2. CASE e # root
    BY <1>3, <2>2, AvoidingIsLeft DEF Cuts
  <2> QED BY <2>1, <2>2
<1>4. DomSets[b] \subseteq Blocks
  <2>1. \A c \in needed : c.without \in Reachable
    BY <1>2
  <2> HIDE DEF needed
  <2>2. Reachable \subseteq Blocks
    BY ReachableFacts
  <2> QED BY <1>1, <2>1, <2>2
<1> HIDE DEF needed
<1> QED BY <1>1, <1>2, <1>3, <1>4

LEMMA RunNat ==
  ASSUME LoopInv, NatInv, Run
  PROVE  NatInv'
<1> USE DEF LoopInv
<1>1. /\ pc = "idle" /\ pc' = "collect"
      /\ UNCHANGED <<succs, preds, root, loop, holder, order, current, pending>>
      /\ doms' = DomSets /\ stack' = << Frame(root) >>
      /\ color' = [color EXCEPT ![root] = @ \cup Grey]
  BY DEF Run, Traverse, Painted, Grey
<1>2. /\ root \in Blocks /\ color = [b \in Blocks |-> White]
      /\ holder = << >> /\ Len(holder) = 0 /\ Loops' = {}
  BY <1>1, EmptySeq DEF IdleInv, TypeInv, Loops
<1>3. \A b \in Blocks : color'[b] # Black
  <2>1. \A b \in Blocks : color'[b] = IF b = root THEN Grey ELSE White
    BY <1>1, <1>2 DEF White
  <2> QED BY <2>1 DEF White, Grey, Black
<1>4. /\ MirrorInv' /\ Reachable' = Reachable
      /\ \A d, b : Cuts(d, b)' <=> Cuts(d, b)
  BY <1>1, SameNat DEF NatInv
<1>5. DomsExact'
  BY <1>1, <1>2, <1>4, DomSetsExact DEF DomsExact
<1>6. PreHeaderInv'
  BY <1>1 DEF NatInv, PreHeaderInv
<1>7. LoopsAreNatural' /\ LoopTreeIsNesting'
  BY <1>1 DEF LoopsAreNatural, LoopTreeIsNesting, Done
<1>8. \A x, h \in Blocks : ~Ticked(x, h)'
  <2> SUFFICES ASSUME NEW x \in Blocks, NEW h \in Blocks, Ticked(x, h)' PROVE FALSE
    OBVIOUS
  <2>1. /\ stack' = << Frame(root) >> /\ Len(stack') = 1
        /\ stack'[1].bb = root /\ stack'[1].todo = succs[root]
    BY <1>1 DEF Frame
  <2>2. PICK k \in 1 .. Len(stack') : stack'[k].bb = x /\ stack'[k].todo[h] < succs'[x][h]
    BY <1>3 DEF Ticked
  <2>3. k = 1
    BY <2>1
  <2>4. succs[root][h] < succs[root][h] /\ succs[root][h] \in Nat
    BY <1>1, <1>2, <2>1, <2>2, <2>3 DEF EdgesInv
  <2> QED BY <2>4
<1>9. PreHeaderNat'
  BY <1>1, EndsAssumption DEF IdleInv, NatInv, PreHeaderInv, PreHeaderNat
<1>10. LoopsInv'
  <2>1. ListedInv' /\ CollectNat'
    BY <1>2, <1>8 DEF ListedInv, CollectNat
  <2> QED BY <1>1, <1>9, <2>1 DEF LoopsInv, LoopsNat, BlocksNat, NestNat, CleanNat, SearchNat, TreeNat
<1> QED BY <1>4, <1>5, <1>6, <1>7, <1>10 DEF NatInv

\* Ticking off an edge of the block at the top of the stack ticks off no other.
LEMMA TickedAfter ==
  ASSUME LoopInv, pc = "collect", NEW s \in Blocks, Top.todo[s] > 0, UNCHANGED succs,
         \/ stack' = Rest(s) /\ color' = color
         \/ /\ stack' = Append(Rest(s), Frame(s))
            /\ color' = [color EXCEPT ![s] = @ \cup Grey]
  PROVE  \A x, t \in Blocks : Ticked(x, t)' => Ticked(x, t) \/ (x = Top.bb /\ t = s)
<1> USE DEF LoopInv
<1> DEFINE n == Len(stack)
<1> SUFFICES ASSUME NEW x \in Blocks, NEW t \in Blocks, Ticked(x, t)', x # Top.bb \/ t # s
             PROVE  Ticked(x, t)
  OBVIOUS
<1>1. /\ stack # << >> /\ n \in Nat \ {0} /\ Top = stack[n] /\ n \in 1 .. n
      /\ \A a, b \in Blocks : succs[a][b] \in Nat
  BY StackFacts, Mirrored
<1>2. /\ Rest(s) \in Seq(FrameType) /\ Len(Rest(s)) = n
      /\ \A k \in 1 .. n :
           /\ Rest(s)[k].bb = stack[k].bb
           /\ \A u \in Blocks : Rest(s)[k].todo[u] =
                IF k = n /\ u = s THEN Top.todo[s] - 1 ELSE stack[k].todo[u]
  BY <1>1, RestFacts
<1>3. CASE color'[x] = Black /\ succs[x][t] > 0
  <2>1. color[x] = Black
    <3>1. color \in [Blocks -> SUBSET {"grey", "black"}]
      BY DEF TypeInv
    <3>2. color'[x] = color[x] \/ color'[x] = color[x] \cup Grey
      BY <3>1
    <3>3. color[x] \cup Grey # Black
      <4>1. "grey" \in color[x] \cup Grey /\ "grey" \notin Black
        BY DEF Grey, Black
      <4> QED BY <4>1
    <3> QED BY <1>3, <3>2, <3>3
  <2> QED BY <1>3, <2>1 DEF Ticked
<1>4. CASE ~(color'[x] = Black /\ succs[x][t] > 0)
  <2>1. PICK k \in 1 .. Len(stack') : stack'[k].bb = x /\ stack'[k].todo[t] < succs[x][t]
    BY <1>4 DEF Ticked
  <2>2. CASE k \in 1 .. n
    <3>1. stack'[k] = Rest(s)[k]
      <4>1. stack' = Rest(s) \/ stack' = Append(Rest(s), Frame(s))
        OBVIOUS
      <4> QED BY <1>1, <1>2, <2>2, <4>1
    <3>2. stack[k].bb = x
      BY <1>2, <2>1, <2>2, <3>1
    <3>3. stack'[k].todo[t] = stack[k].todo[t]
      BY <1>1, <1>2, <2>2, <3>1, <3>2
    <3> QED BY <2>1, <2>2, <3>2, <3>3 DEF Ticked
  <2>3. CASE k \notin 1 .. n
    <3>1. stack' = Append(Rest(s), Frame(s)) /\ Len(stack') = n + 1 /\ stack'[n + 1] = Frame(s)
      BY <1>1, <1>2, <2>1, <2>3, AppendProperties
    <3>2. k = n + 1
      BY <1>1, <2>1, <2>3, <3>1
    <3>3. x = s /\ stack'[k].todo = succs[s]
      BY <2>1, <3>1, <3>2 DEF Frame
    <3>4. succs[s][t] < succs[s][t] /\ succs[s][t] \in Nat
      BY <1>1, <2>1, <3>3
    <3> QED BY <3>4
  <2> QED BY <2>2, <2>3
<1> QED BY <1>3, <1>4

\* An edge that is passed over leads to no dominator: those are on the stack.
LEMMA PassNat ==
  ASSUME LoopInv, NatInv, NEW s \in Blocks, Known(s) \/ Descend(s)
  PROVE  NatInv'
<1>1. /\ pc = "collect" /\ pc' = "collect" /\ Top.todo[s] > 0 /\ color[s] # Grey
      /\ UNCHANGED <<succs, preds, root, doms, loop, holder, order, pending>>
      /\ \/ stack' = Rest(s) /\ color' = color
         \/ /\ stack' = Append(Rest(s), Frame(s))
            /\ color' = [color EXCEPT ![s] = @ \cup Grey]
  <2>1. Grey # {} /\ Grey # {"black"}
    <3>1. "grey" \in Grey /\ "grey" \notin {"black"}
      BY DEF Grey
    <3> QED BY <3>1
  <2> QED BY <2>1 DEF Known, Descend, Painted, Grey, vars
<1>2. /\ MirrorInv' /\ DomsExact' /\ PreHeaderInv' /\ LoopsAreNatural' /\ LoopTreeIsNesting'
      /\ Structured' <=> Structured
  BY <1>1, NatFrame
<1>3. ASSUME Structured PROVE LoopsInv'
  <2>1. ListedInv /\ CollectNat /\ PreHeaderNat
    BY <1>3 DEF NatInv, LoopsInv
  <2>0. PreHeaderNat'
    BY <1>1, <2>1 DEF PreHeaderNat
  <2>2. Loops' = Loops /\ \A h : Latches(h)' = Latches(h)
    BY <1>1, SameNat DEF Loops
  <2>3. ListedInv'
    BY <1>1, <2>1, <2>2 DEF ListedInv
  <2>4. ASSUME NEW x \in Blocks, NEW h \in Blocks, h \in doms[x], Ticked(x, h)'
        PROVE  Ticked(x, h)
    <3>1. Ticked(x, h) \/ (x = Top.bb /\ h = s)
      BY <1>1, <2>4, TickedAfter
    <3>2. h \in doms[Top.bb] => color[h] = Grey
      BY <1>1, DominatorIsGrey DEF NatInv
    <3> QED BY <1>1, <2>4, <3>1, <3>2
  <2>5. CollectNat'
    BY <1>1, <2>1, <2>2, <2>4 DEF CollectNat
  <2> QED BY <1>1, <2>0, <2>3, <2>5 DEF LoopsInv, LoopsNat, BlocksNat, NestNat, CleanNat, SearchNat, TreeNat
<1> QED BY <1>2, <1>3 DEF NatInv

LEMMA BackEdgeNat ==
  ASSUME LoopInv, NatInv, NEW s \in Blocks, BackEdge(s)
  PROVE  NatInv'
<1> DEFINE l == LoopOf(s)
           x0 == Top.bb
<1>1. /\ pc = "collect" /\ Top.todo[s] > 0 /\ "grey" \in color[s]
      /\ UNCHANGED <<succs, preds, root, doms, color, order, pending>>
      /\ \/ pc' = "abort" /\ UNCHANGED <<loop, holder, stack>>
         \/ /\ holder' = WithBackEdge(s) /\ loop' = [loop EXCEPT ![s] = l]
            /\ stack' = Rest(s) /\ pc' = "collect"
  BY DEF BackEdge, vars, LoopOf, WithLoop, WithBackEdge
<1>2. color[s] = Grey
  <2>1. color[s] \in {White, Grey, Black}
    BY <1>1 DEF LoopInv, StackInv
  <2>2. "grey" \notin White /\ "grey" \notin Black
    BY DEF White, Black
  <2> QED BY <1>1, <2>1, <2>2
<1>3. /\ MirrorInv' /\ DomsExact' /\ PreHeaderInv' /\ LoopsAreNatural' /\ LoopTreeIsNesting'
      /\ Structured' <=> Structured
  BY <1>1, NatFrame
<1>4. s # PreHeader
  <2>1. s \in Reachable
    BY <1>1, <1>2, StackFacts
  <2> QED BY <1>1, <2>1, PreHeaderUnreached DEF LoopInv
<1>5. PreHeaderNat => PreHeaderNat'
  <2>1. loop'[PreHeader] = loop[PreHeader]
    BY <1>1, <1>4, EndsAssumption DEF LoopInv, TypeInv
  <2>2. pending' = pending
    BY <1>1
  <2> QED BY <1>1, <2>1, <2>2 DEF PreHeaderNat
<1>6. CASE pc' = "abort"
  <2>1. UNCHANGED <<loop, holder>>
    BY <1>1, <1>6
  <2>2. ListedInv => ListedInv'
    BY <2>1 DEF ListedInv, Loops
  <2>3. Structured => LoopsInv'
    BY <1>5, <1>6, <2>2 DEF NatInv, LoopsInv, CollectNat, LoopsNat, BlocksNat, NestNat, CleanNat,
                      SearchNat, TreeNat
  <2> QED BY <1>3, <2>3 DEF NatInv
<1>7. ASSUME pc' # "abort", Structured PROVE LoopsInv'
  <2>1. /\ holder' = WithBackEdge(s) /\ loop' = [loop EXCEPT ![s] = l]
        /\ stack' = Rest(s) /\ pc' = "collect"
    BY <1>1, <1>7
  <2>2. ListedInv /\ CollectNat /\ PreHeaderNat' /\ \A h : Latches(h)' = Latches(h)
    BY <1>1, <1>5, <1>7, SameNat DEF NatInv, LoopsInv
  <2>3. x0 \in Blocks /\ succs[x0][s] > 0
    <3>1. Top = stack[Len(stack)] /\ Len(stack) \in 1 .. Len(stack) /\ Top.bb \in Blocks
      BY <1>1, StackFacts
    <3>2. Top.todo[s] <= succs[Top.bb][s] /\ Top.todo[s] \in Nat
      BY <1>1, <3>1, StackFacts
    <3>3. succs[Top.bb][s] \in Nat
      BY <1>1, <3>1, Mirrored DEF LoopInv
    <3> QED BY <1>1, <3>1, <3>2, <3>3
  <2>4. IsDominatedBy(x0, s) /\ x0 \in Latches(s)
    <3>1. s \in doms[x0]
      BY <1>1, <1>2, <1>7, GreyIsDominator DEF NatInv
    <3> QED BY <1>1, <2>3, <3>1, ListedLatch DEF NatInv, IsDominatedBy
  <2>5. /\ Len(holder) \in Nat /\ Loops = 1 .. Len(holder)
        /\ loop \in [Blocks -> 0 .. Len(holder)]
        /\ \A k \in Loops : holder[k].outLoop = NoLoop
        /\ \A b \in Blocks : loop[b] # NoLoop => loop[b] \in Loops
    BY <1>1, LoopFacts DEF LoopInv, TypeInv, CollectInv, Loops
  <2>6. /\ l \in 1 .. Len(holder') /\ l # NoLoop
        /\ Len(holder') = IF loop[s] = NoLoop THEN Len(holder) + 1 ELSE Len(holder)
        /\ loop[s] = NoLoop => l = Len(holder) + 1
        /\ loop[s] # NoLoop => l \in Loops /\ loop[s] = l /\ holder[l].header = s
        /\ \A k \in 1 .. Len(holder') \ {l} : k \in Loops /\ holder'[k] = holder[k]
        /\ holder'[l].header = s /\ holder'[l].outLoop = NoLoop
        /\ holder'[l].backEdges = {x0} \cup (IF loop[s] = NoLoop THEN {} ELSE holder[l].backEdges)
        /\ holder'[l].irreducible => \/ ~IsDominatedBy(x0, s)
                                     \/ loop[s] # NoLoop /\ holder[l].irreducible
        /\ holder'[l].blocks = IF loop[s] = NoLoop THEN {s} ELSE holder[l].blocks
        /\ holder'[l].inLoops = IF loop[s] = NoLoop THEN {} ELSE holder[l].inLoops
    <3>1. TypeInv /\ CollectInv /\ RootInv
      BY DEF LoopInv
    <3>2. Top.bb \in Blocks /\ pc = "collect"
      BY <1>1, <2>3
    <3> HIDE DEF l, x0
    <3> DEFINE after == WithBackEdge(s)
               m == LoopOf(s)
    <3>3. /\ m \in 1 .. Len(after) /\ m # NoLoop
          /\ Len(after) = IF loop[s] = NoLoop THEN Len(holder) + 1 ELSE Len(holder)
          /\ loop[s] = NoLoop => m = Len(holder) + 1
          /\ loop[s] # NoLoop => m \in Loops /\ loop[s] = m /\ holder[m].header = s
          /\ \A k \in 1 .. Len(after) \ {m} : k \in Loops /\ after[k] = holder[k]
          /\ after[m].header = s /\ after[m].outLoop = NoLoop
          /\ after[m].backEdges = {Top.bb} \cup (IF loop[s] = NoLoop THEN {} ELSE holder[m].backEdges)
          /\ after[m].irreducible => \/ ~IsDominatedBy(Top.bb, s)
                                     \/ loop[s] # NoLoop /\ holder[m].irreducible
          /\ after[m].blocks = IF loop[s] = NoLoop THEN {s} ELSE holder[m].blocks
          /\ after[m].inLoops = IF loop[s] = NoLoop THEN {} ELSE holder[m].inLoops
      BY <3>1, <3>2, WithBackEdgeFacts
    <3> HIDE DEF after, m
    <3>4. after = holder' /\ m = l /\ Top.bb = x0
      BY <2>1 DEF after, m, l, x0
    <3> QED BY <3>3, <3>4
  <2> HIDE DEF l, x0
  <2>7. /\ Loops' = 1 .. Len(holder') /\ l \in Loops'
        /\ \A k \in Loops' : k # l => k \in Loops /\ holder'[k] = holder[k]
        /\ Loops \subseteq Loops'
    BY <2>5, <2>6 DEF Loops
  <2>8. \A b \in Blocks : loop'[b] = IF b = s THEN l ELSE loop[b]
    BY <2>1, <2>5
  <2>9. \A k \in Loops : holder[k].inLoops = {}
    BY <2>2, <2>5 DEF ListedInv, NoLoop
  <2>10. \A k \in Loops' : \A b \in Blocks : b \in holder'[k].blocks <=> loop'[b] = k
    <3> SUFFICES ASSUME NEW k \in Loops', NEW b \in Blocks
                 PROVE  b \in holder'[k].blocks <=> loop'[b] = k
      OBVIOUS
    <3>1. CASE k # l
      <4>1. b \in holder[k].blocks <=> loop[b] = k
        BY <2>2, <2>7, <3>1 DEF ListedInv
      <4>2. k # NoLoop
        BY <2>5, <2>7, <3>1 DEF NoLoop
      <4> QED BY <2>6, <2>7, <2>8, <3>1, <4>1, <4>2
    <3>2. CASE k = l /\ loop[s] = NoLoop
      <4>1. b # s => loop[b] # l
        BY <2>5, <2>6, <3>2
      <4> QED BY <2>6, <2>8, <3>2, <4>1
    <3>3. CASE k = l /\ loop[s] # NoLoop
      <4>1. b \in holder[l].blocks <=> loop[b] = l
        BY <2>2, <2>6, <3>3 DEF ListedInv
      <4> QED BY <2>6, <2>8, <3>3, <4>1
    <3> QED BY <3>1, <3>2, <3>3
  <2>11. \A k \in Loops' : holder'[k].inLoops = {} /\ holder'[k].outLoop = NoLoop /\ k # NoLoop
    <3> SUFFICES ASSUME NEW k \in Loops'
                 PROVE  holder'[k].inLoops = {} /\ holder'[k].outLoop = NoLoop /\ k # NoLoop
      OBVIOUS
    <3>1. CASE k # l
      BY <2>5, <2>7, <2>9, <3>1 DEF NoLoop
    <3>2. CASE k = l
      BY <2>6, <2>9, <3>2
    <3> QED BY <3>1, <3>2
  <2>12. ListedInv'
    BY <2>10, <2>11 DEF ListedInv
  <2>13. \A k \in Loops' : /\ ~holder'[k].irreducible /\ holder'[k].backEdges # {}
                           /\ \A h \in Blocks : h = holder'[k].header => holder'[k].backEdges \subseteq Latches(h)
    <3> SUFFICES ASSUME NEW k \in Loops'
                 PROVE  /\ ~holder'[k].irreducible /\ holder'[k].backEdges # {}
                        /\ \A h \in Blocks : h = holder'[k].header
                                             => holder'[k].backEdges \subseteq Latches(h)
      OBVIOUS
    <3>1. CASE k # l
      BY <1>1, <2>2, <2>7, <3>1 DEF CollectNat
    <3>2. CASE k = l
      <4>1. loop[s] # NoLoop => ~holder[l].irreducible /\ holder[l].backEdges \subseteq Latches(s)
        BY <1>1, <2>2, <2>6 DEF CollectNat
      <4>2. holder'[l].backEdges \subseteq Latches(s) /\ holder'[l].backEdges # {}
        BY <2>4, <2>6, <4>1
      <4> QED BY <2>4, <2>6, <3>2, <4>1, <4>2
    <3> QED BY <3>1, <3>2
  <2>14. ASSUME NEW x \in Blocks, NEW h \in Blocks, h \in doms[x], Ticked(x, h)'
         PROVE  loop'[h] # NoLoop /\ x \in holder'[loop'[h]].backEdges
    <3>1. Ticked(x, h) \/ (x = x0 /\ h = s)
      BY <1>1, <2>1, <2>14, TickedAfter DEF x0
    <3>2. CASE h = s
      <4>1. loop'[h] = l
        BY <2>8, <3>2
      <4>2. CASE x = x0
        BY <2>6, <4>1, <4>2
      <4>3. CASE x # x0
        <5>1. loop[s] # NoLoop /\ x \in holder[loop[s]].backEdges
          BY <1>1, <2>2, <2>14, <3>1, <3>2, <4>3 DEF CollectNat
        <5> QED BY <2>6, <4>1, <5>1
      <4> QED BY <4>2, <4>3
    <3>3. CASE h # s
      <4>1. loop[h] # NoLoop /\ x \in holder[loop[h]].backEdges /\ loop'[h] = loop[h]
        BY <1>1, <2>2, <2>8, <2>14, <3>1, <3>3 DEF CollectNat
      <4>2. loop[h] \in Loops' /\ loop[h] \in Loops
        BY <2>5, <2>7, <4>1
      <4>3. CASE loop[h] = l
        <5>1. loop[s] # NoLoop
          BY <2>5, <2>6, <4>2, <4>3
        <5> QED BY <2>6, <4>1, <4>3, <5>1
      <4>4. CASE loop[h] # l
        BY <2>7, <4>1, <4>2, <4>4
      <4> QED BY <4>3, <4>4
    <3> QED BY <3>2, <3>3
  <2>15. CollectNat'
    BY <1>1, <2>2, <2>13, <2>14 DEF CollectNat
  <2> QED BY <2>1, <2>2, <2>12, <2>15 DEF LoopsInv, LoopsNat, BlocksNat, NestNat, CleanNat, SearchNat, TreeNat
<1> QED BY <1>3, <1>6, <1>7 DEF NatInv

\* All edges of the block that is left are ticked off already.
LEMMA LeaveTicks ==
  ASSUME LoopInv, Leave
  PROVE  /\ \A t \in Blocks : succs[Top.bb][t] > 0 => Ticked(Top.bb, t)
         /\ pc' = "collect" => \A x, t \in Blocks : Ticked(x, t)' => Ticked(x, t)
<1> DEFINE n == Len(stack)
           h == Top.bb
<1>1. /\ pc = "collect" /\ n \in Nat \ {0} /\ n \in 1 .. n /\ Top = stack[n]
      /\ h \in Blocks /\ color[h] = Grey
      /\ Len(Below) = n - 1
      /\ \A k \in 1 .. n - 1 : k \in 1 .. n /\ Below[k] = stack[k] /\ stack[k].bb # h
      /\ UNCHANGED <<vars, succs, root, doms, loop, holder, current, pending>>
      /\ stack' = Below
  BY LeaveFacts, Zenon
<1>2. /\ \A s \in Blocks : Top.todo[s] = 0
      /\ pc' = "collect" => color' = [color EXCEPT ![h] = @ \ {"grey"}]
  BY DEF Leave
<1>3. ASSUME NEW t \in Blocks, succs[h][t] > 0 PROVE Ticked(h, t)
  <2>1. stack[n].bb = h /\ stack[n].todo[t] < succs[h][t]
    BY <1>1, <1>2, <1>3
  <2> QED BY <1>1, <2>1 DEF Ticked
<1>4. ASSUME pc' = "collect", NEW x \in Blocks, NEW t \in Blocks, Ticked(x, t)'
      PROVE  Ticked(x, t)
  <2>1. CASE color'[x] = Black /\ succs[x][t] > 0
    <3>1. CASE x = h
      BY <1>3, <2>1, <3>1
    <3>2. CASE x # h
      <4>1. color[x] = Black
        BY <1>2, <1>4, <2>1, <3>2 DEF LoopInv, TypeInv
      <4> QED BY <2>1, <4>1 DEF Ticked
    <3> QED BY <3>1, <3>2
  <2>2. CASE ~(color'[x] = Black /\ succs[x][t] > 0)
    <3>1. PICK k \in 1 .. Len(stack') : stack'[k].bb = x /\ stack'[k].todo[t] < succs[x][t]
      BY <1>1, <1>4, <2>2 DEF Ticked
    <3>2. k \in 1 .. n /\ stack'[k] = stack[k]
      BY <1>1, <3>1
    <3> QED BY <3>1, <3>2 DEF Ticked
  <2> QED BY <2>1, <2>2
<1> QED BY <1>3, <1>4

\* When the root is left, the edges of all reachable blocks have been ticked off.
LEMMA AllTicked ==
  ASSUME LoopInv, Leave, pc' = "populate"
  PROVE  /\ \A x \in Reachable, t \in Blocks : succs[x][t] > 0 => Ticked(x, t)
         /\ \A x \in Reachable : \E i \in Positions' : order'[i] = x
<1> DEFINE n == Len(stack)
<1>1. /\ pc = "collect" /\ n \in Nat \ {0} /\ Top = stack[n] /\ Len(Below) = n - 1
      /\ \A b \in Blocks : Cuts(Top.bb, b) => color[b] = Black
      /\ Top.bb \in Blocks
  BY LeaveFacts, Zenon
<1>2. Below = << >>
  BY <1>1 DEF Leave
<1>3. n = 1
  BY <1>1, <1>2
<1>4. Top.bb = root
  BY <1>1, <1>3, StackFacts
<1>5. \A x \in Reachable : x \in Blocks /\ (color[x] = Black \/ x = Top.bb)
  BY <1>1, <1>4, ReachableFacts DEF Cuts
<1>6. \A x \in Reachable, t \in Blocks : succs[x][t] > 0 => Ticked(x, t)
  BY <1>5, LeaveTicks DEF Ticked
<1>7. \A b \in Blocks : (color[b] = Black \/ b = Top.bb) <=> \E i \in Positions' : order'[i] = b
  BY LeaveKeepsOrder, Zenon
<1>8. \A x \in Reachable : \E i \in Positions' : order'[i] = x
  BY <1>5, <1>7
<1> QED BY <1>6, <1>8

LEMMA LeaveNat ==
  ASSUME LoopInv, NatInv, Leave
  PROVE  NatInv'
<1>1. /\ pc = "collect" /\ pc' \in {"collect", "populate"}
      /\ UNCHANGED <<succs, preds, root, doms, loop, holder, pending>>
      /\ pc' = "populate" => color' = Cleaned
  BY DEF Leave, vars
<1>2. /\ MirrorInv' /\ DomsExact' /\ PreHeaderInv' /\ LoopsAreNatural' /\ LoopTreeIsNesting'
      /\ Structured' <=> Structured
  BY <1>1, NatFrame
<1>3. ASSUME Structured PROVE LoopsInv'
  <2>1. ListedInv /\ CollectNat /\ PreHeaderNat
    BY <1>3 DEF NatInv, LoopsInv
  <2>0. PreHeaderNat'
    BY <1>1, <2>1 DEF PreHeaderNat
  <2>2. /\ Loops' = Loops /\ Reachable' = Reachable /\ Headers' = Headers
        /\ \A h : Latches(h)' = Latches(h)
        /\ \A h, b : In(h, b)' <=> In(h, b)
        /\ \A X, h, b : Inner(X, h, b)' <=> Inner(X, h, b)
    BY <1>1, SameNat DEF Loops
  <2>3. ListedInv'
    BY <1>1, <2>1, <2>2 DEF ListedInv
  <2>4. CASE pc' = "collect"
    <3>1. CollectNat'
      BY <1>1, <2>1, <2>2, <2>4, LeaveTicks DEF CollectNat
    <3> QED BY <2>0, <2>3, <2>4, <3>1 DEF LoopsInv, LoopsNat, BlocksNat, NestNat, CleanNat, SearchNat, TreeNat
  <2>5. CASE pc' = "populate"
    <3>1. /\ root \in Blocks /\ Reachable \subseteq Blocks /\ Headers \subseteq Reachable
          /\ MirrorInv
      BY NatFacts DEF NatInv, LoopInv, TypeInv
    <3>2. /\ \A l \in Loops : /\ ~holder[l].irreducible /\ holder[l].outLoop = NoLoop
                              /\ holder[l].header \in Reachable /\ holder[l].header \in Blocks
                              /\ loop[holder[l].header] # NoLoop
          /\ \A b \in Blocks : loop[b] # NoLoop => loop[b] \in Loops /\ holder[loop[b]].header = b
      BY <1>1, <2>1, LoopFacts DEF LoopInv, CollectNat, CollectInv, HeaderInv
    <3>3. \A l, m \in Loops : holder[l].header = holder[m].header => l = m
      BY DEF LoopInv, HeaderInv
    <3>4. \A l \in Loops : loop[holder[l].header] = l
      BY <3>2, <3>3
    <3>5. ASSUME NEW h \in Blocks, NEW x \in Latches(h)
          PROVE  loop[h] # NoLoop /\ x \in holder[loop[h]].backEdges
      <4>1. h \in doms[x] /\ succs[x][h] > 0
        BY <1>1, <1>3, LatchListed DEF NatInv
      <4>2. x \in Reachable /\ x \in Blocks
        BY <3>1, LatchFacts
      <4>3. Ticked(x, h)
        BY <2>5, <4>1, <4>2, AllTicked
      <4> QED BY <1>1, <2>1, <4>1, <4>2, <4>3 DEF CollectNat
    <3>6. \A h \in Headers : loop[h] # NoLoop /\ holder[loop[h]].header = h
      <4> SUFFICES ASSUME NEW h \in Headers PROVE loop[h] # NoLoop /\ holder[loop[h]].header = h
        OBVIOUS
      <4>1. h \in Blocks /\ Latches(h) # {}
        BY <3>1 DEF Headers
      <4>2. loop[h] # NoLoop
        BY <3>5, <4>1
      <4> QED BY <3>2, <4>1, <4>2
    <3>7. ASSUME NEW l \in Loops, NEW h \in Blocks, h = holder[l].header
          PROVE  holder[l].backEdges = Latches(h) /\ h \in Headers
      <4>1. loop[h] = l
        BY <3>4, <3>7
      <4>2. holder[l].backEdges \subseteq Latches(h) /\ holder[l].backEdges # {}
        BY <1>1, <2>1, <3>7 DEF CollectNat
      <4>3. holder[l].backEdges = Latches(h)
        BY <3>5, <4>1, <4>2
      <4> QED BY <3>2, <3>7, <4>2, <4>3 DEF Headers
    <3>8. LoopsNat'
      BY <1>1, <2>2, <2>5, <3>2, <3>4, <3>6, <3>7 DEF LoopsNat
    <3>9. \A h \in Headers : ~IsDone(h)'
      BY <2>5, <3>1, AllTicked DEF IsDone
    <3>10. ASSUME NEW b \in Reachable, loop[b] # NoLoop PROVE Inner({}, b, b)
      <4>1. b \in Headers
        BY <3>1, <3>2, <3>7, <3>10
      <4>2. \A k \in Headers : In(k, b) => Dominates(k, b)
        BY <3>1, InDominated
      <4> QED BY <4>1, <4>2 DEF Inner, In
    <3>11. \A b \in Blocks \ Reachable : loop[b] = NoLoop
      BY <3>2
    <3>12. BlocksNat'
      <4>1. \A b \in Reachable', h \in Blocks :
              loop'[b] # NoLoop /\ h = holder'[loop'[b]].header => Inner({}, h, b)'
        BY <1>1, <2>2, <3>1, <3>2, <3>10
      <4> QED BY <1>1, <2>2, <3>9, <3>11, <4>1 DEF BlocksNat
    <3>13. NestNat'
      BY <1>1, <2>2, <3>2, <3>9 DEF NestNat
    <3>14. CleanNat'
      BY <1>1, <2>2, <2>5, <3>1 DEF CleanNat, Cleaned, White
    <3> QED BY <2>0, <2>3, <2>5, <3>8, <3>12, <3>13, <3>14 DEF LoopsInv, CollectNat, SearchNat, TreeNat
  <2> QED BY <1>1, <2>4, <2>5
<1> QED BY <1>2, <1>3 DEF NatInv

-----------------------------------------------------------------------------
(***************************************************************************)
(* PopulateLoops on a structured graph.                                    *)
(***************************************************************************)
LEMMA PopDone ==
  ASSUME LoopInv, pc \in {"populate", "search"}, order # << >>, UNCHANGED <<succs, root>>,
         order' = Tail(order), pc' = "populate"
  PROVE  /\ Head(order) = order[1] /\ order[1] \in Blocks
         /\ \A h : IsDone(h)' <=> h = order[1] \/ IsDone(h)
<1>1. /\ Head(order) = order[1] /\ order[1] \in Blocks
      /\ \A b : (\E i \in Positions' : order'[i] = b)
                  <=> b # order[1] /\ \E i \in Positions : order[i] = b
  BY PopFacts DEF LoopInv
<1>2. \A h : /\ IsDone(h) <=> ~\E i \in Positions : order[i] = h
             /\ IsDone(h)' <=> ~\E i \in Positions' : order'[i] = h
  BY DEF IsDone
<1> QED BY <1>1, <1>2, Zenon

\* A header that the next one dominates comes before it.
LEMMA DominatedIsDone ==
  ASSUME LoopInv, pc \in {"populate", "search"}, order # << >>, NEW k \in Reachable,
         k # order[1], Dominates(order[1], k)
  PROVE  IsDone(k)
<1>1. root \in Blocks /\ 1 \in Positions
  <2>1. order \in Seq(Blocks) /\ root \in Blocks
    BY DEF LoopInv, TypeInv
  <2>2. Len(order) \in Nat /\ Len(order) # 0
    BY <2>1, EmptySeq, LenProperties
  <2> QED BY <2>1, <2>2 DEF Positions
<1>2. Cuts(order[1], k)
  BY <1>1, DominatesCuts
<1>3. ASSUME NEW i \in Positions, order[i] = k PROVE FALSE
  <2>1. i < 1
    BY <1>1, <1>2, <1>3 DEF LoopInv, OrderInv
  <2> QED BY <2>1 DEF Positions
<1> QED BY <1>3 DEF IsDone

LEMMA NotHeaderNat ==
  ASSUME LoopInv, NatInv, NotHeader
  PROVE  NatInv'
<1>1. /\ pc = "populate" /\ pc' = "populate" /\ order # << >> /\ order' = Tail(order)
      /\ UNCHANGED <<succs, preds, root, doms, color, loop, holder, pending>>
      /\ ~IsLoopHeader(Head(order))
  BY DEF NotHeader, vars
<1>2. /\ MirrorInv' /\ DomsExact' /\ PreHeaderInv' /\ LoopsAreNatural' /\ LoopTreeIsNesting'
      /\ Structured' <=> Structured
  BY <1>1, NatFrame
<1>3. ASSUME Structured PROVE LoopsInv'
  <2>1. ListedInv /\ LoopsNat /\ BlocksNat /\ NestNat /\ CleanNat /\ PreHeaderNat
    BY <1>3 DEF NatInv, LoopsInv
  <2>2. /\ Loops' = Loops /\ Reachable' = Reachable /\ Headers' = Headers
        /\ \A h : Latches(h)' = Latches(h)
        /\ \A h, b : In(h, b)' <=> In(h, b)
        /\ \A X, h, b : Inner(X, h, b)' <=> Inner(X, h, b)
    BY <1>1, SameNat DEF Loops
  <2>3. \A h \in Headers : IsDone(h)' => IsDone(h)
    <3>1. Head(order) \notin Headers
      BY <1>1, <2>1 DEF LoopsNat, IsLoopHeader
    <3> QED BY <1>1, <3>1, PopDone
  <2>4. PreHeaderNat' /\ ListedInv' /\ LoopsNat' /\ CleanNat'
    BY <1>1, <2>1, <2>2 DEF PreHeaderNat, ListedInv, LoopsNat, CleanNat
  <2>5. BlocksNat'
    BY <1>1, <2>1, <2>2, <2>3 DEF BlocksNat
  <2>6. NestNat'
    BY <1>1, <2>1, <2>2, <2>3 DEF NestNat
  <2> QED BY <1>1, <2>4, <2>5, <2>6 DEF LoopsInv, CollectNat, SearchNat, TreeNat
<1> QED BY <1>2, <1>3 DEF NatInv

\* There are no irreducible loops on a structured graph.
LEMMA TakeSourcesNat ==
  ASSUME LoopInv, NatInv, TakeSources
  PROVE  NatInv'
<1>1. /\ pc = "populate" /\ pc' = "populate" /\ order # << >>
      /\ loop[Head(order)] # NoLoop /\ holder[loop[Head(order)]].irreducible
      /\ UNCHANGED <<succs, preds, root, doms>>
  BY DEF TakeSources, Sources, IsLoopHeader, vars
<1>2. /\ MirrorInv' /\ DomsExact' /\ PreHeaderInv' /\ LoopsAreNatural' /\ LoopTreeIsNesting'
      /\ Structured' <=> Structured
  BY <1>1, NatFrame
<1>3. ~Structured
  <2> SUFFICES ASSUME Structured PROVE FALSE
    OBVIOUS
  <2>1. Head(order) \in Blocks
    BY <1>1, PopFacts DEF LoopInv
  <2>2. loop[Head(order)] \in Loops
    BY <1>1, <2>1, LoopFacts DEF LoopInv
  <2> QED BY <1>1, <2>2 DEF NatInv, LoopsInv, LoopsNat
<1> QED BY <1>2, <1>3 DEF NatInv

LEMMA FillReducibleNat ==
  ASSUME LoopInv, NatInv, FillReducible
  PROVE  NatInv'
<1> DEFINE h == order[1]
           m == loop[h]
<1>1. /\ pc = "populate" /\ pc' = "search" /\ order # << >>
      /\ Head(order) = h /\ h \in Blocks
      /\ current' = m /\ m # NoLoop /\ holder[m].header = h
      /\ color' = [color EXCEPT ![h] = @ \cup {"black"}]
      /\ pending' = holder[m].backEdges
      /\ UNCHANGED <<succs, preds, root, doms, loop, holder, order>>
  <2>1. pc = "populate" /\ order # << >> /\ UNCHANGED <<succs, root>>
    BY DEF FillReducible, vars
  <2>2. Head(order) = h /\ h \in Blocks
    BY <2>1, PopFacts DEF LoopInv
  <2> QED BY <2>2 DEF FillReducible, IsLoopHeader, Painted, vars
<1>2. /\ MirrorInv' /\ DomsExact' /\ PreHeaderInv' /\ LoopsAreNatural' /\ LoopTreeIsNesting'
      /\ Structured' <=> Structured
  BY <1>1, NatFrame
<1>3. ASSUME Structured PROVE LoopsInv'
  <2>1. ListedInv /\ LoopsNat /\ BlocksNat /\ NestNat /\ CleanNat /\ PreHeaderNat
    BY <1>3 DEF NatInv, LoopsInv
  <2>2. /\ Loops' = Loops /\ Reachable' = Reachable /\ Headers' = Headers
        /\ \A k : Latches(k)' = Latches(k)
        /\ \A k, b : In(k, b)' <=> In(k, b)
        /\ \A X, k, b : Inner(X, k, b)' <=> Inner(X, k, b)
    BY <1>1, SameNat DEF Loops
  <2>3. /\ m \in Loops /\ root \in Blocks /\ MirrorInv /\ Reachable \subseteq Blocks
    BY <1>1, LoopFacts, NatFacts DEF LoopInv, TypeInv, NatInv
  <2>4. pending' = Latches(h) /\ h \in Headers /\ h \in Reachable
    BY <1>1, <2>1, <2>3 DEF LoopsNat, Headers
  <2>5. \A a \in Latches(h) : In(h, a) /\ a # PreHeader
    <3>1. PreHeader \notin Reachable
      BY <1>1, PreHeaderUnreached DEF LoopInv
    <3> QED BY <1>1, <2>3, <3>1, LatchFacts, LatchIn
  <2>6. \A b \in Blocks : color'[b] = IF b = h THEN color[b] \cup {"black"} ELSE color[b]
    BY <1>1 DEF LoopInv, TypeInv
  <2> HIDE DEF h, m
  <2>7. PreHeaderNat' /\ ListedInv' /\ LoopsNat' /\ NestNat'
    <3>1. PreHeaderNat'
      BY <1>1, <2>1, <2>4, <2>5 DEF PreHeaderNat
    <3>2. ListedInv' /\ LoopsNat'
      BY <1>1, <2>1, <2>2 DEF ListedInv, LoopsNat
    <3>3. \A k : IsDone(k)' <=> IsDone(k)
      BY <1>1 DEF IsDone, Positions
    <3>4. NestNat'
      BY <1>1, <2>1, <2>2, <3>3 DEF NestNat
    <3> QED BY <3>1, <3>2, <3>4
  <2>8. BlocksNat'
    <3>1. \A k : IsDone(k)' <=> IsDone(k)
      BY <1>1 DEF IsDone, Positions
    <3>2. \A b \in Blocks : "black" \in color[b] => "black" \in color'[b]
      BY <2>6
    <3> QED BY <1>1, <2>1, <2>2, <3>1, <3>2 DEF BlocksNat
  <2>9. SearchNat'
    <3>1. \A b \in Reachable : "black" \in color'[b] => b = h
      BY <1>1, <2>1, <2>3, <2>6 DEF CleanNat, White
    <3>2. loop[h] # NoLoop
      BY <1>1 DEF m
    <3>3. In(h, h)
      BY DEF In
    <3>4. \A k \in Blocks : k = holder'[current'].header => k = h
      BY <1>1
    <3>5. /\ \A b \in pending' \cap Reachable' : In(h, b)
          /\ \A b \in Reachable' : "black" \in color'[b] => b = h
      BY <2>2, <2>4, <2>5, <3>1
    <3> QED BY <1>1, <2>2, <2>4, <3>2, <3>3, <3>4, <3>5 DEF SearchNat
  <2> QED BY <1>1, <2>7, <2>8, <2>9 DEF LoopsInv, CollectNat, CleanNat, TreeNat
<1> QED BY <1>2, <1>3 DEF NatInv

\* When nothing is pending, the whole loop of the header has been painted.
LEMMA SearchComplete ==
  ASSUME LoopInv, NatInv, Structured, pc = "search", pending = {},
         NEW b \in Reachable, In(order[1], b)
  PROVE  "black" \in color[b]
<1> DEFINE h == order[1]
           S == {x \in Reachable : x # h /\ "black" \notin color[x]}
<1>1. /\ current \in Loops /\ holder[current].header = h /\ h \in Blocks
      /\ "black" \in color[h]
      /\ root \in Blocks /\ MirrorInv
  <2>1. current \in Loops /\ holder[current].header = h /\ "black" \in color[h]
    BY DEF LoopInv, SearchInv
  <2> QED BY <2>1, LoopFacts DEF LoopInv, TypeInv, NatInv
<1>2. /\ \A x \in Reachable : "black" \in color[x] /\ x # h =>
           \A a \in PredsOf({x}) : "black" \in color[a]
      /\ \A a \in Latches(h) : "black" \in color[a]
  BY <1>1 DEF NatInv, LoopsInv, SearchNat
<1>3. /\ Reachable \subseteq Blocks
      /\ \A x \in Reachable : \A y \in SuccSets[x] : y \in Reachable
      /\ \A x, y \in Blocks : y \in SuccSets[x] <=> x \in PredsOf({y})
  BY <1>1, NatFacts
<1> SUFFICES ASSUME "black" \notin color[b] PROVE FALSE
  OBVIOUS
<1>4. b \in S /\ S \in SUBSET Blocks /\ b \in Blocks
  BY <1>1, <1>3
<1>5. Closed(Without(h), S)
  <2> SUFFICES ASSUME NEW x \in S, NEW y \in Without(h)[x] PROVE y \in S
    BY DEF Closed
  <2>1. y \in SuccSets[x] /\ y # h /\ y \in Reachable /\ x \in PredsOf({y})
    BY <1>3, WithoutFacts
  <2>2. "black" \notin color[y]
    BY <1>2, <2>1
  <2> QED BY <2>1, <2>2
<1>6. Reach(Without(h), b) \subseteq S
  <2> HIDE DEF S
  <2> QED BY <1>4, <1>5, ReachLeast
<1>7. PICK t \in Latches(h) : t \in Reach(Without(h), b)
  BY <1>4 DEF In
<1> QED BY <1>2, <1>6, <1>7

LEMMA LoopFilledNat ==
  ASSUME LoopInv, NatInv, LoopFilled
  PROVE  NatInv'
<1> DEFINE h == order[1]
<1>1. /\ pc = "search" /\ pc' = "populate" /\ order # << >> /\ order' = Tail(order)
      /\ pending = {} /\ color' = Cleaned
      /\ UNCHANGED <<succs, preds, root, doms, loop, holder, pending>>
  BY DEF LoopFilled, LoopInv, SearchInv, vars
<1>2. /\ MirrorInv' /\ DomsExact' /\ PreHeaderInv' /\ LoopsAreNatural' /\ LoopTreeIsNesting'
      /\ Structured' <=> Structured
  BY <1>1, NatFrame
<1>3. ASSUME Structured PROVE LoopsInv'
  <2>1. ListedInv /\ LoopsNat /\ BlocksNat /\ NestNat /\ SearchNat /\ PreHeaderNat
    BY <1>3 DEF NatInv, LoopsInv
  <2>2. /\ Loops' = Loops /\ Reachable' = Reachable /\ Headers' = Headers
        /\ \A k : Latches(k)' = Latches(k)
        /\ \A k, b : In(k, b)' <=> In(k, b)
        /\ \A X, k, b : Inner(X, k, b)' <=> Inner(X, k, b)
    BY <1>1, SameNat DEF Loops
  <2>3. /\ current \in Loops /\ holder[current].header = h /\ h \in Blocks
        /\ Reachable \subseteq Blocks
    <3>1. current \in Loops /\ holder[current].header = h
      BY <1>1 DEF LoopInv, SearchInv
    <3> QED BY <3>1, LoopFacts, ReachableFacts DEF LoopInv, TypeInv
  <2>4. \A k : IsDone(k)' <=> k = h \/ IsDone(k)
    BY <1>1, PopDone
  <2>5. \A b \in Reachable : In(h, b) =>
          /\ "black" \in color[b] /\ loop[b] # NoLoop
          /\ b # h /\ b \in Headers => holder[loop[b]].outLoop # NoLoop
    <3>1. \A b \in Reachable : In(h, b) => "black" \in color[b]
      BY <1>1, <1>3, SearchComplete
    <3>2. \A b \in Reachable : "black" \in color[b] =>
            /\ loop[b] # NoLoop
            /\ b # h /\ b \in Headers => holder[loop[b]].outLoop # NoLoop
      BY <1>1, <2>1, <2>3 DEF SearchNat
    <3> QED BY <3>1, <3>2
  <2>6. \A b \in Blocks : color'[b] = IF b \in Reachable THEN White ELSE color[b]
    BY <1>1 DEF Cleaned, White
  <2> HIDE DEF h
  <2>7. PreHeaderNat' /\ ListedInv' /\ LoopsNat' /\ CleanNat'
    BY <1>1, <2>1, <2>2, <2>3, <2>6 DEF PreHeaderNat, ListedInv, LoopsNat, CleanNat
  <2>8. BlocksNat'
    <3>1. \A b \in Reachable, k \in Headers : In(k, b) /\ IsDone(k)' => loop[b] # NoLoop
      BY <1>1, <2>1, <2>4, <2>5 DEF BlocksNat
    <3>2. \A b \in Blocks \ Reachable : loop[b] # NoLoop => "black" \in color'[b]
      BY <1>1, <2>1, <2>6 DEF BlocksNat
    <3>3. \A b \in Reachable, k \in Blocks :
            loop[b] # NoLoop /\ k = holder[loop[b]].header => Inner({}, k, b)
      BY <1>1, <2>1 DEF BlocksNat
    <3> QED BY <1>1, <2>2, <3>1, <3>2, <3>3 DEF BlocksNat
  <2>9. NestNat'
    <3>1. ASSUME NEW l \in Loops, NEW b \in Blocks, b = holder[l].header,
                 NEW k \in Headers \ {b}, In(k, b), IsDone(k)'
          PROVE  holder[l].outLoop # NoLoop
      <4>1. CASE IsDone(k)
        BY <1>1, <2>1, <3>1, <4>1 DEF NestNat
      <4>2. CASE k = h
        <5>1. loop[b] = l /\ b \in Headers /\ b \in Reachable
          BY <1>1, <2>1, <3>1 DEF LoopsNat, Headers
        <5> QED BY <2>5, <3>1, <4>2, <5>1
      <4> QED BY <2>4, <3>1, <4>1, <4>2
    <3>2. \A l \in Loops, b \in Blocks : b = holder[l].header =>
            \A k \in Blocks : /\ holder[l].outLoop # NoLoop
                              /\ k = holder[holder[l].outLoop].header
                              => Inner({b}, k, b)
      BY <1>1, <2>1 DEF NestNat
    <3> QED BY <1>1, <2>2, <3>1, <3>2 DEF NestNat
  <2> QED BY <1>1, <2>7, <2>8, <2>9 DEF LoopsInv, CollectNat, SearchNat, TreeNat
<1> QED BY <1>2, <1>3 DEF NatInv

\* The header whose loop is searched is the innermost around a block of its loop
\* if PopulateLoops is done with none of the others around the block.
LEMMA SearchedIsInner ==
  ASSUME LoopInv, MirrorInv, pc = "search", NEW X, order[1] \in Headers \ X,
         NEW b \in Reachable, In(order[1], b),
         \A k \in Headers \ X : In(k, b) => ~IsDone(k)
  PROVE  Inner(X, order[1], b)
<1> DEFINE h == order[1]
<1>1. /\ order # << >> /\ root \in Blocks /\ h \in Reachable /\ h \in Blocks
      /\ Headers \subseteq Reachable /\ Reachable \subseteq Blocks
  BY NatFacts DEF LoopInv, SearchInv, TypeInv
<1>2. ASSUME NEW k \in Headers \ X, In(k, b) PROVE Dominates(k, h)
  <2>1. Dominates(h, b) /\ Dominates(k, b) /\ k \in Reachable
    BY <1>1, <1>2, InDominated
  <2>2. Dominates(h, k) \/ Dominates(k, h)
    BY <1>1, <2>1, DominatorsComparable
  <2>3. CASE k = h
    BY <2>3 DEF Dominates
  <2>4. CASE k # h /\ Dominates(h, k)
    <3>1. IsDone(k)
      BY <1>1, <2>1, <2>4, DominatedIsDone
    <3> QED BY <1>2, <3>1
  <2> QED BY <2>2, <2>3, <2>4
<1> QED BY <1>2 DEF Inner

\* What a step of the search does to the loops.
LEMMA SearchEffects ==
  ASSUME LoopInv, ListedInv, NEW b \in Blocks, Visit(b)
  PROVE  /\ Loops' = Loops
         /\ \A l \in Loops : SameLoop(holder'[l], holder[l])
         /\ \A x \in Blocks : \/ loop'[x] = loop[x]
                              \/ x = b /\ loop[b] = NoLoop /\ loop'[b] = current
         /\ \A l \in Loops :
              \/ holder'[l].outLoop = holder[l].outLoop
              \/ /\ l = loop[b] /\ holder[l].header # holder[current].header
                 /\ holder[l].outLoop = NoLoop /\ holder'[l].outLoop = current
         /\ "black" \notin color[b] =>
              /\ loop'[b] # NoLoop
              /\ loop[b] # NoLoop /\ holder[loop[b]].header # holder[current].header
                   => holder'[loop[b]].outLoop # NoLoop
         /\ "black" \in color[b] => UNCHANGED <<loop, holder>>
         /\ ListedInv'
<1> DEFINE m == loop[b]
<1>1. \/ "black" \in color[b] /\ UNCHANGED <<loop, holder>>
      \/ /\ "black" \notin color[b] /\ m = NoLoop
         /\ loop' = [loop EXCEPT ![b] = current]
         /\ holder' = [holder EXCEPT ![current].blocks = @ \cup {b}]
      \/ /\ "black" \notin color[b] /\ m # NoLoop /\ UNCHANGED <<loop, holder>>
         /\ holder[m].header = holder[current].header \/ holder[m].outLoop # NoLoop
      \/ /\ "black" \notin color[b] /\ m # NoLoop /\ UNCHANGED loop
         /\ holder[m].header # holder[current].header /\ holder[m].outLoop = NoLoop
         /\ holder' = [holder EXCEPT ![m].outLoop = current, ![current].inLoops = @ \cup {m}]
  BY DEF Visit, Nests
<1>2. /\ current \in Loops /\ current # NoLoop /\ holder[current] \in LoopType
      /\ holder \in Seq(LoopType) /\ loop \in [Blocks -> 0 .. Len(holder)]
      /\ Loops = 1 .. Len(holder)
      /\ \A l \in Loops : SameLoop(holder[l], holder[l])
      /\ m # NoLoop => m \in Loops /\ holder[m] \in LoopType
  <2>1. current \in Loops
    BY DEF LoopInv, SearchInv, Visit, Nests
  <2> QED BY <2>1, LoopFacts DEF LoopInv, TypeInv, Loops, NoLoop, SameLoop
<1>3. CASE /\ UNCHANGED <<loop, holder>>
           /\ "black" \notin color[b] =>
                m # NoLoop /\ (\/ holder[m].header = holder[current].header
                              \/ holder[m].outLoop # NoLoop)
  <2>1. ListedInv' /\ Loops' = Loops
    BY <1>3 DEF ListedInv, Loops
  <2> QED BY <1>2, <1>3, <2>1
<1>4. CASE /\ "black" \notin color[b] /\ m = NoLoop
           /\ loop' = [loop EXCEPT ![b] = current]
           /\ holder' = [holder EXCEPT ![current].blocks = @ \cup {b}]
  <2> DEFINE r == [holder[current] EXCEPT !.blocks = holder[current].blocks \cup {b}]
  <2>1. /\ r \in LoopType /\ SameLoop(r, holder[current])
        /\ r.outLoop = holder[current].outLoop /\ r.inLoops = holder[current].inLoops
        /\ r.blocks = holder[current].blocks \cup {b}
    BY <1>2 DEF LoopType, SameLoop
  <2>2. holder' = [holder EXCEPT ![current] = r]
    BY <1>4
  <2> HIDE DEF r
  <2>3. /\ holder' \in Seq(LoopType) /\ Len(holder') = Len(holder)
        /\ \A l \in Loops : holder'[l] = IF l = current THEN r ELSE holder[l]
    BY <1>2, <2>1, <2>2, ExceptSeq DEF Loops
  <2>4. Loops' = Loops
    BY <2>3 DEF Loops
  <2>5. \A l \in Loops : /\ SameLoop(holder'[l], holder[l])
                         /\ holder'[l].outLoop = holder[l].outLoop
                         /\ holder'[l].inLoops = holder[l].inLoops
                         /\ holder'[l].blocks = IF l = current THEN holder[l].blocks \cup {b}
                                                               ELSE holder[l].blocks
    BY <1>2, <2>1, <2>3
  <2>6. \A x \in Blocks : loop'[x] = IF x = b THEN current ELSE loop[x]
    BY <1>2, <1>4
  <2>7. \A l \in Loops : \A x \in Blocks : x \in holder'[l].blocks <=> loop'[x] = l
    <3> SUFFICES ASSUME NEW l \in Loops, NEW x \in Blocks
                 PROVE  x \in holder'[l].blocks <=> loop'[x] = l
      OBVIOUS
    <3>1. x \in holder[l].blocks <=> loop[x] = l
      BY DEF ListedInv
    <3>2. l # NoLoop
      BY <1>2 DEF NoLoop
    <3> QED BY <1>4, <2>5, <2>6, <3>1, <3>2
  <2>8. ListedInv'
    <3>1. /\ \A l \in Loops : holder[l].inLoops \subseteq Loops
          /\ \A l, k \in Loops : k \in holder[l].inLoops <=> holder[k].outLoop = l
      BY DEF ListedInv
    <3>2. \A l \in Loops : holder'[l].inLoops \subseteq Loops
      BY <2>5, <3>1
    <3>3. \A l, k \in Loops : k \in holder'[l].inLoops <=> holder'[k].outLoop = l
      BY <2>5, <3>1
    <3> QED BY <2>4, <2>7, <3>2, <3>3, Zenon DEF ListedInv
  <2> QED BY <1>2, <1>4, <2>4, <2>5, <2>6, <2>8
<1>5. CASE /\ "black" \notin color[b] /\ m # NoLoop /\ UNCHANGED loop
           /\ holder[m].header # holder[current].header /\ holder[m].outLoop = NoLoop
           /\ holder' = [holder EXCEPT ![m].outLoop = current, ![current].inLoops = @ \cup {m}]
  <2>1. /\ m \in Loops /\ m # current /\ holder[m] \in LoopType
        /\ current \in Nat /\ m \in Nat
    BY <1>2, <1>5, LoopFacts DEF Loops
  <2> DEFINE r == [holder[m] EXCEPT !.outLoop = current]
             q == [holder[current] EXCEPT !.inLoops = holder[current].inLoops \cup {m}]
             g == [holder EXCEPT ![m] = r]
  <2> HIDE DEF m
  <2>2. /\ r \in LoopType /\ SameLoop(r, holder[m]) /\ r.outLoop = current
        /\ r.blocks = holder[m].blocks /\ r.inLoops = holder[m].inLoops
    BY <2>1 DEF LoopType, SameLoop
  <2>3. /\ q \in LoopType /\ SameLoop(q, holder[current]) /\ q.outLoop = holder[current].outLoop
        /\ q.blocks = holder[current].blocks /\ q.inLoops = holder[current].inLoops \cup {m}
    BY <1>2, <2>1 DEF LoopType, SameLoop
  <2>4. holder' = [g EXCEPT ![current] = q]
    <3>1. g[current] = holder[current]
      BY <1>2, <2>1
    <3> QED BY <1>5, <3>1
  <2> HIDE DEF r, q
  <2>5. /\ g \in Seq(LoopType) /\ Len(g) = Len(holder)
        /\ \A l \in Loops : g[l] = IF l = m THEN r ELSE holder[l]
    BY <1>2, <2>1, <2>2, ExceptSeq DEF Loops
  <2> HIDE DEF g
  <2>6. /\ holder' \in Seq(LoopType) /\ Len(holder') = Len(holder)
        /\ \A l \in Loops : holder'[l] = IF l = current THEN q ELSE g[l]
    BY <1>2, <2>3, <2>4, <2>5, ExceptSeq DEF Loops
  <2>7. Loops' = Loops
    BY <2>6 DEF Loops
  <2>8. \A l \in Loops :
          /\ SameLoop(holder'[l], holder[l])
          /\ holder'[l].outLoop = IF l = m THEN current ELSE holder[l].outLoop
          /\ holder'[l].blocks = holder[l].blocks
          /\ holder'[l].inLoops = IF l = current THEN holder[l].inLoops \cup {m} ELSE holder[l].inLoops
    <3> SUFFICES ASSUME NEW l \in Loops
                 PROVE  /\ SameLoop(holder'[l], holder[l])
                        /\ holder'[l].outLoop = IF l = m THEN current ELSE holder[l].outLoop
                        /\ holder'[l].blocks = holder[l].blocks
                        /\ holder'[l].inLoops = IF l = current THEN holder[l].inLoops \cup {m}
                                                               ELSE holder[l].inLoops
      OBVIOUS
    <3>1. CASE l = current
      BY <2>1, <2>3, <2>6, <3>1
    <3>2. CASE l = m /\ l # current
      BY <2>2, <2>5, <2>6, <3>2
    <3>3. CASE l # m /\ l # current
      BY <1>2, <2>5, <2>6, <3>3
    <3> QED BY <3>1, <3>2, <3>3
  <2>9. ListedInv'
    <3>1. /\ \A l \in Loops : \A x \in Blocks : x \in holder[l].blocks <=> loop[x] = l
          /\ \A l \in Loops : holder[l].inLoops \subseteq Loops
          /\ \A l, k \in Loops : k \in holder[l].inLoops <=> holder[k].outLoop = l
      BY DEF ListedInv
    <3>2. \A l \in Loops : l # NoLoop
      BY <1>2 DEF NoLoop
    <3>3. \A l, k \in Loops : k \in holder'[l].inLoops <=> holder'[k].outLoop = l
      <4> SUFFICES ASSUME NEW l \in Loops, NEW k \in Loops
                   PROVE  k \in holder'[l].inLoops <=> holder'[k].outLoop = l
        OBVIOUS
      <4>1. k \in holder[l].inLoops <=> holder[k].outLoop = l
        BY <3>1
      <4>2. k = m => holder[k].outLoop # l
        BY <1>5, <3>2 DEF m
      <4> QED BY <2>8, <4>1, <4>2
    <3>4. \A l \in Loops : holder'[l].inLoops \subseteq Loops
      <4> SUFFICES ASSUME NEW l \in Loops PROVE holder'[l].inLoops \subseteq Loops
        OBVIOUS
      <4>1. holder'[l].inLoops \subseteq holder[l].inLoops \cup {m}
        BY <2>8
      <4> QED BY <2>1, <3>1, <4>1
    <3>5. \A l \in Loops : \A x \in Blocks : x \in holder'[l].blocks <=> loop'[x] = l
      BY <1>5, <2>8, <3>1
    <3> QED BY <2>7, <3>3, <3>4, <3>5, Zenon DEF ListedInv
  <2>10. \A l \in Loops :
           \/ holder'[l].outLoop = holder[l].outLoop
           \/ /\ l = m /\ holder[l].header # holder[current].header
              /\ holder[l].outLoop = NoLoop /\ holder'[l].outLoop = current
    BY <1>5, <2>8 DEF m
  <2>11. holder'[m].outLoop # NoLoop
    BY <1>2, <2>1, <2>8
  <2> QED BY <1>2, <1>5, <2>7, <2>8, <2>9, <2>10, <2>11 DEF m
<1> QED BY <1>1, <1>3, <1>4, <1>5

LEMMA VisitNat ==
  ASSUME LoopInv, NatInv, NEW b \in Blocks, Visit(b)
  PROVE  NatInv'
<1> DEFINE h == order[1]
<1>1. /\ pc = "search" /\ pc' = "search" /\ b \in pending
      /\ UNCHANGED <<succs, preds, root, doms, order, current>>
      /\ "black" \in color[b] => pending' = pending \ {b} /\ UNCHANGED color
      /\ "black" \notin color[b] => /\ color' = [color EXCEPT ![b] = @ \cup {"black"}]
                                    /\ pending' = (pending \ {b}) \cup PredsOf({b})
  BY DEF Visit, Nests, Painted
<1>2. /\ MirrorInv' /\ DomsExact' /\ PreHeaderInv' /\ LoopsAreNatural' /\ LoopTreeIsNesting'
      /\ Structured' <=> Structured
  BY <1>1, NatFrame
<1>3. ASSUME Structured PROVE LoopsInv'
  <2>1. ListedInv /\ LoopsNat /\ BlocksNat /\ NestNat /\ SearchNat /\ PreHeaderNat
    BY <1>3 DEF NatInv, LoopsInv
  <2>2. /\ Reachable' = Reachable /\ Headers' = Headers
        /\ \A k : Latches(k)' = Latches(k)
        /\ \A k, x : In(k, x)' <=> In(k, x)
        /\ \A X, k, x : Inner(X, k, x)' <=> Inner(X, k, x)
    BY <1>1, SameNat
  <2>3. /\ current \in Loops /\ current # NoLoop /\ holder[current].header = h
        /\ h \in Blocks /\ "black" \in color[h]
        /\ root \in Blocks /\ MirrorInv /\ Reachable \subseteq Blocks
        /\ \A x \in Reachable : \A y \in SuccSets[x] : y \in Reachable
        /\ \A x, y \in Blocks : y \in SuccSets[x] <=> x \in PredsOf({y})
        /\ \A x \in Blocks : loop[x] # NoLoop => loop[x] \in Loops /\ holder[loop[x]].header \in Blocks
        /\ Headers \subseteq Reachable
    <3>1. current \in Loops /\ holder[current].header = h /\ "black" \in color[h]
      BY <1>1 DEF LoopInv, SearchInv
    <3>2. root \in Blocks /\ MirrorInv
      BY DEF LoopInv, TypeInv, NatInv
    <3>3. TypeInv
      BY DEF LoopInv
    <3>4. current # NoLoop
      BY <3>1 DEF Loops, NoLoop
    <3> QED BY <3>1, <3>2, <3>3, <3>4, NatFacts, LoopFacts
  <2>4. /\ Loops' = Loops
        /\ \A l \in Loops : SameLoop(holder'[l], holder[l])
        /\ \A x \in Blocks : \/ loop'[x] = loop[x]
                             \/ x = b /\ loop[b] = NoLoop /\ loop'[b] = current
        /\ \A l \in Loops :
             \/ holder'[l].outLoop = holder[l].outLoop
             \/ /\ l = loop[b] /\ holder[l].header # holder[current].header
                /\ holder[l].outLoop = NoLoop /\ holder'[l].outLoop = current
        /\ "black" \notin color[b] =>
             /\ loop'[b] # NoLoop
             /\ loop[b] # NoLoop /\ holder[loop[b]].header # holder[current].header
                  => holder'[loop[b]].outLoop # NoLoop
        /\ "black" \in color[b] => UNCHANGED <<loop, holder>>
        /\ ListedInv'
    BY <2>1, SearchEffects
  <2>5. \A k : IsDone(k)' <=> IsDone(k)
    BY <1>1 DEF IsDone, Positions
  <2>6. /\ \A l \in Loops : ~holder[l].irreducible /\ loop[holder[l].header] = l
        /\ \A l \in Loops, k \in Blocks :
             k = holder[l].header => holder[l].backEdges = Latches(k) /\ k \in Headers
        /\ \A k \in Headers : loop[k] # NoLoop /\ holder[loop[k]].header = k
    BY <1>1, <2>1 DEF LoopsNat
  <2>7. /\ \A x \in pending \cap Reachable : In(h, x)
        /\ \A x \in Reachable : "black" \in color[x] =>
             /\ In(h, x) /\ loop[x] # NoLoop
             /\ x # h => \A a \in PredsOf({x}) : a \in pending \/ "black" \in color[a]
             /\ x # h /\ x \in Headers => holder[loop[x]].outLoop # NoLoop
        /\ \A a \in Latches(h) : a \in pending \/ "black" \in color[a]
    BY <1>1, <2>1, <2>3 DEF SearchNat
  <2>8. /\ \A x \in Reachable, k \in Blocks :
             loop[x] # NoLoop /\ k = holder[loop[x]].header => Inner({}, k, x)
        /\ \A x \in Reachable, k \in Headers : In(k, x) /\ IsDone(k) => loop[x] # NoLoop
        /\ \A x \in Blocks \ Reachable : loop[x] # NoLoop => "black" \in color[x]
    BY <1>1, <2>1 DEF BlocksNat
  <2>9. \A l \in Loops, x \in Blocks : x = holder[l].header =>
          /\ \A k \in Blocks : /\ holder[l].outLoop # NoLoop
                               /\ k = holder[holder[l].outLoop].header
                               => Inner({x}, k, x)
          /\ \A k \in Headers \ {x} : In(k, x) /\ IsDone(k) => holder[l].outLoop # NoLoop
    BY <1>1, <2>1 DEF NestNat
  <2>10. h \in Headers
    BY <2>3, <2>6
  <2>11. b \in Reachable => In(h, b)
    BY <1>1, <2>7
  <2>12. /\ \A x \in Blocks : "black" \in color[x] => "black" \in color'[x]
         /\ \A x \in Blocks : "black" \in color'[x] => "black" \in color[x] \/ x = b
         /\ "black" \in color'[b]
    <3>1. color \in [Blocks -> SUBSET {"grey", "black"}]
      BY DEF LoopInv, TypeInv
    <3> QED BY <1>1, <3>1
  <2>13. b # PreHeader /\ PreHeader \notin pending'
    <3>1. PreHeader \notin PredsOf({b})
      <4>1. succs[PreHeader][b] = 0 /\ PreHeader \in Blocks
        BY <1>1, EndsAssumption DEF NatInv, PreHeaderInv
      <4>2. b \notin SuccSets[PreHeader]
        BY <4>1, SuccFacts
      <4> QED BY <2>3, <4>1, <4>2
    <3> QED BY <1>1, <2>1, <3>1 DEF PreHeaderNat
  <2> HIDE DEF h
  <2>14. PreHeaderNat'
    BY <1>1, <2>1, <2>4, <2>13, EndsAssumption DEF PreHeaderNat
  <2>15. LoopsNat'
    <3>1. \A l \in Loops : /\ ~holder'[l].irreducible /\ holder'[l].header = holder[l].header
                           /\ holder'[l].backEdges = holder[l].backEdges
      BY <2>4, <2>6 DEF SameLoop
    <3>2. \A l \in Loops : holder[l].header \in Blocks /\ loop[holder[l].header] # NoLoop
      BY <2>6, LoopFacts DEF LoopInv, HeaderInv
    <3>3. \A l \in Loops : loop'[holder[l].header] = l
      BY <2>4, <2>6, <3>2
    <3>4. \A k \in Headers : loop'[k] # NoLoop /\ holder'[loop'[k]].header = k
      <4> SUFFICES ASSUME NEW k \in Headers PROVE loop'[k] # NoLoop /\ holder'[loop'[k]].header = k
        OBVIOUS
      <4>1. loop[k] # NoLoop /\ holder[loop[k]].header = k /\ k \in Blocks /\ loop[k] \in Loops
        BY <2>3, <2>6
      <4>2. loop'[k] = loop[k]
        BY <2>4, <4>1
      <4> QED BY <3>1, <4>1, <4>2
    <3>5. \A l \in Loops, k \in Blocks :
            k = holder'[l].header => holder'[l].backEdges = Latches(k) /\ k \in Headers
      BY <2>6, <3>1
    <3> QED BY <2>2, <2>4, <3>1, <3>3, <3>4, <3>5 DEF LoopsNat
  <2>16. \A x \in Reachable, k \in Blocks :
           loop'[x] # NoLoop /\ k = holder'[loop'[x]].header => Inner({}, k, x)
    <3> SUFFICES ASSUME NEW x \in Reachable, NEW k \in Blocks, loop'[x] # NoLoop,
                        k = holder'[loop'[x]].header
                 PROVE  Inner({}, k, x)
      OBVIOUS
    <3>1. x \in Blocks
      BY <2>3
    <3>2. CASE loop'[x] = loop[x]
      <4>1. loop[x] \in Loops
        BY <2>3, <3>1, <3>2
      <4>2. k = holder[loop[x]].header
        BY <2>4, <3>2, <4>1 DEF SameLoop
      <4> QED BY <2>8, <3>2, <4>2
    <3>3. CASE x = b /\ loop[b] = NoLoop /\ loop'[b] = current
      <4>1. k = h
        BY <2>3, <2>4, <3>3 DEF SameLoop
      <4>2. \A j \in Headers \ {} : In(j, b) => ~IsDone(j)
        BY <2>8, <3>3
      <4>3. order[1] \in Headers \ {} /\ In(order[1], b) /\ b \in Reachable
        BY <2>10, <2>11, <3>3 DEF h
      <4>4. Inner({}, order[1], b)
        BY <1>1, <2>3, <4>2, <4>3, SearchedIsInner
      <4> QED BY <3>3, <4>1, <4>4 DEF h
    <3> QED BY <2>4, <3>1, <3>2, <3>3
  <2>17. BlocksNat'
    <3>1. \A x \in Reachable, k \in Headers : In(k, x) /\ IsDone(k) => loop'[x] # NoLoop
      BY <2>3, <2>4, <2>8
    <3>2. \A x \in Blocks \ Reachable : loop'[x] # NoLoop => "black" \in color'[x]
      BY <2>4, <2>8, <2>12
    <3> QED BY <2>2, <2>5, <2>16, <3>1, <3>2 DEF BlocksNat
  <2>18. ASSUME NEW l \in Loops, NEW x \in Blocks, x = holder[l].header, NEW k \in Blocks,
                holder'[l].outLoop # NoLoop, k = holder'[holder'[l].outLoop].header
         PROVE  Inner({x}, k, x)
    <3>1. CASE holder'[l].outLoop = holder[l].outLoop
      <4>1. holder[l].outLoop \in Loops
        <5>1. Len(holder) \in Nat /\ holder[l].outLoop \in 0 .. Len(holder)
          BY LoopFacts DEF LoopInv
        <5>2. \A i \in Nat : \A o \in 0 .. i : o # 0 => o \in 1 .. i
          OBVIOUS
        <5> QED BY <2>18, <3>1, <5>1, <5>2 DEF Loops, NoLoop
      <4>2. k = holder[holder[l].outLoop].header
        BY <2>4, <2>18, <3>1, <4>1 DEF SameLoop
      <4> QED BY <2>9, <2>18, <3>1, <4>2
    <3>2. CASE /\ l = loop[b] /\ holder[l].header # h
               /\ holder[l].outLoop = NoLoop /\ holder'[l].outLoop = current
      <4>1. k = h /\ loop[b] # NoLoop
        BY <2>3, <2>4, <2>18, <3>2 DEF SameLoop, Loops, NoLoop
      <4>2. b \in Reachable
        <5>1. "black" \notin color[b]
          BY <2>4, <3>2, <2>3
        <5> QED BY <2>8, <4>1, <5>1
      <4>3. Inner({}, x, b)
        BY <2>8, <2>18, <3>2, <4>1, <4>2
      <4>4. x \in Headers /\ In(x, b) /\ Dominates(h, x) /\ x # h /\ In(h, b)
        BY <2>10, <2>11, <2>18, <3>2, <4>2, <4>3 DEF Inner
      <4>5. x \in Reachable
        BY <2>3, <4>4
      <4>6. In(h, x)
        <5>1. \A y \in Reachable : In(x, y) => In(h, y)
          BY <2>3, <2>10, <4>2, <4>4, LoopsNest
        <5>2. In(x, x)
          BY DEF In
        <5> QED BY <4>5, <5>1, <5>2
      <4>7. \A j \in Headers \ {x} : In(j, x) => ~IsDone(j)
        BY <2>9, <2>18, <3>2
      <4>8. order[1] \in Headers \ {x} /\ In(order[1], x)
        BY <2>10, <4>4, <4>6 DEF h
      <4>9. Inner({x}, order[1], x)
        <5> DEFINE X == {x}
        <5>1. /\ order[1] \in Headers \ X
              /\ \A j \in Headers \ X : In(j, x) => ~IsDone(j)
          BY <4>7, <4>8
        <5> HIDE DEF X
        <5>2. Inner(X, order[1], x)
          BY <1>1, <2>3, <4>5, <4>8, <5>1, SearchedIsInner
        <5> QED BY <5>2 DEF X
      <4> QED BY <4>1, <4>9 DEF h
    <3> QED BY <2>3, <2>4, <3>1, <3>2
  <2>19. NestNat'
    <3>1. \A l \in Loops : /\ holder'[l].header = holder[l].header
                           /\ holder[l].outLoop # NoLoop => holder'[l].outLoop # NoLoop
      BY <2>3, <2>4 DEF SameLoop
    <3>2. \A l \in Loops, x \in Blocks : x = holder[l].header =>
            \A k \in Headers \ {x} : In(k, x) /\ IsDone(k) => holder'[l].outLoop # NoLoop
      BY <2>9, <3>1
    <3>3. \A l \in Loops', x \in Blocks : x = holder'[l].header =>
            /\ \A k \in Blocks : /\ holder'[l].outLoop # NoLoop
                                 /\ k = holder'[holder'[l].outLoop].header
                                 => Inner({x}, k, x)'
            /\ \A k \in Headers' \ {x} : In(k, x)' /\ IsDone(k)' => holder'[l].outLoop # NoLoop
      BY <2>2, <2>4, <2>5, <2>18, <3>1, <3>2
    <3> QED BY <3>3 DEF NestNat
  <2>20. SearchNat'
    <3>1. \A x \in pending' \cap Reachable : In(h, x)
      <4> SUFFICES ASSUME NEW x \in pending' \cap Reachable PROVE In(h, x)
        OBVIOUS
      <4>1. CASE x \in pending
        BY <2>7, <4>1
      <4>2. CASE x \notin pending
        <5>1. "black" \notin color[b] /\ x \in PredsOf({b})
          BY <1>1, <4>2
        <5>2. b # h /\ x \in Blocks /\ b \in SuccSets[x]
          BY <2>3, <5>1
        <5>3. b \in Reachable
          BY <2>3, <5>2
        <5> QED BY <2>11, <5>2, <5>3, InBefore
      <4> QED BY <4>1, <4>2
    <3>2. \A a \in Blocks : a \in pending \/ "black" \in color[a]
                              => a \in pending' \/ "black" \in color'[a]
      BY <1>1, <2>12
    <3>3. ASSUME NEW x \in Reachable, "black" \in color'[x]
          PROVE  /\ In(h, x) /\ loop'[x] # NoLoop
                 /\ x # h => \A a \in PredsOf({x}) : a \in pending' \/ "black" \in color'[a]
                 /\ x # h /\ x \in Headers => holder'[loop'[x]].outLoop # NoLoop
      <4>0. x \in Blocks /\ PredsOf({x}) \subseteq Blocks
        BY <2>3 DEF PredsOf
      <4>1. CASE "black" \in color[x]
        <5>1. /\ In(h, x) /\ loop[x] # NoLoop
              /\ x # h => \A a \in PredsOf({x}) : a \in pending \/ "black" \in color[a]
              /\ x # h /\ x \in Headers => holder[loop[x]].outLoop # NoLoop
          BY <2>7, <4>1
        <5>2. loop'[x] = loop[x] /\ loop[x] \in Loops
          BY <2>3, <2>4, <4>0, <5>1
        <5>3. holder[loop[x]].outLoop # NoLoop => holder'[loop[x]].outLoop # NoLoop
          BY <2>4, <5>2
        <5> QED BY <3>2, <4>0, <5>1, <5>2, <5>3
      <4>2. CASE "black" \notin color[x]
        <5>1. x = b
          BY <2>12, <3>3, <4>0, <4>2
        <5>2. In(h, x) /\ loop'[x] # NoLoop
          BY <2>4, <2>11, <4>2, <5>1
        <5>3. \A a \in PredsOf({x}) : a \in pending' \/ "black" \in color'[a]
          BY <1>1, <4>2, <5>1
        <5>4. x # h /\ x \in Headers => holder'[loop'[x]].outLoop # NoLoop
          <6> SUFFICES ASSUME x # h, x \in Headers PROVE holder'[loop'[x]].outLoop # NoLoop
            OBVIOUS
          <6>1. loop[x] # NoLoop /\ holder[loop[x]].header = x
            BY <2>6
          <6>2. loop'[x] = loop[x]
            BY <2>4, <4>0, <5>1, <6>1
          <6> QED BY <2>3, <2>4, <4>2, <5>1, <6>1, <6>2
        <5> QED BY <5>2, <5>3, <5>4
      <4> QED BY <4>1, <4>2
    <3>4. \A a \in Latches(h) : a \in pending' \/ "black" \in color'[a]
      <4>1. Latches(h) \subseteq Blocks
        BY <2>3, LatchFacts
      <4> QED BY <2>7, <3>2, <4>1
    <3>5. \A k \in Blocks : k = holder'[current'].header => k = h
      BY <1>1, <2>3, <2>4 DEF SameLoop
    <3>6. \A x : PredsOf({x})' = PredsOf({x})
      BY <1>1 DEF PredsOf
    <3>7. \A x \in pending' \cap Reachable' : In(h, x)
      BY <2>2, <3>1
    <3> SUFFICES ASSUME NEW k \in Blocks, k = holder'[current'].header
                 PROVE  (/\ \A x \in pending \cap Reachable : In(k, x)
                         /\ \A x \in Reachable : "black" \in color[x] =>
                              /\ In(k, x) /\ loop[x] # NoLoop
                              /\ x # k => \A a \in PredsOf({x}) : a \in pending \/ "black" \in color[a]
                              /\ x # k /\ x \in Headers => holder[loop[x]].outLoop # NoLoop
                         /\ \A a \in Latches(k) : a \in pending \/ "black" \in color[a])'
      BY DEF SearchNat
    <3>8. k = h
      BY <3>5
    <3>9. \A x \in pending' \cap Reachable' : In(k, x)'
      BY <2>2, <3>7, <3>8
    <3>10. \A x \in Reachable' : "black" \in color'[x] =>
             /\ In(k, x)' /\ loop'[x] # NoLoop
             /\ x # k => \A a \in PredsOf({x})' : a \in pending' \/ "black" \in color'[a]
             /\ x # k /\ x \in Headers' => holder'[loop'[x]].outLoop # NoLoop
      BY <2>2, <3>3, <3>6, <3>8
    <3>11. \A a \in Latches(k)' : a \in pending' \/ "black" \in color'[a]
      BY <2>2, <3>4, <3>8
    <3> QED BY <3>9, <3>10, <3>11
  <2> QED BY <1>1, <2>4, <2>14, <2>15, <2>17, <2>19, <2>20 DEF LoopsInv, CollectNat, CleanNat, TreeNat
<1> QED BY <1>2, <1>3 DEF NatInv

-----------------------------------------------------------------------------
(***************************************************************************)
(* The root loop.  A new root in front of the old one changes nothing for  *)
(* the blocks that were reachable, and is in no natural loop.              *)
(***************************************************************************)
\* Edges that agree on a closed set lead to the same blocks from within it.
LEMMA ReachAgrees ==
  ASSUME NEW e, NEW f, NEW S \in SUBSET Blocks, NEW b \in S, Closed(e, S),
         \A x \in S : f[x] = e[x]
  PROVE  Reach(f, b) = Reach(e, b)
<1>1. Closed(f, S)
  BY DEF Closed
<1>2. Reach(e, b) \subseteq S /\ Reach(f, b) \subseteq S
  BY <1>1, ReachLeast
<1>3. b \in Reach(e, b) /\ b \in Reach(f, b)
  BY ReachSelf
<1>4. Closed(e, Reach(f, b))
  <2> SUFFICES ASSUME NEW x \in Reach(f, b), NEW y \in e[x] PROVE y \in Reach(f, b)
    BY DEF Closed
  <2>1. y \in f[x] /\ y \in Blocks
    BY <1>2 DEF Closed
  <2> QED BY <2>1, ReachStep
<1>5. Closed(f, Reach(e, b))
  <2> SUFFICES ASSUME NEW x \in Reach(e, b), NEW y \in f[x] PROVE y \in Reach(e, b)
    BY DEF Closed
  <2>1. y \in e[x] /\ y \in Blocks
    BY <1>2 DEF Closed
  <2> QED BY <2>1, ReachStep
<1>6. Reach(e, b) \in SUBSET Blocks /\ Reach(f, b) \in SUBSET Blocks
  BY ReachBlocks
<1>7. Reach(e, b) \subseteq Reach(f, b)
  BY <1>3, <1>4, <1>6, ReachLeast
<1>8. Reach(f, b) \subseteq Reach(e, b)
  BY <1>3, <1>5, <1>6, ReachLeast
<1> QED BY <1>7, <1>8

LEMMA NewRootGraph ==
  ASSUME LoopInv, NatInv, pc = "populate", MoveRoot(PreHeader)
  PROVE  /\ root' = PreHeader /\ PreHeader \in Blocks /\ PreHeader \notin Reachable
         /\ root \in Reachable /\ Reachable \subseteq Blocks
         /\ \A x \in Reachable : SuccSets'[x] = SuccSets[x]
         /\ SuccSets'[PreHeader] = {root}
         /\ Reachable' = Reachable \cup {PreHeader}
         /\ \A x \in Blocks, h \in Reachable : x # PreHeader =>
              (x \in PredsOf({h})' <=> x \in PredsOf({h}))
         /\ \A x \in Reachable' : x \notin PredsOf({PreHeader})'
         /\ MirrorInv'
<1>1. /\ root' = PreHeader /\ PreHeader \in Blocks /\ root \in Blocks
      /\ succs' = [succs EXCEPT ![PreHeader][root] = @ + 1]
      /\ preds' = [preds EXCEPT ![root][PreHeader] = @ + 1]
  BY EndsAssumption DEF MoveRoot, LinkEdge, LoopInv, TypeInv
<1>2. /\ succs \in [Blocks -> [Blocks -> Nat]] /\ preds \in [Blocks -> [Blocks -> Nat]]
      /\ \A a, b \in Blocks : preds[b][a] = succs[a][b]
      /\ \A b \in Blocks : succs[b][PreHeader] = 0 /\ succs[PreHeader][b] = 0
  BY DEF LoopInv, EdgesInv, NatInv, PreHeaderInv
<1>3. PreHeader \notin Reachable
  BY PreHeaderUnreached DEF LoopInv
<1>4. root \in Reachable /\ Reachable \subseteq Blocks
  BY <1>1, ReachableFacts
<1>5. \A a, b \in Blocks :
        succs'[a][b] = IF a = PreHeader /\ b = root THEN succs[a][b] + 1 ELSE succs[a][b]
  BY <1>1, <1>2
<1>6. \A a, b \in Blocks :
        preds'[b][a] = IF a = PreHeader /\ b = root THEN preds[b][a] + 1 ELSE preds[b][a]
  BY <1>1, <1>2
<1>7. \A x, y \in Blocks : y \in SuccSets'[x] <=> succs'[x][y] > 0
  BY DEF SuccSets, SuccsOf
<1>8. \A x \in Blocks : SuccSets'[x] \subseteq Blocks
  BY DEF SuccSets, SuccsOf
<1>9. \A x \in Reachable : SuccSets'[x] = SuccSets[x]
  <2> SUFFICES ASSUME NEW x \in Reachable PROVE SuccSets'[x] = SuccSets[x]
    OBVIOUS
  <2>1. x \in Blocks /\ x # PreHeader
    BY <1>3, <1>4
  <2>2. \A y \in Blocks : y \in SuccSets'[x] <=> y \in SuccSets[x]
    BY <1>5, <1>7, <2>1, SuccFacts
  <2> QED BY <1>8, <2>1, <2>2, SuccFacts
<1>10. SuccSets'[PreHeader] = {root}
  <2>1. \A y \in Blocks : succs'[PreHeader][y] = IF y = root THEN 1 ELSE 0
    BY <1>1, <1>2, <1>5
  <2>2. \A y \in Blocks : succs'[PreHeader][y] > 0 <=> y = root
    BY <2>1
  <2>3. \A y \in Blocks : y \in SuccSets'[PreHeader] <=> y = root
    BY <1>1, <1>7, <2>2
  <2> QED BY <1>1, <1>8, <2>3
<1>11. Reachable' = Reachable \cup {PreHeader}
  <2> DEFINE S == Reachable \cup {PreHeader}
  <2>1. S \in SUBSET Blocks /\ PreHeader \in S
    BY <1>1, <1>4
  <2>2. Closed(SuccSets', S)
    BY <1>1, <1>4, <1>9, <1>10, ReachableFacts DEF Closed
  <2> HIDE DEF S
  <2>3. Reach(SuccSets', PreHeader) \subseteq S
    BY <2>1, <2>2, ReachLeast
  <2>4. PreHeader \in Reach(SuccSets', PreHeader)
    BY <1>1, ReachSelf
  <2>5. Reachable \subseteq Reachable'
    BY NewRootReaches DEF LoopInv
  <2>6. Reachable' = Reach(SuccSets', PreHeader)
    BY <1>1 DEF Reachable
  <2> QED BY <2>3, <2>4, <2>5, <2>6 DEF S
<1>12. \A x, y \in Blocks : x \in PredsOf({y})' <=> preds'[y][x] > 0
  BY DEF PredsOf
<1>13. \A x, y \in Blocks : x \in PredsOf({y}) <=> preds[y][x] > 0
  BY DEF PredsOf
<1>14. \A x \in Blocks, h \in Reachable : x # PreHeader =>
         (x \in PredsOf({h})' <=> x \in PredsOf({h}))
  <2> SUFFICES ASSUME NEW x \in Blocks, NEW h \in Reachable, x # PreHeader
               PROVE  x \in PredsOf({h})' <=> x \in PredsOf({h})
    OBVIOUS
  <2>1. h \in Blocks /\ preds'[h][x] = preds[h][x]
    BY <1>4, <1>6
  <2> QED BY <1>12, <1>13, <2>1
<1>15. \A x \in Reachable' : x \notin PredsOf({PreHeader})'
  <2> SUFFICES ASSUME NEW x \in Reachable' PROVE x \notin PredsOf({PreHeader})'
    OBVIOUS
  <2>1. x \in Blocks /\ PreHeader # root
    BY <1>1, <1>3, <1>4, <1>11
  <2>2. preds'[PreHeader][x] = 0
    BY <1>1, <1>2, <1>6, <2>1
  <2> QED BY <1>1, <1>12, <2>1, <2>2
<1>16. MirrorInv'
  <2> SUFFICES ASSUME NEW a \in Blocks, NEW b \in Blocks
               PROVE  preds'[b][a] = succs'[a][b]
    BY DEF MirrorInv
  <2>1. preds[b][a] = succs[a][b]
    BY <1>2
  <2> QED BY <1>5, <1>6, <2>1
<1> QED BY <1>1, <1>3, <1>4, <1>9, <1>10, <1>11, <1>14, <1>15, <1>16

LEMMA NewRootPaths ==
  ASSUME LoopInv, NatInv, pc = "populate", MoveRoot(PreHeader)
  PROVE  /\ \A h \in Blocks, b \in Reachable : Reach(Without(h)', b) = Reach(Without(h), b)
         /\ \A h \in Reachable, b \in Reachable : Dominates(h, b)' <=> Dominates(h, b)
         /\ \A h \in Reachable : PreHeader \in Avoiding(h)'
         /\ \A h \in Reachable, b \in Reachable :
              Dominates(h, b) /\ b # h => b \notin Reach(Without(h)', PreHeader)
<1>1. /\ root' = PreHeader /\ PreHeader \in Blocks /\ PreHeader \notin Reachable
      /\ root \in Reachable /\ Reachable \subseteq Blocks
      /\ \A x \in Reachable : SuccSets'[x] = SuccSets[x]
      /\ SuccSets'[PreHeader] = {root}
      /\ Reachable' = Reachable \cup {PreHeader}
  BY NewRootGraph
<1>2. \A h : \A x \in Blocks : Without(h)'[x] = SuccSets'[x] \ {h}
  BY DEF Without
<1>3. \A h : \A x \in Blocks : Without(h)[x] = SuccSets[x] \ {h}
  BY DEF Without
<1>4. \A h : Closed(Without(h), Reachable)
  BY <1>1, <1>3, ReachableFacts DEF Closed
<1>5. ASSUME NEW h, NEW x \in Reachable PROVE Without(h)'[x] = Without(h)[x]
  <2>1. x \in Blocks /\ SuccSets'[x] = SuccSets[x]
    BY <1>1
  <2>2. Without(h)'[x] = SuccSets'[x] \ {h}
    BY <2>1 DEF Without
  <2>3. Without(h)[x] = SuccSets[x] \ {h}
    BY <2>1 DEF Without
  <2> QED BY <2>1, <2>2, <2>3
<1>6. ASSUME NEW h \in Blocks, NEW b \in Reachable
      PROVE  Reach(Without(h)', b) = Reach(Without(h), b)
  BY <1>1, <1>4, <1>5, ReachAgrees
<1>7. ASSUME NEW h \in Reachable
      PROVE  /\ h = root => Reach(Without(h)', PreHeader) = {PreHeader}
             /\ h # root => Reach(Without(h)', PreHeader) = {PreHeader} \cup Reach(Without(h), root)
  <2> DEFINE W == Without(h)'
             P == Reach(W, PreHeader)
  <2>1. PreHeader \in P /\ P \subseteq Blocks
    BY <1>1, ReachSelf, ReachBlocks
  <2>2. h = root => P \subseteq {PreHeader}
    <3> SUFFICES ASSUME h = root PROVE P \subseteq {PreHeader}
      OBVIOUS
    <3>1. W[PreHeader] = {}
      BY <1>1, <1>2
    <3> HIDE DEF W
    <3>2. Closed(W, {PreHeader})
      BY <3>1 DEF Closed
    <3> QED BY <1>1, <3>2, ReachLeast
  <2>3. h # root => P = {PreHeader} \cup Reach(Without(h), root)
    <3> SUFFICES ASSUME h # root PROVE P = {PreHeader} \cup Reach(Without(h), root)
      OBVIOUS
    <3>1. W[PreHeader] = {root} /\ root \in Blocks
      BY <1>1, <1>2
    <3>2. Reach(W, root) = Reach(Without(h), root)
      BY <1>1, <1>6
    <3> HIDE DEF W
    <3> DEFINE Q == Reach(W, root)
    <3>3. Q \subseteq Blocks /\ root \in Q
      BY <3>1, ReachBlocks, ReachSelf
    <3>4. \A x \in Q : \A y \in W[x] : y \in Blocks => y \in Q
      BY ReachStep
    <3>5. \A x \in Q : W[x] \subseteq Blocks
      <4>1. \A x \in Blocks : SuccSets'[x] \subseteq Blocks
        BY DEF SuccSets, SuccsOf
      <4> QED BY <1>2, <3>3, <4>1 DEF W
    <3>6. Closed(W, {PreHeader} \cup Q)
      BY <3>1, <3>3, <3>4, <3>5 DEF Closed
    <3>7. P \subseteq {PreHeader} \cup Q
      <4> HIDE DEF Q
      <4> DEFINE T == {PreHeader} \cup Q
      <4>1. T \in SUBSET Blocks /\ PreHeader \in T /\ Closed(W, T)
        BY <1>1, <3>3, <3>6
      <4> HIDE DEF T
      <4>2. P \subseteq T
        BY <4>1, ReachLeast
      <4> QED BY <4>2 DEF T
    <3>8. Q \subseteq P
      <4>1. root \in P
        BY <2>1, <3>1, ReachStep
      <4>2. \A x \in P : W[x] \subseteq Blocks
        <5>1. \A x \in Blocks : SuccSets'[x] \subseteq Blocks
          BY DEF SuccSets, SuccsOf
        <5> QED BY <1>2, <2>1, <5>1 DEF W
      <4>3. Closed(W, P)
        BY <4>2, ReachStep DEF Closed
      <4> HIDE DEF P
      <4> QED BY <2>1, <4>1, <4>3, ReachLeast
    <3> QED BY <2>1, <3>2, <3>7, <3>8
  <2> QED BY <2>1, <2>2, <2>3
<1>8. \A h \in Reachable : h # PreHeader /\ Avoiding(h)' = Reach(Without(h)', PreHeader) \ {h}
  BY <1>1 DEF Avoiding
<1>9. ASSUME NEW h \in Reachable, NEW b \in Reachable
      PROVE  Dominates(h, b)' <=> Dominates(h, b)
  <2>1. b # PreHeader
    BY <1>1
  <2>2. CASE h = root
    BY <1>7, <1>8, <2>1, <2>2 DEF Dominates, Avoiding
  <2>3. CASE h # root
    <3>1. b \in Avoiding(h)' <=> b \in Avoiding(h)
      BY <1>7, <1>8, <2>1, <2>3 DEF Avoiding
    <3> QED BY <3>1 DEF Dominates
  <2> QED BY <2>2, <2>3
<1>10. \A h \in Reachable : PreHeader \in Avoiding(h)'
  BY <1>1, <1>8, ReachSelf
<1>11. ASSUME NEW h \in Reachable, NEW b \in Reachable, Dominates(h, b), b # h
       PROVE  b \notin Reach(Without(h)', PreHeader)
  BY <1>8, <1>9, <1>11 DEF Dominates
<1> QED BY <1>6, <1>9, <1>10, <1>11

LEMMA NewRootNat ==
  ASSUME LoopInv, NatInv, pc = "populate", MoveRoot(PreHeader), UNCHANGED doms
  PROVE  /\ Headers' = Headers
         /\ \A h \in Headers, b \in Reachable : In(h, b)' <=> In(h, b)
         /\ \A h \in Headers : ~In(h, PreHeader)'
         /\ \A X, h, b : b \in Reachable /\ Inner(X, h, b) => Inner(X, h, b)'
         /\ Structured' => Structured
<1>1. /\ root' = PreHeader /\ PreHeader \in Blocks /\ PreHeader \notin Reachable
      /\ root \in Reachable /\ Reachable \subseteq Blocks
      /\ \A x \in Reachable : SuccSets'[x] = SuccSets[x]
      /\ Reachable' = Reachable \cup {PreHeader}
      /\ \A x \in Blocks, h \in Reachable : x # PreHeader =>
           (x \in PredsOf({h})' <=> x \in PredsOf({h}))
      /\ \A x \in Reachable' : x \notin PredsOf({PreHeader})'
      /\ MirrorInv
  BY NewRootGraph DEF NatInv
<1>2. /\ \A h \in Blocks, b \in Reachable : Reach(Without(h)', b) = Reach(Without(h), b)
      /\ \A h \in Reachable, b \in Reachable : Dominates(h, b)' <=> Dominates(h, b)
      /\ \A h \in Reachable : PreHeader \in Avoiding(h)'
      /\ \A h \in Reachable, b \in Reachable :
           Dominates(h, b) /\ b # h => b \notin Reach(Without(h)', PreHeader)
  BY NewRootPaths
<1>3. ASSUME NEW h \in Reachable PROVE Latches(h)' = Latches(h)
  <2>1. \A x : x \in Latches(h)' <=> x \in PredsOf({h})' /\ x \in Reachable' /\ Dominates(h, x)'
    BY DEF Latches
  <2>2. \A x : x \in Latches(h) <=> x \in PredsOf({h}) /\ x \in Reachable /\ Dominates(h, x)
    BY DEF Latches
  <2>3. ~Dominates(h, PreHeader)'
    BY <1>1, <1>2 DEF Dominates
  <2>4. \A x \in Reachable : x \in Latches(h)' <=> x \in Latches(h)
    BY <1>1, <1>2, <2>1, <2>2
  <2>5. \A x : x \in Latches(h)' => x \in Reachable
    BY <1>1, <2>1, <2>3
  <2>6. \A x : x \in Latches(h) => x \in Reachable
    BY <2>2
  <2> QED BY <2>4, <2>5, <2>6
<1>4. Latches(PreHeader)' = {}
  BY <1>1 DEF Latches
<1>5. Headers' = Headers
  <2>1. \A h : h \in Headers' <=> h \in Reachable' /\ Latches(h)' # {}
    BY DEF Headers
  <2>2. \A h : h \in Headers <=> h \in Reachable /\ Latches(h) # {}
    BY DEF Headers
  <2> QED BY <1>1, <1>3, <1>4, <2>1, <2>2
<1>6. Headers \subseteq Reachable
  BY DEF Headers
<1>7. ASSUME NEW h \in Headers, NEW b \in Reachable PROVE In(h, b)' <=> In(h, b)
  <2>1. h \in Blocks /\ h \in Reachable
    BY <1>1, <1>6
  <2>2. Latches(h)' = Latches(h) /\ Reach(Without(h)', b) = Reach(Without(h), b)
    BY <1>2, <1>3, <2>1
  <2> QED BY <2>2 DEF In
<1>8. ASSUME NEW h \in Headers, In(h, PreHeader)' PROVE FALSE
  <2>1. h \in Reachable /\ h # PreHeader /\ h \in Blocks
    BY <1>1, <1>6
  <2>2. PICK t \in Latches(h) : t \in Reach(Without(h)', PreHeader)
    BY <1>3, <1>8, <2>1 DEF In
  <2>3. t \in Reachable /\ Dominates(h, t)
    BY DEF Latches
  <2>4. t = h
    BY <1>2, <2>1, <2>2, <2>3
  <2> DEFINE W == Without(h)'
             S == Blocks \ {h}
  <2>5. S \in SUBSET Blocks /\ PreHeader \in S
    BY <1>1, <2>1
  <2>6. Closed(W, S)
    <3>1. \A x \in Blocks : W[x] \subseteq S
      BY DEF Without, SuccSets, SuccsOf
    <3> QED BY <3>1 DEF Closed
  <2> HIDE DEF W, S
  <2>7. Reach(W, PreHeader) \subseteq S
    BY <2>5, <2>6, ReachLeast
  <2> QED BY <2>2, <2>4, <2>7 DEF W, S
<1>9. ASSUME NEW X, NEW h, NEW b \in Reachable, Inner(X, h, b) PROVE Inner(X, h, b)'
  <2>1. /\ h \in Headers \ X /\ In(h, b)
        /\ \A k \in Headers \ X : In(k, b) => Dominates(k, h)
    BY <1>9 DEF Inner
  <2>2. h \in Headers' \ X /\ In(h, b)'
    BY <1>5, <1>7, <2>1
  <2>3. \A k \in Headers' \ X : In(k, b)' => Dominates(k, h)'
    BY <1>2, <1>5, <1>6, <1>7, <2>1
  <2> QED BY <2>2, <2>3 DEF Inner
<1>10. ASSUME Structured' PROVE Structured
  <2>1. \A b \in Blocks : doms[b] # {} => b \in Reachable
    BY DEF NatInv, DomsExact
  <2> SUFFICES ASSUME NEW S \in SUBSET {b \in Blocks : doms[b] # {}}, S # {}
               PROVE  \E b \in S : {s \in SuccSets[b] : ~IsDominatedBy(b, s)} \cap S = {}
    BY DEF Structured
  <2>2. PICK b \in S : {s \in SuccSets'[b] : s \notin doms[b]} \cap S = {}
    BY <1>10 DEF Structured, IsDominatedBy
  <2>3. SuccSets'[b] = SuccSets[b]
    BY <1>1, <2>1
  <2> QED BY <2>2, <2>3 DEF IsDominatedBy
<1> QED BY <1>5, <1>7, <1>8, <1>9, <1>10

\* When the walk is over, every header is done.
LEMMA AllDone ==
  ASSUME TypeInv, NatInv, Structured, pc = "populate", order = << >>
  PROVE  /\ ListedInv /\ loop[PreHeader] = NoLoop
         /\ \A l \in Loops : loop[holder[l].header] = l /\ holder[l].header \in Headers
         /\ \A h \in Headers : loop[h] # NoLoop /\ holder[loop[h]].header = h
         /\ \A b \in Reachable :
              IF loop[b] = NoLoop THEN \A h \in Headers : ~In(h, b)
              ELSE \A h \in Blocks : h = holder[loop[b]].header => Inner({}, h, b)
         /\ \A l \in Loops, b \in Blocks :
              b = holder[l].header =>
                IF holder[l].outLoop = NoLoop THEN \A h \in Headers \ {b} : ~In(h, b)
                ELSE \A h \in Blocks : h = holder[holder[l].outLoop].header => Inner({b}, h, b)
<1>1. ListedInv /\ PreHeaderNat /\ LoopsNat /\ BlocksNat /\ NestNat
  BY DEF NatInv, LoopsInv
<1>2. \A h : IsDone(h)
  BY EmptySeq DEF IsDone, Positions
<1>3. loop[PreHeader] = NoLoop
  BY <1>1 DEF PreHeaderNat
<1>4. /\ \A l \in Loops : loop[holder[l].header] = l
      /\ \A l \in Loops, h \in Blocks : h = holder[l].header => h \in Headers
      /\ \A h \in Headers : loop[h] # NoLoop /\ holder[loop[h]].header = h
  BY <1>1 DEF LoopsNat
<1>5. \A b \in Reachable :
        IF loop[b] = NoLoop THEN \A h \in Headers : ~In(h, b)
        ELSE \A h \in Blocks : h = holder[loop[b]].header => Inner({}, h, b)
  BY <1>1, <1>2 DEF BlocksNat
<1>6. \A l \in Loops, b \in Blocks :
        b = holder[l].header =>
          IF holder[l].outLoop = NoLoop THEN \A h \in Headers \ {b} : ~In(h, b)
          ELSE \A h \in Blocks : h = holder[holder[l].outLoop].header => Inner({b}, h, b)
  BY <1>1, <1>2 DEF NestNat
<1>7. \A l \in Loops : holder[l].header \in Blocks
  BY LoopFacts
<1> QED BY <1>1, <1>3, <1>4, <1>5, <1>6, <1>7

LEMMA CreateRootLoopNat ==
  ASSUME LoopInv, NatInv, LoopInv', CreateRootLoop
  PROVE  NatInv'
<1> DEFINE n == Len(holder)
           r == [NewLoop(root') EXCEPT !.isRoot = TRUE]
<1>1. /\ pc = "populate" /\ pc' = "tree" /\ order = << >>
      /\ \/ loop[root] # NoLoop /\ MoveRoot(PreHeader)
         \/ loop[root] = NoLoop /\ UNCHANGED <<succs, preds, root>>
      /\ holder' = Append(holder, r)
      /\ loop' = [loop EXCEPT ![root'] = Len(holder')]
      /\ current' = Len(holder')
      /\ UNCHANGED <<doms, order, pending>>
  BY DEF CreateRootLoop, vars
<1>2. MirrorInv'
  <2>1. CASE MoveRoot(PreHeader)
    BY <1>1, <2>1, NewRootGraph
  <2>2. CASE UNCHANGED <<succs, preds, root>>
    BY <2>2, SameNat DEF NatInv
  <2> QED BY <1>1, <2>1, <2>2
<1>3. DomsExact' /\ PreHeaderInv' /\ LoopsAreNatural' /\ LoopTreeIsNesting'
  BY <1>1 DEF DomsExact, PreHeaderInv, LoopsAreNatural, LoopTreeIsNesting, Done
<1>4. ASSUME Structured' PROVE LoopsInv'
  <2>1. /\ Structured /\ Headers' = Headers /\ Headers \subseteq Reachable
        /\ root' \in Blocks /\ Reachable \subseteq Blocks /\ Reachable' = Reachable \cup {root'}
        /\ root' \notin Headers /\ loop[root'] = NoLoop
        /\ \A h \in Headers : \A b : b = root' => ~In(h, b)'
        /\ \A h \in Headers, b \in Reachable : In(h, b)' <=> In(h, b)
        /\ \A X, h, b : b \in Reachable /\ Inner(X, h, b) => Inner(X, h, b)'
    <3>1. TypeInv /\ root \in Reachable /\ Reachable \subseteq Blocks /\ Headers \subseteq Reachable
      BY ReachableFacts DEF LoopInv, TypeInv, Headers
    <3>2. CASE loop[root] # NoLoop /\ MoveRoot(PreHeader)
      <4>1. /\ root' = PreHeader /\ PreHeader \in Blocks /\ PreHeader \notin Reachable
            /\ Reachable' = Reachable \cup {PreHeader}
        BY <1>1, <3>2, NewRootGraph
      <4>2. /\ Headers' = Headers
            /\ \A h \in Headers, b \in Reachable : In(h, b)' <=> In(h, b)
            /\ \A h \in Headers : ~In(h, PreHeader)'
            /\ \A X, h, b : b \in Reachable /\ Inner(X, h, b) => Inner(X, h, b)'
            /\ Structured
        BY <1>1, <1>4, <3>2, NewRootNat
      <4>3. loop[PreHeader] = NoLoop
        BY <1>1, <3>1, <4>2, AllDone
      <4> QED BY <3>1, <4>1, <4>2, <4>3
    <3>3. CASE loop[root] = NoLoop /\ UNCHANGED <<succs, preds, root>>
      <4>1. /\ Reachable' = Reachable /\ Headers' = Headers
            /\ \A h, b : In(h, b)' <=> In(h, b)
            /\ \A X, h, b : Inner(X, h, b)' <=> Inner(X, h, b)
        BY <3>3, SameNat
      <4>2. Structured
        BY <1>1, <1>4, <3>3, SameStructure
      <4>3. /\ \A h \in Headers : loop[h] # NoLoop
            /\ \A h \in Headers : ~In(h, root)
        BY <1>1, <3>1, <3>3, <4>2, AllDone
      <4> QED BY <3>1, <3>3, <4>1, <4>2, <4>3
    <3> QED BY <1>1, <3>2, <3>3
  <2>2. /\ ListedInv
        /\ \A l \in Loops : loop[holder[l].header] = l /\ holder[l].header \in Headers
        /\ \A h \in Headers : loop[h] # NoLoop /\ holder[loop[h]].header = h
        /\ \A b \in Reachable :
             IF loop[b] = NoLoop THEN \A h \in Headers : ~In(h, b)
             ELSE \A h \in Blocks : h = holder[loop[b]].header => Inner({}, h, b)
        /\ \A l \in Loops, b \in Blocks :
             b = holder[l].header =>
               IF holder[l].outLoop = NoLoop THEN \A h \in Headers \ {b} : ~In(h, b)
               ELSE \A h \in Blocks : h = holder[holder[l].outLoop].header => Inner({b}, h, b)
    <3>1. TypeInv
      BY DEF LoopInv
    <3> QED BY <1>1, <2>1, <3>1, AllDone
  <2>3. /\ n \in Nat /\ Loops = 1 .. n /\ holder \in Seq(LoopType)
        /\ \A l \in Loops : /\ holder[l].header \in Blocks
                            /\ holder[l].outLoop \in 0 .. n
        /\ \A b \in Blocks : loop[b] \in 0 .. n
    BY LoopFacts DEF LoopInv, TypeInv, Loops
  <2>4. /\ r \in LoopType /\ r.header = root' /\ r.outLoop = NoLoop
        /\ r.blocks = {root'} /\ r.inLoops = {}
    BY <2>1 DEF NewLoop, LoopType, NoLoop
  <2> HIDE DEF r
  <2>5. /\ Len(holder') = n + 1
        /\ \A l \in 1 .. n : holder'[l] = holder[l]
        /\ holder'[n + 1] = r
    BY <1>1, <2>3, <2>4, AppendProperties
  <2>6. /\ Loops' = 1 .. n + 1 /\ current' = n + 1 /\ n + 1 \in Loops' /\ n + 1 # NoLoop
        /\ \A l \in Loops : l \in Loops' /\ l # n + 1
        /\ \A l \in Loops' \ {n + 1} : l \in Loops
        /\ \A l \in 0 .. n : l # n + 1 /\ (l # NoLoop => l \in Loops)
    BY <1>1, <2>3, <2>5 DEF Loops, NoLoop
  <2>7. \A b \in Blocks : loop'[b] = IF b = root' THEN n + 1 ELSE loop[b]
    BY <1>1, <2>5 DEF LoopInv, TypeInv
  <2>8. \A l \in Loops : holder'[l] = holder[l]
    BY <2>3, <2>5
  <2> HIDE DEF n
  <2>9. ListedInv'
    <3>1. /\ \A l \in Loops : \A b \in Blocks : b \in holder[l].blocks <=> loop[b] = l
          /\ \A l \in Loops : holder[l].inLoops \subseteq Loops
          /\ \A l, m \in Loops : m \in holder[l].inLoops <=> holder[m].outLoop = l
      BY <2>2 DEF ListedInv
    <3>2. ASSUME NEW l \in Loops', NEW b \in Blocks
          PROVE  b \in holder'[l].blocks <=> loop'[b] = l
      <4>1. CASE l = n + 1
        <5>1. b \in holder'[l].blocks <=> b = root'
          BY <2>4, <2>5, <4>1
        <5>2. loop[b] # n + 1
          BY <2>3, <2>6
        <5> QED BY <2>7, <4>1, <5>1, <5>2
      <4>2. CASE l \in Loops
        <5>1. b \in holder'[l].blocks <=> loop[b] = l
          BY <2>8, <3>1, <4>2
        <5>2. l # n + 1 /\ l # NoLoop
          BY <2>3, <2>6, <4>2 DEF NoLoop
        <5>3. loop[root'] # l
          BY <2>1, <5>2
        <5> QED BY <2>7, <5>1, <5>2, <5>3
      <4> QED BY <2>6, <4>1, <4>2
    <3>3. \A l \in Loops' : holder'[l].inLoops \subseteq Loops'
      <4> SUFFICES ASSUME NEW l \in Loops' PROVE holder'[l].inLoops \subseteq Loops'
        OBVIOUS
      <4>1. CASE l = n + 1
        BY <2>4, <2>5, <4>1
      <4>2. CASE l \in Loops
        BY <2>6, <2>8, <3>1, <4>2
      <4> QED BY <2>6, <4>1, <4>2
    <3>4. ASSUME NEW l \in Loops', NEW m \in Loops'
          PROVE  m \in holder'[l].inLoops <=> holder'[m].outLoop = l
      <4>1. l # NoLoop
        BY <2>3, <2>6 DEF NoLoop
      <4>2. CASE m = n + 1
        <5>1. holder'[m].outLoop # l
          BY <2>4, <2>5, <4>1, <4>2
        <5>2. m \notin holder'[l].inLoops
          <6>1. CASE l = n + 1
            BY <2>4, <2>5, <6>1
          <6>2. CASE l \in Loops
            BY <2>6, <2>8, <3>1, <4>2, <6>2
          <6> QED BY <2>6, <6>1, <6>2
        <5> QED BY <5>1, <5>2
      <4>3. CASE m \in Loops
        <5>1. CASE l = n + 1
          <6>1. m \notin holder'[l].inLoops
            BY <2>4, <2>5, <5>1
          <6>2. holder'[m].outLoop # l
            BY <2>3, <2>6, <2>8, <4>3, <5>1
          <6> QED BY <6>1, <6>2
        <5>2. CASE l \in Loops
          BY <2>8, <3>1, <4>3, <5>2
        <5> QED BY <2>6, <5>1, <5>2
      <4> QED BY <2>6, <4>2, <4>3
    <3> QED BY <3>2, <3>3, <3>4, Zenon DEF ListedInv
  <2>10. TreeNat'
    <3>1. /\ current' \in Loops' /\ holder'[current'].header = root' /\ loop'[root'] = current'
          /\ holder'[current'].outLoop = NoLoop
      BY <2>1, <2>4, <2>5, <2>6, <2>7
    <3>2. \A l \in Loops' \ {current'} : /\ loop'[holder'[l].header] = l
                                         /\ holder'[l].header \in Headers'
      <4> SUFFICES ASSUME NEW l \in Loops' \ {current'}
                   PROVE  loop'[holder'[l].header] = l /\ holder'[l].header \in Headers'
        OBVIOUS
      <4>1. l \in Loops /\ holder'[l] = holder[l]
        BY <2>6, <2>8
      <4>2. loop[holder[l].header] = l /\ holder[l].header \in Headers /\ holder[l].header \in Blocks
        BY <2>2, <2>3, <4>1
      <4> QED BY <2>1, <2>7, <4>1, <4>2
    <3>3. \A h \in Headers' : loop'[h] \in Loops' \ {current'} /\ holder'[loop'[h]].header = h
      <4> SUFFICES ASSUME NEW h \in Headers
                   PROVE  loop'[h] \in Loops' \ {current'} /\ holder'[loop'[h]].header = h
        BY <2>1
      <4>1. h \in Blocks /\ h # root' /\ loop[h] # NoLoop /\ holder[loop[h]].header = h
        BY <2>1, <2>2
      <4>2. loop[h] \in Loops /\ loop'[h] = loop[h]
        BY <2>3, <2>6, <2>7, <4>1
      <4> QED BY <2>6, <2>8, <4>1, <4>2
    <3>4. ASSUME NEW b \in Reachable'
          PROVE  /\ loop'[b] \in {NoLoop, current'} => \A h \in Headers' : ~In(h, b)'
                 /\ loop'[b] \notin {NoLoop, current'} =>
                      \A h \in Blocks : h = holder'[loop'[b]].header => Inner({}, h, b)'
      <4>1. CASE b = root'
        BY <2>1, <2>6, <2>7, <4>1
      <4>2. CASE b # root'
        <5>1. b \in Reachable /\ b \in Blocks
          BY <2>1, <4>2
        <5>2. loop'[b] = loop[b] /\ loop[b] # current' /\ (loop[b] # NoLoop => loop[b] \in Loops)
          BY <2>3, <2>6, <2>7, <4>2, <5>1
        <5>3. CASE loop[b] = NoLoop
          BY <2>1, <2>2, <5>1, <5>2, <5>3
        <5>4. CASE loop[b] # NoLoop
          <6>1. \A h \in Blocks : h = holder[loop[b]].header => Inner({}, h, b)
            BY <2>2, <5>1, <5>4
          <6>2. holder'[loop'[b]] = holder[loop[b]]
            BY <2>8, <5>2, <5>4
          <6> QED BY <2>1, <5>1, <5>2, <5>4, <6>1, <6>2
        <5> QED BY <5>3, <5>4
      <4> QED BY <4>1, <4>2
    <3>5. ASSUME NEW l \in Loops' \ {current'}, NEW b \in Blocks, b = holder'[l].header
          PROVE  /\ holder'[l].outLoop = NoLoop => \A h \in Headers' \ {b} : ~In(h, b)'
                 /\ holder'[l].outLoop # NoLoop =>
                      \A h \in Blocks : h = holder'[holder'[l].outLoop].header => Inner({b}, h, b)'
      <4>1. l \in Loops /\ holder'[l] = holder[l] /\ b = holder[l].header
        BY <2>6, <2>8, <3>5
      <4>2. b \in Reachable
        BY <2>1, <2>2, <4>1
      <4>3. CASE holder[l].outLoop = NoLoop
        BY <2>1, <2>2, <4>1, <4>2, <4>3
      <4>4. CASE holder[l].outLoop # NoLoop
        <5>1. \A h \in Blocks : h = holder[holder[l].outLoop].header => Inner({b}, h, b)
          BY <2>2, <4>1, <4>4
        <5>2. holder'[holder'[l].outLoop] = holder[holder[l].outLoop]
          BY <2>3, <2>6, <2>8, <4>1, <4>4
        <5> QED BY <2>1, <4>1, <4>2, <4>4, <5>1, <5>2
      <4> QED BY <4>3, <4>4
    <3> QED BY <3>1, <3>2, <3>3, <3>4, <3>5, Zenon DEF TreeNat
  <2> QED BY <1>1, <2>9, <2>10 DEF LoopsInv, PreHeaderNat, CollectNat, LoopsNat, BlocksNat, NestNat,
                                  CleanNat, SearchNat
<1> QED BY <1>2, <1>3, <1>4 DEF NatInv

LEMMA NaturalFrame ==
  ASSUME UNCHANGED <<succs, preds, root>>
  PROVE  NaturalLoops' = NaturalLoops
<1>1. Headers' = Headers /\ Reachable' = Reachable /\ \A h : Latches(h)' = Latches(h)
  BY SameNat
<1>2. \A h : Without(h)' = Without(h)
  BY SameNat DEF Without
<1> QED BY <1>1, <1>2 DEF NaturalLoops, NaturalLoop

\* The properties from what they say of the state before and the state after.
LEMMA NaturalAfter ==
  ASSUME UNCHANGED <<succs, preds, root>>,
         \A b \in Reachable :
           /\ holder'[loop'[b]].header = Innermost(NaturalLoops, b)
           /\ \A l \in DOMAIN holder' : b \in holder'[l].blocks <=> l = loop'[b]
  PROVE  LoopsAreNatural'
<1>1. NaturalLoops' = NaturalLoops /\ Reachable' = Reachable
  BY NaturalFrame, SameNat
<1> QED BY <1>1, SMTT(30) DEF LoopsAreNatural, Innermost

LEMMA NestingAfter ==
  ASSUME UNCHANGED <<succs, preds, root>>,
         \A l \in DOMAIN holder' :
           /\ holder'[l].outLoop # NoLoop
           /\ \A h : h = holder'[l].header =>
                holder'[holder'[l].outLoop].header
                  = Innermost({m \in NaturalLoops : m.header # h}, h),
         \A l, m \in DOMAIN holder' : m \in holder'[l].inLoops <=> holder'[m].outLoop = l
  PROVE  LoopTreeIsNesting'
<1>1. NaturalLoops' = NaturalLoops
  BY NaturalFrame
<1>2. ASSUME NEW l \in DOMAIN holder'
      PROVE  /\ holder'[l].outLoop # NoLoop
             /\ holder'[holder'[l].outLoop].header
                  = Innermost({m \in NaturalLoops : m.header # holder'[l].header}, holder'[l].header)
  OBVIOUS
<1> QED BY <1>1, <1>2 DEF LoopTreeIsNesting, Innermost

\* What BuildLoopTree does to the loops, when every loop still has its header.
LEMMA BuildEffects ==
  ASSUME LoopInv, ListedInv, TreeNat, GatherLoops
  PROVE  /\ Loops' = Loops /\ DOMAIN holder = Loops /\ DOMAIN holder' = Loops
         /\ current \in Loops /\ current # NoLoop /\ NoLoop \notin Loops
         /\ \A l \in Loops : holder[l].header \in Reachable
         /\ \A b \in Blocks : loop[b] # NoLoop => loop[b] \in Loops
         /\ \A l \in Loops : holder[l].outLoop # NoLoop => holder[l].outLoop \in Loops
         /\ \A b \in Blocks : loop'[b] = IF b \in Reachable /\ loop[b] = NoLoop THEN current
                                         ELSE loop[b]
         /\ \A l \in Loops :
              /\ holder'[l].header = holder[l].header
              /\ holder'[l].outLoop = IF holder[l].outLoop = NoLoop THEN current
                                      ELSE holder[l].outLoop
              /\ \A m \in Loops : m \in holder'[l].inLoops <=>
                   m \in holder[l].inLoops \/ (l = current /\ holder[m].outLoop = NoLoop)
              /\ holder'[l].inLoops \subseteq Loops
              /\ \A b \in Blocks : b \in holder'[l].blocks <=>
                   b \in holder[l].blocks \/ (l = current /\ b \in Reachable /\ loop[b] = NoLoop)
<1> DEFINE homeless == {b \in Reachable : loop[b] = NoLoop}
           outermost == {l \in {loop[b] : b \in Reachable \ homeless} : holder[l].outLoop = NoLoop}
           r(l) == [holder[l] EXCEPT !.outLoop = IF l \in outermost THEN current ELSE holder[l].outLoop,
                                     !.inLoops = IF l = current THEN holder[l].inLoops \cup outermost
                                                                ELSE holder[l].inLoops,
                                     !.blocks = IF l = current THEN holder[l].blocks \cup homeless
                                                               ELSE holder[l].blocks]
<1>1. /\ pc = "tree"
      /\ loop' = [b \in Blocks |-> IF b \in homeless THEN current ELSE loop[b]]
      /\ holder' = [l \in DOMAIN holder |-> r(l)]
  BY DEF GatherLoops, Homeless, Outermost
<1>2. /\ Len(holder) \in Nat /\ DOMAIN holder = Loops
      /\ \A l \in Loops : /\ holder[l] \in LoopType /\ holder[l].header \in Blocks
                          /\ holder[l].outLoop \in 0 .. Len(holder)
      /\ \A b \in Blocks : loop[b] # NoLoop => loop[b] \in Loops
  BY LoopFacts DEF LoopInv
<1>3. /\ current \in Loops /\ \A l \in Loops : loop[holder[l].header] = l
      /\ \A l \in Loops : holder[l].header \in Reachable
      /\ Reachable \subseteq Blocks
  <2>1. current \in Loops /\ holder[current].header = root /\ loop[root] = current
    BY <1>1 DEF TreeNat
  <2>2. \A l \in Loops \ {current} : loop[holder[l].header] = l
    BY <1>1 DEF TreeNat
  <2>3. \A l \in Loops : holder[l].header \in Reachable
    BY DEF LoopInv, HeaderInv
  <2> QED BY <2>1, <2>2, <2>3, ReachableFacts DEF LoopInv, TypeInv
<1>4. NoLoop \notin Loops /\ \A l \in Loops : holder[l].outLoop # NoLoop => holder[l].outLoop \in Loops
  BY <1>2 DEF Loops, NoLoop
<1>5. \A l : l \in outermost <=> l \in Loops /\ holder[l].outLoop = NoLoop
  BY <1>2, <1>3, <1>4
<1>6. \A b : b \in homeless <=> b \in Reachable /\ loop[b] = NoLoop
  OBVIOUS
<1> HIDE DEF homeless, outermost
<1>7. DOMAIN holder' = Loops
  BY <1>1, <1>2
<1>8. Loops' = Loops
  <2>1. holder' \in Seq(LoopType)
    BY GatherLoopsStep DEF LoopInv, TypeInv
  <2> QED BY <1>7, <2>1, LenProperties DEF Loops
<1>9. ASSUME NEW l \in Loops
      PROVE  /\ r(l).header = holder[l].header
             /\ r(l).outLoop = IF l \in outermost THEN current ELSE holder[l].outLoop
             /\ r(l).inLoops = IF l = current THEN holder[l].inLoops \cup outermost
                                              ELSE holder[l].inLoops
             /\ r(l).blocks = IF l = current THEN holder[l].blocks \cup homeless
                                             ELSE holder[l].blocks
  <2> DEFINE x == IF l \in outermost THEN current ELSE holder[l].outLoop
             y == IF l = current THEN holder[l].inLoops \cup outermost ELSE holder[l].inLoops
             z == IF l = current THEN holder[l].blocks \cup homeless ELSE holder[l].blocks
  <2>1. r(l) = [holder[l] EXCEPT !.outLoop = x, !.inLoops = y, !.blocks = z]
    OBVIOUS
  <2>2. holder[l] \in LoopType
    BY <1>2
  <2> HIDE DEF x, y, z, r
  <2>3. /\ r(l).header = holder[l].header /\ r(l).outLoop = x /\ r(l).inLoops = y
        /\ r(l).blocks = z
    BY <2>1, <2>2 DEF LoopType
  <2> QED BY <2>3 DEF x, y, z
<1> HIDE DEF r
<1>10. \A l \in Loops : holder'[l] = r(l)
  BY <1>1, <1>2
<1>11. \A l \in Loops : holder[l].inLoops \subseteq Loops
  BY DEF ListedInv
<1>12. \A b \in Blocks : loop'[b] = IF b \in Reachable /\ loop[b] = NoLoop THEN current ELSE loop[b]
  BY <1>1, <1>6
<1>13. ASSUME NEW l \in Loops
       PROVE  /\ holder'[l].header = holder[l].header
              /\ holder'[l].outLoop = IF holder[l].outLoop = NoLoop THEN current
                                      ELSE holder[l].outLoop
              /\ \A m \in Loops : m \in holder'[l].inLoops <=>
                   m \in holder[l].inLoops \/ (l = current /\ holder[m].outLoop = NoLoop)
              /\ holder'[l].inLoops \subseteq Loops
              /\ \A b \in Blocks : b \in holder'[l].blocks <=>
                   b \in holder[l].blocks \/ (l = current /\ b \in Reachable /\ loop[b] = NoLoop)
  BY <1>5, <1>6, <1>9, <1>10, <1>11
<1>14. current # NoLoop
  BY <1>3, <1>4
<1> QED BY <1>2, <1>3, <1>4, <1>7, <1>8, <1>12, <1>13, <1>14

LEMMA GatherLoopsNat ==
  ASSUME LoopInv, NatInv, GatherLoops
  PROVE  NatInv'
<1>1. /\ pc = "tree" /\ pc' = "done" /\ UNCHANGED <<succs, preds, root, doms>>
  BY DEF GatherLoops, Homeless, Outermost, Traverse
<1>2. MirrorInv' /\ DomsExact' /\ PreHeaderInv' /\ MirrorInv /\ root \in Blocks
  BY <1>1, SameNat DEF DomsExact, PreHeaderInv, NatInv, LoopInv, TypeInv
<1>3. Structured' <=> Structured
  BY <1>1, SameStructure
<1>4. ASSUME Structured PROVE LoopsInv' /\ LoopsAreNatural' /\ LoopTreeIsNesting'
  <2>1. ListedInv /\ TreeNat
    BY <1>4 DEF NatInv, LoopsInv
  <2>2. /\ Loops' = Loops /\ DOMAIN holder = Loops /\ DOMAIN holder' = Loops
        /\ current \in Loops /\ current # NoLoop /\ NoLoop \notin Loops
        /\ \A l \in Loops : holder[l].header \in Reachable
        /\ \A b \in Blocks : loop[b] # NoLoop => loop[b] \in Loops
        /\ \A l \in Loops : holder[l].outLoop # NoLoop => holder[l].outLoop \in Loops
        /\ \A b \in Blocks : loop'[b] = IF b \in Reachable /\ loop[b] = NoLoop THEN current
                                        ELSE loop[b]
        /\ \A l \in Loops :
             /\ holder'[l].header = holder[l].header
             /\ holder'[l].outLoop = IF holder[l].outLoop = NoLoop THEN current
                                     ELSE holder[l].outLoop
             /\ \A m \in Loops : m \in holder'[l].inLoops <=>
                  m \in holder[l].inLoops \/ (l = current /\ holder[m].outLoop = NoLoop)
             /\ holder'[l].inLoops \subseteq Loops
             /\ \A b \in Blocks : b \in holder'[l].blocks <=>
                  b \in holder[l].blocks \/ (l = current /\ b \in Reachable /\ loop[b] = NoLoop)
    BY <2>1, BuildEffects
  <2>3. /\ \A l \in Loops : \A b \in Blocks : b \in holder[l].blocks <=> loop[b] = l
        /\ \A l, m \in Loops : m \in holder[l].inLoops <=> holder[m].outLoop = l
    BY <2>1 DEF ListedInv
  <2>4. ASSUME NEW l \in Loops, NEW b \in Blocks PROVE b \in holder'[l].blocks <=> loop'[b] = l
    <3>1. b \in holder'[l].blocks <=>
            loop[b] = l \/ (l = current /\ b \in Reachable /\ loop[b] = NoLoop)
      BY <2>2, <2>3
    <3>2. l # NoLoop
      BY <2>2
    <3> QED BY <2>2, <3>1, <3>2
  <2>5. ASSUME NEW l \in Loops, NEW m \in Loops
        PROVE  m \in holder'[l].inLoops <=> holder'[m].outLoop = l
    <3>1. m \in holder'[l].inLoops <=>
            holder[m].outLoop = l \/ (l = current /\ holder[m].outLoop = NoLoop)
      BY <2>2, <2>3
    <3>2. l # NoLoop
      BY <2>2
    <3> QED BY <2>2, <3>1, <3>2
  <2>6. ListedInv'
    <3>1. \A l \in Loops' : \A b \in Blocks : b \in holder'[l].blocks <=> loop'[b] = l
      BY <2>2, <2>4
    <3>2. \A l \in Loops' : holder'[l].inLoops \subseteq Loops'
      BY <2>2
    <3>3. \A l, m \in Loops' : m \in holder'[l].inLoops <=> holder'[m].outLoop = l
      BY <2>2, <2>5
    <3> QED BY <3>1, <3>2, <3>3, Zenon DEF ListedInv
  <2>7. LoopsInv'
    BY <1>1, <2>6 DEF LoopsInv, PreHeaderNat, CollectNat, LoopsNat, BlocksNat, NestNat, CleanNat,
                      SearchNat, TreeNat
  <2>8. /\ holder[current].header = root /\ holder[current].outLoop = NoLoop
        /\ \A b \in Reachable :
             IF loop[b] \in {NoLoop, current} THEN \A h \in Headers : ~In(h, b)
             ELSE \A h \in Blocks : h = holder[loop[b]].header => Inner({}, h, b)
        /\ \A l \in Loops \ {current}, b \in Blocks :
             b = holder[l].header =>
               IF holder[l].outLoop = NoLoop THEN \A h \in Headers \ {b} : ~In(h, b)
               ELSE \A h \in Blocks : h = holder[holder[l].outLoop].header => Inner({b}, h, b)
        /\ loop[root] = current /\ Reachable \subseteq Blocks /\ root \in Reachable
    BY <1>1, <1>2, <2>1, ReachableFacts DEF TreeNat
  <2>9. ASSUME NEW b \in Reachable
        PROVE  /\ holder'[loop'[b]].header = Innermost(NaturalLoops, b)
               /\ \A l \in DOMAIN holder' : b \in holder'[l].blocks <=> l = loop'[b]
    <3>1. b \in Blocks
      BY <2>8
    <3>2. \A l \in DOMAIN holder' : b \in holder'[l].blocks <=> l = loop'[b]
      BY <2>2, <2>4, <3>1
    <3>3. CASE loop[b] \in {NoLoop, current}
      <4>1. holder'[loop'[b]].header = root
        BY <2>2, <2>8, <3>1, <3>3
      <4>2. Innermost(LoopsOf(Headers \ {}), b) = root
        BY <2>8, <3>3, InnermostNone
      <4> QED BY <3>2, <4>1, <4>2, NaturalLoopsOf
    <3>4. CASE loop[b] \notin {NoLoop, current}
      <4> DEFINE h == holder[loop[b]].header
      <4>1. h \in Blocks /\ holder'[loop'[b]].header = h
        BY <2>2, <2>8, <3>1, <3>4
      <4>2. Inner({}, h, b)
        BY <2>8, <3>4, <4>1
      <4> HIDE DEF h
      <4>3. Innermost(LoopsOf(Headers \ {}), b) = h
        BY <1>2, <4>2, InnermostIs
      <4> QED BY <3>2, <4>1, <4>3, NaturalLoopsOf
    <3> QED BY <3>3, <3>4
  <2>10. ASSUME NEW l \in Loops, NEW h, h = holder[l].header
         PROVE  /\ holder'[l].outLoop # NoLoop
                /\ holder'[holder'[l].outLoop].header
                     = Innermost({m \in NaturalLoops : m.header # h}, h)
    <3>1. h \in Reachable /\ h \in Blocks
      BY <2>2, <2>8, <2>10
    <3>2. holder'[l].outLoop # NoLoop
      BY <2>2
    <3>3. {m \in NaturalLoops : m.header # h} = LoopsOf(Headers \ {h})
      BY NaturalLoopsOf
    <3>4. CASE holder[l].outLoop = NoLoop
      <4>1. holder'[holder'[l].outLoop].header = root
        BY <2>2, <2>8, <3>4
      <4>2. \A k \in Headers \ {h} : ~In(k, h)
        <5>1. CASE l = current
          BY <2>2, <2>8, <2>10, <5>1
        <5>2. CASE l # current
          BY <2>8, <2>10, <3>1, <3>4, <5>2
        <5> QED BY <5>1, <5>2
      <4>3. Innermost(LoopsOf(Headers \ {h}), h) = root
        BY <3>1, <4>2, InnermostNone
      <4> QED BY <3>2, <3>3, <4>1, <4>3
    <3>5. CASE holder[l].outLoop # NoLoop
      <4> DEFINE k == holder[holder[l].outLoop].header
      <4>1. k \in Blocks /\ holder'[holder'[l].outLoop].header = k
        BY <2>2, <2>8, <3>5
      <4>2. l # current
        BY <2>8, <3>5
      <4>3. Inner({h}, k, h)
        BY <2>8, <2>10, <3>1, <3>5, <4>1, <4>2
      <4> HIDE DEF k
      <4>4. Innermost(LoopsOf(Headers \ {h}), h) = k
        BY <1>2, <3>1, <4>3, InnermostIs
      <4> QED BY <3>2, <3>3, <4>1, <4>4
    <3> QED BY <3>4, <3>5
  <2>11. LoopsAreNatural'
    BY <1>1, <2>9, NaturalAfter
  <2>12. LoopTreeIsNesting'
    <3>1. \A l \in DOMAIN holder' :
            /\ holder'[l].outLoop # NoLoop
            /\ \A h : h = holder'[l].header =>
                 holder'[holder'[l].outLoop].header
                   = Innermost({m \in NaturalLoops : m.header # h}, h)
      <4>1. DOMAIN holder' = Loops /\ \A l \in Loops : holder'[l].header = holder[l].header
        BY <2>2
      <4> SUFFICES ASSUME NEW l \in DOMAIN holder'
                   PROVE  /\ holder'[l].outLoop # NoLoop
                          /\ \A h : h = holder'[l].header =>
                               holder'[holder'[l].outLoop].header
                                 = Innermost({m \in NaturalLoops : m.header # h}, h)
        OBVIOUS
      <4>2. l \in Loops /\ holder'[l].header = holder[l].header
        BY <4>1
      <4>3. holder'[l].outLoop # NoLoop
        BY <2>10, <4>2
      <4>4. ASSUME NEW h, h = holder'[l].header
            PROVE  holder'[holder'[l].outLoop].header
                     = Innermost({m \in NaturalLoops : m.header # h}, h)
        BY <2>10, <4>2, <4>4, Zenon
      <4> QED BY <4>3, <4>4
    <3>2. \A l, m \in DOMAIN holder' : m \in holder'[l].inLoops <=> holder'[m].outLoop = l
      BY <2>2, <2>5
    <3> QED BY <1>1, <3>1, <3>2, NestingAfter
  <2> QED BY <2>7, <2>11, <2>12
<1>5. ASSUME ~Structured PROVE LoopsAreNatural' /\ LoopTreeIsNesting'
  BY <1>3, <1>5 DEF LoopsAreNatural, LoopTreeIsNesting
<1> QED BY <1>2, <1>3, <1>4, <1>5 DEF NatInv

LEMMA StutterNat == ASSUME LoopInv, NatInv, UNCHANGED allVars PROVE NatInv'
<1>1. UNCHANGED <<succs, preds, root, doms, color, loop, holder, stack, order, current,
                  pending, pc>>
  BY DEF allVars, vars, loopVars
<1>2. /\ Reachable' = Reachable /\ Headers' = Headers
      /\ \A h : Latches(h)' = Latches(h)
      /\ \A h, b : In(h, b)' <=> In(h, b)
      /\ \A X, h, b : Inner(X, h, b)' <=> Inner(X, h, b)
      /\ \A d, b : Cuts(d, b)' <=> Cuts(d, b)
      /\ (MirrorInv' <=> MirrorInv) /\ (Structured' <=> Structured)
      /\ NaturalLoops' = NaturalLoops
  BY <1>1, SameNat, SameStructure, NaturalFrame
<1>3. /\ Loops' = Loops
      /\ \A h : IsDone(h)' <=> IsDone(h)
      /\ \A x, h : Ticked(x, h)' <=> Ticked(x, h)
      /\ \A x : PredsOf({x})' = PredsOf({x})
  BY <1>1 DEF Loops, IsDone, Positions, Ticked, PredsOf
<1>4. MirrorInv' /\ DomsExact' /\ PreHeaderInv'
  BY <1>1, <1>2 DEF NatInv, DomsExact, PreHeaderInv
<1>5. LoopsAreNatural' /\ LoopTreeIsNesting'
  <2>1. LoopsAreNatural'
    <3>1. CASE pc # "done" \/ ~Structured
      BY <1>1, <1>2, <3>1 DEF LoopsAreNatural, Done
    <3>2. CASE pc = "done" /\ Structured
      <4>1. LoopsAreNatural
        BY DEF NatInv
      <4>2. \A b \in Reachable :
              /\ holder[loop[b]].header = Innermost(NaturalLoops, b)
              /\ \A l \in DOMAIN holder : b \in holder[l].blocks <=> l = loop[b]
        BY <3>2, <4>1 DEF LoopsAreNatural, Done
      <4> QED BY <1>1, <4>2, NaturalAfter
    <3> QED BY <3>1, <3>2
  <2>2. LoopTreeIsNesting'
    <3>1. CASE pc # "done" \/ ~Structured
      BY <1>1, <1>2, <3>1 DEF LoopTreeIsNesting, Done
    <3>2. CASE pc = "done" /\ Structured
      <4>1. LoopTreeIsNesting
        BY DEF NatInv
      <4>2. /\ \A l \in DOMAIN holder :
                 /\ holder[l].outLoop # NoLoop
                 /\ \A h : h = holder[l].header =>
                      holder[holder[l].outLoop].header
                        = Innermost({m \in NaturalLoops : m.header # h}, h)
            /\ \A l, m \in DOMAIN holder : m \in holder[l].inLoops <=> holder[m].outLoop = l
        <5>1. ASSUME NEW l \in DOMAIN holder, NEW h, h = holder[l].header
              PROVE  holder[holder[l].outLoop].header
                       = Innermost({m \in NaturalLoops : m.header # h}, h)
          BY <3>2, <4>1, <5>1, Zenon DEF LoopTreeIsNesting, Done
        <5>2. /\ \A l \in DOMAIN holder : holder[l].outLoop # NoLoop
              /\ \A l, m \in DOMAIN holder : m \in holder[l].inLoops <=> holder[m].outLoop = l
          BY <3>2, <4>1 DEF LoopTreeIsNesting, Done
        <5> QED BY <5>1, <5>2
      <4> QED BY <1>1, <4>2, NestingAfter
    <3> QED BY <3>1, <3>2
  <2> QED BY <2>1, <2>2
<1>6. ASSUME Structured PROVE LoopsInv'
  <2>1. LoopsInv
    BY <1>6 DEF NatInv
  <2>2. PreHeaderNat' /\ ListedInv' /\ CleanNat'
    BY <1>1, <1>2, <1>3, <2>1 DEF LoopsInv, PreHeaderNat, ListedInv, CleanNat
  <2>3. CollectNat'
    BY <1>1, <1>2, <1>3, <2>1 DEF LoopsInv, CollectNat
  <2>4. LoopsNat'
    BY <1>1, <1>2, <1>3, <2>1 DEF LoopsInv, LoopsNat
  <2>5. BlocksNat'
    BY <1>1, <1>2, <1>3, <2>1 DEF LoopsInv, BlocksNat
  <2>6. NestNat'
    BY <1>1, <1>2, <1>3, <2>1 DEF LoopsInv, NestNat
  <2>7. SearchNat'
    <3>1. pc = "search" => \A h \in Blocks : h = holder[current].header =>
            /\ \A b \in pending \cap Reachable : In(h, b)
            /\ \A b \in Reachable : "black" \in color[b] =>
                 /\ In(h, b) /\ loop[b] # NoLoop
                 /\ b # h => \A a \in PredsOf({b}) : a \in pending \/ "black" \in color[a]
                 /\ b # h /\ b \in Headers => holder[loop[b]].outLoop # NoLoop
            /\ \A a \in Latches(h) : a \in pending \/ "black" \in color[a]
      BY <2>1 DEF LoopsInv, SearchNat
    <3> SUFFICES ASSUME pc = "search", NEW k \in Blocks, k = holder[current].header
                 PROVE  (/\ \A x \in pending \cap Reachable : In(k, x)
                         /\ \A x \in Reachable : "black" \in color[x] =>
                              /\ In(k, x) /\ loop[x] # NoLoop
                              /\ x # k => \A a \in PredsOf({x}) : a \in pending \/ "black" \in color[a]
                              /\ x # k /\ x \in Headers => holder[loop[x]].outLoop # NoLoop
                         /\ \A a \in Latches(k) : a \in pending \/ "black" \in color[a])'
      BY <1>1 DEF SearchNat
    <3>2. \A x \in pending' \cap Reachable' : In(k, x)'
      BY <1>1, <1>2, <3>1
    <3>3. \A x \in Reachable' : "black" \in color'[x] =>
            /\ In(k, x)' /\ loop'[x] # NoLoop
            /\ x # k => \A a \in PredsOf({x})' : a \in pending' \/ "black" \in color'[a]
            /\ x # k /\ x \in Headers' => holder'[loop'[x]].outLoop # NoLoop
      <4> SUFFICES ASSUME NEW x \in Reachable, "black" \in color[x]
                   PROVE  /\ In(k, x)' /\ loop'[x] # NoLoop
                          /\ x # k => \A a \in PredsOf({x})' : a \in pending' \/ "black" \in color'[a]
                          /\ x # k /\ x \in Headers' => holder'[loop'[x]].outLoop # NoLoop
        BY <1>1, <1>2
      <4>1. /\ In(k, x) /\ loop[x] # NoLoop
            /\ x # k => \A a \in PredsOf({x}) : a \in pending \/ "black" \in color[a]
            /\ x # k /\ x \in Headers => holder[loop[x]].outLoop # NoLoop
        BY <3>1
      <4>2. x # k => \A a \in PredsOf({x})' : a \in pending' \/ "black" \in color'[a]
        BY <1>1, <1>3, <4>1
      <4> QED BY <1>1, <1>2, <4>1, <4>2
    <3>4. \A a \in Latches(k)' : a \in pending' \/ "black" \in color'[a]
      BY <1>1, <1>2, <3>1
    <3> QED BY <3>2, <3>3, <3>4
  <2>8. TreeNat'
    BY <1>1, <1>2, <1>3, <2>1 DEF LoopsInv, TreeNat
  <2> QED BY <2>2, <2>3, <2>4, <2>5, <2>6, <2>7, <2>8 DEF LoopsInv
<1> QED BY <1>2, <1>4, <1>5, <1>6 DEF NatInv

-----------------------------------------------------------------------------
\* Of the search for back edges: the edges to dominators that it has passed are back
\* edges.  Of the backward searches: what they have taken is in the loop's natural
\* one, and no inner loop is left out, for the search of an inner loop comes first.
THEOREM NatInvHolds == LoopSpec => []NatInv
<1>1. LoopInit => NatInv
  BY InitInv, InitNat
<1>2. /\ LoopInv /\ ListsInv /\ LoopInv' /\ NatInv /\ [LoopNext]_allVars
      => NatInv'
  <2> SUFFICES ASSUME LoopInv, ListsInv, LoopInv', NatInv, [LoopNext]_allVars PROVE NatInv'
    OBVIOUS
  <2>1. CASE Run
    BY <2>1, RunNat
  <2>2. ASSUME NEW s \in Blocks, BackEdge(s) \/ Known(s) \/ Descend(s) \/ Visit(s)
        PROVE  NatInv'
    BY <2>2, BackEdgeNat, PassNat, VisitNat
  <2>3. CASE Leave
    BY <2>3, LeaveNat
  <2>4. CASE NotHeader \/ TakeSources \/ FillReducible \/ LoopFilled
    BY <2>4, NotHeaderNat, TakeSourcesNat, FillReducibleNat, LoopFilledNat
  <2>5. CASE CreateRootLoop \/ GatherLoops
    BY <2>5, CreateRootLoopNat, GatherLoopsNat
  <2>6. CASE UNCHANGED allVars
    BY <2>6, StutterNat
  <2>7. LoopNext => ListingStep
    BY NothingListedTwice
  <2> QED BY <2>1, <2>2, <2>3, <2>4, <2>5, <2>6, <2>7, Zenon DEF ListingStep
<1> QED BY <1>1, <1>2, LoopInvHolds, PTL DEF LoopSpec

\* On a structured graph the blocks of a loop are those of the natural loop of its
\* header that are in no smaller one, and no other loop lists them
\* (LoopAnalyzer::PopulateLoops, LoopSearch).
THEOREM LoopsAreTheNaturalOnes == LoopSpec => []LoopsAreNatural
<1>1. NatInv => LoopsAreNatural
  BY DEF NatInv
<1> QED BY <1>1, NatInvHolds, PTL

\* There the tree of the loops is the nesting of the natural loops
\* (LoopAnalyzer::LoopSearch, BuildLoopTree).
THEOREM TreeIsNesting == LoopSpec => []LoopTreeIsNesting
<1>1. NatInv => LoopTreeIsNesting
  BY DEF NatInv
<1> QED BY <1>1, NatInvHolds, PTL
=============================================================================
