------------------------------ MODULE BlockGraph ------------------------------
(***************************************************************************)
(* The control-flow graph: class Graph (graph.h, graph.cpp) and the        *)
(* predecessor/successor lists and lazily numbered ids of class BasicBlock *)
(* (basic_block.h, basic_block.cpp).                                       *)
(*                                                                         *)
(* Every edge is stored twice, in the successor list of its source and in  *)
(* the predecessor list of its target, and list entries are erased by      *)
(* block id, so two facts carry the whole library: both copies agree, and  *)
(* no two blocks have the same id.                                         *)
(*                                                                         *)
(* A list is modelled as the bag of its entries (entry |-> multiplicity):  *)
(* no operation here depends on the order, except which ids a find_if      *)
(* happens to number before its match, which is left nondeterministic.     *)
(* The validity flags that Graph also keeps are not part of this module.   *)
(***************************************************************************)
EXTENDS Reachability, Integers, FiniteSets

CONSTANTS
  None,          \* the null BasicBlock pointer
  FreshTargets,  \* TRUE: MoveSuccs/MovePreds only go to a block without
                 \* successors/predecessors, as in SplitOn, their caller in src
  MaxEdges       \* bound: at most this many edges are added

ASSUME BlocksAssumption == IsFiniteSet(Blocks)
ASSUME NoneAssumption == None \notin Blocks
ASSUME DisciplineAssumption == FreshTargets \in BOOLEAN

VARIABLES
  succs,      \* succs[a][b]: occurrences of b in a.succs_
  preds,      \* preds[b][a]: occurrences of a in b.preds_
  id,         \* id[b]: the block's id_, or NoId
  blocksNum,  \* blocks_num_ of the graph, the next id to hand out
  attached,   \* the blocks whose graph_ is this graph
  root,       \* root_
  end,        \* end_
  removed     \* rm_bb of DomTree::CalcDifference between RemoveBlock and
              \* RestoreBlock, None at any other time

vars == <<succs, preds, id, blocksNum, attached, root, end, removed>>

NoId == -1
NoEdges == [b \in Blocks |-> 0]

Unnumbered == {b \in Blocks : id[b] = NoId}
SuccsOf(S) == {b \in Blocks : \E a \in S : succs[a][b] > 0}
PredsOf(S) == {a \in Blocks : \E b \in S : preds[b][a] > 0}

SuccSets == [b \in Blocks |-> SuccsOf({b})]

\* The blocks a walk along succs_ from root_ meets.
Reachable == Reach(SuccSets, root)

TotalEdges == Cardinality({e \in Blocks \X Blocks \X (1 .. MaxEdges) :
                             e[3] <= preds[e[2]][e[1]]})

(***************************************************************************)
(* Ids.  GetId hands out blocks_num_ to a block that has no id yet; it     *)
(* reads graph_, so the block must be attached.  Clients set both root and *)
(* end (ids 0 and 1) before anything asks for an id.                       *)
(***************************************************************************)
EndsSet == root # None /\ end # None

\* Mutant of Number: GetId forgets IncreaseBlocksNum.
NumberKeepsCount(S) ==
  /\ S # {} => EndsSet /\ S \subseteq attached
  /\ \E f \in [S -> blocksNum .. blocksNum + Cardinality(S) - 1] :
       /\ \A a, b \in S : f[a] = f[b] => a = b
       /\ id' = [b \in Blocks |-> IF b \in S THEN f[b] ELSE id[b]]
  /\ UNCHANGED blocksNum

\* GetId on each block of S, none of which has an id, in some order.
Number(S) ==
  /\ S # {} => EndsSet /\ S \subseteq attached
  /\ \E f \in [S -> blocksNum .. blocksNum + Cardinality(S) - 1] :
       /\ \A a, b \in S : f[a] = f[b] => a = b
       /\ id' = [b \in Blocks |-> IF b \in S THEN f[b] ELSE id[b]]
  /\ blocksNum' = blocksNum + Cardinality(S)

\* Mutant of NumberScanned: GetId does not look whether there is an id already.
NumberAgain(must, may) == \E S \in SUBSET (must \cup may) : must \subseteq S /\ Number(S)

\* GetId on all of must and on an unknown part of may: a find_if that stops
\* at its match.
NumberScanned(must, may) ==
  \E S \in SUBSET (Unnumbered \cap (must \cup may)) :
    Unnumbered \cap must \subseteq S /\ Number(S)

GetId(b) == /\ removed = None
            /\ b \in Unnumbered
            /\ Number({b})
            /\ UNCHANGED <<succs, preds, attached, root, end, removed>>

\* BasicBlock::BasicBlock(Graph *): attached and numbered by the constructor.
NewBlock(b) == /\ removed = None
               /\ EndsSet
               /\ b \in Unnumbered \ (attached \cup {root, end})
               /\ succs[b] = NoEdges /\ preds[b] = NoEdges
               /\ attached' = attached \cup {b}
               /\ id' = [id EXCEPT ![b] = blocksNum]
               /\ blocksNum' = blocksNum + 1
               /\ UNCHANGED <<succs, preds, root, end, removed>>

SetRoot(b) == /\ removed = None
              /\ root = None /\ b # end
              /\ id' = [id EXCEPT ![b] = 0]
              /\ root' = b
              /\ blocksNum' = blocksNum + 1
              /\ UNCHANGED <<succs, preds, attached, end, removed>>

SetEnd(b) == /\ removed = None
             /\ end = None /\ b # root
             /\ id' = [id EXCEPT ![b] = 1]
             /\ end' = b
             /\ blocksNum' = blocksNum + 1
             /\ UNCHANGED <<succs, preds, attached, root, removed>>

SetGraphForBasicBlocks(S) ==
  /\ removed = None
  /\ attached' = attached \cup S
  /\ UNCHANGED <<succs, preds, id, blocksNum, root, end, removed>>

(***************************************************************************)
(* Edges.                                                                  *)
(***************************************************************************)
LinkEdge(a, b) == /\ TotalEdges < MaxEdges
                  /\ succs' = [succs EXCEPT ![a][b] = @ + 1]
                  /\ preds' = [preds EXCEPT ![b][a] = @ + 1]

AddEdge(a, b) == /\ removed = None
                 /\ LinkEdge(a, b)
                 /\ UNCHANGED <<id, blocksNum, attached, root, end, removed>>

\* Mutant of MoveSuccsLists: the list is copied to c but not cleared in b.
MoveSuccsListsCopies(b, c) ==
  /\ preds' = [s \in Blocks |-> [p \in Blocks |->
                 CASE p = b -> preds[s][b] - succs[b][s]
                   [] p = c -> preds[s][c] + succs[b][s]
                   [] OTHER -> preds[s][p]]]
  /\ succs' = [succs EXCEPT ![c] = succs[b]]
  /\ IF succs[b] = NoEdges
       THEN UNCHANGED <<id, blocksNum>>
       ELSE NumberScanned({b}, PredsOf(SuccsOf({b})))

\* MoveSuccs rewrites the predecessor lists entry by entry, then assigns (not
\* appends) the whole successor list to c.
MoveSuccsLists(b, c) ==
  /\ preds' = [s \in Blocks |-> [p \in Blocks |->
                 CASE p = b -> preds[s][b] - succs[b][s]
                   [] p = c -> preds[s][c] + succs[b][s]
                   [] OTHER -> preds[s][p]]]
  /\ succs' = [succs EXCEPT ![c] = succs[b], ![b] = NoEdges]
  /\ IF succs[b] = NoEdges
       THEN UNCHANGED <<id, blocksNum>>
       ELSE NumberScanned({b}, PredsOf(SuccsOf({b})))

MoveSuccs(b, c) == /\ removed = None
                   /\ b # c
                   /\ FreshTargets => succs[c] = NoEdges
                   /\ MoveSuccsLists(b, c)
                   /\ UNCHANGED <<attached, root, end, removed>>

MovePreds(b, c) ==
  /\ removed = None
  /\ b # c
  /\ FreshTargets => preds[c] = NoEdges
  /\ succs' = [p \in Blocks |-> [s \in Blocks |->
                 CASE s = b -> succs[p][b] - preds[b][p]
                   [] s = c -> succs[p][c] + preds[b][p]
                   [] OTHER -> succs[p][s]]]
  /\ preds' = [preds EXCEPT ![c] = preds[b], ![b] = NoEdges]
  /\ IF preds[b] = NoEdges
       THEN UNCHANGED <<id, blocksNum>>
       ELSE NumberScanned({b}, SuccsOf(PredsOf({b})))
  /\ UNCHANGED <<attached, root, end, removed>>

\* The graph side of BasicBlock::SplitOn: the new block c is attached without
\* an id and takes over the successors of b.
SplitOn(b, c) == /\ removed = None
                 /\ b \in attached
                 /\ c \in Unnumbered \ (attached \cup {b, root, end})
                 /\ succs[c] = NoEdges /\ preds[c] = NoEdges
                 /\ attached' = attached \cup {c}
                 /\ MoveSuccsLists(b, c)
                 /\ UNCHANGED <<root, end, removed>>

\* Mutant of MoveRoot: the arguments of AddEdge are swapped.
MoveRootBackwards(b) == /\ removed = None
                        /\ EndsSet
                        /\ LinkEdge(root, b)
                        /\ attached' = attached \cup {b}
                        /\ root' = b
                        /\ UNCHANGED <<id, blocksNum, end, removed>>

MoveRoot(b) == /\ removed = None
               /\ EndsSet
               /\ LinkEdge(b, root)
               /\ attached' = attached \cup {b}
               /\ root' = b
               /\ UNCHANGED <<id, blocksNum, end, removed>>

(***************************************************************************)
(* Walks, and the temporary removal of a block.                            *)
(***************************************************************************)
\* Traversal::Run asks every block it meets for its id.
Traverse == /\ EndsSet
            /\ NumberScanned(Reachable, {})
            /\ UNCHANGED <<succs, preds, attached, root, end, removed>>

\* FindBlock (a traversal) followed by the erasure of b from the successor
\* list of every entry of b.preds_; b.preds_ itself is kept.
RemoveBlock(b) ==
  /\ removed = None
  /\ EndsSet
  /\ b \in Reachable
  /\ NumberScanned(Reachable, SuccsOf(PredsOf({b})))
  /\ succs' = [p \in Blocks |-> [succs[p] EXCEPT ![b] = @ - preds[b][p]]]
  /\ removed' = b
  /\ UNCHANGED <<preds, attached, root, end>>

\* Mutant of RestoreBlock: only one of the predecessors gets its entry back.
RestoreBlockInOne ==
  /\ removed # None
  /\ LET one == CHOOSE p \in Blocks : preds[removed][p] > 0 \/ preds[removed] = NoEdges
     IN  succs' = [succs EXCEPT ![one][removed] = @ + preds[removed][one]]
  /\ removed' = None
  /\ UNCHANGED <<preds, id, blocksNum, attached, root, end>>

\* Mutant of RestoreBlock: no predecessor gets its entry back.
RestoreBlockInNone == /\ removed # None
                      /\ removed' = None
                      /\ UNCHANGED <<succs, preds, id, blocksNum, attached, root, end>>

RestoreBlock ==
  /\ removed # None
  /\ succs' = [p \in Blocks |-> [succs[p] EXCEPT ![removed] = @ + preds[removed][p]]]
  /\ removed' = None
  /\ UNCHANGED <<preds, id, blocksNum, attached, root, end>>

-----------------------------------------------------------------------------
\* Graph(Allocator *): no root or end yet.
BareGraph == /\ root = None /\ end = None
             /\ id = [b \in Blocks |-> NoId]
             /\ blocksNum = 0

\* Graph(Allocator *, root, end, params_num).
WholeGraph(r, e) == /\ root = r /\ end = e
                    /\ id = [b \in Blocks |-> CASE b = r -> 0
                                                [] b = e -> 1
                                                [] OTHER -> NoId]
                    /\ blocksNum = 2

Init == /\ succs = [b \in Blocks |-> NoEdges]
        /\ preds = [b \in Blocks |-> NoEdges]
        /\ attached = {}
        /\ removed = None
        /\ BareGraph \/ \E r, e \in Blocks : r # e /\ WholeGraph(r, e)

Next == \/ \E b \in Blocks : \/ GetId(b) \/ NewBlock(b)
                             \/ SetRoot(b) \/ SetEnd(b)
                             \/ MoveRoot(b) \/ RemoveBlock(b)
        \/ \E a, b \in Blocks : \/ AddEdge(a, b)
                                \/ MoveSuccs(a, b) \/ MovePreds(a, b)
                                \/ SplitOn(a, b)
        \/ \E S \in SUBSET Blocks : SetGraphForBasicBlocks(S)
        \/ Traverse
        \/ RestoreBlock

Spec == Init /\ [][Next]_vars

-----------------------------------------------------------------------------
TypeOK == /\ succs \in [Blocks -> [Blocks -> Nat]]
          /\ preds \in [Blocks -> [Blocks -> Nat]]
          /\ id \in [Blocks -> Nat \cup {NoId}]
          /\ blocksNum \in Nat
          /\ attached \subseteq Blocks
          /\ root \in Blocks \cup {None}
          /\ end \in Blocks \cup {None}
          /\ removed \in Blocks \cup {None}

\* The two copies of every edge agree, so each erase-by-id of MoveSuccs,
\* MovePreds and RemoveBlock finds its entry (erase(end()) is undefined), and
\* RestoreBlock rebuilds exactly the edges RemoveBlock took away.  While a
\* block is removed, it is in no successor list at all.
EdgeMirror == \A a, b \in Blocks :
                succs[a][b] = IF b = removed THEN 0 ELSE preds[b][a]

\* Blocks are compared, erased and marked as discovered by id: two blocks that
\* share an id would be taken for each other everywhere.
IdsDistinct == \A a, b \in Blocks : id[a] = id[b] /\ a # b => id[a] = NoId

\* Id sets outlive the calls that fill them (CalcDifference keeps the ids of a
\* traversal while it runs two more): a block never changes its id.
IdsStable == [][\A b \in Blocks : id[b] # NoId => id'[b] = id[b]]_vars

\* The graph implements the abstract bag of edges; the removal of a block for
\* a traversal and its restoration do not show.
Flow == INSTANCE FlowGraph WITH
          edges <- [a \in Blocks |-> [b \in Blocks |-> preds[b][a]]],
          entry <- root
FlowSpec == Flow!Spec
=============================================================================
