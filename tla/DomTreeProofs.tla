----------------------------- MODULE DomTreeProofs -----------------------------
(***************************************************************************)
(* Proofs about BlockGraph and, on top of it, DomTree: for any finite set  *)
(* of blocks, any bound on edges, any graph the pass may start on and any  *)
(* number of runs.  The theorems about BlockGraph need the discipline of   *)
(* the code's own callers: edge lists are only moved to a block that has   *)
(* none (FreshTargets).                                                    *)
(***************************************************************************)
EXTENDS DomTree, ReachabilityTheorems, SequenceTheorems, FunctionTheorems

-----------------------------------------------------------------------------
(***************************************************************************)
(* BlockGraph.                                                             *)
(***************************************************************************)
(***************************************************************************)
(* The inductive invariant.  TypeOK alone is not inductive: erasing an     *)
(* entry keeps a multiplicity natural only because both copies of the edge *)
(* agree.  IdsDistinct alone is not either: a new id is new because every  *)
(* id in use is below blocks_num_, and that holds only once root and end   *)
(* have taken 0 and 1; until then nothing else has an id.                  *)
(***************************************************************************)
IdsBelow == EndsSet => /\ blocksNum >= 2
                       /\ \A b \in Blocks : id[b] < blocksNum

IdsBeforeEnds ==
  ~EndsSet => /\ \A b \in Blocks : id[b] = IF b = root THEN 0
                                           ELSE IF b = end THEN 1 ELSE NoId
              /\ root = None => (blocksNum = IF end = None THEN 0 ELSE 1)
              /\ end = None => (blocksNum = IF root = None THEN 0 ELSE 1)

\* The id part of the invariant, which only the numbering steps can disturb.
IdInv == /\ id \in [Blocks -> Nat \cup {NoId}]
         /\ blocksNum \in Nat
         /\ IdsDistinct
         /\ IdsBelow
         /\ IdsBeforeEnds

\* The edge part, which only the list operations can disturb.
EdgeInv == /\ succs \in [Blocks -> [Blocks -> Nat]]
           /\ preds \in [Blocks -> [Blocks -> Nat]]
           /\ EdgeMirror

\* The rest: pointers, and no block is removed from an unfinished graph.
PointerInv == /\ attached \subseteq Blocks
              /\ root \in Blocks \cup {None}
              /\ end \in Blocks \cup {None}
              /\ removed \in Blocks \cup {None}
              /\ removed # None => EndsSet

IInv == IdInv /\ EdgeInv /\ PointerInv

\* Numbering any set of blocks that have no id keeps ids distinct and below
\* blocks_num_, and leaves existing ids alone (BasicBlock::GetId).
LEMMA NumberKeepsIds ==
  ASSUME IdInv, NEW S \in SUBSET Unnumbered, Number(S), UNCHANGED <<root, end>>
  PROVE  /\ IdInv'
         /\ \A b \in Blocks : id[b] # NoId => id'[b] = id[b]
<1>1. S \subseteq Blocks /\ IsFiniteSet(S)
  BY BlocksAssumption, FS_Subset DEF Unnumbered
<1>2. Cardinality(S) \in Nat
  BY <1>1, FS_CardinalityType
<1>3. PICK f \in [S -> blocksNum .. blocksNum + Cardinality(S) - 1] :
        /\ \A a, b \in S : f[a] = f[b] => a = b
        /\ id' = [b \in Blocks |-> IF b \in S THEN f[b] ELSE id[b]]
  BY DEF Number
<1>4. blocksNum' = blocksNum + Cardinality(S) /\ blocksNum' \in Nat
  BY <1>2 DEF Number, IdInv
<1>5. \A b \in S : f[b] \in Nat /\ blocksNum <= f[b] /\ f[b] < blocksNum'
  BY <1>2, <1>3, <1>4 DEF IdInv
<1>6. \A b \in Blocks : id'[b] = IF b \in S THEN f[b] ELSE id[b]
  BY <1>3
<1>7. \A b \in Blocks : id[b] # NoId => id'[b] = id[b]
  BY <1>6 DEF Unnumbered
<1>8. id' \in [Blocks -> Nat \cup {NoId}]
  BY <1>3, <1>5 DEF IdInv
<1>9. CASE EndsSet
  <2>1. \A b \in Blocks : id[b] < blocksNum
    BY <1>9 DEF IdInv, IdsBelow
  <2>2. IdsBelow'
    BY <1>2, <1>4, <1>5, <1>6, <1>9, <2>1 DEF IdInv, IdsBelow, EndsSet, NoId
  <2>3. IdsDistinct'
    <3> SUFFICES ASSUME NEW a \in Blocks, NEW b \in Blocks,
                        id'[a] = id'[b], a # b
                 PROVE  id'[a] = NoId
      BY DEF IdsDistinct
    <3>1. CASE a \in S /\ b \in S
      BY <1>3, <1>6, <3>1
    <3>2. CASE a \in S /\ b \notin S
      BY <1>5, <1>6, <2>1, <3>2 DEF IdInv, NoId
    <3>3. CASE a \notin S /\ b \in S
      BY <1>5, <1>6, <2>1, <3>3 DEF IdInv, NoId
    <3>4. CASE a \notin S /\ b \notin S
      BY <1>6, <3>4 DEF IdInv, IdsDistinct
    <3> QED BY <3>1, <3>2, <3>3, <3>4
  <2>4. IdsBeforeEnds'
    BY <1>9 DEF IdsBeforeEnds, EndsSet
  <2> QED BY <1>4, <1>7, <1>8, <2>2, <2>3, <2>4 DEF IdInv
<1>10. CASE ~EndsSet
  <2>1. S = {}
    BY <1>10 DEF Number
  <2>2. id' = id
    BY <1>3, <2>1 DEF IdInv
  <2>3. blocksNum' = blocksNum
    BY <1>4, <2>1, FS_EmptySet DEF IdInv
  <2>4. IdsDistinct' /\ IdsBelow' /\ IdsBeforeEnds'
    BY <1>10, <2>2, <2>3 DEF IdInv, IdsDistinct, IdsBelow, IdsBeforeEnds, EndsSet
  <2> QED BY <1>4, <1>7, <1>8, <2>4 DEF IdInv
<1> QED BY <1>9, <1>10

LEMMA NumberScannedKeepsIds ==
  ASSUME IdInv, NEW must, NEW may, NumberScanned(must, may),
         UNCHANGED <<root, end>>
  PROVE  /\ IdInv'
         /\ \A b \in Blocks : id[b] # NoId => id'[b] = id[b]
<1>1. PICK S \in SUBSET (Unnumbered \cap (must \cup may)) : Number(S)
  BY DEF NumberScanned
<1>2. S \in SUBSET Unnumbered
  OBVIOUS
<1> QED BY <1>1, <1>2, NumberKeepsIds

\* A step that touches no id keeps the id part of the invariant.
LEMMA SameIds ==
  ASSUME IdInv, UNCHANGED <<id, blocksNum, root, end>>
  PROVE  /\ IdInv'
         /\ \A b \in Blocks : id[b] # NoId => id'[b] = id[b]
BY DEF IdInv, IdsDistinct, IdsBelow, IdsBeforeEnds, EndsSet

\* Handing the successors of b over to a block without successors keeps both
\* copies of every edge in agreement (BasicBlock::MoveSuccs).
LEMMA MoveSuccsListsKeepsEdges ==
  ASSUME EdgeInv, removed = None, removed' = None,
         NEW b \in Blocks, NEW c \in Blocks, b # c, succs[c] = NoEdges,
         MoveSuccsLists(b, c)
  PROVE  EdgeInv'
<1>1. \A x, y \in Blocks : succs[x][y] \in Nat /\ succs[x][y] = preds[y][x]
  BY NoneAssumption DEF EdgeInv, EdgeMirror
<1>2. \A y \in Blocks : succs[c][y] = 0 /\ preds[y][c] = 0
  BY <1>1 DEF NoEdges
<1>3. \A s, p \in Blocks : preds'[s][p] = CASE p = b -> preds[s][b] - succs[b][s]
                                            [] p = c -> preds[s][c] + succs[b][s]
                                            [] OTHER -> preds[s][p]
  BY DEF MoveSuccsLists
<1>4. \A s, p \in Blocks : preds'[s][p] = IF p = b THEN 0
                                          ELSE IF p = c THEN succs[b][s]
                                          ELSE preds[s][p]
  BY <1>1, <1>2, <1>3
<1>5. preds' \in [Blocks -> [Blocks -> Nat]]
  <2>1. preds' = [s \in Blocks |-> [p \in Blocks |-> preds'[s][p]]]
    BY DEF MoveSuccsLists
  <2>2. \A s, p \in Blocks : preds'[s][p] \in Nat
    BY <1>1, <1>4 DEF EdgeInv
  <2> QED BY <2>1, <2>2
<1>6. succs' = [succs EXCEPT ![c] = succs[b], ![b] = NoEdges]
  BY DEF MoveSuccsLists
<1>7. succs' \in [Blocks -> [Blocks -> Nat]]
  BY <1>6 DEF EdgeInv, NoEdges
<1>8. \A p, s \in Blocks : succs'[p][s] = IF p = b THEN 0
                                          ELSE IF p = c THEN succs[b][s]
                                          ELSE succs[p][s]
  BY <1>6 DEF EdgeInv, NoEdges
<1>9. EdgeMirror'
  BY <1>1, <1>4, <1>8, NoneAssumption DEF EdgeMirror
<1> QED BY <1>5, <1>7, <1>9 DEF EdgeInv

LEMMA InitIInv == ASSUME Init PROVE IInv
<1> USE NoneAssumption
<1>1. EdgeInv
  BY DEF Init, EdgeInv, EdgeMirror, NoEdges
<1>2. CASE BareGraph
  BY <1>1, <1>2 DEF Init, BareGraph, IInv, IdInv, PointerInv, IdsDistinct,
                    IdsBelow, IdsBeforeEnds, EndsSet, NoId
<1>3. CASE \E r, e \in Blocks : r # e /\ WholeGraph(r, e)
  <2>1. PICK r, e \in Blocks : r # e /\ WholeGraph(r, e)
    BY <1>3
  <2>2. \A b \in Blocks : id[b] = IF b = r THEN 0 ELSE IF b = e THEN 1 ELSE NoId
    BY <2>1 DEF WholeGraph
  <2>3. id \in [Blocks -> Nat \cup {NoId}]
    BY <2>1, <2>2 DEF WholeGraph
  <2>4. EndsSet /\ blocksNum = 2
    BY <2>1 DEF WholeGraph, EndsSet
  <2>5. IdInv
    BY <2>2, <2>3, <2>4 DEF IdInv, IdsDistinct, IdsBelow, IdsBeforeEnds, NoId
  <2>6. PointerInv
    BY <2>1 DEF Init, PointerInv, WholeGraph
  <2> QED BY <1>1, <2>5, <2>6 DEF IInv
<1> QED BY <1>2, <1>3 DEF Init

\* The three steps the passes use to look at the graph keep the invariant: the
\* removal of a block, a walk, and the restoration of the block.
LEMMA RemoveBlockKeeps ==
  ASSUME IInv, NEW b \in Blocks, RemoveBlock(b)
  PROVE  /\ IInv'
         /\ \A x \in Blocks : id[x] # NoId => id'[x] = id[x]
<1> USE NoneAssumption
<1>1. IdInv' /\ (\A x \in Blocks : id[x] # NoId => id'[x] = id[x])
  BY NumberScannedKeepsIds DEF RemoveBlock, IInv
<1>2. \A p, x \in Blocks : succs'[p][x] = IF x = b THEN 0 ELSE succs[p][x]
  BY DEF RemoveBlock, IInv, EdgeInv, EdgeMirror
<1>3. succs' \in [Blocks -> [Blocks -> Nat]]
  <2>1. succs' = [p \in Blocks |-> [x \in Blocks |-> succs'[p][x]]]
    BY DEF RemoveBlock, IInv, EdgeInv
  <2> QED BY <1>2, <2>1 DEF IInv, EdgeInv
<1>4. EdgeInv'
  BY <1>2, <1>3 DEF RemoveBlock, IInv, EdgeInv, EdgeMirror
<1>5. PointerInv'
  BY DEF RemoveBlock, IInv, PointerInv, EndsSet
<1> QED BY <1>1, <1>4, <1>5 DEF IInv

LEMMA TraverseKeeps ==
  ASSUME IInv, Traverse
  PROVE  /\ IInv'
         /\ \A x \in Blocks : id[x] # NoId => id'[x] = id[x]
<1> USE NoneAssumption
<1>1. IdInv' /\ (\A x \in Blocks : id[x] # NoId => id'[x] = id[x])
  BY NumberScannedKeepsIds DEF Traverse, IInv
<1>2. EdgeInv' /\ PointerInv'
  BY DEF Traverse, IInv, EdgeInv, EdgeMirror, PointerInv, EndsSet
<1> QED BY <1>1, <1>2 DEF IInv

LEMMA RestoreBlockKeeps ==
  ASSUME IInv, RestoreBlock
  PROVE  /\ IInv'
         /\ \A x \in Blocks : id[x] # NoId => id'[x] = id[x]
<1> USE NoneAssumption
<1>1. IdInv' /\ (\A x \in Blocks : id[x] # NoId => id'[x] = id[x])
  BY SameIds DEF RestoreBlock, IInv
<1>2. removed \in Blocks
  BY DEF RestoreBlock, IInv, PointerInv
<1>3. \A p, x \in Blocks : succs'[p][x] = preds[x][p]
  BY <1>2 DEF RestoreBlock, IInv, EdgeInv, EdgeMirror
<1>4. succs' \in [Blocks -> [Blocks -> Nat]]
  <2>1. succs' = [p \in Blocks |-> [x \in Blocks |-> succs'[p][x]]]
    BY DEF RestoreBlock, IInv, EdgeInv
  <2> QED BY <1>3, <2>1 DEF IInv, EdgeInv
<1>5. EdgeInv' /\ PointerInv'
  BY <1>3, <1>4 DEF RestoreBlock, IInv, EdgeInv, EdgeMirror, PointerInv
<1> QED BY <1>1, <1>5 DEF IInv

\* Every step keeps the invariant, and never changes an id once given.
LEMMA NextIInv ==
  ASSUME FreshTargets, IInv, [Next]_vars
  PROVE  /\ IInv'
         /\ \A b \in Blocks : id[b] # NoId => id'[b] = id[b]
<1> USE NoneAssumption
<1> DEFINE IdsKept == \A b \in Blocks : id[b] # NoId => id'[b] = id[b]
<1>1. ASSUME NEW b \in Blocks, GetId(b) PROVE IInv' /\ IdsKept
  <2>1. IdInv' /\ IdsKept
    BY <1>1, NumberKeepsIds DEF GetId, IInv
  <2>2. EdgeInv' /\ PointerInv'
    BY <1>1 DEF GetId, IInv, EdgeInv, EdgeMirror, PointerInv
  <2> QED BY <2>1, <2>2 DEF IInv
<1>2. ASSUME NEW b \in Blocks, NewBlock(b) PROVE IInv' /\ IdsKept
  <2>1. EndsSet /\ id[b] = NoId
    BY <1>2 DEF NewBlock, Unnumbered
  <2>2. IdInv' /\ IdsKept
    <3>1. \A x \in Blocks : id'[x] = IF x = b THEN blocksNum ELSE id[x]
      BY <1>2 DEF NewBlock, IInv, IdInv
    <3>2. id' \in [Blocks -> Nat \cup {NoId}]
      BY <1>2 DEF NewBlock, IInv, IdInv
    <3> QED BY <1>2, <2>1, <3>1, <3>2
            DEF NewBlock, IInv, IdInv, IdsDistinct, IdsBelow, IdsBeforeEnds,
                EndsSet, NoId
  <2>3. EdgeInv' /\ PointerInv'
    BY <1>2 DEF NewBlock, IInv, EdgeInv, EdgeMirror, PointerInv
  <2> QED BY <2>2, <2>3 DEF IInv
<1>3. ASSUME NEW b \in Blocks, SetRoot(b) PROVE IInv' /\ IdsKept
  <2>1. ~EndsSet
    BY <1>3 DEF SetRoot, EndsSet
  <2>2. \A x \in Blocks : id'[x] = IF x = b THEN 0 ELSE id[x]
    BY <1>3 DEF SetRoot, IInv, IdInv
  <2>3. id' \in [Blocks -> Nat \cup {NoId}]
    BY <1>3 DEF SetRoot, IInv, IdInv
  <2>4. IdInv' /\ IdsKept
    BY <1>3, <2>1, <2>2, <2>3
    DEF SetRoot, IInv, IdInv, IdsDistinct, IdsBelow, IdsBeforeEnds, EndsSet, NoId
  <2>5. EdgeInv' /\ PointerInv'
    BY <1>3 DEF SetRoot, IInv, EdgeInv, EdgeMirror, PointerInv, EndsSet
  <2> QED BY <2>4, <2>5 DEF IInv
<1>4. ASSUME NEW b \in Blocks, SetEnd(b) PROVE IInv' /\ IdsKept
  <2>1. ~EndsSet
    BY <1>4 DEF SetEnd, EndsSet
  <2>2. \A x \in Blocks : id'[x] = IF x = b THEN 1 ELSE id[x]
    BY <1>4 DEF SetEnd, IInv, IdInv
  <2>3. id' \in [Blocks -> Nat \cup {NoId}]
    BY <1>4 DEF SetEnd, IInv, IdInv
  <2>4. IdInv' /\ IdsKept
    BY <1>4, <2>1, <2>2, <2>3
    DEF SetEnd, IInv, IdInv, IdsDistinct, IdsBelow, IdsBeforeEnds, EndsSet, NoId
  <2>5. EdgeInv' /\ PointerInv'
    BY <1>4 DEF SetEnd, IInv, EdgeInv, EdgeMirror, PointerInv, EndsSet
  <2> QED BY <2>4, <2>5 DEF IInv
<1>5. ASSUME NEW b \in Blocks, MoveRoot(b) PROVE IInv' /\ IdsKept
  <2>1. IdInv' /\ IdsKept
    BY <1>5 DEF MoveRoot, IInv, IdInv, IdsDistinct, IdsBelow, IdsBeforeEnds,
                EndsSet
  <2>2. EdgeInv'
    BY <1>5 DEF MoveRoot, LinkEdge, IInv, EdgeInv, EdgeMirror, PointerInv, EndsSet
  <2>3. PointerInv'
    BY <1>5 DEF MoveRoot, IInv, PointerInv, EndsSet
  <2> QED BY <2>1, <2>2, <2>3 DEF IInv
<1>6. ASSUME NEW b \in Blocks, RemoveBlock(b) PROVE IInv' /\ IdsKept
  BY <1>6, RemoveBlockKeeps
<1>7. ASSUME NEW a \in Blocks, NEW b \in Blocks, AddEdge(a, b)
      PROVE  IInv' /\ IdsKept
  <2>1. IdInv' /\ IdsKept
    BY <1>7, SameIds DEF AddEdge, IInv
  <2>2. EdgeInv' /\ PointerInv'
    BY <1>7 DEF AddEdge, LinkEdge, IInv, EdgeInv, EdgeMirror, PointerInv, EndsSet
  <2> QED BY <2>1, <2>2 DEF IInv
<1>8. ASSUME NEW b \in Blocks, NEW c \in Blocks, MoveSuccs(b, c)
      PROVE  IInv' /\ IdsKept
  <2>1. IdInv' /\ IdsKept
    BY <1>8, NumberScannedKeepsIds, SameIds DEF MoveSuccs, MoveSuccsLists, IInv
  <2>2. EdgeInv'
    BY <1>8, MoveSuccsListsKeepsEdges DEF MoveSuccs, IInv
  <2>3. PointerInv'
    BY <1>8 DEF MoveSuccs, IInv, PointerInv, EndsSet
  <2> QED BY <2>1, <2>2, <2>3 DEF IInv
<1>9. ASSUME NEW b \in Blocks, NEW c \in Blocks, MovePreds(b, c)
      PROVE  IInv' /\ IdsKept
  <2>1. IdInv' /\ IdsKept
    BY <1>9, NumberScannedKeepsIds, SameIds DEF MovePreds, IInv
  <2>2. \A x, y \in Blocks : succs[x][y] \in Nat /\ succs[x][y] = preds[y][x]
    BY <1>9 DEF MovePreds, IInv, EdgeInv, EdgeMirror
  <2>3. \A p, s \in Blocks : succs'[p][s] = IF s = b THEN 0
                                            ELSE IF s = c THEN preds[b][p]
                                            ELSE succs[p][s]
    BY <1>9, <2>2 DEF MovePreds, NoEdges
  <2>4. succs' \in [Blocks -> [Blocks -> Nat]]
    <3>1. succs' = [p \in Blocks |-> [s \in Blocks |-> succs'[p][s]]]
      BY <1>9 DEF MovePreds
    <3> QED BY <2>2, <2>3, <3>1 DEF IInv, EdgeInv
  <2>5. preds' = [preds EXCEPT ![c] = preds[b], ![b] = NoEdges]
    BY <1>9 DEF MovePreds
  <2>6. preds' \in [Blocks -> [Blocks -> Nat]]
    BY <2>5 DEF IInv, EdgeInv, NoEdges
  <2>7. \A x, p \in Blocks : preds'[x][p] = IF x = b THEN 0
                                            ELSE IF x = c THEN preds[b][p]
                                            ELSE preds[x][p]
    BY <2>5 DEF IInv, EdgeInv, NoEdges
  <2>8. EdgeMirror'
    <3>1. removed' = None
      BY <1>9 DEF MovePreds
    <3>2. \A p, s \in Blocks : succs'[p][s] = preds'[s][p]
      BY <2>2, <2>3, <2>7
    <3> QED BY <3>1, <3>2 DEF EdgeMirror
  <2>9. PointerInv'
    BY <1>9 DEF MovePreds, IInv, PointerInv, EndsSet
  <2> QED BY <2>1, <2>4, <2>6, <2>8, <2>9 DEF IInv, EdgeInv
<1>10. ASSUME NEW b \in Blocks, NEW c \in Blocks, SplitOn(b, c)
       PROVE  IInv' /\ IdsKept
  <2>1. IdInv' /\ IdsKept
    BY <1>10, NumberScannedKeepsIds, SameIds DEF SplitOn, MoveSuccsLists, IInv
  <2>2. b # c
    BY <1>10 DEF SplitOn
  <2>3. EdgeInv'
    BY <1>10, <2>2, MoveSuccsListsKeepsEdges DEF SplitOn, IInv
  <2>4. PointerInv'
    BY <1>10 DEF SplitOn, IInv, PointerInv, EndsSet
  <2> QED BY <2>1, <2>3, <2>4 DEF IInv
<1>11. ASSUME NEW S \in SUBSET Blocks, SetGraphForBasicBlocks(S)
       PROVE  IInv' /\ IdsKept
  <2>1. IdInv' /\ IdsKept
    BY <1>11, SameIds DEF SetGraphForBasicBlocks, IInv
  <2>2. EdgeInv' /\ PointerInv'
    BY <1>11 DEF SetGraphForBasicBlocks, IInv, EdgeInv, EdgeMirror, PointerInv,
                 EndsSet
  <2> QED BY <2>1, <2>2 DEF IInv
<1>12. ASSUME Traverse PROVE IInv' /\ IdsKept
  BY <1>12, TraverseKeeps
<1>13. ASSUME RestoreBlock PROVE IInv' /\ IdsKept
  BY <1>13, RestoreBlockKeeps
<1>14. ASSUME UNCHANGED vars PROVE IInv' /\ IdsKept
  <2>1. IdInv' /\ IdsKept
    BY <1>14, SameIds DEF vars, IInv
  <2>2. EdgeInv' /\ PointerInv'
    BY <1>14 DEF vars, IInv, EdgeInv, EdgeMirror, PointerInv, EndsSet
  <2> QED BY <2>1, <2>2 DEF IInv
<1> HIDE DEF IdsKept
<1>15. IInv' /\ IdsKept
  BY <1>1, <1>2, <1>3, <1>4, <1>5, <1>6, <1>7, <1>8, <1>9, <1>10, <1>11, <1>12,
     <1>13, <1>14 DEF Next
<1> QED BY <1>15 DEF IdsKept

\* The invariant holds in every reachable state.
THEOREM InvariantHolds == ASSUME FreshTargets PROVE Spec => []IInv
<1>1. Init => IInv
  BY InitIInv
<1>2. IInv /\ [Next]_vars => IInv'
  BY NextIInv
<1> QED BY <1>1, <1>2, PTL DEF Spec

\* Every multiplicity stays a natural number, every pointer a block or null.
THEOREM TypeCorrect == ASSUME FreshTargets PROVE Spec => []TypeOK
<1>1. IInv => TypeOK
  BY DEF IInv, IdInv, EdgeInv, PointerInv, TypeOK
<1> QED BY <1>1, InvariantHolds, PTL

\* The successor and predecessor lists agree on every edge.
THEOREM EdgesMirrored == ASSUME FreshTargets PROVE Spec => []EdgeMirror
<1>1. IInv => EdgeMirror
  BY DEF IInv, EdgeInv
<1> QED BY <1>1, InvariantHolds, PTL

\* No two blocks share an id.
THEOREM IdsAreDistinct == ASSUME FreshTargets PROVE Spec => []IdsDistinct
<1>1. IInv => IdsDistinct
  BY DEF IInv, IdInv
<1> QED BY <1>1, InvariantHolds, PTL

\* A block that has an id keeps it.
THEOREM IdsAreStable == ASSUME FreshTargets PROVE Spec => IdsStable
<1>1. IInv /\ [Next]_vars => [\A b \in Blocks : id[b] # NoId => id'[b] = id[b]]_vars
  BY NextIInv
<1> QED BY <1>1, InvariantHolds, PTL DEF Spec, IdsStable

-----------------------------------------------------------------------------
(***************************************************************************)
(* BlockGraph implements FlowGraph: the bag of edges read off the          *)
(* predecessor lists, which the removal of a block leaves alone.           *)
(***************************************************************************)
Edges == [a \in Blocks |-> [b \in Blocks |-> preds[b][a]]]

LEMMA EdgesUnchanged ==
  ASSUME preds' = preds, UNCHANGED root PROVE UNCHANGED Flow!vars
BY DEF Flow!vars

LEMMA LinkEdgeConnects ==
  ASSUME IInv, NEW a \in Blocks, NEW b \in Blocks, LinkEdge(a, b)
  PROVE  Edges' = [Edges EXCEPT ![a][b] = @ + 1]
<1>1. \A x, y \in Blocks : preds'[y][x] = IF x = a /\ y = b THEN preds[b][a] + 1
                                                            ELSE preds[y][x]
  BY DEF LinkEdge, IInv, EdgeInv
<1>2. Edges' = [x \in Blocks |-> [y \in Blocks |->
                  IF x = a /\ y = b THEN preds[b][a] + 1 ELSE preds[y][x]]]
  BY <1>1 DEF Edges
<1>3. Edges' = [Edges EXCEPT ![a] = [Edges[a] EXCEPT ![b] = Edges[a][b] + 1]]
  BY <1>2 DEF Edges
<1> QED BY <1>3

\* SplitOn and MoveSuccs hand over every outgoing edge.
LEMMA MoveSuccsHandsOver ==
  ASSUME IInv, removed = None, NEW b \in Blocks, NEW c \in Blocks, b # c,
         MoveSuccsLists(b, c), UNCHANGED root
  PROVE  Flow!HandOverOut(b, c)
<1>1. \A x, y \in Blocks : succs[x][y] = preds[y][x] /\ preds[y][x] \in Nat
  BY NoneAssumption DEF IInv, EdgeInv, EdgeMirror
<1>2. \A x, y \in Blocks : preds'[y][x] = CASE x = b -> preds[y][b] - succs[b][y]
                                            [] x = c -> preds[y][c] + succs[b][y]
                                            [] OTHER -> preds[y][x]
  BY DEF MoveSuccsLists
<1>3. \A x, y \in Blocks : preds'[y][x] = CASE x = b -> 0
                                            [] x = c -> preds[y][c] + preds[y][b]
                                            [] OTHER -> preds[y][x]
  BY <1>1, <1>2
<1> QED BY <1>3 DEF Flow!HandOverOut

LEMMA StepImplementsFlow ==
  ASSUME FreshTargets, IInv, [Next]_vars
  PROVE  [Flow!Next]_(Flow!vars)
<1> USE NoneAssumption
<1>1. ASSUME NEW b \in Blocks, GetId(b) \/ NewBlock(b) \/ SetEnd(b) \/ RemoveBlock(b)
      PROVE  UNCHANGED Flow!vars
  BY <1>1, EdgesUnchanged DEF GetId, NewBlock, SetEnd, RemoveBlock
<1>2. ASSUME NEW b \in Blocks, SetRoot(b) PROVE Flow!Next
  BY <1>2 DEF SetRoot, Flow!Next, Flow!ChooseEntry
<1>3. ASSUME NEW b \in Blocks, MoveRoot(b) PROVE Flow!Next
  <2>1. Edges' = [Edges EXCEPT ![b][root] = @ + 1]
    BY <1>3, LinkEdgeConnects DEF MoveRoot, IInv, PointerInv, EndsSet
  <2>2. Flow!Prepend(b)
    BY <1>3, <2>1 DEF MoveRoot, EndsSet, Edges, Flow!Prepend
  <2> QED BY <2>2 DEF Flow!Next
<1>4. ASSUME NEW a \in Blocks, NEW b \in Blocks, AddEdge(a, b) PROVE Flow!Next
  <2>1. Flow!Connect(a, b)
    BY <1>4, LinkEdgeConnects DEF AddEdge, Edges, Flow!Connect
  <2> QED BY <2>1 DEF Flow!Next
<1>5. ASSUME NEW b \in Blocks, NEW c \in Blocks, MoveSuccs(b, c) PROVE Flow!Next
  <2>1. Flow!HandOverOut(b, c)
    BY <1>5, MoveSuccsHandsOver DEF MoveSuccs
  <2> QED BY <1>5, <2>1 DEF MoveSuccs, Flow!Next
<1>6. ASSUME NEW b \in Blocks, NEW c \in Blocks, SplitOn(b, c) PROVE Flow!Next
  <2>1. b # c
    BY <1>6 DEF SplitOn
  <2>2. Flow!HandOverOut(b, c)
    BY <1>6, <2>1, MoveSuccsHandsOver DEF SplitOn
  <2> QED BY <2>1, <2>2 DEF Flow!Next
<1>7. ASSUME NEW b \in Blocks, NEW c \in Blocks, MovePreds(b, c) PROVE Flow!Next
  <2>1. \A x, y \in Blocks : preds[y][x] \in Nat
    BY DEF IInv, EdgeInv
  <2>2. preds' = [preds EXCEPT ![c] = preds[b], ![b] = NoEdges]
        /\ b # c /\ preds[c] = NoEdges
    BY <1>7 DEF MovePreds
  <2>3. \A x, y \in Blocks : preds'[y][x] = CASE y = b -> 0
                                              [] y = c -> preds[c][x] + preds[b][x]
                                              [] OTHER -> preds[y][x]
    BY <2>1, <2>2 DEF IInv, EdgeInv, NoEdges
  <2>4. UNCHANGED root
    BY <1>7 DEF MovePreds
  <2>5. Flow!HandOverIn(b, c)
    BY <2>3, <2>4 DEF Flow!HandOverIn
  <2> QED BY <2>2, <2>5 DEF Flow!Next
<1>8. ASSUME \/ \E S \in SUBSET Blocks : SetGraphForBasicBlocks(S)
             \/ Traverse \/ RestoreBlock \/ UNCHANGED vars
      PROVE  UNCHANGED Flow!vars
  BY <1>8, EdgesUnchanged DEF SetGraphForBasicBlocks, Traverse, RestoreBlock, vars
<1> QED BY <1>1, <1>2, <1>3, <1>4, <1>5, <1>6, <1>7, <1>8 DEF Next

\* BlockGraph implements the abstract bag of edges.
THEOREM ImplementsFlowGraph == ASSUME FreshTargets PROVE Spec => FlowSpec
<1>1. Init => Flow!Init
  BY DEF Init, BareGraph, WholeGraph, NoEdges, Flow!Init
<1>2. IInv /\ [Next]_vars => [Flow!Next]_(Flow!vars)
  BY StepImplementsFlow
<1> QED BY <1>1, <1>2, InvariantHolds, PTL DEF Spec, FlowSpec, Flow!Spec

-----------------------------------------------------------------------------
(***************************************************************************)
(* DomTree.                                                                *)
(***************************************************************************)
Distinct(s) == \A i, j \in 1 .. Len(s) : s[i] = s[j] => i = j

LEMMA AppendSet ==
  ASSUME NEW S, NEW s \in Seq(S), NEW e \in S
  PROVE  /\ Append(s, e) \in Seq(S)
         /\ ToSet(Append(s, e)) = ToSet(s) \cup {e}
         /\ Distinct(s) /\ e \notin ToSet(s) => Distinct(Append(s, e))
<1>1. /\ Append(s, e) \in Seq(S)
      /\ Len(Append(s, e)) = Len(s) + 1 /\ Len(s) \in Nat
      /\ \A i \in 1 .. Len(s) : Append(s, e)[i] = s[i]
      /\ Append(s, e)[Len(s) + 1] = e
  BY AppendProperties, LenProperties
<1>2. DOMAIN s = 1 .. Len(s) /\ DOMAIN Append(s, e) = 1 .. Len(s) + 1
  BY <1>1, LenProperties
<1>3. ToSet(Append(s, e)) = ToSet(s) \cup {e}
  BY <1>1, <1>2 DEF ToSet
<1>4. ASSUME Distinct(s), e \notin ToSet(s) PROVE Distinct(Append(s, e))
  BY <1>1, <1>2, <1>4 DEF ToSet, Distinct
<1> QED BY <1>1, <1>3, <1>4

LEMMA TailSet ==
  ASSUME NEW S, NEW s \in Seq(S), s # << >>
  PROVE  /\ Head(s) \in S /\ Tail(s) \in Seq(S)
         /\ ToSet(s) = ToSet(Tail(s)) \cup {Head(s)}
         /\ Distinct(s) => Distinct(Tail(s)) /\ Head(s) \notin ToSet(Tail(s))
<1>1. /\ Head(s) \in S /\ Tail(s) \in Seq(S)
      /\ Len(Tail(s)) = Len(s) - 1
      /\ \A i \in 1 .. Len(Tail(s)) : Tail(s)[i] = s[i + 1]
  BY HeadTailProperties
<1>2. Head(s) = s[1] /\ Len(s) \in Nat \ {0}
  BY EmptySeq
<1>3. DOMAIN s = 1 .. Len(s) /\ DOMAIN Tail(s) = 1 .. Len(s) - 1
  BY <1>1, LenProperties
<1>4. ToSet(s) \subseteq ToSet(Tail(s)) \cup {Head(s)}
  <2> SUFFICES ASSUME NEW i \in 1 .. Len(s)
               PROVE  s[i] \in ToSet(Tail(s)) \cup {Head(s)}
    BY <1>3 DEF ToSet
  <2>1. CASE i = 1
    BY <1>2, <2>1
  <2>2. CASE i # 1
    <3>1. i - 1 \in 1 .. Len(s) - 1 /\ Tail(s)[i - 1] = s[i]
      BY <1>1, <1>2, <2>2
    <3> QED BY <1>3, <3>1 DEF ToSet
  <2> QED BY <2>1, <2>2
<1>5. ToSet(Tail(s)) \cup {Head(s)} \subseteq ToSet(s)
  BY <1>1, <1>2, <1>3 DEF ToSet
<1>6. ASSUME Distinct(s) PROVE Distinct(Tail(s)) /\ Head(s) \notin ToSet(Tail(s))
  BY <1>1, <1>2, <1>3, <1>6 DEF ToSet, Distinct
<1> QED BY <1>1, <1>4, <1>5, <1>6

\* A listing of a finite set without repetition meets all of it.
LEMMA ListingSet ==
  ASSUME NEW S, IsFiniteSet(S), NEW s \in SetToSeqs(S)
  PROVE  s \in Seq(S) /\ Distinct(s) /\ ToSet(s) = S
<1> DEFINE n == Cardinality(S)
<1>1. n \in Nat
  BY FS_CardinalityType
<1>2. s \in [1 .. n -> S] /\ \A i, j \in 1 .. n : s[i] = s[j] => i = j
  BY DEF SetToSeqs
<1>3. s \in Seq(S) /\ Len(s) = n /\ DOMAIN s = 1 .. n
  BY <1>1, <1>2, SeqDef
<1>4. s \in Injection(1 .. n, S)
  BY <1>2, Fun_IsInj
<1>5. Cardinality(1 .. n) = n
  BY <1>1, FS_Interval
<1>6. s \in Surjection(1 .. n, S)
  BY <1>4, <1>5, FS_Injection
<1>7. \A t \in S : \E i \in 1 .. n : s[i] = t
  BY <1>6 DEF Surjection
<1>8. ToSet(s) = S
  BY <1>2, <1>3, <1>7 DEF ToSet
<1> QED BY <1>2, <1>3, <1>8 DEF Distinct

-----------------------------------------------------------------------------
\* The whole graph: the successors of every block when none is taken out.
FullSuccs == [a \in Blocks |-> {b \in Blocks : preds[b][a] > 0}]
All == Reach(FullSuccs, Entry)

\* Strict domination, by what the reduced walks can see: the root strictly
\* dominates every other block, and any other block those it cuts off.
Cuts(d, b) == d # b /\ (d = Entry \/ b \notin Left(FullSuccs, Entry, d))
Missed(d) == {b \in All : b # d /\ b \notin Left(FullSuccs, Entry, d)}

\* The blocks the current, first run has yet to record as dominators, and those
\* whose own list has yet to get the root.
ToRecord == IF runs = 0 THEN All
            ELSE IF runs = 1 /\ pc \notin {"idle", "imm"} THEN ToSet(todo) ELSE {}
ToStart == IF pc \in {"walk", "restore", "record"} THEN ToRecord \ {Head(todo)}
                                                   ELSE ToRecord
ToChoose == IF runs = 0 \/ (runs = 1 /\ pc \notin {"idle", "imm"}) THEN All
            ELSE IF runs = 1 /\ pc = "imm" THEN ToSet(todo) ELSE {}

Listed(b) == {d \in All \ ToRecord : d # Entry /\ Cuts(d, b)}
             \cup (IF b \in ToStart THEN {} ELSE {Entry})

GraphInv == IInv /\ root = Entry /\ end = Exit

PhaseInv ==
  /\ pc \in {"idle", "remove", "walk", "restore", "record", "imm"}
  /\ runs \in Nat
  /\ dfsBlocks \in Seq(All) /\ todo \in Seq(All)
  /\ Distinct(dfsBlocks) /\ Distinct(todo)
  /\ pc # "idle" => runs > 0 /\ ToSet(dfsBlocks) = All
  /\ pc \in {"walk", "restore", "record"} => todo # << >>
  /\ removed = IF pc \in {"walk", "restore"} THEN Head(todo) ELSE None
  /\ pc \in {"restore", "record"} => missing = Missed(Head(todo))

ListInv ==
  /\ domBlocks \in [Blocks -> Seq(Blocks)]
  /\ \A b \in All : ToSet(domBlocks[b]) = Listed(b)
  /\ runs <= 1 => \A b \in All : Distinct(domBlocks[b])

Closest(d, b) == IF b = Entry THEN d = Entry
                 ELSE /\ d \in All /\ Cuts(d, b)
                      /\ \A c \in All : Cuts(c, b) /\ c # d => Cuts(c, d)

ImmInv ==
  /\ immDom \in [Blocks -> Blocks \cup {None}]
  /\ \A b \in All \ ToChoose : Closest(immDom[b], b)
  /\ runs <= 1 => result # "false"

DomInv == GraphInv /\ PhaseInv /\ ListInv /\ ImmInv

-----------------------------------------------------------------------------
(***************************************************************************)
(* The graph under the pass.                                               *)
(***************************************************************************)
LEMMA FullSuccsTyped == \A a \in Blocks : FullSuccs[a] \subseteq Blocks
BY DEF FullSuccs

LEMMA AllTyped == All \subseteq Blocks /\ IsFiniteSet(All) /\ Entry \in All
<1>1. All \subseteq Blocks /\ Entry \in All
  BY ReachBlocks, ReachSelf, EndsAssumption DEF All
<1> QED BY <1>1, FS_Subset, BlocksAssumption

\* What a walk sees is the whole graph, without the edges into the block that
\* is taken out.
LEMMA WalkSees ==
  ASSUME EdgeInv
  PROVE  SuccSets = IF removed = None THEN FullSuccs ELSE NoEdgeTo(FullSuccs, removed)
<1>1. \A a, b \in Blocks : b \in SuccsOf({a}) <=> b # removed /\ preds[b][a] > 0
  BY DEF EdgeInv, EdgeMirror, SuccsOf
<1>2. \A a \in Blocks : SuccsOf({a}) \subseteq Blocks
  BY DEF SuccsOf
<1>3. CASE removed = None
  <2>1. \A a \in Blocks : SuccsOf({a}) = {b \in Blocks : preds[b][a] > 0}
    BY <1>1, <1>2, <1>3, NoneAssumption
  <2> QED BY <1>3, <2>1 DEF SuccSets, FullSuccs
<1>4. CASE removed # None
  <2>1. \A a \in Blocks : SuccsOf({a}) = {b \in Blocks : preds[b][a] > 0} \ {removed}
    BY <1>1, <1>2
  <2> QED BY <1>4, <2>1 DEF SuccSets, FullSuccs, NoEdgeTo
<1> QED BY <1>3, <1>4

LEMMA WalkReaches ==
  ASSUME GraphInv
  PROVE  Reachable = IF removed = None THEN All ELSE Left(FullSuccs, Entry, removed)
BY WalkSees DEF GraphInv, IInv, Reachable, All, Left

\* A path of n blocks from the root that repeats none.
SimplePath(p, n) == /\ p \in [1 .. n -> Blocks] /\ p[1] = Entry
                    /\ \A i, j \in 1 .. n : p[i] = p[j] => i = j
                    /\ \A i \in 2 .. n : p[i] \in FullSuccs[p[i - 1]]

LEMMA SimplePathShort ==
  ASSUME NEW n \in Nat, NEW p, SimplePath(p, n) PROVE n <= Cardinality(Blocks)
<1>1. p \in Injection(1 .. n, Blocks)
  BY Fun_IsInj DEF SimplePath
<1>2. Cardinality(1 .. n) = n
  BY FS_Interval
<1> QED BY <1>1, <1>2, FS_Injection, BlocksAssumption

LEMMA SimplePathStart == SimplePath([i \in 1 .. 1 |-> Entry], 1)
BY EndsAssumption DEF SimplePath

LEMMA SimplePathPrefix ==
  ASSUME NEW n \in Nat, NEW p, SimplePath(p, n), NEW k \in 1 .. n
  PROVE  SimplePath([i \in 1 .. k |-> p[i]], k)
<1> DEFINE q == [i \in 1 .. k |-> p[i]]
<1>1. \A i \in 1 .. k : i \in 1 .. n /\ q[i] = p[i]
  OBVIOUS
<1>2. q \in [1 .. k -> Blocks]
  BY <1>1 DEF SimplePath
<1>3. \A i \in 2 .. k : i \in 2 .. n /\ i \in 1 .. k /\ i - 1 \in 1 .. k
  OBVIOUS
<1>4. 1 \in 1 .. k
  OBVIOUS
<1> HIDE DEF q
<1>5. q[1] = Entry /\ \A i, j \in 1 .. k : q[i] = q[j] => i = j
  BY <1>1, <1>4 DEF SimplePath
<1>6. \A i \in 2 .. k : q[i] \in FullSuccs[q[i - 1]]
  BY <1>1, <1>3 DEF SimplePath
<1>7. SimplePath(q, k)
  BY <1>2, <1>5, <1>6 DEF SimplePath
<1> QED BY <1>7 DEF q

LEMMA SimplePathExtend ==
  ASSUME NEW n \in Nat \ {0}, NEW p, SimplePath(p, n), NEW y \in FullSuccs[p[n]],
         y \in Blocks, \A i \in 1 .. n : p[i] # y
  PROVE  SimplePath([i \in 1 .. n + 1 |-> IF i = n + 1 THEN y ELSE p[i]], n + 1)
<1> DEFINE q == [i \in 1 .. n + 1 |-> IF i = n + 1 THEN y ELSE p[i]]
<1>1. /\ \A i \in 1 .. n : q[i] = p[i]
      /\ q[n + 1] = y
      /\ \A i \in 1 .. n + 1 : i \in 1 .. n \/ i = n + 1
  OBVIOUS
<1>2. q = [i \in 1 .. n + 1 |-> q[i]]
  OBVIOUS
<1> HIDE DEF q
<1>3. \A i \in 1 .. n + 1 : q[i] \in Blocks
  BY <1>1 DEF SimplePath
<1>4. q \in [1 .. n + 1 -> Blocks]
  BY <1>2, <1>3
<1>5. q[1] = Entry
  BY <1>1 DEF SimplePath
<1>6. \A i, j \in 1 .. n + 1 : q[i] = q[j] => i = j
  BY <1>1 DEF SimplePath
<1>7. \A i \in 2 .. n + 1 : q[i] \in FullSuccs[q[i - 1]]
  <2> SUFFICES ASSUME NEW i \in 2 .. n + 1 PROVE q[i] \in FullSuccs[q[i - 1]]
    OBVIOUS
  <2>1. i - 1 \in 1 .. n /\ q[i - 1] = p[i - 1]
    BY <1>1
  <2>2. CASE i = n + 1
    BY <1>1, <2>1, <2>2
  <2>3. CASE i # n + 1
    <3>1. i \in 1 .. n /\ i \in 2 .. n
      BY <2>3
    <3> QED BY <1>1, <2>1, <3>1 DEF SimplePath
  <2> QED BY <2>2, <2>3
<1>8. SimplePath(q, n + 1)
  BY <1>4, <1>5, <1>6, <1>7 DEF SimplePath
<1> QED BY <1>8 DEF q

\* A block that a path reaches without meeting d is still reached when no edge
\* leads to d.
LEMMA SimplePathSurvives ==
  ASSUME NEW n \in Nat \ {0}, NEW p, SimplePath(p, n), NEW d,
         \A i \in 1 .. n : p[i] # d
  PROVE  p[n] \in Left(FullSuccs, Entry, d)
<1> DEFINE L == Left(FullSuccs, Entry, d)
           Out == {i \in 1 .. n : p[i] \notin L}
<1>1. Out \in SUBSET Nat
  OBVIOUS
<1>2. ASSUME Out # {} PROVE FALSE
  <2>1. PICK m \in Out : \A k \in Out : m <= k
    <3> HIDE DEF Out
    <3> QED BY <1>1, <1>2, LeastNatural
  <2>2. m # 1
    BY LeftSelf, EndsAssumption DEF SimplePath
  <2>3. m \in 2 .. n /\ m \in 1 .. n /\ m - 1 \in 1 .. n
    BY <2>2
  <2>4. p[m - 1] \in L
    BY <2>1, <2>3
  <2>5. p[m] \in FullSuccs[p[m - 1]] /\ p[m] \in Blocks /\ p[m] # d
    BY <2>3 DEF SimplePath
  <2>6. p[m] \in L
    BY <2>4, <2>5, LeftStep
  <2> QED BY <2>1, <2>6
<1>3. n \in 1 .. n
  OBVIOUS
<1> QED BY <1>2, <1>3

\* Conversely, what is reached then is reached along a path that repeats no
\* block and does not meet d.
LEMMA SimplePathExists ==
  ASSUME NEW d, d # Entry, NEW b \in Left(FullSuccs, Entry, d)
  PROVE  \E n \in Nat \ {0} : \E p : /\ SimplePath(p, n) /\ p[n] = b
                                    /\ \A i \in 1 .. n : p[i] # d
<1> DEFINE Avoids(p, n, x) == /\ SimplePath(p, n) /\ p[n] = x
                              /\ \A i \in 1 .. n : p[i] # d
           Ends == {x \in Blocks : \E n \in Nat \ {0} : \E p : Avoids(p, n, x)}
<1>1. Entry \in Ends
  <2> DEFINE p == [i \in 1 .. 1 |-> Entry]
  <2>1. p[1] = Entry /\ \A i \in 1 .. 1 : p[i] = Entry
    OBVIOUS
  <2>2. SimplePath(p, 1)
    BY SimplePathStart
  <2> HIDE DEF p
  <2>3. Avoids(p, 1, Entry)
    BY <2>1, <2>2
  <2> QED BY <2>3, EndsAssumption
<1>2. ASSUME NEW x \in Ends, NEW y \in FullSuccs[x] \ {d} PROVE y \in Ends
  <2>0. PICK n \in Nat \ {0} : \E p : Avoids(p, n, x)
    OBVIOUS
  <2>1. PICK p : Avoids(p, n, x)
    BY <2>0
  <2>2. y \in Blocks
    BY FullSuccsTyped
  <2>3. CASE \E k \in 1 .. n : p[k] = y
    <3>1. PICK k \in 1 .. n : p[k] = y
      BY <2>3
    <3> DEFINE q == [i \in 1 .. k |-> p[i]]
    <3>2. SimplePath(q, k)
      BY <2>1, SimplePathPrefix
    <3>3. q[k] = y /\ \A i \in 1 .. k : q[i] # d
      BY <2>1, <3>1
    <3> HIDE DEF q
    <3>4. Avoids(q, k, y) /\ k \in Nat \ {0}
      BY <3>2, <3>3
    <3> QED BY <2>2, <3>4
  <2>4. CASE ~ \E k \in 1 .. n : p[k] = y
    <3> DEFINE q == [i \in 1 .. n + 1 |-> IF i = n + 1 THEN y ELSE p[i]]
    <3>1. SimplePath(q, n + 1)
      BY <2>1, <2>2, <2>4, SimplePathExtend
    <3>2. q[n + 1] = y /\ \A i \in 1 .. n + 1 : q[i] # d
      BY <2>1
    <3> HIDE DEF q
    <3>3. Avoids(q, n + 1, y) /\ n + 1 \in Nat \ {0}
      BY <3>1, <3>2
    <3> QED BY <2>2, <3>3
  <2> QED BY <2>3, <2>4
<1>3. Left(FullSuccs, Entry, d) \subseteq Ends
  <2>1. Ends \in SUBSET Blocks
    OBVIOUS
  <2> HIDE DEF Ends
  <2> QED BY <1>1, <1>2, <2>1, LeftLeast, EndsAssumption
<1> QED BY <1>3

\* The reference of the properties, every simple path, in these terms.
LEMMA PathsAreSimple ==
  ASSUME GraphInv, removed = None, NEW p
  PROVE  p \in Paths <=> \E n \in Nat \ {0} : SimplePath(p, n)
<1>1. \A a \in Blocks : SuccsOf({a}) = FullSuccs[a]
  BY WalkSees DEF GraphInv, IInv, SuccSets
<1>2. root = Entry /\ Cardinality(Blocks) \in Nat
  BY BlocksAssumption, FS_CardinalityType DEF GraphInv
<1>3. ASSUME NEW n \in Nat \ {0}, p \in [1 .. n -> Blocks]
      PROVE  IsSimplePath(p) <=> SimplePath(p, n)
  <2>1. DOMAIN p = 1 .. n /\ DOMAIN p \ {1} = 2 .. n
    BY <1>3
  <2>2. \A i \in 2 .. n : SuccsOf({p[i - 1]}) = FullSuccs[p[i - 1]]
    <3>1. \A i \in 2 .. n : p[i - 1] \in Blocks
      BY <1>3
    <3> QED BY <1>1, <3>1
  <2>3. (\A i \in DOMAIN p \ {1} : p[i] \in SuccsOf({p[i - 1]}))
          <=> \A i \in 2 .. n : p[i] \in FullSuccs[p[i - 1]]
    BY <2>1, <2>2, Zenon
  <2>4. (\A i, j \in DOMAIN p : p[i] = p[j] => i = j)
          <=> \A i, j \in 1 .. n : p[i] = p[j] => i = j
    BY <2>1, Zenon
  <2> QED BY <1>2, <1>3, <2>3, <2>4, Zenon DEF IsSimplePath, SimplePath
<1>4. ASSUME p \in Paths PROVE \E n \in Nat \ {0} : SimplePath(p, n)
  <2>1. PICK n \in 1 .. Cardinality(Blocks) : p \in [1 .. n -> Blocks] /\ IsSimplePath(p)
    BY <1>4 DEF Paths
  <2> QED BY <1>2, <1>3, <2>1
<1>5. ASSUME NEW n \in Nat \ {0}, SimplePath(p, n) PROVE p \in Paths
  <2>1. p \in [1 .. n -> Blocks] /\ n \in 1 .. Cardinality(Blocks)
    BY <1>2, <1>5, SimplePathShort DEF SimplePath
  <2> QED BY <1>3, <1>5, <2>1 DEF Paths
<1> QED BY <1>4, <1>5

LEMMA SimplePathEnds ==
  ASSUME NEW n \in Nat \ {0}, NEW p, SimplePath(p, n), NEW d
  PROVE  /\ Last(p) = p[n]
         /\ Contains(p, d) <=> \E i \in 1 .. n : p[i] = d
<1>1. Len(p) = n
  BY SeqDef, LenProperties DEF SimplePath
<1> QED BY <1>1 DEF Last, Contains

\* The reduced walks see exactly what the paths say: b is cut off by d if and
\* only if every path to b passes d.
LEMMA CutsAreStrictDominators ==
  ASSUME GraphInv, removed = None, NEW b \in All, NEW d \in All
  PROVE  StrictlyDominates(Paths, d, b) <=> Cuts(d, b)
<1>1. CASE d = Entry
  <2>1. ASSUME NEW p \in Paths PROVE Contains(p, Entry)
    <3>1. PICK n \in Nat \ {0} : SimplePath(p, n)
      BY PathsAreSimple
    <3>2. 1 \in 1 .. n /\ p[1] = Entry
      BY <3>1 DEF SimplePath
    <3> QED BY <3>1, <3>2, SimplePathEnds
  <2> QED BY <1>1, <2>1 DEF StrictlyDominates, Cuts
<1>2. CASE d # Entry
  <2>1. ASSUME b \in Left(FullSuccs, Entry, d)
        PROVE  \E p \in Paths : Last(p) = b /\ ~ Contains(p, d)
    <3>0. PICK n \in Nat \ {0} : \E p : /\ SimplePath(p, n) /\ p[n] = b
                                        /\ \A i \in 1 .. n : p[i] # d
      BY <1>2, <2>1, SimplePathExists
    <3>1. PICK p : /\ SimplePath(p, n) /\ p[n] = b
                   /\ \A i \in 1 .. n : p[i] # d
      BY <3>0
    <3>2. p \in Paths
      BY <3>1, PathsAreSimple
    <3> QED BY <3>1, <3>2, SimplePathEnds
  <2>2. ASSUME NEW p \in Paths, Last(p) = b, ~ Contains(p, d)
        PROVE  b \in Left(FullSuccs, Entry, d)
    <3>1. PICK n \in Nat \ {0} : SimplePath(p, n)
      BY PathsAreSimple
    <3> QED BY <2>2, <3>1, SimplePathEnds, SimplePathSurvives
  <2> QED BY <1>2, <2>1, <2>2 DEF StrictlyDominates, Cuts
<1> QED BY <1>1, <1>2

-----------------------------------------------------------------------------
(***************************************************************************)
(* The steps.  None touches a predecessor list, so the whole graph, its    *)
(* blocks and what cuts them off stay what they are.                       *)
(***************************************************************************)
LEMMA SameGraph ==
  ASSUME preds' = preds
  PROVE  /\ FullSuccs' = FullSuccs /\ All' = All
         /\ \A d, b : (Cuts(d, b))' <=> Cuts(d, b)
         /\ \A d : (Missed(d))' = Missed(d)
         /\ \A d, b : (Closest(d, b))' <=> Closest(d, b)
<1>1. FullSuccs' = FullSuccs
  BY DEF FullSuccs
<1>2. All' = All
  BY <1>1 DEF All
<1>3. \A d, b : (Cuts(d, b))' <=> Cuts(d, b)
  BY <1>1 DEF Cuts
<1>4. \A d : (Missed(d))' = Missed(d)
  BY <1>1, <1>2 DEF Missed
<1>5. \A d, b : (Closest(d, b))' <=> Closest(d, b)
  BY <1>2, <1>3 DEF Closest
<1> QED BY <1>1, <1>2, <1>3, <1>4, <1>5

LEMMA GraphStep ==
  ASSUME GraphInv, [DomNext]_allVars
  PROVE  GraphInv' /\ preds' = preds
<1>1. ASSUME Traverse PROVE GraphInv' /\ preds' = preds
  BY <1>1, TraverseKeeps DEF GraphInv, Traverse
<1>2. ASSUME NEW b \in Blocks, RemoveBlock(b) PROVE GraphInv' /\ preds' = preds
  BY <1>2, RemoveBlockKeeps DEF GraphInv, RemoveBlock
<1>3. ASSUME RestoreBlock PROVE GraphInv' /\ preds' = preds
  BY <1>3, RestoreBlockKeeps DEF GraphInv, RestoreBlock
<1>4. ASSUME UNCHANGED vars PROVE GraphInv' /\ preds' = preds
  <2>1. IdInv'
    BY <1>4, SameIds DEF vars, GraphInv, IInv
  <2>2. EdgeInv' /\ PointerInv'
    BY <1>4 DEF vars, GraphInv, IInv, EdgeInv, EdgeMirror, PointerInv, EndsSet
  <2> QED BY <1>4, <2>1, <2>2 DEF vars, GraphInv, IInv
<1>5. CASE Start
  BY <1>1, <1>5 DEF Start
<1>6. CASE TakeOut
  <2>1. RemoveBlock(Head(todo)) /\ Head(todo) \in Blocks
    BY <1>6 DEF TakeOut, RemoveBlock, Reachable, Reach
  <2> QED BY <1>2, <2>1
<1>7. CASE WalkWithout
  BY <1>1, <1>7 DEF WalkWithout
<1>8. CASE PutBack
  BY <1>3, <1>8 DEF PutBack
<1>9. CASE Record
  BY <1>1, <1>4, <1>9 DEF Record
<1>10. CASE StartImm \/ SetImmDom \/ Fail \/ Succeed \/ UNCHANGED allVars
  <2>1. UNCHANGED vars
    BY <1>10 DEF StartImm, SetImmDom, Fail, Succeed, Finish, allVars
  <2> QED BY <1>4, <2>1
<1> QED BY <1>5, <1>6, <1>7, <1>8, <1>9, <1>10 DEF DomNext, Step

LEMMA PhaseStep ==
  ASSUME GraphInv, PhaseInv, [DomNext]_allVars
  PROVE  PhaseInv'
<1>1. GraphInv' /\ preds' = preds
  BY GraphStep
<1>2. All' = All /\ \A d : (Missed(d))' = Missed(d)
  BY <1>1, SameGraph
<1>3. CASE Start
  <2>1. removed = None /\ Reachable = All
    BY <1>3, WalkReaches DEF Start, PhaseInv
  <2>2. dfsBlocks' \in SetToSeqs(All) /\ todo' = dfsBlocks' /\ removed' = None
    BY <1>3, <2>1 DEF Start, Traverse
  <2>3. dfsBlocks' \in Seq(All) /\ Distinct(dfsBlocks') /\ ToSet(dfsBlocks') = All
    BY <2>2, ListingSet, AllTyped
  <2>4. runs' \in Nat /\ runs' > 0 /\ pc' = "remove"
    BY <1>3 DEF Start, PhaseInv
  <2> QED BY <1>2, <2>2, <2>3, <2>4 DEF PhaseInv
<1>4. CASE TakeOut
  BY <1>2, <1>4 DEF TakeOut, PhaseInv, RemoveBlock
<1>5. CASE WalkWithout
  <2>1. removed = Head(todo) /\ removed \in Blocks
    BY <1>5, TailSet, AllTyped DEF WalkWithout, PhaseInv
  <2>2. Reachable = Left(FullSuccs, Entry, removed)
    BY <2>1, WalkReaches, NoneAssumption
  <2>3. missing' = Missed(Head(todo))
    BY <1>5, <2>1, <2>2 DEF WalkWithout, PhaseInv, Missed
  <2>4. removed' = removed
    BY <1>5 DEF WalkWithout, Traverse
  <2> QED BY <1>2, <1>5, <2>3, <2>4 DEF WalkWithout, PhaseInv
<1>6. CASE PutBack
  BY <1>2, <1>6 DEF PutBack, PhaseInv, RestoreBlock
<1>7. CASE Record
  <2>1. removed' = removed
    BY <1>7 DEF Record, vars, Traverse
  <2>2. Tail(todo) \in Seq(All) /\ Distinct(Tail(todo))
    BY <1>7, TailSet DEF Record, PhaseInv
  <2> QED BY <1>2, <1>7, <2>1, <2>2 DEF Record, PhaseInv
<1>8. CASE StartImm
  BY <1>2, <1>8 DEF StartImm, PhaseInv, vars
<1>9. CASE SetImmDom
  <2>1. Tail(todo) \in Seq(All) /\ Distinct(Tail(todo))
    BY <1>9, TailSet DEF SetImmDom, PhaseInv
  <2> QED BY <1>2, <1>9, <2>1 DEF SetImmDom, PhaseInv, vars
<1>10. CASE Fail \/ Succeed
  BY <1>2, <1>10 DEF Fail, Succeed, Finish, PhaseInv, vars
<1>11. CASE UNCHANGED allVars
  BY <1>2, <1>11 DEF allVars, vars, domVars, PhaseInv
<1> QED BY <1>3, <1>4, <1>5, <1>6, <1>7, <1>8, <1>9, <1>10, <1>11 DEF DomNext, Step

\* Only the first run still has something to record, and then what it has not
\* taken from its list yet.
LEMMA HeadIsNew ==
  ASSUME GraphInv, PhaseInv, pc # "idle", todo # << >>
  PROVE  /\ Head(todo) \in All
         /\ ToSet(Tail(todo)) = ToSet(todo) \ {Head(todo)}
         /\ runs = 1 /\ pc # "imm" => Head(todo) \in ToRecord
<1>1. /\ Head(todo) \in All
      /\ ToSet(todo) = ToSet(Tail(todo)) \cup {Head(todo)}
      /\ Head(todo) \notin ToSet(Tail(todo))
  BY TailSet DEF PhaseInv
<1> QED BY <1>1 DEF ToRecord

\* A list as it is now and as it was, when the sets it depends on change.
LEMMA ListedNow ==
  ASSUME preds' = preds, NEW b \in All
  PROVE  (Listed(b))' = {d \in All \ ToRecord' : d # Entry /\ Cuts(d, b)}
                        \cup (IF b \in ToStart' THEN {} ELSE {Entry})
<1>1. All' = All /\ \A d, x : (Cuts(d, x))' <=> Cuts(d, x)
  BY SameGraph
<1> QED BY <1>1 DEF Listed

LEMMA ListsUntouched ==
  ASSUME ListInv, preds' = preds, UNCHANGED domBlocks, ToRecord' = ToRecord,
         ToStart' = ToStart, runs' <= 1 => runs <= 1
  PROVE  ListInv'
<1>1. All' = All /\ \A b \in All : (Listed(b))' = Listed(b)
  BY SameGraph, ListedNow DEF Listed
<1> QED BY <1>1 DEF ListInv, Distinct

LEMMA TakeOutLists ==
  ASSUME GraphInv, PhaseInv, ListInv, preds' = preds, TakeOut
  PROVE  ListInv'
<1> DEFINE h == Head(todo)
<1>1. h \in All /\ h \in Blocks /\ root = Entry /\ All' = All
  BY HeadIsNew, AllTyped, SameGraph DEF TakeOut, GraphInv
<1>2. ToRecord' = ToRecord /\ ToStart' = ToRecord \ {h} /\ ToStart = ToRecord
  BY <1>1 DEF TakeOut, ToRecord, ToStart
<1>3. domBlocks' = [domBlocks EXCEPT ![h] = Append(@, Entry)]
  BY <1>1 DEF TakeOut
<1>4. Append(domBlocks[h], Entry) \in Seq(Blocks)
      /\ ToSet(Append(domBlocks[h], Entry)) = ToSet(domBlocks[h]) \cup {Entry}
  BY <1>1, AppendSet, EndsAssumption DEF ListInv
<1>5. domBlocks' \in [Blocks -> Seq(Blocks)]
  BY <1>1, <1>3, <1>4 DEF ListInv
<1>6. ASSUME NEW b \in All PROVE ToSet(domBlocks'[b]) = (Listed(b))'
  <2>1. (Listed(b))' = Listed(b) \cup (IF b = h THEN {Entry} ELSE {})
    BY <1>2, ListedNow DEF Listed
  <2>2. CASE b = h
    BY <1>1, <1>3, <1>4, <2>1, <2>2 DEF ListInv
  <2>3. CASE b # h
    BY <1>1, <1>3, <2>1, <2>3, AllTyped DEF ListInv
  <2> QED BY <2>2, <2>3
<1>7. ASSUME runs' <= 1, NEW b \in All PROVE Distinct(domBlocks'[b])
  <2>1. runs = 1
    BY <1>7 DEF TakeOut, PhaseInv
  <2>2. CASE b = h
    <3>1. h \in ToStart
      BY <1>2, <2>1, HeadIsNew DEF TakeOut
    <3>2. Entry \notin ToSet(domBlocks[h])
      BY <1>1, <3>1 DEF ListInv, Listed
    <3>3. Distinct(Append(domBlocks[h], Entry))
      BY <1>1, <2>1, <3>2, AppendSet, EndsAssumption DEF ListInv
    <3> QED BY <1>1, <1>3, <2>2, <3>3 DEF ListInv
  <2>3. CASE b # h
    BY <1>1, <1>3, <2>1, <2>3, AllTyped DEF ListInv
  <2> QED BY <2>2, <2>3
<1> QED BY <1>1, <1>5, <1>6, <1>7 DEF ListInv, Distinct

LEMMA RecordLists ==
  ASSUME GraphInv, PhaseInv, ListInv, preds' = preds, Record
  PROVE  ListInv'
<1> DEFINE h == Head(todo)
<1>1. /\ h \in All /\ h \in Blocks /\ All' = All
      /\ missing = Missed(h) /\ todo # << >> /\ pc = "record"
  BY HeadIsNew, AllTyped, SameGraph DEF Record, PhaseInv
<1>2. /\ ToRecord' = ToRecord \ {h} /\ ToStart = ToRecord \ {h}
      /\ ToStart' = ToRecord \ {h}
  <2>1. /\ runs > 0 /\ runs \in Nat /\ runs' = runs /\ pc' = "remove"
        /\ todo' = Tail(todo)
    BY DEF Record, PhaseInv
  <2>2. ToSet(Tail(todo)) = ToSet(todo) \ {h}
    BY <1>1, HeadIsNew
  <2> HIDE DEF h
  <2>3. ToRecord' = ToRecord \ {h}
    BY <1>1, <2>1, <2>2 DEF ToRecord
  <2>4. ToStart = ToRecord \ {h} /\ ToStart' = ToRecord'
    BY <1>1, <2>1 DEF ToStart, h
  <2> QED BY <2>3, <2>4
<1>3. \A b \in All : b \in missing <=> h # Entry /\ Cuts(h, b)
  <2>1. CASE h = Entry
    BY <1>1, <2>1, LeftRoot, FullSuccsTyped, EndsAssumption DEF Missed, All
  <2>2. CASE h # Entry
    BY <1>1, <2>2 DEF Missed, Cuts
  <2> QED BY <2>1, <2>2
<1>4. \A b \in Blocks : domBlocks'[b] = IF b \in missing THEN Append(domBlocks[b], h)
                                        ELSE domBlocks[b]
  BY DEF Record
<1>5. \A b \in Blocks : /\ Append(domBlocks[b], h) \in Seq(Blocks)
                       /\ ToSet(Append(domBlocks[b], h)) = ToSet(domBlocks[b]) \cup {h}
  BY <1>1, AppendSet DEF ListInv
<1>6. domBlocks' \in [Blocks -> Seq(Blocks)]
  <2>1. domBlocks' = [b \in Blocks |-> domBlocks'[b]]
    BY DEF Record
  <2>2. \A b \in Blocks : domBlocks'[b] \in Seq(Blocks)
    BY <1>4, <1>5 DEF ListInv
  <2> QED BY <2>1, <2>2
<1>7. ASSUME NEW b \in All PROVE ToSet(domBlocks'[b]) = (Listed(b))'
  <2>1. (Listed(b))' = Listed(b) \cup (IF b \in missing THEN {h} ELSE {})
    <3>1. \A d : d \in (Listed(b))' <=>
                 \/ d \in All \ (ToRecord \ {h}) /\ d # Entry /\ Cuts(d, b)
                 \/ d = Entry /\ b \notin ToStart
      BY <1>2, ListedNow
    <3>2. \A d : d \in Listed(b) <=>
                 \/ d \in All \ ToRecord /\ d # Entry /\ Cuts(d, b)
                 \/ d = Entry /\ b \notin ToStart
      BY DEF Listed
    <3> QED BY <1>1, <1>3, <3>1, <3>2
  <2>2. ToSet(domBlocks[b]) = Listed(b) /\ b \in Blocks
    BY AllTyped DEF ListInv
  <2> QED BY <1>4, <1>5, <2>1, <2>2
<1>8. ASSUME runs' <= 1, NEW b \in All PROVE Distinct(domBlocks'[b])
  <2>1. runs = 1 /\ b \in Blocks
    BY <1>8, AllTyped DEF Record, PhaseInv
  <2>2. CASE b \in missing
    <3>1. h \in ToRecord /\ h # Entry
      BY <1>1, <1>3, <2>1, <2>2, HeadIsNew
    <3>2. h \notin ToSet(domBlocks[b])
      BY <3>1 DEF ListInv, Listed
    <3> QED BY <1>1, <1>4, <2>1, <2>2, <3>2, AppendSet DEF ListInv
  <2>3. CASE b \notin missing
    BY <1>4, <2>1, <2>3 DEF ListInv
  <2> QED BY <2>2, <2>3
<1> QED BY <1>1, <1>6, <1>7, <1>8 DEF ListInv, Distinct

LEMMA ListStep ==
  ASSUME GraphInv, PhaseInv, ListInv, [DomNext]_allVars
  PROVE  ListInv'
<1>1. preds' = preds
  BY GraphStep
<1>2. All' = All
  BY <1>1, SameGraph
<1>3. CASE Start
  <2>1. PhaseInv'
    BY PhaseStep
  <2>2. pc' = "remove" /\ runs' = runs + 1 /\ todo' = dfsBlocks' /\ pc = "idle"
    BY <1>3 DEF Start
  <2>3. ToSet(todo') = All
    BY <1>2, <2>1, <2>2 DEF PhaseInv
  <2>4. ToRecord' = ToRecord /\ ToStart' = ToStart
    BY <1>2, <2>2, <2>3 DEF ToRecord, ToStart, PhaseInv
  <2>5. UNCHANGED domBlocks /\ (runs' <= 1 => runs <= 1)
    BY <1>3, <2>2 DEF Start, PhaseInv
  <2> QED BY <1>1, <2>4, <2>5, ListsUntouched
<1>4. CASE TakeOut
  BY <1>1, <1>4, TakeOutLists
<1>5. CASE WalkWithout \/ PutBack
  <2>1. ToRecord' = ToRecord /\ ToStart' = ToStart /\ UNCHANGED <<domBlocks, runs>>
    BY <1>2, <1>5 DEF WalkWithout, PutBack, ToRecord, ToStart
  <2> QED BY <1>1, <2>1, ListsUntouched
<1>6. CASE Record
  BY <1>1, <1>6, RecordLists
<1>7. CASE StartImm
  <2>1. ToSet(<< >>) = {}
    BY DEF ToSet
  <2>2. ToRecord' = ToRecord /\ ToStart' = ToStart /\ UNCHANGED <<domBlocks, runs>>
    BY <1>2, <1>7, <2>1 DEF StartImm, ToRecord, ToStart, PhaseInv
  <2> QED BY <1>1, <2>2, ListsUntouched
<1>8. CASE SetImmDom \/ Fail \/ Succeed
  <2>1. ToRecord' = ToRecord /\ ToStart' = ToStart /\ UNCHANGED <<domBlocks, runs>>
    BY <1>2, <1>8 DEF SetImmDom, Fail, Succeed, Finish, ToRecord, ToStart, PhaseInv
  <2> QED BY <1>1, <2>1, ListsUntouched
<1>9. CASE UNCHANGED allVars
  <2>1. ToRecord' = ToRecord /\ ToStart' = ToStart /\ UNCHANGED <<domBlocks, runs>>
    BY <1>2, <1>9 DEF allVars, domVars, ToRecord, ToStart
  <2> QED BY <1>1, <2>1, ListsUntouched
<1> QED BY <1>3, <1>4, <1>5, <1>6, <1>7, <1>8, <1>9 DEF DomNext, Step

-----------------------------------------------------------------------------
(***************************************************************************)
(* The choice of the immediate dominator, from complete lists.             *)
(***************************************************************************)
LEMMA ListsComplete ==
  ASSUME GraphInv, ListInv, PhaseInv, pc \in {"idle", "imm"}, runs > 0, NEW b \in All
  PROVE  /\ domBlocks[b] \in Seq(Blocks)
         /\ DOMAIN domBlocks[b] = 1 .. Len(domBlocks[b])
         /\ ToSet(domBlocks[b]) = {Entry} \cup {d \in All : d # Entry /\ Cuts(d, b)}
         /\ \A d : IsDominatedBy(b, d) <=> d \in ToSet(domBlocks[b])
<1>1. domBlocks[b] \in Seq(Blocks)
  BY AllTyped DEF ListInv
<1>2. DOMAIN domBlocks[b] = 1 .. Len(domBlocks[b])
  BY <1>1, LenProperties
<1>3. ToRecord = {} /\ ToStart = {}
  BY DEF ToRecord, ToStart, PhaseInv
<1>4. ToSet(domBlocks[b]) = {Entry} \cup {d \in All : d # Entry /\ Cuts(d, b)}
  BY <1>3 DEF ListInv, Listed
<1> QED BY <1>1, <1>2, <1>4 DEF IsDominatedBy, Contains, ToSet

LEMMA RootHasNoDominator == \A d : Cuts(d, Entry) => d = Entry
BY LeftSelf, EndsAssumption DEF Cuts

\* What CalcImmDominator picks is the closest dominator.
LEMMA ChoiceClosest ==
  ASSUME GraphInv, ListInv, PhaseInv, pc \in {"idle", "imm"}, runs > 0, NEW b \in All,
         Candidates(domBlocks[b]) # {}
  PROVE  /\ CalcImmDominator(domBlocks[b]) \in All
         /\ Closest(CalcImmDominator(domBlocks[b]), b)
<1> DEFINE doms == domBlocks[b]
           C == Candidates(doms)
<1>1. /\ DOMAIN doms = 1 .. Len(doms)
      /\ ToSet(doms) = {Entry} \cup {d \in All : d # Entry /\ Cuts(d, b)}
  BY ListsComplete
<1>2. PICK i \in C : i = Min(C)
  <2>1. C \in SUBSET Nat /\ C # {}
    BY <1>1 DEF Candidates
  <2>2. PICK m \in C : \A k \in C : m <= k
    <3> HIDE DEF C
    <3> QED BY <2>1, LeastNatural
  <2>3. Min(C) \in C
    <3> HIDE DEF C
    <3> QED BY <2>2 DEF Min
  <2> QED BY <2>3
<1> DEFINE m == doms[i]
<1>3. CalcImmDominator(doms) = m
  BY <1>2 DEF CalcImmDominator
<1>4. i \in DOMAIN doms /\ \A j \in DOMAIN doms \ {i} : IsDominatedBy(m, doms[j])
  BY <1>2 DEF Candidates
<1>5. m \in ToSet(doms) /\ m \in All
  BY <1>1, <1>4, AllTyped DEF ToSet
<1>6. \A c \in ToSet(doms) : c # m => c = Entry \/ Cuts(c, m)
  <2> SUFFICES ASSUME NEW c \in ToSet(doms), c # m PROVE c = Entry \/ Cuts(c, m)
    OBVIOUS
  <2>1. PICK j \in DOMAIN doms : doms[j] = c
    BY DEF ToSet
  <2>2. IsDominatedBy(m, c)
    BY <1>4, <2>1
  <2> QED BY <1>5, <2>2, ListsComplete
<1>7. CASE b = Entry
  BY <1>1, <1>3, <1>5, <1>7, RootHasNoDominator DEF Closest
<1>8. CASE b # Entry
  <2>1. Cuts(Entry, b) /\ (m # Entry => Cuts(Entry, m))
    BY <1>8 DEF Cuts
  <2>2. Cuts(m, b)
    BY <1>1, <1>5, <2>1
  <2>3. \A c \in All : Cuts(c, b) /\ c # m => Cuts(c, m)
    BY <1>1, <1>6, <2>1
  <2> QED BY <1>3, <1>5, <1>8, <2>2, <2>3 DEF Closest
<1> QED BY <1>3, <1>5, <1>7, <1>8

\* As long as no entry is there twice, CalcImmDominator finds a candidate: of the
\* dominators of a block one is dominated by all others.
LEMMA ChoiceExists ==
  ASSUME GraphInv, ListInv, PhaseInv, pc \in {"idle", "imm"}, runs = 1, NEW b \in All
  PROVE  Candidates(domBlocks[b]) # {}
<1> DEFINE doms == domBlocks[b]
           D == {d \in All : d # Entry /\ Cuts(d, b)}
<1>1. /\ DOMAIN doms = 1 .. Len(doms)
      /\ ToSet(doms) = {Entry} \cup D
      /\ \A j, k \in DOMAIN doms : doms[j] = doms[k] => j = k
  <2>1. /\ DOMAIN doms = 1 .. Len(doms)
        /\ ToSet(doms) = {Entry} \cup D
    BY ListsComplete
  <2>2. Distinct(doms)
    BY DEF ListInv
  <2> QED BY <2>1, <2>2 DEF Distinct
<1>2. PICK m \in {Entry} \cup D : \A c \in ({Entry} \cup D) \ {m} : c = Entry \/ Cuts(c, m)
  <2>1. CASE D = {}
    BY <2>1
  <2>2. CASE D # {}
    <3>1. D \in SUBSET (All \ {Entry}) /\ \A d \in D : b \notin Left(FullSuccs, Entry, d)
      BY DEF Cuts
    <3>2. PICK m \in D : \A d \in D \ {m} : m \notin Left(FullSuccs, Entry, d)
      <4> HIDE DEF D
      <4> QED BY <2>2, <3>1, LastCut, BlocksAssumption, EndsAssumption, FullSuccsTyped
              DEF All
    <3>3. \A d \in D \ {m} : Cuts(d, m)
      BY <3>2 DEF Cuts
    <3> QED BY <3>2, <3>3
  <2> QED BY <2>1, <2>2
<1>3. m \in All
  BY AllTyped
<1>4. PICK i \in DOMAIN doms : doms[i] = m
  BY <1>1 DEF ToSet
<1>5. ASSUME NEW j \in DOMAIN doms \ {i} PROVE IsDominatedBy(doms[i], doms[j])
  <2>1. doms[j] # m /\ doms[j] \in {Entry} \cup D
    BY <1>1, <1>4 DEF ToSet
  <2>2. doms[j] = Entry \/ (Cuts(doms[j], m) /\ doms[j] # Entry /\ doms[j] \in All)
    BY <1>2, <2>1
  <2>3. doms[j] \in ToSet(domBlocks[m])
    BY <1>3, <2>2, ListsComplete
  <2> QED BY <1>3, <1>4, <2>3, ListsComplete
<1>6. i \in Candidates(doms)
  BY <1>4, <1>5 DEF Candidates
<1> QED BY <1>6

LEMMA ImmStep ==
  ASSUME GraphInv, PhaseInv, ListInv, ImmInv, [DomNext]_allVars
  PROVE  ImmInv'
<1>1. preds' = preds
  BY GraphStep
<1>2. All' = All /\ \A d, b : (Closest(d, b))' <=> Closest(d, b)
  BY <1>1, SameGraph
<1>3. ASSUME UNCHANGED immDom, ToChoose \subseteq ToChoose',
             runs' <= 1 => result' # "false"
      PROVE  ImmInv'
  <2>1. immDom' \in [Blocks -> Blocks \cup {None}]
    BY <1>3 DEF ImmInv
  <2>2. \A b \in All' \ ToChoose' : (Closest(immDom[b], b))'
    BY <1>2, <1>3 DEF ImmInv
  <2> QED BY <1>3, <2>1, <2>2 DEF ImmInv
<1>4. CASE Start
  <2>1. /\ runs' = runs + 1 /\ pc = "idle" /\ pc' = "remove"
        /\ UNCHANGED <<immDom, result>> /\ runs \in Nat
    BY <1>4 DEF Start, PhaseInv
  <2>2. ToChoose \subseteq ToChoose'
    BY <1>2, <2>1 DEF ToChoose
  <2> QED BY <1>3, <2>1, <2>2 DEF ImmInv
<1>5. CASE TakeOut \/ WalkWithout \/ PutBack \/ Record
  <2>1. /\ pc \notin {"idle", "imm"} /\ pc' \notin {"idle", "imm"}
        /\ UNCHANGED <<immDom, result, runs>>
    BY <1>5 DEF TakeOut, WalkWithout, PutBack, Record
  <2>2. ToChoose \subseteq ToChoose'
    BY <1>2, <2>1 DEF ToChoose
  <2> QED BY <1>3, <2>1, <2>2 DEF ImmInv
<1>6. CASE StartImm
  <2>1. /\ pc = "remove" /\ pc' = "imm" /\ todo' = dfsBlocks
        /\ UNCHANGED <<immDom, result, runs>>
        /\ ToSet(dfsBlocks) = All /\ runs > 0 /\ runs \in Nat
    BY <1>6 DEF StartImm, PhaseInv
  <2>2. ToChoose \subseteq ToChoose'
    BY <2>1 DEF ToChoose
  <2> QED BY <1>3, <2>1, <2>2 DEF ImmInv
<1>7. CASE SetImmDom
  <2> DEFINE h == Head(todo)
             dom == CalcImmDominator(domBlocks[h])
  <2>1. /\ pc = "imm" /\ pc' = "imm" /\ todo' = Tail(todo) /\ todo # << >>
        /\ UNCHANGED <<result, runs>> /\ dom # None
        /\ immDom' = [immDom EXCEPT ![h] = dom]
        /\ runs > 0 /\ runs \in Nat
    BY <1>7 DEF SetImmDom, PhaseInv
  <2>2. h \in All /\ h \in Blocks /\ ToSet(Tail(todo)) = ToSet(todo) \ {h}
    BY <2>1, HeadIsNew, AllTyped
  <2>3. dom \in All /\ Closest(dom, h)
    BY <2>1, <2>2, ChoiceClosest DEF CalcImmDominator
  <2> HIDE DEF h, dom
  <2>4. immDom' \in [Blocks -> Blocks \cup {None}]
    BY <2>1, <2>2, <2>3, AllTyped DEF ImmInv
  <2>5. ToChoose \ {h} \subseteq ToChoose'
    BY <2>1, <2>2 DEF ToChoose
  <2>6. \A b \in Blocks : immDom'[b] = IF b = h THEN dom ELSE immDom[b]
    BY <2>1, <2>2 DEF ImmInv
  <2>7. ASSUME NEW b \in All' \ ToChoose' PROVE (Closest(immDom[b], b))'
    <3>1. b \in All /\ b \in Blocks /\ (b # h => b \notin ToChoose)
      BY <1>2, <2>5, AllTyped
    <3>2. Closest(immDom'[b], b)
      BY <2>3, <2>6, <3>1 DEF ImmInv
    <3> QED BY <1>2, <3>2
  <2>8. runs' <= 1 => result' # "false"
    BY <2>1 DEF ImmInv
  <2> QED BY <2>4, <2>7, <2>8 DEF ImmInv
<1>8. CASE Fail
  <2>1. /\ pc = "imm" /\ pc' = "idle" /\ UNCHANGED <<immDom, runs>> /\ todo # << >>
        /\ CalcImmDominator(domBlocks[Head(todo)]) = None
        /\ runs > 0 /\ runs \in Nat
    BY <1>8 DEF Fail, Finish, PhaseInv
  <2>2. Head(todo) \in All
    BY <2>1, HeadIsNew
  <2>3. runs # 1
    <3> SUFFICES ASSUME runs = 1 PROVE FALSE
      OBVIOUS
    <3>1. CalcImmDominator(domBlocks[Head(todo)]) \in All
      BY <2>1, <2>2, ChoiceExists, ChoiceClosest
    <3> QED BY <2>1, <3>1, AllTyped, NoneAssumption
  <2>4. ToChoose \subseteq ToChoose'
    BY <2>1, <2>3 DEF ToChoose
  <2> QED BY <1>3, <2>1, <2>3, <2>4
<1>9. CASE Succeed
  <2>1. /\ pc = "imm" /\ pc' = "idle" /\ UNCHANGED <<immDom, runs>> /\ todo = << >>
        /\ result' = "true" /\ runs > 0
    BY <1>9 DEF Succeed, Finish, PhaseInv
  <2>2. ToSet(<< >>) = {}
    BY DEF ToSet
  <2>3. ToChoose \subseteq ToChoose'
    BY <2>1, <2>2 DEF ToChoose
  <2> QED BY <1>3, <2>1, <2>3
<1>10. CASE UNCHANGED allVars
  <2>1. ToChoose' = ToChoose /\ UNCHANGED <<immDom, result, runs>>
    BY <1>2, <1>10 DEF allVars, domVars, ToChoose
  <2> QED BY <1>3, <2>1 DEF ImmInv
<1> QED BY <1>4, <1>5, <1>6, <1>7, <1>8, <1>9, <1>10 DEF DomNext, Step

-----------------------------------------------------------------------------
LEMMA InitDomInv == ASSUME DomInit PROVE DomInv
<1>1. PICK E \in EdgeSets :
        /\ succs = [a \in Blocks |-> [b \in Blocks |-> IF <<a, b>> \in E THEN 1 ELSE 0]]
        /\ preds = [b \in Blocks |-> [a \in Blocks |-> IF <<a, b>> \in E THEN 1 ELSE 0]]
  BY DEF DomInit
<1>2. removed = None
  BY DEF DomInit
<1>3. EdgeInv
  <2>1. \A a, b \in Blocks : succs[a][b] \in Nat /\ preds[b][a] = succs[a][b]
    BY <1>1
  <2>2. succs \in [Blocks -> [Blocks -> Nat]] /\ preds \in [Blocks -> [Blocks -> Nat]]
    BY <1>1
  <2>3. EdgeMirror
    BY <1>2, <2>1, NoneAssumption DEF EdgeMirror
  <2> QED BY <2>2, <2>3 DEF EdgeInv
<1>4. /\ root = Entry /\ end = Exit /\ EndsSet /\ blocksNum = 2
      /\ id \in [Blocks -> Nat \cup {NoId}]
      /\ \A b \in Blocks : id[b] = IF b = Entry THEN 0 ELSE IF b = Exit THEN 1 ELSE NoId
  <2>1. /\ root = Entry /\ end = Exit /\ blocksNum = 2
        /\ id = [b \in Blocks |-> CASE b = Entry -> 0 [] b = Exit -> 1 [] OTHER -> NoId]
    BY DEF DomInit, WholeGraph
  <2>2. \A b \in Blocks : id[b] = IF b = Entry THEN 0 ELSE IF b = Exit THEN 1 ELSE NoId
    BY <2>1, EndsAssumption
  <2>3. id \in [Blocks -> Nat \cup {NoId}]
    BY <2>1, <2>2
  <2> QED BY <2>1, <2>2, <2>3, EndsAssumption, NoneAssumption DEF EndsSet
<1>5. IdInv
  BY <1>4, EndsAssumption DEF IdInv, IdsDistinct, IdsBelow, IdsBeforeEnds, NoId
<1>6. PointerInv
  BY <1>2, <1>4, EndsAssumption DEF DomInit, PointerInv
<1>7. GraphInv
  BY <1>3, <1>4, <1>5, <1>6 DEF GraphInv, IInv
<1>8. PhaseInv
  BY <1>2, EmptySeq DEF DomInit, PhaseInv, Distinct
<1>9. ToSet(<< >>) = {} /\ << >> \in Seq(Blocks) /\ Distinct(<< >>)
  BY EmptySeq DEF ToSet, Distinct
<1>10. ListInv
  <2>1. ToRecord = All /\ ToStart = All
    BY DEF DomInit, ToRecord, ToStart
  <2>2. \A b \in All : Listed(b) = {}
    BY <2>1 DEF Listed
  <2> QED BY <1>9, <2>2, AllTyped DEF DomInit, ListInv
<1>11. ImmInv
  BY DEF DomInit, ImmInv, ToChoose
<1> QED BY <1>7, <1>8, <1>10, <1>11 DEF DomInv

\* The inductive invariant: the graph is the one the pass found but for the block
\* taken out, every list holds exactly the dominators recorded so far, without
\* repetition as long as it is the first run, and every immediate dominator chosen
\* so far is the closest one.
THEOREM DomInvHolds == DomSpec => []DomInv
<1>1. DomInit => DomInv
  BY InitDomInv
<1>2. DomInv /\ [DomNext]_allVars => DomInv'
  BY GraphStep, PhaseStep, ListStep, ImmStep DEF DomInv
<1> QED BY <1>1, <1>2, PTL DEF DomSpec

\* FindBlock only looks for blocks that its walk meets (DomTree::SlowDomTree).
THEOREM MissingAreFound == DomSpec => []MissingIsFound
<1>1. DomInv => MissingIsFound
  <2> SUFFICES ASSUME DomInv, pc = "record" PROVE missing \subseteq Reachable
    BY DEF MissingIsFound
  <2>1. removed = None /\ missing \subseteq All
    BY DEF DomInv, PhaseInv, Missed
  <2> QED BY <2>1, WalkReaches DEF DomInv
<1> QED BY <1>1, DomInvHolds, PTL

\* The pass never touches a predecessor list and puts back every successor entry
\* it takes out, though not always at its place (DomTree::CalcDifference).
THEOREM GraphStaysIntact == DomSpec => GraphIntact
<1>1. DomInv /\ [DomNext]_allVars =>
        [preds' = preds /\ (removed' = None =>
           \A a, b \in Blocks : succs'[a][b] = preds'[b][a])]_allVars
  <2> SUFFICES ASSUME DomInv, [DomNext]_allVars
               PROVE  preds' = preds /\ (removed' = None =>
                        \A a, b \in Blocks : succs'[a][b] = preds'[b][a])
    OBVIOUS
  <2>1. GraphInv' /\ preds' = preds
    BY GraphStep DEF DomInv
  <2> QED BY <2>1, NoneAssumption DEF GraphInv, IInv, EdgeInv, EdgeMirror
<1> QED BY <1>1, DomInvHolds, PTL DEF DomSpec, GraphIntact

\* A block lists the root and exactly its strict dominators, the blocks on every
\* path from the root to it, however often the pass ran.
THEOREM ListsAreDominators == DomSpec => []DominatorsCorrect
<1>1. DomInv => DominatorsCorrect
  <2> SUFFICES ASSUME DomInv, pc = "idle", runs > 0, NEW b \in Reachable
               PROVE  ToSet(domBlocks[b])
                        = {root} \cup {d \in Reachable : StrictlyDominates(Paths, d, b)}
    BY Zenon DEF DominatorsCorrect
  <2>1. removed = None /\ root = Entry
    BY DEF DomInv, PhaseInv, GraphInv
  <2>2. Reachable = All
    BY <2>1, WalkReaches DEF DomInv
  <2>3. \A d \in All : StrictlyDominates(Paths, d, b) <=> Cuts(d, b)
    BY <2>1, <2>2, CutsAreStrictDominators DEF DomInv
  <2>4. ToSet(domBlocks[b]) = {Entry} \cup {d \in All : d # Entry /\ Cuts(d, b)}
    BY <2>2, ListsComplete DEF DomInv
  <2> QED BY <2>1, <2>2, <2>3, <2>4
<1> QED BY <1>1, DomInvHolds, PTL

\* The immediate dominator is the closest one, and a second run that gives up half
\* way does not spoil it (DomTree::CalcImmDominator).
THEOREM ImmDomIsClosest == DomSpec => []ImmDomClosest
<1>1. DomInv => ImmDomClosest
  <2> DEFINE strict(b) == {d \in Reachable : StrictlyDominates(Paths, d, b)}
  <2> SUFFICES ASSUME DomInv, pc = "idle", runs > 0, NEW b \in Reachable
               PROVE  IF b = root
                        THEN immDom[b] = root
                        ELSE /\ immDom[b] \in strict(b)
                             /\ immDom[b] \in Reachable
                             /\ strict(b) \ {immDom[b]} \subseteq strict(immDom[b])
    BY DEF ImmDomClosest
  <2>1. removed = None /\ root = Entry
    BY DEF DomInv, PhaseInv, GraphInv
  <2>2. Reachable = All
    BY <2>1, WalkReaches DEF DomInv
  <2>3. \A x, d \in All : StrictlyDominates(Paths, d, x) <=> Cuts(d, x)
    BY <2>1, CutsAreStrictDominators DEF DomInv
  <2>4. ToChoose = {}
    BY DEF ToChoose, DomInv, PhaseInv
  <2>5. Closest(immDom[b], b)
    BY <2>2, <2>4 DEF DomInv, ImmInv
  <2> QED BY <2>1, <2>2, <2>3, <2>5 DEF Closest
<1> QED BY <1>1, DomInvHolds, PTL

\* The first run of the pass on a graph always succeeds: the failure that the run
\* RunSucceeds shows needs a list that holds an entry twice.
THEOREM FirstRunSucceeds == DomSpec => [](runs <= 1 => result # "false")
<1>1. DomInv => (runs <= 1 => result # "false")
  BY DEF DomInv, ImmInv
<1> QED BY <1>1, DomInvHolds, PTL

\* No two blocks share an id while the pass compares and erases by id.
THEOREM PassKeepsIds == DomSpec => []IdsDistinct
<1>1. DomInv => IdsDistinct
  BY DEF DomInv, GraphInv, IInv, IdInv
<1> QED BY <1>1, DomInvHolds, PTL
=============================================================================
