------------------------------ MODULE FlowGraph ------------------------------
(***************************************************************************)
(* What a control-flow graph promises, whatever lists hold its edges: a    *)
(* bag of directed edges between blocks and an entry block.  Edges appear  *)
(* only when they are added, and a block that hands its outgoing (or       *)
(* incoming) edges to another block hands over every one of them while the *)
(* other block keeps those it had.  BlockGraph implements this.            *)
(***************************************************************************)
EXTENDS Naturals

CONSTANTS Blocks,   \* the basic blocks
          None      \* "no block": the entry before one is chosen

VARIABLES edges,    \* edges[a][b]: how many edges lead from a to b
          entry     \* the block execution starts in

vars == <<edges, entry>>

Init == /\ edges = [a \in Blocks |-> [b \in Blocks |-> 0]]
        /\ entry \in Blocks \cup {None}

\* A new edge from a to b.
Connect(a, b) == /\ edges' = [edges EXCEPT ![a][b] = @ + 1]
                 /\ UNCHANGED entry

\* c takes over the edges that leave b.
HandOverOut(b, c) ==
  /\ edges' = [x \in Blocks |-> [y \in Blocks |->
                 CASE x = b -> 0
                   [] x = c -> edges[c][y] + edges[b][y]
                   [] OTHER -> edges[x][y]]]
  /\ UNCHANGED entry

\* c takes over the edges that enter b.
HandOverIn(b, c) ==
  /\ edges' = [x \in Blocks |-> [y \in Blocks |->
                 CASE y = b -> 0
                   [] y = c -> edges[x][c] + edges[x][b]
                   [] OTHER -> edges[x][y]]]
  /\ UNCHANGED entry

\* The entry is chosen, once.
ChooseEntry(r) == entry = None /\ entry' = r /\ UNCHANGED edges

\* A block placed in front of the entry becomes the entry.
Prepend(r) == /\ entry # None
              /\ edges' = [edges EXCEPT ![r][entry] = @ + 1]
              /\ entry' = r

Next == \/ \E a, b \in Blocks : \/ Connect(a, b)
                                \/ a # b /\ HandOverOut(a, b)
                                \/ a # b /\ HandOverIn(a, b)
        \/ \E r \in Blocks : ChooseEntry(r) \/ Prepend(r)

Spec == Init /\ [][Next]_vars
=============================================================================
