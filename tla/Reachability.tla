----------------------------- MODULE Reachability -----------------------------
(***************************************************************************)
(* Paths in a graph of basic blocks, and what an order of its blocks must  *)
(* satisfy to serve the passes.  A graph is a function g that gives the    *)
(* set of successors of every block.                                       *)
(***************************************************************************)
EXTENDS Naturals, Sequences

CONSTANT Blocks   \* the BasicBlock objects

Closed(g, S) == \A b \in S : g[b] \subseteq S

\* The blocks a path from b leads to, b included: those in every set that
\* holds b and that no edge leaves.
Reach(g, b) ==
  {x \in Blocks : \A S \in SUBSET Blocks : b \in S /\ Closed(g, S) => x \in S}

\* q lists exactly the blocks reachable from r, each once.
ListsReachable(g, r, q) ==
  /\ \A i, j \in 1 .. Len(q) : q[i] = q[j] => i = j
  /\ {q[i] : i \in 1 .. Len(q)} = Reach(g, r)

\* In q, every successor of a block comes before it unless the edge closes a
\* cycle: reversed, q visits a block after all predecessors but those reached
\* through the block itself.
SuccessorsFirst(g, q) ==
  \A i \in 1 .. Len(q) : \A s \in g[q[i]] :
    (\E j \in 1 .. i - 1 : q[j] = s) \/ q[i] \in Reach(g, s)

\* In q, some predecessor comes after every block but r: reversed, no block is
\* visited before all of its predecessors.
SomePredecessorLater(g, r, q) ==
  \A i \in 1 .. Len(q) :
    q[i] # r => \E j \in i + 1 .. Len(q) : q[i] \in g[q[j]]

\* The order Traversal::getDFS delivers.
IsPostOrder(g, r, q) == /\ ListsReachable(g, r, q)
                        /\ SuccessorsFirst(g, q)
                        /\ SomePredecessorLater(g, r, q)
=============================================================================
