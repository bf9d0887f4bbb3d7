------------------------------ MODULE MCTraversal ------------------------------
(***************************************************************************)
(* Traversal on every graph of the blocks whose successor lists are at     *)
(* most two long (a branch has two targets, possibly the same) and whose   *)
(* end block has no successor.                                             *)
(***************************************************************************)
EXTENDS Traversal

CONSTANT MaxSuccs   \* bound: the length of a successor list

Lists(targets) == UNION {[1 .. n -> targets] : n \in 0 .. MaxSuccs}

MCGraphs == {g \in [Blocks -> Lists(Blocks)] : g[End] = << >>}
=============================================================================
