------------------------------- MODULE MCDomTree -------------------------------
(***************************************************************************)
(* DomTree on every graph without parallel edges whose blocks have at most *)
(* two successors, as blocks that end in a jump do, and whose exit has     *)
(* none.                                                                   *)
(***************************************************************************)
EXTENDS DomTree

AtMostTwoSuccs(E) == \A a \in Blocks : Cardinality({e \in E : e[1] = a}) <= 2

MCEdgeSets == {E \in SUBSET ((Blocks \ {Exit}) \X Blocks) : AtMostTwoSuccs(E)}
=============================================================================
