-------------------------- MODULE MCCheckElimination --------------------------
(***************************************************************************)
(* Programs for CheckElimination.  Instruction 0 is a value in the root;   *)
(* the others are in any block, numbered along the blocks and with inputs  *)
(* that dominate them, as in any acyclic program some numbering does.      *)
(***************************************************************************)
EXTENDS CheckElimination, TLC

CONSTANTS b0, b1, b2   \* the blocks

MCBlocks == {b0, b1, b2}
MCInstrs == 0 .. 4

\* A chain, where each block dominates the next, and two arms, which do not
\* dominate each other and may be listed in either order.
Graphs == {b0 :> {b1} @@ b1 :> {b2} @@ b2 :> {}, b0 :> {b1, b2} @@ b1 :> {} @@ b2 :> {}}

Dominated == [g \in Graphs |-> [x \in MCBlocks |->
                {y \in MCBlocks : BlockDominates(g, x, y)}]]

Home(s, i) == Place(s.lists, i)[1]

\* What instruction i may use.
Usable(s, i) == {0} \cup {j \in 1 .. i - 1 : Home(s, i) \in Dominated[s.succs][Home(s, j)]}

ZeroChecks(D) == {<<"ZERO_CHECK", <<x>>>> : x \in D}
NullChecks(D) == {<<"NULL_CHECK", <<x>>>> : x \in D}
Forms(D) == ZeroChecks(D \cup {NoDef}) \cup {<<BoundsCheck, <<x, y>>>> : x, y \in D}
            \cup {<<"USE", <<x>>>> : x \in D} \cup {<<"CALL", <<Label, x>>>> : x \in D}

\* Three instructions of any form outside the root, the last with a user, a null
\* check not being the second; or four zero checks.
MCCodes(s) ==
  LET D == [i \in 1 .. 4 |-> Usable(s, i)]
      F == [i \in 1 .. 3 |-> Forms(D[i]) \cup IF i = 2 THEN {} ELSE NullChecks(D[i])]
      Z == [i \in 1 .. 4 |-> ZeroChecks(D[i])]
      codes == (IF s.lists[b0] = <<0>> /\ Home(s, 3) = Home(s, 4)
                  THEN F[1] \X F[2] \X F[3] \X {<<"USE", <<3>>>>} ELSE {})
               \cup (Z[1] \X Z[2] \X Z[3] \X Z[4])
  IN  {[op |-> [i \in MCInstrs |-> IF i = 0 THEN "VALUE" ELSE c[i][1]],
        ins |-> [i \in MCInstrs |-> IF i = 0 THEN << >> ELSE c[i][2]]] : c \in codes}

InBlock(place, x) == (IF x = b0 THEN <<0>> ELSE << >>)
                     \o SelectSeq(<<1, 2, 3, 4>>, LAMBDA i : place[i] = x)

MCShapes == {[succs |-> g, lists |-> [x \in MCBlocks |-> InBlock(place, x)]] :
               g \in Graphs, place \in [1 .. 4 -> MCBlocks]}
=============================================================================
