---------------------------- MODULE MCLoopAnalyzer ----------------------------
(***************************************************************************)
(* LoopAnalyzer on every reducible graph of the blocks without self and    *)
(* parallel edges, on every graph of some of the blocks, and on one where  *)
(* an irreducible loop takes over the header of another one.  A block has  *)
(* at most two successors, the exit and the fresh preheader have none.     *)
(***************************************************************************)
EXTENDS LoopAnalyzer, TLC

CONSTANTS
  MaxSuccs,    \* bound: the length of a successor list
  Aside        \* blocks without edges in the graphs that need not be reducible

Inside == Blocks \ {PreHeader}

\* Some order of the blocks between entry and exit, those aside last.
Inner == CHOOSE q \in [1 .. Cardinality(Inside) - 2 -> Inside \ {Entry, Exit}] :
           \A i, j \in DOMAIN q : /\ q[i] = q[j] => i = j
                                  /\ q[i] \in Aside /\ i < j => q[j] \in Aside

\* The sets of successors among S that a may have.  Those of the entry come first
\* in that order: every other graph is one of these with its blocks renamed.
SuccsAllowed(a, S) ==
  {T \in SUBSET S :
     /\ Cardinality(T) <= MaxSuccs
     /\ a = Entry => \A i, j \in DOMAIN Inner : Inner[j] \in T /\ i < j => Inner[i] \in T}

Row(T, n) == [b \in Blocks |-> IF b \in T THEN n ELSE 0]

\* The successor lists a may have, as bags.
PlainRows(a) == IF a \in {Exit, PreHeader} THEN {NoEdges}
                ELSE {Row(T, 1) : T \in SuccsAllowed(a, Inside \ {a})}
AnyRows(a) ==
  IF a \in {Exit, PreHeader} \cup Aside THEN {NoEdges}
  ELSE LET choices == SuccsAllowed(a, Inside \ Aside)
       IN  {Row(T, 1) : T \in choices}
             \cup {Row(T, MaxSuccs) : T \in {T \in choices : Cardinality(T) = 1}}

Arrows(E) == {x \in Blocks \X Blocks : E[x[1]][x[2]] > 0}

\* Blocks reached from the set S along the edges G when d is taken away.
From(G, S, d) ==
  LET upTo[n \in Nat] ==
        IF n = 0 THEN S \ {d}
        ELSE LET S0 == upTo[n - 1] IN S0 \cup {x[2] : x \in {x \in G : x[1] \in S0 /\ x[2] # d}}
  IN  upTo[Cardinality(Blocks)]

\* Every block but the exit is reached, and without the edges that lead to a
\* dominator of their source no cycle is left.
Reducible(E) ==
  LET G == Arrows(E)
      apart == {[block |-> d, reached |-> From(G, {Entry}, d)] : d \in Inside}
      forward == {x \in G : \E c \in apart : c.block = x[2] /\ x[1] \in c.reached}
  IN  /\ Inside \ {Exit} \subseteq From(G, {Entry}, None)
      /\ \A a \in Inside : a \notin From(forward, {x[2] : x \in {x \in forward : x[1] = a}}, None)

RECURSIVE Graphs(_, _)
Graphs(S, rows) == IF S = {} THEN {<< >>}
                   ELSE LET a == CHOOSE a \in S : TRUE
                        IN  {g @@ (a :> row) : g \in Graphs(S \ {a}, rows), row \in rows[a]}

\* An irreducible loop of the first block and the second, around which there is
\* the loop of the second and the third, which has an edge to itself.
Robbed ==
  LET q == Inner
      arrows == {<<Entry, q[1]>>, <<Entry, q[2]>>, <<q[1], q[2]>>, <<q[2], q[1]>>,
                 <<q[2], q[3]>>, <<q[3], q[2]>>, <<q[3], q[3]>>}
  IN  [a \in Blocks |-> Row({b \in Blocks : <<a, b>> \in arrows}, 1)]

MCEdges == {E \in Graphs(Blocks, [a \in Blocks |-> PlainRows(a)]) : Reducible(E)}
           \cup Graphs(Blocks, [a \in Blocks |-> AnyRows(a)])
           \cup {Robbed}

\* The blocks of every graph have their ids, those aside get them in the first walk.
MCNumbered == {[b \in Blocks |->
                  CASE b = Entry -> 0 [] b = Exit -> 1 [] b \in Aside \cup {PreHeader} -> NoId
                    [] OTHER -> 1 + CHOOSE i \in DOMAIN Inner : Inner[i] = b]}
=============================================================================
