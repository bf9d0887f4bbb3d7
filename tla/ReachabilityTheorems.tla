-------------------------- MODULE ReachabilityTheorems --------------------------
(***************************************************************************)
(* Facts about Reach and about domination, for any graph on any set of     *)
(* blocks, and the least-number principle in a form without operators as   *)
(* parameters, for arguments along a path.                                 *)
(***************************************************************************)
EXTENDS Reachability, FiniteSetTheorems, WellFoundedInduction, TLAPS

\* A block reaches itself.
LEMMA ReachSelf == ASSUME NEW g, NEW b \in Blocks PROVE b \in Reach(g, b)
BY DEF Reach

\* Reach is closed: a successor of a reachable block is reachable.
LEMMA ReachStep ==
  ASSUME NEW g, NEW b, NEW x \in Reach(g, b), NEW y \in g[x], y \in Blocks
  PROVE  y \in Reach(g, b)
BY DEF Reach, Closed

\* Reach is the least closed set: any closed set of blocks that holds b holds
\* everything reachable from b.
LEMMA ReachLeast ==
  ASSUME NEW g, NEW b, NEW S \in SUBSET Blocks, b \in S, Closed(g, S)
  PROVE  Reach(g, b) \subseteq S
BY DEF Reach

LEMMA ReachBlocks == ASSUME NEW g, NEW b PROVE Reach(g, b) \subseteq Blocks
BY DEF Reach

\* Every non-empty set of natural numbers has a least element.
LEMMA LeastNatural ==
  ASSUME NEW S \in SUBSET Nat, S # {}
  PROVE  \E m \in S : \A k \in S : m <= k
<1> DEFINE R == {e \in Nat \X Nat : e[1] < e[2]}
<1>1. IsWellFoundedOn(R, Nat)
  BY NatLessThanWellFounded DEF OpToRel
<1>2. \A x, y \in Nat : <<y, x>> \in R <=> y < x
  OBVIOUS
<1> HIDE DEF R
<1>3. PICK m \in S : \A k \in S : ~ (<<k, m>> \in R)
  BY <1>1, WFMin, Zenon
<1>4. \A k \in S : ~ (k < m)
  BY <1>2, <1>3, Zenon
<1>5. \A k \in S : m <= k
  BY <1>4
<1> QED BY <1>5

-----------------------------------------------------------------------------
(***************************************************************************)
(* Domination.  A block d cuts b off from the root r if b cannot be        *)
(* reached any more once no edge leads to d.                               *)
(***************************************************************************)
NoEdgeTo(g, d) == [b \in Blocks |-> g[b] \ {d}]
Left(g, r, d) == Reach(NoEdgeTo(g, d), r)

\* What is left without d is closed under all edges that do not lead to d.
LEMMA LeftStep ==
  ASSUME NEW g, NEW r, NEW d, NEW x \in Left(g, r, d), NEW y \in g[x],
         y \in Blocks, y # d
  PROVE  y \in Left(g, r, d)
BY ReachBlocks, ReachStep DEF Left, NoEdgeTo

LEMMA LeftLeast ==
  ASSUME NEW g, NEW r \in Blocks, NEW d, NEW S \in SUBSET Blocks, r \in S,
         \A x \in S : g[x] \ {d} \subseteq S
  PROVE  Left(g, r, d) \subseteq S
BY ReachLeast DEF Left, NoEdgeTo, Closed

LEMMA LeftSelf == ASSUME NEW g, NEW r \in Blocks, NEW d PROVE r \in Left(g, r, d)
BY ReachSelf DEF Left

LEMMA LeftReachable ==
  ASSUME NEW g, NEW r \in Blocks, NEW d, \A x \in Blocks : g[x] \subseteq Blocks
  PROVE  Left(g, r, d) \subseteq Reach(g, r)
BY ReachBlocks, ReachSelf, ReachStep, LeftLeast

\* Taking out a block other than the root leaves that block unreachable.
LEMMA LeftLoses ==
  ASSUME NEW g, NEW r \in Blocks, NEW d, d # r, \A x \in Blocks : g[x] \subseteq Blocks
  PROVE  d \notin Left(g, r, d)
<1>1. Left(g, r, d) \subseteq Blocks \ {d}
  BY LeftLeast
<1> QED BY <1>1

\* Taking out a block that cannot be reached, or the root, changes nothing.
LEMMA LeftRoot ==
  ASSUME NEW g, NEW r \in Blocks, \A x \in Blocks : g[x] \subseteq Blocks
  PROVE  Left(g, r, r) = Reach(g, r)
<1>1. Closed(g, Left(g, r, r))
  BY LeftStep, LeftSelf, ReachBlocks DEF Closed, Left
<1>2. Reach(g, r) \subseteq Left(g, r, r)
  BY <1>1, ReachLeast, LeftSelf, ReachBlocks DEF Left
<1> QED BY <1>2, LeftReachable

\* Two blocks that both cut off b are comparable: one cuts off the other.
LEMMA CutsComparable ==
  ASSUME NEW g, NEW r \in Blocks, \A x \in Blocks : g[x] \subseteq Blocks,
         NEW b \in Reach(g, r), NEW c, NEW d, c # d,
         b \notin Left(g, r, c), b \notin Left(g, r, d)
  PROVE  c \notin Left(g, r, d) \/ d \notin Left(g, r, c)
<1> SUFFICES ASSUME c \in Left(g, r, d), d \in Left(g, r, c) PROVE FALSE
  OBVIOUS
<1> DEFINE U == Left(g, r, c) \cup Left(g, r, d)
<1>1. U \subseteq Blocks
  BY ReachBlocks DEF Left
<1>2. Closed(g, U)
  <2> SUFFICES ASSUME NEW x \in U, NEW y \in g[x] PROVE y \in U
    BY DEF Closed
  <2>1. y \in Blocks
    BY <1>1
  <2>2. CASE y = c \/ y = d
    BY <2>2
  <2>3. CASE y # c /\ y # d
    BY <2>1, <2>3, LeftStep
  <2> QED BY <2>2, <2>3
<1>3. Reach(g, r) \subseteq U
  BY <1>1, <1>2, LeftSelf, ReachLeast
<1> QED BY <1>3

\* What cuts off d from the root leaves less than d does.
LEMMA CutsNested ==
  ASSUME NEW g, NEW r \in Blocks, \A x \in Blocks : g[x] \subseteq Blocks,
         NEW c, NEW d, d \notin Left(g, r, c)
  PROVE  Left(g, r, c) \subseteq Left(g, r, d)
<1> DEFINE S == Left(g, r, c) \cap Left(g, r, d)
<1>1. S \subseteq Blocks
  BY ReachBlocks DEF Left
<1>2. \A x \in S : g[x] \ {c} \subseteq S
  <2> SUFFICES ASSUME NEW x \in S, NEW y \in g[x] \ {c} PROVE y \in S
    OBVIOUS
  <2>1. y \in Left(g, r, c)
    BY <1>1, LeftStep
  <2>2. y \in Left(g, r, d)
    BY <1>1, <2>1, LeftStep
  <2> QED BY <2>1, <2>2
<1>3. r \in S
  BY LeftSelf
<1> HIDE DEF S
<1>4. Left(g, r, c) \subseteq S
  BY <1>1, <1>2, <1>3, LeftLeast
<1> QED BY <1>4 DEF S

\* Two reachable blocks never cut off each other.
LEMMA CutsAntisymmetric ==
  ASSUME NEW g, NEW r \in Blocks, \A x \in Blocks : g[x] \subseteq Blocks,
         NEW c \in Reach(g, r), NEW d, c # d, c \notin Left(g, r, d), c # r
  PROVE  d \in Left(g, r, c)
<1> SUFFICES ASSUME d \notin Left(g, r, c) PROVE FALSE
  OBVIOUS
<1> DEFINE Q == Left(g, r, c)
<1>1. Q = Left(g, r, d)
  BY CutsNested
<1>2. Closed(g, Q)
  <2> SUFFICES ASSUME NEW x \in Q, NEW y \in g[x] PROVE y \in Q
    BY DEF Closed
  <2>1. y \in Blocks
    BY ReachBlocks DEF Left
  <2>2. CASE y # c
    BY <2>1, <2>2, LeftStep
  <2>3. CASE y = c
    BY <1>1, <2>1, <2>3, LeftStep
  <2> QED BY <2>2, <2>3
<1>3. Reach(g, r) \subseteq Q
  BY <1>2, LeftSelf, ReachLeast, ReachBlocks DEF Left
<1> QED BY <1>3, LeftLoses

\* Of the blocks that cut off b, one is cut off by all others: the last that
\* every path to b passes.
LEMMA LastCut ==
  ASSUME IsFiniteSet(Blocks),
         NEW g, NEW r \in Blocks, \A x \in Blocks : g[x] \subseteq Blocks,
         NEW b \in Reach(g, r),
         NEW D \in SUBSET (Reach(g, r) \ {r}), D # {},
         \A d \in D : b \notin Left(g, r, d)
  PROVE  \E m \in D : \A d \in D \ {m} : m \notin Left(g, r, d)
<1> DEFINE Lost(d) == Blocks \ Left(g, r, d)
           T == {Lost(d) : d \in D}
           R == StrictSubsetOrdering(Blocks)
<1>1. IsWellFoundedOn(R, SUBSET Blocks)
  BY FS_StrictSubsetOrderingWellFounded, FS_FiniteSubsetsOfFinite, Zenon
<1>2. T \subseteq SUBSET Blocks /\ T # {}
  OBVIOUS
<1>3. PICK L \in T : \A M \in T : ~ (<<M, L>> \in R)
  <2> HIDE DEF T, R
  <2> QED BY <1>1, <1>2, WFMin, Zenon
<1>4. PICK m \in D : L = Lost(m)
  BY <1>3
<1>5. ASSUME NEW d \in D, d # m, m \in Left(g, r, d) PROVE FALSE
  <2>1. d \notin Left(g, r, m)
    BY <1>5, CutsComparable
  <2>2. Left(g, r, m) \subseteq Left(g, r, d)
    BY <2>1, CutsNested
  <2>3. m \notin Left(g, r, m)
    BY LeftLoses
  <2>4. Lost(d) \subseteq Lost(m) /\ Lost(d) # Lost(m)
    BY <1>5, <2>2, <2>3, ReachBlocks
  <2>5. <<Lost(d), Lost(m)>> \in R
    BY <2>4 DEF StrictSubsetOrdering
  <2>6. Lost(d) \in T
    OBVIOUS
  <2> QED BY <1>3, <1>4, <2>5, <2>6
<1> QED BY <1>5
=============================================================================
