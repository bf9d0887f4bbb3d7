------------------------ MODULE CheckEliminationProofs ------------------------
(***************************************************************************)
(* Proofs about CheckElimination, for any finite sets of blocks and        *)
(* instructions and any well-formed programs.                              *)
(***************************************************************************)
EXTENDS CheckElimination, ReachabilityTheorems, SequenceTheorems, FunctionTheorems

(***************************************************************************)
(* The inductive invariant.  First what the pass never changes: the        *)
(* program is one it may be given, its blocks can be listed in post-order, *)
(* and the dominator lists are right or empty.                             *)
(***************************************************************************)
Args == Instrs \cup {NoDef, Label, NoArg}

ProgramInv == /\ WellFormed(prog)
              /\ Orders(prog.succs) # {}
              /\ doms \in DomLists(prog.succs)

Stores == [op : [Instrs -> STRING \cup {"NOP"}], ins : [Instrs -> Seq(Args)],
           users : [Instrs -> [Instrs -> Nat]]]

StoreInv == store \in Stores

LocalsInv == /\ todo \in Seq(Instrs)
             /\ check \in Instrs \cup {NoArg}
             /\ pending \in [Instrs -> Nat]
             /\ keeper \in [Instrs -> Instrs \cup {NoArg}]

\* The instructions still to visit, as a set.
Ahead == {todo[n] : n \in 1 .. Len(todo)}

\* The order of the listing: no instruction dominates one in front of it, and
\* all that an instruction still to visit dominates are still to visit.
OrderInv == /\ \A m, n \in 1 .. Len(todo) : Dominates(todo[m], todo[n]) => m <= n
            /\ \A c \in Ahead, u \in Instrs : Dominates(c, u) => u \in Ahead

\* A keeper has been visited and is never eliminated itself: whoever could
\* replace it dominates it and came before it.
KeeperInv ==
  \A e \in Eliminated, c \in Instrs :
    c = keeper[e] => /\ c \notin Eliminated /\ c \notin Ahead
                     /\ prog.op[c] \in Checks /\ prog.op[c] = prog.op[e]
                     /\ Inputs(c) = Inputs(e)
                     /\ Dominates(c, e)

\* Eliminated instructions are NOPs without inputs, all others as given but for
\* the checks that stand for their inputs.
CodeInv ==
  \A u \in Instrs :
    IF u \in Eliminated
      THEN /\ store.op[u] = "NOP"
           /\ \A k \in DOMAIN store.ins[u] : u \notin Dynamic /\ store.ins[u][k] = NoArg
      ELSE store.op[u] = prog.op[u] /\ store.ins[u] = Inputs(u)

\* A user list has no one who is not a user, and all users unless the
\* instruction is a keeper.
UsersInv ==
  \A d, u \in Instrs :
    /\ store.users[d][u] <= Uses(store, u, d)
    /\ store.users[d][u] = 0 => Slots(store.ins[u], d) = {} \/ \E e \in Eliminated : keeper[e] = d

\* The check at work is not among those ahead, but all others it dominates are;
\* the users it has copied still use its input or have just been eliminated in its
\* favour, and then an entry can be left only if they have that input twice.
CheckInv ==
  check # NoArg =>
    LET input == store.ins[check][1]
    IN  /\ check \notin Ahead /\ check \notin Eliminated
        /\ IsCheck(check) /\ input \in Instrs
        /\ \A u \in Instrs : Dominates(check, u) => u = check \/ u \in Ahead
        /\ \A u \in Instrs \ Eliminated : pending[u] <= Uses(store, u, input)
        /\ \A u \in Eliminated : pending[u] > 0 =>
             /\ prog.op[u] = BoundsCheck
             /\ Resolve(prog.ins[u][1]) = Resolve(prog.ins[u][2])

IdleInv == check = NoArg => pending = NoUsers

\* A check that was visited has left no equal one below it, unless its input is
\* a keeper; those of the check at work that are left are still pending.
Taken(d) == \E e \in Eliminated : keeper[e] = d
Repeats(u, c) == IsSameOpcode(u, c) /\ store.ins[u] = store.ins[c] /\ IsDominatedBy(u, c)
VisitedInv ==
  \A c, u \in Instrs :
    IsCheck(c) /\ c \notin Ahead /\ Repeats(u, c) /\ ~Taken(store.ins[c][1])
      => c = check /\ pending[u] > 0

SafetyInv == ProgramInv /\ StoreInv /\ LocalsInv /\ OrderInv /\ KeeperInv /\ CodeInv
             /\ UsersInv /\ CheckInv /\ IdleInv /\ VisitedInv

-----------------------------------------------------------------------------
\* A listing of a finite set without repetition meets all of it.
LEMMA ListingCovers ==
  ASSUME NEW S, IsFiniteSet(S), NEW f \in [1 .. Cardinality(S) -> S],
         \A i, j \in 1 .. Cardinality(S) : f[i] = f[j] => i = j
  PROVE  \A t \in S : \E i \in 1 .. Cardinality(S) : f[i] = t
<1> DEFINE n == Cardinality(S)
<1>1. n \in Nat
  BY FS_CardinalityType
<1>2. f \in Injection(1 .. n, S)
  BY Fun_IsInj
<1>3. Cardinality(1 .. n) = n
  BY <1>1, FS_Interval
<1>4. f \in Surjection(1 .. n, S)
  BY <1>2, <1>3, FS_Injection
<1> QED BY <1>4 DEF Surjection

\* An order of the listing holds every block once.
LEMMA OrderLists ==
  ASSUME NEW g, NEW q \in Orders(g)
  PROVE  /\ Len(q) \in Nat /\ DOMAIN q = 1 .. Len(q) /\ IsPostOrder(g, Entry, q)
         /\ \A n \in 1 .. Len(q) : q[n] \in Blocks
         /\ \A i, j \in 1 .. Len(q) : q[i] = q[j] => i = j
         /\ \A b \in Blocks : \E n \in 1 .. Len(q) : q[n] = b
<1>1. q \in [1 .. Cardinality(Blocks) -> Blocks] /\ IsPostOrder(g, Entry, q)
  BY DEF Orders
<1>2. Cardinality(Blocks) \in Nat
  BY EntryAssumption, FS_CardinalityType
<1>3. Len(q) = Cardinality(Blocks) /\ DOMAIN q = 1 .. Len(q)
  BY <1>1, <1>2
<1>4. \A i, j \in 1 .. Len(q) : q[i] = q[j] => i = j
  BY <1>1 DEF IsPostOrder, ListsReachable
<1>5. \A i, j \in 1 .. Cardinality(Blocks) : q[i] = q[j] => i = j
  BY <1>3, <1>4
<1>6. \A b \in Blocks : \E n \in 1 .. Cardinality(Blocks) : q[n] = b
  BY <1>1, <1>5, EntryAssumption, ListingCovers, Zenon
<1>7. \A b \in Blocks : \E n \in 1 .. Len(q) : q[n] = b
  BY <1>3, <1>6
<1> QED BY <1>1, <1>2, <1>3, <1>4, <1>7

\* The graph has an edge from x to y that is still there when a is cut out.
LEMMA CutEdge ==
  ASSUME NEW g, NEW a, NEW x \in Reach(Cut(g, a), Entry), x # a,
         NEW y \in g[x], y # a, y \in Blocks
  PROVE  y \in Reach(Cut(g, a), Entry)
BY ReachBlocks, ReachStep DEF Cut

\* A dominator comes first: in a post-order, a block has all blocks it dominates
\* in front of it.  Otherwise the predecessors that come after such a block lead
\* back to the root on a path without the dominator.
LEMMA DominatorFirst ==
  ASSUME NEW g, NEW q \in Orders(g),
         NEW i \in 1 .. Len(q), NEW j \in 1 .. Len(q),
         BlockDominates(g, q[i], q[j])
  PROVE  j <= i
<1> SUFFICES ASSUME i < j PROVE FALSE
  BY OrderLists
<1> DEFINE R == Reach(Cut(g, q[i]), Entry)
           bad(d) == d < Len(q) /\ Len(q) - d >= j /\ q[Len(q) - d] \notin R
           D == {d \in Nat : bad(d)}
<1>1. /\ Len(q) \in Nat
      /\ \A n \in 1 .. Len(q) : q[n] \in Blocks
      /\ \A n, m \in 1 .. Len(q) : q[n] = q[m] => n = m
  BY OrderLists, Zenon
<1>2. SomePredecessorLater(g, Entry, q)
  BY OrderLists DEF IsPostOrder
<1>3. q[i] # q[j] /\ q[j] \notin R
  BY <1>1 DEF BlockDominates
<1>4. Len(q) - j \in D
  BY <1>1, <1>3
<1>5. PICK d \in D : \A k \in D : d <= k
  <2> HIDE DEF D
  <2>1. D \subseteq Nat
    BY DEF D
  <2> QED BY <1>4, <2>1, LeastNatural, Zenon
<1> DEFINE n == Len(q) - d
<1>6. n \in 1 .. Len(q) /\ j <= n /\ q[n] \notin R
  BY <1>1, <1>5
<1>7. Entry \in R
  BY EntryAssumption, ReachSelf
<1>8. PICK m \in n + 1 .. Len(q) : q[n] \in g[q[m]]
  <2> HIDE DEF n, R
  <2> QED BY <1>2, <1>6, <1>7 DEF SomePredecessorLater
<1>9. Len(q) - m \in Nat /\ Len(q) - m < d /\ Len(q) - (Len(q) - m) = m
  BY <1>1, <1>5, <1>8
<1>10. q[m] \in R
  <2>1. Len(q) - m \notin D
    BY <1>5, <1>9
  <2> QED BY <1>1, <1>6, <1>8, <1>9, <2>1
<1>11. q[m] # q[i] /\ q[n] # q[i]
  BY <1>1, <1>6, <1>8
<1> HIDE DEF n
<1>12. q[n] \in R
  BY <1>1, <1>6, <1>8, <1>10, <1>11, CutEdge
<1> QED BY <1>6, <1>12

LEMMA BlockDominatesTransitive ==
  ASSUME NEW g, NEW a, NEW b, NEW c, \A x \in Blocks : g[x] \subseteq Blocks,
         BlockDominates(g, a, b), BlockDominates(g, b, c)
  PROVE  BlockDominates(g, a, c)
<1> DEFINE A == Reach(Cut(g, a), Entry)
           B == Reach(Cut(g, b), Entry)
<1> SUFFICES ASSUME c \in A, a # b, b # c PROVE FALSE
  BY DEF BlockDominates
<1>1. b \notin A /\ c \notin B
  BY DEF BlockDominates
<1>2. A \cap B \in SUBSET Blocks
  BY ReachBlocks
<1>3. Entry \in A \cap B
  BY EntryAssumption, ReachSelf
<1>4. Closed(Cut(g, a), A \cap B)
  <2> SUFFICES ASSUME NEW x \in A \cap B, NEW y \in Cut(g, a)[x] PROVE y \in A \cap B
    BY DEF Closed
  <2>1. x \in Blocks /\ x # a /\ x # b /\ y \in g[x] /\ y \in Blocks /\ y # a
    BY <1>1, <1>2 DEF Cut
  <2>2. y \in A
    BY <2>1, CutEdge
  <2>3. y # b
    BY <1>1, <2>2
  <2>4. y \in B
    BY <2>1, <2>3, CutEdge
  <2> QED BY <2>2, <2>4
<1>5. A \subseteq A \cap B
  BY <1>2, <1>3, <1>4, ReachLeast
<1> QED BY <1>1, <1>5

-----------------------------------------------------------------------------
(***************************************************************************)
(* Domination of instructions is an order, and every listing respects it.  *)
(***************************************************************************)
LEMMA PlaceOfInstruction ==
  ASSUME NEW p, WellFormed(p), NEW i \in Instrs
  PROVE  /\ Place(p.lists, i)[1] \in Blocks
         /\ Place(p.lists, i)[2] \in 1 .. Len(p.lists[Place(p.lists, i)[1]])
         /\ Place(p.lists, i)[2] \in Nat
         /\ p.lists[Place(p.lists, i)[1]][Place(p.lists, i)[2]] = i
<1> DEFINE x == Place(p.lists, i)
<1>1. x \in Places(p.lists, i)
  BY DEF WellFormed, Place
<1>2. PICK b \in Blocks : x \in {b} \X DOMAIN p.lists[b] /\ p.lists[x[1]][x[2]] = i
  BY <1>1 DEF Places
<1>3. p.lists[b] \in Seq(Instrs)
  BY DEF WellFormed
<1>4. DOMAIN p.lists[b] = 1 .. Len(p.lists[b]) /\ Len(p.lists[b]) \in Nat
  BY <1>3
<1>5. x[1] = b /\ x[2] \in 1 .. Len(p.lists[b]) /\ x[2] \in Nat
  BY <1>2, <1>4
<1> HIDE DEF x
<1> QED BY <1>2, <1>5 DEF x

LEMMA SamePlace ==
  ASSUME NEW p, WellFormed(p), NEW i \in Instrs, NEW j \in Instrs,
         Place(p.lists, i)[1] = Place(p.lists, j)[1],
         Place(p.lists, i)[2] = Place(p.lists, j)[2]
  PROVE  i = j
BY PlaceOfInstruction

LEMMA DominatesSelf ==
  ASSUME NEW p, WellFormed(p), NEW i \in Instrs
  PROVE  DominatesIn(p, i, i)
BY PlaceOfInstruction DEF DominatesIn

\* Two blocks never dominate each other.
LEMMA BlockDominatesAntisymmetric ==
  ASSUME NEW g, Orders(g) # {}, NEW a \in Blocks, NEW b \in Blocks,
         BlockDominates(g, a, b), BlockDominates(g, b, a)
  PROVE  a = b
<1>1. PICK q \in Orders(g) : TRUE
  OBVIOUS
<1>2. PICK i \in 1 .. Len(q), j \in 1 .. Len(q) : q[i] = a /\ q[j] = b
  BY OrderLists
<1>3. i <= j /\ j <= i
  BY <1>2, DominatorFirst
<1>4. Len(q) \in Nat
  BY OrderLists
<1>5. i = j
  BY <1>3, <1>4
<1> QED BY <1>2, <1>5

LEMMA DominatesTransitive ==
  ASSUME NEW p, WellFormed(p), Orders(p.succs) # {},
         NEW d \in Instrs, NEW i \in Instrs, NEW u \in Instrs,
         DominatesIn(p, d, i), DominatesIn(p, i, u)
  PROVE  DominatesIn(p, d, u)
<1> DEFINE x == Place(p.lists, d)
           y == Place(p.lists, i)
           z == Place(p.lists, u)
           Dom(a, b) == BlockDominates(p.succs, a, b)
<1>1. /\ x[1] \in Blocks /\ y[1] \in Blocks /\ z[1] \in Blocks
      /\ x[2] \in Nat /\ y[2] \in Nat /\ z[2] \in Nat
  BY PlaceOfInstruction
<1>2. /\ IF x[1] = y[1] THEN x[2] <= y[2] ELSE Dom(x[1], y[1])
      /\ IF y[1] = z[1] THEN y[2] <= z[2] ELSE Dom(y[1], z[1])
  BY DEF DominatesIn
<1>3. \A a \in Blocks : p.succs[a] \subseteq Blocks
  BY DEF WellFormed
<1>4. Dom(x[1], y[1]) /\ Dom(y[1], z[1]) => Dom(x[1], z[1])
  BY <1>3, BlockDominatesTransitive
<1>5. Dom(x[1], y[1]) /\ Dom(y[1], x[1]) => x[1] = y[1]
  BY <1>1, BlockDominatesAntisymmetric
<1>6. IF x[1] = z[1] THEN x[2] <= z[2] ELSE Dom(x[1], z[1])
  <2> HIDE DEF x, y, z, Dom
  <2>1. CASE x[1] = y[1]
    <3> QED BY <1>1, <1>2, <2>1
  <2>2. CASE x[1] # y[1] /\ y[1] = z[1]
    BY <1>2, <2>2
  <2>3. CASE x[1] # y[1] /\ y[1] # z[1]
    BY <1>2, <1>4, <1>5, <2>3
  <2> QED BY <2>1, <2>2, <2>3
<1> QED BY <1>6 DEF DominatesIn

LEMMA DominatesAntisymmetric ==
  ASSUME NEW p, WellFormed(p), Orders(p.succs) # {},
         NEW d \in Instrs, NEW i \in Instrs,
         DominatesIn(p, d, i), DominatesIn(p, i, d)
  PROVE  d = i
<1> DEFINE x == Place(p.lists, d)
           y == Place(p.lists, i)
<1>1. /\ x[1] \in Blocks /\ y[1] \in Blocks /\ x[2] \in Nat /\ y[2] \in Nat
  BY PlaceOfInstruction
<1>2. CASE x[1] = y[1]
  <2>1. x[2] <= y[2] /\ y[2] <= x[2]
    BY <1>2 DEF DominatesIn
  <2>2. x[2] = y[2]
    <3> HIDE DEF x, y
    <3> QED BY <1>1, <2>1
  <2> QED BY <1>2, <2>2, SamePlace
<1>3. CASE x[1] # y[1]
  <2>1. BlockDominates(p.succs, x[1], y[1]) /\ BlockDominates(p.succs, y[1], x[1])
    BY <1>3 DEF DominatesIn
  <2> QED BY <1>1, <1>3, <2>1, BlockDominatesAntisymmetric
<1> QED BY <1>2, <1>3

\* Nothing dominates what comes earlier in the listing.
LEMMA EarlierIsNotDominated ==
  ASSUME NEW p, WellFormed(p), NEW q \in Orders(p.succs),
         NEW i \in Instrs, NEW j \in Instrs, Earlier(p.lists, q, i, j)
  PROVE  ~DominatesIn(p, j, i)
<1> DEFINE x == Place(p.lists, i)
           y == Place(p.lists, j)
<1> SUFFICES ASSUME DominatesIn(p, j, i) PROVE FALSE
  OBVIOUS
<1>1. x[2] \in Nat /\ y[2] \in Nat
  BY PlaceOfInstruction
<1>2. CASE x[1] = y[1]
  <2>1. x[2] < y[2] /\ y[2] <= x[2]
    BY <1>2 DEF Earlier, DominatesIn
  <2> QED BY <1>1, <2>1
<1>3. CASE x[1] # y[1]
  <2>1. PICK m \in DOMAIN q, n \in DOMAIN q : m < n /\ q[m] = y[1] /\ q[n] = x[1]
    BY <1>3 DEF Earlier
  <2>2. BlockDominates(p.succs, q[m], q[n])
    BY <1>3, <2>1 DEF DominatesIn
  <2>3. DOMAIN q = 1 .. Len(q) /\ Len(q) \in Nat
    BY OrderLists
  <2>4. n <= m
    BY <2>2, <2>3, DominatorFirst
  <2> QED BY <2>1, <2>3, <2>4
<1> QED BY <1>2, <1>3

\* A listing holds every instruction once, none behind one it dominates.
LEMMA ListingOrder ==
  ASSUME NEW p, WellFormed(p), NEW q \in Orders(p.succs), NEW t \in Listings(p.lists, q)
  PROVE  /\ t \in Seq(Instrs)
         /\ \A i \in Instrs : \E n \in 1 .. Len(t) : t[n] = i
         /\ \A m, n \in 1 .. Len(t) : DominatesIn(p, t[m], t[n]) => m <= n
<1> DEFINE N == Cardinality(Instrs)
<1>1. N \in Nat
  BY InstrsAssumption, FS_CardinalityType
<1>2. /\ t \in [1 .. N -> Instrs]
      /\ \A m, n \in 1 .. N : m < n => Earlier(p.lists, q, t[m], t[n])
  BY DEF Listings
<1> HIDE DEF N
<1>3. t \in Seq(Instrs) /\ Len(t) = N
  BY <1>1, <1>2
<1>4. \A m, n \in 1 .. N : DominatesIn(p, t[m], t[n]) => m <= n
  <2> SUFFICES ASSUME NEW m \in 1 .. N, NEW n \in 1 .. N, n < m
               PROVE  ~DominatesIn(p, t[m], t[n])
    BY <1>1
  <2> QED BY <1>2, EarlierIsNotDominated
<1>5. \A m, n \in 1 .. N : t[m] = t[n] => m = n
  <2> SUFFICES ASSUME NEW m \in 1 .. N, NEW n \in 1 .. N, t[m] = t[n]
               PROVE  m = n
    OBVIOUS
  <2>1. t[m] \in Instrs
    BY <1>2
  <2>2. m <= n /\ n <= m
    BY <1>4, <2>1, DominatesSelf
  <2> QED BY <1>1, <2>2
<1>6. \A i \in Instrs : \E n \in 1 .. N : t[n] = i
  BY <1>2, <1>5, InstrsAssumption, ListingCovers, Zenon DEF N
<1> QED BY <1>3, <1>4, <1>6

-----------------------------------------------------------------------------
(***************************************************************************)
(* The inputs of an instruction that loses none, and slots.                *)
(***************************************************************************)
\* The number of numbers up to k.
LEMMA OneTo == ASSUME NEW k \in Nat PROVE IsFiniteSet(1 .. k) /\ Cardinality(1 .. k) = k
<1>1. 1 \in Int /\ k \in Int
  OBVIOUS
<1> QED BY <1>1, FS_Interval

LEMMA SlotsFinite ==
  ASSUME NEW S, NEW s \in Seq(S), NEW a
  PROVE  /\ IsFiniteSet(Slots(s, a)) /\ Cardinality(Slots(s, a)) \in Nat
         /\ Cardinality(Slots(s, a)) = 0 <=> Slots(s, a) = {}
         /\ Cardinality(Slots(s, a)) <= Len(s)
<1>1. Slots(s, a) \subseteq 1 .. Len(s) /\ Len(s) \in Nat
  BY DEF Slots
<1>2. IsFiniteSet(1 .. Len(s)) /\ Cardinality(1 .. Len(s)) = Len(s)
  BY <1>1, OneTo
<1>3. IsFiniteSet(Slots(s, a)) /\ Cardinality(Slots(s, a)) <= Len(s)
  BY <1>1, <1>2, FS_Subset
<1> QED BY <1>3, FS_CardinalityType, FS_EmptySet

LEMMA PackedFull ==
  ASSUME NEW S, NEW s \in Seq(S), \A k \in DOMAIN s : s[k] # NoArg
  PROVE  Packed(s) = s
<1> DEFINE kept == {k \in DOMAIN s : s[k] # NoArg}
           rank(k) == Cardinality({j \in kept : j <= k})
<1>1. Len(s) \in Nat /\ DOMAIN s = 1 .. Len(s) /\ kept = 1 .. Len(s)
  OBVIOUS
<1>2. \A k \in kept : rank(k) = k
  <2> SUFFICES ASSUME NEW k \in kept PROVE rank(k) = k
    OBVIOUS
  <2>1. {j \in kept : j <= k} = 1 .. k /\ k \in Nat
    BY <1>1
  <2> HIDE DEF kept
  <2> QED BY <2>1, OneTo
<1>3. Cardinality(kept) = Len(s)
  BY <1>1, OneTo
<1> HIDE DEF kept, rank
<1>4. \A n \in 1 .. Len(s) : (CHOOSE k \in kept : rank(k) = n) = n
  BY <1>1, <1>2
<1>5. Packed(s) = [n \in 1 .. Cardinality(kept) |-> s[CHOOSE k \in kept : rank(k) = n]]
  BY DEF Packed, kept, rank
<1>6. Packed(s) = [n \in 1 .. Len(s) |-> s[n]]
  BY <1>3, <1>4, <1>5
<1> QED BY <1>1, <1>6

\* TryRemoveInput changes nothing where there is no such input.
LEMMA DroppedNothing ==
  ASSUME NEW m, NEW u, NEW d, NEW c, NEW S, m.ins[u] \in Seq(S),
         Slots(m.ins[u], d) = {},
         u \in Dynamic => \A k \in DOMAIN m.ins[u] : m.ins[u][k] # NoArg
  PROVE  Dropped(m, u, d, c) = m.ins[u]
<1> DEFINE s == m.ins[u]
           holes == [k \in DOMAIN s |-> IF s[k] = d /\ Cardinality(Slots(SubSeq(s, 1, k), d)) <= c
                                          THEN NoArg ELSE s[k]]
<1>1. \A k \in DOMAIN s : s[k] # d
  BY DEF Slots
<1>2. holes = [k \in DOMAIN s |-> s[k]]
  BY <1>1
<1>3. holes = s
  BY <1>2
<1>4. Dropped(m, u, d, c) = IF u \in Dynamic THEN Packed(holes) ELSE holes
  BY DEF Dropped
<1> HIDE DEF s, holes
<1>5. u \in Dynamic => Packed(s) = s
  BY PackedFull DEF s
<1> QED BY <1>3, <1>4, <1>5 DEF s

LEMMA RedirectedSequence ==
  ASSUME NEW S, NEW s \in Seq(S), NEW d, NEW new \in S
  PROVE  /\ Redirected(s, d, new) \in Seq(S)
         /\ Len(Redirected(s, d, new)) = Len(s)
         /\ DOMAIN Redirected(s, d, new) = DOMAIN s
         /\ \A k \in DOMAIN s : Redirected(s, d, new)[k] = IF s[k] = d THEN new ELSE s[k]
         /\ Slots(s, d) = {} => Redirected(s, d, new) = s
<1>1. DOMAIN s = 1 .. Len(s) /\ Len(s) \in Nat /\ \A k \in 1 .. Len(s) : s[k] \in S
  OBVIOUS
<1>2. Redirected(s, d, new) = [k \in 1 .. Len(s) |-> IF s[k] = d THEN new ELSE s[k]]
  BY <1>1 DEF Redirected
<1> DEFINE f == [k \in 1 .. Len(s) |-> IF s[k] = d THEN new ELSE s[k]]
<1>3. f \in [1 .. Len(s) -> S] /\ DOMAIN f = 1 .. Len(s)
  BY <1>1
<1>4. f \in Seq(S) /\ Len(f) = Len(s)
  <2> HIDE DEF f
  <2> QED BY <1>1, <1>3
<1>5. \A k \in 1 .. Len(s) : f[k] = IF s[k] = d THEN new ELSE s[k]
  OBVIOUS
<1>6. Slots(s, d) = {} => f = s
  <2> SUFFICES ASSUME Slots(s, d) = {} PROVE f = s
    OBVIOUS
  <2>1. \A k \in 1 .. Len(s) : s[k] # d
    BY <1>1 DEF Slots
  <2>2. f = [k \in 1 .. Len(s) |-> s[k]]
    BY <2>1
  <2> QED BY <1>1, <2>2
<1> HIDE DEF f
<1> QED BY <1>1, <1>2, <1>3, <1>4, <1>5, <1>6 DEF f

-----------------------------------------------------------------------------
(***************************************************************************)
(* What the invariant says of single instructions.                         *)
(***************************************************************************)
LEMMA CheckIsNoNop == "NOP" \notin Checks /\ BoundsCheck \notin UnaryChecks
BY DEF Checks, UnaryChecks, BoundsCheck

\* The inputs of an instruction that stays are as many as it was given.
LEMMA StandingInputs ==
  ASSUME SafetyInv, NEW u \in Instrs \ Eliminated
  PROVE  /\ store.op[u] = prog.op[u] /\ store.ins[u] = Inputs(u)
         /\ DOMAIN store.ins[u] = DOMAIN prog.ins[u]
         /\ Len(store.ins[u]) = Len(prog.ins[u]) /\ Len(store.ins[u]) \in Nat
         /\ DOMAIN store.ins[u] = 1 .. Len(store.ins[u])
         /\ \A k \in DOMAIN store.ins[u] : store.ins[u][k] = Resolve(prog.ins[u][k])
<1>1. store.op[u] = prog.op[u] /\ store.ins[u] = Inputs(u)
  BY DEF SafetyInv, CodeInv
<1>2. store.ins[u] \in Seq(Args) /\ prog.ins[u] \in Seq(Args)
  BY DEF SafetyInv, StoreInv, Stores, ProgramInv, WellFormed, Args
<1>3. DOMAIN prog.ins[u] = 1 .. Len(prog.ins[u]) /\ Len(prog.ins[u]) \in Nat
      /\ DOMAIN store.ins[u] = 1 .. Len(store.ins[u]) /\ Len(store.ins[u]) \in Nat
  BY <1>2
<1>4. DOMAIN Inputs(u) = DOMAIN prog.ins[u]
      /\ \A k \in DOMAIN prog.ins[u] : Inputs(u)[k] = Resolve(prog.ins[u][k])
  BY DEF Inputs
<1>5. \A m, n \in Nat : 1 .. m = 1 .. n => m = n
  <2> SUFFICES ASSUME NEW m \in Nat, NEW n \in Nat, 1 .. m = 1 .. n PROVE m = n
    OBVIOUS
  <2>1. Cardinality(1 .. m) = m /\ Cardinality(1 .. n) = n
    BY OneTo
  <2> QED BY <2>1
<1>6. Len(store.ins[u]) = Len(prog.ins[u])
  BY <1>1, <1>3, <1>4, <1>5
<1> QED BY <1>1, <1>3, <1>4, <1>6

\* A check has not been eliminated, and the number of inputs of its kind.
LEMMA CheckStands ==
  ASSUME SafetyInv, NEW c \in Instrs, IsCheck(c)
  PROVE  /\ c \notin Eliminated
         /\ store.op[c] = prog.op[c]
         /\ store.op[c] \in UnaryChecks => Len(store.ins[c]) = 1
         /\ store.op[c] = BoundsCheck => Len(store.ins[c]) = 2
<1>1. c \notin Eliminated
  BY CheckIsNoNop DEF SafetyInv, CodeInv, IsCheck
<1>2. store.op[c] = prog.op[c] /\ Len(store.ins[c]) = Len(prog.ins[c])
  BY <1>1, StandingInputs
<1> QED BY <1>1, <1>2 DEF SafetyInv, ProgramInv, WellFormed

\* What stands for a is a itself or the check that replaced it.
LEMMA ResolvedArgument ==
  ASSUME SafetyInv, NEW a \in Args
  PROVE  /\ Resolve(a) \in Args
         /\ a \notin Instrs => Resolve(a) = a
         /\ a \in Instrs => Resolve(a) \in Instrs
         /\ Resolve(a) \notin Eliminated
         /\ Resolve(a) # a => a \in Eliminated /\ Resolve(a) = keeper[a]
<1>1. \A e \in Eliminated : e \in Instrs /\ keeper[e] \in Instrs /\ keeper[e] \notin Eliminated
  BY DEF SafetyInv, LocalsInv, KeeperInv, Eliminated
<1> QED BY <1>1 DEF Resolve, Args

\* The inputs of what stands: they stand themselves, and dominate it.
LEMMA StandingDefs ==
  ASSUME SafetyInv, NEW u \in Instrs \ Eliminated, NEW k \in DOMAIN store.ins[u],
         store.ins[u][k] \in Instrs
  PROVE  /\ store.ins[u][k] \notin Eliminated /\ store.op[store.ins[u][k]] # "NOP"
         /\ store.op[u] # "NOP"
         /\ Dominates(store.ins[u][k], u) /\ store.ins[u][k] # u
<1> DEFINE d == store.ins[u][k]
           a == prog.ins[u][k]
<1>1. k \in DOMAIN prog.ins[u] /\ d = Resolve(a) /\ store.op[u] = prog.op[u]
  BY StandingInputs
<1>2. prog.ins[u] \in Seq(Args) /\ WellFormed(prog)
  BY DEF SafetyInv, ProgramInv, WellFormed, Args
<1>3. a \in Args
  BY <1>1, <1>2
<1>4. a \in Instrs
  BY <1>1, <1>3, ResolvedArgument
<1>5. prog.op[u] # "NOP" /\ prog.op[a] # "NOP" /\ Dominates(a, u) /\ a # u
  BY <1>1, <1>2, <1>4 DEF WellFormed, ArgumentFits, Dominates
<1>6. d \notin Eliminated
  BY <1>1, <1>3, ResolvedArgument
<1>7. prog.op[d] # "NOP" /\ Dominates(d, u) /\ d # u
  <2>1. CASE d = a
    BY <1>5, <2>1
  <2>2. CASE d # a
    <3>1. a \in Eliminated /\ d = keeper[a]
      BY <1>1, <1>3, <2>2, ResolvedArgument
    <3>2. prog.op[d] \in Checks /\ Dominates(d, a)
      BY <3>1 DEF SafetyInv, KeeperInv
    <3>3. Dominates(d, u)
      BY <1>2, <1>4, <1>5, <3>2, DominatesTransitive DEF SafetyInv, ProgramInv, Dominates
    <3>4. d = u => a = u
      BY <1>2, <1>4, <1>5, <3>2, DominatesAntisymmetric DEF SafetyInv, ProgramInv, Dominates
    <3> QED BY <1>5, <3>2, <3>3, <3>4, CheckIsNoNop
  <2> QED BY <2>1, <2>2
<1>8. store.op[d] = prog.op[d]
  BY <1>6, StandingInputs
<1> QED BY <1>1, <1>5, <1>6, <1>7, <1>8

\* The dominator lists only name dominators.
LEMMA ListedDominates ==
  ASSUME SafetyInv, NEW u \in Instrs, NEW c \in Instrs, IsDominatedBy(u, c)
  PROVE  Dominates(c, u)
<1>1. BlockOf(u) \in Blocks /\ BlockOf(c) \in Blocks
  BY PlaceOfInstruction DEF SafetyInv, ProgramInv, BlockOf
<1>2. ASSUME BlockOf(c) \in doms[BlockOf(u)]
      PROVE  BlockDominates(prog.succs, BlockOf(c), BlockOf(u))
  BY <1>1, <1>2 DEF SafetyInv, ProgramInv, DomLists
<1> QED BY <1>2 DEF IsDominatedBy, Dominates, DominatesIn, BlockOf, IndexOf

\* What is ahead is no input of what was visited.
LEMMA VisitedInputs ==
  ASSUME SafetyInv, NEW c \in Instrs \ Eliminated, c \notin Ahead, NEW u \in Ahead
  PROVE  Slots(store.ins[c], u) = {}
<1>1. u \in Instrs
  BY DEF SafetyInv, LocalsInv, Ahead
<1>2. ASSUME NEW k \in DOMAIN store.ins[c], store.ins[c][k] = u PROVE FALSE
  <2>1. Dominates(u, c)
    BY <1>1, <1>2, StandingDefs
  <2> QED BY <2>1 DEF SafetyInv, OrderInv
<1> QED BY <1>2 DEF Slots

LEMMA StandingUser ==
  ASSUME SafetyInv, NEW d \in Instrs, NEW u \in Instrs
  PROVE  /\ u \in Eliminated => Slots(store.ins[u], d) = {}
         /\ Uses(store, u, d) \in Nat
         /\ Uses(store, u, d) = 0 <=> Slots(store.ins[u], d) = {}
         /\ Uses(store, u, d) <= Len(store.ins[u])
<1>1. store.ins[u] \in Seq(Args)
  BY DEF SafetyInv, StoreInv, Stores
<1>2. u \in Eliminated => Slots(store.ins[u], d) = {}
  BY ArgsAssumption DEF SafetyInv, CodeInv, Slots
<1> QED BY <1>1, <1>2, SlotsFinite DEF Uses

\* The check at work.
LEMMA CheckAtWork ==
  ASSUME SafetyInv, check # NoArg
  PROVE  /\ check \in Instrs \ Eliminated /\ check \notin Ahead /\ IsCheck(check)
         /\ 1 \in DOMAIN store.ins[check] /\ store.ins[check][1] \in Instrs
         /\ store.ins[check][1] \notin Ahead /\ store.ins[check][1] \notin Eliminated
<1>1. /\ check \in Instrs \ Eliminated /\ check \notin Ahead /\ IsCheck(check)
      /\ store.ins[check][1] \in Instrs
  BY DEF SafetyInv, CheckInv, LocalsInv
<1>2. 1 \in DOMAIN store.ins[check]
  <2>1. Len(store.ins[check]) \in {1, 2}
    BY <1>1, CheckStands DEF IsCheck, Checks
  <2>2. DOMAIN store.ins[check] = 1 .. Len(store.ins[check])
    BY <1>1, StandingInputs
  <2> QED BY <2>1, <2>2
<1>3. Dominates(store.ins[check][1], check) /\ store.ins[check][1] \notin Eliminated
  BY <1>1, <1>2, StandingDefs
<1>4. store.ins[check][1] \notin Ahead
  BY <1>1, <1>3 DEF SafetyInv, OrderInv
<1> QED BY <1>1, <1>2, <1>3, <1>4

\* The instruction it eliminates: an equal check still ahead, no keeper.
LEMMA EliminationTarget ==
  ASSUME SafetyInv, check # NoArg, NEW u \in Instrs, pending[u] > 0,
         IsSameOpcode(u, check), SameArguments(u, check), IsDominatedBy(u, check)
  PROVE  /\ u # check /\ u \notin Eliminated /\ u \in Ahead /\ IsCheck(u)
         /\ Dominates(check, u)
         /\ store.ins[u] = store.ins[check] /\ store.op[u] = store.op[check]
         /\ store.ins[check][1] # u
         /\ \A e \in Eliminated : keeper[e] # u
<1> DEFINE input == store.ins[check][1]
<1>1. check \in Instrs /\ IsCheck(check) /\ input \notin Ahead
  BY CheckAtWork
<1>2. u # check /\ store.op[u] = store.op[check] /\ IsCheck(u)
  BY <1>1 DEF IsSameOpcode, IsCheck
<1>3. Dominates(check, u)
  BY <1>1, ListedDominates
<1>4. u \in Ahead
  BY <1>2, <1>3 DEF SafetyInv, CheckInv
<1>5. u \notin Eliminated
  BY <1>2, CheckStands
<1>6. /\ DOMAIN store.ins[u] = 1 .. Len(store.ins[u])
      /\ DOMAIN store.ins[check] = 1 .. Len(store.ins[check])
      /\ store.ins[u] \in Seq(Args) /\ store.ins[check] \in Seq(Args)
  BY <1>1, <1>5, StandingInputs, CheckAtWork DEF SafetyInv, StoreInv, Stores
<1>7. store.ins[u] = store.ins[check]
  <2>1. CASE store.op[check] \in UnaryChecks
    <3>1. Len(store.ins[u]) = 1 /\ Len(store.ins[check]) = 1
      BY <1>1, <1>2, <2>1, CheckStands
    <3>2. pending[u] \in Nat /\ pending[u] <= Uses(store, u, input) /\ input \in Instrs
      BY <1>5, CheckAtWork DEF SafetyInv, CheckInv, LocalsInv
    <3>3. Uses(store, u, input) # 0
      BY <3>2, StandingUser
    <3>4. PICK k \in DOMAIN store.ins[u] : store.ins[u][k] = input
      BY <3>2, <3>3, StandingUser DEF Slots
    <3>5. k = 1
      BY <1>6, <3>1, <3>4
    <3> QED BY <1>6, <3>1, <3>4, <3>5
  <2>2. CASE store.op[check] = BoundsCheck
    <3>1. Len(store.ins[u]) = 2 /\ Len(store.ins[check]) = 2
      BY <1>1, <1>2, <2>2, CheckStands
    <3>2. store.ins[u][1] = store.ins[check][1] /\ store.ins[u][2] = store.ins[check][2]
      BY <2>2 DEF SameArguments
    <3> QED BY <1>6, <3>1, <3>2
  <2> QED BY <1>1, <2>1, <2>2 DEF IsCheck, Checks
<1>8. \A e \in Eliminated : keeper[e] # u
  BY <1>4 DEF SafetyInv, KeeperInv
<1> QED BY <1>1, <1>2, <1>3, <1>4, <1>5, <1>7, <1>8

\* Only NOPs with fixed slots have holes.
LEMMA NoHoles ==
  ASSUME SafetyInv, NEW w \in Dynamic, NEW k \in DOMAIN store.ins[w]
  PROVE  store.ins[w][k] # NoArg
<1>1. w \in Instrs
  BY InstrsAssumption
<1>2. w \notin Eliminated
  BY <1>1 DEF SafetyInv, CodeInv
<1>3. k \in DOMAIN prog.ins[w] /\ store.ins[w][k] = Resolve(prog.ins[w][k])
  BY <1>1, <1>2, StandingInputs
<1>4. prog.ins[w] \in Seq(Args) /\ ArgumentFits(prog, w, k)
  BY <1>1, <1>3 DEF SafetyInv, ProgramInv, WellFormed, Args
<1>5. prog.ins[w][k] \in Args
  BY <1>3, <1>4
<1>6. prog.ins[w][k] # NoArg
  BY <1>4 DEF ArgumentFits
<1> QED BY <1>3, <1>5, <1>6, ResolvedArgument, ArgsAssumption DEF Args

\* After the users of u have been redirected, nobody uses u.
LEMMA RedirectEffect ==
  ASSUME SafetyInv, check # NoArg, NEW u \in Instrs, pending[u] > 0,
         IsSameOpcode(u, check), SameArguments(u, check), IsDominatedBy(u, check)
  PROVE  /\ Redirect(u) \in Stores
         /\ Redirect(u).op = store.op
         /\ \A w \in Instrs : /\ Redirect(u).ins[w] = Redirected(store.ins[w], u, check)
                              /\ Slots(Redirect(u).ins[w], u) = {}
         /\ Redirect(u).ins[u] = store.ins[u]
         /\ \A d, w \in Instrs :
              /\ w # u => Redirect(u).users[d][w] = store.users[d][w]
              /\ Redirect(u).users[d][w] <= store.users[d][w]
         /\ Redirect(u).users[u] = store.users[u]
<1> DEFINE input == store.ins[check][1]
           m == RemoveUser(store, input, u)
<1>1. /\ check \in Instrs \ Eliminated /\ input \in Instrs /\ check \notin Ahead
      /\ u # check /\ u \in Ahead /\ input # u /\ store.ins[u] = store.ins[check]
      /\ u \notin Eliminated /\ \A e \in Eliminated : keeper[e] # u
  BY CheckAtWork, EliminationTarget
<1>2. /\ store \in Stores
      /\ store.op \in [Instrs -> STRING \cup {"NOP"}] /\ store.ins \in [Instrs -> Seq(Args)]
      /\ store.users \in [Instrs -> [Instrs -> Nat]]
  BY DEF SafetyInv, StoreInv, Stores
<1>3. \A n \in Nat : Less(n, 1) \in Nat /\ Less(n, 1) <= n
  BY DEF Less
<1>4. /\ m = [op |-> store.op, ins |-> store.ins, users |-> m.users]
      /\ m.op = store.op /\ m.ins = store.ins
      /\ m.users = [store.users EXCEPT ![input][u] = Less(@, 1)]
  <2>1. store = [op |-> store.op, ins |-> store.ins, users |-> store.users]
    BY <1>2 DEF Stores
  <2>2. m = [op |-> store.op, ins |-> store.ins,
             users |-> [store.users EXCEPT ![input][u] = Less(@, 1)]]
    BY <2>1 DEF RemoveUser
  <2> QED BY <2>2
<1>5. /\ m.users \in [Instrs -> [Instrs -> Nat]]
      /\ \A d, w \in Instrs : /\ w # u => m.users[d][w] = store.users[d][w]
                              /\ m.users[d][w] <= store.users[d][w]
      /\ m.users[u] = store.users[u]
  <2> DEFINE n == Less(store.users[input][u], 1)
             row == [store.users[input] EXCEPT ![u] = n]
  <2>1. store.users[input] \in [Instrs -> Nat] /\ store.users[input][u] \in Nat
    BY <1>1, <1>2
  <2>2. n \in Nat /\ n <= store.users[input][u]
    BY <1>3, <2>1
  <2>3. m.users = [store.users EXCEPT ![input] = row]
    BY <1>1, <1>2, <1>4
  <2> HIDE DEF n
  <2>4. row \in [Instrs -> Nat] /\ row[u] = n
        /\ \A w \in Instrs : w # u => row[w] = store.users[input][w]
    BY <2>1, <2>2
  <2> HIDE DEF row, m
  <2>5. m.users \in [Instrs -> [Instrs -> Nat]] /\ m.users[input] = row
        /\ \A d \in Instrs : d # input => m.users[d] = store.users[d]
    <3>1. store.users \in [Instrs -> [Instrs -> Nat]] /\ input \in Instrs
      BY <1>1, <1>2
    <3>2. row \in [Instrs -> Nat]
      BY <2>4
    <3> QED BY <2>3, <3>1, <3>2
  <2>6. \A d, w \in Instrs : w # u => m.users[d][w] = store.users[d][w]
    BY <2>4, <2>5
  <2>7. \A d \in Instrs : m.users[d][u] <= store.users[d][u]
    <3> SUFFICES ASSUME NEW d \in Instrs PROVE m.users[d][u] <= store.users[d][u]
      OBVIOUS
    <3>1. CASE d = input
      BY <2>2, <2>4, <2>5, <3>1
    <3>2. CASE d # input
      <4>1. m.users[d][u] = store.users[d][u] /\ store.users[d][u] \in Nat
        BY <1>2, <2>5, <3>2
      <4> QED BY <4>1
    <3> QED BY <3>1, <3>2
  <2>8. \A d, w \in Instrs : store.users[d][w] <= store.users[d][w]
    BY <1>2
  <2> QED BY <1>1, <2>5, <2>6, <2>7, <2>8
<1>6. Redirect(u) = ReplaceInputForUsers(m, u, check)
  BY DEF Redirect
<1> DEFINE ins2 == [w \in Instrs |-> IF w \in UsersOf(m, u) THEN Redirected(m.ins[w], u, check)
                                                          ELSE m.ins[w]]
<1>7. Redirect(u) = [m EXCEPT !.ins = ins2]
  BY <1>2, <1>4, <1>6 DEF ReplaceInputForUsers
<1> HIDE DEF m
<1>8. m \in Stores
  BY <1>2, <1>4, <1>5 DEF Stores
<1>9. \A w \in Instrs : ins2[w] = Redirected(store.ins[w], u, check)
  <2> SUFFICES ASSUME NEW w \in Instrs PROVE ins2[w] = Redirected(store.ins[w], u, check)
    OBVIOUS
  <2>1. CASE w \in UsersOf(m, u)
    BY <1>4, <2>1
  <2>2. CASE w \notin UsersOf(m, u)
    <3>1. store.users[u][w] = 0
      BY <1>2, <1>5, <2>2 DEF UsersOf
    <3>2. Slots(store.ins[w], u) = {}
      BY <1>1, <3>1 DEF SafetyInv, UsersInv
    <3>3. check \in Args /\ store.ins[w] \in Seq(Args)
      BY <1>1, <1>2 DEF Args
    <3>4. Redirected(store.ins[w], u, check) = store.ins[w]
      BY <3>2, <3>3, RedirectedSequence
    <3> QED BY <1>4, <2>2, <3>4
  <2> QED BY <2>1, <2>2
<1>10. \A w \in Instrs : ins2[w] \in Seq(Args) /\ Slots(ins2[w], u) = {}
  <2> SUFFICES ASSUME NEW w \in Instrs PROVE ins2[w] \in Seq(Args) /\ Slots(ins2[w], u) = {}
    OBVIOUS
  <2> HIDE DEF ins2
  <2>1. store.ins[w] \in Seq(Args) /\ check \in Args
    BY <1>1, <1>2 DEF Args
  <2>2. /\ ins2[w] \in Seq(Args) /\ DOMAIN ins2[w] = DOMAIN store.ins[w]
        /\ \A k \in DOMAIN store.ins[w] : ins2[w][k] = IF store.ins[w][k] = u THEN check
                                                       ELSE store.ins[w][k]
    BY <1>9, <2>1, RedirectedSequence
  <2> QED BY <1>1, <2>2 DEF Slots
<1>11. ins2 \in [Instrs -> Seq(Args)]
  BY <1>10
<1>12. ins2[u] = store.ins[u]
  <2>1. Slots(store.ins[u], u) = {}
    BY <1>1, VisitedInputs
  <2>2. check \in Args /\ store.ins[u] \in Seq(Args)
    BY <1>1, <1>2 DEF Args
  <2>3. Redirected(store.ins[u], u, check) = store.ins[u]
    BY <2>1, <2>2, RedirectedSequence
  <2> HIDE DEF ins2
  <2> QED BY <1>9, <2>3
<1> HIDE DEF ins2
<1>13. /\ Redirect(u).ins = ins2 /\ Redirect(u).op = m.op /\ Redirect(u).users = m.users
       /\ Redirect(u) \in Stores
  BY <1>7, <1>8, <1>11 DEF Stores
<1>14. \A w \in Instrs : /\ Redirect(u).ins[w] = Redirected(store.ins[w], u, check)
                         /\ Slots(Redirect(u).ins[w], u) = {}
  BY <1>9, <1>10, <1>13
<1>15. /\ \A d, w \in Instrs :
             /\ w # u => Redirect(u).users[d][w] = store.users[d][w]
             /\ Redirect(u).users[d][w] <= store.users[d][w]
       /\ Redirect(u).users[u] = store.users[u]
  BY <1>5, <1>13, Zenon
<1>16. Redirect(u).op = store.op /\ Redirect(u).ins[u] = store.ins[u] /\ Redirect(u) \in Stores
  BY <1>4, <1>12, <1>13, Zenon
<1> QED BY <1>14, <1>15, <1>16, Zenon

\* What the elimination of u leaves.
LEMMA EliminationEffect ==
  ASSUME SafetyInv, check # NoArg, NEW u \in Instrs, pending[u] > 0,
         IsSameOpcode(u, check), SameArguments(u, check), IsDominatedBy(u, check),
         NEW n, n = MakeNop(Redirect(u), u)
  PROVE  /\ n \in Stores
         /\ n.op[u] = "NOP" /\ \A w \in Instrs \ {u} : n.op[w] = store.op[w]
         /\ \A k \in DOMAIN n.ins[u] : u \notin Dynamic /\ n.ins[u][k] = NoArg
         /\ \A w \in Instrs \ {u} : n.ins[w] = Redirected(store.ins[w], u, check)
         /\ \A d \in Instrs : n.users[d][u] = 0
         /\ \A w \in Instrs : n.users[u][w] = 0
         /\ \A d, w \in Instrs \ {u} : n.users[d][w] = store.users[d][w]
<1> DEFINE m == Redirect(u)
<1>1. /\ m \in Stores /\ m.op = store.op /\ m.ins[u] = store.ins[u]
      /\ \A w \in Instrs : /\ m.ins[w] = Redirected(store.ins[w], u, check)
                           /\ Slots(m.ins[w], u) = {}
      /\ \A d, w \in Instrs : /\ w # u => m.users[d][w] = store.users[d][w]
                              /\ m.users[d][w] <= store.users[d][w]
  BY RedirectEffect
<1> HIDE DEF m
<1>2. /\ m.op \in [Instrs -> STRING \cup {"NOP"}] /\ m.ins \in [Instrs -> Seq(Args)]
      /\ m.users \in [Instrs -> [Instrs -> Nat]]
  BY <1>1 DEF Stores
<1>3. store.ins \in [Instrs -> Seq(Args)] /\ store.users \in [Instrs -> [Instrs -> Nat]]
  BY DEF SafetyInv, StoreInv, Stores
<1>4. n = MakeNop(m, u)
  BY DEF m
<1>5. /\ n.op = [m.op EXCEPT ![u] = "NOP"]
      /\ n.ins = [w \in Instrs |-> IF w = u THEN Emptied(m, u)
                                   ELSE Dropped(m, w, u, m.users[u][w])]
      /\ n.users = [d \in Instrs |-> IF d = u THEN NoUsers ELSE Forget(m, u, d)]
      /\ n = [op |-> n.op, ins |-> n.ins, users |-> n.users]
  BY <1>4 DEF MakeNop
<1>6. /\ n.op \in [Instrs -> STRING \cup {"NOP"}] /\ n.op[u] = "NOP"
      /\ \A w \in Instrs \ {u} : n.op[w] = store.op[w]
  BY <1>1, <1>2, <1>5
<1>7. \A w \in Instrs \ {u} : n.ins[w] = m.ins[w]
  <2> SUFFICES ASSUME NEW w \in Instrs \ {u} PROVE n.ins[w] = m.ins[w]
    OBVIOUS
  <2>1. n.ins[w] = Dropped(m, w, u, m.users[u][w])
    BY <1>5
  <2>2. m.ins[w] \in Seq(Args) /\ Slots(m.ins[w], u) = {} /\ store.ins[w] \in Seq(Args)
    BY <1>1, <1>2, <1>3
  <2>3. check \in Args /\ check # NoArg
    BY CheckAtWork DEF Args
  <2>4. w \in Dynamic => \A k \in DOMAIN m.ins[w] : m.ins[w][k] # NoArg
    <3> SUFFICES ASSUME w \in Dynamic, NEW k \in DOMAIN m.ins[w] PROVE m.ins[w][k] # NoArg
      OBVIOUS
    <3>1. k \in DOMAIN store.ins[w]
          /\ m.ins[w][k] = IF store.ins[w][k] = u THEN check ELSE store.ins[w][k]
      BY <1>1, <2>2, <2>3, RedirectedSequence
    <3>2. store.ins[w][k] # NoArg
      BY <3>1, NoHoles
    <3> QED BY <2>3, <3>1, <3>2
  <2>5. Dropped(m, w, u, m.users[u][w]) = m.ins[w]
    BY <2>2, <2>4, DroppedNothing, Zenon
  <2> QED BY <2>1, <2>5
<1>8. /\ n.ins[u] \in Seq(Args)
      /\ \A k \in DOMAIN n.ins[u] : u \notin Dynamic /\ n.ins[u][k] = NoArg
  <2>1. n.ins[u] = Emptied(m, u)
    BY <1>5
  <2>2. CASE u \in Dynamic
    BY <2>1, <2>2 DEF Emptied
  <2>3. CASE u \notin Dynamic
    <3>1. n.ins[u] = [k \in DOMAIN m.ins[u] |-> NoArg]
      BY <2>1, <2>3 DEF Emptied
    <3>2. m.ins[u] \in Seq(Args) /\ NoArg \in Args
      BY <1>2 DEF Args
    <3>3. Len(m.ins[u]) \in Nat /\ n.ins[u] \in [1 .. Len(m.ins[u]) -> Args]
      BY <3>1, <3>2
    <3>4. n.ins[u] \in Seq(Args)
      BY <3>3
    <3> QED BY <2>3, <3>1, <3>4
  <2> QED BY <2>2, <2>3
<1>9. n.ins \in [Instrs -> Seq(Args)]
  <2>1. \A w \in Instrs : n.ins[w] \in Seq(Args)
    BY <1>2, <1>7, <1>8
  <2> QED BY <1>5, <2>1
<1>10. \A d \in Instrs \ {u} : /\ n.users[d] \in [Instrs -> Nat]
                               /\ n.users[d][u] = 0
                               /\ \A w \in Instrs \ {u} : n.users[d][w] = store.users[d][w]
  <2> SUFFICES ASSUME NEW d \in Instrs \ {u}
               PROVE  /\ n.users[d] \in [Instrs -> Nat]
                      /\ n.users[d][u] = 0
                      /\ \A w \in Instrs \ {u} : n.users[d][w] = store.users[d][w]
    OBVIOUS
  <2> DEFINE l == Less(m.users[d][u], Uses(m, u, d))
  <2>1. n.users[d] = [m.users[d] EXCEPT ![u] = l]
    BY <1>2, <1>5 DEF Forget
  <2>2. Uses(m, u, d) = Uses(store, u, d) /\ Uses(store, u, d) \in Nat
    BY <1>1, StandingUser DEF Uses
  <2>3. m.users[d][u] <= store.users[d][u] /\ store.users[d][u] <= Uses(store, u, d)
    BY <1>1 DEF SafetyInv, UsersInv
  <2>4. m.users[d][u] \in Nat /\ store.users[d][u] \in Nat
    BY <1>2, <1>3
  <2>5. l = 0
    BY <2>2, <2>3, <2>4 DEF Less
  <2> HIDE DEF l
  <2> QED BY <1>1, <1>2, <2>1, <2>5
<1>11. n.users[u] \in [Instrs -> Nat] /\ \A w \in Instrs : n.users[u][w] = 0
  BY <1>5 DEF NoUsers
<1>12. n.users \in [Instrs -> [Instrs -> Nat]]
  <2>1. \A d \in Instrs : n.users[d] \in [Instrs -> Nat]
    BY <1>10, <1>11
  <2> QED BY <1>5, <2>1
<1>13. n \in Stores
  BY <1>5, <1>6, <1>9, <1>12 DEF Stores
<1> QED BY <1>1, <1>6, <1>7, <1>8, <1>10, <1>11, <1>13

-----------------------------------------------------------------------------
(***************************************************************************)
(* The steps.  First the elimination of u.                                 *)
(***************************************************************************)
\* Eliminate without a failure.
Replaces(u) ==
  /\ check # NoArg /\ pending[u] > 0
  /\ IsSameOpcode(u, check) /\ SameArguments(u, check) /\ IsDominatedBy(u, check)
  /\ store' = MakeNop(Redirect(u), u)
  /\ keeper' = [keeper EXCEPT ![u] = check]
  /\ Considered(u)
  /\ UNCHANGED <<prog, doms, todo, check, state>>

\* From then on, check stands for what u stood for.
LEMMA ReplacesResolve ==
  ASSUME SafetyInv, NEW u \in Instrs, Replaces(u)
  PROVE  /\ Eliminated' = Eliminated \cup {u}
         /\ \A e \in Eliminated : keeper'[e] = keeper[e]
         /\ keeper'[u] = check
         /\ \A a \in Args : Resolve(a)' = IF Resolve(a) = u THEN check ELSE Resolve(a)
         /\ \A i \in Instrs : Inputs(i)' = Redirected(Inputs(i), u, check)
<1>1. /\ check \in Instrs /\ check # NoArg /\ u \notin Eliminated
      /\ \A e \in Eliminated : keeper[e] # u
  BY CheckAtWork, EliminationTarget DEF Replaces
<1>2. keeper \in [Instrs -> Instrs \cup {NoArg}] /\ keeper' = [keeper EXCEPT ![u] = check]
      /\ prog' = prog
  BY DEF SafetyInv, LocalsInv, Replaces
<1>3. keeper'[u] = check /\ \A i \in Instrs \ {u} : keeper'[i] = keeper[i]
  BY <1>2
<1>4. Eliminated' = Eliminated \cup {u}
  BY <1>1, <1>3 DEF Eliminated
<1>5. \A e \in Eliminated : keeper'[e] = keeper[e]
  BY <1>1, <1>3 DEF Eliminated
<1>6. \A a \in Args : Resolve(a)' = IF Resolve(a) = u THEN check ELSE Resolve(a)
  BY <1>1, <1>3, <1>4, <1>5 DEF Resolve
<1>7. \A a \in Args : (IF a \in Eliminated' THEN keeper'[a] ELSE a)
                         = IF Resolve(a) = u THEN check ELSE Resolve(a)
  BY <1>6 DEF Resolve
<1>8. ASSUME NEW i \in Instrs PROVE Inputs(i)' = Redirected(Inputs(i), u, check)
  <2>1. prog.ins[i] \in Seq(Args)
    BY DEF SafetyInv, ProgramInv, WellFormed, Args
  <2>2. \A k \in DOMAIN prog.ins[i] : prog.ins[i][k] \in Args
    BY <2>1
  <2>3. Inputs(i)' = [k \in DOMAIN prog.ins[i] |->
                        IF prog.ins[i][k] \in Eliminated' THEN keeper'[prog.ins[i][k]]
                                                         ELSE prog.ins[i][k]]
    BY <1>2 DEF Inputs, Resolve
  <2>4. Inputs(i)' = [k \in DOMAIN prog.ins[i] |->
                        IF Resolve(prog.ins[i][k]) = u THEN check ELSE Resolve(prog.ins[i][k])]
    BY <1>7, <2>2, <2>3
  <2>5. Redirected(Inputs(i), u, check)
          = [k \in DOMAIN prog.ins[i] |->
               IF Resolve(prog.ins[i][k]) = u THEN check ELSE Resolve(prog.ins[i][k])]
    BY DEF Redirected, Inputs
  <2> QED BY <2>4, <2>5
<1> QED BY <1>3, <1>4, <1>5, <1>6, <1>8

\* No step changes what the program and its listing look like.
LEMMA SameProgram ==
  ASSUME UNCHANGED <<prog, doms>>
  PROVE  /\ ProgramInv' = ProgramInv
         /\ \A d, i : Dominates(d, i)' = Dominates(d, i)
         /\ \A d, i : IsDominatedBy(d, i)' = IsDominatedBy(d, i)
BY DEF ProgramInv, Dominates, IsDominatedBy, BlockOf, IndexOf

LEMMA SameAhead ==
  ASSUME SafetyInv, UNCHANGED <<prog, doms, todo>>
  PROVE  Ahead' = Ahead /\ OrderInv'
<1>1. Ahead' = Ahead
  BY DEF Ahead
<1> QED BY <1>1, SameProgram DEF SafetyInv, OrderInv

\* What the elimination of u does to the program text, to the user lists and to
\* an instruction that does not use u.
LEMMA ReplacesEffect ==
  ASSUME SafetyInv, NEW u \in Instrs, Replaces(u)
  PROVE  /\ store' \in Stores
         /\ store'.op[u] = "NOP" /\ \A w \in Instrs \ {u} : store'.op[w] = store.op[w]
         /\ \A k \in DOMAIN store'.ins[u] : u \notin Dynamic /\ store'.ins[u][k] = NoArg
         /\ \A w \in Instrs \ {u} :
              /\ store'.ins[w] = Redirected(store.ins[w], u, check)
              /\ DOMAIN store'.ins[w] = DOMAIN store.ins[w]
              /\ \A k \in DOMAIN store.ins[w] :
                   store'.ins[w][k] = IF store.ins[w][k] = u THEN check ELSE store.ins[w][k]
              /\ Slots(store.ins[w], u) = {} => store'.ins[w] = store.ins[w]
         /\ \A d \in Instrs : store'.users[d][u] = 0
         /\ \A w \in Instrs : store'.users[u][w] = 0
         /\ \A d, w \in Instrs \ {u} : store'.users[d][w] = store.users[d][w]
<1>1. check \in Args /\ store.ins \in [Instrs -> Seq(Args)]
  BY CheckAtWork DEF Replaces, SafetyInv, StoreInv, Stores, Args
<1>2. \A w \in Instrs \ {u} : store'.ins[w] = Redirected(store.ins[w], u, check)
  BY EliminationEffect DEF Replaces
<1>3. ASSUME NEW w \in Instrs \ {u}
      PROVE  /\ DOMAIN store'.ins[w] = DOMAIN store.ins[w]
             /\ \A k \in DOMAIN store.ins[w] :
                  store'.ins[w][k] = IF store.ins[w][k] = u THEN check ELSE store.ins[w][k]
             /\ Slots(store.ins[w], u) = {} => store'.ins[w] = store.ins[w]
  <2>1. store.ins[w] \in Seq(Args)
    BY <1>1
  <2> QED BY <1>1, <1>2, <2>1, RedirectedSequence
<1>4. /\ store' \in Stores
      /\ store'.op[u] = "NOP" /\ \A w \in Instrs \ {u} : store'.op[w] = store.op[w]
      /\ \A k \in DOMAIN store'.ins[u] : u \notin Dynamic /\ store'.ins[u][k] = NoArg
      /\ \A d \in Instrs : store'.users[d][u] = 0
      /\ \A w \in Instrs : store'.users[u][w] = 0
      /\ \A d, w \in Instrs \ {u} : store'.users[d][w] = store.users[d][w]
  BY EliminationEffect DEF Replaces
<1> QED BY <1>2, <1>3, <1>4

LEMMA ReplacesKeepers ==
  ASSUME SafetyInv, NEW u \in Instrs, Replaces(u)
  PROVE  KeeperInv' /\ CodeInv'
<1>1. /\ check \in Instrs \ Eliminated /\ check \notin Ahead /\ IsCheck(check)
      /\ u # check /\ u \notin Eliminated /\ Dominates(check, u)
      /\ store.ins[u] = store.ins[check] /\ store.op[u] = store.op[check]
      /\ \A e \in Eliminated : keeper[e] # u
  BY CheckAtWork, EliminationTarget DEF Replaces
<1>2. /\ Eliminated' = Eliminated \cup {u} /\ Ahead' = Ahead /\ prog' = prog
      /\ \A d, i : Dominates(d, i)' = Dominates(d, i)
  BY ReplacesResolve, SameProgram, SameAhead DEF Replaces
<1>3. \A i \in Instrs : Inputs(i)' = Redirected(Inputs(i), u, check)
  BY ReplacesResolve
<1>4. Eliminated \subseteq Instrs /\ \A e \in Eliminated : keeper[e] \in Instrs
  BY DEF Eliminated, SafetyInv, LocalsInv
<1>5. KeeperInv'
  <2> SUFFICES ASSUME NEW e \in Eliminated', NEW c \in Instrs, c = keeper'[e]
               PROVE  /\ c \notin Eliminated' /\ c \notin Ahead'
                      /\ prog'.op[c] \in Checks
                      /\ prog'.op[c] = prog'.op[e]
                      /\ Inputs(c)' = Inputs(e)'
                      /\ Dominates(c, e)'
    BY DEF KeeperInv
  <2>1. CASE e \in Eliminated
    <3>1. c = keeper[e] /\ e \in Instrs
      BY <1>4, <2>1, ReplacesResolve
    <3>2. /\ c \notin Eliminated /\ c \notin Ahead /\ c # u
          /\ prog.op[c] \in Checks /\ prog.op[c] = prog.op[e]
          /\ Inputs(c) = Inputs(e) /\ Dominates(c, e)
      BY <1>1, <2>1, <3>1 DEF SafetyInv, KeeperInv
    <3>3. Inputs(c)' = Inputs(e)'
      BY <1>3, <3>1, <3>2
    <3> QED BY <1>2, <3>2, <3>3
  <2>2. CASE e = u
    <3>1. c = check
      BY <2>2, ReplacesResolve
    <3>2. /\ store.op[c] = prog.op[c] /\ store.ins[c] = Inputs(c)
          /\ store.op[u] = prog.op[u] /\ store.ins[u] = Inputs(u)
      BY <1>1, <3>1, StandingInputs
    <3>3. Inputs(c)' = Inputs(u)'
      BY <1>1, <1>3, <3>1, <3>2
    <3>4. prog.op[c] \in Checks /\ prog.op[c] = prog.op[u]
      BY <1>1, <3>1, <3>2 DEF IsCheck
    <3> QED BY <1>1, <1>2, <2>2, <3>1, <3>3, <3>4
  <2> QED BY <1>2, <2>1, <2>2
<1>6. CodeInv'
  <2> SUFFICES ASSUME NEW w \in Instrs
               PROVE  IF w \in Eliminated'
                        THEN /\ store'.op[w] = "NOP"
                             /\ \A k \in DOMAIN store'.ins[w] :
                                  w \notin Dynamic /\ store'.ins[w][k] = NoArg
                        ELSE store'.op[w] = prog'.op[w] /\ store'.ins[w] = Inputs(w)'
    BY DEF CodeInv
  <2>1. CASE w = u
    <3>1. /\ store'.op[u] = "NOP"
          /\ \A k \in DOMAIN store'.ins[u] : u \notin Dynamic /\ store'.ins[u][k] = NoArg
      BY ReplacesEffect
    <3> QED BY <1>2, <2>1, <3>1
  <2>2. CASE w # u /\ w \in Eliminated
    <3>1. /\ store.op[w] = "NOP"
          /\ \A k \in DOMAIN store.ins[w] : w \notin Dynamic /\ store.ins[w][k] = NoArg
      BY <2>2 DEF SafetyInv, CodeInv
    <3>2. Slots(store.ins[w], u) = {}
      BY <2>2, StandingUser
    <3>3. store'.op[w] = store.op[w] /\ store'.ins[w] = store.ins[w]
      BY <2>2, <3>2, ReplacesEffect
    <3> QED BY <1>2, <2>2, <3>1, <3>3
  <2>3. CASE w # u /\ w \notin Eliminated
    <3>1. store.op[w] = prog.op[w] /\ store.ins[w] = Inputs(w)
      BY <2>3 DEF SafetyInv, CodeInv
    <3>2. store'.op[w] = store.op[w] /\ store'.ins[w] = Redirected(store.ins[w], u, check)
      BY <2>3, ReplacesEffect
    <3>3. store'.ins[w] = Inputs(w)'
      BY <1>3, <3>1, <3>2
    <3> QED BY <1>2, <2>3, <3>1, <3>2, <3>3
  <2> QED BY <2>1, <2>2, <2>3
<1> QED BY <1>5, <1>6

LEMMA ReplacesUsers ==
  ASSUME SafetyInv, NEW u \in Instrs, Replaces(u)
  PROVE  UsersInv'
<1>1. /\ check \in Instrs /\ u # check /\ u \notin Eliminated
  BY CheckAtWork, EliminationTarget DEF Replaces
<1>2. /\ Eliminated' = Eliminated \cup {u} /\ keeper'[u] = check
      /\ \A e \in Eliminated : keeper'[e] = keeper[e]
  BY ReplacesResolve
<1> SUFFICES ASSUME NEW d \in Instrs, NEW w \in Instrs
             PROVE  /\ store'.users[d][w] <= Uses(store', w, d)
                    /\ store'.users[d][w] = 0 =>
                         \/ Slots(store'.ins[w], d) = {}
                         \/ \E e \in Eliminated' : keeper'[e] = d
  BY DEF UsersInv
<1>3. store'.ins[w] \in Seq(Args) /\ store.ins[w] \in Seq(Args)
  BY ReplacesEffect DEF SafetyInv, StoreInv, Stores
<1>4. /\ Uses(store', w, d) \in Nat
      /\ Uses(store', w, d) = Cardinality(Slots(store'.ins[w], d))
      /\ IsFiniteSet(Slots(store'.ins[w], d))
  BY <1>3, SlotsFinite DEF Uses
<1>5. CASE w = u
  <2>1. store'.users[d][w] = 0
    BY <1>5, ReplacesEffect
  <2>2. \A k \in DOMAIN store'.ins[u] : store'.ins[u][k] = NoArg
    BY ReplacesEffect
  <2>3. Slots(store'.ins[w], d) = {}
    BY <1>5, <2>2, ArgsAssumption DEF Slots
  <2> QED BY <1>4, <2>1, <2>3
<1>6. CASE w # u
  <2>1. /\ DOMAIN store'.ins[w] = DOMAIN store.ins[w]
        /\ \A k \in DOMAIN store.ins[w] :
             store'.ins[w][k] = IF store.ins[w][k] = u THEN check ELSE store.ins[w][k]
    BY <1>6, ReplacesEffect
  <2>2. CASE d = u
    <3>1. store'.users[d][w] = 0
      BY <2>2, ReplacesEffect
    <3>2. Slots(store'.ins[w], d) = {}
      BY <1>1, <2>1, <2>2 DEF Slots
    <3> QED BY <1>4, <3>1, <3>2
  <2>3. CASE d # u
    <3>1. store'.users[d][w] = store.users[d][w]
      BY <1>6, <2>3, ReplacesEffect
    <3>2. /\ store.users[d][w] <= Uses(store, w, d)
          /\ store.users[d][w] = 0 => \/ Slots(store.ins[w], d) = {}
                                      \/ \E e \in Eliminated : keeper[e] = d
      BY DEF SafetyInv, UsersInv
    <3>3. Slots(store.ins[w], d) \subseteq Slots(store'.ins[w], d)
      BY <2>1, <2>3 DEF Slots
    <3>4. Uses(store, w, d) <= Uses(store', w, d)
      BY <1>4, <3>3, FS_Subset DEF Uses
    <3>5. store.users[d][w] \in Nat /\ Uses(store, w, d) \in Nat
      BY StandingUser DEF SafetyInv, StoreInv, Stores
    <3>6. store'.users[d][w] <= Uses(store', w, d)
      BY <1>4, <3>1, <3>2, <3>4, <3>5
    <3>7. CASE d = check
      BY <1>2, <3>6, <3>7
    <3>8. CASE d # check
      <4>1. Slots(store'.ins[w], d) = Slots(store.ins[w], d)
        BY <2>1, <2>3, <3>8 DEF Slots
      <4>2. (\E e \in Eliminated : keeper[e] = d) => \E e \in Eliminated' : keeper'[e] = d
        BY <1>2
      <4> QED BY <3>1, <3>2, <3>6, <4>1, <4>2
    <3> QED BY <3>7, <3>8
  <2> QED BY <2>2, <2>3
<1> QED BY <1>5, <1>6

\* Two uses in the two inputs of a check are both of them.
LEMMA BothSlots ==
  ASSUME NEW S, NEW s \in Seq(S), NEW a, Len(s) \in {1, 2}, Cardinality(Slots(s, a)) > 1
  PROVE  Len(s) = 2 /\ s[1] = a /\ s[2] = a
<1> DEFINE n == Cardinality(Slots(s, a))
<1>1. IsFiniteSet(Slots(s, a)) /\ n \in Nat /\ n <= Len(s)
  BY SlotsFinite
<1>2. Slots(s, a) \subseteq 1 .. Len(s)
  BY DEF Slots
<1> HIDE DEF n
<1>3. Len(s) = 2
  <2>1. n > 1
    BY DEF n
  <2> QED BY <1>1, <2>1
<1>4. ASSUME NEW k \in {1, 2}, k \notin Slots(s, a) PROVE FALSE
  <2>1. \E j \in {1, 2} : Slots(s, a) \subseteq {j}
    BY <1>2, <1>3, <1>4
  <2>2. PICK j \in {1, 2} : Slots(s, a) \subseteq {j}
    BY <2>1
  <2>3. Cardinality({j}) = 1 /\ IsFiniteSet({j})
    BY FS_Singleton
  <2>4. Cardinality(Slots(s, a)) <= 1
    BY <2>2, <2>3, FS_Subset
  <2> QED BY <1>1, <2>4 DEF n
<1> QED BY <1>3, <1>4 DEF Slots

LEMMA ReplacesCheck ==
  ASSUME SafetyInv, NEW u \in Instrs, Replaces(u)
  PROVE  CheckInv' /\ IdleInv' /\ LocalsInv'
<1> DEFINE input == store.ins[check][1]
<1>1. /\ check \in Instrs \ Eliminated /\ check \notin Ahead /\ IsCheck(check) /\ check # NoArg
      /\ u # check /\ u \notin Eliminated /\ u \in Ahead /\ IsCheck(u)
      /\ input \in Instrs /\ input # u
      /\ store.ins[u] = store.ins[check]
  BY CheckAtWork, EliminationTarget DEF Replaces
<1>2. /\ check' = check /\ prog' = prog /\ Ahead' = Ahead /\ todo' = todo
      /\ \A d, i : Dominates(d, i)' = Dominates(d, i)
      /\ keeper' = [keeper EXCEPT ![u] = check]
      /\ pending' = [pending EXCEPT ![u] = @ - 1]
      /\ pending[u] > 0
  BY SameAhead, SameProgram DEF Replaces, Considered
<1>3. /\ todo \in Seq(Instrs) /\ pending \in [Instrs -> Nat]
      /\ keeper \in [Instrs -> Instrs \cup {NoArg}]
  BY DEF SafetyInv, LocalsInv
<1>4. LocalsInv'
  <2>1. pending[u] - 1 \in Nat
    BY <1>2, <1>3
  <2>2. pending' \in [Instrs -> Nat]
    BY <1>2, <1>3, <2>1
  <2>3. keeper' \in [Instrs -> Instrs \cup {NoArg}]
    BY <1>1, <1>2, <1>3
  <2> QED BY <1>1, <1>2, <1>3, <2>2, <2>3 DEF LocalsInv
<1>5. IdleInv'
  BY <1>1, <1>2 DEF IdleInv
<1>6. /\ store'.ins[check] = store.ins[check] /\ store'.op[check] = store.op[check]
  <2>1. Slots(store.ins[check], u) = {}
    BY <1>1, VisitedInputs
  <2> QED BY <1>1, <2>1, ReplacesEffect
<1>7. Eliminated' = Eliminated \cup {u}
      /\ \A a \in Args : Resolve(a)' = IF Resolve(a) = u THEN check ELSE Resolve(a)
  BY ReplacesResolve
<1>8. /\ \A w \in Instrs \ Eliminated : pending[w] <= Uses(store, w, input)
      /\ \A w \in Eliminated : pending[w] > 0 =>
           /\ prog.op[w] = BoundsCheck
           /\ Resolve(prog.ins[w][1]) = Resolve(prog.ins[w][2])
      /\ \A w \in Instrs : Dominates(check, w) => w = check \/ w \in Ahead
  BY <1>1 DEF SafetyInv, CheckInv
<1>9. ASSUME NEW w \in Instrs \ Eliminated' PROVE pending'[w] <= Uses(store', w, input)
  <2>1. w # u /\ w \notin Eliminated /\ pending'[w] = pending[w]
    BY <1>2, <1>3, <1>7
  <2>2. store'.ins[w] \in Seq(Args) /\ store.ins[w] \in Seq(Args)
    BY ReplacesEffect DEF SafetyInv, StoreInv, Stores
  <2>3. Slots(store.ins[w], input) \subseteq Slots(store'.ins[w], input)
    <3> HIDE DEF input
    <3>1. /\ DOMAIN store'.ins[w] = DOMAIN store.ins[w]
          /\ \A k \in DOMAIN store.ins[w] :
               store'.ins[w][k] = IF store.ins[w][k] = u THEN check ELSE store.ins[w][k]
      BY <2>1, ReplacesEffect
    <3> QED BY <1>1, <3>1 DEF Slots
  <2> HIDE DEF input
  <2>4. IsFiniteSet(Slots(store'.ins[w], input))
    BY <2>2, SlotsFinite
  <2>5. /\ Uses(store, w, input) <= Uses(store', w, input)
        /\ Uses(store, w, input) \in Nat /\ Uses(store', w, input) \in Nat
    BY <2>2, <2>3, <2>4, FS_Subset, SlotsFinite DEF Uses
  <2>6. pending[w] \in Nat /\ pending[w] <= Uses(store, w, input)
    BY <1>3, <1>8, <2>1
  <2> QED BY <2>1, <2>5, <2>6
<1>10. \A w \in Instrs : prog.op[w] = BoundsCheck =>
         prog.ins[w][1] \in Args /\ prog.ins[w][2] \in Args
  <2>1. \A w \in Instrs : prog.ins[w] \in Seq(Args)
    BY DEF SafetyInv, ProgramInv, WellFormed, Args
  <2>2. \A w \in Instrs : prog.op[w] = BoundsCheck => Len(prog.ins[w]) = 2
    BY DEF SafetyInv, ProgramInv, WellFormed
  <2> QED BY <2>1, <2>2
<1>11. ASSUME NEW w \in Eliminated', pending'[w] > 0
       PROVE  /\ prog.op[w] = BoundsCheck
              /\ Resolve(prog.ins[w][1]) = Resolve(prog.ins[w][2])
  <2>1. CASE w \in Eliminated
    <3>1. pending'[w] = pending[w]
      BY <1>1, <1>2, <1>3, <2>1 DEF Eliminated
    <3> QED BY <1>8, <1>11, <2>1, <3>1
  <2>2. CASE w = u
    <3>1. pending'[u] = pending[u] - 1 /\ pending[u] \in Nat
      BY <1>2, <1>3
    <3>2. pending[u] <= Uses(store, u, input) /\ Uses(store, u, input) \in Nat
      BY <1>1, <1>8, StandingUser
    <3>3. Uses(store, u, input) > 1
      BY <1>11, <2>2, <3>1, <3>2
    <3>4. Len(store.ins[u]) \in {1, 2} /\ store.ins[u] \in Seq(Args)
      BY <1>1, CheckStands DEF IsCheck, Checks, SafetyInv, StoreInv, Stores
    <3>5. Len(store.ins[u]) = 2 /\ store.ins[u][1] = input /\ store.ins[u][2] = input
      BY <3>3, <3>4, BothSlots DEF Uses
    <3>6. store.op[u] = BoundsCheck /\ store.op[u] = prog.op[u]
      BY <1>1, <3>5, CheckStands DEF IsCheck, Checks
    <3>7. DOMAIN store.ins[u] = 1 .. 2
      BY <1>1, <3>5, StandingInputs
    <3>8. store.ins[u][1] = Resolve(prog.ins[u][1]) /\ store.ins[u][2] = Resolve(prog.ins[u][2])
      BY <1>1, <3>7, StandingInputs
    <3> QED BY <2>2, <3>5, <3>6, <3>8
  <2> QED BY <1>7, <2>1, <2>2
<1>12. ASSUME NEW w \in Eliminated', pending'[w] > 0
       PROVE  /\ prog'.op[w] = BoundsCheck
              /\ Resolve(prog.ins[w][1])' = Resolve(prog.ins[w][2])'
  <2>1. w \in Instrs
    BY DEF Eliminated
  <2>2. PICK a \in Args, b \in Args : a = prog.ins[w][1] /\ b = prog.ins[w][2]
    BY <1>10, <1>11, <1>12, <2>1
  <2>3. Resolve(a)' = Resolve(b)'
    BY <1>7, <1>11, <1>12, <2>2
  <2> QED BY <1>2, <1>11, <1>12, <2>2, <2>3
<1>13. CheckInv'
  <2>1. check' \notin Ahead' /\ check' \notin Eliminated' /\ IsCheck(check)'
    BY <1>1, <1>2, <1>6, <1>7 DEF IsCheck
  <2>2. \A w \in Instrs : Dominates(check, w)' => w = check' \/ w \in Ahead'
    BY <1>2, <1>8 DEF Dominates
  <2>3. store'.ins[check'][1] = input
    BY <1>2, <1>6
  <2> QED BY <1>1, <1>9, <1>12, <2>1, <2>2, <2>3 DEF CheckInv
<1> QED BY <1>4, <1>5, <1>13

LEMMA ReplacesVisited ==
  ASSUME SafetyInv, NEW u \in Instrs, Replaces(u)
  PROVE  VisitedInv'
<1>1. /\ check \in Instrs \ Eliminated /\ check # NoArg /\ check \notin Ahead
      /\ u # check /\ u \in Ahead /\ u \notin Eliminated
  BY CheckAtWork, EliminationTarget DEF Replaces
<1>2. /\ check' = check /\ Ahead' = Ahead
      /\ \A d, i : IsDominatedBy(d, i)' = IsDominatedBy(d, i)
      /\ pending' = [pending EXCEPT ![u] = @ - 1] /\ pending \in [Instrs -> Nat]
  BY SameAhead, SameProgram DEF Replaces, Considered, SafetyInv, LocalsInv
<1>3. /\ Eliminated' = Eliminated \cup {u}
      /\ \A e \in Eliminated : keeper'[e] = keeper[e]
  BY ReplacesResolve
<1> SUFFICES ASSUME NEW c \in Instrs, NEW w \in Instrs,
                    IsCheck(c)', c \notin Ahead', Repeats(w, c)', ~Taken(store.ins[c][1])'
             PROVE  c = check' /\ pending'[w] > 0
  BY DEF VisitedInv
<1>4. store'.op[c] \in Checks /\ store'.op[w] = store'.op[c] /\ w # c
      /\ store'.ins[w] = store'.ins[c] /\ IsDominatedBy(w, c)
  BY <1>2 DEF IsCheck, Repeats, IsSameOpcode
<1>5. c # u /\ w # u
  BY <1>4, CheckIsNoNop, ReplacesEffect
<1>6. store.op[c] = store'.op[c] /\ store.op[w] = store'.op[w]
  BY <1>5, ReplacesEffect
<1>7. IsCheck(c) /\ c \notin Eliminated
  BY <1>4, <1>6, CheckStands DEF IsCheck, Checks
<1>8. store'.ins[c] = store.ins[c]
  <2>1. Slots(store.ins[c], u) = {}
    BY <1>1, <1>2, <1>7, VisitedInputs
  <2> QED BY <1>5, <2>1, ReplacesEffect
<1>9. \A k \in DOMAIN store.ins[c] : store.ins[c][k] # check
  <2> SUFFICES ASSUME NEW k \in DOMAIN store.ins[c], store.ins[c][k] = check PROVE FALSE
    OBVIOUS
  <2>1. Dominates(check, c) /\ check # c
    BY <1>1, <1>7, StandingDefs
  <2> QED BY <1>1, <1>2, <2>1 DEF SafetyInv, CheckInv
<1>10. store.ins[w] = store.ins[c]
  <2>1. /\ DOMAIN store'.ins[w] = DOMAIN store.ins[w]
        /\ \A k \in DOMAIN store.ins[w] :
             store'.ins[w][k] = IF store.ins[w][k] = u THEN check ELSE store.ins[w][k]
        /\ Slots(store.ins[w], u) = {} => store'.ins[w] = store.ins[w]
    BY <1>5, ReplacesEffect
  <2>2. \A k \in DOMAIN store.ins[w] : store.ins[w][k] # u
    BY <1>4, <1>8, <1>9, <2>1
  <2> QED BY <1>4, <1>8, <2>1, <2>2 DEF Slots
<1>11. Repeats(w, c)
  BY <1>4, <1>6, <1>10 DEF Repeats, IsSameOpcode
<1>12. ~Taken(store.ins[c][1])
  BY <1>3, <1>8 DEF Taken
<1>13. c = check /\ pending[w] > 0
  BY <1>2, <1>7, <1>11, <1>12 DEF SafetyInv, VisitedInv
<1> QED BY <1>2, <1>5, <1>13

LEMMA ReplacesSafe ==
  ASSUME SafetyInv, NEW u \in Instrs, Replaces(u)
  PROVE  SafetyInv'
<1>1. ProgramInv' /\ OrderInv'
  BY SameProgram, SameAhead DEF Replaces, SafetyInv
<1>2. StoreInv'
  BY ReplacesEffect DEF StoreInv
<1> QED BY <1>1, <1>2, ReplacesKeepers, ReplacesUsers, ReplacesCheck, ReplacesVisited
        DEF SafetyInv

\* The other steps leave the code, its user lists and the keepers alone.
LEMMA SameCode ==
  ASSUME SafetyInv, UNCHANGED <<prog, doms, store, keeper>>
  PROVE  /\ ProgramInv' /\ StoreInv' /\ CodeInv' /\ UsersInv' /\ Eliminated' = Eliminated
         /\ \A a : Resolve(a)' = Resolve(a)
         /\ \A i : Inputs(i)' = Inputs(i)
<1>1. Eliminated' = Eliminated
  BY DEF Eliminated
<1>2. \A a : Resolve(a)' = Resolve(a)
  BY <1>1 DEF Resolve
<1>3. \A i : Inputs(i)' = Inputs(i)
  BY <1>1 DEF Inputs, Resolve
<1> QED BY <1>1, <1>2, <1>3, SameProgram
        DEF SafetyInv, StoreInv, CodeInv, UsersInv

\* Visiting the next instruction.
LEMMA NextAhead ==
  ASSUME SafetyInv, todo # << >>, todo' = Tail(todo), UNCHANGED <<prog, doms, keeper, store>>
  PROVE  /\ Head(todo) \in Ahead /\ Head(todo) \in Instrs
         /\ todo' \in Seq(Instrs)
         /\ Ahead' = Ahead \ {Head(todo)}
         /\ \A u \in Instrs : Dominates(Head(todo), u) => u = Head(todo) \/ u \in Ahead'
         /\ OrderInv' /\ KeeperInv'
<1> DEFINE h == Head(todo)
           N == Len(todo)
<1>1. /\ todo \in Seq(Instrs) /\ N \in Nat /\ WellFormed(prog)
      /\ \A m, n \in 1 .. N : Dominates(todo[m], todo[n]) => m <= n
      /\ \A c \in Ahead, u \in Instrs : Dominates(c, u) => u \in Ahead
  BY DEF SafetyInv, LocalsInv, OrderInv, ProgramInv
<1>2. /\ N >= 1 /\ h = todo[1] /\ todo' \in Seq(Instrs) /\ Len(todo') = N - 1
      /\ \A n \in 1 .. N - 1 : todo'[n] = todo[n + 1]
  BY <1>1, EmptySeq, HeadTailProperties
<1>3. \A n \in 1 .. N : todo[n] \in Instrs
  BY <1>1
<1>4. h \in Ahead /\ h \in Instrs
  BY <1>1, <1>2, <1>3 DEF Ahead
<1>5. \A n \in 2 .. N : todo[n] # h
  <2> SUFFICES ASSUME NEW n \in 2 .. N, todo[n] = h PROVE FALSE
    OBVIOUS
  <2>1. n \in 1 .. N /\ 1 \in 1 .. N /\ todo[n] \in Instrs
    BY <1>1, <1>2, <1>3
  <2>2. Dominates(todo[n], todo[1])
    BY <1>1, <1>2, <1>4, DominatesSelf DEF Dominates
  <2> QED BY <1>1, <2>1, <2>2
<1>6. Ahead' = Ahead \ {h}
  <2>1. Ahead' = {todo'[n] : n \in 1 .. N - 1}
    BY <1>2 DEF Ahead
  <2>2. Ahead' = {todo[n] : n \in 2 .. N}
    <3>1. \A n \in 2 .. N : n - 1 \in 1 .. N - 1 /\ todo'[n - 1] = todo[n]
      BY <1>1, <1>2
    <3>2. \A n \in 1 .. N - 1 : n + 1 \in 2 .. N /\ todo'[n] = todo[n + 1]
      BY <1>1, <1>2
    <3> QED BY <2>1, <3>1, <3>2
  <2>3. \A n \in 1 .. N : n = 1 \/ n \in 2 .. N
    BY <1>1
  <2>4. \A n \in 2 .. N : n \in 1 .. N
    BY <1>1
  <2>5. Ahead = {todo[n] : n \in 1 .. N}
    BY DEF Ahead
  <2> QED BY <1>2, <1>5, <2>2, <2>3, <2>4, <2>5
<1>7. \A u \in Instrs : Dominates(h, u) => u = h \/ u \in Ahead'
  BY <1>1, <1>4, <1>6
<1>8. \A c \in Ahead' : ~Dominates(c, h)
  <2> SUFFICES ASSUME NEW n \in 1 .. N, n # 1, Dominates(todo[n], h) PROVE FALSE
    BY <1>2, <1>6 DEF Ahead
  <2> QED BY <1>1, <1>2
<1>9. \A d, i : Dominates(d, i)' = Dominates(d, i)
  BY SameProgram
<1>10. OrderInv'
  <2>1. ASSUME NEW m \in 1 .. Len(todo'), NEW n \in 1 .. Len(todo'),
               Dominates(todo'[m], todo'[n])
        PROVE  m <= n
    <3>1. m \in Nat /\ n \in Nat /\ m + 1 \in 1 .. N /\ n + 1 \in 1 .. N
          /\ todo'[m] = todo[m + 1] /\ todo'[n] = todo[n + 1]
      BY <1>1, <1>2
    <3>2. m + 1 <= n + 1
      BY <1>1, <2>1, <3>1
    <3> QED BY <3>1, <3>2
  <2>2. \A c \in Ahead', u \in Instrs : Dominates(c, u) => u \in Ahead'
    BY <1>1, <1>6, <1>8
  <2> QED BY <1>9, <2>1, <2>2 DEF OrderInv, Dominates
<1>11. KeeperInv'
  BY <1>6, <1>9, SameCode DEF SafetyInv, KeeperInv
<1> QED BY <1>2, <1>4, <1>6, <1>7, <1>10, <1>11

LEMMA InitSafe == Init => SafetyInv
<1> SUFFICES ASSUME Init PROVE SafetyInv
  OBVIOUS
<1>1. PICK s \in Shapes : \E q \in Orders(s.succs) :
        /\ doms \in DomLists(s.succs)
        /\ todo \in Listings(s.lists, q)
        /\ \E c \in Codes(s) : prog = Program(s, c)
  BY DEF Init
<1>2. PICK q \in Orders(s.succs) :
        /\ doms \in DomLists(s.succs)
        /\ todo \in Listings(s.lists, q)
        /\ \E c \in Codes(s) : prog = Program(s, c)
  BY <1>1
<1>3. PICK c \in Codes(s) : prog = Program(s, c)
  BY <1>2
<1>4. WellFormed(prog) /\ prog.succs = s.succs /\ prog.lists = s.lists
  BY <1>3, ProgramsAssumption DEF Program
<1>5. ProgramInv /\ q \in Orders(prog.succs) /\ todo \in Listings(prog.lists, q)
  BY <1>2, <1>4 DEF ProgramInv
<1>6. /\ store = [op |-> prog.op, ins |-> prog.ins,
                  users |-> [d \in Instrs |-> [u \in Instrs |->
                               Cardinality(Slots(prog.ins[u], d))]]]
      /\ check = NoArg /\ pending = NoUsers /\ keeper = [i \in Instrs |-> NoArg]
  BY DEF Init
<1>7. Eliminated = {}
  BY <1>6 DEF Eliminated
<1>8. /\ prog.op \in [Instrs -> STRING] /\ prog.ins \in [Instrs -> Seq(Args)]
  BY <1>4 DEF WellFormed, Args
<1>9. \A d, u \in Instrs : /\ store.users[d][u] = Uses(store, u, d)
                           /\ Uses(store, u, d) \in Nat
                           /\ Uses(store, u, d) = 0 <=> Slots(store.ins[u], d) = {}
  <2> SUFFICES ASSUME NEW d \in Instrs, NEW u \in Instrs
               PROVE  /\ store.users[d][u] = Uses(store, u, d)
                      /\ Uses(store, u, d) \in Nat
                      /\ Uses(store, u, d) = 0 <=> Slots(store.ins[u], d) = {}
    OBVIOUS
  <2>1. store.ins[u] \in Seq(Args) /\ store.ins[u] = prog.ins[u]
    BY <1>6, <1>8
  <2>2. store.users[d][u] = Uses(store, u, d)
    BY <1>6, <2>1 DEF Uses
  <2> QED BY <2>1, <2>2, SlotsFinite DEF Uses
<1>10. StoreInv
  <2>1. \A d \in Instrs : store.users[d] \in [Instrs -> Nat]
    <3> SUFFICES ASSUME NEW d \in Instrs PROVE store.users[d] \in [Instrs -> Nat]
      OBVIOUS
    <3>1. store.users[d] = [u \in Instrs |-> Cardinality(Slots(prog.ins[u], d))]
      BY <1>6
    <3>2. \A u \in Instrs : store.users[d][u] \in Nat
      BY <1>9
    <3> QED BY <3>1, <3>2
  <2>2. store.users \in [Instrs -> [Instrs -> Nat]]
    BY <1>6, <2>1
  <2> QED BY <1>6, <1>8, <2>2 DEF StoreInv, Stores
<1>11. /\ todo \in Seq(Instrs)
       /\ \A i \in Instrs : \E n \in 1 .. Len(todo) : todo[n] = i
       /\ \A m, n \in 1 .. Len(todo) : DominatesIn(prog, todo[m], todo[n]) => m <= n
  BY <1>4, <1>5, ListingOrder
<1>12. Ahead = Instrs
  BY <1>11 DEF Ahead
<1>13. OrderInv
  BY <1>11, <1>12 DEF OrderInv, Dominates
<1>14. LocalsInv
  BY <1>6, <1>11 DEF LocalsInv, NoUsers
<1>15. KeeperInv
  BY <1>7 DEF KeeperInv
<1>16. CodeInv
  <2> SUFFICES ASSUME NEW u \in Instrs PROVE store.ins[u] = Inputs(u)
    BY <1>6, <1>7 DEF CodeInv
  <2>1. Inputs(u) = [k \in DOMAIN prog.ins[u] |-> prog.ins[u][k]]
    BY <1>7 DEF Inputs, Resolve
  <2>2. prog.ins[u] \in Seq(Args)
    BY <1>8
  <2>3. Inputs(u) = prog.ins[u]
    BY <2>1, <2>2
  <2> QED BY <1>6, <2>3
<1>17. UsersInv
  BY <1>9 DEF UsersInv
<1>18. CheckInv /\ IdleInv
  BY <1>6 DEF CheckInv, IdleInv
<1>19. VisitedInv
  BY <1>12 DEF VisitedInv
<1> QED BY <1>5, <1>10, <1>13, <1>14, <1>15, <1>16, <1>17, <1>18, <1>19 DEF SafetyInv

LEMMA SkipSafe == ASSUME SafetyInv, check = NoArg, todo # << >>, Skip PROVE SafetyInv'
<1>1. /\ UNCHANGED <<prog, doms, store, keeper, check, pending>>
      /\ todo' = Tail(todo) /\ ~IsCheck(Head(todo))
  BY DEF Skip
<1>2. /\ OrderInv' /\ KeeperInv' /\ todo' \in Seq(Instrs) /\ Ahead' = Ahead \ {Head(todo)}
  BY <1>1, NextAhead
<1>3. ProgramInv' /\ StoreInv' /\ CodeInv' /\ UsersInv'
  BY <1>1, SameCode
<1>4. LocalsInv' /\ CheckInv' /\ IdleInv'
  BY <1>1, <1>2 DEF SafetyInv, LocalsInv, CheckInv, IdleInv
<1>5. VisitedInv'
  <2> SUFFICES ASSUME NEW c \in Instrs, NEW w \in Instrs,
                      IsCheck(c)', c \notin Ahead', Repeats(w, c)', ~Taken(store.ins[c][1])'
               PROVE  FALSE
    BY DEF VisitedInv
  <2>1. IsCheck(c) /\ Repeats(w, c) /\ ~Taken(store.ins[c][1])
    BY <1>1, SameProgram, SameCode DEF IsCheck, Repeats, IsSameOpcode, Taken
  <2>2. c \notin Ahead
    BY <1>1, <1>2, <2>1
  <2> QED BY <2>1, <2>2, ArgsAssumption DEF SafetyInv, VisitedInv
<1> QED BY <1>2, <1>3, <1>4, <1>5 DEF SafetyInv

\* StartCheck without a failure.
LEMMA StartCheckSafe ==
  ASSUME SafetyInv, check = NoArg, todo # << >>, IsCheck(Head(todo)),
         store.ins[Head(todo)][1] \in Instrs,
         check' = Head(todo), pending' = store.users[store.ins[Head(todo)][1]],
         todo' = Tail(todo), UNCHANGED <<prog, doms, store, keeper, state>>
  PROVE  SafetyInv'
<1> DEFINE h == Head(todo)
           input == store.ins[h][1]
<1>1. /\ OrderInv' /\ KeeperInv' /\ todo' \in Seq(Instrs) /\ Ahead' = Ahead \ {h}
      /\ h \in Ahead /\ h \in Instrs
      /\ \A u \in Instrs : Dominates(h, u) => u = h \/ u \in Ahead'
  BY NextAhead
<1>2. ProgramInv' /\ StoreInv' /\ CodeInv' /\ UsersInv' /\ Eliminated' = Eliminated
  BY SameCode
<1>3. \A d, i : /\ Dominates(d, i)' = Dominates(d, i)
                /\ IsDominatedBy(d, i)' = IsDominatedBy(d, i)
  BY SameProgram
<1>4. h \notin Eliminated
  BY <1>1, CheckStands
<1>5. /\ pending' \in [Instrs -> Nat]
      /\ \A u \in Instrs : /\ pending'[u] <= Uses(store, u, input)
                           /\ pending'[u] = 0 => Slots(store.ins[u], input) = {} \/ Taken(input)
  BY DEF SafetyInv, StoreInv, Stores, UsersInv, Taken
<1>6. LocalsInv'
  BY <1>1, <1>5 DEF SafetyInv, LocalsInv
<1>7. h # NoArg
  BY <1>1, ArgsAssumption
<1>8. IdleInv'
  BY <1>7 DEF IdleInv
<1>9. \A u \in Eliminated : pending'[u] = 0
  <2> SUFFICES ASSUME NEW u \in Eliminated PROVE pending'[u] = 0
    OBVIOUS
  <2>1. u \in Instrs
    BY DEF Eliminated
  <2>2. Uses(store, u, input) = 0
    BY <2>1, StandingUser
  <2>3. pending'[u] <= 0 /\ pending'[u] \in Nat
    BY <1>5, <2>1, <2>2
  <2> QED BY <2>3
<1> HIDE DEF h, input
<1>10. CheckInv'
  <2>1. check' = h /\ store' = store /\ store.ins[h][1] = input
    BY DEF h, input
  <2>2. IsCheck(check)'
    BY <2>1 DEF IsCheck, h
  <2>3. \A u \in Instrs : Dominates(check, u)' => u = check' \/ u \in Ahead'
    BY <1>1, <2>1 DEF Dominates
  <2>4. input \in Instrs
    BY DEF input, h
  <2>5. \A u \in Instrs \ Eliminated' : pending'[u] <= Uses(store', u, input)
    BY <1>5, <2>1
  <2>6. \A u \in Eliminated' : ~(pending'[u] > 0)
    BY <1>2, <1>9
  <2> QED BY <1>1, <1>2, <1>4, <2>1, <2>2, <2>3, <2>4, <2>5, <2>6 DEF CheckInv
<1>11. VisitedInv'
  <2> SUFFICES ASSUME NEW c \in Instrs, NEW w \in Instrs,
                      IsCheck(c)', c \notin Ahead', Repeats(w, c)', ~Taken(store.ins[c][1])'
               PROVE  c = check' /\ pending'[w] > 0
    BY DEF VisitedInv
  <2>1. IsCheck(c) /\ Repeats(w, c) /\ ~Taken(store.ins[c][1])
    BY <1>2, <1>3 DEF IsCheck, Repeats, IsSameOpcode, Taken
  <2>2. c \in Ahead
    BY <2>1, ArgsAssumption DEF SafetyInv, VisitedInv
  <2>3. c = h
    BY <1>1, <2>2
  <2>4. store.ins[w] = store.ins[h] /\ ~Taken(input)
    BY <2>1, <2>3 DEF Repeats, input
  <2>5. 1 \in DOMAIN store.ins[h]
    <3>1. Len(store.ins[h]) \in {1, 2}
      BY <1>1, <2>1, <2>3, CheckStands DEF IsCheck, Checks
    <3>2. DOMAIN store.ins[h] = 1 .. Len(store.ins[h])
      BY <1>1, <1>4, StandingInputs
    <3>3. 1 \in 1 .. 1 /\ 1 \in 1 .. 2
      OBVIOUS
    <3> QED BY <3>1, <3>2, <3>3, Zenon
  <2>6. 1 \in Slots(store.ins[w], input)
    BY <2>4, <2>5 DEF Slots, input
  <2>7. pending'[w] # 0 /\ pending'[w] \in Nat
    BY <1>5, <2>4, <2>6
  <2>8. check' = h
    BY DEF h
  <2>9. pending'[w] > 0
    BY <2>7
  <2> QED BY <2>3, <2>8, <2>9
<1> QED BY <1>1, <1>2, <1>6, <1>8, <1>10, <1>11 DEF SafetyInv

LEMMA KeepSafe ==
  ASSUME SafetyInv, check # NoArg, NEW u \in Instrs, Keep(u)
  PROVE  SafetyInv'
<1>1. /\ UNCHANGED <<prog, doms, store, todo, check, keeper>>
      /\ pending' = [pending EXCEPT ![u] = @ - 1] /\ pending[u] > 0
      /\ ~(IsSameOpcode(u, check) /\ SameArguments(u, check) /\ IsDominatedBy(u, check))
  BY DEF Keep, Considered
<1>2. /\ ProgramInv' /\ StoreInv' /\ CodeInv' /\ UsersInv' /\ Eliminated' = Eliminated
      /\ OrderInv' /\ Ahead' = Ahead
  BY <1>1, SameCode, SameAhead
<1>3. \A d, i : /\ Dominates(d, i)' = Dominates(d, i)
                /\ IsDominatedBy(d, i)' = IsDominatedBy(d, i)
  BY <1>1, SameProgram
<1>4. KeeperInv'
  BY <1>1, <1>2, <1>3, SameCode DEF SafetyInv, KeeperInv
<1>5. /\ pending \in [Instrs -> Nat] /\ pending' \in [Instrs -> Nat]
      /\ pending'[u] <= pending[u]
      /\ \A w \in Instrs \ {u} : pending'[w] = pending[w]
  <2>1. pending \in [Instrs -> Nat]
    BY DEF SafetyInv, LocalsInv
  <2>2. pending[u] - 1 \in Nat /\ pending[u] - 1 <= pending[u]
    BY <1>1, <2>1
  <2> QED BY <1>1, <2>1, <2>2
<1>6. LocalsInv' /\ IdleInv'
  BY <1>1, <1>5 DEF SafetyInv, LocalsInv, IdleInv
<1>7. \A w \in Instrs : pending'[w] <= pending[w] /\ pending'[w] \in Nat /\ pending[w] \in Nat
  <2> SUFFICES ASSUME NEW w \in Instrs
               PROVE  pending'[w] <= pending[w] /\ pending'[w] \in Nat /\ pending[w] \in Nat
    OBVIOUS
  <2>1. pending'[w] \in Nat /\ pending[w] \in Nat
    BY <1>5
  <2>2. CASE w = u
    BY <1>5, <2>1, <2>2
  <2>3. CASE w # u
    BY <1>5, <2>1, <2>3
  <2> QED BY <2>1, <2>2, <2>3
<1>8. CheckInv'
  <2> DEFINE input == store.ins[check][1]
  <2>1. /\ check \notin Ahead /\ check \notin Eliminated
        /\ IsCheck(check) /\ input \in Instrs
        /\ \A w \in Instrs : Dominates(check, w) => w = check \/ w \in Ahead
        /\ \A w \in Instrs \ Eliminated : pending[w] <= Uses(store, w, input)
        /\ \A w \in Eliminated : pending[w] > 0 =>
             /\ prog.op[w] = BoundsCheck
             /\ Resolve(prog.ins[w][1]) = Resolve(prog.ins[w][2])
    BY DEF SafetyInv, CheckInv
  <2>2. ASSUME NEW w \in Instrs \ Eliminated PROVE pending'[w] <= Uses(store, w, input)
    <3>1. Uses(store, w, input) \in Nat /\ pending[w] <= Uses(store, w, input)
      BY <2>1, StandingUser
    <3> QED BY <1>7, <3>1
  <2>3. \A w \in Eliminated : pending'[w] > 0 => pending[w] > 0
    BY <1>7 DEF Eliminated
  <2>4. \A w \in Eliminated : pending'[w] > 0 =>
          /\ prog.op[w] = BoundsCheck
          /\ Resolve(prog.ins[w][1]) = Resolve(prog.ins[w][2])
    BY <2>1, <2>3
  <2>5. IsCheck(check)' = IsCheck(check)
    BY <1>1 DEF IsCheck
  <2>6. \A a : Resolve(a)' = Resolve(a)
    BY <1>1, SameCode
  <2>7. \A w \in Eliminated : (Resolve(prog.ins[w][1]) = Resolve(prog.ins[w][2]))'
                              = (Resolve(prog.ins[w][1]) = Resolve(prog.ins[w][2]))
    BY <1>1, <1>2 DEF Resolve
  <2>8. \A w \in Instrs : Dominates(check, w)' = Dominates(check, w)
    BY <1>1, <1>3 DEF Dominates
  <2>9. store' = store /\ prog' = prog /\ check' = check
    BY <1>1
  <2> QED BY <1>2, <2>1, <2>2, <2>4, <2>5, <2>7, <2>8, <2>9 DEF CheckInv
<1>9. VisitedInv'
  <2> SUFFICES ASSUME NEW c \in Instrs, NEW w \in Instrs,
                      IsCheck(c)', c \notin Ahead', Repeats(w, c)', ~Taken(store.ins[c][1])'
               PROVE  c = check' /\ pending'[w] > 0
    BY DEF VisitedInv
  <2>1. IsCheck(c) /\ Repeats(w, c) /\ ~Taken(store.ins[c][1])
    BY <1>1, <1>2, <1>3 DEF IsCheck, Repeats, IsSameOpcode, Taken
  <2>2. c = check /\ pending[w] > 0
    BY <1>2, <2>1 DEF SafetyInv, VisitedInv
  <2>3. w # u
    BY <1>1, <2>1, <2>2 DEF Repeats, SameArguments
  <2> QED BY <1>1, <1>5, <2>2, <2>3
<1> QED BY <1>2, <1>4, <1>6, <1>8, <1>9 DEF SafetyInv

LEMMA FinishCheckSafe ==
  ASSUME SafetyInv, check # NoArg, FinishCheck
  PROVE  SafetyInv'
<1>1. /\ UNCHANGED <<prog, doms, store, todo, keeper, pending>> /\ check' = NoArg
      /\ pending = NoUsers
  BY DEF FinishCheck
<1>2. /\ ProgramInv' /\ StoreInv' /\ CodeInv' /\ UsersInv' /\ Eliminated' = Eliminated
      /\ OrderInv' /\ Ahead' = Ahead
  BY <1>1, SameCode, SameAhead
<1>3. KeeperInv'
  BY <1>1, <1>2, SameCode, SameProgram DEF SafetyInv, KeeperInv
<1>4. LocalsInv' /\ IdleInv' /\ CheckInv'
  BY <1>1 DEF SafetyInv, LocalsInv, IdleInv, CheckInv
<1>5. VisitedInv'
  <2> SUFFICES ASSUME NEW c \in Instrs, NEW w \in Instrs,
                      IsCheck(c)', c \notin Ahead', Repeats(w, c)', ~Taken(store.ins[c][1])'
               PROVE  FALSE
    BY DEF VisitedInv
  <2>1. IsCheck(c) /\ Repeats(w, c) /\ ~Taken(store.ins[c][1])
    BY <1>1, <1>2, SameProgram DEF IsCheck, Repeats, IsSameOpcode, Taken
  <2>2. pending[w] > 0
    BY <1>2, <2>1 DEF SafetyInv, VisitedInv
  <2> QED BY <1>1, <2>2 DEF NoUsers
<1> QED BY <1>2, <1>3, <1>4, <1>5 DEF SafetyInv

\* A step that only ends the run, or none.
LEMMA StopSafe ==
  ASSUME SafetyInv, UNCHANGED <<prog, doms, store, todo, check, pending, keeper>>
  PROVE  SafetyInv'
<1>1. /\ ProgramInv' /\ StoreInv' /\ CodeInv' /\ UsersInv' /\ Eliminated' = Eliminated
      /\ OrderInv' /\ Ahead' = Ahead
  BY SameCode, SameAhead
<1>2. KeeperInv'
  BY <1>1, SameCode, SameProgram DEF SafetyInv, KeeperInv
<1>3. LocalsInv' /\ IdleInv'
  BY DEF SafetyInv, LocalsInv, IdleInv
<1>4. CheckInv'
  BY <1>1 DEF SafetyInv, CheckInv, IsCheck, Dominates, Resolve
<1>5. VisitedInv'
  BY <1>1 DEF SafetyInv, VisitedInv, IsCheck, Repeats, IsSameOpcode, IsDominatedBy, Taken,
              BlockOf, IndexOf
<1> QED BY <1>1, <1>2, <1>3, <1>4, <1>5 DEF SafetyInv

LEMMA NextSafe == SafetyInv /\ [Next]_vars => SafetyInv'
<1> SUFFICES ASSUME SafetyInv, [Next]_vars PROVE SafetyInv'
  OBVIOUS
<1>1. CASE UNCHANGED vars
  BY <1>1, StopSafe DEF vars
<1>2. CASE Fail
  BY <1>2, StopSafe DEF Fail
<1>3. CASE check = NoArg /\ Finish
  BY <1>3, StopSafe DEF Finish
<1>4. CASE check = NoArg /\ todo # << >> /\ Skip
  BY <1>4, SkipSafe
<1>5. CASE check = NoArg /\ todo # << >> /\ StartCheck
  BY <1>2, <1>5, StartCheckSafe DEF StartCheck
<1>6. CASE check # NoArg /\ FinishCheck
  BY <1>6, FinishCheckSafe
<1>7. ASSUME check # NoArg, NEW u \in Instrs, Keep(u) PROVE SafetyInv'
  BY <1>7, KeepSafe
<1>8. ASSUME check # NoArg, NEW u \in Instrs, Eliminate(u) PROVE SafetyInv'
  <2>1. Replaces(u) \/ Fail
    BY <1>8 DEF Eliminate, Replaces
  <2> QED BY <1>2, <2>1, ReplacesSafe
<1>9. ASSUME NEW u \in Instrs, ReadFailure(u) PROVE SafetyInv'
  BY <1>2, <1>9 DEF ReadFailure
<1> QED BY <1>1, <1>3, <1>4, <1>5, <1>6, <1>7, <1>8, <1>9 DEF Next

LEMMA SafetyHolds == Spec => []SafetyInv
<1> QED BY InitSafe, NextSafe, PTL DEF Spec

-----------------------------------------------------------------------------
(***************************************************************************)
(* Safety: the properties the run checks, for all programs.                *)
(***************************************************************************)
\* SSA form survives the pass, whatever checks it eliminates.
THEOREM DefsKeepDominating == Spec => []DefsDominateUses
<1>1. SafetyInv => DefsDominateUses
  <2> SUFFICES ASSUME SafetyInv, NEW u \in Instrs, store.op[u] # "NOP",
                      NEW k \in DOMAIN store.ins[u], store.ins[u][k] \in Instrs
               PROVE  /\ store.op[store.ins[u][k]] # "NOP"
                      /\ Dominates(store.ins[u][k], u)
    BY DEF DefsDominateUses
  <2>1. u \notin Eliminated
    BY DEF SafetyInv, CodeInv
  <2> QED BY <2>1, StandingDefs
<1> QED BY <1>1, SafetyHolds, PTL

\* What the pass keeps computes what it did, with the keepers in place of the
\* eliminated checks.
THEOREM KeptCodeIsResolved == Spec => []UsesResolved
<1>1. SafetyInv => UsesResolved
  BY DEF SafetyInv, CodeInv, UsesResolved
<1> QED BY <1>1, SafetyHolds, PTL

\* An eliminated check is repeated by a check of its kind with its arguments that
\* dominates it and that no later step eliminates.
THEOREM EliminationIsSound == Spec => []EliminatedIsRedundant
<1>1. SafetyInv => EliminatedIsRedundant
  <2> SUFFICES ASSUME SafetyInv, NEW e \in Eliminated
               PROVE  /\ keeper[e] \notin Eliminated /\ prog.op[keeper[e]] = prog.op[e]
                      /\ Inputs(keeper[e]) = Inputs(e) /\ Dominates(keeper[e], e)
    BY DEF EliminatedIsRedundant
  <2>1. keeper[e] \in Instrs
    BY DEF SafetyInv, LocalsInv, Eliminated
  <2> QED BY <2>1 DEF SafetyInv, KeeperInv
<1> QED BY <1>1, SafetyHolds, PTL

\* The run only ends when all instructions were visited and no check is at work.
EndInv == state = "done" => todo = << >> /\ check = NoArg

LEMMA EndHolds == Spec => []EndInv
<1>1. Init => EndInv
  BY DEF Init, EndInv
<1>2. EndInv /\ [Next]_vars => EndInv'
  <2> SUFFICES ASSUME EndInv, [Next]_vars, state' = "done" PROVE todo' = << >> /\ check' = NoArg
    BY DEF EndInv
  <2>1. CASE UNCHANGED vars
    BY <2>1 DEF vars, EndInv
  <2>2. CASE Next
    <3>1. state = "running"
      BY <2>2 DEF Next
    <3>2. ~Fail
      BY DEF Fail
    <3>3. ~Skip /\ ~StartCheck /\ ~FinishCheck
      BY <3>1, <3>2 DEF Skip, StartCheck, FinishCheck
    <3>4. \A u \in Instrs : ~Keep(u) /\ ~Eliminate(u) /\ ~ReadFailure(u)
      BY <3>1, <3>2 DEF Keep, Eliminate, ReadFailure
    <3>5. check = NoArg /\ Finish
      BY <2>2, <3>3, <3>4 DEF Next
    <3> QED BY <3>5 DEF Finish
  <2> QED BY <2>1, <2>2
<1> QED BY <1>1, <1>2, PTL DEF Spec

\* When the pass is done, an equal check below another is left only if their
\* input has taken over users it was not told of.
THEOREM LeftoversHaveKeeperInput == Spec => []LeftoversExplained
<1>1. SafetyInv /\ EndInv => LeftoversExplained
  <2> SUFFICES ASSUME SafetyInv, EndInv, state = "done", NEW c \in Instrs, NEW u \in Instrs,
                      IsCheck(c), Repeats(u, c)
               PROVE  \E e \in Eliminated : Resolve(e) = store.ins[c][1]
    BY DEF LeftoversExplained, Repeats
  <2>1. c \notin Ahead /\ c # check
    BY ArgsAssumption DEF EndInv, Ahead
  <2>2. Taken(store.ins[c][1])
    BY <2>1 DEF SafetyInv, VisitedInv
  <2> QED BY <2>2 DEF Taken, Resolve
<1> QED BY <1>1, SafetyHolds, EndHolds, PTL

-----------------------------------------------------------------------------
(***************************************************************************)
(* Where the pass fails.                                                   *)
(***************************************************************************)
\* An unreadable input of an instruction that stands is the label of a call, or
\* a hole of a NOP.
LEMMA UnreadableInput ==
  ASSUME SafetyInv, NEW u \in Instrs \ Eliminated, NEW k \in DOMAIN store.ins[u],
         store.ins[u][k] \in Unreadable
  PROVE  \/ store.ins[u][k] = Label /\ k = 1 /\ ~IsCheck(u)
         \/ store.ins[u][k] = NoArg /\ store.op[u] = "NOP"
<1> DEFINE a == prog.ins[u][k]
<1>1. k \in DOMAIN prog.ins[u] /\ store.ins[u][k] = Resolve(a) /\ store.op[u] = prog.op[u]
  BY StandingInputs
<1>2. prog.ins[u] \in Seq(Args) /\ ArgumentFits(prog, u, k)
  BY <1>1 DEF SafetyInv, ProgramInv, WellFormed, Args
<1>3. a \in Args
  BY <1>1, <1>2
<1>4. store.ins[u][k] \notin Instrs
  BY ArgsAssumption DEF Unreadable
<1>5. a = store.ins[u][k]
  BY <1>1, <1>3, <1>4, ResolvedArgument
<1> HIDE DEF a
<1>6. a = Label => k = 1 /\ prog.op[u] \notin Checks
  BY <1>2 DEF ArgumentFits, a
<1>7. a = NoArg => prog.op[u] = "NOP"
  BY <1>2 DEF ArgumentFits, a
<1> QED BY <1>1, <1>5, <1>6, <1>7 DEF Unreadable, IsCheck

\* The arguments of a check are definitions, or missing.
LEMMA CheckArgument ==
  ASSUME SafetyInv, NEW c \in Instrs, IsCheck(c), NEW k \in DOMAIN store.ins[c],
         store.ins[c][k] \notin Instrs
  PROVE  store.ins[c][k] = NoDef
<1>1. c \notin Eliminated /\ store.op[c] # "NOP"
  BY CheckStands, CheckIsNoNop DEF IsCheck
<1>2. store.ins[c] \in Seq(Args)
  BY DEF SafetyInv, StoreInv, Stores
<1>3. store.ins[c][k] \in Args
  BY <1>2
<1>4. store.ins[c][k] \in Unreadable \/ store.ins[c][k] = NoDef
  BY <1>3 DEF Args, Unreadable
<1> QED BY <1>1, <1>4, UnreadableInput

\* A user with an unreadable input is a call.
LEMMA UnreadableUser ==
  ASSUME SafetyInv, NEW w \in Instrs, NEW d \in Instrs, Slots(store.ins[w], d) # {},
         NEW k \in DOMAIN store.ins[w], store.ins[w][k] \in Unreadable
  PROVE  k = 1 /\ store.ins[w][1] = Label
<1>1. w \notin Eliminated
  BY StandingUser
<1>2. PICK j \in DOMAIN store.ins[w] : store.ins[w][j] = d
  BY DEF Slots
<1>3. store.op[w] # "NOP"
  BY <1>1, <1>2, StandingDefs
<1> QED BY <1>1, <1>3, UnreadableInput

\* The reasons FaultsExplained admits.
NullCheck == \E c \in Instrs : IsCheck(c) /\ NoDef \in {store.ins[c][k] : k \in DOMAIN store.ins[c]}
ShortUser == \E c, u \in Instrs :
               /\ IsCheck(c) /\ store.op[c] = BoundsCheck
               /\ Slots(store.ins[u], store.ins[c][1]) # {}
               /\ Len(store.ins[u]) = 1 \/ store.ins[u][1] = Label
DoubleUse == \E c \in Instrs : /\ store.op[c] \in {BoundsCheck, "NOP"} /\ prog.op[c] = BoundsCheck
                               /\ Resolve(prog.ins[c][1]) = Resolve(prog.ins[c][2])
CalledCheck == \E c, u \in Instrs : /\ IsCheck(c) /\ Slots(store.ins[u], c) # {}
                                    /\ store.ins[u][1] = Label
Explained == NullCheck \/ ShortUser \/ DoubleUse \/ CalledCheck

\* The check that is started has no definition.
LEMMA StartFailure ==
  ASSUME SafetyInv, todo # << >>, IsCheck(Head(todo)), store.ins[Head(todo)][1] \notin Instrs
  PROVE  Explained
<1> DEFINE c == Head(todo)
<1>1. c \in Instrs
  BY HeadTailProperties DEF SafetyInv, LocalsInv
<1>2. c \notin Eliminated /\ Len(store.ins[c]) \in {1, 2}
  BY <1>1, CheckStands DEF IsCheck, Checks
<1>3. DOMAIN store.ins[c] = 1 .. Len(store.ins[c])
  BY <1>1, <1>2, StandingInputs
<1> HIDE DEF c
<1>4. 1 \in DOMAIN store.ins[c]
  BY <1>2, <1>3
<1>5. IsCheck(c) /\ store.ins[c][1] \notin Instrs
  BY DEF c
<1>6. store.ins[c][1] = NoDef
  BY <1>1, <1>4, <1>5, CheckArgument
<1>7. NoDef \in {store.ins[c][k] : k \in DOMAIN store.ins[c]}
  BY <1>4, <1>6
<1> QED BY <1>1, <1>5, <1>7 DEF Explained, NullCheck

\* A user of the length cannot be read.
LEMMA ReadFailureExplained ==
  ASSUME SafetyInv, check # NoArg, NEW u \in Instrs, pending[u] > 0, ReadFails(u, check)
  PROVE  Explained
<1> DEFINE input == store.ins[check][1]
           s == store.ins[u]
<1>1. check \in Instrs /\ IsCheck(check) /\ input \in Instrs /\ store.op[check] = BoundsCheck
  BY CheckAtWork DEF ReadFails
<1>2. CASE u \in Eliminated
  <2>1. /\ prog.op[u] = BoundsCheck /\ store.op[u] = "NOP"
        /\ Resolve(prog.ins[u][1]) = Resolve(prog.ins[u][2])
    BY <1>2 DEF SafetyInv, CheckInv, CodeInv
  <2> QED BY <2>1 DEF Explained, DoubleUse
<1>3. CASE u \notin Eliminated
  <2>1. pending[u] \in Nat /\ pending[u] <= Uses(store, u, input)
    BY <1>3 DEF SafetyInv, CheckInv, LocalsInv
  <2>2. Slots(s, input) # {}
    BY <1>1, <2>1, StandingUser
  <2>3. DOMAIN s = 1 .. Len(s) /\ Len(s) \in Nat
    BY <1>3, StandingInputs
  <2>4. s # << >> /\ Len(s) >= 1
    <3>1. PICK k \in DOMAIN s : TRUE
      BY <2>2 DEF Slots
    <3> HIDE DEF s
    <3> QED BY <2>3, <3>1
  <2>5. s[1] \in Unreadable \/ (s[1] = input /\ (Len(s) > 1 => s[2] \in Unreadable))
    BY <2>4 DEF ReadFails
  <2>6. 1 \in DOMAIN s /\ (Len(s) > 1 => 2 \in DOMAIN s)
    <3> HIDE DEF s
    <3> QED BY <2>3, <2>4
  <2>7. s[1] = Label \/ Len(s) = 1
    <3>1. CASE s[1] \in Unreadable
      BY <1>1, <2>2, <2>6, <3>1, UnreadableUser
    <3>2. CASE Len(s) > 1 /\ s[2] \in Unreadable
      <4>1. 2 = 1
        BY <1>1, <2>2, <2>6, <3>2, UnreadableUser
      <4> QED BY <4>1
    <3>3. CASE ~(Len(s) > 1)
      <4> HIDE DEF s
      <4> QED BY <2>3, <2>4, <3>3
    <3> QED BY <2>5, <3>1, <3>2, <3>3
  <2> QED BY <1>1, <2>2, <2>7 DEF Explained, ShortUser
<1> QED BY <1>2, <1>3

\* The users of an eliminated check cannot be redirected, or its inputs cannot be
\* told.
LEMMA EliminateFailure ==
  ASSUME SafetyInv, check # NoArg, NEW u \in Instrs, pending[u] > 0,
         IsSameOpcode(u, check), SameArguments(u, check), IsDominatedBy(u, check),
         ReplaceInputFails(store, u) \/ MakeNopFails(Redirect(u), u)
  PROVE  Explained
<1> DEFINE m == Redirect(u)
<1>1. IsCheck(u) /\ u # check
  BY EliminationTarget
<1>2. \A w \in UsersOf(store, u) : w \in Instrs /\ Slots(store.ins[w], u) # {}
  <2> SUFFICES ASSUME NEW w \in UsersOf(store, u) PROVE Slots(store.ins[w], u) # {}
    BY DEF UsersOf
  <2>1. /\ store.users[u][w] > 0 /\ store.users[u][w] <= Uses(store, w, u)
        /\ store.users[u][w] \in Nat /\ w \in Instrs
    BY DEF UsersOf, SafetyInv, UsersInv, StoreInv, Stores
  <2> QED BY <2>1, StandingUser
<1>3. ASSUME NEW w \in UsersOf(store, u), NEW k \in DOMAIN store.ins[w],
             store.ins[w][k] \in Unreadable
      PROVE  Explained
  <2>1. store.ins[w][1] = Label
    BY <1>2, <1>3, UnreadableUser
  <2> QED BY <1>1, <1>2, <2>1 DEF Explained, CalledCheck
<1>4. CASE ReplaceInputFails(store, u)
  BY <1>3, <1>4 DEF ReplaceInputFails, Slots
<1>5. /\ m.ins[u] = store.ins[u] /\ m.users[u] = store.users[u]
      /\ \A w \in Instrs : /\ m.ins[w] = Redirected(store.ins[w], u, check)
                           /\ Slots(m.ins[w], u) = {}
  BY RedirectEffect
<1> HIDE DEF m
<1>6. ASSUME NEW w \in UsersOf(m, u), DropFails(m, w, u, m.users[u][w]) PROVE Explained
  <2>1. w \in UsersOf(store, u) /\ w \in Instrs
    BY <1>5 DEF UsersOf
  <2>2. Slots(m.ins[w], u) = {}
    BY <1>5, <2>1
  <2>3. PICK k \in DOMAIN m.ins[w] : m.ins[w][k] \in Unreadable
    BY <1>6, <2>2 DEF DropFails
  <2>4. k \in DOMAIN store.ins[w]
        /\ m.ins[w][k] = IF store.ins[w][k] = u THEN check ELSE store.ins[w][k]
    <3>1. m.ins[w] = Redirected(store.ins[w], u, check)
      BY <1>5, <2>1
    <3> QED BY <2>3, <3>1 DEF Redirected
  <2>5. check \notin Unreadable
    BY CheckAtWork, ArgsAssumption DEF Unreadable
  <2> QED BY <1>3, <2>1, <2>3, <2>4, <2>5
<1>7. ASSUME NEW k \in DOMAIN m.ins[u], m.ins[u][k] \notin Instrs PROVE Explained
  <2>1. k \in DOMAIN store.ins[u] /\ store.ins[u][k] = NoDef
    BY <1>1, <1>5, <1>7, CheckArgument
  <2> QED BY <1>1, <2>1 DEF Explained, NullCheck
<1>8. CASE MakeNopFails(m, u)
  BY <1>6, <1>7, <1>8 DEF MakeNopFails
<1> QED BY <1>4, <1>8 DEF m

LEMMA FailureExplained ==
  ASSUME SafetyInv, FaultsExplained, [Next]_vars
  PROVE  FaultsExplained'
<1>1. FaultsExplained <=> (state = "fault" => Explained)
  BY DEF FaultsExplained, Explained, NullCheck, ShortUser, DoubleUse, CalledCheck
<1>2. FaultsExplained' <=> (state' = "fault" => Explained')
  BY DEF FaultsExplained, Explained, NullCheck, ShortUser, DoubleUse, CalledCheck
<1>3. UNCHANGED <<prog, store, keeper>> => Explained' = Explained
  BY DEF Explained, NullCheck, ShortUser, DoubleUse, CalledCheck, IsCheck, Resolve, Eliminated
<1>4. CASE UNCHANGED vars
  BY <1>1, <1>2, <1>3, <1>4 DEF vars
<1>5. CASE Next /\ state' = "fault"
  <2>1. Explained
    <3>1. state = "running"
      BY <1>5 DEF Next
    <3>2. CASE check = NoArg /\ todo # << >> /\ StartCheck
      <4>1. IsCheck(Head(todo)) /\ store.ins[Head(todo)][1] \notin Instrs
        BY <1>5, <3>1, <3>2 DEF StartCheck
      <4> QED BY <3>2, <4>1, StartFailure
    <3>3. ASSUME check # NoArg, NEW u \in Instrs, Eliminate(u) PROVE Explained
      <4>1. /\ pending[u] > 0
            /\ IsSameOpcode(u, check) /\ SameArguments(u, check) /\ IsDominatedBy(u, check)
            /\ ReplaceInputFails(store, u) \/ MakeNopFails(Redirect(u), u)
        BY <1>5, <3>1, <3>3 DEF Eliminate
      <4> QED BY <3>3, <4>1, EliminateFailure
    <3>4. ASSUME check # NoArg, NEW u \in Instrs, ReadFailure(u) PROVE Explained
      BY <3>4, ReadFailureExplained DEF ReadFailure
    <3>5. ~Finish /\ ~Skip /\ ~FinishCheck /\ \A u \in Instrs : ~Keep(u)
      BY <1>5, <3>1 DEF Finish, Skip, FinishCheck, Keep
    <3> QED BY <1>5, <3>2, <3>3, <3>4, <3>5 DEF Next
  <2>2. UNCHANGED <<prog, store, keeper>>
    <3>1. state = "running"
      BY <1>5 DEF Next
    <3>2. Fail => UNCHANGED <<prog, store, keeper>>
      BY DEF Fail
    <3>3. ~Finish /\ ~Skip /\ ~FinishCheck /\ \A u \in Instrs : ~Keep(u)
      BY <1>5, <3>1 DEF Finish, Skip, FinishCheck, Keep
    <3>4. StartCheck => Fail
      BY <1>5, <3>1 DEF StartCheck
    <3>5. \A u \in Instrs : Eliminate(u) \/ ReadFailure(u) => Fail
      BY <1>5, <3>1 DEF Eliminate, ReadFailure
    <3> QED BY <1>5, <3>2, <3>3, <3>4, <3>5 DEF Next
  <2> QED BY <1>2, <1>3, <2>1, <2>2
<1>6. CASE state' # "fault"
  BY <1>2, <1>6
<1> QED BY <1>4, <1>5, <1>6

\* The pass fails for no other reason than those of FaultsExplained.
THEOREM FailuresHaveReasons == Spec => []FaultsExplained
<1>1. Init => FaultsExplained
  BY DEF Init, FaultsExplained
<1> QED BY <1>1, SafetyHolds, FailureExplained, PTL DEF Spec
=============================================================================
