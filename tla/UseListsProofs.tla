---------------------------- MODULE UseListsProofs ----------------------------
(***************************************************************************)
(* Theorems about UseLists, for any set of instructions with any number of *)
(* inputs: the two sides of the def-use edges, and what can make their     *)
(* functions fail.                                                         *)
(***************************************************************************)
EXTENDS UseLists, FiniteSetTheorems, SequenceTheorems, TLAPS

(***************************************************************************)
(* Counting positions.  Rank(S, k) is the place of k among the numbers S.  *)
(***************************************************************************)
Rank(S, k) == Cardinality({j \in S : j <= k})

LEMMA RankFacts ==
  ASSUME NEW S \in SUBSET Nat, IsFiniteSet(S)
  PROVE  /\ \A k \in S : Rank(S, k) \in 1 .. Cardinality(S)
         /\ \A j, k \in S : j < k => Rank(S, j) < Rank(S, k)
         /\ \A n \in 1 .. Cardinality(S) : \E k \in S : Rank(S, k) = n
<1>0. Cardinality(S) \in Nat
  BY FS_CardinalityType
<1>1. ASSUME NEW k \in S PROVE Rank(S, k) \in 1 .. Cardinality(S)
  <2> DEFINE T == {j \in S : j <= k}
  <2>1. T \in SUBSET S /\ k \in T
    OBVIOUS
  <2>2. IsFiniteSet(T) /\ Cardinality(T) <= Cardinality(S)
    BY <2>1, FS_Subset
  <2>3. Cardinality(T) \in Nat /\ Cardinality(T) # 0
    BY <2>1, <2>2, FS_CardinalityType, FS_EmptySet
  <2> QED BY <1>0, <2>2, <2>3 DEF Rank
<1>2. ASSUME NEW j \in S, NEW k \in S, j < k PROVE Rank(S, j) < Rank(S, k)
  <2> DEFINE T == {i \in S : i <= j}
             U == {i \in S : i <= k}
  <2>1. U \in SUBSET S /\ T \in SUBSET U /\ k \in U /\ k \notin T
    <3>1. j \in Nat /\ k \in Nat /\ \A i \in S : i \in Nat
      OBVIOUS
    <3>2. \A i \in S : i <= j => i <= k
      BY <3>1, <1>2
    <3>3. k <= k /\ ~(k <= j)
      BY <3>1, <1>2
    <3> QED BY <3>2, <3>3, Zenon
  <2>2. IsFiniteSet(U)
    BY <2>1, FS_Subset
  <2>3. /\ IsFiniteSet(T) /\ Cardinality(T) <= Cardinality(U)
        /\ Cardinality(T) # Cardinality(U)
    BY <2>1, <2>2, FS_Subset
  <2>4. Cardinality(T) \in Nat /\ Cardinality(U) \in Nat
    BY <2>2, <2>3, FS_CardinalityType
  <2> QED BY <2>3, <2>4 DEF Rank
<1>3. \A n \in 1 .. Cardinality(S) : \E k \in S : Rank(S, k) = n
  <2> DEFINE T == 1 .. Cardinality(S)
             f == [k \in S |-> Rank(S, k)]
  <2>1. f \in Injection(S, T)
    <3>1. f \in [S -> T]
      BY <1>1
    <3>2. ASSUME NEW j \in S, NEW k \in S, f[j] = f[k] PROVE j = k
      <4>1. Rank(S, j) = Rank(S, k) /\ Rank(S, j) \in Nat
        BY <1>1, <3>2
      <4> QED BY <4>1, <1>2
    <3> HIDE DEF f, T
    <3> QED BY <3>1, <3>2 DEF Injection, IsInjective
  <2>2. IsFiniteSet(T) /\ Cardinality(T) = Cardinality(S)
    BY <1>0, FS_Interval
  <2>3. f \in Surjection(S, T)
    <3> HIDE DEF f, T
    <3> QED BY <2>1, <2>2, FS_Injection
  <2> HIDE DEF T
  <2>4. \A n \in T : \E k \in S : f[k] = n
    BY <2>3 DEF Surjection
  <2> QED BY <2>4 DEF T
<1> QED BY <1>1, <1>2, <1>3

\* All but the first c of a finite set of numbers.
LEMMA RankAbove ==
  ASSUME NEW S \in SUBSET Nat, IsFiniteSet(S), NEW c \in Nat
  PROVE  Cardinality({k \in S : Rank(S, k) > c}) = Less(Cardinality(S), c)
<1> DEFINE n == Cardinality(S)
           T == {k \in S : Rank(S, k) > c}
           V == c + 1 .. n
           f == [k \in T |-> Rank(S, k)]
<1>1. n \in Nat /\ \A k \in S : Rank(S, k) \in 1 .. n
  BY RankFacts, FS_CardinalityType
<1>2. IsFiniteSet(T)
  BY FS_Subset
<1>3. f \in Bijection(T, V)
  <2>1. f \in [T -> V]
    <3>1. ASSUME NEW k \in T PROVE Rank(S, k) \in V
      <4>1. Rank(S, k) \in 1 .. n /\ Rank(S, k) > c
        BY <1>1
      <4> HIDE DEF n
      <4> QED BY <4>1, <1>1
    <3> HIDE DEF T, V
    <3> QED BY <3>1
  <2>2. ASSUME NEW j \in T, NEW k \in T, f[j] = f[k] PROVE j = k
    <3>1. j \in S /\ k \in S /\ Rank(S, j) = Rank(S, k) /\ Rank(S, j) \in Nat
      BY <1>1, <2>2
    <3> QED BY <3>1, RankFacts
  <2>3. ASSUME NEW i \in V PROVE \E k \in T : f[k] = i
    <3>1. i \in 1 .. n /\ i > c
      BY <1>1
    <3>2. PICK k \in S : Rank(S, k) = i
      BY <3>1, RankFacts
    <3> QED BY <3>1, <3>2
  <2> HIDE DEF f, T, V
  <2> QED BY <2>1, <2>2, <2>3 DEF Bijection, Injection, Surjection, IsInjective
<1>4. Cardinality(T) = Cardinality(V)
  <2> HIDE DEF f, T, V
  <2> QED BY <1>2, <1>3, FS_Bijection DEF ExistsBijection
<1>5. Cardinality(V) = IF c + 1 > n THEN 0 ELSE n - (c + 1) + 1
  <2>1. c + 1 \in Int /\ n \in Int
    BY <1>1
  <2> HIDE DEF n
  <2> QED BY <2>1, FS_Interval
<1> HIDE DEF n, T, V
<1>6. Cardinality(T) = Less(n, c)
  BY <1>1, <1>4, <1>5 DEF Less
<1> QED BY <1>6 DEF n, T

-----------------------------------------------------------------------------
(***************************************************************************)
(* The operations on the inputs of one instruction: which arguments they   *)
(* leave how often.                                                        *)
(***************************************************************************)
Args == Instrs \cup {NoDef, Label, NoArg}

LEMMA SlotsFinite ==
  ASSUME NEW s \in Seq(Args), NEW a
  PROVE  /\ Slots(s, a) \in SUBSET Nat /\ IsFiniteSet(Slots(s, a))
         /\ Cardinality(Slots(s, a)) \in Nat
         /\ Cardinality(Slots(s, a)) = 0 <=> \A k \in DOMAIN s : s[k] # a
<1>1. Slots(s, a) \in SUBSET (1 .. Len(s)) /\ Len(s) \in Nat
  BY DEF Slots
<1>2. IsFiniteSet(Slots(s, a))
  <2>1. IsFiniteSet(1 .. Len(s))
    BY <1>1, FS_Interval
  <2> QED BY <1>1, <2>1, FS_Subset
<1>3. Cardinality(Slots(s, a)) \in Nat /\ (Cardinality(Slots(s, a)) = 0 <=> Slots(s, a) = {})
  BY <1>2, FS_CardinalityType, FS_EmptySet
<1> QED BY <1>1, <1>2, <1>3 DEF Slots

\* Taking out the holes keeps every other argument as often as it was there.
LEMMA PackedFacts ==
  ASSUME NEW s \in Seq(Args)
  PROVE  /\ Packed(s) \in Seq(Args)
         /\ \A n \in DOMAIN Packed(s) : Packed(s)[n] # NoArg /\ \E k \in DOMAIN s : Packed(s)[n] = s[k]
         /\ \A a : a # NoArg => Cardinality(Slots(Packed(s), a)) = Cardinality(Slots(s, a))
<1> DEFINE kept == {k \in DOMAIN s : s[k] # NoArg}
           N == Cardinality(kept)
           nth(n) == CHOOSE k \in kept : Cardinality({j \in kept : j <= k}) = n
           p == [n \in 1 .. N |-> s[nth(n)]]
<1>1. kept \in SUBSET Nat /\ IsFiniteSet(kept)
  <2>1. kept \in SUBSET (1 .. Len(s)) /\ Len(s) \in Nat
    OBVIOUS
  <2>2. IsFiniteSet(1 .. Len(s))
    BY <2>1, FS_Interval
  <2>3. IsFiniteSet(kept)
    BY <2>1, <2>2, FS_Subset
  <2> QED BY <2>1, <2>3
<1>2. N \in Nat
  BY <1>1, FS_CardinalityType
<1>3. ASSUME NEW n \in 1 .. N PROVE nth(n) \in kept /\ Rank(kept, nth(n)) = n
  <2> HIDE DEF kept
  <2>1. \E k \in kept : Rank(kept, k) = n
    BY <1>1, RankFacts
  <2> QED BY <2>1 DEF Rank
<1>4. p = Packed(s) /\ DOMAIN p = 1 .. N
  BY DEF Packed
<1>5. \A n \in 1 .. N : p[n] = s[nth(n)]
  OBVIOUS
<1> HIDE DEF nth, p, N
<1>6. \A n \in 1 .. N : p[n] # NoArg /\ \E k \in DOMAIN s : p[n] = s[k]
  BY <1>3, <1>5
<1>7. p \in Seq(Args)
  <2>1. \A n \in 1 .. N : p[n] \in Args
    BY <1>6
  <2>2. p = [n \in 1 .. N |-> p[n]]
    BY DEF p
  <2> QED BY <2>1, <2>2, <1>2
<1>8. ASSUME NEW a, a # NoArg
      PROVE  Cardinality(Slots(p, a)) = Cardinality(Slots(s, a))
  <2> DEFINE T == Slots(s, a)
             V == Slots(p, a)
             f == [n \in V |-> nth(n)]
  <2>1. /\ \A k \in T : k \in kept /\ s[k] = a
        /\ \A k \in kept : s[k] = a => k \in T
        /\ \A n \in V : n \in 1 .. N /\ p[n] = a
        /\ \A n \in 1 .. N : p[n] = a => n \in V
    BY <1>4, <1>8 DEF Slots
  <2>2. IsFiniteSet(V)
    BY <1>7, SlotsFinite
  <2> HIDE DEF kept, T, V
  <2>3. f \in Bijection(V, T)
    <3>1. f \in [V -> T]
      BY <2>1, <1>3, <1>5
    <3>2. ASSUME NEW m \in V, NEW n \in V, f[m] = f[n] PROVE m = n
      BY <3>2, <2>1, <1>3
    <3>3. ASSUME NEW k \in T PROVE \E n \in V : f[n] = k
      <4>1. Rank(kept, k) \in 1 .. N /\ k \in kept
        BY <2>1, <1>1, RankFacts DEF N
      <4>2. nth(Rank(kept, k)) = k
        <5>1. \A j \in kept : Rank(kept, j) = Rank(kept, k) => ~(j < k) /\ ~(k < j)
          BY <4>1, <1>1, RankFacts
        <5>2. nth(Rank(kept, k)) \in kept /\ nth(Rank(kept, k)) \in Nat /\ k \in Nat
          BY <4>1, <1>1, <1>3
        <5> QED BY <5>1, <5>2, <4>1, <1>3
      <4>3. Rank(kept, k) \in V
        BY <4>1, <4>2, <2>1, <1>5
      <4> QED BY <4>2, <4>3
    <3> HIDE DEF f
    <3> QED BY <3>1, <3>2, <3>3 DEF Bijection, Injection, Surjection, IsInjective
  <2>4. Cardinality(T) = Cardinality(V)
    <3> HIDE DEF f
    <3> QED BY <2>2, <2>3, FS_Bijection DEF ExistsBijection
  <2> QED BY <2>4 DEF T, V
<1> QED BY <1>4, <1>6, <1>7, <1>8

\* TryRemoveInput(d) called c times takes out c uses of d, or all there are, and
\* no use of anything else.
LEMMA DroppedFacts ==
  ASSUME NEW m, NEW u, m.ins[u] \in Seq(Args), NEW d \in Instrs, NEW c \in Nat
  PROVE  /\ Dropped(m, u, d, c) \in Seq(Args)
         /\ \A k \in DOMAIN Dropped(m, u, d, c) :
              \/ Dropped(m, u, d, c)[k] = NoArg
              \/ \E j \in DOMAIN m.ins[u] : Dropped(m, u, d, c)[k] = m.ins[u][j]
         /\ Cardinality(Slots(Dropped(m, u, d, c), d)) = Less(Cardinality(Slots(m.ins[u], d)), c)
         /\ \A a \in Instrs \ {d} :
              Cardinality(Slots(Dropped(m, u, d, c), a)) = Cardinality(Slots(m.ins[u], a))
<1> DEFINE s == m.ins[u]
           S == Slots(s, d)
           holes == [k \in DOMAIN s |-> IF s[k] = d /\ Cardinality(Slots(SubSeq(s, 1, k), d)) <= c
                                          THEN NoArg ELSE s[k]]
<1>1. /\ s \in Seq(Args) /\ Len(s) \in Nat /\ DOMAIN s = 1 .. Len(s) /\ NoArg # d
      /\ \A k \in DOMAIN s : s[k] \in Args
  BY ArgsAssumption
<1>2. S \in SUBSET Nat /\ IsFiniteSet(S)
  BY <1>1, SlotsFinite
<1>3. ASSUME NEW k \in DOMAIN s PROVE Cardinality(Slots(SubSeq(s, 1, k), d)) = Rank(S, k)
  <2>1. /\ DOMAIN SubSeq(s, 1, k) = 1 .. k
        /\ \A j \in 1 .. k : SubSeq(s, 1, k)[j] = s[j]
    BY <1>1
  <2>2. Slots(SubSeq(s, 1, k), d) = {j \in S : j <= k}
    BY <1>1, <2>1 DEF Slots
  <2> QED BY <2>2 DEF Rank
<1>4. holes \in Seq(Args) /\ DOMAIN holes = DOMAIN s
  <2>1. \A k \in 1 .. Len(s) : holes[k] \in Args
    BY <1>1 DEF Args
  <2>2. holes = [k \in 1 .. Len(s) |-> holes[k]]
    BY <1>1
  <2>3. DOMAIN holes = DOMAIN s
    OBVIOUS
  <2> HIDE DEF holes, s
  <2>4. holes \in Seq(Args)
    BY <2>1, <2>2, <1>1
  <2> QED BY <2>3, <2>4
<1>5. \A k \in DOMAIN s :
        /\ holes[k] = d <=> s[k] = d /\ Rank(S, k) > c
        /\ \A a \in Instrs \ {d} : holes[k] = a <=> s[k] = a
        /\ holes[k] = NoArg \/ holes[k] = s[k]
  <2> SUFFICES ASSUME NEW k \in DOMAIN s
               PROVE  /\ holes[k] = d <=> s[k] = d /\ Rank(S, k) > c
                      /\ \A a \in Instrs \ {d} : holes[k] = a <=> s[k] = a
                      /\ holes[k] = NoArg \/ holes[k] = s[k]
    OBVIOUS
  <2>1. holes[k] = IF s[k] = d /\ Rank(S, k) <= c THEN NoArg ELSE s[k]
    BY <1>3
  <2>2. s[k] = d => Rank(S, k) \in Nat
    BY <1>2, RankFacts DEF Slots
  <2>3. \A a \in Instrs : a # NoArg
    BY ArgsAssumption
  <2> HIDE DEF holes, S, s
  <2> QED BY <2>1, <2>2, <2>3, <1>1
<1>6. Slots(holes, d) = {k \in S : Rank(S, k) > c}
  BY <1>4, <1>5 DEF Slots
<1>7. \A a \in Instrs \ {d} : Slots(holes, a) = Slots(s, a)
  BY <1>4, <1>5 DEF Slots
<1> HIDE DEF holes, S, s
<1>8. Cardinality(Slots(holes, d)) = Less(Cardinality(S), c)
  BY <1>2, <1>6, RankAbove
<1>9. CASE u \in Dynamic
  <2>1. Dropped(m, u, d, c) = Packed(holes)
    BY <1>9 DEF Dropped, holes, s
  <2>2. /\ Packed(holes) \in Seq(Args)
        /\ \A n \in DOMAIN Packed(holes) : \E k \in DOMAIN holes : Packed(holes)[n] = holes[k]
        /\ \A a \in Instrs : Cardinality(Slots(Packed(holes), a)) = Cardinality(Slots(holes, a))
    BY <1>4, PackedFacts, ArgsAssumption
  <2>3. \A k \in DOMAIN Packed(holes) :
          Packed(holes)[k] = NoArg \/ \E j \in DOMAIN s : Packed(holes)[k] = s[j]
    BY <2>2, <1>4, <1>5
  <2>4. \A a \in Instrs \ {d} : Cardinality(Slots(Packed(holes), a)) = Cardinality(Slots(s, a))
    BY <2>2, <1>7
  <2> QED BY <2>1, <2>2, <2>3, <2>4, <1>8 DEF S, s
<1>10. CASE u \notin Dynamic
  <2>1. Dropped(m, u, d, c) = holes
    BY <1>10 DEF Dropped, holes, s
  <2>2. \A k \in DOMAIN holes : holes[k] = NoArg \/ \E j \in DOMAIN s : holes[k] = s[j]
    BY <1>4, <1>5
  <2> QED BY <2>1, <2>2, <1>4, <1>7, <1>8 DEF S, s
<1> QED BY <1>9, <1>10

\* Redirected inputs count for the new definition.
LEMMA RedirectedFacts ==
  ASSUME NEW s \in Seq(Args), NEW d \in Instrs, NEW new \in Instrs \ {d}
  PROVE  /\ Redirected(s, d, new) \in Seq(Args)
         /\ DOMAIN Redirected(s, d, new) = DOMAIN s
         /\ \A k \in DOMAIN s : Redirected(s, d, new)[k] = IF s[k] = d THEN new ELSE s[k]
         /\ Slots(Redirected(s, d, new), d) = {}
         /\ Cardinality(Slots(Redirected(s, d, new), new)) =
              Cardinality(Slots(s, new)) + Cardinality(Slots(s, d))
         /\ \A a \in Instrs \ {d, new} : Slots(Redirected(s, d, new), a) = Slots(s, a)
<1> DEFINE r == Redirected(s, d, new)
<1>1. /\ Len(s) \in Nat /\ DOMAIN s = 1 .. Len(s) /\ DOMAIN r = 1 .. Len(s)
      /\ \A k \in 1 .. Len(s) : s[k] \in Args /\ r[k] = IF s[k] = d THEN new ELSE s[k]
  BY DEF Redirected
<1>2. r \in Seq(Args)
  <2>1. \A k \in 1 .. Len(s) : r[k] \in Args
    BY <1>1 DEF Args
  <2>2. r = [k \in 1 .. Len(s) |-> r[k]]
    BY <1>1 DEF Redirected
  <2> HIDE DEF r
  <2> QED BY <2>1, <2>2, <1>1
<1> HIDE DEF r
<1>3. Slots(r, d) = {}
  BY <1>1 DEF Slots
<1>4. /\ Slots(r, new) = Slots(s, new) \cup Slots(s, d)
      /\ Slots(s, new) \cap Slots(s, d) = {}
  BY <1>1 DEF Slots
<1>5. \A a \in Instrs \ {d, new} : Slots(r, a) = Slots(s, a)
  BY <1>1 DEF Slots
<1>6. Cardinality(Slots(r, new)) = Cardinality(Slots(s, new)) + Cardinality(Slots(s, d))
  <2>1. /\ IsFiniteSet(Slots(s, new)) /\ IsFiniteSet(Slots(s, d))
        /\ Cardinality(Slots(s, new)) \in Nat /\ Cardinality(Slots(s, d)) \in Nat
    BY SlotsFinite
  <2>2. Cardinality(Slots(s, new) \cap Slots(s, d)) = 0
    BY <1>4, FS_EmptySet
  <2>3. Cardinality(Slots(s, new) \cup Slots(s, d)) =
          Cardinality(Slots(s, new)) + Cardinality(Slots(s, d)) - 0
    BY <2>1, <2>2, FS_Union
  <2> QED BY <2>1, <2>3, <1>4
<1> QED BY <1>1, <1>2, <1>3, <1>5, <1>6 DEF r

-----------------------------------------------------------------------------
(***************************************************************************)
(* The operations on the store of all instructions, by the two numbers     *)
(* that matter for a definition d and a user u: how often u has d among    *)
(* its inputs, and how often d has u among its users.                      *)
(***************************************************************************)
Stores == [op : [Instrs -> {"none", "live", "NOP"}],
           ins : [Instrs -> Seq(Args)],
           users : [Instrs -> [Instrs -> Nat]]]

LEMMA StoreFacts ==
  ASSUME NEW m \in Stores, NEW u \in Instrs, NEW d \in Instrs
  PROVE  /\ Uses(m, u, d) \in Nat /\ m.users[d][u] \in Nat /\ m.ins[u] \in Seq(Args)
         /\ Uses(m, u, d) = 0 <=> \A k \in DOMAIN m.ins[u] : m.ins[u][k] # d
<1>1. m.ins[u] \in Seq(Args) /\ m.users[d][u] \in Nat
  BY DEF Stores
<1> QED BY <1>1, SlotsFinite DEF Uses

\* What MakeNop makes of a store m is the store q: i keeps no use and no user.
NopOf(m, i, q) ==
  /\ q \in Stores
  /\ q.op = [m.op EXCEPT ![i] = "NOP"]
  /\ \A k \in DOMAIN q.ins[i] : q.ins[i][k] = NoArg
  /\ \A u \in Instrs \ {i} : \A k \in DOMAIN q.ins[u] :
       q.ins[u][k] = NoArg \/ \E j \in DOMAIN m.ins[u] : q.ins[u][k] = m.ins[u][j]
  /\ \A d \in Instrs : Uses(q, i, d) = 0
  /\ \A u \in Instrs \ {i} :
       /\ Uses(q, u, i) = Less(Uses(m, u, i), m.users[i][u])
       /\ \A d \in Instrs \ {i} : Uses(q, u, d) = Uses(m, u, d)
  /\ \A u \in Instrs : q.users[i][u] = 0
  /\ \A d \in Instrs \ {i} :
       /\ q.users[d][i] = Less(m.users[d][i], Uses(m, i, d))
       /\ \A u \in Instrs \ {i} : q.users[d][u] = m.users[d][u]

LEMMA MakeNopFacts ==
  ASSUME NEW m \in Stores, NEW i \in Instrs
  PROVE  NopOf(m, i, MakeNop(m, i))
<1> DEFINE q == MakeNop(m, i)
<1>1. /\ q.op = [m.op EXCEPT ![i] = "NOP"]
      /\ q.ins = [u \in Instrs |-> IF u = i THEN Emptied(m, i)
                                            ELSE Dropped(m, u, i, m.users[i][u])]
      /\ q.users = [d \in Instrs |-> IF d = i THEN NoUsers ELSE Forget(m, i, d)]
      /\ q = [op |-> q.op, ins |-> q.ins, users |-> q.users]
  BY DEF MakeNop
<1> HIDE DEF q
<1>2. /\ m.op \in [Instrs -> {"none", "live", "NOP"}] /\ m.ins \in [Instrs -> Seq(Args)]
      /\ m.users \in [Instrs -> [Instrs -> Nat]]
  BY DEF Stores
<1>3. q.op \in [Instrs -> {"none", "live", "NOP"}]
  BY <1>1, <1>2
<1>4. Emptied(m, i) \in Seq(Args) /\ \A k \in DOMAIN Emptied(m, i) : Emptied(m, i)[k] = NoArg
  <2>1. m.ins[i] \in Seq(Args) /\ NoArg \in Args
    BY <1>2 DEF Args
  <2>2. DOMAIN m.ins[i] = 1 .. Len(m.ins[i]) /\ Len(m.ins[i]) \in Nat
    BY <2>1
  <2>3. [k \in 1 .. Len(m.ins[i]) |-> NoArg] \in Seq(Args)
    BY <2>1, <2>2
  <2>4. CASE i \in Dynamic
    BY <2>4 DEF Emptied
  <2>5. CASE i \notin Dynamic
    <3>1. Emptied(m, i) = [k \in 1 .. Len(m.ins[i]) |-> NoArg]
      BY <2>5, <2>2 DEF Emptied
    <3> QED BY <3>1, <2>3
  <2> QED BY <2>4, <2>5
<1>5. ASSUME NEW u \in Instrs \ {i}
      PROVE  /\ q.ins[u] = Dropped(m, u, i, m.users[i][u])
             /\ m.ins[u] \in Seq(Args) /\ m.users[i][u] \in Nat
  BY <1>1, <1>2
<1>6. ASSUME NEW u \in Instrs \ {i}
      PROVE  /\ q.ins[u] \in Seq(Args)
             /\ \A k \in DOMAIN q.ins[u] :
                  q.ins[u][k] = NoArg \/ \E j \in DOMAIN m.ins[u] : q.ins[u][k] = m.ins[u][j]
             /\ Uses(q, u, i) = Less(Uses(m, u, i), m.users[i][u])
             /\ \A d \in Instrs \ {i} : Uses(q, u, d) = Uses(m, u, d)
  BY <1>5, DroppedFacts DEF Uses
<1>7. q.ins[i] = Emptied(m, i)
  BY <1>1
<1>8. q.ins \in [Instrs -> Seq(Args)]
  <2>1. \A u \in Instrs : q.ins[u] \in Seq(Args)
    BY <1>4, <1>6, <1>7
  <2>2. q.ins = [u \in Instrs |-> q.ins[u]]
    BY <1>1
  <2> QED BY <2>1, <2>2
<1>9. \A d \in Instrs : Uses(q, i, d) = 0
  <2>1. \A d \in Instrs : d # NoArg
    BY ArgsAssumption
  <2> QED BY <2>1, <1>4, <1>7, SlotsFinite DEF Uses
<1>10. /\ \A u \in Instrs : q.users[i][u] = 0
       /\ \A d \in Instrs \ {i} :
            /\ q.users[d][i] = Less(m.users[d][i], Uses(m, i, d))
            /\ \A u \in Instrs \ {i} : q.users[d][u] = m.users[d][u]
  <2>1. q.users[i] = NoUsers
    BY <1>1
  <2>2. ASSUME NEW d \in Instrs \ {i}
        PROVE  /\ q.users[d] = [m.users[d] EXCEPT ![i] = Less(@, Uses(m, i, d))]
               /\ m.users[d] \in [Instrs -> Nat]
    BY <1>1, <1>2 DEF Forget
  <2> QED BY <2>1, <2>2 DEF NoUsers
<1>11. q.users \in [Instrs -> [Instrs -> Nat]]
  <2>1. ASSUME NEW d \in Instrs PROVE q.users[d] \in [Instrs -> Nat]
    <3>1. CASE d = i
      BY <3>1, <1>1 DEF NoUsers
    <3>2. CASE d # i
      <4>1. q.users[d] = [m.users[d] EXCEPT ![i] = Less(@, Uses(m, i, d))]
        BY <3>2, <1>1 DEF Forget
      <4>2. Less(m.users[d][i], Uses(m, i, d)) \in Nat
        BY StoreFacts DEF Less
      <4> QED BY <4>1, <4>2, <1>2
    <3> QED BY <3>1, <3>2
  <2>2. q.users = [d \in Instrs |-> q.users[d]]
    BY <1>1
  <2> QED BY <2>1, <2>2
<1>12. q \in Stores
  BY <1>1, <1>3, <1>8, <1>11 DEF Stores
<1>13. NopOf(m, i, q)
  BY <1>1, <1>4, <1>6, <1>7, <1>9, <1>10, <1>12 DEF NopOf
<1> QED BY <1>13 DEF q

LEMMA ReplaceFacts ==
  ASSUME NEW m \in Stores, NEW i \in Instrs, NEW new \in Instrs \ {i}
  PROVE  /\ ReplaceInputForUsers(m, i, new) \in Stores
         /\ ReplaceInputForUsers(m, i, new).op = m.op
         /\ ReplaceInputForUsers(m, i, new).users = m.users
         /\ \A u \in Instrs \ UsersOf(m, i) :
              /\ ReplaceInputForUsers(m, i, new).ins[u] = m.ins[u]
              /\ \A d \in Instrs : Uses(ReplaceInputForUsers(m, i, new), u, d) = Uses(m, u, d)
         /\ \A u \in UsersOf(m, i) :
              /\ DOMAIN ReplaceInputForUsers(m, i, new).ins[u] = DOMAIN m.ins[u]
              /\ \A k \in DOMAIN m.ins[u] :
                   ReplaceInputForUsers(m, i, new).ins[u][k] =
                     IF m.ins[u][k] = i THEN new ELSE m.ins[u][k]
              /\ Uses(ReplaceInputForUsers(m, i, new), u, i) = 0
              /\ Uses(ReplaceInputForUsers(m, i, new), u, new) = Uses(m, u, new) + Uses(m, u, i)
              /\ \A d \in Instrs \ {i, new} :
                   Uses(ReplaceInputForUsers(m, i, new), u, d) = Uses(m, u, d)
<1> DEFINE q == ReplaceInputForUsers(m, i, new)
<1>1. /\ q.op = m.op /\ q.users = m.users
      /\ q.ins = [u \in Instrs |-> IF u \in UsersOf(m, i) THEN Redirected(m.ins[u], i, new)
                                                            ELSE m.ins[u]]
      /\ q = [op |-> q.op, ins |-> q.ins, users |-> q.users]
      /\ UsersOf(m, i) \subseteq Instrs
  <2> DEFINE r == [u \in Instrs |-> IF u \in UsersOf(m, i) THEN Redirected(m.ins[u], i, new)
                                                            ELSE m.ins[u]]
  <2>1. q = [m EXCEPT !.ins = r]
    BY DEF ReplaceInputForUsers
  <2>2. UsersOf(m, i) \subseteq Instrs
    BY DEF UsersOf
  <2> HIDE DEF q, r
  <2>3. q.op = m.op /\ q.users = m.users /\ q.ins = r /\ q = [op |-> q.op, ins |-> q.ins, users |-> q.users]
    BY <2>1 DEF Stores
  <2> QED BY <2>2, <2>3 DEF r
<1> HIDE DEF q
<1>2. \A u \in Instrs : m.ins[u] \in Seq(Args)
  BY DEF Stores
<1>3. \A u \in Instrs \ UsersOf(m, i) :
        q.ins[u] = m.ins[u] /\ \A d \in Instrs : Uses(q, u, d) = Uses(m, u, d)
  BY <1>1 DEF Uses
<1>4. ASSUME NEW u \in UsersOf(m, i)
      PROVE  /\ q.ins[u] \in Seq(Args)
             /\ DOMAIN q.ins[u] = DOMAIN m.ins[u]
             /\ \A k \in DOMAIN m.ins[u] :
                  q.ins[u][k] = IF m.ins[u][k] = i THEN new ELSE m.ins[u][k]
             /\ Uses(q, u, i) = 0
             /\ Uses(q, u, new) = Uses(m, u, new) + Uses(m, u, i)
             /\ \A d \in Instrs \ {i, new} : Uses(q, u, d) = Uses(m, u, d)
  <2>1. q.ins[u] = Redirected(m.ins[u], i, new) /\ m.ins[u] \in Seq(Args)
    BY <1>1, <1>2
  <2>2. Cardinality({}) = 0
    BY FS_EmptySet
  <2> DEFINE s == m.ins[u]
             r == Redirected(s, i, new)
  <2>3. /\ r \in Seq(Args) /\ DOMAIN r = DOMAIN s
        /\ \A k \in DOMAIN s : r[k] = IF s[k] = i THEN new ELSE s[k]
        /\ Slots(r, i) = {}
        /\ Cardinality(Slots(r, new)) = Cardinality(Slots(s, new)) + Cardinality(Slots(s, i))
        /\ \A a \in Instrs \ {i, new} : Slots(r, a) = Slots(s, a)
    BY <2>1, RedirectedFacts
  <2>4. q.ins[u] = r
    BY <2>1
  <2> HIDE DEF r
  <2> QED BY <2>2, <2>3, <2>4 DEF Uses
<1>5. q \in Stores
  <2>1. \A u \in Instrs : q.ins[u] \in Seq(Args)
    BY <1>2, <1>3, <1>4
  <2>2. q.ins = [u \in Instrs |-> q.ins[u]]
    BY <1>1
  <2>3. q.ins \in [Instrs -> Seq(Args)]
    BY <2>1, <2>2
  <2> QED BY <2>3, <1>1 DEF Stores
<1> QED BY <1>1, <1>3, <1>4, <1>5 DEF q

LEMMA AddUsersFacts ==
  ASSUME NEW m \in Stores, NEW i \in Instrs, NEW new \in Instrs \ {i}
  PROVE  /\ AddUsers(m, new, i) \in Stores
         /\ AddUsers(m, new, i).op = m.op /\ AddUsers(m, new, i).ins = m.ins
         /\ \A u \in Instrs : AddUsers(m, new, i).users[new][u] = m.users[new][u] + m.users[i][u]
         /\ \A d \in Instrs \ {new} : AddUsers(m, new, i).users[d] = m.users[d]
<1> DEFINE q == AddUsers(m, new, i)
           r == [u \in Instrs |-> m.users[new][u] + m.users[i][u]]
<1>1. q = [m EXCEPT !.users = [m.users EXCEPT ![new] = r]]
  BY DEF AddUsers
<1>2. r \in [Instrs -> Nat]
  BY DEF Stores
<1> HIDE DEF q, r
<1>3. /\ q.op = m.op /\ q.ins = m.ins /\ q.users = [m.users EXCEPT ![new] = r]
      /\ q = [op |-> q.op, ins |-> q.ins, users |-> q.users]
  BY <1>1 DEF Stores
<1>4. m.users \in [Instrs -> [Instrs -> Nat]]
  BY DEF Stores
<1>5. q.users[new] = r /\ \A d \in Instrs \ {new} : q.users[d] = m.users[d]
  BY <1>3, <1>4
<1>6. q.users \in [Instrs -> [Instrs -> Nat]]
  BY <1>2, <1>3, <1>4
<1>7. q \in Stores
  BY <1>3, <1>6 DEF Stores
<1> QED BY <1>3, <1>5, <1>7 DEF q, r

\* d has one entry less for u, if it has one.
LEMMA RemoveUserFacts ==
  ASSUME NEW m \in Stores, NEW d \in Instrs, NEW u \in Instrs
  PROVE  /\ RemoveUser(m, d, u) \in Stores
         /\ RemoveUser(m, d, u).op = m.op /\ RemoveUser(m, d, u).ins = m.ins
         /\ RemoveUser(m, d, u).users[d][u] = Less(m.users[d][u], 1)
         /\ \A e, w \in Instrs : ~(e = d /\ w = u) => RemoveUser(m, d, u).users[e][w] = m.users[e][w]
<1> DEFINE r == RemoveUser(m, d, u)
           f == m.users
           v == Less(m.users[d][u], 1)
           g == [f EXCEPT ![d] = [f[d] EXCEPT ![u] = v]]
<1>1. r = [m EXCEPT !.users = g]
  BY DEF RemoveUser
<1>2. f \in [Instrs -> [Instrs -> Nat]] /\ f[d] \in [Instrs -> Nat] /\ f[d][u] \in Nat
  BY DEF Stores
<1>3. v \in Nat
  BY <1>2 DEF Less
<1> HIDE DEF r, g
<1>4. r.op = m.op /\ r.ins = m.ins /\ r.users = g /\ r = [op |-> r.op, ins |-> r.ins, users |-> r.users]
  BY <1>1 DEF Stores
<1> HIDE DEF f, v
<1>5. [f[d] EXCEPT ![u] = v] \in [Instrs -> Nat]
  BY <1>2, <1>3
<1>6. /\ g \in [Instrs -> [Instrs -> Nat]] /\ g[d] = [f[d] EXCEPT ![u] = v]
      /\ \A e \in Instrs \ {d} : g[e] = f[e]
  BY <1>2, <1>5 DEF g
<1>7. g[d][u] = v /\ \A w \in Instrs \ {u} : g[d][w] = f[d][w]
  BY <1>2, <1>6
<1>8. \A e, w \in Instrs : ~(e = d /\ w = u) => g[e][w] = f[e][w]
  BY <1>6, <1>7
<1>9. r \in Stores
  BY <1>4, <1>6 DEF Stores
<1> QED BY <1>4, <1>7, <1>8, <1>9 DEF r, f, v

-----------------------------------------------------------------------------
(***************************************************************************)
(* The inductive invariant.  UsersMirrorUses alone is not enough for the   *)
(* failures: the instructions that are not live have no inputs, so that    *)
(* one that is met through a list of users is live or the list is stale.   *)
(***************************************************************************)
TypeInv == /\ store \in Stores
           /\ lost \subseteq Instrs /\ stale \subseteq Instrs /\ fault \subseteq Instrs

IdleInv == \A u \in Instrs \ Live : \A k \in DOMAIN store.ins[u] : store.ins[u][k] = NoArg

UseInv == TypeInv /\ IdleInv /\ UsersMirrorUses /\ FaultsExplained

\* A user without an entry, an entry without a use, and a call that was inlined.
Short(m, d, u) == m.users[d][u] < Uses(m, u, d)
Extra(m, d, u) == m.users[d][u] > Uses(m, u, d)
Inlined(u) == \E x \in inlined : x[1] = u

LEMMA MirrorFacts ==
  UsersMirrorUses <=> \A d, u \in Instrs : /\ Short(store, d, u) => d \in lost \/ Inlined(u)
                                           /\ Extra(store, d, u) => d \in stale
BY DEF UsersMirrorUses, Short, Extra, Inlined

\* What UseInv says of a user u of d.
LEMMA UseFacts ==
  ASSUME UseInv, NEW u \in Instrs, NEW d \in Instrs
  PROVE  /\ store.users[d][u] \in Nat /\ Uses(store, u, d) \in Nat
         /\ store.users[d][u] < Uses(store, u, d) => d \in lost \/ Inlined(u)
         /\ store.users[d][u] > Uses(store, u, d) => d \in stale
         /\ Uses(store, u, d) > 0 => u \in Live
         /\ u \in UsersOf(store, d) <=> store.users[d][u] > 0
<1>1. store \in Stores /\ IdleInv /\ d # NoArg /\ UsersMirrorUses
  BY ArgsAssumption DEF UseInv, TypeInv
<1>2. /\ store.users[d][u] \in Nat /\ Uses(store, u, d) \in Nat
      /\ Uses(store, u, d) = 0 <=> \A k \in DOMAIN store.ins[u] : store.ins[u][k] # d
  BY <1>1, StoreFacts
<1>3. Uses(store, u, d) > 0 => u \in Live
  BY <1>1, <1>2 DEF IdleInv
<1>4. u \in UsersOf(store, d) <=> store.users[d][u] > 0
  BY DEF UsersOf
<1> QED BY <1>1, <1>2, <1>3, <1>4, MirrorFacts DEF Short, Extra

\* A user that is no longer live is listed by nothing but a stale definition.
LEMMA StaleUser ==
  ASSUME UseInv, NEW d \in Instrs, NEW u \in UsersOf(store, d)
  PROVE  u \in Instrs /\ (u \in Live \/ d \in stale)
<1>1. u \in Instrs
  BY DEF UsersOf
<1> QED BY <1>1, UseFacts

LEMMA InitUse == Init => UseInv
<1> SUFFICES ASSUME Init PROVE UseInv
  OBVIOUS
<1>1. TypeInv
  <2>1. << >> \in Seq(Args) /\ NoUsers \in [Instrs -> Nat]
    BY DEF NoUsers
  <2>2. [i \in Instrs |-> << >>] \in [Instrs -> Seq(Args)]
    BY <2>1
  <2>3. [i \in Instrs |-> NoUsers] \in [Instrs -> [Instrs -> Nat]]
    BY <2>1
  <2> QED BY <2>2, <2>3 DEF Init, TypeInv, Stores
<1>2. \A u \in Instrs : store.ins[u] = << >> /\ DOMAIN store.ins[u] = {}
  BY DEF Init
<1>3. IdleInv
  BY <1>2 DEF IdleInv
<1>4. ASSUME NEW d \in Instrs, NEW u \in Instrs
      PROVE  store.users[d][u] = 0 /\ Uses(store, u, d) = 0
  <2>1. store.users[d][u] = 0
    BY DEF Init, NoUsers
  <2>2. Slots(store.ins[u], d) = {}
    BY <1>2 DEF Slots
  <2> QED BY <2>1, <2>2, FS_EmptySet DEF Uses
<1>5. UsersMirrorUses
  BY <1>4 DEF UsersMirrorUses
<1>6. FaultsExplained
  BY DEF Init, FaultsExplained
<1> QED BY <1>1, <1>3, <1>5, <1>6 DEF UseInv

\* What a step without a failure has to establish.
LEMMA StepInv ==
  ASSUME TypeInv', IdleInv', fault' = {},
         \A d, u \in Instrs : /\ Short(store', d, u) => d \in lost' \/ Inlined(u)'
                              /\ Extra(store', d, u) => d \in stale'
  PROVE  UseInv'
<1>1. UsersMirrorUses'
  BY DEF UsersMirrorUses, Short, Extra, Inlined
<1>2. FaultsExplained'
  BY DEF FaultsExplained
<1> QED BY <1>1, <1>2 DEF UseInv

LEMMA CreateInv ==
  ASSUME UseInv, fault = {}, NEW i \in Instrs, NEW n \in 0 .. MaxInputs,
         NEW s \in [1 .. n -> Live \cup OtherArgs], Create(i, s)
  PROVE  UseInv'
<1>1. /\ store \in Stores /\ lost \subseteq Instrs /\ stale \subseteq Instrs
      /\ fault' = {} /\ lost' = lost /\ stale' = stale /\ inlined' = inlined
      /\ n \in Nat /\ Live \cup OtherArgs \subseteq Args
  BY ClientAssumption DEF UseInv, TypeInv, Create, history, Live, Args
<1>2. s \in Seq(Args)
  BY <1>1
<1>3. \A d \in Instrs : Cardinality(Slots(s, d)) \in Nat
  BY <1>2, SlotsFinite
<1>4. /\ store'.op = [store.op EXCEPT ![i] = "live"]
      /\ store'.ins = [store.ins EXCEPT ![i] = s]
      /\ store'.users = [d \in Instrs |-> [store.users[d] EXCEPT ![i] = Cardinality(Slots(s, d))]]
      /\ store' = [op |-> store'.op, ins |-> store'.ins, users |-> store'.users]
  BY DEF Create
<1>5. /\ store.op \in [Instrs -> {"none", "live", "NOP"}] /\ store.ins \in [Instrs -> Seq(Args)]
      /\ store.users \in [Instrs -> [Instrs -> Nat]]
  BY <1>1 DEF Stores
<1>6. TypeInv'
  <2>1. store'.op \in [Instrs -> {"none", "live", "NOP"}] /\ store'.ins \in [Instrs -> Seq(Args)]
    BY <1>2, <1>4, <1>5
  <2>2. store'.users \in [Instrs -> [Instrs -> Nat]]
    BY <1>3, <1>4, <1>5
  <2> QED BY <2>1, <2>2, <1>1, <1>4 DEF TypeInv, Stores
<1>7. IdleInv'
  BY <1>4, <1>5 DEF UseInv, IdleInv, Live
<1>8. ASSUME NEW d \in Instrs, NEW u \in Instrs
      PROVE  /\ Short(store', d, u) => d \in lost \/ Inlined(u)
             /\ Extra(store', d, u) => d \in stale
  <2>1. CASE u = i
    <3>1. store'.users[d][u] = Cardinality(Slots(s, d)) /\ store'.ins[u] = s
      BY <2>1, <1>4, <1>5
    <3> QED BY <3>1, <1>3 DEF Uses, Short, Extra
  <2>2. CASE u # i
    <3>1. store'.users[d][u] = store.users[d][u] /\ store'.ins[u] = store.ins[u]
      BY <2>2, <1>4, <1>5
    <3> QED BY <3>1, UseFacts DEF Uses, Short, Extra
  <2> QED BY <2>1, <2>2
<1>9. \A d, u \in Instrs : /\ Short(store', d, u) => d \in lost' \/ Inlined(u)'
                           /\ Extra(store', d, u) => d \in stale'
  BY <1>1, <1>8 DEF Inlined
<1> QED BY <1>1, <1>6, <1>7, <1>9, StepInv

\* An instruction i becomes a NOP after the two sides of its uses may have been
\* changed: what must then hold of the store m.
LEMMA NopInv ==
  ASSUME UseInv, NEW m \in Stores, NEW i \in Instrs, store' = MakeNop(m, i),
         lost' \subseteq Instrs, stale' = stale, inlined' = inlined, fault' = {},
         m.op = store.op,
         \A u \in Instrs : m.op[u] # "live" =>
           \A k \in DOMAIN m.ins[u] : m.ins[u][k] = NoArg,
         \A d \in Instrs \ {i} : \A u \in Instrs : Extra(m, d, u) => d \in stale,
         \A d \in Instrs : \A u \in Instrs \ {i} : Short(m, d, u) => d \in lost' \/ Inlined(u)
  PROVE  UseInv'
<1>a. NopOf(m, i, store')
  BY MakeNopFacts, Zenon
<1> DEFINE q == store'
<1>0. /\ q \in Stores
      /\ q.op = [m.op EXCEPT ![i] = "NOP"]
      /\ \A k \in DOMAIN q.ins[i] : q.ins[i][k] = NoArg
      /\ \A u \in Instrs \ {i} : \A k \in DOMAIN q.ins[u] :
           q.ins[u][k] = NoArg \/ \E j \in DOMAIN m.ins[u] : q.ins[u][k] = m.ins[u][j]
      /\ \A d \in Instrs : Uses(q, i, d) = 0
      /\ \A u \in Instrs \ {i} :
           /\ Uses(q, u, i) = Less(Uses(m, u, i), m.users[i][u])
           /\ \A d \in Instrs \ {i} : Uses(q, u, d) = Uses(m, u, d)
      /\ \A u \in Instrs : q.users[i][u] = 0
      /\ \A d \in Instrs \ {i} :
           /\ q.users[d][i] = Less(m.users[d][i], Uses(m, i, d))
           /\ \A u \in Instrs \ {i} : q.users[d][u] = m.users[d][u]
  BY <1>a DEF NopOf
<1>1. TypeInv'
  BY <1>0 DEF TypeInv, UseInv
<1>2. IdleInv'
  <2> SUFFICES ASSUME NEW u \in Instrs, store'.op[u] # "live", NEW k \in DOMAIN store'.ins[u]
               PROVE  store'.ins[u][k] = NoArg
    BY DEF IdleInv, Live
  <2>1. CASE u = i
    BY <2>1, <1>0
  <2>2. CASE u # i
    <3>1. m.op[u] # "live"
      <4>1. store'.op = [m.op EXCEPT ![i] = "NOP"]
        BY <1>0
      <4> QED BY <4>1, <2>2 DEF Stores
    <3>2. store'.ins[u][k] = NoArg \/ \E j \in DOMAIN m.ins[u] : store'.ins[u][k] = m.ins[u][j]
      BY <2>2, <1>0
    <3> QED BY <3>1, <3>2
  <2> QED BY <2>1, <2>2
<1>3. ASSUME NEW d \in Instrs, NEW u \in Instrs
      PROVE  /\ Short(store', d, u) => d \in lost' \/ Inlined(u)
             /\ Extra(store', d, u) => d \in stale
  <2>0. /\ m.users[d][u] \in Nat /\ Uses(m, u, d) \in Nat
        /\ store' \in Stores /\ store'.users[d][u] \in Nat /\ Uses(store', u, d) \in Nat
    BY StoreFacts, <1>0
  <2>1. CASE u = i
    <3>1. Uses(store', u, d) = 0
      BY <2>1, <1>0
    <3>2. store'.users[d][u] > 0 => d # i /\ m.users[d][u] > Uses(m, u, d)
      <4>1. CASE d = i
        BY <4>1, <1>0
      <4>2. CASE d # i
        <5>1. store'.users[d][u] = Less(m.users[d][u], Uses(m, u, d))
          BY <4>2, <2>1, <1>0
        <5> QED BY <4>2, <5>1, <2>0 DEF Less
      <4> QED BY <4>1, <4>2
    <3> QED BY <3>1, <3>2, <2>0 DEF Short, Extra
  <2>2. CASE u # i /\ d = i
    <3>1. store'.users[d][u] = 0 /\ Uses(store', u, d) = Less(Uses(m, u, d), m.users[d][u])
      BY <2>2, <1>0
    <3>2. m.users[d][u] < Uses(m, u, d) => d \in lost' \/ Inlined(u)
      BY <2>2 DEF Short
    <3> QED BY <3>1, <3>2, <2>0 DEF Less, Short, Extra
  <2>3. CASE u # i /\ d # i
    <3>1. store'.users[d][u] = m.users[d][u] /\ Uses(store', u, d) = Uses(m, u, d)
      BY <2>3, <1>0
    <3> QED BY <3>1, <2>3 DEF Short, Extra
  <2> QED BY <2>1, <2>2, <2>3
<1>4. \A d, u \in Instrs : /\ Short(store', d, u) => d \in lost' \/ Inlined(u)'
                           /\ Extra(store', d, u) => d \in stale'
  BY <1>3 DEF Inlined
<1> QED BY <1>1, <1>2, <1>4, StepInv

LEMMA IdleFacts ==
  ASSUME UseInv, NEW u \in Instrs, store.op[u] # "live"
  PROVE  \A k \in DOMAIN store.ins[u] : store.ins[u][k] = NoArg
BY DEF UseInv, IdleInv, Live

LEMMA MakeNopOnInv ==
  ASSUME UseInv, fault = {}, NEW i \in Instrs, store' = MakeNop(store, i),
         UNCHANGED <<history, fault>>
  PROVE  UseInv'
<1>1. /\ store \in Stores /\ lost' \subseteq Instrs /\ fault' = {}
      /\ lost' = lost /\ stale' = stale /\ inlined' = inlined
  BY DEF UseInv, TypeInv, history
<1>2. \A d, u \in Instrs : /\ Extra(store, d, u) => d \in stale
                           /\ Short(store, d, u) => d \in lost' \/ Inlined(u)
  BY <1>1, UseFacts DEF Short, Extra
<1>3. \A u \in Instrs : store.op[u] # "live" =>
        \A k \in DOMAIN store.ins[u] : store.ins[u][k] = NoArg
  BY IdleFacts
<1> QED BY <1>1, <1>2, <1>3, NopInv

\* The store once the users of i use new: i has all its users and none of them uses
\* it, new has the uses of both.
LEMMA Replaced ==
  ASSUME UseInv, NEW i \in Instrs, NEW new \in Instrs \ {i},
         NEW m, m = ReplaceInputForUsers(store, i, new)
  PROVE  /\ m \in Stores /\ m.op = store.op /\ m.users = store.users
         /\ \A u \in Instrs : m.op[u] # "live" =>
              \A k \in DOMAIN m.ins[u] : m.ins[u][k] = NoArg
         /\ \A u \in Instrs : Uses(m, u, i) > 0 => /\ u \notin UsersOf(store, i)
                                                   /\ i \in lost \/ Inlined(u)
         /\ \A u \in Instrs :
              Uses(m, u, new) = Uses(store, u, new) +
                                  (IF u \in UsersOf(store, i) THEN Uses(store, u, i) ELSE 0)
         /\ \A d \in Instrs \ {i, new} : \A u \in Instrs : Uses(m, u, d) = Uses(store, u, d)
<1>0. store \in Stores
  BY DEF UseInv, TypeInv
<1>1. m \in Stores /\ m.op = store.op /\ m.users = store.users
  BY <1>0, ReplaceFacts
<1>2. ASSUME NEW u \in Instrs
      PROVE  /\ Uses(m, u, i) > 0 => u \notin UsersOf(store, i) /\ (i \in lost \/ Inlined(u))
             /\ Uses(m, u, new) = Uses(store, u, new) +
                                    (IF u \in UsersOf(store, i) THEN Uses(store, u, i) ELSE 0)
             /\ \A d \in Instrs \ {i, new} : Uses(m, u, d) = Uses(store, u, d)
  <2>1. CASE u \in UsersOf(store, i)
    BY <2>1, <1>0, ReplaceFacts
  <2>2. CASE u \notin UsersOf(store, i)
    <3>1. \A d \in Instrs : Uses(m, u, d) = Uses(store, u, d)
      BY <2>2, <1>0, ReplaceFacts
    <3>2. Uses(store, u, i) > 0 => i \in lost \/ Inlined(u)
      BY <2>2, UseFacts
    <3>3. Uses(store, u, new) + 0 = Uses(store, u, new)
      BY UseFacts
    <3> QED BY <2>2, <3>1, <3>2, <3>3
  <2> QED BY <2>1, <2>2
<1>3. ASSUME NEW u \in Instrs, m.op[u] # "live", NEW k \in DOMAIN m.ins[u]
      PROVE  m.ins[u][k] = NoArg
  <2>1. \A j \in DOMAIN store.ins[u] : store.ins[u][j] = NoArg
    BY <1>1, <1>3, IdleFacts
  <2>2. i # NoArg
    BY ArgsAssumption
  <2>3. CASE u \in UsersOf(store, i)
    <3>1. k \in DOMAIN store.ins[u] /\ m.ins[u][k] = IF store.ins[u][k] = i THEN new ELSE store.ins[u][k]
      BY <2>3, <1>0, <1>3, ReplaceFacts
    <3> QED BY <3>1, <2>1, <2>2
  <2>4. CASE u \notin UsersOf(store, i)
    <3>1. m.ins[u] = store.ins[u]
      BY <2>4, <1>0, ReplaceFacts
    <3> QED BY <3>1, <2>1, <1>3
  <2> QED BY <2>3, <2>4
<1> QED BY <1>1, <1>2, <1>3

\* CheckElimination's replacement: the entries of new fall behind its uses, if i
\* had users at all.
LEMMA EliminateInv ==
  ASSUME UseInv, fault = {}, NEW i \in Instrs, NEW new \in Instrs \ {i},
         store' = MakeNop(ReplaceInputForUsers(store, i, new), i),
         lost' = lost \cup {x \in {new} : UsersOf(store, i) # {}},
         UNCHANGED <<stale, inlined, fault>>
  PROVE  UseInv'
<1> DEFINE m == ReplaceInputForUsers(store, i, new)
<1>1. /\ m \in Stores /\ m.op = store.op /\ m.users = store.users
      /\ \A u \in Instrs : m.op[u] # "live" => \A k \in DOMAIN m.ins[u] : m.ins[u][k] = NoArg
      /\ \A u \in Instrs : Uses(m, u, i) > 0 => u \notin UsersOf(store, i) /\ (i \in lost \/ Inlined(u))
      /\ \A u \in Instrs :
           Uses(m, u, new) = Uses(store, u, new) +
                               (IF u \in UsersOf(store, i) THEN Uses(store, u, i) ELSE 0)
      /\ \A d \in Instrs \ {i, new} : \A u \in Instrs : Uses(m, u, d) = Uses(store, u, d)
  BY Replaced
<1>2. store' = MakeNop(m, i)
  OBVIOUS
<1> HIDE DEF m
<1>3. /\ lost \subseteq lost' /\ lost' \subseteq Instrs /\ fault' = {}
      /\ stale' = stale /\ inlined' = inlined
  BY DEF UseInv, TypeInv
<1>4. ASSUME NEW d \in Instrs, NEW u \in Instrs
      PROVE  /\ d # i /\ Extra(m, d, u) => d \in stale
             /\ Short(m, d, u) => d \in lost' \/ Inlined(u)
  <2>1. /\ store.users[d][u] \in Nat /\ Uses(store, u, d) \in Nat /\ Uses(store, u, i) \in Nat
        /\ store.users[d][u] < Uses(store, u, d) => d \in lost' \/ Inlined(u)
        /\ store.users[d][u] > Uses(store, u, d) => d \in stale
        /\ m.users[d][u] = store.users[d][u] /\ Uses(m, u, d) \in Nat
    BY <1>1, <1>3, UseFacts, StoreFacts
  <2>2. CASE d = new /\ u \in UsersOf(store, i)
    <3>1. d \in lost'
      BY <2>2
    <3>2. Uses(m, u, d) = Uses(store, u, d) + Uses(store, u, i)
      BY <2>2, <1>1
    <3> QED BY <3>1, <3>2, <2>1 DEF Extra
  <2>3. CASE d = i
    <3>1. Uses(m, u, i) > 0 => i \in lost' \/ Inlined(u)
      BY <1>1, <1>3
    <3> QED BY <3>1, <2>1, <2>3 DEF Short
  <2>4. CASE d # i /\ (d # new \/ u \notin UsersOf(store, i))
    <3>1. Uses(m, u, d) = Uses(store, u, d)
      BY <2>1, <2>4, <1>1
    <3> QED BY <3>1, <2>1 DEF Short, Extra
  <2> QED BY <2>2, <2>3, <2>4
<1> QED BY <1>1, <1>2, <1>3, <1>4, NopInv

\* Inlining's replacement: new is told of the users of p, which keeps them; new
\* forgets the call.
LEMMA SubstituteInv ==
  ASSUME UseInv, fault = {}, NEW p \in Instrs, NEW new \in Instrs \ {p}, NEW c \in Instrs,
         NEW k,
         store' = RemoveUser(AddUsers(ReplaceInputForUsers(store, p, new), new, p), new, c),
         lost' = lost \cup {x \in {new} : p \in lost},
         stale' = stale \cup {p} \cup {x \in {new} : p \in stale},
         inlined' = inlined \cup {<<c, k>>}, UNCHANGED fault
  PROVE  UseInv'
<1> DEFINE r == ReplaceInputForUsers(store, p, new)
           m == AddUsers(r, new, p)
<1>1. /\ r \in Stores /\ r.op = store.op /\ r.users = store.users
      /\ \A u \in Instrs : r.op[u] # "live" => \A j \in DOMAIN r.ins[u] : r.ins[u][j] = NoArg
      /\ \A u \in Instrs : Uses(r, u, p) > 0 => u \notin UsersOf(store, p) /\ (p \in lost \/ Inlined(u))
      /\ \A u \in Instrs :
           Uses(r, u, new) = Uses(store, u, new) +
                               (IF u \in UsersOf(store, p) THEN Uses(store, u, p) ELSE 0)
      /\ \A d \in Instrs \ {p, new} : \A u \in Instrs : Uses(r, u, d) = Uses(store, u, d)
  BY Replaced
<1>2. store' = RemoveUser(m, new, c)
  OBVIOUS
<1> HIDE DEF r
<1>3. /\ m \in Stores /\ m.op = r.op /\ m.ins = r.ins
      /\ \A u \in Instrs : m.users[new][u] = r.users[new][u] + r.users[p][u]
      /\ \A d \in Instrs \ {new} : m.users[d] = r.users[d]
  <2>1. r \in Stores /\ p \in Instrs /\ new \in Instrs \ {p}
    BY <1>1
  <2> QED BY <2>1, AddUsersFacts
<1> HIDE DEF m
<1>4. /\ store' \in Stores /\ store'.op = m.op /\ store'.ins = m.ins
      /\ store'.users[new][c] = Less(m.users[new][c], 1)
      /\ \A d, u \in Instrs : ~(d = new /\ u = c) => store'.users[d][u] = m.users[d][u]
  <2>1. m \in Stores /\ new \in Instrs /\ c \in Instrs
    BY <1>3
  <2> DEFINE q == RemoveUser(m, new, c)
  <2>2. /\ q \in Stores /\ q.op = m.op /\ q.ins = m.ins
        /\ q.users[new][c] = Less(m.users[new][c], 1)
        /\ \A d, u \in Instrs : ~(d = new /\ u = c) => q.users[d][u] = m.users[d][u]
    BY <2>1, RemoveUserFacts
  <2>3. store' = q
    BY <1>2
  <2> HIDE DEF q
  <2> QED BY <2>2, <2>3
<1>5. \A d, u \in Instrs : Uses(store', u, d) = Uses(r, u, d)
  BY <1>3, <1>4 DEF Uses
<1>6. /\ lost \subseteq lost' /\ lost' \subseteq Instrs /\ fault' = {}
      /\ stale \subseteq stale' /\ stale' \subseteq Instrs /\ p \in stale'
      /\ p \in lost => new \in lost'
      /\ p \in stale => new \in stale'
  BY DEF UseInv, TypeInv
<1>7. \A u \in Instrs : Inlined(u) => Inlined(u)'
  BY DEF Inlined
<1>8. Inlined(c)'
  <2>1. <<c, k>> \in inlined' /\ <<c, k>>[1] = c
    OBVIOUS
  <2> QED BY <2>1 DEF Inlined
<1>9. ASSUME NEW d \in Instrs, NEW u \in Instrs
      PROVE  /\ Short(store', d, u) => d \in lost' \/ Inlined(u)'
             /\ Extra(store', d, u) => d \in stale'
  <2>1. /\ store.users[d][u] \in Nat /\ Uses(store, u, d) \in Nat
        /\ store.users[d][u] < Uses(store, u, d) => d \in lost' \/ Inlined(u)'
        /\ store.users[d][u] > Uses(store, u, d) => d \in stale'
    BY <1>6, <1>7, UseFacts
  <2>2. /\ store.users[p][u] \in Nat /\ Uses(store, u, p) \in Nat
        /\ store.users[p][u] < Uses(store, u, p) => p \in lost \/ Inlined(u)'
        /\ store.users[p][u] > Uses(store, u, p) => p \in stale
        /\ u \in UsersOf(store, p) <=> store.users[p][u] > 0
    BY <1>7, UseFacts
  <2>3. CASE d = new
    <3>1. m.users[d][u] = store.users[d][u] + store.users[p][u]
      BY <2>3, <1>1, <1>3
    <3>2. /\ u # c => store'.users[d][u] = m.users[d][u]
          /\ store'.users[d][u] <= m.users[d][u]
      <4>1. m.users[d][u] \in Nat
        BY <3>1, <2>1, <2>2
      <4>2. Less(m.users[d][u], 1) <= m.users[d][u]
        BY <4>1 DEF Less
      <4> QED BY <4>1, <4>2, <2>3, <1>4
    <3>3. Uses(store', u, d) = Uses(store, u, d) +
                                 (IF u \in UsersOf(store, p) THEN Uses(store, u, p) ELSE 0)
      BY <2>3, <1>1, <1>5
    <3>4. store'.users[d][u] \in Nat
      BY <1>4, StoreFacts
    <3>5. u \notin UsersOf(store, p) => store.users[p][u] = 0
      BY <2>2
    <3>6. Short(store', d, u) => d \in lost' \/ Inlined(u)'
      <4>1. CASE u = c
        BY <4>1, <1>8
      <4>2. CASE u # c
        <5>1. store'.users[d][u] = store.users[d][u] + store.users[p][u]
          BY <4>2, <3>1, <3>2
        <5>2. Short(store', d, u) => \/ store.users[d][u] < Uses(store, u, d)
                                     \/ store.users[p][u] < Uses(store, u, p)
          BY <5>1, <3>3, <3>5, <2>1, <2>2 DEF Short
        <5> QED BY <5>2, <2>1, <2>2, <2>3, <1>6
      <4> QED BY <4>1, <4>2
    <3>7. Extra(store', d, u) => d \in stale'
      <4>1. Extra(store', d, u) => \/ store.users[d][u] > Uses(store, u, d)
                                   \/ store.users[p][u] > Uses(store, u, p)
        BY <3>1, <3>2, <3>3, <3>4, <3>5, <2>1, <2>2 DEF Extra
      <4> QED BY <4>1, <2>1, <2>2, <2>3, <1>6
    <3> QED BY <3>6, <3>7
  <2>4. CASE d = p
    <3>1. Uses(store', u, d) > 0 => d \in lost' \/ Inlined(u)'
      BY <2>4, <1>1, <1>5, <1>6, <1>7
    <3>2. store'.users[d][u] \in Nat /\ Uses(store', u, d) \in Nat
      BY <1>4, StoreFacts
    <3> QED BY <3>1, <3>2, <2>4, <1>6 DEF Short
  <2>5. CASE d # new /\ d # p
    <3>1. Uses(store', u, d) = Uses(store, u, d) /\ store'.users[d][u] = store.users[d][u]
      BY <2>5, <1>1, <1>3, <1>4, <1>5
    <3> QED BY <3>1, <2>1 DEF Short, Extra
  <2> QED BY <2>3, <2>4, <2>5
<1>10. TypeInv'
  BY <1>4, <1>6 DEF TypeInv
<1>11. IdleInv'
  BY <1>1, <1>3, <1>4 DEF IdleInv, Live
<1> QED BY <1>6, <1>9, <1>10, <1>11, StepInv

\* Both ends of one use go: d has one entry less for i, if it had one, and i one
\* use less.
LEMMA UnuseInv ==
  ASSUME UseInv, fault = {}, NEW i \in Instrs, NEW d \in Instrs,
         i \in Live, Uses(store, i, d) > 0,
         store' = RemoveInput(RemoveUser(store, d, i), i, d), UNCHANGED <<history, fault>>
  PROVE  UseInv'
<1> DEFINE r == RemoveUser(store, d, i)
           s == Dropped(r, i, d, 1)
<1>1. /\ store \in Stores /\ lost' = lost /\ stale' = stale /\ inlined' = inlined
      /\ fault' = {} /\ lost \subseteq Instrs /\ stale \subseteq Instrs
  BY DEF UseInv, TypeInv, history
<1>2. /\ r \in Stores /\ r.op = store.op /\ r.ins = store.ins
      /\ r.users[d][i] = Less(store.users[d][i], 1)
      /\ \A e, u \in Instrs : ~(e = d /\ u = i) => r.users[e][u] = store.users[e][u]
  BY <1>1, RemoveUserFacts
<1>3. store' = [r EXCEPT !.ins = [r.ins EXCEPT ![i] = s]]
  BY DEF RemoveInput
<1> HIDE DEF r
<1>4. /\ s \in Seq(Args)
      /\ Cardinality(Slots(s, d)) = Less(Uses(store, i, d), 1)
      /\ \A a \in Instrs \ {d} : Cardinality(Slots(s, a)) = Uses(store, i, a)
  <2>1. r.ins[i] = store.ins[i] /\ r.ins[i] \in Seq(Args)
    BY <1>2 DEF Stores
  <2>2. /\ s \in Seq(Args)
        /\ Cardinality(Slots(s, d)) = Less(Cardinality(Slots(r.ins[i], d)), 1)
        /\ \A a \in Instrs \ {d} : Cardinality(Slots(s, a)) = Cardinality(Slots(r.ins[i], a))
    BY <2>1, DroppedFacts
  <2> QED BY <2>1, <2>2 DEF Uses
<1> HIDE DEF s
<1>5. /\ store'.op = r.op /\ store'.users = r.users /\ store'.ins = [r.ins EXCEPT ![i] = s]
      /\ store' = [op |-> store'.op, ins |-> store'.ins, users |-> store'.users]
  BY <1>2, <1>3 DEF Stores
<1>6. /\ store'.ins[i] = s /\ \A u \in Instrs \ {i} : store'.ins[u] = store.ins[u]
      /\ store'.ins \in [Instrs -> Seq(Args)]
  BY <1>2, <1>4, <1>5 DEF Stores
<1>7. TypeInv'
  BY <1>1, <1>2, <1>5, <1>6 DEF TypeInv, Stores
<1>8. IdleInv'
  BY <1>2, <1>5, <1>6 DEF UseInv, IdleInv, Live
<1>9. ASSUME NEW e \in Instrs, NEW u \in Instrs
       PROVE  /\ Short(store', e, u) => e \in lost \/ Inlined(u)
              /\ Extra(store', e, u) => e \in stale
  <2>1. /\ store.users[e][u] \in Nat /\ Uses(store, u, e) \in Nat
        /\ store.users[e][u] < Uses(store, u, e) => e \in lost \/ Inlined(u)
        /\ store.users[e][u] > Uses(store, u, e) => e \in stale
    BY UseFacts
  <2>2. CASE e = d /\ u = i
    <3>1. /\ store'.users[e][u] = Less(store.users[e][u], 1)
          /\ Uses(store', u, e) = Less(Uses(store, u, e), 1)
      BY <2>2, <1>2, <1>4, <1>5, <1>6 DEF Uses
    <3>2. Uses(store, u, e) > 0
      BY <2>2
    <3> QED BY <3>1, <3>2, <2>1 DEF Less, Short, Extra
  <2>3. CASE ~(e = d /\ u = i)
    <3>1. store'.users[e][u] = store.users[e][u]
      BY <2>3, <1>2, <1>5
    <3>2. Uses(store', u, e) = Uses(store, u, e)
      BY <2>3, <1>4, <1>6 DEF Uses
    <3> QED BY <3>1, <3>2, <2>1 DEF Short, Extra
  <2> QED BY <2>2, <2>3
<1>10. \A e, u \in Instrs : /\ Short(store', e, u) => e \in lost' \/ Inlined(u)'
                            /\ Extra(store', e, u) => e \in stale'
  BY <1>1, <1>9 DEF Inlined
<1> QED BY <1>1, <1>7, <1>8, <1>10, StepInv

-----------------------------------------------------------------------------
(***************************************************************************)
(* The failures.                                                           *)
(***************************************************************************)

\* What FaultsExplained says of an instruction i.
Blame(i) == \E u \in {i} \cup UsersOf(store, i) :
              LET s == store.ins[u]
              IN  \/ (\E k \in DOMAIN s : s[k] \notin Instrs) /\ (u \in Live \/ i \in stale)
                  \/ u \notin Dynamic /\ Slots(s, i) # {} /\ store.users[i][u] > 1

\* MakeNop fails only over such a user, on the store as it is and on one in which
\* inputs have been redirected from i to new before.
LEMMA MakeNopFailure ==
  ASSUME UseInv, NEW i \in Live, NEW new \in Instrs, NEW m,
         m.users[i] = store.users[i],
         \A u \in Instrs : /\ DOMAIN m.ins[u] = DOMAIN store.ins[u]
                           /\ \A k \in DOMAIN store.ins[u] :
                                \/ m.ins[u][k] = store.ins[u][k]
                                \/ m.ins[u][k] = new /\ store.ins[u][k] = i,
         MakeNopFails(m, i)
  PROVE  Blame(i)
<1>1. i \in Instrs /\ Unreadable \cap Instrs = {} /\ UsersOf(m, i) = UsersOf(store, i)
  BY ArgsAssumption DEF Live, Unreadable, UsersOf
<1>2. ASSUME NEW u \in UsersOf(m, i), DropFails(m, u, i, m.users[i][u])
      PROVE  Blame(i)
  <2>1. u \in UsersOf(store, i) /\ u \in Instrs /\ (u \in Live \/ i \in stale)
    BY <1>1, <1>2, StaleUser
  <2>2. CASE \E k \in DOMAIN m.ins[u] : m.ins[u][k] \in Unreadable
    <3>1. PICK k \in DOMAIN m.ins[u] : m.ins[u][k] \in Unreadable
      BY <2>2
    <3>2. k \in DOMAIN store.ins[u] /\ store.ins[u][k] \notin Instrs
      BY <3>1, <2>1, <1>1
    <3> QED BY <3>2, <2>1 DEF Blame
  <2>3. CASE m.users[i][u] > 1 /\ u \notin Dynamic /\ Slots(m.ins[u], i) # {}
    <3>1. PICK k \in DOMAIN m.ins[u] : m.ins[u][k] = i
      BY <2>3 DEF Slots
    <3>2. k \in DOMAIN store.ins[u] /\ store.ins[u][k] = i
      BY <3>1, <2>1
    <3>3. Slots(store.ins[u], i) # {}
      BY <3>2 DEF Slots
    <3>4. store.users[i][u] > 1
      BY <2>3
    <3> QED BY <3>3, <3>4, <2>1, <2>3 DEF Blame
  <2> QED BY <2>2, <2>3, <1>2 DEF DropFails
<1>3. ASSUME NEW k \in DOMAIN m.ins[i], m.ins[i][k] \notin Instrs
      PROVE  Blame(i)
  <2>1. k \in DOMAIN store.ins[i] /\ store.ins[i][k] \notin Instrs
    BY <1>1, <1>3
  <2> QED BY <2>1 DEF Blame
<1> QED BY <1>2, <1>3 DEF MakeNopFails

LEMMA ReplaceFailure ==
  ASSUME UseInv, NEW i \in Live, ReplaceInputFails(store, i)
  PROVE  Blame(i)
<1>1. PICK u \in UsersOf(store, i) : \E a \in Unreadable : Slots(store.ins[u], a) # {}
  BY DEF ReplaceInputFails
<1>2. i \in Instrs
  BY DEF Live
<1>3. u \in Live \/ i \in stale
  BY <1>2, StaleUser
<1>4. Unreadable \cap Instrs = {}
  BY ArgsAssumption DEF Unreadable
<1>5. \E k \in DOMAIN store.ins[u] : store.ins[u][k] \notin Instrs
  BY <1>1, <1>4 DEF Slots
<1> QED BY <1>3, <1>5 DEF Blame

\* What CheckElimination's replacement passes to MakeNop is such a store.
LEMMA RedirectedFailure ==
  ASSUME UseInv, NEW i \in Live, NEW new \in Instrs \ {i},
         MakeNopFails(ReplaceInputForUsers(store, i, new), i)
  PROVE  Blame(i)
<1> DEFINE m == ReplaceInputForUsers(store, i, new)
<1>1. store \in Stores /\ i \in Instrs
  BY DEF UseInv, TypeInv, Live
<1>2. \A u \in Instrs : /\ DOMAIN m.ins[u] = DOMAIN store.ins[u]
                        /\ \A k \in DOMAIN store.ins[u] :
                             \/ m.ins[u][k] = store.ins[u][k]
                             \/ m.ins[u][k] = new /\ store.ins[u][k] = i
  BY <1>1, ReplaceFacts
<1>3. m.users[i] = store.users[i]
  BY <1>1, ReplaceFacts
<1> HIDE DEF m
<1>4. MakeNopFails(m, i)
  BY DEF m
<1> QED BY <1>2, <1>3, <1>4, MakeNopFailure

LEMMA UnuseFailure ==
  ASSUME NEW i \in Live, NEW d, RemoveInputFails(store, i, d)
  PROVE  Blame(i)
<1>1. PICK k \in DOMAIN store.ins[i] : store.ins[i][k] \in {NoArg, Label}
  BY DEF RemoveInputFails, Unreadable
<1>2. store.ins[i][k] \notin Instrs
  BY <1>1, ArgsAssumption
<1> QED BY <1>2 DEF Blame

LEMMA FailsInv ==
  ASSUME UseInv, NEW i \in Instrs, Fails(i), Blame(i)
  PROVE  UseInv'
<1>1. store' = store /\ lost' = lost /\ stale' = stale /\ inlined' = inlined /\ fault' = {i}
  BY DEF Fails, history
<1>2. TypeInv' /\ IdleInv' /\ UsersMirrorUses'
  BY <1>1 DEF UseInv, TypeInv, IdleInv, UsersMirrorUses, Live, Uses
<1>3. FaultsExplained'
  BY <1>1 DEF FaultsExplained, Blame, Live, UsersOf
<1> QED BY <1>2, <1>3 DEF UseInv

LEMMA NextInv == ASSUME UseInv, Next PROVE UseInv'
<1>1. fault = {}
  BY DEF Next
<1>2. ASSUME NEW i \in Instrs, NEW n \in 0 .. MaxInputs,
             NEW s \in [1 .. n -> Live \cup OtherArgs], Create(i, s)
      PROVE  UseInv'
  BY <1>1, <1>2, CreateInv
<1>3. ASSUME NEW i \in Instrs, MakeNopOn(i) PROVE UseInv'
  <2>1. CASE MakeNopFails(store, i)
    <3>1. Fails(i) /\ i \in Live
      BY <2>1, <1>3 DEF MakeNopOn
    <3>2. Blame(i)
      BY <2>1, <3>1, MakeNopFailure
    <3> QED BY <3>1, <3>2, FailsInv
  <2>2. CASE ~MakeNopFails(store, i)
    BY <2>2, <1>1, <1>3, MakeNopOnInv DEF MakeNopOn
  <2> QED BY <2>1, <2>2
<1>4. ASSUME NEW i \in Instrs, NEW new \in Instrs, Eliminate(i, new) PROVE UseInv'
  <2> DEFINE m == ReplaceInputForUsers(store, i, new)
  <2>1. i \in Live /\ new \in Instrs \ {i}
    BY <1>4 DEF Eliminate, Live
  <2>2. CASE ReplaceInputFails(store, i) \/ MakeNopFails(m, i)
    <3>1. Blame(i)
      BY <2>1, <2>2, ReplaceFailure, RedirectedFailure
    <3>2. Fails(i)
      BY <2>2, <1>4 DEF Eliminate
    <3> QED BY <3>1, <3>2, FailsInv
  <2>3. CASE ~(ReplaceInputFails(store, i) \/ MakeNopFails(m, i))
    <3>1. /\ store' = MakeNop(m, i)
          /\ lost' = lost \cup {x \in {new} : UsersOf(store, i) # {}}
          /\ UNCHANGED <<stale, inlined, fault>>
      BY <2>3, <1>4 DEF Eliminate
    <3> QED BY <3>1, <2>1, <1>1, EliminateInv
  <2> QED BY <2>2, <2>3
<1>5. ASSUME NEW c \in Instrs, NEW k \in 1 .. MaxInputs, NEW p \in Instrs, Substitute(c, k, p)
      PROVE  UseInv'
  <2> DEFINE new == Tail(store.ins[c])[k]
  <2>1. p \in Live /\ new \in Instrs \ {p}
    BY <1>5 DEF Substitute, Live
  <2>2. CASE ReplaceInputFails(store, p)
    <3>1. Blame(p)
      BY <2>1, <2>2, ReplaceFailure
    <3>2. Fails(p)
      BY <2>2, <1>5 DEF Substitute
    <3> QED BY <3>1, <3>2, FailsInv
  <2>3. CASE ~ReplaceInputFails(store, p)
    <3>1. /\ store' = RemoveUser(AddUsers(ReplaceInputForUsers(store, p, new), new, p), new, c)
          /\ lost' = lost \cup {x \in {new} : p \in lost}
          /\ stale' = stale \cup {p} \cup {x \in {new} : p \in stale}
          /\ inlined' = inlined \cup {<<c, k>>}
          /\ UNCHANGED fault
      BY <2>3, <1>5 DEF Substitute
    <3> HIDE DEF new
    <3> QED BY <3>1, <2>1, <1>1, SubstituteInv
  <2> QED BY <2>2, <2>3
<1>6. ASSUME NEW i \in Instrs, NEW d \in Instrs, Unuse(i, d) PROVE UseInv'
  <2>1. i \in Live /\ Uses(store, i, d) > 0
    BY <1>6 DEF Unuse
  <2>2. CASE RemoveInputFails(store, i, d)
    <3>1. Fails(i)
      BY <2>2, <1>6 DEF Unuse
    <3> QED BY <3>1, <2>1, <2>2, UnuseFailure, FailsInv
  <2>3. CASE ~RemoveInputFails(store, i, d)
    <3>1. store' = RemoveInput(RemoveUser(store, d, i), i, d) /\ UNCHANGED <<history, fault>>
      BY <2>3, <1>6 DEF Unuse
    <3> QED BY <3>1, <2>1, <1>1, UnuseInv
  <2> QED BY <2>2, <2>3
<1> QED BY <1>2, <1>3, <1>4, <1>5, <1>6 DEF Next

\* The inductive invariant of UseLists: the two sides of the uses, what a user that
\* is not live can be met through, and the failures, through every sequence of calls.
THEOREM UseInvHolds == Spec => []UseInv
<1>1. UseInv /\ UNCHANGED vars => UseInv'
  BY DEF vars, history, UseInv, TypeInv, IdleInv, UsersMirrorUses, FaultsExplained, Live, Uses, UsersOf
<1>2. UseInv /\ [Next]_vars => UseInv'
  BY <1>1, NextInv
<1> QED BY InitUse, <1>2, PTL DEF Spec

\* The two sides of the def-use edges, which no member function of InstructionBase
\* writes together, differ through every sequence of the passes' calls only where the
\* passes leave them apart: entries are missing for what CheckElimination redirected
\* and for a call that was inlined, and are too many for a parameter that Inlining
\* replaced and for what replaces it again.
THEOREM UsersStayMirrored == Spec => []UsersMirrorUses
<1>1. UseInv => UsersMirrorUses
  BY DEF UseInv
<1> QED BY <1>1, UseInvHolds, PTL

\* A member function of an instruction dereferences null or fails an assertion only
\* over the instruction itself or one of its users: a live one with an empty slot or
\* a non-instruction argument, a fixed one that it lists twice, or, if its list of
\* users is stale, a NOP.
THEOREM FaultsAreExplained == Spec => []FaultsExplained
<1>1. UseInv => FaultsExplained
  BY DEF UseInv
<1> QED BY <1>1, UseInvHolds, PTL
=============================================================================
