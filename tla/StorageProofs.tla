--------------------------- MODULE StorageProofs ---------------------------
(***************************************************************************)
(* Where the objects of the library live and how blocks chain the          *)
(* instructions: what Allocator promises about the addresses it answers,   *)
(* and what InstrList promises about the lists its pointers describe, for  *)
(* every reserve and any number of classes, objects, pools, blocks and     *)
(* instructions.                                                           *)
(***************************************************************************)
EXTENDS Allocator, InstrList, SequenceTheorems, FiniteSetTheorems, TLAPS

R == INSTANCE ReachabilityTheorems

\* A storage that has not outgrown its reserve still has its first capacity, and
\* the buffers of the pools are numbered below the next one.
Room == \A c \in Classes : /\ storage[c].size <= Reserve => storage[c].capacity = Reserve
                           /\ storage[c].capacity > 0 /\ pools[c].capacity > 0
Fresh == \A c \in Classes : \A p \in 1 .. Len(pools[c].buffers) :
           pools[c].buffers[p] < pools[c].fresh

StorageInv == AllocTypeOK /\ Room /\ Fresh /\ PointersStayWithinReserve /\ PoolPointersStay

LEMMA PoolsUnchanged ==
  ASSUME PoolPointersStay, pools' = pools, pointers' = pointers PROVE PoolPointersStay'
  BY ZenonT(30) DEF PoolPointersStay

LEMMA AppendedIndex ==
  ASSUME NEW S, NEW s \in Seq(S), NEW x \in S, NEW t, t = Append(s, x)
  PROVE  \A k \in 1 .. Len(t) : \/ k \in 1 .. Len(s) /\ t[k] = s[k]
                                \/ k = Len(s) + 1 /\ t[k] = x
  OBVIOUS

\* A number above all members of a sequence without repetitions is put behind them.
LEMMA FreshAppended ==
  ASSUME NEW b \in Seq(Nat), NEW f \in Nat, NEW t, t = Append(b, f),
         \A k \in 1 .. Len(b) : b[k] < f,
         \A k, l \in 1 .. Len(b) : b[k] = b[l] => k = l
  PROVE  /\ Len(t) = Len(b) + 1 /\ t[Len(b) + 1] = f
         /\ \A k \in 1 .. Len(b) : t[k] = b[k]
         /\ \A k \in 1 .. Len(t) : t[k] < f + 1
         /\ \A k, l \in 1 .. Len(t) : t[k] = t[l] => k = l
<1>1. \A k \in 1 .. Len(t) : \/ k \in 1 .. Len(b) /\ t[k] = b[k]
                             \/ k = Len(b) + 1 /\ t[k] = f
  BY AppendedIndex
<1>2. Len(t) = Len(b) + 1 /\ t[Len(b) + 1] = f /\ \A k \in 1 .. Len(b) : t[k] = b[k]
  OBVIOUS
<1>3. \A k \in 1 .. Len(b) : b[k] \in Nat
  OBVIOUS
<1>4. \A k \in 1 .. Len(t) : t[k] < f + 1
  BY <1>1, <1>3
<1>5. \A k, l \in 1 .. Len(t) : t[k] = t[l] => k = l
  BY <1>1, <1>3
<1> QED BY <1>2, <1>4, <1>5

LEMMA AllocInitEstablishes == AllocInit => StorageInv
  BY ReserveAssumption, SMT DEF AllocInit, StorageInv, AllocTypeOK, Room, Fresh, PointersStayWithinReserve,
    PoolPointersStay, Address

\* New changes the storage of one class and what it has answered for it.
LEMMA NewPreserves ==
  ASSUME StorageInv, NEW c \in Classes, New(c)
  PROVE  StorageInv'
<1> DEFINE s == storage[c]
           t == storage'[c]
<1> USE DEF New
<1>1. s \in [buffer : Nat, size : Nat, capacity : Nat] /\ given[c] \in Seq(Address)
      /\ Len(given[c]) = s.size /\ s.size <= s.capacity
  BY DEF StorageInv, AllocTypeOK
<1>2. /\ storage \in [Classes -> [buffer : Nat, size : Nat, capacity : Nat]]
      /\ given \in [Classes -> Seq(Address)]
  BY DEF StorageInv, AllocTypeOK
<1>3. t = AddElem(s) /\ \A d \in Classes \ {c} : storage'[d] = storage[d]
  BY <1>2
<1>4. given'[c] = Append(given[c], [buffer |-> t.buffer, index |-> t.size])
      /\ \A d \in Classes \ {c} : given'[d] = given[d]
  BY <1>2 DEF GetBackPointer
<1>5. /\ t \in [buffer : Nat, size : Nat, capacity : Nat]
      /\ t.size = s.size + 1 /\ t.size <= t.capacity /\ t.capacity > 0
      /\ t.size <= Reserve => t.buffer = s.buffer /\ t.capacity = Reserve
  BY <1>1, <1>3, ReserveAssumption, SMTT(30) DEF AddElem, StorageInv, Room
<1>6. [buffer |-> t.buffer, index |-> t.size] \in Address
  BY <1>5 DEF Address
<1>7. AllocTypeOK'
  <2>1. storage' \in [Classes -> [buffer : Nat, size : Nat, capacity : Nat]]
    BY <1>2, <1>3, <1>5
  <2>2. given' \in [Classes -> Seq(Address)] /\ Len(given'[c]) = t.size
    BY <1>1, <1>2, <1>4, <1>5, <1>6
  <2>3. \A d \in Classes : Len(given'[d]) = storage'[d].size
                           /\ storage'[d].size <= storage'[d].capacity
    BY <1>3, <1>4, <1>5, <2>2 DEF StorageInv, AllocTypeOK
  <2> QED BY <2>1, <2>2, <2>3 DEF StorageInv, AllocTypeOK
<1>8. Room' /\ Fresh'
  BY <1>3, <1>5 DEF StorageInv, Room, Fresh
<1>9. PointersStayWithinReserve'
  <2> SUFFICES ASSUME NEW d \in Classes, storage'[d].size <= Reserve,
                      NEW n \in 1 .. Len(given'[d])
               PROVE  given'[d][n] = [buffer |-> storage'[d].buffer, index |-> n]
    BY DEF PointersStayWithinReserve
  <2>1. CASE d # c
    BY <2>1, <1>3, <1>4 DEF StorageInv, PointersStayWithinReserve
  <2>2. CASE d = c
    <3>1. s.size <= Reserve
      BY <1>1, <1>5, <2>2, ReserveAssumption
    <3>2. CASE n = t.size
      BY <3>2, <2>2, <1>1, <1>4, <1>5
    <3>3. CASE n # t.size
      <4>1. n \in 1 .. Len(given[c])
        BY <3>3, <2>2, <1>1, <1>4, <1>5
      <4>2. given'[c][n] = given[c][n]
        BY <4>1, <1>1, <1>4
      <4>3. given[c][n] = [buffer |-> s.buffer, index |-> n]
        BY <4>1, <3>1 DEF StorageInv, PointersStayWithinReserve
      <4> QED BY <4>2, <4>3, <1>5, <2>2
    <3> QED BY <3>2, <3>3
  <2> QED BY <2>1, <2>2
<1>10. PoolPointersStay'
  <2>1. pools' = pools /\ pointers' = pointers
    OBVIOUS
  <2>2. PoolPointersStay
    BY DEF StorageInv
  <2> QED BY <2>1, <2>2, PoolsUnchanged
<1> QED BY <1>7, <1>8, <1>9, <1>10 DEF StorageInv

\* NewPool adds a pool to one class.
LEMMA NewPoolPreserves ==
  ASSUME StorageInv, NEW c \in Classes, NEW n \in PoolSizes, NewPool(c, n)
  PROVE  StorageInv'
<1> DEFINE p == pools[c]
           q == pools'[c]
           pool == [k \in 1 .. n |-> [buffer |-> p.fresh, index |-> k]]
<1> USE DEF NewPool
<1>1. /\ pools \in [Classes -> [buffers : Seq(Nat), capacity : Nat, fresh : Nat]]
      /\ pointers \in [Classes -> Seq(Seq(Address))]
      /\ p \in [buffers : Seq(Nat), capacity : Nat, fresh : Nat]
      /\ pointers[c] \in Seq(Seq(Address))
      /\ Len(pointers[c]) = Len(p.buffers) /\ Len(p.buffers) <= p.capacity
  BY DEF StorageInv, AllocTypeOK
<1>2. q = AddPool(p) /\ \A d \in Classes \ {c} : pools'[d] = pools[d]
  BY <1>1
<1>3. pointers'[c] = Append(pointers[c], pool) /\ \A d \in Classes \ {c} : pointers'[d] = pointers[d]
  BY <1>1
<1>4. n \in Nat
  BY PoolSizesAssumption
<1>5. pool \in Seq(Address)
  BY <1>1, <1>4 DEF Address
<1>6. /\ q \in [buffers : Seq(Nat), capacity : Nat, fresh : Nat]
      /\ q.buffers = Append(p.buffers, p.fresh) /\ q.fresh = p.fresh + 1
      /\ Len(q.buffers) = Len(p.buffers) + 1
  BY <1>1, <1>2 DEF AddPool, Larger
<1>7. Len(q.buffers) <= q.capacity /\ q.capacity > 0
  BY <1>1, <1>2 DEF AddPool, Larger, StorageInv, Room
<1>8. AllocTypeOK'
  <2>1. pools' \in [Classes -> [buffers : Seq(Nat), capacity : Nat, fresh : Nat]]
    BY <1>1, <1>2, <1>6
  <2>2. pointers' \in [Classes -> Seq(Seq(Address))] /\ Len(pointers'[c]) = Len(q.buffers)
    BY <1>1, <1>3, <1>5, <1>6
  <2>3. \A d \in Classes : /\ Len(pointers'[d]) = Len(pools'[d].buffers)
                           /\ Len(pools'[d].buffers) <= pools'[d].capacity
    BY <1>1, <1>2, <1>3, <1>7, <2>2 DEF StorageInv, AllocTypeOK
  <2> QED BY <2>1, <2>2, <2>3 DEF StorageInv, AllocTypeOK
<1>9. Room' /\ PointersStayWithinReserve'
  <2>1. storage' = storage /\ given' = given
    OBVIOUS
  <2>2. \A d \in Classes : pools'[d].capacity > 0
    BY <1>2, <1>7 DEF StorageInv, Room
  <2> QED BY <2>1, <2>2 DEF StorageInv, Room, PointersStayWithinReserve
<1>10. /\ Len(q.buffers) = Len(p.buffers) + 1 /\ q.buffers[Len(p.buffers) + 1] = p.fresh
       /\ \A k \in 1 .. Len(p.buffers) : q.buffers[k] = p.buffers[k]
       /\ \A k \in 1 .. Len(q.buffers) : q.buffers[k] < p.fresh + 1
       /\ \A k, l \in 1 .. Len(q.buffers) : q.buffers[k] = q.buffers[l] => k = l
  <2>1. p.buffers \in Seq(Nat) /\ p.fresh \in Nat
    BY <1>1
  <2>2. \A k \in 1 .. Len(p.buffers) : p.buffers[k] < p.fresh
    BY DEF StorageInv, Fresh
  <2>3. \A k, l \in 1 .. Len(p.buffers) : p.buffers[k] = p.buffers[l] => k = l
    BY DEF StorageInv, PoolPointersStay
  <2>4. q.buffers = Append(p.buffers, p.fresh)
    BY <1>6
  <2> DEFINE b == p.buffers
             f == p.fresh
             t == q.buffers
  <2>5. b \in Seq(Nat) /\ f \in Nat /\ t = Append(b, f)
    BY <2>1, <2>4
  <2>6. \A k \in 1 .. Len(b) : b[k] < f
    BY <2>2
  <2>7. \A k, l \in 1 .. Len(b) : b[k] = b[l] => k = l
    BY <2>3
  <2> HIDE DEF b, f, t
  <2>8. /\ Len(t) = Len(b) + 1 /\ t[Len(b) + 1] = f
        /\ \A k \in 1 .. Len(b) : t[k] = b[k]
        /\ \A k \in 1 .. Len(t) : t[k] < f + 1
        /\ \A k, l \in 1 .. Len(t) : t[k] = t[l] => k = l
    BY <2>5, <2>6, <2>7, FreshAppended
  <2> HIDE DEF p, q, NewPool
  <2> QED BY <2>8 DEF b, f, t
<1>12. Fresh'
  <2>1. \A k \in 1 .. Len(q.buffers) : q.buffers[k] < q.fresh
    <3> HIDE DEF p, q, NewPool
    <3> QED BY <1>6, <1>10
  <2> QED BY <2>1, <1>2 DEF StorageInv, Fresh
<1>13. PoolPointersStay'
  <2>3. /\ Len(pointers'[c]) = Len(pointers[c]) + 1
        /\ \A k \in 1 .. Len(pointers[c]) + 1 :
             \/ k \in 1 .. Len(pointers[c]) /\ pointers'[c][k] = pointers[c][k]
             \/ k = Len(pointers[c]) + 1 /\ pointers'[c][k] = pool
    <3> HIDE DEF pool
    <3>1. pointers[c] \in Seq(Seq(Address))
      BY <1>1
    <3>2. Len(pointers'[c]) = Len(pointers[c]) + 1
      BY <3>1, <1>3, <1>5
    <3> QED BY <3>1, <3>2, <1>3, <1>5, AppendedIndex
  <2>2. ASSUME NEW k \in 1 .. Len(pointers'[c]), NEW l \in 1 .. Len(pointers'[c][k])
        PROVE  pointers'[c][k][l] = [buffer |-> q.buffers[k], index |-> l]
    <3>1. CASE k \in 1 .. Len(pointers[c])
      <4>1. k \in 1 .. Len(p.buffers)
        BY <3>1, <1>1
      <4>2. q.buffers[k] = p.buffers[k]
        <5> HIDE DEF NewPool, p, q, pool
        <5> QED BY <4>1, <1>10
      <4>3. pointers'[c][k] = pointers[c][k]
        <5>1. Len(pointers[c]) \in Nat
          BY <1>1
        <5> HIDE DEF NewPool, p, q, pool
        <5> QED BY <5>1, <3>1, <2>3
      <4>4. \A i \in 1 .. Len(pointers[c]) : \A j \in 1 .. Len(pointers[c][i]) :
               pointers[c][i][j] = [buffer |-> p.buffers[i], index |-> j]
        BY DEF StorageInv, PoolPointersStay
      <4> HIDE DEF NewPool, p, q, pool
      <4> QED BY <4>2, <4>3, <4>4, <3>1
    <3>2. CASE k = Len(pointers[c]) + 1
      <4>1. pointers'[c][k] = pool /\ q.buffers[k] = p.fresh
        <5>1. Len(pointers[c]) = Len(p.buffers) /\ Len(p.buffers) \in Nat
          BY <1>1
        <5> HIDE DEF NewPool, p, q, pool
        <5> QED BY <5>1, <3>2, <2>3, <1>10
      <4>2. l \in 1 .. n
        BY <4>1, <1>4
      <4> QED BY <4>1, <4>2
    <3> QED BY <3>1, <3>2, <2>3
  <2>4. ASSUME NEW d \in Classes
        PROVE  /\ \A k \in 1 .. Len(pointers'[d]) : \A l \in 1 .. Len(pointers'[d][k]) :
                    pointers'[d][k][l] = [buffer |-> pools'[d].buffers[k], index |-> l]
               /\ \A k, l \in 1 .. Len(pools'[d].buffers) :
                    pools'[d].buffers[k] = pools'[d].buffers[l] => k = l
    <3>1. CASE d = c
      <4> HIDE DEF NewPool, p, pool
      <4>1. \A k \in 1 .. Len(pointers'[c]) : \A l \in 1 .. Len(pointers'[c][k]) :
               pointers'[c][k][l] = [buffer |-> q.buffers[k], index |-> l]
        BY <2>2
      <4>2. \A k, l \in 1 .. Len(q.buffers) : q.buffers[k] = q.buffers[l] => k = l
        BY <1>10
      <4> QED BY <4>1, <4>2, <3>1, Zenon
    <3>2. CASE d # c
      <4>1. pools'[d] = pools[d] /\ pointers'[d] = pointers[d]
        BY <3>2, <1>2, <1>3
      <4>2. /\ \A k \in 1 .. Len(pointers[d]) : \A l \in 1 .. Len(pointers[d][k]) :
                 pointers[d][k][l] = [buffer |-> pools[d].buffers[k], index |-> l]
            /\ \A k, l \in 1 .. Len(pools[d].buffers) :
                 pools[d].buffers[k] = pools[d].buffers[l] => k = l
        BY DEF StorageInv, PoolPointersStay
      <4> HIDE DEF NewPool
      <4> QED BY <4>1, <4>2
    <3> QED BY <3>1, <3>2
  <2> HIDE DEF NewPool, p, q
  <2> QED BY <2>4, Zenon DEF PoolPointersStay
<1> QED BY <1>8, <1>9, <1>12, <1>13 DEF StorageInv

\* What New and NewPool keep true of storages and pools.
THEOREM StorageInvariant == AllocSpec => []StorageInv
<1>1. StorageInv /\ [AllocNext]_allocVars => StorageInv'
  <2> SUFFICES ASSUME StorageInv, [AllocNext]_allocVars PROVE StorageInv'
    OBVIOUS
  <2>1. ASSUME NEW c \in Classes, New(c) PROVE StorageInv'
    BY <2>1, NewPreserves
  <2>2. ASSUME NEW c \in Classes, NEW n \in PoolSizes, NewPool(c, n) PROVE StorageInv'
    BY <2>2, NewPoolPreserves
  <2>3. CASE UNCHANGED allocVars
    <3>1. /\ storage' = storage /\ given' = given
          /\ pools' = pools /\ pointers' = pointers
      BY <2>3 DEF allocVars
    <3>2. PoolPointersStay'
      BY <3>1, PoolsUnchanged DEF StorageInv
    <3>3. AllocTypeOK' /\ Room' /\ Fresh'
      BY <3>1, Zenon DEF StorageInv, AllocTypeOK, Room, Fresh
    <3>4. PointersStayWithinReserve'
      BY <3>1, Zenon DEF StorageInv, PointersStayWithinReserve
    <3> QED BY <3>2, <3>3, <3>4 DEF StorageInv
  <2> QED BY <2>1, <2>2, <2>3 DEF AllocNext
<1> QED BY <1>1, AllocInitEstablishes, PTL DEF AllocSpec

\* The storages keep their types; in particular none holds more than it has room for.
THEOREM AllocTypeCorrect == AllocSpec => []AllocTypeOK
<1>1. StorageInv => AllocTypeOK
  BY DEF StorageInv
<1> QED BY <1>1, StorageInvariant, PTL

\* No pointer New has answered dangles before its class has outgrown the reserve.
THEOREM PointersStay == AllocSpec => []PointersStayWithinReserve
<1>1. StorageInv => PointersStayWithinReserve
  BY DEF StorageInv
<1> QED BY <1>1, StorageInvariant, PTL

\* Pointers into pools never dangle, and pools do not overlap.
THEOREM PoolPointersStayForEver == AllocSpec => []PoolPointersStay
<1>1. StorageInv => PoolPointersStay
  BY DEF StorageInv
<1> QED BY <1>1, StorageInvariant, PTL

-----------------------------------------------------------------------------
(***************************************************************************)
(* InstrList.  First the walk: from the first instruction of a linked list *)
(* Follow meets the list.                                                  *)
(***************************************************************************)
Ends == Instrs \cup {Null}

\* One step of a walk, if w is what walks with fewer steps meet.
Met(w, link, n, j) == IF n = 0 \/ j = Null THEN << >> ELSE <<j>> \o w[n - 1][link[j]]

\* The recursion of Follow is well-founded.
LEMMA WalkExists ==
  ASSUME NEW N \in Nat, NEW link \in [Instrs -> Ends]
  PROVE  \E w : w = [n \in 0 .. N |-> [j \in Ends |-> Met(w, link, n, j)]]
<1> DEFINE Walk(w, N0) == w = [n \in 0 .. N0 |-> [j \in Ends |-> Met(w, link, n, j)]]
           F == {n \in Nat : ~ \E w : Walk(w, n)}
<1>1. SUFFICES ASSUME F # {} PROVE FALSE
  OBVIOUS
<1>2. PICK m \in F : \A k \in F : m <= k
  BY <1>1, R!LeastNatural
<1>3. CASE m = 0
  <2> DEFINE w == [n \in 0 .. 0 |-> [j \in Ends |-> << >>]]
  <2>1. \A n \in 0 .. 0, j \in Ends : Met(w, link, n, j) = << >>
    BY DEF Met
  <2>2. w = [n \in 0 .. 0 |-> [j \in Ends |-> Met(w, link, n, j)]]
    BY <2>1
  <2> QED BY <2>2, <1>2, <1>3
<1>4. CASE m # 0
  <2>1. m - 1 \in Nat /\ m - 1 \notin F
    BY <1>2, <1>4
  <2>2. PICK w : w = [n \in 0 .. m - 1 |-> [j \in Ends |-> Met(w, link, n, j)]]
    BY <2>1
  <2> DEFINE v == [n \in 0 .. m |-> [j \in Ends |-> Met(w, link, n, j)]]
  <2>3. ASSUME NEW n \in 0 .. m - 1, NEW j \in Ends PROVE v[n][j] = w[n][j]
    <3>1. n \in 0 .. m
      BY <1>2
    <3>2. v[n][j] = Met(w, link, n, j)
      BY <3>1
    <3>3. w[n][j] = Met(w, link, n, j)
      <4> DEFINE u == [k \in 0 .. m - 1 |-> [i \in Ends |-> Met(w, link, k, i)]]
      <4>1. u[n][j] = Met(w, link, n, j)
        OBVIOUS
      <4>2. w = u
        BY <2>2
      <4> HIDE DEF u, v
      <4> QED BY <4>1, <4>2
    <3> QED BY <3>2, <3>3
  <2>4. ASSUME NEW n \in 0 .. m, NEW j \in Ends PROVE Met(w, link, n, j) = Met(v, link, n, j)
    <3>1. CASE n = 0 \/ j = Null
      BY <3>1 DEF Met
    <3>2. CASE ~(n = 0 \/ j = Null)
      <4>1. n - 1 \in 0 .. m - 1 /\ link[j] \in Ends
        BY <3>2, <1>2 DEF Ends
      <4> HIDE DEF v
      <4> QED BY <4>1, <2>3 DEF Met
    <3> QED BY <3>1, <3>2
  <2>5. v = [n \in 0 .. m |-> [j \in Ends |-> Met(v, link, n, j)]]
    <3> DEFINE u == [n \in 0 .. m |-> [j \in Ends |-> Met(v, link, n, j)]]
    <3> HIDE DEF v
    <3>1. v = u
      BY <2>4 DEF v
    <3> QED BY <3>1
  <2> HIDE DEF v
  <2> QED BY <2>5, <1>2
<1> QED BY <1>3, <1>4

\* Follow is the recursion with enough steps.
LEMMA FollowUnfolds ==
  ASSUME NEW link \in [Instrs -> Ends]
  PROVE  \E w : /\ \A n \in 0 .. Cardinality(Instrs) + 1, j \in Ends : w[n][j] = Met(w, link, n, j)
                /\ \A i : Follow(link, i) = w[Cardinality(Instrs) + 1][i]
<1> DEFINE N == Cardinality(Instrs) + 1
           W == CHOOSE w : w = [n \in 0 .. N |-> [j \in Ends |-> Met(w, link, n, j)]]
<1>1. N \in Nat
  BY InstrsAssumption, FS_CardinalityType
<1>2. \A i : Follow(link, i) = W[N][i]
  BY DEF Follow, Met, Ends
<1> HIDE DEF N
<1>3. W = [n \in 0 .. N |-> [j \in Ends |-> Met(W, link, n, j)]]
  <2> DEFINE Walk(w) == w = [n \in 0 .. N |-> [j \in Ends |-> Met(w, link, n, j)]]
  <2>1. \E w : Walk(w)
    BY <1>1, WalkExists
  <2>2. W = CHOOSE w : Walk(w)
    OBVIOUS
  <2> HIDE DEF Walk, W
  <2>3. Walk(W)
    BY <2>1, <2>2, Zenon
  <2> QED BY <2>3 DEF Walk
<1> HIDE DEF W
<1>4. \A n \in 0 .. N, j \in Ends : W[n][j] = Met(W, link, n, j)
  <2> DEFINE u == [n \in 0 .. N |-> [j \in Ends |-> Met(W, link, n, j)]]
  <2>1. \A n \in 0 .. N, j \in Ends : u[n][j] = Met(W, link, n, j)
    OBVIOUS
  <2>2. W = u
    BY <1>3
  <2> HIDE DEF u
  <2> QED BY <2>1, <2>2
<1> QED BY <1>2, <1>4 DEF N

\* A list of instructions without repetitions, linked by link, that ends.
Chain(link, q) == /\ q \in Seq(Instrs) /\ IsInjective(q)
                  /\ \A k \in 1 .. Len(q) - 1 : link[q[k]] = q[k + 1]
                  /\ q # << >> => link[q[Len(q)]] = Null

\* No list is longer than there are instructions.
LEMMA InjectiveLength ==
  ASSUME NEW q \in Seq(Instrs), IsInjective(q)
  PROVE  Len(q) <= Cardinality(Instrs)
<1>1. /\ IsFiniteSet(1 .. Len(q)) /\ Cardinality(1 .. Len(q)) = Len(q)
  <2> DEFINE n == Len(q)
  <2>1. n \in Nat
    OBVIOUS
  <2> HIDE DEF n
  <2>2. 1 \in Int /\ n \in Int
    BY <2>1
  <2>3. IsFiniteSet(1 .. n) /\ Cardinality(1 .. n) = IF 1 > n THEN 0 ELSE n - 1 + 1
    BY <2>2, FS_Interval, Zenon
  <2>4. Cardinality(1 .. n) = n
    BY <2>1, <2>3
  <2> QED BY <2>3, <2>4 DEF n
<1>2. q \in Injection(1 .. Len(q), Instrs)
  <2>1. q \in [1 .. Len(q) -> Instrs]
    OBVIOUS
  <2> QED BY <2>1 DEF Injection
<1> QED BY <1>1, <1>2, InstrsAssumption, FS_Injection

Suffix(q, d) == [j \in 1 .. d |-> q[Len(q) - d + j]]

LEMMA LongerSuffix ==
  ASSUME NEW S, NEW q \in Seq(S), NEW d \in 1 .. Len(q)
  PROVE  <<q[Len(q) - d + 1]>> \o Suffix(q, d - 1) = Suffix(q, d)
<1> DEFINE s == Suffix(q, d - 1)
           t == Suffix(q, d)
           x == q[Len(q) - d + 1]
<1>1. s \in Seq(S) /\ Len(s) = d - 1 /\ \A j \in 1 .. d - 1 : s[j] = q[Len(q) - d + 1 + j]
  BY DEF Suffix
<1>2. t \in Seq(S) /\ Len(t) = d /\ \A j \in 1 .. d : t[j] = q[Len(q) - d + j]
  BY DEF Suffix
<1>3. x \in S
  OBVIOUS
<1> HIDE DEF s, t
<1>4. <<x>> \o s \in Seq(S) /\ Len(<<x>> \o s) = d
  BY <1>1, <1>3
<1>5. \A j \in 1 .. d : (<<x>> \o s)[j] = t[j]
  <2>1. ASSUME NEW j \in 2 .. d PROVE (<<x>> \o s)[j] = s[j - 1] /\ j - 1 \in 1 .. d - 1
    <3> HIDE DEF x
    <3> QED BY <1>1, <1>3
  <2>2. (<<x>> \o s)[1] = x
    BY <1>1, <1>3
  <2>3. ASSUME NEW j \in 2 .. d PROVE s[j - 1] = t[j]
    <3>1. j - 1 \in 1 .. d - 1 /\ j \in 1 .. d
      BY <2>1
    <3>2. Len(q) - d + 1 + (j - 1) = Len(q) - d + j
      OBVIOUS
    <3>3. s[j - 1] = q[Len(q) - d + 1 + (j - 1)]
      BY <1>1, <3>1
    <3>4. t[j] = q[Len(q) - d + j]
      BY <1>2, <3>1
    <3> QED BY <3>2, <3>3, <3>4
  <2>4. t[1] = x
    BY <1>2
  <2>5. \A j \in 1 .. d : j = 1 \/ j \in 2 .. d
    OBVIOUS
  <2> HIDE DEF x
  <2> QED BY <2>1, <2>2, <2>3, <2>4, <2>5
<1>6. <<x>> \o s = t
  BY <1>2, <1>4, <1>5, SeqEqual
<1> QED BY <1>6 DEF s, t

\* From the first of a chain the walk meets the chain.
LEMMA FollowIs ==
  ASSUME NEW link \in [Instrs -> Ends], NEW q, Chain(link, q)
  PROVE  Follow(link, IF q = << >> THEN Null ELSE q[1]) = q
<1> DEFINE n == Cardinality(Instrs) + 1
           node(d) == IF d = 0 THEN Null ELSE q[Len(q) - d + 1]
<1>1. q \in Seq(Instrs) /\ Len(q) \in Nat /\ n \in Nat /\ Len(q) < n
  <2>1. q \in Seq(Instrs) /\ IsInjective(q)
    BY DEF Chain
  <2>2. Len(q) <= Cardinality(Instrs) /\ Cardinality(Instrs) \in Nat
    BY <2>1, InstrsAssumption, FS_CardinalityType, InjectiveLength
  <2> QED BY <2>1, <2>2
<1>2. PICK w : /\ \A k \in 0 .. n, j \in Ends : w[k][j] = Met(w, link, k, j)
               /\ \A i : Follow(link, i) = w[n][i]
  BY FollowUnfolds
<1> HIDE DEF n
<1> DEFINE F == {d \in 0 .. Len(q) : \E k \in d .. n : w[k][node(d)] # Suffix(q, d)}
<1>3. ASSUME F # {} PROVE FALSE
  <2>1. PICK d \in F : \A e \in F : d <= e
    <3>1. F \in SUBSET Nat
      OBVIOUS
    <3> HIDE DEF F
    <3> QED BY <3>1, <1>3, R!LeastNatural
  <2>2. PICK k \in d .. n : w[k][node(d)] # Suffix(q, d)
    BY <2>1
  <2>3. d \in 0 .. Len(q) /\ k \in 0 .. n
    BY <1>1, <2>1, <2>2
  <2>4. CASE d = 0
    <3>1. w[k][Null] = Met(w, link, k, Null)
      BY <1>2, <2>3 DEF Ends
    <3>2. w[k][Null] = << >>
      BY <3>1 DEF Met
    <3>3. Suffix(q, 0) = << >>
      BY DEF Suffix
    <3> QED BY <3>2, <3>3, <2>2, <2>4
  <2>5. CASE d # 0
    <3> DEFINE x == q[Len(q) - d + 1]
    <3>1. x \in Instrs /\ x \in Ends /\ x # Null
      BY <1>1, <2>3, <2>5, PointersAssumption DEF Ends
    <3>2. link[x] = node(d - 1)
      BY <1>1, <2>3, <2>5 DEF Chain
    <3>3. d - 1 \in 0 .. Len(q) /\ d - 1 \notin F
      BY <1>1, <2>1, <2>3, <2>5, SMTT(30)
    <3>4. k - 1 \in (d - 1) .. n /\ k # 0
      BY <1>1, <2>2, <2>3, <2>5
    <3>5. w[k - 1][node(d - 1)] = Suffix(q, d - 1)
      BY <3>3, <3>4
    <3>6. w[k][x] = <<x>> \o w[k - 1][link[x]]
      BY <1>2, <2>3, <3>1, <3>4 DEF Met
    <3>7. w[k][x] = Suffix(q, d)
      <4>1. d \in 1 .. Len(q)
        BY <1>1, <2>3, <2>5
      <4>2. <<x>> \o Suffix(q, d - 1) = Suffix(q, d)
        BY <4>1, <1>1, LongerSuffix
      <4> HIDE DEF x, F
      <4> QED BY <4>2, <3>2, <3>5, <3>6
    <3> QED BY <3>7, <2>2, <2>5
  <2> QED BY <2>4, <2>5
<1>4. w[n][node(Len(q))] = Suffix(q, Len(q))
  <2>1. Len(q) \in 0 .. Len(q) /\ Len(q) \notin F /\ n \in Len(q) .. n
    BY <1>1, <1>3
  <2> QED BY <2>1
<1>5. Suffix(q, Len(q)) = q
  BY <1>1 DEF Suffix
<1>6. node(Len(q)) = IF q = << >> THEN Null ELSE q[1]
  BY <1>1
<1> QED BY <1>2, <1>4, <1>5, <1>6

-----------------------------------------------------------------------------
(***************************************************************************)
(* The lists the pointers describe.                                        *)
(***************************************************************************)
PointerTypes == /\ first \in [Blocks -> Ends] /\ last \in [Blocks -> Ends]
                /\ prev \in [Instrs -> Ends] /\ next \in [Instrs -> Ends]
                /\ bb \in [Instrs -> Blocks \cup {Gone, Null}]

\* s is the list of b, by each of its pointers.
ListOf(b, s) ==
  /\ s \in Seq(Instrs) /\ IsInjective(s)
  /\ first[b] = IF s = << >> THEN Null ELSE s[1]
  /\ last[b] = IF s = << >> THEN Null ELSE s[Len(s)]
  /\ \A k \in 1 .. Len(s) - 1 : next[s[k]] = s[k + 1] /\ prev[s[k + 1]] = s[k]
  /\ s # << >> => prev[s[1]] = Null /\ next[s[Len(s)]] = Null
  /\ \A k \in 1 .. Len(s) : bb[s[k]] \in {b, Gone}

In(s, i) == \E k \in 1 .. Len(s) : s[k] = i
Apart(L) == \A b, c \in Blocks : b # c => \A i \in Instrs : ~ (In(L[b], i) /\ In(L[c], i))
ListsAre(L) == (\A b \in Blocks : ListOf(b, L[b])) /\ Apart(L)

LinkInv == PointerTypes /\ \E L \in [Blocks -> Seq(Instrs)] : ListsAre(L)

\* A list is met from both ends.
LEMMA ListMet ==
  ASSUME PointerTypes, NEW b \in Blocks, NEW s, ListOf(b, s)
  PROVE  GetAllInstrs(b) = s
<1>1. Chain(next, s) /\ first[b] = IF s = << >> THEN Null ELSE s[1]
  BY DEF ListOf, Chain
<1> QED BY <1>1, FollowIs DEF GetAllInstrs, PointerTypes

Backwards(s, m) == [k \in 1 .. m |-> s[m - k + 1]]

\* From the instruction at m, the walk along prev_ meets those up to m backwards.
LEMMA MetBackwards ==
  ASSUME PointerTypes, NEW b \in Blocks, NEW s, ListOf(b, s), NEW m \in 0 .. Len(s)
  PROVE  Follow(prev, IF m = 0 THEN Null ELSE s[m]) = Backwards(s, m)
<1> DEFINE q == [k \in 1 .. m |-> s[m - k + 1]]
<1>1. /\ s \in Seq(Instrs) /\ IsInjective(s) /\ m \in Nat
      /\ \A k \in 1 .. Len(s) - 1 : prev[s[k + 1]] = s[k]
      /\ s # << >> => prev[s[1]] = Null
  BY DEF ListOf
<1>2. \A k, l \in 1 .. Len(s) : s[k] = s[l] => k = l
  BY <1>1 DEF IsInjective
<1>3. \A k \in 1 .. m : m - k + 1 \in 1 .. Len(s) /\ s[m - k + 1] \in Instrs
  BY <1>1
<1>11. q \in Seq(Instrs) /\ Len(q) = m /\ \A k \in 1 .. m : q[k] = s[m - k + 1]
  BY <1>1, <1>3
<1> HIDE DEF q
<1>4. IsInjective(q)
  <2> SUFFICES ASSUME NEW k \in 1 .. m, NEW l \in 1 .. m, q[k] = q[l] PROVE k = l
    BY <1>11 DEF IsInjective
  <2>1. s[m - k + 1] = s[m - l + 1]
    BY <1>11
  <2>2. m - k + 1 = m - l + 1
    BY <2>1, <1>2, <1>3
  <2> QED BY <2>2, <1>1
<1>5. ASSUME NEW k \in 1 .. m - 1 PROVE prev[q[k]] = q[k + 1]
  <2>1. m - k \in 1 .. Len(s) - 1 /\ k \in 1 .. m /\ k + 1 \in 1 .. m
        /\ m - (k + 1) + 1 = m - k /\ m - k + 1 = (m - k) + 1
    BY <1>1
  <2> DEFINE j == m - k
  <2>2. j \in 1 .. Len(s) - 1
    BY <2>1
  <2>3. q[k] = s[j + 1] /\ q[k + 1] = s[j]
    BY <1>11, <2>1
  <2> HIDE DEF j
  <2>4. prev[s[j + 1]] = s[j]
    BY <1>1, <2>2
  <2> QED BY <2>3, <2>4
<1>6. ASSUME m # 0 PROVE prev[q[m]] = Null /\ q[1] = s[m] /\ q # << >>
  <2>1. m \in 1 .. m /\ 1 \in 1 .. m /\ m - m + 1 = 1 /\ m - 1 + 1 = m /\ s # << >>
    BY <1>1, <1>6
  <2>2. q[1] = s[m] /\ q[m] = s[1]
    BY <2>1, <1>11
  <2> QED BY <2>1, <2>2, <1>1, <1>11
<1>7. m = 0 => q = << >>
  BY <1>11
<1>8. Chain(prev, q)
  BY <1>11, <1>4, <1>5, <1>6, <1>7 DEF Chain
<1>9. (IF m = 0 THEN Null ELSE s[m]) = IF q = << >> THEN Null ELSE q[1]
  BY <1>6, <1>7
<1>10. Follow(prev, IF q = << >> THEN Null ELSE q[1]) = q
  BY <1>8, FollowIs DEF PointerTypes
<1> QED BY <1>9, <1>10 DEF q, Backwards

LEMMA InvIsChainsAgree == LinkInv => ChainsAgree /\ BbNeverAnotherBlock
<1> SUFFICES ASSUME LinkInv PROVE ChainsAgree /\ BbNeverAnotherBlock
  OBVIOUS
<1>1. PICK L \in [Blocks -> Seq(Instrs)] : ListsAre(L)
  BY DEF LinkInv
<1>2. PointerTypes
  BY DEF LinkInv
<1>3. \A b \in Blocks : ListOf(b, L[b]) /\ GetAllInstrs(b) = L[b] /\ L[b] \in Seq(Instrs)
  BY <1>1, <1>2, ListMet DEF ListsAre
<1>4. ASSUME NEW b \in Blocks PROVE Follow(prev, last[b]) = Reverse(GetAllInstrs(b))
  <2> DEFINE s == L[b]
             m == Len(s)
  <2>1. s \in Seq(Instrs) /\ m \in 0 .. Len(s) /\ (s = << >> <=> m = 0)
    BY <1>3
  <2>2. last[b] = IF m = 0 THEN Null ELSE s[m]
    BY <1>3, <2>1 DEF ListOf
  <2>3. Follow(prev, IF m = 0 THEN Null ELSE s[m]) = Backwards(s, m)
    BY <1>2, <1>3, <2>1, MetBackwards
  <2>4. Backwards(s, m) = Reverse(s)
    BY DEF Reverse, Backwards
  <2> QED BY <2>2, <2>3, <2>4, <1>3
<1>5. ASSUME NEW b \in Blocks, NEW m \in DOMAIN L[b], NEW n \in DOMAIN L[b]
      PROVE  IsNextTo(L[b][m], L[b][n]) <=> n <= m
  <2> DEFINE s == L[b]
             q == Backwards(s, m)
  <2>1. s \in Seq(Instrs) /\ m \in 1 .. Len(s) /\ n \in 1 .. Len(s) /\ m \in Nat /\ n \in Nat
        /\ \A k, l \in 1 .. Len(s) : s[k] = s[l] => k = l
    <3>1. s \in Seq(Instrs) /\ IsInjective(s)
      BY <1>3 DEF ListOf
    <3> QED BY <3>1 DEF IsInjective
  <2>2. Follow(prev, s[m]) = q
    <3>1. m \in 0 .. Len(s) /\ m # 0
      BY <2>1
    <3>2. Follow(prev, IF m = 0 THEN Null ELSE s[m]) = Backwards(s, m)
      <4>1. ListOf(b, s)
        BY <1>3
      <4> HIDE DEF s
      <4> QED BY <4>1, <3>1, <1>2, MetBackwards
    <3> QED BY <3>1, <3>2
  <2>3. Len(q) = m /\ \A k \in 1 .. m : q[k] = s[m - k + 1]
    BY <2>1 DEF Backwards
  <2> HIDE DEF q
  <2>4. ASSUME n <= m PROVE \E k \in 1 .. m : q[k] = s[n]
    <3>1. m - n + 1 \in 1 .. m /\ m - (m - n + 1) + 1 = n
      BY <2>1, <2>4
    <3> QED BY <3>1, <2>3
  <2>5. ASSUME NEW k \in 1 .. m, q[k] = s[n] PROVE n <= m
    <3>1. m - k + 1 \in 1 .. Len(s) /\ m - k + 1 <= m
      BY <2>1
    <3>2. m - k + 1 = n
      <4>1. s[m - k + 1] = s[n]
        BY <2>3, <2>5
      <4> HIDE DEF s
      <4> QED BY <4>1, <3>1, <2>1
    <3> QED BY <3>1, <3>2
  <2>6. IsNextTo(s[m], s[n]) <=> \E k \in 1 .. m : q[k] = s[n]
    BY <2>2, <2>3 DEF IsNextTo, Contains
  <2> QED BY <2>4, <2>5, <2>6
<1>6. ASSUME NEW b \in Blocks, NEW c \in Blocks, b # c
      PROVE  ToSet(GetAllInstrs(b)) \cap ToSet(GetAllInstrs(c)) = {}
  <2>1. \A i \in ToSet(L[b]) : i \in Instrs /\ In(L[b], i)
    BY <1>3 DEF ToSet, In
  <2>2. \A i \in ToSet(L[c]) : In(L[c], i)
    BY <1>3 DEF ToSet, In
  <2> QED BY <2>1, <2>2, <1>1, <1>3, <1>6 DEF ListsAre, Apart
<1>7. ASSUME NEW b \in Blocks, NEW i \in ToSet(GetAllInstrs(b)) PROVE bb[i] \in {b, Gone}
  <2>1. i \in ToSet(L[b])
    BY <1>3
  <2>2. PICK k \in 1 .. Len(L[b]) : i = L[b][k]
    BY <1>3, <2>1 DEF ToSet
  <2> QED BY <2>2, <1>3 DEF ListOf
<1>8. BbNeverAnotherBlock
  BY <1>7 DEF BbNeverAnotherBlock
<1>9. \A b \in Blocks : \A m, n \in DOMAIN GetAllInstrs(b) :
        IsNextTo(GetAllInstrs(b)[m], GetAllInstrs(b)[n]) <=> n <= m
  BY <1>3, <1>5
<1> QED BY <1>4, <1>6, <1>8, <1>9 DEF ChainsAgree

-----------------------------------------------------------------------------
(***************************************************************************)
(* What taking an instruction out or putting one in makes of a list.       *)
(***************************************************************************)
LEMMA RemovedAt ==
  ASSUME NEW S, NEW s \in Seq(S), NEW k \in 1 .. Len(s)
  PROVE  /\ RemoveAt(s, k) \in Seq(S) /\ Len(RemoveAt(s, k)) = Len(s) - 1
         /\ \A j \in 1 .. Len(s) - 1 : RemoveAt(s, k)[j] = IF j < k THEN s[j] ELSE s[j + 1]
<1> DEFINE a == SubSeq(s, 1, k - 1)
           c == SubSeq(s, k + 1, Len(s))
<1>1. a \in Seq(S) /\ Len(a) = k - 1 /\ \A j \in 1 .. k - 1 : a[j] = s[j]
  OBVIOUS
<1>2. c \in Seq(S) /\ Len(c) = Len(s) - k /\ \A j \in 1 .. Len(s) - k : c[j] = s[k + j]
  OBVIOUS
<1>3. RemoveAt(s, k) = a \o c
  BY DEF RemoveAt
<1> HIDE DEF a, c
<1>4. a \o c \in Seq(S) /\ Len(a \o c) = Len(s) - 1
  <2>1. a \o c \in Seq(S) /\ Len(a \o c) = Len(a) + Len(c)
    BY <1>1, <1>2, ConcatProperties
  <2> QED BY <2>1, <1>1, <1>2
<1>5. ASSUME NEW j \in 1 .. Len(s) - 1 PROVE (a \o c)[j] = IF j < k THEN s[j] ELSE s[j + 1]
  <2>1. (a \o c)[j] = IF j <= k - 1 THEN a[j] ELSE c[j - (k - 1)]
    BY <1>1, <1>2, ConcatProperties
  <2>2. CASE j < k
    BY <2>1, <2>2, <1>1
  <2>3. CASE ~ (j < k)
    <3>1. j - (k - 1) \in 1 .. Len(s) - k /\ k + (j - (k - 1)) = j + 1 /\ ~ (j <= k - 1)
      BY <2>3
    <3>2. c[j - (k - 1)] = s[k + (j - (k - 1))]
      BY <1>2, <3>1
    <3> QED BY <2>1, <2>3, <3>1, <3>2
  <2> QED BY <2>2, <2>3
<1> QED BY <1>3, <1>4, <1>5

LEMMA InsertedAt ==
  ASSUME NEW S, NEW s \in Seq(S), NEW k \in 1 .. Len(s) + 1, NEW i \in S
  PROVE  /\ InsertAt(s, k, i) \in Seq(S) /\ Len(InsertAt(s, k, i)) = Len(s) + 1
         /\ \A j \in 1 .. Len(s) + 1 : InsertAt(s, k, i)[j] = IF j < k THEN s[j]
                                                             ELSE IF j = k THEN i ELSE s[j - 1]
<1> DEFINE a == SubSeq(s, 1, k - 1)
           c == SubSeq(s, k, Len(s))
           d == a \o <<i>>
<1>1. a \in Seq(S) /\ Len(a) = k - 1 /\ \A j \in 1 .. k - 1 : a[j] = s[j]
  OBVIOUS
<1>2. c \in Seq(S) /\ Len(c) = Len(s) - k + 1 /\ \A j \in 1 .. Len(s) - k + 1 : c[j] = s[k + j - 1]
  OBVIOUS
<1>3. InsertAt(s, k, i) = d \o c
  BY DEF InsertAt
<1>4. d \in Seq(S) /\ Len(d) = k /\ \A j \in 1 .. k : d[j] = IF j < k THEN s[j] ELSE i
  <2> DEFINE e == <<i>>
  <2>1. e \in Seq(S) /\ Len(e) = 1 /\ e[1] = i
    OBVIOUS
  <2> HIDE DEF a, c, e
  <2>2. d \in Seq(S) /\ Len(d) = Len(a) + Len(e)
    BY <1>1, <2>1, ConcatProperties DEF e
  <2>3. ASSUME NEW j \in 1 .. k PROVE d[j] = IF j < k THEN s[j] ELSE i
    <3>1. d[j] = IF j <= k - 1 THEN a[j] ELSE e[j - (k - 1)]
      BY <1>1, <2>1, ConcatProperties DEF e
    <3>2. CASE j < k
      BY <3>1, <3>2, <1>1
    <3>3. CASE j = k
      <4>1. j - (k - 1) = 1 /\ ~ (j <= k - 1) /\ ~ (j < k)
        BY <3>3
      <4> HIDE DEF d
      <4> QED BY <4>1, <3>1, <2>1
    <3>4. j < k \/ j = k
      OBVIOUS
    <3> HIDE DEF d
    <3> QED BY <3>2, <3>3, <3>4
  <2> HIDE DEF d
  <2> QED BY <1>1, <2>1, <2>2, <2>3
<1> HIDE DEF a, c, d
<1>5. d \o c \in Seq(S) /\ Len(d \o c) = Len(s) + 1
  <2>1. d \o c \in Seq(S) /\ Len(d \o c) = Len(d) + Len(c)
    BY <1>4, <1>2, ConcatProperties
  <2> QED BY <2>1, <1>2, <1>4
<1>6. ASSUME NEW j \in 1 .. Len(s) + 1
      PROVE  (d \o c)[j] = IF j < k THEN s[j] ELSE IF j = k THEN i ELSE s[j - 1]
  <2>1. (d \o c)[j] = IF j <= k THEN d[j] ELSE c[j - k]
    BY <1>4, <1>2, ConcatProperties
  <2>2. CASE j <= k
    BY <2>1, <2>2, <1>4
  <2>3. CASE ~ (j <= k)
    <3>1. j - k \in 1 .. Len(s) - k + 1 /\ k + (j - k) - 1 = j - 1
      BY <2>3
    <3>2. c[j - k] = s[k + (j - k) - 1]
      BY <1>2, <3>1
    <3> QED BY <2>1, <2>3, <3>1, <3>2
  <2> QED BY <2>2, <2>3
<1> QED BY <1>3, <1>5, <1>6

\* ListOf in a form without conditionals.
LEMMA ListFacts ==
  ASSUME NEW b \in Blocks, NEW s, ListOf(b, s)
  PROVE  /\ s \in Seq(Instrs) /\ Len(s) \in Nat /\ \A k \in 1 .. Len(s) : s[k] \in Instrs
         /\ \A k, l \in 1 .. Len(s) : s[k] = s[l] => k = l
         /\ \A k \in 1 .. Len(s) : bb[s[k]] \in {b, Gone}
         /\ Len(s) = 0 => first[b] = Null /\ last[b] = Null
         /\ Len(s) > 0 => /\ first[b] = s[1] /\ last[b] = s[Len(s)]
                          /\ prev[s[1]] = Null /\ next[s[Len(s)]] = Null
         /\ \A k \in 1 .. Len(s) : k < Len(s) => next[s[k]] = s[k + 1]
         /\ \A k \in 1 .. Len(s) : k > 1 => prev[s[k]] = s[k - 1]
<1>1. s \in Seq(Instrs) /\ IsInjective(s)
  BY DEF ListOf
<1>2. Len(s) \in Nat /\ (s = << >> <=> Len(s) = 0) /\ \A k \in 1 .. Len(s) : s[k] \in Instrs
  BY <1>1
<1>3. \A k, l \in 1 .. Len(s) : s[k] = s[l] => k = l
  BY <1>1 DEF IsInjective
<1>4. ASSUME NEW k \in 1 .. Len(s), k > 1 PROVE prev[s[k]] = s[k - 1]
  <2> DEFINE j == k - 1
  <2>1. j \in 1 .. Len(s) - 1 /\ k = j + 1
    BY <1>2, <1>4
  <2> HIDE DEF j
  <2>2. prev[s[j + 1]] = s[j]
    BY <2>1 DEF ListOf
  <2> QED BY <2>1, <2>2 DEF j
<1>5. ASSUME NEW k \in 1 .. Len(s), k < Len(s) PROVE next[s[k]] = s[k + 1]
  <2>1. k \in 1 .. Len(s) - 1
    BY <1>2, <1>5
  <2> QED BY <2>1 DEF ListOf
<1> QED BY <1>1, <1>2, <1>3, <1>4, <1>5 DEF ListOf

\* The converse, of the next state.
LEMMA FactsMakeList ==
  ASSUME NEW b \in Blocks, NEW s \in Seq(Instrs),
         \A k, l \in 1 .. Len(s) : s[k] = s[l] => k = l,
         \A k \in 1 .. Len(s) : bb'[s[k]] \in {b, Gone},
         Len(s) = 0 => first'[b] = Null /\ last'[b] = Null,
         Len(s) > 0 => /\ first'[b] = s[1] /\ last'[b] = s[Len(s)]
                       /\ prev'[s[1]] = Null /\ next'[s[Len(s)]] = Null,
         \A k \in 1 .. Len(s) : k < Len(s) => next'[s[k]] = s[k + 1],
         \A k \in 1 .. Len(s) : k > 1 => prev'[s[k]] = s[k - 1]
  PROVE  ListOf(b, s)'
<1>1. Len(s) \in Nat /\ (s = << >> <=> Len(s) = 0)
  OBVIOUS
<1>2. IsInjective(s)
  BY DEF IsInjective
<1>3. ASSUME NEW k \in 1 .. Len(s) - 1 PROVE next'[s[k]] = s[k + 1] /\ prev'[s[k + 1]] = s[k]
  <2> DEFINE j == k + 1
  <2>1. k \in 1 .. Len(s) /\ k < Len(s) /\ j \in 1 .. Len(s) /\ j > 1 /\ j - 1 = k
    BY <1>1
  <2> HIDE DEF j
  <2>2. prev'[s[j]] = s[j - 1]
    BY <2>1
  <2>3. prev'[s[j]] = s[k] /\ next'[s[k]] = s[k + 1]
    BY <2>1, <2>2
  <2> QED BY <2>3 DEF j
<1> QED BY <1>1, <1>2, <1>3 DEF ListOf

\* A list none of whose pointers is written stays.
LEMMA KeptList ==
  ASSUME NEW c \in Blocks, NEW s, ListOf(c, s),
         first'[c] = first[c], last'[c] = last[c],
         \A k \in 1 .. Len(s) : /\ next'[s[k]] = next[s[k]] /\ prev'[s[k]] = prev[s[k]]
                                /\ bb'[s[k]] = bb[s[k]]
  PROVE  ListOf(c, s)'
<1>1. /\ s \in Seq(Instrs) /\ Len(s) \in Nat
      /\ \A k, l \in 1 .. Len(s) : s[k] = s[l] => k = l
      /\ \A k \in 1 .. Len(s) : bb[s[k]] \in {c, Gone}
      /\ Len(s) = 0 => first[c] = Null /\ last[c] = Null
      /\ Len(s) > 0 => /\ first[c] = s[1] /\ last[c] = s[Len(s)]
                       /\ prev[s[1]] = Null /\ next[s[Len(s)]] = Null
      /\ \A k \in 1 .. Len(s) : k < Len(s) => next[s[k]] = s[k + 1]
      /\ \A k \in 1 .. Len(s) : k > 1 => prev[s[k]] = s[k - 1]
  BY ListFacts
<1>2. Len(s) > 0 => 1 \in 1 .. Len(s) /\ Len(s) \in 1 .. Len(s)
  BY <1>1
<1>3. Len(s) > 0 => /\ first'[c] = s[1] /\ last'[c] = s[Len(s)]
                    /\ prev'[s[1]] = Null /\ next'[s[Len(s)]] = Null
  BY <1>1, <1>2
<1> QED BY <1>1, <1>3, FactsMakeList

\* The instruction at k is taken out by writing the pointers next to it.
LEMMA RemovedList ==
  ASSUME NEW b \in Blocks, NEW s, ListOf(b, s), NEW k \in 1 .. Len(s), Len(s) > 1,
         first'[b] = IF k = 1 THEN s[2] ELSE first[b],
         last'[b] = IF k = Len(s) THEN s[Len(s) - 1] ELSE last[b],
         \A j \in 1 .. Len(s) : j # k /\ j # k - 1 => next'[s[j]] = next[s[j]],
         \A j \in 1 .. Len(s) : j # k /\ j # k + 1 => prev'[s[j]] = prev[s[j]],
         k > 1 => next'[s[k - 1]] = IF k < Len(s) THEN s[k + 1] ELSE Null,
         k < Len(s) => prev'[s[k + 1]] = IF k > 1 THEN s[k - 1] ELSE Null,
         bb' = bb
  PROVE  ListOf(b, RemoveAt(s, k))'
<1> DEFINE t == RemoveAt(s, k)
           n == Len(s)
           at(j) == IF j < k THEN j ELSE j + 1
<1>1. /\ s \in Seq(Instrs) /\ n \in Nat
      /\ \A j, l \in 1 .. n : s[j] = s[l] => j = l
      /\ \A j \in 1 .. n : bb[s[j]] \in {b, Gone}
      /\ n > 0 => /\ first[b] = s[1] /\ last[b] = s[n]
                  /\ prev[s[1]] = Null /\ next[s[n]] = Null
      /\ \A j \in 1 .. n : j < n => next[s[j]] = s[j + 1]
      /\ \A j \in 1 .. n : j > 1 => prev[s[j]] = s[j - 1]
  BY ListFacts
<1>2. t \in Seq(Instrs) /\ Len(t) = n - 1 /\ \A j \in 1 .. n - 1 : t[j] = s[at(j)]
  <2>1. /\ RemoveAt(s, k) \in Seq(Instrs) /\ Len(RemoveAt(s, k)) = Len(s) - 1
        /\ \A j \in 1 .. Len(s) - 1 : RemoveAt(s, k)[j] = IF j < k THEN s[j] ELSE s[j + 1]
    BY <1>1, RemovedAt, ZenonT(30)
  <2> HIDE DEF t
  <2> QED BY <2>1 DEF t
<1>3. n > 1 /\ k \in 1 .. n /\ n \in Nat /\ k \in Nat
  BY <1>1
<1>4. \A j \in 1 .. n - 1 : at(j) \in 1 .. n /\ at(j) # k
  BY <1>3
<1> HIDE DEF t, n
<1>5. \A j, l \in 1 .. Len(t) : t[j] = t[l] => j = l
  <2>1. \A j, l \in 1 .. n - 1 : at(j) = at(l) => j = l
    BY <1>3
  <2> SUFFICES ASSUME NEW j \in 1 .. Len(t), NEW l \in 1 .. Len(t), t[j] = t[l] PROVE j = l
    OBVIOUS
  <2>2. j \in 1 .. n - 1 /\ l \in 1 .. n - 1
    BY <1>2
  <2>3. at(j) \in 1 .. n /\ at(l) \in 1 .. n
    BY <2>2, <1>4
  <2> HIDE DEF at
  <2>4. s[at(j)] = s[at(l)]
    BY <2>2, <1>2
  <2> QED BY <2>1, <2>2, <2>3, <2>4, <1>1
<1>6. ASSUME NEW j \in 1 .. Len(t) PROVE bb'[t[j]] \in {b, Gone}
  <2>1. j \in 1 .. n - 1
    BY <1>2
  <2>2. at(j) \in 1 .. n
    BY <2>1, <1>4
  <2> HIDE DEF at
  <2>3. t[j] = s[at(j)]
    BY <2>1, <1>2
  <2> QED BY <2>2, <2>3, <1>1
<1>7. first'[b] = t[1] /\ prev'[t[1]] = Null
  <2>1. 1 \in 1 .. n - 1 /\ t[1] = s[at(1)]
    BY <1>2, <1>3
  <2>2. CASE k = 1
    <3>1. at(1) = 2 /\ k < n /\ k + 1 = 2 /\ ~ (k > 1)
      BY <2>2, <1>3
    <3> HIDE DEF at
    <3> QED BY <2>1, <2>2, <3>1 DEF n
  <2>3. CASE k # 1
    <3>1. at(1) = 1 /\ 1 # k + 1 /\ 1 \in 1 .. n /\ n > 0
      BY <2>3, <1>3
    <3>2. prev'[s[1]] = prev[s[1]]
      BY <2>3, <3>1 DEF n
    <3> HIDE DEF at
    <3> QED BY <2>1, <2>3, <3>1, <3>2, <1>1
  <2> QED BY <2>2, <2>3
<1>8. last'[b] = t[n - 1] /\ next'[t[n - 1]] = Null
  <2>1. n - 1 \in 1 .. n - 1 /\ t[n - 1] = s[at(n - 1)]
    BY <1>2, <1>3
  <2>2. CASE k = n
    <3>1. at(n - 1) = n - 1 /\ k > 1 /\ ~ (k < n)
      BY <2>2, <1>3
    <3> HIDE DEF at
    <3> QED BY <2>1, <2>2, <3>1 DEF n
  <2>3. CASE k # n
    <3>1. at(n - 1) = n /\ n # k - 1 /\ n \in 1 .. n /\ n > 0
      BY <2>3, <1>3
    <3>2. next'[s[n]] = next[s[n]]
      BY <2>3, <3>1 DEF n
    <3>3. last'[b] = last[b]
      BY <2>3 DEF n
    <3> HIDE DEF at
    <3> QED BY <2>1, <3>1, <3>2, <3>3, <1>1
  <2> QED BY <2>2, <2>3
<1>9. ASSUME NEW j \in 1 .. n - 1, j < n - 1
      PROVE  next'[t[j]] = t[j + 1] /\ prev'[t[j + 1]] = t[j]
  <2>1. j + 1 \in 1 .. n - 1 /\ t[j] = s[at(j)] /\ t[j + 1] = s[at(j + 1)]
        /\ at(j) \in 1 .. n /\ at(j + 1) \in 1 .. n
    BY <1>2, <1>3, <1>4, <1>9
  <2>2. CASE j = k - 1
    <3>1. at(j) = k - 1 /\ at(j + 1) = k + 1 /\ k > 1 /\ k < n
      BY <2>2, <1>3, <1>9
    <3> HIDE DEF at
    <3> QED BY <2>1, <3>1 DEF n
  <2>3. CASE j # k - 1
    <3>1. at(j + 1) = at(j) + 1 /\ at(j) # k /\ at(j) # k - 1 /\ at(j) < n
          /\ at(j) + 1 # k /\ at(j) + 1 # k + 1 /\ at(j) + 1 > 1
      BY <2>3, <1>3, <1>4, <1>9
    <3> DEFINE l == at(j)
               m == at(j) + 1
    <3>2. l \in 1 .. n /\ m \in 1 .. n /\ l # k /\ l # k - 1 /\ l < n /\ m # k /\ m # k + 1
          /\ m > 1 /\ m = l + 1 /\ m - 1 = l
      BY <2>1, <3>1
    <3>3. t[j] = s[l] /\ t[j + 1] = s[m]
      BY <2>1, <3>1
    <3> HIDE DEF l, m, at
    <3>4. next'[s[l]] = next[s[l]] /\ prev'[s[m]] = prev[s[m]]
      BY <3>2 DEF n
    <3>5. next[s[l]] = s[m] /\ prev[s[m]] = s[l]
      BY <3>2, <1>1
    <3> QED BY <3>3, <3>4, <3>5
  <2> QED BY <2>2, <2>3
<1>10. ASSUME NEW j \in 1 .. n - 1, j > 1 PROVE prev'[t[j]] = t[j - 1]
  <2> DEFINE l == j - 1
  <2>1. l \in 1 .. n - 1 /\ l < n - 1 /\ j = l + 1
    BY <1>3, <1>10
  <2> HIDE DEF l
  <2>2. prev'[t[l + 1]] = t[l]
    BY <2>1, <1>9
  <2> QED BY <2>1, <2>2 DEF l
<1>11. \A j \in 1 .. Len(t) : j < Len(t) => next'[t[j]] = t[j + 1]
  BY <1>2, <1>9
<1>12. \A j \in 1 .. Len(t) : j > 1 => prev'[t[j]] = t[j - 1]
  BY <1>2, <1>10
<1>13. Len(t) # 0 /\ first'[b] = t[1] /\ last'[b] = t[Len(t)]
       /\ prev'[t[1]] = Null /\ next'[t[Len(t)]] = Null
  BY <1>2, <1>3, <1>7, <1>8
<1>14. ListOf(b, t)'
  BY <1>2, <1>5, <1>6, <1>11, <1>12, <1>13, FactsMakeList
<1> QED BY <1>14 DEF t

\* An instruction that is not in the list is put at k.
LEMMA InsertedList ==
  ASSUME NEW b \in Blocks, NEW s, ListOf(b, s), Len(s) > 0,
         NEW k \in 1 .. Len(s) + 1, NEW i \in Instrs, ~ In(s, i),
         first'[b] = IF k = 1 THEN i ELSE first[b],
         last'[b] = IF k = Len(s) + 1 THEN i ELSE last[b],
         next'[i] = IF k <= Len(s) THEN s[k] ELSE Null,
         prev'[i] = IF k > 1 THEN s[k - 1] ELSE Null,
         \A j \in 1 .. Len(s) : j # k - 1 => next'[s[j]] = next[s[j]],
         \A j \in 1 .. Len(s) : j # k => prev'[s[j]] = prev[s[j]],
         k > 1 => next'[s[k - 1]] = i,
         k <= Len(s) => prev'[s[k]] = i,
         bb'[i] = b, \A j \in 1 .. Len(s) : bb'[s[j]] = bb[s[j]]
  PROVE  ListOf(b, InsertAt(s, k, i))'
<1> DEFINE t == InsertAt(s, k, i)
           n == Len(s)
<1>1. /\ s \in Seq(Instrs) /\ n \in Nat
      /\ \A j, l \in 1 .. n : s[j] = s[l] => j = l
      /\ \A j \in 1 .. n : bb[s[j]] \in {b, Gone}
      /\ n > 0 => /\ first[b] = s[1] /\ last[b] = s[n]
                  /\ prev[s[1]] = Null /\ next[s[n]] = Null
      /\ \A j \in 1 .. n : j < n => next[s[j]] = s[j + 1]
      /\ \A j \in 1 .. n : j > 1 => prev[s[j]] = s[j - 1]
  BY ListFacts
<1>2. /\ t \in Seq(Instrs) /\ Len(t) = n + 1
      /\ \A j \in 1 .. n + 1 : t[j] = IF j < k THEN s[j] ELSE IF j = k THEN i ELSE s[j - 1]
  <2>1. /\ InsertAt(s, k, i) \in Seq(Instrs) /\ Len(InsertAt(s, k, i)) = Len(s) + 1
        /\ \A j \in 1 .. Len(s) + 1 : InsertAt(s, k, i)[j] = IF j < k THEN s[j]
                                                            ELSE IF j = k THEN i ELSE s[j - 1]
    <3>1. s \in Seq(Instrs)
      BY <1>1
    <3> HIDE DEF t, n
    <3> QED BY <3>1, InsertedAt
  <2> HIDE DEF t
  <2> QED BY <2>1 DEF t
<1>3. n > 0 /\ k \in 1 .. n + 1 /\ n \in Nat /\ k \in Nat
  BY <1>1
<1>4. \A j \in 1 .. n : s[j] # i
  BY DEF In
<1> HIDE DEF t, n
<1>5. ASSUME NEW j \in 1 .. Len(t), NEW l \in 1 .. Len(t), t[j] = t[l] PROVE j = l
  <2>1. j \in 1 .. n + 1 /\ l \in 1 .. n + 1
    BY <1>2
  <2> DEFINE at(m) == IF m < k THEN m ELSE m - 1
  <2>2. \A m \in 1 .. n + 1 : m # k => at(m) \in 1 .. n /\ t[m] = s[at(m)]
    BY <1>2, <1>3
  <2>3. t[k] = i
    BY <1>2, <1>3
  <2>4. CASE j = k \/ l = k
    <3> HIDE DEF at
    <3> QED BY <2>1, <2>2, <2>3, <2>4, <1>4, <1>5
  <2>5. CASE j # k /\ l # k
    <3>1. at(j) = at(l)
      <4> HIDE DEF at
      <4>1. at(j) \in 1 .. n /\ at(l) \in 1 .. n /\ t[j] = s[at(j)] /\ t[l] = s[at(l)]
        BY <2>1, <2>2, <2>5
      <4>2. s[at(j)] = s[at(l)]
        BY <4>1, <1>5
      <4> QED BY <4>1, <4>2, <1>1
    <3> QED BY <3>1, <2>1, <2>5, <1>3
  <2> QED BY <2>4, <2>5
<1>6. ASSUME NEW j \in 1 .. Len(t) PROVE bb'[t[j]] \in {b, Gone}
  <2>1. j \in 1 .. n + 1
    BY <1>2
  <2>2. CASE j = k
    BY <2>1, <2>2, <1>2, <1>3
  <2>3. CASE j < k
    <3>1. j \in 1 .. n /\ t[j] = s[j]
      BY <2>1, <2>3, <1>2, <1>3
    <3> QED BY <3>1, <1>1 DEF n
  <2>4. CASE j > k
    <3> DEFINE l == j - 1
    <3>1. l \in 1 .. n /\ t[j] = s[l]
      BY <2>1, <2>4, <1>2, <1>3
    <3> HIDE DEF l
    <3> QED BY <3>1, <1>1 DEF n
  <2> QED BY <2>1, <2>2, <2>3, <2>4, <1>3
<1>7. first'[b] = t[1] /\ prev'[t[1]] = Null
  <2>1. CASE k = 1
    <3>1. 1 \in 1 .. n + 1 /\ ~ (1 < k) /\ ~ (k > 1)
      BY <2>1, <1>3
    <3>2. t[1] = i
      BY <2>1, <3>1, <1>2
    <3> QED BY <2>1, <3>1, <3>2
  <2>2. CASE k # 1
    <3>1. 1 \in 1 .. n + 1 /\ 1 < k /\ 1 \in 1 .. n
      BY <2>2, <1>3
    <3>2. t[1] = s[1]
      BY <3>1, <1>2
    <3>3. prev'[s[1]] = prev[s[1]] /\ first'[b] = first[b]
      BY <2>2, <3>1 DEF n
    <3> QED BY <3>2, <3>3, <1>1, <1>3
  <2> QED BY <2>1, <2>2
<1>8. last'[b] = t[n + 1] /\ next'[t[n + 1]] = Null
  <2>1. CASE k = n + 1
    <3>1. k \in 1 .. n + 1 /\ ~ (k < k) /\ ~ (k <= n)
      BY <2>1, <1>3
    <3>2. t[k] = i
      BY <3>1, <1>2
    <3> QED BY <2>1, <3>1, <3>2 DEF n
  <2>2. CASE k # n + 1
    <3>1. n + 1 \in 1 .. n + 1 /\ ~ (n + 1 < k) /\ n \in 1 .. n /\ n # k - 1 /\ n + 1 - 1 = n
          /\ n + 1 # k
      BY <2>2, <1>3
    <3>2. t[n + 1] = s[n]
      BY <3>1, <1>2
    <3>3. next'[s[n]] = next[s[n]] /\ last'[b] = last[b]
      BY <2>2, <3>1 DEF n
    <3> QED BY <3>2, <3>3, <1>1, <1>3
  <2> QED BY <2>1, <2>2
<1>9. ASSUME NEW j \in 1 .. n PROVE next'[t[j]] = t[j + 1] /\ prev'[t[j + 1]] = t[j]
  <2>1. j \in 1 .. n + 1 /\ j + 1 \in 1 .. n + 1 /\ j + 1 - 1 = j
    BY <1>3
  <2>2. CASE j + 1 < k
    <3>1. j < k /\ j # k - 1 /\ j + 1 # k /\ j + 1 \in 1 .. n /\ j < n /\ j + 1 > 1
      BY <2>2, <1>3
    <3>2. t[j] = s[j] /\ t[j + 1] = s[j + 1]
      BY <2>1, <2>2, <3>1, <1>2
    <3>3. next'[s[j]] = next[s[j]] /\ prev'[s[j + 1]] = prev[s[j + 1]]
      BY <3>1 DEF n
    <3>4. next[s[j]] = s[j + 1] /\ prev[s[j + 1]] = s[j]
      BY <2>1, <3>1, <1>1
    <3> QED BY <3>2, <3>3, <3>4
  <2>3. CASE j + 1 = k
    <3>1. j < k /\ j = k - 1 /\ k > 1 /\ ~ (k < k)
      BY <2>3, <1>3
    <3>2. t[j] = s[j] /\ t[k] = i
      BY <2>1, <2>3, <3>1, <1>2
    <3> QED BY <2>3, <3>1, <3>2
  <2>4. CASE j = k
    <3>1. ~ (k < k) /\ ~ (k + 1 < k) /\ k + 1 # k /\ k <= n
      BY <2>4, <1>3
    <3>2. t[k] = i /\ t[k + 1] = s[k]
      BY <2>1, <2>4, <3>1, <1>2
    <3> QED BY <2>4, <3>1, <3>2 DEF n
  <2>5. CASE j > k
    <3> DEFINE l == j - 1
    <3>1. ~ (j < k) /\ j # k /\ ~ (j + 1 < k) /\ j + 1 # k /\ l \in 1 .. n /\ l # k - 1 /\ l < n
          /\ j > 1 /\ l + 1 = j
      BY <2>5, <1>3
    <3>2. t[j] = s[l] /\ t[j + 1] = s[j]
      BY <2>1, <3>1, <1>2
    <3>3. prev[s[j]] = s[l]
      BY <3>1, <1>1
    <3> HIDE DEF l
    <3>4. next'[s[l]] = next[s[l]] /\ prev'[s[j]] = prev[s[j]]
      BY <3>1 DEF n
    <3>5. next[s[l]] = s[l + 1]
      BY <3>1, <1>1
    <3> QED BY <3>1, <3>2, <3>3, <3>4, <3>5
  <2> QED BY <2>1, <2>2, <2>3, <2>4, <2>5, <1>3
<1>10. ASSUME NEW j \in 1 .. n + 1, j > 1 PROVE prev'[t[j]] = t[j - 1]
  <2> DEFINE l == j - 1
  <2>1. l \in 1 .. n /\ j = l + 1
    BY <1>3, <1>10
  <2> HIDE DEF l
  <2>2. prev'[t[l + 1]] = t[l]
    BY <2>1, <1>9
  <2> QED BY <2>1, <2>2 DEF l
<1>11. ASSUME NEW j \in 1 .. Len(t), j < Len(t) PROVE next'[t[j]] = t[j + 1]
  <2>1. j \in 1 .. n
    BY <1>2, <1>3, <1>11
  <2> QED BY <2>1, <1>9
<1>12. \A j \in 1 .. Len(t) : j > 1 => prev'[t[j]] = t[j - 1]
  BY <1>2, <1>10
<1>13. Len(t) # 0 /\ first'[b] = t[1] /\ last'[b] = t[Len(t)]
       /\ prev'[t[1]] = Null /\ next'[t[Len(t)]] = Null
  BY <1>2, <1>3, <1>7, <1>8
<1>14. ListOf(b, t)'
  BY <1>2, <1>5, <1>6, <1>11, <1>12, <1>13, FactsMakeList
<1> QED BY <1>14 DEF t

-----------------------------------------------------------------------------
(***************************************************************************)
(* The operations.  Each makes lists M of lists L the way InstrSequences   *)
(* says.                                                                   *)
(***************************************************************************)
PlacedIn(L) == {i \in Instrs : \E b \in Blocks : In(L[b], i)}

Fills(L, M, b) == /\ L[b] = << >> /\ IsInjective(M[b]) /\ ToSet(M[b]) \subseteq Instrs \ PlacedIn(L)
                  /\ M = [L EXCEPT ![b] = M[b]]
Inserts(L, M, b) == \E i \in Instrs \ PlacedIn(L), k \in 1 .. Len(L[b]) + 1 :
                      L[b] # << >> /\ M = [L EXCEPT ![b] = InsertAt(L[b], k, i)]
Takes(L, M, b) == \E k \in 1 .. Len(L[b]) : M = [L EXCEPT ![b] = RemoveAt(L[b], k)]
Splits(L, M, b, c) == b # c /\ \E k \in 1 .. Len(L[b]) - 1 :
                        /\ L[c] = << >>
                        /\ M = [L EXCEPT ![b] = SubSeq(L[b], 1, k),
                                         ![c] = SubSeq(L[b], k + 1, Len(L[b]))]

Blocklists == [Blocks -> Seq(Instrs)]

LEMMA PlacedOnce ==
  ASSUME PointerTypes, NEW L \in Blocklists, ListsAre(L)
  PROVE  /\ \A b \in Blocks : ListOf(b, L[b]) /\ GetAllInstrs(b) = L[b]
         /\ Listed = PlacedIn(L)
         /\ \A b \in Blocks : \A i : Contains(GetAllInstrs(b), i) <=> In(L[b], i)
         /\ \A b, c \in Blocks : b # c => \A k \in 1 .. Len(L[b]), l \in 1 .. Len(L[c]) :
                                            L[b][k] # L[c][l]
<1>1. \A b \in Blocks : L[b] \in Seq(Instrs) /\ ListOf(b, L[b]) /\ GetAllInstrs(b) = L[b]
  BY ListMet DEF ListsAre, Blocklists
<1>2. \A b \in Blocks : \A k \in 1 .. Len(L[b]) : L[b][k] \in Instrs
  BY <1>1
<1>3. \A b \in Blocks : \A i : Contains(GetAllInstrs(b), i) <=> In(L[b], i)
  BY <1>1 DEF Contains, In
<1>4. \A b \in Blocks : \A i : i \in ToSet(GetAllInstrs(b)) <=> i \in Instrs /\ In(L[b], i)
  BY <1>1, <1>2 DEF ToSet, In
<1>5. Listed = PlacedIn(L)
  BY <1>4 DEF Listed, PlacedIn
<1>6. ASSUME NEW b \in Blocks, NEW c \in Blocks, b # c, NEW k \in 1 .. Len(L[b]),
             NEW l \in 1 .. Len(L[c])
      PROVE  L[b][k] # L[c][l]
  BY <1>2, <1>6 DEF ListsAre, Apart, In
<1> QED BY <1>1, <1>3, <1>5, <1>6

\* One list changes, the others do not, and what the new one holds was in the
\* old one or nowhere.
LEMMA OneChanged ==
  ASSUME NEW L \in Blocklists, ListsAre(L), NEW b \in Blocks,
         NEW t \in Seq(Instrs), ListOf(b, t)',
         \A i \in Instrs : In(t, i) => In(L[b], i) \/ i \notin PlacedIn(L),
         \A c \in Blocks : c # b => ListOf(c, L[c])',
         NEW M, M = [L EXCEPT ![b] = t]
  PROVE  M \in Blocklists /\ ListsAre(M)'
<1>1. M \in Blocklists /\ M[b] = t /\ \A c \in Blocks : c # b => M[c] = L[c]
  BY DEF Blocklists
<1>2. \A c \in Blocks : ListOf(c, M[c])'
  BY <1>1
<1>3. ASSUME NEW c \in Blocks, NEW d \in Blocks, c # d, NEW i \in Instrs, In(M[c], i), In(M[d], i)
      PROVE  FALSE
  <2>1. CASE c # b /\ d # b
    BY <2>1, <1>1, <1>3 DEF ListsAre, Apart
  <2>2. CASE c = b
    <3>1. In(t, i) /\ In(L[d], i)
      BY <2>2, <1>1, <1>3
    <3>2. i \in PlacedIn(L)
      BY <3>1 DEF PlacedIn
    <3> QED BY <3>1, <3>2, <2>2, <1>3 DEF ListsAre, Apart
  <2>3. CASE d = b
    <3>1. In(t, i) /\ In(L[c], i)
      BY <2>3, <1>1, <1>3
    <3>2. i \in PlacedIn(L)
      BY <3>1 DEF PlacedIn
    <3> QED BY <3>1, <3>2, <2>3, <1>3 DEF ListsAre, Apart
  <2> QED BY <2>1, <2>2, <2>3
<1>4. Apart(M)
  BY <1>3 DEF Apart
<1> QED BY <1>1, <1>2, <1>4 DEF ListsAre

\* Taking out position k of the list of b, and nothing else.
LEMMA TakenFrom ==
  ASSUME NEW L \in Blocklists, ListsAre(L), NEW b \in Blocks, NEW k \in 1 .. Len(L[b]),
         ListOf(b, RemoveAt(L[b], k))',
         \A c \in Blocks : c # b => ListOf(c, L[c])'
  PROVE  \E M \in Blocklists : ListsAre(M)' /\ Takes(L, M, b)
<1> DEFINE s == L[b]
           t == RemoveAt(s, k)
           M == [L EXCEPT ![b] = t]
<1>1. s \in Seq(Instrs)
  BY DEF Blocklists
<1>2. /\ t \in Seq(Instrs) /\ Len(t) = Len(s) - 1
      /\ \A j \in 1 .. Len(s) - 1 : t[j] = IF j < k THEN s[j] ELSE s[j + 1]
  BY <1>1, RemovedAt
<1> HIDE DEF t
<1>3. ASSUME NEW i \in Instrs, In(t, i) PROVE In(s, i)
  <2>1. PICK j \in 1 .. Len(t) : t[j] = i
    BY <1>3 DEF In
  <2>2. j \in 1 .. Len(s) /\ j + 1 \in 1 .. Len(s) /\ j \in 1 .. Len(s) - 1
    BY <1>1, <1>2
  <2>3. t[j] = s[j] \/ t[j] = s[j + 1]
    BY <1>2, <2>2
  <2> HIDE DEF s
  <2> QED BY <2>1, <2>2, <2>3 DEF In
<1>4. ListOf(b, t)'
  BY DEF t
<1>5. M \in Blocklists /\ ListsAre(M)'
  BY <1>2, <1>3, <1>4, OneChanged
<1>6. Takes(L, M, b)
  BY DEF Takes, t
<1> QED BY <1>5, <1>6

\* Putting an instruction that is nowhere at position k of the list of b.
LEMMA PutInto ==
  ASSUME NEW L \in Blocklists, ListsAre(L), NEW b \in Blocks, L[b] # << >>,
         NEW k \in 1 .. Len(L[b]) + 1, NEW i \in Instrs, i \notin PlacedIn(L),
         ListOf(b, InsertAt(L[b], k, i))',
         \A c \in Blocks : c # b => ListOf(c, L[c])'
  PROVE  \E M \in Blocklists : ListsAre(M)' /\ Inserts(L, M, b)
<1> DEFINE s == L[b]
           t == InsertAt(s, k, i)
           M == [L EXCEPT ![b] = t]
<1>1. s \in Seq(Instrs)
  BY DEF Blocklists
<1>2. /\ t \in Seq(Instrs) /\ Len(t) = Len(s) + 1
      /\ \A j \in 1 .. Len(s) + 1 : t[j] = IF j < k THEN s[j] ELSE IF j = k THEN i ELSE s[j - 1]
  <2> HIDE DEF t
  <2>1. /\ InsertAt(L[b], k, i) \in Seq(Instrs) /\ Len(InsertAt(L[b], k, i)) = Len(L[b]) + 1
        /\ \A j \in 1 .. Len(L[b]) + 1 : InsertAt(L[b], k, i)[j] =
             IF j < k THEN L[b][j] ELSE IF j = k THEN i ELSE L[b][j - 1]
    <3> DEFINE q == L[b]
    <3>1. q \in Seq(Instrs) /\ k \in 1 .. Len(q) + 1
      BY <1>1
    <3> HIDE DEF q, s
    <3>2. /\ InsertAt(q, k, i) \in Seq(Instrs) /\ Len(InsertAt(q, k, i)) = Len(q) + 1
          /\ \A j \in 1 .. Len(q) + 1 : InsertAt(q, k, i)[j] =
               IF j < k THEN q[j] ELSE IF j = k THEN i ELSE q[j - 1]
      BY <3>1, InsertedAt
    <3> QED BY <3>2 DEF q
  <2> QED BY <2>1 DEF t
<1> HIDE DEF t
<1>3. ASSUME NEW x \in Instrs, In(t, x) PROVE In(s, x) \/ x \notin PlacedIn(L)
  <2>1. PICK j \in 1 .. Len(t) : t[j] = x
    BY <1>3 DEF In
  <2>2. j \in 1 .. Len(s) + 1 /\ (j < k => j \in 1 .. Len(s))
        /\ (~ (j < k) /\ j # k => j - 1 \in 1 .. Len(s))
    BY <1>1, <1>2
  <2> HIDE DEF s
  <2> QED BY <2>1, <2>2, <1>2 DEF In
<1>4. ListOf(b, t)'
  BY DEF t
<1>5. M \in Blocklists /\ ListsAre(M)'
  BY <1>2, <1>3, <1>4, OneChanged
<1>6. Inserts(L, M, b)
  BY DEF Inserts, t
<1> QED BY <1>5, <1>6

LEMMA RemoveFirstInstrStep ==
  ASSUME PointerTypes, KeepOne, NEW L \in Blocklists, ListsAre(L), NEW b \in Blocks,
         RemoveFirstInstr(b)
  PROVE  PointerTypes' /\ \E M \in Blocklists : ListsAre(M)' /\ Takes(L, M, b)
<1> DEFINE s == L[b]
           n == Len(s)
<1>1. /\ \A c \in Blocks : ListOf(c, L[c])
      /\ \A c \in Blocks : c # b => \A k \in 1 .. n, l \in 1 .. Len(L[c]) : s[k] # L[c][l]
  BY PlacedOnce
<1>2. ListOf(b, s)
  BY <1>1
<1> HIDE DEF s, n
<1>3. /\ s \in Seq(Instrs) /\ n \in Nat /\ \A k \in 1 .. n : s[k] \in Instrs
      /\ \A k, l \in 1 .. n : s[k] = s[l] => k = l
      /\ n = 0 => first[b] = Null
      /\ n > 0 => first[b] = s[1] /\ last[b] = s[n]
      /\ \A k \in 1 .. n : k < n => next[s[k]] = s[k + 1]
  BY <1>2, ListFacts DEF n
<1>4. n > 1 /\ 1 \in 1 .. n /\ 2 \in 1 .. n /\ 1 < n
  <2>1. n # 0 /\ n # 1
    BY <1>3 DEF RemoveFirstInstr
  <2> QED BY <2>1, <1>3
<1>5. first[b] = s[1] /\ next[s[1]] = s[2] /\ s[1] \in Instrs /\ s[2] \in Instrs
  BY <1>3, <1>4
<1>6. /\ prev' = [i \in Instrs |-> IF i = s[2] THEN Null ELSE prev[i]]
      /\ next' = [next EXCEPT ![s[1]] = Null]
      /\ first' = [first EXCEPT ![b] = s[2]]
      /\ last' = last /\ bb' = bb
  BY <1>5 DEF RemoveFirstInstr
<1>7. PointerTypes' /\ first'[b] = s[2] /\ next'[s[1]] = Null /\ prev'[s[2]] = Null
      /\ (\A i \in Instrs : i # s[1] => next'[i] = next[i])
      /\ (\A i \in Instrs : i # s[2] => prev'[i] = prev[i])
      /\ \A c \in Blocks : c # b => first'[c] = first[c]
  BY <1>5, <1>6 DEF PointerTypes, Ends
<1>8. ListOf(b, RemoveAt(s, 1))'
  <2>1. \A j \in 1 .. n : j # 1 => next'[s[j]] = next[s[j]]
    BY <1>3, <1>4, <1>7
  <2>2. \A j \in 1 .. n : j # 2 => prev'[s[j]] = prev[s[j]]
    BY <1>3, <1>4, <1>7
  <2>3. n # 1 /\ 1 + 1 = 2 /\ ~ (1 > 1)
    BY <1>4
  <2> QED BY <2>1, <2>2, <2>3, <1>2, <1>4, <1>6, <1>7, RemovedList DEF n
<1>9. ASSUME NEW c \in Blocks, c # b PROVE ListOf(c, L[c])'
  <2>1. \A k \in 1 .. Len(L[c]) : L[c][k] \in Instrs /\ L[c][k] # s[1] /\ L[c][k] # s[2]
    BY <1>1, <1>4, <1>9, ListFacts
  <2>2. ListOf(c, L[c]) /\ first'[c] = first[c] /\ last'[c] = last[c]
    BY <1>1, <1>6, <1>7, <1>9
  <2> QED BY <2>1, <2>2, <1>6, <1>7, KeptList
<1>10. 1 \in 1 .. Len(L[b]) /\ ListOf(b, RemoveAt(L[b], 1))'
  BY <1>4, <1>8 DEF s, n
<1> QED BY <1>7, <1>9, <1>10, TakenFrom

LEMMA RemoveLastInstrStep ==
  ASSUME PointerTypes, KeepOne, NEW L \in Blocklists, ListsAre(L), NEW b \in Blocks,
         RemoveLastInstr(b)
  PROVE  PointerTypes' /\ \E M \in Blocklists : ListsAre(M)' /\ Takes(L, M, b)
<1> DEFINE s == L[b]
           n == Len(s)
           m == n - 1
<1>1. /\ \A c \in Blocks : ListOf(c, L[c])
      /\ \A c \in Blocks : c # b => \A k \in 1 .. n, l \in 1 .. Len(L[c]) : s[k] # L[c][l]
  BY PlacedOnce
<1>2. ListOf(b, s)
  BY <1>1
<1> HIDE DEF s, n
<1>3. /\ s \in Seq(Instrs) /\ n \in Nat /\ \A k \in 1 .. n : s[k] \in Instrs
      /\ \A k, l \in 1 .. n : s[k] = s[l] => k = l
      /\ n = 0 => last[b] = Null
      /\ n > 0 => first[b] = s[1] /\ last[b] = s[n]
      /\ \A k \in 1 .. n : k > 1 => prev[s[k]] = s[k - 1]
  BY <1>2, ListFacts DEF n
<1>4. n > 1 /\ m \in 1 .. n /\ n \in 1 .. n /\ m # n
  <2>1. n # 0 /\ n # 1
    BY <1>3 DEF RemoveLastInstr
  <2> QED BY <2>1, <1>3
<1>5. last[b] = s[n] /\ prev[s[n]] = s[m] /\ s[n] \in Instrs /\ s[m] \in Instrs
  BY <1>3, <1>4
<1>6. /\ next' = [i \in Instrs |-> IF i = s[m] THEN Null ELSE next[i]]
      /\ prev' = [prev EXCEPT ![s[n]] = Null]
      /\ last' = [last EXCEPT ![b] = s[m]]
      /\ first' = first /\ bb' = bb
  <2> HIDE DEF m
  <2> QED BY <1>5 DEF RemoveLastInstr
<1>7. PointerTypes' /\ last'[b] = s[m] /\ next'[s[m]] = Null /\ prev'[s[n]] = Null
      /\ (\A i \in Instrs : i # s[m] => next'[i] = next[i])
      /\ (\A i \in Instrs : i # s[n] => prev'[i] = prev[i])
      /\ \A c \in Blocks : c # b => last'[c] = last[c]
  <2> HIDE DEF m
  <2> QED BY <1>5, <1>6 DEF PointerTypes, Ends
<1>8. ListOf(b, RemoveAt(s, n))'
  <2>1. \A j \in 1 .. n : j # m => next'[s[j]] = next[s[j]]
    <3> HIDE DEF m
    <3> QED BY <1>3, <1>4, <1>7
  <2>2. \A j \in 1 .. n : j # n => prev'[s[j]] = prev[s[j]]
    BY <1>3, <1>4, <1>7
  <2>3. n # 1 /\ ~ (n < n)
    BY <1>4
  <2>4. last'[b] = s[n - 1] /\ next'[s[n - 1]] = Null
    BY <1>7
  <2>5. \A j \in 1 .. n : j # n - 1 => next'[s[j]] = next[s[j]]
    BY <2>1
  <2> HIDE DEF m
  <2> QED BY <2>2, <2>3, <2>4, <2>5, <1>2, <1>4, <1>6, RemovedList DEF n
<1> HIDE DEF m
<1>9. ASSUME NEW c \in Blocks, c # b PROVE ListOf(c, L[c])'
  <2>1. \A k \in 1 .. Len(L[c]) : L[c][k] \in Instrs /\ L[c][k] # s[m] /\ L[c][k] # s[n]
    BY <1>1, <1>4, <1>9, ListFacts
  <2>2. ListOf(c, L[c]) /\ first'[c] = first[c] /\ last'[c] = last[c]
    BY <1>1, <1>6, <1>7, <1>9
  <2> QED BY <2>1, <2>2, <1>6, <1>7, KeptList
<1>10. n \in 1 .. Len(L[b]) /\ ListOf(b, RemoveAt(L[b], n))'
  BY <1>4, <1>8 DEF s, n
<1> QED BY <1>7, <1>9, <1>10, TakenFrom

LEMMA RemoveInstrStep ==
  ASSUME PointerTypes, KeepOne, NEW L \in Blocklists, ListsAre(L), NEW b \in Blocks,
         NEW i \in Instrs, RemoveInstr(b, i)
  PROVE  PointerTypes' /\ \E M \in Blocklists : ListsAre(M)' /\ Takes(L, M, b)
<1>1. CASE RemoveFirstInstr(b)
  BY <1>1, RemoveFirstInstrStep
<1>2. CASE RemoveLastInstr(b)
  BY <1>2, RemoveLastInstrStep
<1>3. CASE i # first[b] /\ i # last[b] /\ Unlink(i)
  <2> DEFINE s == L[b]
             n == Len(s)
  <2>1. /\ \A c \in Blocks : ListOf(c, L[c])
        /\ \A c \in Blocks : c # b => \A k \in 1 .. n, l \in 1 .. Len(L[c]) : s[k] # L[c][l]
    BY PlacedOnce
  <2>2. ListOf(b, s)
    BY <2>1
  <2>3. PICK k \in 1 .. n : s[k] = i
    BY PlacedOnce DEF RemoveInstr, In
  <2> HIDE DEF s, n
  <2>4. /\ s \in Seq(Instrs) /\ n \in Nat /\ \A l \in 1 .. n : s[l] \in Instrs
        /\ \A l, m \in 1 .. n : s[l] = s[m] => l = m
        /\ n > 0 => first[b] = s[1] /\ last[b] = s[n]
        /\ \A l \in 1 .. n : l > 1 => prev[s[l]] = s[l - 1]
        /\ \A l \in 1 .. n : l < n => next[s[l]] = s[l + 1]
    BY <2>2, ListFacts DEF n
  <2>5. k > 1 /\ k < n /\ n > 1
    <3>1. n > 0 /\ k # 1 /\ k # n
      BY <1>3, <2>3, <2>4
    <3> QED BY <3>1, <2>4
  <2> DEFINE x == k - 1
             y == k + 1
  <2>6. x \in 1 .. n /\ y \in 1 .. n /\ x # k /\ y # k /\ x # y
    BY <2>4, <2>5
  <2>7. prev[i] = s[x] /\ next[i] = s[y]
    BY <2>3, <2>4, <2>5
  <2> HIDE DEF x, y
  <2>8. s[x] \in Instrs /\ s[y] \in Instrs
    BY <2>4, <2>6
  <2>9. /\ next' = [next EXCEPT ![s[x]] = s[y]] /\ prev' = [prev EXCEPT ![s[y]] = s[x]]
        /\ first' = first /\ last' = last /\ bb' = bb
    BY <1>3, <2>7 DEF Unlink
  <2>10. PointerTypes' /\ next'[s[x]] = s[y] /\ prev'[s[y]] = s[x]
         /\ (\A j \in Instrs : j # s[x] => next'[j] = next[j])
         /\ (\A j \in Instrs : j # s[y] => prev'[j] = prev[j])
    BY <2>8, <2>9 DEF PointerTypes, Ends
  <2>11. ListOf(b, RemoveAt(s, k))'
    <3>1. \A j \in 1 .. n : j # x => next'[s[j]] = next[s[j]]
      BY <2>4, <2>6, <2>10
    <3>2. \A j \in 1 .. n : j # y => prev'[s[j]] = prev[s[j]]
      BY <2>4, <2>6, <2>10
    <3>3. k # 1 /\ k # n
      BY <2>5
    <3>4. next'[s[k - 1]] = s[k + 1] /\ prev'[s[k + 1]] = s[k - 1]
      BY <2>10 DEF x, y
    <3>5. /\ \A j \in 1 .. n : j # k - 1 => next'[s[j]] = next[s[j]]
          /\ \A j \in 1 .. n : j # k + 1 => prev'[s[j]] = prev[s[j]]
      BY <3>1, <3>2 DEF x, y
    <3> QED BY <3>3, <3>4, <3>5, <2>2, <2>5, <2>9, RemovedList DEF n
  <2>12. ASSUME NEW c \in Blocks, c # b PROVE ListOf(c, L[c])'
    <3>1. \A l \in 1 .. Len(L[c]) : L[c][l] \in Instrs /\ L[c][l] # s[x] /\ L[c][l] # s[y]
      BY <2>1, <2>6, <2>12, ListFacts
    <3>2. ListOf(c, L[c]) /\ first'[c] = first[c] /\ last'[c] = last[c]
      BY <2>1, <2>9
    <3> QED BY <3>1, <3>2, <2>9, <2>10, KeptList
  <2>13. k \in 1 .. Len(L[b]) /\ ListOf(b, RemoveAt(L[b], k))'
    BY <2>11 DEF s, n
  <2> QED BY <2>10, <2>12, <2>13, TakenFrom
<1> QED BY <1>1, <1>2, <1>3 DEF RemoveInstr

LEMMA InsertInstrAfterStep ==
  ASSUME PointerTypes, NEW L \in Blocklists, ListsAre(L), NEW b \in Blocks,
         NEW at \in Instrs, NEW i \in Instrs, InsertInstrAfter(b, at, i)
  PROVE  PointerTypes' /\ \E M \in Blocklists : ListsAre(M)' /\ Inserts(L, M, b)
<1> DEFINE s == L[b]
           n == Len(s)
<1>1. /\ \A c \in Blocks : ListOf(c, L[c])
      /\ \A c \in Blocks : c # b => \A k \in 1 .. n, l \in 1 .. Len(L[c]) : s[k] # L[c][l]
      /\ i \notin PlacedIn(L)
  BY PlacedOnce DEF InsertInstrAfter
<1>2. ListOf(b, s)
  BY <1>1
<1>3. PICK m \in 1 .. n : s[m] = at
  BY PlacedOnce DEF InsertInstrAfter, In
<1>4. \A c \in Blocks : ~ In(L[c], i)
  BY <1>1 DEF PlacedIn
<1>5. ~ In(s, i) /\ \A l \in 1 .. n : s[l] # i
  BY <1>4 DEF In
<1> HIDE DEF s, n
<1>6. /\ s \in Seq(Instrs) /\ n \in Nat /\ \A l \in 1 .. n : s[l] \in Instrs
      /\ \A l, k \in 1 .. n : s[l] = s[k] => l = k
      /\ n > 0 => first[b] = s[1] /\ last[b] = s[n] /\ next[s[n]] = Null
      /\ \A l \in 1 .. n : l < n => next[s[l]] = s[l + 1]
  BY <1>2, ListFacts DEF n
<1> DEFINE k == m + 1
<1>7. k \in 1 .. n + 1 /\ n > 0 /\ k > 1 /\ k - 1 = m /\ (k <= n <=> m < n) /\ m \in 1 .. n
      /\ (k = n + 1 <=> m = n)
  <2>1. n \in Nat
    BY <1>6
  <2> QED BY <2>1
<1>8. /\ bb' = [bb EXCEPT ![i] = b]
      /\ prev' = [j \in Instrs |-> IF j = i THEN at ELSE IF j = next[at] THEN i ELSE prev[j]]
      /\ next' = [next EXCEPT ![i] = next[at], ![at] = i]
      /\ last' = [last EXCEPT ![b] = IF at = @ THEN i ELSE @]
      /\ first' = first
  BY DEF InsertInstrAfter
<1>9. /\ next[at] = IF k <= n THEN s[k] ELSE Null
      /\ at = last[b] <=> m = n
  BY <1>3, <1>6, <1>7
<1>10. at # i /\ i \in Instrs /\ at \in Instrs
  BY <1>3, <1>5
<1> HIDE DEF k
<1>11. PointerTypes'
  <2>1. next[at] \in Ends
    BY DEF PointerTypes
  <2> QED BY <2>1, <1>8 DEF PointerTypes, Ends
<1>12. /\ next'[i] = next[at] /\ next'[at] = i /\ prev'[i] = at
       /\ bb'[i] = b
       /\ \A j \in Instrs : j # i /\ j # at => next'[j] = next[j]
       /\ \A j \in Instrs : j # i /\ j # next[at] => prev'[j] = prev[j]
       /\ \A j \in Instrs : j # i /\ j = next[at] => prev'[j] = i
       /\ \A j \in Instrs : j # i => bb'[j] = bb[j]
       /\ last'[b] = IF at = last[b] THEN i ELSE last[b]
       /\ \A c \in Blocks : c # b => last'[c] = last[c]
  BY <1>8, <1>10 DEF PointerTypes
<1>13. ListOf(b, InsertAt(s, k, i))'
  <2>1. last'[b] = IF k = n + 1 THEN i ELSE last[b]
    BY <1>7, <1>9, <1>12
  <2>2. next'[i] = IF k <= n THEN s[k] ELSE Null
    BY <1>9, <1>12
  <2>3. prev'[i] = s[k - 1] /\ next'[s[k - 1]] = i
    BY <1>3, <1>7, <1>12
  <2>4. \A j \in 1 .. n : j # k - 1 => next'[s[j]] = next[s[j]]
    BY <1>3, <1>5, <1>6, <1>7, <1>12
  <2>5. \A j \in 1 .. n : j # k => prev'[s[j]] = prev[s[j]]
    <3> SUFFICES ASSUME NEW j \in 1 .. n, j # k PROVE prev'[s[j]] = prev[s[j]]
      OBVIOUS
    <3>1. s[j] # next[at]
      <4>1. CASE k <= n
        <5>1. k \in 1 .. n
          BY <4>1, <1>7
        <5> QED BY <5>1, <4>1, <1>6, <1>9
      <4>2. CASE ~ (k <= n)
        BY <4>2, <1>6, <1>9, PointersAssumption
      <4> QED BY <4>1, <4>2
    <3> QED BY <3>1, <1>5, <1>6, <1>12
  <2>6. k <= n => prev'[s[k]] = i
    <3> SUFFICES ASSUME k <= n PROVE prev'[s[k]] = i
      OBVIOUS
    <3>1. k \in 1 .. n
      BY <1>7
    <3> QED BY <3>1, <1>5, <1>6, <1>9, <1>12
  <2>7. \A j \in 1 .. n : bb'[s[j]] = bb[s[j]]
    BY <1>5, <1>6, <1>12
  <2>8. first'[b] = first[b] /\ k # 1 /\ bb'[i] = b
    BY <1>7, <1>8, <1>12
  <2> QED BY <2>1, <2>2, <2>3, <2>4, <2>5, <2>6, <2>7, <2>8, <1>2, <1>5, <1>7, InsertedList DEF n
<1>14. ASSUME NEW c \in Blocks, c # b PROVE ListOf(c, L[c])'
  <2>1. \A l \in 1 .. Len(L[c]) : L[c][l] \in Instrs /\ L[c][l] # i /\ L[c][l] # at
    BY <1>1, <1>3, <1>4, <1>14, ListFacts DEF In
  <2>2. \A l \in 1 .. Len(L[c]) : L[c][l] # next[at]
    <3>1. CASE k <= n
      <4>1. k \in 1 .. n
        BY <3>1, <1>7
      <4> QED BY <4>1, <3>1, <1>1, <1>9, <1>14
    <3>2. CASE ~ (k <= n)
      BY <3>2, <2>1, <1>9, PointersAssumption
    <3> QED BY <3>1, <3>2
  <2>3. ListOf(c, L[c]) /\ first'[c] = first[c] /\ last'[c] = last[c]
    BY <1>1, <1>8, <1>12, <1>14
  <2> QED BY <2>1, <2>2, <2>3, <1>12, KeptList
<1>15. k \in 1 .. Len(L[b]) + 1 /\ ListOf(b, InsertAt(L[b], k, i))' /\ L[b] # << >>
  BY <1>6, <1>7, <1>13 DEF s, n
<1> QED BY <1>1, <1>11, <1>14, <1>15, PutInto

LEMMA InsertInstrBeforeStep ==
  ASSUME PointerTypes, CleanInsert, NEW L \in Blocklists, ListsAre(L), NEW b \in Blocks,
         NEW at \in Instrs, NEW i \in Instrs, InsertInstrBefore(b, at, i)
  PROVE  PointerTypes' /\ \E M \in Blocklists : ListsAre(M)' /\ Inserts(L, M, b)
<1> DEFINE s == L[b]
           n == Len(s)
<1>1. /\ \A c \in Blocks : ListOf(c, L[c])
      /\ \A c \in Blocks : c # b => \A k \in 1 .. n, l \in 1 .. Len(L[c]) : s[k] # L[c][l]
      /\ i \notin PlacedIn(L)
  BY PlacedOnce DEF InsertInstrBefore
<1>2. ListOf(b, s)
  BY <1>1
<1>3. PICK k \in 1 .. n : s[k] = at
  BY PlacedOnce DEF InsertInstrBefore, In
<1>4. \A c \in Blocks : ~ In(L[c], i)
  BY <1>1 DEF PlacedIn
<1>5. ~ In(s, i) /\ \A l \in 1 .. n : s[l] # i
  BY <1>4 DEF In
<1> HIDE DEF s, n
<1>6. /\ s \in Seq(Instrs) /\ n \in Nat /\ \A l \in 1 .. n : s[l] \in Instrs
      /\ \A l, j \in 1 .. n : s[l] = s[j] => l = j
      /\ n > 0 => first[b] = s[1] /\ last[b] = s[n] /\ prev[s[1]] = Null
      /\ \A l \in 1 .. n : l > 1 => prev[s[l]] = s[l - 1]
  BY <1>2, ListFacts DEF n
<1> DEFINE m == k - 1
<1>7. k \in 1 .. n + 1 /\ n > 0 /\ k <= n /\ k # n + 1 /\ (k > 1 => m \in 1 .. n) /\ (k > 1 <=> k # 1)
      /\ 1 \in 1 .. n
  BY <1>6
<1>8. at # i /\ i \in Instrs /\ at \in Instrs
  BY <1>3, <1>5
<1>9. /\ prev[at] = IF k > 1 THEN s[m] ELSE Null
      /\ at = first[b] <=> k = 1
  BY <1>3, <1>6, <1>7
<1> HIDE DEF m
<1>10. (IF prev[at] # Null THEN prev[at] ELSE prev[i]) = prev[at]
  <2>1. k = 1 => prev[i] = Null
    BY <1>7, <1>9 DEF InsertInstrBefore
  <2>2. k = 1 => prev[at] = Null
    BY <1>7, <1>9
  <2>3. k > 1 => prev[at] # Null
    BY <1>6, <1>7, <1>9, PointersAssumption
  <2> QED BY <2>1, <2>2, <2>3, <1>7
<1>11. /\ bb' = [bb EXCEPT ![i] = b]
       /\ next' = [j \in Instrs |-> IF j = i THEN at ELSE IF j = prev[at] THEN i ELSE next[j]]
       /\ prev' = [prev EXCEPT ![i] = IF prev[at] # Null THEN prev[at] ELSE @, ![at] = i]
       /\ first' = [first EXCEPT ![b] = IF at = @ THEN i ELSE @]
       /\ last' = last
  BY DEF InsertInstrBefore
<1>12. PointerTypes'
  <2>1. prev[at] \in Ends /\ prev[i] \in Ends
    BY DEF PointerTypes
  <2> QED BY <2>1, <1>11 DEF PointerTypes, Ends
<1>13. /\ prev'[i] = prev[at] /\ prev'[at] = i /\ next'[i] = at
       /\ bb'[i] = b
       /\ \A j \in Instrs : j # i /\ j # at => prev'[j] = prev[j]
       /\ \A j \in Instrs : j # i /\ j # prev[at] => next'[j] = next[j]
       /\ \A j \in Instrs : j # i /\ j = prev[at] => next'[j] = i
       /\ \A j \in Instrs : j # i => bb'[j] = bb[j]
       /\ first'[b] = IF at = first[b] THEN i ELSE first[b]
       /\ \A c \in Blocks : c # b => first'[c] = first[c]
  BY <1>8, <1>10, <1>11 DEF PointerTypes
<1>14. ListOf(b, InsertAt(s, k, i))'
  <2>1. first'[b] = IF k = 1 THEN i ELSE first[b]
    BY <1>9, <1>13
  <2>2. prev'[i] = IF k > 1 THEN s[k - 1] ELSE Null
    BY <1>9, <1>13 DEF m
  <2>3. next'[i] = s[k] /\ prev'[s[k]] = i
    BY <1>3, <1>13
  <2>4. \A j \in 1 .. n : j # k => prev'[s[j]] = prev[s[j]]
    BY <1>3, <1>5, <1>6, <1>7, <1>13
  <2>5. \A j \in 1 .. n : j # k - 1 => next'[s[j]] = next[s[j]]
    <3> SUFFICES ASSUME NEW j \in 1 .. n, j # m PROVE next'[s[j]] = next[s[j]]
      BY DEF m
    <3>1. s[j] # prev[at]
      <4>1. CASE k > 1
        BY <4>1, <1>6, <1>7, <1>9
      <4>2. CASE ~ (k > 1)
        BY <4>2, <1>6, <1>9, PointersAssumption
      <4> QED BY <4>1, <4>2
    <3> QED BY <3>1, <1>5, <1>6, <1>13
  <2>6. k > 1 => next'[s[k - 1]] = i
    <3> SUFFICES ASSUME k > 1 PROVE next'[s[m]] = i
      BY DEF m
    <3> QED BY <1>5, <1>6, <1>7, <1>9, <1>13
  <2>7. \A j \in 1 .. n : bb'[s[j]] = bb[s[j]]
    BY <1>5, <1>6, <1>13
  <2>8. last'[b] = last[b] /\ bb'[i] = b
    BY <1>11, <1>13
  <2> QED BY <2>1, <2>2, <2>3, <2>4, <2>5, <2>6, <2>7, <2>8, <1>2, <1>5, <1>7, InsertedList DEF n
<1>15. ASSUME NEW c \in Blocks, c # b PROVE ListOf(c, L[c])'
  <2>1. \A l \in 1 .. Len(L[c]) : L[c][l] \in Instrs /\ L[c][l] # i /\ L[c][l] # at
    BY <1>1, <1>3, <1>4, <1>15, ListFacts DEF In
  <2>2. \A l \in 1 .. Len(L[c]) : L[c][l] # prev[at]
    <3>1. CASE k > 1
      BY <3>1, <1>1, <1>7, <1>9, <1>15
    <3>2. CASE ~ (k > 1)
      BY <3>2, <2>1, <1>9, PointersAssumption
    <3> QED BY <3>1, <3>2
  <2>3. ListOf(c, L[c]) /\ first'[c] = first[c] /\ last'[c] = last[c]
    BY <1>1, <1>11, <1>13, <1>15
  <2> QED BY <2>1, <2>2, <2>3, <1>13, KeptList
<1>16. k \in 1 .. Len(L[b]) + 1 /\ ListOf(b, InsertAt(L[b], k, i))' /\ L[b] # << >>
  BY <1>6, <1>7, <1>14 DEF s, n
<1> QED BY <1>1, <1>12, <1>15, <1>16, PutInto

LEMMA MakeBasicBlockStep ==
  ASSUME PointerTypes, NEW L \in Blocklists, ListsAre(L), NEW b \in Blocks,
         NEW q, q \in UNION {[1 .. n -> Instrs] : n \in 1 .. Cardinality(Instrs)},
         MakeBasicBlock(b, q)
  PROVE  PointerTypes' /\ \E M \in Blocklists : ListsAre(M)' /\ Fills(L, M, b)
<1>1. PICK n \in 1 .. Cardinality(Instrs) : q \in [1 .. n -> Instrs]
  OBVIOUS
<1>2. Cardinality(Instrs) \in Nat
  BY InstrsAssumption, FS_CardinalityType
<1>3. q \in Seq(Instrs) /\ Len(q) = n /\ n \in Nat /\ n > 0 /\ \A k \in 1 .. n : q[k] \in Instrs
  BY <1>1, <1>2
<1>4. \A k, l \in 1 .. n : q[k] = q[l] => k = l
  BY <1>3 DEF MakeBasicBlock, IsInjective
<1>5. \A k \in 1 .. n : q[k] \notin Listed /\ prev[q[k]] = Null /\ next[q[k]] = Null
  BY <1>3 DEF MakeBasicBlock, ToSet
<1>6. \A k \in 1 .. n : \A c \in Blocks : ~ In(L[c], q[k])
  BY <1>3, <1>5, PlacedOnce DEF PlacedIn
<1>7. L[b] = << >>
  <2>1. ListOf(b, L[b]) /\ first[b] = Null /\ L[b] \in Seq(Instrs)
    BY PlacedOnce DEF MakeBasicBlock, Blocklists
  <2> DEFINE s == L[b]
  <2>2. s \in Seq(Instrs) /\ ListOf(b, s)
    BY <2>1
  <2> HIDE DEF s
  <2>3. s # << >> => s[1] \in Instrs
    BY <2>2
  <2>4. first[b] = IF s = << >> THEN Null ELSE s[1]
    BY <2>2 DEF ListOf
  <2> QED BY <2>1, <2>3, <2>4, PointersAssumption DEF s
<1> DEFINE links == {<<q[k], q[k + 1]>> : k \in 1 .. Len(q) - 1}
<1>8. /\ next' = [i \in Instrs |-> IF \E e \in links : e[1] = i
                                    THEN (CHOOSE e \in links : e[1] = i)[2] ELSE next[i]]
      /\ prev' = [i \in Instrs |-> IF \E e \in links : e[2] = i
                                    THEN (CHOOSE e \in links : e[2] = i)[1] ELSE prev[i]]
      /\ first' = [first EXCEPT ![b] = q[1]]
      /\ last' = [last EXCEPT ![b] = Last(q)]
      /\ bb' = [i \in Instrs |-> IF i \in ToSet(q) THEN b ELSE bb[i]]
  BY DEF MakeBasicBlock, Linked
<1>9. \A e \in links : \E k \in 1 .. n - 1 : e = <<q[k], q[k + 1]>>
  BY <1>3
<1>10. \A k \in 1 .. n - 1 : <<q[k], q[k + 1]>> \in links
  BY <1>3
<1> HIDE DEF links
<1>11. \A k \in 1 .. n - 1 : k \in 1 .. n /\ k + 1 \in 1 .. n /\ k + 1 > 1
  BY <1>3
<1>12. ASSUME NEW i \in Instrs, \A k \in 1 .. n : q[k] # i
       PROVE  next'[i] = next[i] /\ prev'[i] = prev[i] /\ bb'[i] = bb[i]
  <2>1. \A e \in links : e[1] # i /\ e[2] # i
    BY <1>9, <1>11, <1>12
  <2>2. i \notin ToSet(q)
    BY <1>3, <1>12 DEF ToSet
  <2> QED BY <2>1, <2>2, <1>8
<1>13. ASSUME NEW k \in 1 .. n - 1 PROVE next'[q[k]] = q[k + 1]
  <2> DEFINE i == q[k]
             e == CHOOSE e \in links : e[1] = i
  <2>1. i \in Instrs /\ <<q[k], q[k + 1]>>[1] = i /\ \E d \in links : d[1] = i
    BY <1>3, <1>10, <1>11
  <2>2. next'[i] = e[2] /\ e \in links /\ e[1] = i
    BY <2>1, <1>8
  <2> HIDE DEF e
  <2>3. PICK l \in 1 .. n - 1 : e = <<q[l], q[l + 1]>>
    BY <2>2, <1>9
  <2>4. l = k
    BY <2>2, <2>3, <1>4, <1>11
  <2> QED BY <2>2, <2>3, <2>4
<1>14. ASSUME NEW k \in 1 .. n - 1 PROVE prev'[q[k + 1]] = q[k]
  <2> DEFINE i == q[k + 1]
             e == CHOOSE e \in links : e[2] = i
  <2>1. i \in Instrs /\ <<q[k], q[k + 1]>>[2] = i /\ \E d \in links : d[2] = i
    BY <1>3, <1>10, <1>11
  <2>2. prev'[i] = e[1] /\ e \in links /\ e[2] = i
    BY <2>1, <1>8
  <2> HIDE DEF e
  <2>3. PICK l \in 1 .. n - 1 : e = <<q[l], q[l + 1]>>
    BY <2>2, <1>9
  <2>4. l + 1 = k + 1
    BY <2>2, <2>3, <1>4, <1>11
  <2>5. l = k
    BY <2>4
  <2> QED BY <2>2, <2>3, <2>5
<1>15. prev'[q[1]] = Null /\ next'[q[n]] = Null
  <2>1. 1 \in 1 .. n /\ n \in 1 .. n
    BY <1>3
  <2>2. \A e \in links : e[2] # q[1]
    <3> SUFFICES ASSUME NEW k \in 1 .. n - 1, q[k + 1] = q[1] PROVE FALSE
      BY <1>9
    <3>1. k + 1 = 1
      BY <2>1, <1>4, <1>11
    <3> QED BY <3>1, <1>3
  <2>3. \A e \in links : e[1] # q[n]
    <3> SUFFICES ASSUME NEW k \in 1 .. n - 1, q[k] = q[n] PROVE FALSE
      BY <1>9
    <3>1. k = n
      BY <2>1, <1>4, <1>11
    <3> QED BY <3>1, <1>3
  <2>4. prev'[q[1]] = prev[q[1]]
    BY <2>1, <2>2, <1>3, <1>8
  <2>5. next'[q[n]] = next[q[n]]
    BY <2>1, <2>3, <1>3, <1>8
  <2> QED BY <2>1, <2>4, <2>5, <1>5
<1>16. PointerTypes'
  <2>1. next' \in [Instrs -> Ends] /\ prev' \in [Instrs -> Ends]
    <3>1. \A e \in links : e[1] \in Instrs /\ e[2] \in Instrs
      BY <1>3, <1>9, <1>11
    <3>2. ASSUME NEW i \in Instrs PROVE next'[i] \in Ends /\ prev'[i] \in Ends
      <4>1. next[i] \in Ends /\ prev[i] \in Ends
        BY DEF PointerTypes
      <4>2. next'[i] = next[i] \/ \E k \in 1 .. n - 1 : q[k] = i
        BY <1>8, <1>9
      <4>3. prev'[i] = prev[i] \/ \E k \in 1 .. n - 1 : q[k + 1] = i
        BY <1>8, <1>9
      <4>4. next'[i] \in Ends
        BY <4>1, <4>2, <1>3, <1>11, <1>13 DEF Ends
      <4>5. prev'[i] \in Ends
        BY <4>1, <4>3, <1>3, <1>11, <1>14 DEF Ends
      <4> QED BY <4>4, <4>5
    <3> QED BY <3>2, <1>8
  <2>2. first' \in [Blocks -> Ends] /\ last' \in [Blocks -> Ends]
    <3>1. q[1] \in Ends /\ Last(q) \in Ends
      BY <1>3 DEF Ends, Last
    <3> QED BY <3>1, <1>8 DEF PointerTypes
  <2>3. bb' \in [Instrs -> Blocks \cup {Gone, Null}]
    BY <1>8 DEF PointerTypes
  <2> QED BY <2>1, <2>2, <2>3 DEF PointerTypes
<1>17. first'[b] = q[1] /\ last'[b] = q[n] /\ \A c \in Blocks : c # b => /\ first'[c] = first[c]
                                                                        /\ last'[c] = last[c]
  BY <1>3, <1>8 DEF Last, PointerTypes
<1>18. \A k \in 1 .. n : bb'[q[k]] = b
  BY <1>3, <1>8, SMTT(30) DEF ToSet
<1>19. ListOf(b, q)'
  <2>1. \A k \in 1 .. n : k < n => next'[q[k]] = q[k + 1]
    BY <1>3, <1>13
  <2>2. ASSUME NEW k \in 1 .. n, k > 1 PROVE prev'[q[k]] = q[k - 1]
    <3> DEFINE l == k - 1
    <3>1. l \in 1 .. n - 1 /\ k = l + 1
      BY <1>3, <2>2
    <3> HIDE DEF l
    <3>2. prev'[q[l + 1]] = q[l]
      BY <3>1, <1>14
    <3> QED BY <3>1, <3>2 DEF l
  <2>3. /\ \A k, l \in 1 .. Len(q) : q[k] = q[l] => k = l
        /\ \A k \in 1 .. Len(q) : bb'[q[k]] \in {b, Gone}
        /\ ~ (Len(q) = 0)
        /\ first'[b] = q[1] /\ last'[b] = q[Len(q)] /\ prev'[q[1]] = Null /\ next'[q[Len(q)]] = Null
        /\ \A k \in 1 .. Len(q) : k < Len(q) => next'[q[k]] = q[k + 1]
        /\ \A k \in 1 .. Len(q) : k > 1 => prev'[q[k]] = q[k - 1]
    BY <2>1, <2>2, <1>3, <1>4, <1>15, <1>17, <1>18
  <2> QED BY <2>3, <1>3, FactsMakeList
<1>20. ASSUME NEW c \in Blocks, c # b PROVE ListOf(c, L[c])'
  <2>1. \A l \in 1 .. Len(L[c]) : L[c][l] \in Instrs /\ \A k \in 1 .. n : q[k] # L[c][l]
    BY <1>6, ListFacts, PlacedOnce DEF In
  <2>2. \A l \in 1 .. Len(L[c]) : /\ next'[L[c][l]] = next[L[c][l]]
                                 /\ prev'[L[c][l]] = prev[L[c][l]]
                                 /\ bb'[L[c][l]] = bb[L[c][l]]
    BY <2>1, <1>12
  <2>3. ListOf(c, L[c]) /\ first'[c] = first[c] /\ last'[c] = last[c]
    BY <1>17, <1>20, PlacedOnce
  <2> QED BY <2>2, <2>3, KeptList
<1> DEFINE M == [L EXCEPT ![b] = q]
<1>21. M \in Blocklists /\ ListsAre(M)'
  <2>1. \A i \in Instrs : In(q, i) => i \notin PlacedIn(L)
    BY <1>3, <1>6 DEF In, PlacedIn
  <2> QED BY <2>1, <1>3, <1>19, <1>20, OneChanged
<1>22. Fills(L, M, b)
  <2>1. M[b] = q
    BY DEF Blocklists
  <2>2. ToSet(q) \subseteq Instrs \ PlacedIn(L)
    BY <1>3, <1>6 DEF ToSet, PlacedIn
  <2>3. IsInjective(q)
    BY DEF MakeBasicBlock
  <2> QED BY <2>1, <2>2, <2>3, <1>7 DEF Fills
<1> QED BY <1>16, <1>21, <1>22

\* The two halves of a sequence.
LEMMA Halves ==
  ASSUME NEW S, NEW s \in Seq(S), NEW k \in 1 .. Len(s) - 1
  PROVE  /\ SubSeq(s, 1, k) \in Seq(S) /\ Len(SubSeq(s, 1, k)) = k
         /\ \A j \in 1 .. k : SubSeq(s, 1, k)[j] = s[j]
         /\ SubSeq(s, k + 1, Len(s)) \in Seq(S) /\ Len(SubSeq(s, k + 1, Len(s))) = Len(s) - k
         /\ \A j \in 1 .. Len(s) - k : SubSeq(s, k + 1, Len(s))[j] = s[k + j]
<1> DEFINE n == Len(s)
<1>1. n \in Nat /\ k \in Nat /\ 1 <= k /\ k < n
  OBVIOUS
<1>2. s \in [1 .. n -> S]
  OBVIOUS
<1> HIDE DEF n
<1>3. SubSeq(s, 1, k) = [j \in 1 .. k |-> s[j]]
  BY <1>1, <1>2, SMTT(30) DEF n
<1>4. SubSeq(s, k + 1, n) = [j \in 1 .. n - k |-> s[k + j]]
  BY <1>1, <1>2, SMTT(30) DEF n
<1>5. \A j \in 1 .. k : s[j] \in S
  BY <1>1, <1>2
<1>6. \A j \in 1 .. n - k : s[k + j] \in S
  BY <1>1, <1>2
<1>7. n - k \in Nat
  BY <1>1
<1>8. SubSeq(s, 1, k) \in Seq(S) /\ Len(SubSeq(s, 1, k)) = k
  BY <1>1, <1>3, <1>5
<1>9. SubSeq(s, k + 1, n) \in Seq(S) /\ Len(SubSeq(s, k + 1, n)) = n - k
  <2> DEFINE m == n - k
             t == [j \in 1 .. m |-> s[k + j]]
  <2>1. m \in Nat /\ \A j \in 1 .. m : s[k + j] \in S
    BY <1>6, <1>7
  <2> HIDE DEF m
  <2>2. t \in Seq(S) /\ Len(t) = m
    BY <2>1
  <2> HIDE DEF t
  <2>3. SubSeq(s, k + 1, n) = t
    BY <1>4 DEF t, m
  <2> QED BY <2>2, <2>3 DEF m
<1> QED BY <1>3, <1>4, <1>8, <1>9 DEF n

LEMMA SplitOnStep ==
  ASSUME PointerTypes, NEW L \in Blocklists, ListsAre(L), NEW b \in Blocks, NEW c \in Blocks,
         NEW i \in Instrs, SplitOn(b, i, c)
  PROVE  PointerTypes' /\ \E M \in Blocklists : ListsAre(M)' /\ Splits(L, M, b, c)
<1> DEFINE s == L[b]
           n == Len(s)
<1>1. /\ \A d \in Blocks : ListOf(d, L[d])
      /\ \A d, e \in Blocks : d # e => \A k \in 1 .. Len(L[d]), l \in 1 .. Len(L[e]) :
                                         L[d][k] # L[e][l]
      /\ In(s, i)
  BY PlacedOnce DEF SplitOn
<1>2. ListOf(b, s)
  BY <1>1
<1> HIDE DEF s, n
<1>3. /\ s \in Seq(Instrs) /\ n \in Nat /\ \A k \in 1 .. n : s[k] \in Instrs
      /\ \A k, l \in 1 .. n : s[k] = s[l] => k = l
      /\ \A k \in 1 .. n : bb[s[k]] \in {b, Gone}
      /\ n > 0 => /\ first[b] = s[1] /\ last[b] = s[n]
                  /\ prev[s[1]] = Null /\ next[s[n]] = Null
      /\ \A k \in 1 .. n : k < n => next[s[k]] = s[k + 1]
      /\ \A k \in 1 .. n : k > 1 => prev[s[k]] = s[k - 1]
  BY <1>2, ListFacts DEF n
<1>4. PICK k \in 1 .. n : s[k] = i
  BY <1>1 DEF In, n
<1>5. n \in Nat /\ k \in Nat /\ 1 <= k /\ k < n /\ k \in 1 .. n - 1 /\ n - k \in Nat /\ n - k > 0
  <2>1. k # n
    BY <1>3, <1>4 DEF SplitOn
  <2> QED BY <2>1, <1>3, <1>4
<1> DEFINE f == SubSeq(s, 1, k)
           r == SubSeq(s, k + 1, n)
<1>6. /\ f \in Seq(Instrs) /\ Len(f) = k /\ \A j \in 1 .. k : f[j] = s[j]
      /\ r \in Seq(Instrs) /\ Len(r) = n - k /\ \A j \in 1 .. n - k : r[j] = s[k + j]
  <2>1. k \in 1 .. Len(s) - 1
    BY <1>5 DEF n
  <2>2. /\ SubSeq(s, 1, k) \in Seq(Instrs) /\ Len(SubSeq(s, 1, k)) = k
        /\ \A j \in 1 .. k : SubSeq(s, 1, k)[j] = s[j]
        /\ SubSeq(s, k + 1, Len(s)) \in Seq(Instrs) /\ Len(SubSeq(s, k + 1, Len(s))) = Len(s) - k
        /\ \A j \in 1 .. Len(s) - k : SubSeq(s, k + 1, Len(s))[j] = s[k + j]
    <3> HIDE DEF f, r
    <3>1. s \in Seq(Instrs)
      BY <1>3
    <3> QED BY <3>1, <2>1, Halves
  <2> QED BY <2>2, Zenon DEF n
<1> HIDE DEF f, r
<1>7. \A j \in 1 .. n - k : k + j \in 1 .. n /\ k + j > 1 /\ (j < n - k => k + j < n) /\ k + j - 1 = k + (j - 1)
                            /\ k + j + 1 = k + (j + 1)
  BY <1>3, <1>5
<1>8. 1 \in 1 .. n - k /\ n - k \in 1 .. n - k /\ k + (n - k) = n /\ r # << >>
  BY <1>5, <1>6, <1>3
<1>9. /\ \A j, l \in 1 .. n - k : r[j] = r[l] => j = l
      /\ \A j \in 1 .. n - k : r[j] \in Instrs
      /\ r[1] = s[k + 1] /\ r[n - k] = s[n]
  <2>1. ASSUME NEW j \in 1 .. n - k, NEW l \in 1 .. n - k, r[j] = r[l] PROVE j = l
    <3>1. s[k + j] = s[k + l] /\ k + j \in 1 .. n /\ k + l \in 1 .. n
      BY <2>1, <1>6, <1>7
    <3>2. k + j = k + l
      BY <3>1, <1>3, Zenon
    <3> QED BY <3>2, <1>5
  <2>2. ASSUME NEW j \in 1 .. n - k PROVE r[j] \in Instrs
    <3>1. r[j] = s[k + j] /\ k + j \in 1 .. n
      BY <1>6, <1>7
    <3> QED BY <3>1, <1>3
  <2> QED BY <2>1, <2>2, <1>6, <1>8
<1>10. Chain(next, r)
  <2>1. IsInjective(r)
    BY <1>6, <1>9 DEF IsInjective
  <2>2. ASSUME NEW j \in 1 .. Len(r) - 1 PROVE next[r[j]] = r[j + 1]
    <3> DEFINE l == k + j
    <3>1. j \in 1 .. n - k /\ j + 1 \in 1 .. n - k /\ j < n - k
      BY <1>5, <1>6
    <3>2. l \in 1 .. n /\ l < n /\ l + 1 = k + (j + 1)
      BY <3>1, <1>7
    <3>3. r[j] = s[l] /\ r[j + 1] = s[k + (j + 1)]
      BY <3>1, <1>6
    <3> HIDE DEF l
    <3>4. next[s[l]] = s[l + 1]
      BY <3>2, <1>3
    <3> QED BY <3>2, <3>3, <3>4
  <2>3. next[r[Len(r)]] = Null
    BY <1>3, <1>5, <1>6, <1>9
  <2> QED BY <2>1, <2>2, <2>3, <1>6 DEF Chain
<1>11. next[i] = s[k + 1] /\ s[k + 1] \in Instrs /\ s[k + 1] = r[1]
  BY <1>3, <1>4, <1>5, <1>7, <1>8, <1>9
<1>12. Follow(next, next[i]) = r
  <2>1. Follow(next, IF r = << >> THEN Null ELSE r[1]) = r
    BY <1>10, FollowIs DEF PointerTypes
  <2> QED BY <2>1, <1>8, <1>11
<1>13. /\ prev' = [prev EXCEPT ![r[1]] = Null]
       /\ next' = [next EXCEPT ![i] = Null]
       /\ bb' = [j \in Instrs |-> IF j \in ToSet(r) THEN Gone ELSE bb[j]]
       /\ first' = [first EXCEPT ![c] = r[1]]
       /\ last' = [last EXCEPT ![b] = i, ![c] = r[n - k]]
       /\ b # c /\ first[c] = Null
  BY <1>6, <1>11, <1>12 DEF SplitOn, Last
<1>14. \A x : x \in ToSet(r) <=> \E j \in 1 .. n - k : x = s[k + j]
  <2>1. DOMAIN r = 1 .. n - k
    BY <1>6
  <2>2. ToSet(r) = {r[j] : j \in 1 .. n - k}
    BY <2>1 DEF ToSet
  <2> QED BY <2>2, <1>6, SMTT(30)
<1>15. PointerTypes'
  BY <1>3, <1>8, <1>9, <1>13 DEF PointerTypes, Ends
<1>16. /\ first'[b] = first[b] /\ last'[b] = i /\ first'[c] = r[1] /\ last'[c] = r[n - k]
       /\ next'[i] = Null /\ prev'[r[1]] = Null
       /\ \A x \in Instrs : x # i => next'[x] = next[x]
       /\ \A x \in Instrs : x # r[1] => prev'[x] = prev[x]
       /\ \A x \in Instrs : x \notin ToSet(r) => bb'[x] = bb[x]
       /\ \A x \in Instrs : x \in ToSet(r) => bb'[x] = Gone
       /\ \A d \in Blocks : d # b /\ d # c => first'[d] = first[d] /\ last'[d] = last[d]
  BY <1>9, <1>8, <1>13 DEF PointerTypes
<1>17. L[c] = << >>
  <2> DEFINE q == L[c]
  <2>1. ListOf(c, q)
    BY <1>1
  <2> HIDE DEF q
  <2>2. q \in Seq(Instrs) /\ Len(q) \in Nat /\ (\A j \in 1 .. Len(q) : q[j] \in Instrs)
        /\ (Len(q) > 0 => first[c] = q[1])
    BY <2>1, ListFacts
  <2>3. ~ (Len(q) > 0)
    <3> SUFFICES ASSUME Len(q) > 0 PROVE FALSE
      OBVIOUS
    <3>1. q[1] \in Instrs /\ first[c] = q[1]
      BY <2>2
    <3> QED BY <3>1, <1>13, PointersAssumption
  <2>4. q = << >>
    BY <2>2, <2>3
  <2> QED BY <2>4 DEF q
<1>18. ListOf(b, f)'
  <2>1. \A j \in 1 .. k : j \in 1 .. n /\ s[j] \notin ToSet(r) /\ s[j] # r[1] /\ (j < k => s[j] # i)
    <3> SUFFICES ASSUME NEW j \in 1 .. k
                 PROVE  j \in 1 .. n /\ s[j] \notin ToSet(r) /\ s[j] # r[1] /\ (j < k => s[j] # i)
      OBVIOUS
    <3>1. j \in 1 .. n /\ (j < k => j # k)
      BY <1>5
    <3>2. \A l \in 1 .. n - k : k + l # j /\ k + l \in 1 .. n
      BY <1>5, <1>7
    <3>3. s[j] \notin ToSet(r)
      <4> SUFFICES ASSUME NEW l \in 1 .. n - k, s[j] = s[k + l] PROVE FALSE
        BY <1>14
      <4>1. j = k + l
        BY <3>1, <3>2, <1>3, Zenon
      <4> QED BY <4>1, <3>2
    <3>4. s[j] # r[1]
      <4>1. r[1] \in ToSet(r)
        BY <1>6, <1>8, <1>14
      <4> QED BY <4>1, <3>3
    <3> QED BY <3>1, <3>3, <3>4, <1>3, <1>4
  <2>2. ASSUME NEW j \in 1 .. k PROVE bb'[f[j]] \in {b, Gone}
    <3>1. f[j] = s[j] /\ j \in 1 .. n /\ s[j] \in Instrs /\ s[j] \notin ToSet(r)
      BY <2>1, <1>3, <1>6
    <3>2. bb'[s[j]] = bb[s[j]]
      BY <3>1, <1>16
    <3>3. bb[s[j]] \in {b, Gone}
      BY <3>1, <1>3
    <3> QED BY <3>1, <3>2, <3>3
  <2>3. ASSUME NEW j \in 1 .. k, NEW l \in 1 .. k, f[j] = f[l] PROVE j = l
    <3>1. s[j] = s[l] /\ j \in 1 .. n /\ l \in 1 .. n
      BY <2>1, <2>3, <1>6
    <3> QED BY <3>1, <1>3, Zenon
  <2>4. 1 \in 1 .. k /\ k \in 1 .. k /\ n > 0 /\ k > 0 /\ k # 0
    BY <1>5
  <2>5. first'[b] = f[1] /\ last'[b] = f[k] /\ prev'[f[1]] = Null /\ next'[f[k]] = Null
    <3>1. f[1] = s[1] /\ f[k] = i /\ s[1] \in Instrs /\ s[1] # r[1]
      BY <2>1, <2>4, <1>3, <1>4, <1>6
    <3> QED BY <3>1, <2>4, <1>3, <1>16
  <2>6. ASSUME NEW j \in 1 .. k, j < k PROVE next'[f[j]] = f[j + 1]
    <3>1. j + 1 \in 1 .. k /\ j < n
      BY <2>6, <1>5
    <3>2. f[j] = s[j] /\ f[j + 1] = s[j + 1]
      BY <3>1, <1>6
    <3>3. next'[s[j]] = next[s[j]]
      BY <2>1, <2>6, <1>3, <1>16
    <3> QED BY <3>1, <3>2, <3>3, <2>1, <1>3
  <2>7. ASSUME NEW j \in 1 .. k, j > 1 PROVE prev'[f[j]] = f[j - 1]
    <3>1. j - 1 \in 1 .. k /\ j \in 1 .. n
      BY <2>7, <1>5
    <3>2. f[j] = s[j] /\ f[j - 1] = s[j - 1]
      BY <3>1, <1>6
    <3>3. prev'[s[j]] = prev[s[j]]
      BY <2>1, <1>3, <1>16
    <3> QED BY <3>1, <3>2, <3>3, <2>7, <1>3
  <2>8. /\ \A j \in 1 .. Len(f) : bb'[f[j]] \in {b, Gone}
        /\ \A j, l \in 1 .. Len(f) : f[j] = f[l] => j = l
        /\ ~ (Len(f) = 0)
        /\ first'[b] = f[1] /\ last'[b] = f[Len(f)] /\ prev'[f[1]] = Null /\ next'[f[Len(f)]] = Null
        /\ \A j \in 1 .. Len(f) : j < Len(f) => next'[f[j]] = f[j + 1]
        /\ \A j \in 1 .. Len(f) : j > 1 => prev'[f[j]] = f[j - 1]
    BY <2>2, <2>3, <2>4, <2>5, <2>6, <2>7, <1>6
  <2> QED BY <2>8, <1>6, FactsMakeList
<1>19. ListOf(c, r)'
  <2> DEFINE m == n - k
  <2>1. m \in Nat /\ m > 0 /\ Len(r) = m
    BY <1>5, <1>6
  <2>2. \A j \in 1 .. m : bb'[r[j]] = Gone
    BY <1>6, <1>9, <1>14, <1>16
  <2>3. ASSUME NEW j \in 1 .. m, j < m PROVE next'[r[j]] = r[j + 1]
    <3> DEFINE l == k + j
    <3>1. l \in 1 .. n /\ l < n /\ l + 1 = k + (j + 1) /\ l # k /\ j + 1 \in 1 .. n - k
      BY <2>3, <1>5, <1>7
    <3>2. r[j] = s[l] /\ r[j + 1] = s[k + (j + 1)]
      BY <3>1, <1>6
    <3> HIDE DEF l
    <3>3. s[l] \in Instrs /\ s[l] # i /\ next[s[l]] = s[l + 1]
      BY <3>1, <1>3, <1>4
    <3>4. next'[s[l]] = s[l + 1]
      BY <3>3, <1>16
    <3> QED BY <3>1, <3>2, <3>4
  <2>4. ASSUME NEW j \in 1 .. m, j > 1 PROVE prev'[r[j]] = r[j - 1]
    <3> DEFINE l == k + j
    <3>1. l \in 1 .. n /\ l > 1 /\ l - 1 = k + (j - 1) /\ j - 1 \in 1 .. n - k /\ j # 1
      BY <2>4, <1>5, <1>7
    <3>2. r[j] = s[l] /\ r[j - 1] = s[k + (j - 1)]
      BY <3>1, <1>6
    <3> HIDE DEF l
    <3>3. s[l] \in Instrs /\ prev[s[l]] = s[l - 1]
      BY <3>1, <1>3
    <3>4. s[l] # r[1]
      BY <3>1, <3>2, <1>8, <1>9
    <3>5. prev'[s[l]] = s[l - 1]
      BY <3>3, <3>4, <1>16
    <3> QED BY <3>1, <3>2, <3>5
  <2>5. next'[r[m]] = Null
    <3>1. n # k /\ n \in 1 .. n /\ n > 0
      BY <1>3, <1>5
    <3>2. r[m] = s[n] /\ s[n] \in Instrs /\ s[n] # i
      BY <3>1, <1>3, <1>4, <1>9
    <3> QED BY <3>1, <3>2, <1>3, <1>16
  <2> HIDE DEF m
  <2>6. /\ \A j \in 1 .. Len(r) : bb'[r[j]] \in {c, Gone}
        /\ \A j, l \in 1 .. Len(r) : r[j] = r[l] => j = l
        /\ ~ (Len(r) = 0)
        /\ \A j \in 1 .. Len(r) : j < Len(r) => next'[r[j]] = r[j + 1]
        /\ \A j \in 1 .. Len(r) : j > 1 => prev'[r[j]] = r[j - 1]
    BY <2>1, <2>2, <2>3, <2>4, <1>6, <1>9
  <2>7. first'[c] = r[1] /\ last'[c] = r[Len(r)] /\ prev'[r[1]] = Null /\ next'[r[Len(r)]] = Null
    BY <2>1, <2>5, <1>6, <1>16
  <2> QED BY <2>6, <2>7, <1>6, FactsMakeList
<1>20. ASSUME NEW d \in Blocks, d # b, d # c PROVE ListOf(d, L[d])'
  <2> DEFINE q == L[d]
  <2>1. ListOf(d, q) /\ \A j \in 1 .. Len(q), l \in 1 .. n : q[j] # s[l]
    BY <1>1, <1>20 DEF s, n
  <2> HIDE DEF q
  <2>2. \A j \in 1 .. Len(q) : q[j] \in Instrs
    BY <2>1, ListFacts
  <2>3. \A j \in 1 .. Len(q) : q[j] # i /\ q[j] # r[1] /\ q[j] \notin ToSet(r)
    BY <2>1, <1>4, <1>6, <1>7, <1>8, <1>14
  <2>4. ListOf(d, q)'
    BY <2>1, <2>2, <2>3, <1>16, <1>20, KeptList
  <2> QED BY <2>4 DEF q
<1> DEFINE M == [L EXCEPT ![b] = f, ![c] = r]
<1>21. M \in Blocklists /\ M[b] = f /\ M[c] = r /\ \A d \in Blocks : d # b /\ d # c => M[d] = L[d]
  BY <1>6, <1>13 DEF Blocklists
<1> HIDE DEF M
<1>22. \A d \in Blocks : ListOf(d, M[d])'
  BY <1>18, <1>19, <1>20, <1>21
<1>23. ASSUME NEW d \in Blocks, NEW x
       PROVE  /\ In(M[d], x) => In(L[IF d = c THEN b ELSE d], x)
              /\ ~ (In(f, x) /\ In(r, x))
  <2>1. In(f, x) => \E j \in 1 .. n : j <= k /\ s[j] = x
    BY <1>5, <1>6 DEF In
  <2>2. In(r, x) => \E j \in 1 .. n : k < j /\ s[j] = x
    <3> SUFFICES ASSUME NEW j \in 1 .. n - k, r[j] = x PROVE \E l \in 1 .. n : k < l /\ s[l] = x
      BY <1>6 DEF In
    <3>1. k + j \in 1 .. n /\ k < k + j /\ s[k + j] = x
      BY <1>5, <1>6, <1>7
    <3> QED BY <3>1
  <2>3. In(f, x) \/ In(r, x) => In(L[b], x)
    BY <2>1, <2>2 DEF In, s, n
  <2>4. ~ (In(f, x) /\ In(r, x))
    <3> SUFFICES ASSUME In(f, x), In(r, x) PROVE FALSE
      OBVIOUS
    <3>1. PICK j \in 1 .. n : j <= k /\ s[j] = x
      BY <2>1
    <3>2. PICK l \in 1 .. n : k < l /\ s[l] = x
      BY <2>2
    <3>3. j = l
      BY <3>1, <3>2, <1>3
    <3> QED BY <3>1, <3>2, <3>3, <1>3, <1>5
  <2> QED BY <2>3, <2>4, <1>13, <1>21
<1>24. Apart(M)
  <2> SUFFICES ASSUME NEW d \in Blocks, NEW e \in Blocks, d # e, NEW x \in Instrs,
                      In(M[d], x), In(M[e], x)
               PROVE  FALSE
    BY DEF Apart
  <2>1. CASE {d, e} = {b, c}
    <3>1. In(f, x) /\ In(r, x)
      BY <2>1, <1>13, <1>21
    <3> QED BY <3>1, <1>23
  <2>2. CASE {d, e} # {b, c}
    <3> DEFINE d1 == IF d = c THEN b ELSE d
               e1 == IF e = c THEN b ELSE e
    <3>1. d1 \in Blocks /\ e1 \in Blocks /\ d1 # e1
      BY <2>2, <1>13
    <3>2. In(L[d1], x) /\ In(L[e1], x)
      BY <1>23
    <3> HIDE DEF d1, e1
    <3> QED BY <3>1, <3>2 DEF ListsAre, Apart
  <2> QED BY <2>1, <2>2
<1>25. ListsAre(M)'
  BY <1>22, <1>24 DEF ListsAre
<1>26. Splits(L, M, b, c)
  <2>1. k \in 1 .. Len(L[b]) - 1 /\ M = [L EXCEPT ![b] = SubSeq(L[b], 1, k),
                                                  ![c] = SubSeq(L[b], k + 1, Len(L[b]))]
    BY <1>5 DEF M, f, r, s, n
  <2> QED BY <2>1, <1>13, <1>17 DEF Splits
<1> QED BY <1>15, <1>21, <1>25, <1>26

-----------------------------------------------------------------------------
(***************************************************************************)
(* The theorems.  KeepOne and CleanInsert say how the library calls the    *)
(* operations; without them the lists do break.                            *)
(***************************************************************************)
\* What one step makes of lists L, in the words of InstrSequences.
Changes(L, M) == \/ M = L
                 \/ \E b \in Blocks : Fills(L, M, b) \/ Inserts(L, M, b) \/ Takes(L, M, b)
                 \/ \E b, c \in Blocks : Splits(L, M, b, c)

LEMMA InitHasLists ==
  ASSUME Init
  PROVE  PointerTypes /\ [b \in Blocks |-> << >>] \in Blocklists
         /\ ListsAre([b \in Blocks |-> << >>])
<1> DEFINE L == [b \in Blocks |-> << >>]
<1>1. PointerTypes
  BY DEF Init, PointerTypes, Ends
<1>2. L \in Blocklists /\ \A b \in Blocks : L[b] = << >>
  BY DEF Blocklists
<1> HIDE DEF L
<1>3. ASSUME NEW b \in Blocks PROVE ListOf(b, << >>)
  BY DEF Init, ListOf, IsInjective
<1>4. \A i : ~ In(<< >>, i)
  BY DEF In
<1> QED BY <1>1, <1>2, <1>3, <1>4 DEF ListsAre, Apart, L

LEMMA StepChanges ==
  ASSUME KeepOne, CleanInsert, PointerTypes, NEW L \in Blocklists, ListsAre(L), [Next]_vars
  PROVE  PointerTypes' /\ \E M \in Blocklists : ListsAre(M)' /\ Changes(L, M)
<1>1. ASSUME NEW b \in Blocks, NEW q,
             q \in UNION {[1 .. n -> Instrs] : n \in 1 .. Cardinality(Instrs)},
             MakeBasicBlock(b, q)
      PROVE  PointerTypes' /\ \E M \in Blocklists : ListsAre(M)' /\ Fills(L, M, b)
  BY <1>1, MakeBasicBlockStep
<1>2. ASSUME NEW b \in Blocks, NEW i \in Instrs,
             RemoveFirstInstr(b) \/ RemoveLastInstr(b) \/ RemoveInstr(b, i)
      PROVE  PointerTypes' /\ \E M \in Blocklists : ListsAre(M)' /\ Takes(L, M, b)
  BY <1>2, RemoveFirstInstrStep, RemoveLastInstrStep, RemoveInstrStep
<1>3. ASSUME NEW b \in Blocks, RemoveFirstInstr(b) \/ RemoveLastInstr(b)
      PROVE  PointerTypes' /\ \E M \in Blocklists : ListsAre(M)' /\ Takes(L, M, b)
  BY <1>3, RemoveFirstInstrStep, RemoveLastInstrStep
<1>4. ASSUME NEW b \in Blocks, NEW at \in Instrs, NEW i \in Instrs,
             InsertInstrBefore(b, at, i) \/ InsertInstrAfter(b, at, i)
      PROVE  PointerTypes' /\ \E M \in Blocklists : ListsAre(M)' /\ Inserts(L, M, b)
  BY <1>4, InsertInstrBeforeStep, InsertInstrAfterStep
<1>5. ASSUME NEW b \in Blocks, NEW c \in Blocks, NEW i \in Instrs, SplitOn(b, i, c)
      PROVE  PointerTypes' /\ \E M \in Blocklists : ListsAre(M)' /\ Splits(L, M, b, c)
  BY <1>5, SplitOnStep
<1>6. CASE UNCHANGED vars
  <2>1. first' = first /\ last' = last /\ prev' = prev /\ next' = next /\ bb' = bb
    BY <1>6 DEF vars
  <2>2. PointerTypes'
    BY <2>1 DEF PointerTypes
  <2>3. ListsAre(L)'
    BY <2>1 DEF ListsAre, ListOf, Apart
  <2> QED BY <2>2, <2>3 DEF Changes
<1>7. CASE Next
  <2>1. PICK b \in Blocks :
          \/ \E q \in UNION {[1 .. n -> Instrs] : n \in 1 .. Cardinality(Instrs)} :
               MakeBasicBlock(b, q)
          \/ RemoveFirstInstr(b)
          \/ RemoveLastInstr(b)
          \/ \E i \in Instrs : RemoveInstr(b, i)
          \/ \E at, i \in Instrs : InsertInstrBefore(b, at, i) \/ InsertInstrAfter(b, at, i)
          \/ \E i \in Instrs, c \in Blocks : SplitOn(b, i, c)
    BY <1>7, Zenon DEF Next
  <2>2. CASE \E q \in UNION {[1 .. n -> Instrs] : n \in 1 .. Cardinality(Instrs)} :
               MakeBasicBlock(b, q)
    BY <2>2, <1>1, Zenon DEF Changes
  <2>3. CASE RemoveFirstInstr(b) \/ RemoveLastInstr(b)
    BY <2>3, <1>3, Zenon DEF Changes
  <2>4. CASE \E i \in Instrs : RemoveInstr(b, i)
    BY <2>4, <1>2, Zenon DEF Changes
  <2>5. CASE \E at, i \in Instrs : InsertInstrBefore(b, at, i) \/ InsertInstrAfter(b, at, i)
    BY <2>5, <1>4, Zenon DEF Changes
  <2>6. CASE \E i \in Instrs, c \in Blocks : SplitOn(b, i, c)
    BY <2>6, <1>5, Zenon DEF Changes
  <2> QED BY <2>1, <2>2, <2>3, <2>4, <2>5, <2>6, Zenon
<1> QED BY <1>6, <1>7

\* Whatever operations run, the pointers of every block describe one sequence of
\* instructions, and no instruction is in two.
THEOREM PointersAreLists ==
  ASSUME KeepOne, CleanInsert PROVE Spec => []LinkInv
<1>1. Init => LinkInv
  BY InitHasLists DEF LinkInv, Blocklists
<1>2. LinkInv /\ [Next]_vars => LinkInv'
  <2> SUFFICES ASSUME LinkInv, [Next]_vars PROVE LinkInv'
    OBVIOUS
  <2>1. PICK L \in Blocklists : ListsAre(L)
    BY DEF LinkInv, Blocklists
  <2>2. PointerTypes' /\ \E M \in Blocklists : ListsAre(M)'
    BY <2>1, StepChanges DEF LinkInv
  <2> QED BY <2>2 DEF LinkInv, Blocklists
<1> QED BY <1>1, <1>2, PTL DEF Spec

\* Whatever sequence of the library's operations runs, on however many blocks
\* and instructions: each list is the same read from either end, no instruction
\* is in two lists, and IsNextTo tells the order of the list.
THEOREM ListsReadBothWays ==
  ASSUME KeepOne, CleanInsert PROVE Spec => []ChainsAgree
<1>1. LinkInv => ChainsAgree
  BY InvIsChainsAgree
<1> QED BY <1>1, PointersAreLists, PTL

\* bb_ of an instruction in a list is that list's block or a temporary SplitOn
\* has destroyed.
THEOREM OwnerIsNeverAnother ==
  ASSUME KeepOne, CleanInsert PROVE Spec => []BbNeverAnotherBlock
<1>1. LinkInv => BbNeverAnotherBlock
  BY InvIsChainsAgree
<1> QED BY <1>1, PointersAreLists, PTL

\* The lists the pointers describe, before and after a step.
LEMMA ListsMet ==
  ASSUME PointerTypes, NEW L \in Blocklists, ListsAre(L)
  PROVE  [b \in Blocks |-> GetAllInstrs(b)] = L
<1>1. \A b \in Blocks : GetAllInstrs(b) = L[b]
  BY PlacedOnce
<1>2. L = [b \in Blocks |-> L[b]]
  BY DEF Blocklists
<1> QED BY <1>1, <1>2

LEMMA ListsMetNext ==
  ASSUME PointerTypes', NEW M \in Blocklists, ListsAre(M)'
  PROVE  [b \in Blocks |-> GetAllInstrs(b)]' = M
<1>1. ASSUME NEW b \in Blocks PROVE Follow(next', first'[b]) = M[b]
  <2> DEFINE s == M[b]
  <2>1. ListOf(b, s)'
    BY DEF ListsAre
  <2> HIDE DEF s
  <2>2. Chain(next', s) /\ first'[b] = IF s = << >> THEN Null ELSE s[1]
    BY <2>1 DEF ListOf, Chain
  <2>3. next' \in [Instrs -> Ends]
    BY DEF PointerTypes
  <2>4. Follow(next', IF s = << >> THEN Null ELSE s[1]) = s
    BY <2>2, <2>3, FollowIs
  <2> QED BY <2>2, <2>4 DEF s
<1>2. M = [b \in Blocks |-> M[b]]
  BY DEF Blocklists
<1>3. \A b \in Blocks : GetAllInstrs(b)' = M[b]
  BY <1>1 DEF GetAllInstrs
<1> QED BY <1>2, <1>3

\* Every step of the pointers is a step of the sequences, or changes none.
LEMMA StepOfSequences ==
  ASSUME NEW L \in Blocklists, NEW M \in Blocklists, Changes(L, M),
         PointerTypes, ListsAre(L), PointerTypes', ListsAre(M)'
  PROVE  [Lists!Next]_([b \in Blocks |-> GetAllInstrs(b)])
<1> DEFINE list == [b \in Blocks |-> GetAllInstrs(b)]
<1>1. list = L /\ list' = M
  BY ListsMet, ListsMetNext
<1>2. Lists!Placed = PlacedIn(L)
  <2>1. \A b \in Blocks : list[b] = GetAllInstrs(b)
    OBVIOUS
  <2>2. Lists!Placed = Listed
    BY <2>1 DEF Lists!Placed, Listed, Lists!ToSet, ToSet
  <2> QED BY <2>2, PlacedOnce
<1> HIDE DEF list
<1>3. ASSUME NEW b \in Blocks, Fills(L, M, b) PROVE Lists!Fill(b)
  <2>1. /\ IsInjective(M[b]) /\ ToSet(M[b]) \subseteq Instrs \ PlacedIn(L)
        /\ list[b] = << >> /\ list' = [list EXCEPT ![b] = M[b]]
    BY <1>1, <1>3 DEF Fills
  <2>2. Lists!IsInjective(M[b])
    BY <2>1 DEF IsInjective, Lists!IsInjective
  <2>3. Lists!ToSet(M[b]) \subseteq Instrs \ Lists!Placed
    BY <2>1, <1>2 DEF ToSet, Lists!ToSet
  <2>4. list'[b] = M[b]
    BY <1>1
  <2>5. /\ Lists!IsInjective(list'[b]) /\ Lists!ToSet(list'[b]) \subseteq Instrs \ Lists!Placed
        /\ list[b] = << >> /\ list' = [list EXCEPT ![b] = list'[b]]
    BY <2>1, <2>2, <2>3, <2>4
  <2> QED BY <2>5 DEF Lists!Fill, list
<1>4. ASSUME NEW b \in Blocks, Inserts(L, M, b) PROVE Lists!Insert(b)
  <2>1. PICK i \in Instrs \ PlacedIn(L), k \in 1 .. Len(L[b]) + 1 :
          L[b] # << >> /\ M = [L EXCEPT ![b] = InsertAt(L[b], k, i)]
    BY <1>4 DEF Inserts
  <2>2. InsertAt(L[b], k, i) = Lists!InsertAt(L[b], k, i)
    BY Zenon DEF InsertAt, Lists!InsertAt
  <2>3. /\ i \in Instrs \ Lists!Placed /\ k \in 1 .. Len(list[b]) + 1 /\ list[b] # << >>
        /\ list' = [list EXCEPT ![b] = Lists!InsertAt(list[b], k, i)]
    BY <2>1, <2>2, <1>1, <1>2
  <2> QED BY <2>3 DEF Lists!Insert, list
<1>5. ASSUME NEW b \in Blocks, Takes(L, M, b) PROVE Lists!Take(b)
  BY <1>1, <1>5 DEF Takes, Lists!Take, list, RemoveAt, Lists!RemoveAt
<1>6. ASSUME NEW b \in Blocks, NEW c \in Blocks, Splits(L, M, b, c) PROVE b # c /\ Lists!Split(b, c)
  BY <1>1, <1>6 DEF Splits, Lists!Split, list
<1>7. M = L => list' = list
  BY <1>1
<1> QED BY <1>3, <1>4, <1>5, <1>6, <1>7 DEF Changes, Lists!Next, list

\* The pointers implement InstrSequences: what every operation does to the lists
\* is to fill one, to insert or to take one instruction, or to split one in two.
THEOREM PointersImplementSequences ==
  ASSUME KeepOne, CleanInsert PROVE Spec => ListsSpec
<1>1. Init => Lists!Init
  <2> SUFFICES ASSUME Init PROVE Lists!Init
    OBVIOUS
  <2> QED BY InitHasLists, ListsMet DEF Lists!Init
<1>2. LinkInv /\ [Next]_vars => [Lists!Next]_([b \in Blocks |-> GetAllInstrs(b)])
  <2> SUFFICES ASSUME LinkInv, [Next]_vars
               PROVE  [Lists!Next]_([b \in Blocks |-> GetAllInstrs(b)])
    OBVIOUS
  <2>1. PointerTypes /\ \E L \in Blocklists : ListsAre(L)
    BY DEF LinkInv, Blocklists
  <2>2. PICK L \in Blocklists : ListsAre(L)
    BY <2>1
  <2>3. PointerTypes' /\ \E M \in Blocklists : ListsAre(M)' /\ Changes(L, M)
    BY <2>1, <2>2, StepChanges
  <2>4. PICK M \in Blocklists : ListsAre(M)' /\ Changes(L, M)
    BY <2>3
  <2> QED BY <2>1, <2>2, <2>3, <2>4, StepOfSequences
<1> QED BY <1>1, <1>2, PointersAreLists, PTL DEF Spec, ListsSpec, Lists!Spec
=============================================================================
