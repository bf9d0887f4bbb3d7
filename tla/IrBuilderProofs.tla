---------------------------- MODULE IrBuilderProofs ----------------------------
(***************************************************************************)
(* Theorems about IrBuilder, for streams of any length: how the stream is  *)
(* cut into blocks, which streams become a graph, and which ids the graph  *)
(* ends up with.                                                           *)
(***************************************************************************)
EXTENDS IrBuilder, SequenceTheorems, FiniteSetTheorems, TLAPS

\* For the least-number principle, which does not depend on the set of blocks.
R == INSTANCE ReachabilityTheorems WITH Blocks <- Nat

(***************************************************************************)
(* Sequences of sequences that hold 1 .. r in order.                       *)
(***************************************************************************)
Ordered(parts, r) ==
  /\ \A b \in DOMAIN parts : \A k \in DOMAIN parts[b] : parts[b][k] \in 1 .. r
  /\ \A x \in 1 .. r : \E b \in DOMAIN parts : \E k \in DOMAIN parts[b] : parts[b][k] = x
  /\ \A b \in DOMAIN parts : \A j, k \in DOMAIN parts[b] : j < k => parts[b][j] < parts[b][k]
  /\ \A a, b \in DOMAIN parts : \A j \in DOMAIN parts[a], k \in DOMAIN parts[b] :
       a < b => parts[a][j] < parts[b][k]

\* An empty part at the end changes nothing.
LEMMA OrderedEmpty ==
  ASSUME NEW parts \in Seq(Seq(Nat)), NEW r \in Nat, Ordered(parts, r)
  PROVE  Ordered(Append(parts, << >>), r)
<1> DEFINE q == Append(parts, << >>)
<1>1. /\ Len(parts) \in Nat /\ DOMAIN parts = 1 .. Len(parts)
      /\ DOMAIN q = 1 .. Len(parts) + 1
      /\ \A b \in DOMAIN parts : q[b] = parts[b]
      /\ DOMAIN q[Len(parts) + 1] = {}
  OBVIOUS
<1> HIDE DEF q
<1>2. \A b \in DOMAIN q : \A k \in DOMAIN q[b] : b \in DOMAIN parts /\ q[b] = parts[b]
  BY <1>1
<1>3. Ordered(q, r)
  <2>1. \A b \in DOMAIN q : \A k \in DOMAIN q[b] : q[b][k] \in 1 .. r
    BY <1>2 DEF Ordered
  <2>2. \A x \in 1 .. r : \E b \in DOMAIN q : \E k \in DOMAIN q[b] : q[b][k] = x
    <3> SUFFICES ASSUME NEW x \in 1 .. r
                 PROVE  \E b \in DOMAIN q : \E k \in DOMAIN q[b] : q[b][k] = x
      OBVIOUS
    <3>1. PICK b \in DOMAIN parts : \E k \in DOMAIN parts[b] : parts[b][k] = x
      BY DEF Ordered
    <3>2. b \in DOMAIN q /\ q[b] = parts[b]
      BY <1>1
    <3> QED BY <3>1, <3>2
  <2>3. \A b \in DOMAIN q : \A j, k \in DOMAIN q[b] : j < k => q[b][j] < q[b][k]
    BY <1>2 DEF Ordered
  <2>4. \A a, b \in DOMAIN q : \A j \in DOMAIN q[a], k \in DOMAIN q[b] :
          a < b => q[a][j] < q[b][k]
    BY <1>2 DEF Ordered
  <2> QED BY <2>1, <2>2, <2>3, <2>4 DEF Ordered
<1> QED BY <1>3 DEF q

\* The next number goes to the end of the last part.
LEMMA OrderedNext ==
  ASSUME NEW parts \in Seq(Seq(Nat)), NEW last \in Seq(Nat), NEW r \in Nat,
         Ordered(Append(parts, last), r)
  PROVE  Ordered(Append(parts, Append(last, r + 1)), r + 1)
<1> DEFINE p == Append(parts, last)
           more == Append(last, r + 1)
           q == Append(parts, more)
           n == Len(parts) + 1
<1>1. /\ Len(parts) \in Nat /\ n \in Nat \ {0}
      /\ DOMAIN p = 1 .. n /\ DOMAIN q = 1 .. n
      /\ \A b \in 1 .. n : b # n => q[b] = p[b]
      /\ p[n] = last /\ q[n] = more
  OBVIOUS
<1>2. /\ Len(last) \in Nat /\ DOMAIN last = 1 .. Len(last)
      /\ DOMAIN more = 1 .. Len(last) + 1
      /\ \A k \in DOMAIN last : more[k] = last[k]
      /\ more[Len(last) + 1] = r + 1
  OBVIOUS
<1> HIDE DEF p, q, more, n
<1>3. Ordered(p, r)
  BY DEF p
<1>4. \A b \in 1 .. n : /\ b <= n
                        /\ b = n \/ (b < n /\ q[b] = p[b])
                        /\ DOMAIN p[b] \subseteq Nat
                        /\ DOMAIN p[b] \subseteq DOMAIN q[b]
                        /\ \A k \in DOMAIN p[b] : q[b][k] = p[b][k]
  <2> SUFFICES ASSUME NEW b \in 1 .. n
               PROVE  /\ b <= n
                      /\ b = n \/ (b < n /\ q[b] = p[b])
                      /\ DOMAIN p[b] \subseteq Nat
                      /\ DOMAIN p[b] \subseteq DOMAIN q[b]
                      /\ \A k \in DOMAIN p[b] : q[b][k] = p[b][k]
    OBVIOUS
  <2>1. CASE b = n
    BY <2>1, <1>1, <1>2
  <2>2. CASE b # n
    <3>1. p[b] = parts[b] /\ parts[b] \in Seq(Nat)
      BY <2>2, <1>1 DEF p, n
    <3> QED BY <3>1, <2>2, <1>1
  <2> QED BY <2>1, <2>2
<1>5. \A b \in 1 .. n : \A k \in DOMAIN q[b] :
        \/ k \in DOMAIN p[b]
        \/ b = n /\ k = Len(last) + 1 /\ q[b][k] = r + 1
  BY <1>1, <1>2, <1>4
<1>6. \A k \in DOMAIN p[n] : k < Len(last) + 1
  BY <1>1, <1>2
<1>7. Ordered(q, r + 1)
  <2>1. ASSUME NEW b \in 1 .. n, NEW k \in DOMAIN q[b]
        PROVE  q[b][k] \in 1 .. r + 1
    <3>1. CASE k \in DOMAIN p[b]
      <4>1. p[b][k] \in 1 .. r
        BY <3>1, <1>1, <1>3 DEF Ordered
      <4> QED BY <4>1, <3>1, <1>4
    <3> QED BY <3>1, <1>5
  <2>2. ASSUME NEW x \in 1 .. r + 1
        PROVE  \E b \in 1 .. n : \E k \in DOMAIN q[b] : q[b][k] = x
    <3>1. CASE x = r + 1
      <4>1. n \in 1 .. n /\ q[n] = more /\ Len(last) + 1 \in DOMAIN more
        BY <1>1, <1>2
      <4> QED BY <3>1, <4>1, <1>2
    <3>2. CASE x \in 1 .. r
      <4>1. PICK b \in 1 .. n : \E k \in DOMAIN p[b] : p[b][k] = x
        BY <3>2, <1>1, <1>3 DEF Ordered
      <4> QED BY <4>1, <1>4
    <3> QED BY <3>1, <3>2
  <2>3. ASSUME NEW b \in 1 .. n, NEW j \in DOMAIN q[b], NEW k \in DOMAIN q[b], j < k
        PROVE  q[b][j] < q[b][k]
    <3>1. CASE j \in DOMAIN p[b] /\ k \in DOMAIN p[b]
      <4>1. p[b][j] < p[b][k]
        BY <3>1, <2>3, <1>1, <1>3 DEF Ordered
      <4> QED BY <4>1, <3>1, <1>4
    <3>2. CASE j \in DOMAIN p[b] /\ k \notin DOMAIN p[b]
      <4>1. p[b][j] \in 1 .. r
        BY <3>2, <1>1, <1>3 DEF Ordered
      <4> QED BY <4>1, <3>2, <1>4, <1>5
    <3>3. CASE j \notin DOMAIN p[b]
      <4>1. b = n /\ j = Len(last) + 1
        BY <3>3, <1>5
      <4>2. k <= Len(last) + 1 /\ k \in Nat
        BY <4>1, <1>1, <1>2
      <4> QED BY <4>1, <4>2, <2>3, <1>2
    <3> QED BY <3>1, <3>2, <3>3
  <2>4. ASSUME NEW a \in 1 .. n, NEW b \in 1 .. n, NEW j \in DOMAIN q[a],
               NEW k \in DOMAIN q[b], a < b
        PROVE  q[a][j] < q[b][k]
    <3>1. j \in DOMAIN p[a] /\ q[a][j] = p[a][j] /\ p[a][j] \in 1 .. r
      <4>1. a # n
        BY <2>4, <1>1
      <4>2. j \in DOMAIN p[a]
        BY <4>1, <1>5
      <4> QED BY <4>2, <1>1, <1>3, <1>4 DEF Ordered
    <3>2. CASE k \in DOMAIN p[b]
      <4>1. p[a][j] < p[b][k]
        BY <3>1, <3>2, <2>4, <1>1, <1>3 DEF Ordered
      <4> QED BY <4>1, <3>1, <3>2, <1>4
    <3> QED BY <3>1, <3>2, <1>5
  <2> QED BY <1>1, <2>1, <2>2, <2>3, <2>4 DEF Ordered
<1> QED BY <1>7 DEF q, more

-----------------------------------------------------------------------------
(***************************************************************************)
(* The inductive invariant.                                                *)
(***************************************************************************)
TypeInv ==
  /\ insns \in Seq(Insns(Len(insns)))
  /\ cut \in [bbs : Seq(Seq(Nat)), buf : Seq(Nat)]
  /\ next \in Nat \ {0} /\ num \in Nat
  /\ pc \in {"start", "refused", "split", "connect", "undefined", "partial",
             "aborted", "thrown", "done"}

\* The instructions that end a block by what they are.
Closing(x) == IsControlFlow(insns[x].op) /\ ~insns[x].is_target

\* The buffer ends where the reading has got to, and is empty only behind a cut.
BufferInv ==
  /\ cut.buf # << >> => cut.buf[Len(cut.buf)] = Read
  /\ cut.buf = << >> <=> (Read = 0 \/ Closing(Read))
  /\ \A k \in DOMAIN cut.buf :
       LET x == insns[cut.buf[k]]
       IN  /\ x.is_target => k = 1
           /\ IsControlFlow(x.op) => k = 1 /\ x.is_target

\* Blocks end where the stream is cut, and all cuts so far have made a block; one
\* is empty if and only if the stream is cut in front of a target anyway.
CutAt(x) == \E b \in DOMAIN Bbs : Bbs[b] # << >> /\ Bbs[b][Len(Bbs[b])] = x

ExitsInv == \A b \in DOMAIN Bbs : Bbs[b] # << >> => Bbs[b][Len(Bbs[b])] \in Exits
CutsInv == \A x \in 1 .. Read : Closing(x) \/ (x < Read /\ insns[x + 1].is_target) => CutAt(x)
EmptyInv == (\E b \in DOMAIN Bbs : Bbs[b] = << >>)
              <=> (\E x \in 1 .. Read : insns[x].is_target /\ (x = 1 \/ Closing(x - 1)))

\* The blocks the connecting loop has passed, and what it has done with them.
Joined(b) == ~IsReturn(LastInstr(b).op)

EndBlock == CHOOSE b \in Reached : b + 1 \notin Reached
Numbering == [b \in DOMAIN Bbs |-> IF b = EndBlock THEN 1
                                    ELSE IF b \in Reached THEN b - 1 ELSE NoId]

PhaseInv ==
  /\ pc \in {"start", "refused"} => next = 1 /\ cut = [bbs |-> << >>, buf |-> << >>]
  /\ pc = "split" => next <= Len(insns) + 1
  /\ pc \in {"start", "refused", "split"} => edges = {} /\ num = 0
  /\ pc = "connect" => /\ Bbs # << >> /\ next <= Len(Bbs) + 1
                       /\ num = 1 /\ id = [b \in DOMAIN Bbs |-> IF b = 1 THEN 0 ELSE NoId]
  /\ pc = "done" => Bbs # << >> /\ next = Len(Bbs) + 1 /\ id = Numbering
  /\ pc \in {"connect", "done"} =>
       /\ \A b \in 1 .. next - 1 : Ending(b) = "connect"
       /\ edges = {<<b, b + 1>> : b \in {a \in 1 .. next - 1 : Joined(a)}}
  /\ pc \in {"undefined", "partial", "aborted", "thrown"} =>
       Bbs = << >> \/ \E b \in DOMAIN Bbs : Ending(b) = pc

BuilderInv == TypeInv /\ StreamPartitioned /\ BufferInv /\ ExitsInv /\ CutsInv /\ EmptyInv /\ PhaseInv

\* The last part of StreamPartitioned: the blocks are basic.
BasicBlocks ==
  \A b \in DOMAIN Bbs : \A k \in DOMAIN Bbs[b] :
    LET x == insns[Bbs[b][k]]
    IN  /\ x.is_target => k = 1
        /\ IsControlFlow(x.op) /\ k < Len(Bbs[b]) => k = 1 /\ x.is_target

LEMMA Partitioned == StreamPartitioned <=> Ordered(Parts, Read) /\ BasicBlocks
<1>1. UNION {ToSet(Parts[b]) : b \in DOMAIN Parts} = 1 .. Read <=>
        /\ \A b \in DOMAIN Parts : \A k \in DOMAIN Parts[b] : Parts[b][k] \in 1 .. Read
        /\ \A x \in 1 .. Read : \E b \in DOMAIN Parts : \E k \in DOMAIN Parts[b] : Parts[b][k] = x
  BY DEF ToSet
<1>2. (\A a, b \in DOMAIN Parts :
         a < b => \A x \in ToSet(Parts[a]), y \in ToSet(Parts[b]) : x < y) <=>
        \A a, b \in DOMAIN Parts : \A j \in DOMAIN Parts[a], k \in DOMAIN Parts[b] :
          a < b => Parts[a][j] < Parts[b][k]
  BY DEF ToSet
<1> QED BY <1>1, <1>2 DEF StreamPartitioned, Ordered, BasicBlocks

LEMMA InitInv == Init => BuilderInv
<1> SUFFICES ASSUME Init PROVE BuilderInv
  OBVIOUS
<1>1. /\ cut.bbs = << >> /\ cut.buf = << >> /\ Bbs = << >> /\ DOMAIN Bbs = {}
      /\ next = 1 /\ edges = {} /\ num = 0 /\ pc = "start"
  BY DEF Init, Bbs
<1>2. Read = 0
  BY <1>1 DEF Read
<1>3. TypeInv
  <2>1. insns \in Seq(Insns(Len(insns)))
    BY StreamsAssumption DEF Init
  <2> QED BY <2>1 DEF Init, TypeInv
<1>4. Ordered(Parts, Read)
  <2>1. Parts = << << >> >>
    BY <1>1 DEF Parts
  <2>2. DOMAIN Parts = {1} /\ DOMAIN Parts[1] = {}
    BY <2>1
  <2>3. 1 .. Read = {}
    BY <1>2
  <2> QED BY <2>2, <2>3 DEF Ordered
<1>5. BasicBlocks /\ ExitsInv
  BY <1>1 DEF BasicBlocks, ExitsInv
<1>6. BufferInv
  BY <1>1, <1>2 DEF BufferInv
<1>7. CutsInv /\ EmptyInv
  BY <1>1, <1>2 DEF CutsInv, EmptyInv
<1>8. PhaseInv
  BY <1>1 DEF PhaseInv, Init
<1> QED BY <1>3, <1>4, <1>5, <1>6, <1>7, <1>8, Partitioned DEF BuilderInv

\* A part v of the stream put among the blocks becomes a block of its own.
LEMMA BlockAppended ==
  ASSUME BuilderInv, insns' = insns, NEW v \in Seq(Nat),
         cut'.bbs = Append(cut.bbs, v),
         v # << >> => v[Len(v)] \in Exits,
         \A k \in DOMAIN v : /\ insns[v[k]].is_target => k = 1
                             /\ IsControlFlow(insns[v[k]].op) /\ k < Len(v) =>
                                  k = 1 /\ insns[v[k]].is_target
  PROVE  /\ BasicBlocks' /\ ExitsInv'
         /\ \A y : CutAt(y)' <=> CutAt(y) \/ (v # << >> /\ v[Len(v)] = y)
         /\ (\E b \in DOMAIN Bbs : Bbs[b] = << >>)' <=>
              (\E b \in DOMAIN Bbs : Bbs[b] = << >>) \/ v = << >>
<1> DEFINE n == Len(cut.bbs)
<1>1. /\ DOMAIN Bbs' = 1 .. n + 1 /\ DOMAIN Bbs = 1 .. n /\ n \in Nat
      /\ \A b \in 1 .. n : Bbs'[b] = Bbs[b]
      /\ Bbs'[n + 1] = v
  BY DEF Bbs, TypeInv, BuilderInv
<1>2. \A b \in 1 .. n + 1 : b \in 1 .. n \/ b = n + 1
  BY <1>1
<1>3. n + 1 \in 1 .. n + 1 /\ \A b \in 1 .. n : b \in 1 .. n + 1
  BY <1>1
<1> HIDE DEF n
<1>4. BasicBlocks /\ ExitsInv
  BY Partitioned DEF BuilderInv
<1>5. BasicBlocks'
  <2> SUFFICES ASSUME NEW b \in 1 .. n + 1, NEW k \in DOMAIN Bbs'[b]
               PROVE  /\ insns[Bbs'[b][k]].is_target => k = 1
                      /\ IsControlFlow(insns[Bbs'[b][k]].op) /\ k < Len(Bbs'[b]) =>
                           k = 1 /\ insns[Bbs'[b][k]].is_target
    BY <1>1, Zenon DEF BasicBlocks
  <2>1. CASE b \in 1 .. n
    BY <2>1, <1>1, <1>4, Zenon DEF BasicBlocks
  <2>2. CASE b = n + 1
    BY <2>2, <1>1, Zenon
  <2> QED BY <2>1, <2>2, <1>2
<1>6. ExitsInv'
  <2>1. Exits' = Exits
    BY DEF Exits
  <2> SUFFICES ASSUME NEW b \in 1 .. n + 1, Bbs'[b] # << >>
               PROVE  Bbs'[b][Len(Bbs'[b])] \in Exits
    BY <1>1, <2>1, Zenon DEF ExitsInv
  <2>2. CASE b \in 1 .. n
    BY <2>2, <1>1, <1>4, Zenon DEF ExitsInv
  <2>3. CASE b = n + 1
    BY <2>3, <1>1, Zenon
  <2> QED BY <2>2, <2>3, <1>2
<1>7. ASSUME NEW y PROVE CutAt(y)' <=> CutAt(y) \/ (v # << >> /\ v[Len(v)] = y)
  BY <1>1, <1>2, <1>3, Zenon DEF CutAt
<1>8. (\E b \in DOMAIN Bbs : Bbs[b] = << >>)' <=>
        (\E b \in DOMAIN Bbs : Bbs[b] = << >>) \/ v = << >>
  BY <1>1, <1>2, <1>3, Zenon
<1> QED BY <1>5, <1>6, <1>7, <1>8

\* What reading one instruction leaves alone, and what the invariant says of the
\* instruction and of the state before it.
LEMMA BuildBlockFacts ==
  ASSUME BuilderInv, BuildBlock
  PROVE  /\ pc = "split" /\ pc' = "split" /\ next \in Nat \ {0} /\ next <= Len(insns)
         /\ next' = next + 1 /\ insns' = insns /\ Read = next - 1 /\ Read' = next
         /\ Len(insns) \in Nat /\ next \in DOMAIN insns /\ DOMAIN insns = 1 .. Len(insns)
         /\ cut.bbs \in Seq(Seq(Nat)) /\ cut.buf \in Seq(Nat)
         /\ Ordered(Append(cut.bbs, cut.buf), next - 1)
         /\ PhaseInv'
<1>0. TypeInv /\ PhaseInv /\ Ordered(Parts, Read)
  BY Partitioned DEF BuilderInv
<1>1. /\ pc = "split" /\ pc' = "split" /\ next \in Nat \ {0} /\ next <= Len(insns)
      /\ next' = next + 1 /\ insns' = insns /\ edges' = edges /\ num' = num
      /\ Len(insns) \in Nat /\ next \in DOMAIN insns /\ DOMAIN insns = 1 .. Len(insns)
      /\ cut.bbs \in Seq(Seq(Nat)) /\ cut.buf \in Seq(Nat)
  BY <1>0 DEF BuildBlock, TypeInv
<1>2. Read = next - 1 /\ Read' = next
  BY <1>1 DEF Read
<1>3. PhaseInv'
  BY <1>0, <1>1 DEF PhaseInv
<1> QED BY <1>0, <1>1, <1>2, <1>3 DEF Parts, Bbs

LEMMA TargetInv == ASSUME BuilderInv, BuildBlock, insns[next].is_target PROVE BuilderInv'
<1> DEFINE x == next
           u == cut.buf
<1>1. /\ TypeInv /\ BufferInv /\ CutsInv /\ EmptyInv
      /\ x \in Nat \ {0} /\ insns' = insns /\ Read = x - 1 /\ Read' = x
      /\ Len(insns) \in Nat /\ x \in DOMAIN insns /\ DOMAIN insns = 1 .. Len(insns)
      /\ u \in Seq(Nat) /\ PhaseInv' /\ pc' = pc /\ next' = x + 1 /\ num' = num
  BY BuildBlockFacts DEF BuilderInv, BuildBlock
<1>2. cut' = [bbs |-> Append(cut.bbs, u), buf |-> <<x>>]
  BY DEF BuildBlock, AtTarget
<1>3. TypeInv'
  <2>1. cut' \in [bbs : Seq(Seq(Nat)), buf : Seq(Nat)]
    BY <1>1, <1>2 DEF TypeInv
  <2> QED BY <2>1, <1>1 DEF TypeInv
<1>4. Ordered(Parts, Read)'
  <2>1. /\ cut.bbs \in Seq(Seq(Nat)) /\ x - 1 \in Nat /\ Append(cut.bbs, u) \in Seq(Seq(Nat))
        /\ << >> \in Seq(Nat) /\ Append(<< >>, x) = <<x>> /\ (x - 1) + 1 = x
    BY <1>1 DEF TypeInv
  <2>2. Ordered(Append(Append(cut.bbs, u), << >>), x - 1)
    BY <2>1, <1>1, OrderedEmpty, BuildBlockFacts, Zenon
  <2>3. Ordered(Append(Append(cut.bbs, u), Append(<< >>, (x - 1) + 1)), (x - 1) + 1)
    BY <2>1, <2>2, OrderedNext, Zenon
  <2>4. Parts' = Append(Append(cut.bbs, u), <<x>>)
    BY <1>2 DEF Parts, Bbs
  <2>5. Ordered(Parts', Read')
    BY <2>1, <2>3, <2>4, <1>1, Zenon
  <2> QED BY <2>5 DEF Ordered
<1>5. u # << >> => u[Len(u)] = x - 1 /\ x - 1 \in Exits
  BY <1>1 DEF BufferInv, Exits
<1>6. u = << >> <=> (x = 1 \/ Closing(x - 1))
  BY <1>1 DEF BufferInv
<1>7. /\ BasicBlocks' /\ ExitsInv'
      /\ \A y : CutAt(y)' <=> CutAt(y) \/ (u # << >> /\ u[Len(u)] = y)
      /\ (\E b \in DOMAIN Bbs : Bbs[b] = << >>)' <=>
           (\E b \in DOMAIN Bbs : Bbs[b] = << >>) \/ u = << >>
  <2>1. \A k \in DOMAIN u : /\ insns[u[k]].is_target => k = 1
                            /\ IsControlFlow(insns[u[k]].op) /\ k < Len(u) =>
                                 k = 1 /\ insns[u[k]].is_target
    BY <1>1 DEF BufferInv
  <2>2. cut'.bbs = Append(cut.bbs, u)
    BY <1>2
  <2> HIDE DEF u
  <2>3. (u # << >>) => u[Len(u)] \in Exits
    BY <1>5
  <2> QED BY <2>1, <2>2, <2>3, <1>1, BlockAppended
<1>8. BufferInv'
  <2>1. cut'.buf = <<x>> /\ Len(cut'.buf) = 1 /\ cut'.buf[1] = x /\ DOMAIN cut'.buf = {1}
    BY <1>2
  <2> QED BY <2>1, <1>1 DEF BufferInv, Closing
<1>9. CutsInv'
  <2> SUFFICES ASSUME NEW y \in 1 .. x,
                      Closing(y) \/ (y < x /\ insns[y + 1].is_target)
               PROVE  CutAt(y)'
    BY <1>1 DEF CutsInv, Closing
  <2>1. y # x
    BY DEF Closing
  <2>2. y < x /\ y \in 1 .. x - 1
    BY <2>1, <1>1
  <2>3. CASE Closing(y) \/ (y < x - 1 /\ insns[y + 1].is_target)
    BY <2>2, <2>3, <1>1, <1>7 DEF CutsInv
  <2>4. CASE ~Closing(y) /\ y = x - 1
    BY <2>2, <2>4, <1>5, <1>6, <1>7
  <2> QED BY <2>2, <2>3, <2>4, <1>1
<1>10. EmptyInv'
  <2>1. (\E y \in 1 .. x : insns[y].is_target /\ (y = 1 \/ Closing(y - 1))) <=>
          (\E y \in 1 .. x - 1 : insns[y].is_target /\ (y = 1 \/ Closing(y - 1))) \/ u = << >>
    <3> DEFINE Q(y) == insns[y].is_target /\ (y = 1 \/ Closing(y - 1))
    <3>1. Q(x) <=> u = << >>
      BY <1>6
    <3> HIDE DEF Q
    <3>2. \A y : y \in 1 .. x <=> (y \in 1 .. x - 1 \/ y = x)
      BY <1>1
    <3>3. (\E y \in 1 .. x : Q(y)) <=> (\E y \in 1 .. x - 1 : Q(y)) \/ u = << >>
      BY <3>1, <3>2
    <3> QED BY <3>3 DEF Q
  <2>2. (\E y \in 1 .. Read : insns[y].is_target /\ (y = 1 \/ Closing(y - 1)))' <=>
        (\E y \in 1 .. x : insns[y].is_target /\ (y = 1 \/ Closing(y - 1)))
    BY <1>1 DEF Closing
  <2> QED BY <2>1, <2>2, <1>1, <1>7 DEF EmptyInv
<1>11. StreamPartitioned'
  BY <1>4, <1>7, Partitioned, PTL
<1> QED BY <1>1, <1>3, <1>7, <1>8, <1>9, <1>10, <1>11 DEF BuilderInv

LEMMA ControlInv ==
  ASSUME BuilderInv, BuildBlock, ~insns[next].is_target, IsControlFlow(insns[next].op)
  PROVE  BuilderInv'
<1> DEFINE x == next
           u == cut.buf
           v == Append(u, x)
<1>1. /\ TypeInv /\ BufferInv /\ CutsInv /\ EmptyInv
      /\ x \in Nat \ {0} /\ insns' = insns /\ Read = x - 1 /\ Read' = x
      /\ Len(insns) \in Nat /\ x \in DOMAIN insns /\ DOMAIN insns = 1 .. Len(insns)
      /\ u \in Seq(Nat) /\ PhaseInv' /\ pc' = pc /\ next' = x + 1 /\ num' = num
  BY BuildBlockFacts DEF BuilderInv, BuildBlock
<1>2. cut' = [bbs |-> Append(cut.bbs, v), buf |-> << >>]
  BY DEF BuildBlock, AtControlFlow
<1>3. TypeInv'
  <2>1. cut' \in [bbs : Seq(Seq(Nat)), buf : Seq(Nat)]
    BY <1>1, <1>2 DEF TypeInv
  <2> QED BY <2>1, <1>1 DEF TypeInv
<1>4. Ordered(Parts, Read)'
  <2>1. /\ cut.bbs \in Seq(Seq(Nat)) /\ x - 1 \in Nat /\ x \in Nat
        /\ Append(cut.bbs, v) \in Seq(Seq(Nat)) /\ (x - 1) + 1 = x
    BY <1>1 DEF TypeInv
  <2>2. Ordered(Append(cut.bbs, Append(u, (x - 1) + 1)), (x - 1) + 1)
    BY <2>1, <1>1, OrderedNext, BuildBlockFacts, Zenon
  <2>3. Ordered(Append(cut.bbs, v), x)
    BY <2>1, <2>2, Zenon
  <2>4. Ordered(Append(Append(cut.bbs, v), << >>), x)
    BY <2>1, <2>3, OrderedEmpty, Zenon
  <2>5. Parts' = Append(Append(cut.bbs, v), << >>)
    BY <1>2 DEF Parts, Bbs
  <2>6. Ordered(Parts', Read')
    BY <2>4, <2>5, <1>1, Zenon
  <2> QED BY <2>6 DEF Ordered
<1>5. /\ v \in Seq(Nat) /\ Len(v) = Len(u) + 1 /\ v[Len(v)] = x /\ v # << >>
      /\ Len(u) \in Nat /\ DOMAIN u = 1 .. Len(u) /\ DOMAIN v = 1 .. Len(u) + 1
      /\ \A k \in DOMAIN u : v[k] = u[k]
  <2>1. Len(u) \in Nat /\ DOMAIN u = 1 .. Len(u) /\ Len(v) = Len(u) + 1
    BY <1>1
  <2>2. v[Len(u) + 1] = x /\ \A k \in 1 .. Len(u) : v[k] = u[k]
    BY <1>1
  <2>3. v \in Seq(Nat) /\ DOMAIN v = 1 .. Len(v)
    BY <1>1
  <2> HIDE DEF u, v
  <2>4. v # << >>
    BY <2>1, <2>3
  <2> QED BY <2>1, <2>2, <2>3, <2>4
<1>6. x \in Exits /\ Closing(x)
  BY <1>1 DEF Exits, Closing
<1>7. /\ BasicBlocks' /\ ExitsInv'
      /\ \A y : CutAt(y)' <=> CutAt(y) \/ y = x
      /\ (\E b \in DOMAIN Bbs : Bbs[b] = << >>)' <=> (\E b \in DOMAIN Bbs : Bbs[b] = << >>)
  <2>1. \A k \in DOMAIN v : /\ insns[v[k]].is_target => k = 1
                            /\ IsControlFlow(insns[v[k]].op) /\ k < Len(v) =>
                                 k = 1 /\ insns[v[k]].is_target
    <3> SUFFICES ASSUME NEW k \in DOMAIN v
                 PROVE  /\ insns[v[k]].is_target => k = 1
                        /\ IsControlFlow(insns[v[k]].op) /\ k < Len(v) =>
                             k = 1 /\ insns[v[k]].is_target
      OBVIOUS
    <3>1. CASE k \in DOMAIN u
      BY <3>1, <1>1, <1>5 DEF BufferInv
    <3>2. CASE k = Len(v)
      BY <3>2, <1>5
    <3> QED BY <3>1, <3>2, <1>5
  <2>2. cut'.bbs = Append(cut.bbs, v)
    BY <1>2
  <2> HIDE DEF v
  <2>3. (v # << >>) => v[Len(v)] \in Exits
    BY <1>5, <1>6
  <2>4. /\ BasicBlocks' /\ ExitsInv'
        /\ \A y : CutAt(y)' <=> CutAt(y) \/ (v # << >> /\ v[Len(v)] = y)
        /\ (\E b \in DOMAIN Bbs : Bbs[b] = << >>)' <=>
             (\E b \in DOMAIN Bbs : Bbs[b] = << >>) \/ v = << >>
    BY <2>1, <2>2, <2>3, <1>1, <1>5, BlockAppended
  <2> QED BY <2>4, <1>5
<1>8. BufferInv'
  <2>1. cut'.buf = << >> /\ DOMAIN cut'.buf = {}
    BY <1>2
  <2> QED BY <2>1, <1>1, <1>6 DEF BufferInv, Closing
<1>9. CutsInv'
  <2> SUFFICES ASSUME NEW y \in 1 .. x,
                      Closing(y) \/ (y < x /\ insns[y + 1].is_target)
               PROVE  CutAt(y)'
    BY <1>1 DEF CutsInv, Closing
  <2>1. CASE y = x
    BY <2>1, <1>7
  <2>2. CASE y # x
    <3>1. y \in 1 .. x - 1 /\ y < x
      BY <2>2, <1>1
    <3>2. Closing(y) \/ (y < x - 1 /\ insns[y + 1].is_target)
      BY <3>1, <1>1
    <3> QED BY <3>1, <3>2, <1>1, <1>7 DEF CutsInv
  <2> QED BY <2>1, <2>2
<1>10. EmptyInv'
  <2>1. (\E y \in 1 .. x : insns[y].is_target /\ (y = 1 \/ Closing(y - 1))) <=>
          (\E y \in 1 .. x - 1 : insns[y].is_target /\ (y = 1 \/ Closing(y - 1)))
    BY <1>1
  <2>2. (\E y \in 1 .. Read : insns[y].is_target /\ (y = 1 \/ Closing(y - 1)))' <=>
        (\E y \in 1 .. x : insns[y].is_target /\ (y = 1 \/ Closing(y - 1)))
    BY <1>1 DEF Closing
  <2> QED BY <2>1, <2>2, <1>1, <1>7 DEF EmptyInv
<1>11. StreamPartitioned'
  BY <1>4, <1>7, Partitioned, PTL
<1> QED BY <1>1, <1>3, <1>7, <1>8, <1>9, <1>10, <1>11 DEF BuilderInv

LEMMA CollectInv ==
  ASSUME BuilderInv, BuildBlock, ~insns[next].is_target, ~IsControlFlow(insns[next].op)
  PROVE  BuilderInv'
<1> DEFINE x == next
           u == cut.buf
           v == Append(u, x)
<1>1. /\ TypeInv /\ BufferInv /\ CutsInv /\ EmptyInv /\ ExitsInv /\ BasicBlocks
      /\ x \in Nat \ {0} /\ insns' = insns /\ Read = x - 1 /\ Read' = x
      /\ Len(insns) \in Nat /\ x \in DOMAIN insns /\ DOMAIN insns = 1 .. Len(insns)
      /\ u \in Seq(Nat) /\ PhaseInv' /\ pc' = pc /\ next' = x + 1 /\ num' = num
  BY BuildBlockFacts, Partitioned DEF BuilderInv, BuildBlock
<1>2. cut' = [bbs |-> cut.bbs, buf |-> v] /\ Bbs' = Bbs
  BY <1>1 DEF BuildBlock, Collect, TypeInv, Bbs
<1>3. TypeInv'
  <2>1. cut' \in [bbs : Seq(Seq(Nat)), buf : Seq(Nat)]
    BY <1>1, <1>2 DEF TypeInv
  <2> QED BY <2>1, <1>1 DEF TypeInv
<1>4. Ordered(Parts, Read)'
  <2>1. cut.bbs \in Seq(Seq(Nat)) /\ x - 1 \in Nat /\ (x - 1) + 1 = x
    BY <1>1 DEF TypeInv
  <2>2. Ordered(Append(cut.bbs, Append(u, (x - 1) + 1)), (x - 1) + 1)
    BY <2>1, <1>1, OrderedNext, BuildBlockFacts, Zenon
  <2>3. Parts' = Append(cut.bbs, v)
    BY <1>2 DEF Parts, Bbs
  <2>4. Ordered(Parts', Read')
    BY <2>1, <2>2, <2>3, <1>1, Zenon
  <2> QED BY <2>4 DEF Ordered
<1>5. /\ v[Len(v)] = x /\ v # << >>
      /\ Len(u) \in Nat /\ DOMAIN u = 1 .. Len(u) /\ DOMAIN v = 1 .. Len(u) + 1
      /\ \A k \in DOMAIN u : v[k] = u[k]
      /\ v[Len(u) + 1] = x
  <2>1. Len(u) \in Nat /\ DOMAIN u = 1 .. Len(u) /\ Len(v) = Len(u) + 1
    BY <1>1
  <2>2. v[Len(u) + 1] = x /\ \A k \in 1 .. Len(u) : v[k] = u[k]
    BY <1>1
  <2>3. v \in Seq(Nat) /\ DOMAIN v = 1 .. Len(v)
    BY <1>1
  <2> HIDE DEF u, v
  <2>4. v # << >>
    BY <2>1, <2>3
  <2> QED BY <2>1, <2>2, <2>3, <2>4
<1>6. ~Closing(x)
  BY DEF Closing
<1>7. BasicBlocks' /\ ExitsInv' /\ \A y : CutAt(y)' <=> CutAt(y)
  <2>1. Exits' = Exits
    BY <1>1 DEF Exits
  <2> QED BY <2>1, <1>1, <1>2 DEF BasicBlocks, ExitsInv, CutAt
<1>8. BufferInv'
  <2>1. cut'.buf = v
    BY <1>2
  <2>2. \A k \in DOMAIN v : /\ insns[v[k]].is_target => k = 1
                            /\ IsControlFlow(insns[v[k]].op) => k = 1 /\ insns[v[k]].is_target
    <3> SUFFICES ASSUME NEW k \in DOMAIN v
                 PROVE  /\ insns[v[k]].is_target => k = 1
                        /\ IsControlFlow(insns[v[k]].op) => k = 1 /\ insns[v[k]].is_target
      OBVIOUS
    <3>1. CASE k \in DOMAIN u
      BY <3>1, <1>1, <1>5 DEF BufferInv
    <3>2. CASE k = Len(u) + 1
      BY <3>2, <1>5
    <3> QED BY <3>1, <3>2, <1>5
  <2> HIDE DEF v
  <2> QED BY <2>1, <2>2, <1>1, <1>5, <1>6 DEF BufferInv, Closing
<1>9. CutsInv'
  <2> SUFFICES ASSUME NEW y \in 1 .. x,
                      Closing(y) \/ (y < x /\ insns[y + 1].is_target)
               PROVE  CutAt(y)'
    BY <1>1 DEF CutsInv, Closing
  <2>1. y \in 1 .. x - 1 /\ y < x
    BY <1>1, <1>6
  <2>2. Closing(y) \/ (y < x - 1 /\ insns[y + 1].is_target)
    BY <2>1, <1>1
  <2> QED BY <2>1, <2>2, <1>1, <1>7 DEF CutsInv
<1>10. EmptyInv'
  <2>1. (\E y \in 1 .. x : insns[y].is_target /\ (y = 1 \/ Closing(y - 1))) <=>
          (\E y \in 1 .. x - 1 : insns[y].is_target /\ (y = 1 \/ Closing(y - 1)))
    BY <1>1
  <2>2. (\E y \in 1 .. Read : insns[y].is_target /\ (y = 1 \/ Closing(y - 1)))' <=>
        (\E y \in 1 .. x : insns[y].is_target /\ (y = 1 \/ Closing(y - 1)))
    BY <1>1 DEF Closing
  <2> QED BY <2>1, <2>2, <1>1, <1>2 DEF EmptyInv
<1>11. StreamPartitioned'
  BY <1>4, <1>7, Partitioned, PTL
<1> QED BY <1>1, <1>3, <1>7, <1>8, <1>9, <1>10, <1>11 DEF BuilderInv

-----------------------------------------------------------------------------
(***************************************************************************)
(* Connecting the blocks.                                                  *)
(***************************************************************************)

\* Where the connecting loop goes on, and where it ends badly.
LEMMA EndingValues ==
  ASSUME NEW b
  PROVE  /\ Ending(b) \in {"undefined", "partial", "aborted", "thrown", "connect"}
         /\ Ending(b) = "connect" <=>
              /\ Bbs[b] # << >> /\ ~IsBranch(LastInstr(b).op)
              /\ IsReturn(LastInstr(b).op) \/ ~NoNext(b)
<1>1. CASE Bbs[b] = << >>
  <2>1. Ending(b) = "undefined"
    BY <1>1 DEF Ending
  <2> QED BY <2>1, <1>1
<1>2. CASE Bbs[b] # << >> /\ IsBranch(LastInstr(b).op)
  <2>1. Ending(b) = CASE LastInstr(b).to = 0 -> "partial"
                      [] LastInstr(b).to \in ToSet(cut.buf) -> "aborted"
                      [] OTHER -> "undefined"
    BY <1>2 DEF Ending
  <2>2. Ending(b) \in {"undefined", "partial", "aborted"}
    BY <2>1
  <2> QED BY <2>2, <1>2
<1>3. CASE Bbs[b] # << >> /\ ~IsBranch(LastInstr(b).op)
  <2>1. Ending(b) = IF ~IsReturn(LastInstr(b).op) /\ NoNext(b) THEN "thrown" ELSE "connect"
    BY <1>3 DEF Ending
  <2> QED BY <2>1, <1>3
<1> QED BY <1>1, <1>2, <1>3

\* Nothing but reading an instruction changes how the stream is cut.
LEMMA CutKept ==
  ASSUME BuilderInv, insns' = insns, cut' = cut, Read' = Read
  PROVE  StreamPartitioned' /\ BufferInv' /\ ExitsInv' /\ CutsInv' /\ EmptyInv'
<1>1. Bbs' = Bbs /\ Parts' = Parts /\ Exits' = Exits
  BY DEF Bbs, Parts, Exits
<1>2. \A y : (Closing(y)' <=> Closing(y)) /\ (CutAt(y)' <=> CutAt(y))
  BY <1>1 DEF Closing, CutAt
<1>3. StreamPartitioned'
  BY <1>1 DEF BuilderInv, StreamPartitioned
<1>4. BufferInv' /\ ExitsInv'
  BY <1>1, <1>2 DEF BuilderInv, BufferInv, ExitsInv
<1>5. CutsInv' /\ EmptyInv'
  BY <1>1, <1>2 DEF BuilderInv, CutsInv, EmptyInv
<1> QED BY <1>3, <1>4, <1>5

LEMMA StartInv == ASSUME BuilderInv, Start PROVE BuilderInv'
<1>1. TypeInv /\ PhaseInv /\ pc = "start" /\ insns' = insns /\ cut' = cut
  BY DEF BuilderInv, Start
<1>2. Read = 0 /\ Read' = 0
  BY <1>1 DEF Read, Start, PhaseInv
<1>3. TypeInv'
  BY <1>1 DEF TypeInv, Start
<1>4. PhaseInv'
  BY <1>1 DEF PhaseInv, Start, TypeInv
<1> QED BY <1>1, <1>2, <1>3, <1>4, CutKept DEF BuilderInv

LEMMA SetRootInv == ASSUME BuilderInv, SetRoot PROVE BuilderInv'
<1>1. /\ TypeInv /\ PhaseInv /\ pc = "split" /\ next > Len(insns)
      /\ insns' = insns /\ cut' = cut /\ edges' = edges /\ edges = {} /\ num = 0
      /\ Bbs' = Bbs /\ Len(Bbs) \in Nat /\ Len(insns) \in Nat /\ next \in Nat
  BY DEF BuilderInv, SetRoot, PhaseInv, Bbs, TypeInv
<1>2. /\ pc' \in {"undefined", "connect"} /\ next' \in {1, next} /\ num' \in {0, 1}
      /\ pc' = "undefined" => Bbs = << >>
      /\ pc' = "connect" =>
           /\ Bbs # << >> /\ next' = 1 /\ num' = 1
           /\ id' = [b \in DOMAIN Bbs |-> IF b = 1 THEN 0 ELSE NoId]
  BY <1>1 DEF SetRoot, Counted
<1>3. Read = Len(insns) /\ Read' = Len(insns)
  <2>1. next = Len(insns) + 1
    BY <1>1 DEF PhaseInv
  <2> QED BY <2>1, <1>1, <1>2 DEF Read
<1>4. TypeInv'
  BY <1>1, <1>2 DEF TypeInv
<1>5. PhaseInv'
  <2>1. CASE pc' = "undefined"
    BY <2>1, <1>1, <1>2 DEF PhaseInv
  <2>2. CASE pc' = "connect"
    <3>1. 1 .. next' - 1 = {}
      BY <2>2, <1>2
    <3>2. {<<b, b + 1>> : b \in {a \in 1 .. next' - 1 : Joined(a)'}} = {}
      BY <3>1
    <3>3. Bbs # << >> /\ next' <= Len(Bbs) + 1
      BY <2>2, <1>1, <1>2
    <3> QED BY <2>2, <3>1, <3>2, <3>3, <1>1, <1>2 DEF PhaseInv
  <2> QED BY <2>1, <2>2, <1>2
<1> QED BY <1>1, <1>3, <1>4, <1>5, CutKept DEF BuilderInv

LEMMA ConnectBlockInv == ASSUME BuilderInv, ConnectBlock PROVE BuilderInv'
<1>1. /\ TypeInv /\ PhaseInv /\ pc = "connect" /\ next \in DOMAIN Bbs
      /\ insns' = insns /\ cut' = cut /\ num' = num /\ id' = id
      /\ Bbs' = Bbs /\ Len(Bbs) \in Nat /\ DOMAIN Bbs = 1 .. Len(Bbs)
      /\ next' = next + 1 /\ pc' = Ending(next) /\ next \in Nat \ {0} /\ next <= Len(Bbs)
  BY DEF BuilderInv, ConnectBlock, PhaseInv, Bbs, TypeInv
<1>2. pc' \in {"undefined", "partial", "aborted", "thrown", "connect"}
  BY <1>1, EndingValues
<1>3. \A b : Ending(b)' = Ending(b) /\ (Joined(b)' <=> Joined(b))
  BY <1>1 DEF Ending, Joined, LastInstr, NoNext
<1>4. Read = Len(insns) /\ Read' = Len(insns)
  BY <1>1, <1>2 DEF Read
<1>5. TypeInv'
  BY <1>1, <1>2 DEF TypeInv
<1>6. PhaseInv'
  <2>1. CASE pc' = "connect"
    <3>1. \A b \in 1 .. next' - 1 : Ending(b)' = "connect"
      BY <2>1, <1>1, <1>3 DEF PhaseInv
    <3>2. edges' = {<<b, b + 1>> : b \in {a \in 1 .. next' - 1 : Joined(a)'}}
      <4>1. edges = {<<b, b + 1>> : b \in {a \in 1 .. next - 1 : Joined(a)}}
        BY <1>1 DEF PhaseInv
      <4>2. {a \in 1 .. next' - 1 : Joined(a)'} =
              {a \in 1 .. next - 1 : Joined(a)} \cup (IF Joined(next) THEN {next} ELSE {})
        BY <1>1, <1>3
      <4>3. edges' = edges \cup (IF Joined(next) THEN {<<next, next + 1>>} ELSE {})
        BY <2>1, <1>1 DEF ConnectBlock, Joined
      <4> QED BY <4>1, <4>2, <4>3
    <3> QED BY <2>1, <3>1, <3>2, <1>1 DEF PhaseInv
  <2>2. CASE pc' # "connect"
    <3>1. \E b \in DOMAIN Bbs' : Ending(b)' = pc'
      BY <1>1, <1>3
    <3> QED BY <2>2, <3>1, <1>2 DEF PhaseInv
  <2> QED BY <2>1, <2>2
<1> QED BY <1>1, <1>4, <1>5, <1>6, CutKept DEF BuilderInv

LEMMA SetEndInv == ASSUME BuilderInv, SetEnd PROVE BuilderInv'
<1>1. /\ TypeInv /\ PhaseInv /\ pc = "connect" /\ pc' = "done" /\ next' = next
      /\ insns' = insns /\ cut' = cut /\ edges' = edges
      /\ Bbs' = Bbs /\ Len(Bbs) \in Nat /\ next \in Nat /\ next > Len(Bbs)
  BY DEF BuilderInv, SetEnd, Bbs, TypeInv
<1>2. \A b : Ending(b)' = Ending(b) /\ (Joined(b)' <=> Joined(b))
  BY <1>1 DEF Ending, Joined, LastInstr, NoNext
<1>3. Read = Len(insns) /\ Read' = Len(insns)
  BY <1>1 DEF Read
<1>4. TypeInv'
  <2>1. Cardinality({b \in Reached : id[b] = NoId}) \in Nat
    <3>1. IsFiniteSet(1 .. Len(Bbs)) /\ DOMAIN Bbs = 1 .. Len(Bbs)
      BY <1>1, FS_Interval DEF Bbs, TypeInv
    <3>2. {b \in Reached : id[b] = NoId} \subseteq 1 .. Len(Bbs)
      BY <3>1 DEF Reached
    <3> QED BY <3>1, <3>2, FS_Subset, FS_CardinalityType
  <2> QED BY <2>1, <1>1 DEF TypeInv, SetEnd
<1>5. PhaseInv'
  <2>1. edges = {<<b, b + 1>> : b \in {a \in 1 .. next - 1 : Joined(a)}}
    BY <1>1 DEF PhaseInv
  <2>2. {a \in 1 .. next' - 1 : Joined(a)'} = {a \in 1 .. next - 1 : Joined(a)}
    BY <1>1, <1>2
  <2>3. edges' = {<<b, b + 1>> : b \in {a \in 1 .. next' - 1 : Joined(a)'}}
    BY <2>1, <2>2, <1>1
  <2>4. Bbs # << >> /\ next = Len(Bbs) + 1 /\ \A b \in 1 .. next - 1 : Ending(b)' = "connect"
    BY <1>1, <1>2 DEF PhaseInv
  <2>5. Numbering' = Numbering
    BY <1>1 DEF Numbering, EndBlock, Reached
  <2>6. id' = Numbering
    <3>1. num = 1 /\ id = [b \in DOMAIN Bbs |-> IF b = 1 THEN 0 ELSE NoId]
      BY <1>1 DEF PhaseInv
    <3>2. 1 \in Reached /\ DOMAIN Bbs = 1 .. Len(Bbs)
      BY <2>4, <1>1 DEF Reached, Bbs, TypeInv
    <3>3. \A b \in DOMAIN Bbs : (id[b] = NoId <=> b # 1) /\ num + b - 2 = b - 1
      BY <3>1, <3>2, NoIdAssumption
    <3>4. id' = [b \in DOMAIN Bbs |-> IF b = EndBlock THEN 1
                                       ELSE IF b \in Reached /\ id[b] = NoId THEN num + b - 2
                                       ELSE id[b]]
      BY DEF SetEnd, EndBlock
    <3>5. ASSUME NEW b \in DOMAIN Bbs PROVE id'[b] = Numbering[b]
      BY <3>1, <3>2, <3>3, <3>4 DEF Numbering
    <3> QED BY <3>4, <3>5 DEF Numbering
  <2> QED BY <2>3, <2>4, <2>5, <2>6, <1>1 DEF PhaseInv
<1> QED BY <1>1, <1>3, <1>4, <1>5, CutKept DEF BuilderInv

LEMMA StutterInv == ASSUME BuilderInv, UNCHANGED vars PROVE BuilderInv'
<1>1. /\ TypeInv' /\ Read' = Read /\ insns' = insns /\ cut' = cut /\ Bbs' = Bbs
      /\ pc' = pc /\ next' = next /\ edges' = edges /\ num' = num /\ id' = id
  BY DEF BuilderInv, vars, TypeInv, Read, Bbs
<1>2. /\ Numbering' = Numbering
      /\ \A b : Ending(b)' = Ending(b) /\ (Joined(b)' <=> Joined(b))
  BY <1>1 DEF Numbering, EndBlock, Reached, Ending, Joined, LastInstr, NoNext
<1>3. PhaseInv'
  <2>1. {<<b, b + 1>> : b \in {a \in 1 .. next - 1 : Joined(a)'}} =
          {<<b, b + 1>> : b \in {a \in 1 .. next - 1 : Joined(a)}}
    BY <1>2
  <2>2. PhaseInv
    BY DEF BuilderInv
  <2> QED BY <2>1, <2>2, <1>1, <1>2 DEF PhaseInv
<1> QED BY <1>1, <1>3, CutKept DEF BuilderInv

\* The invariant holds on every stream: what is said of the stream, of the buffer
\* and of the blocks is kept by every step of Run.
THEOREM BuilderInvHolds == Spec => []BuilderInv
<1>1. BuilderInv /\ [Next]_vars => BuilderInv'
  <2> SUFFICES ASSUME BuilderInv, [Next]_vars PROVE BuilderInv'
    OBVIOUS
  <2>1. CASE BuildBlock
    BY <2>1, TargetInv, ControlInv, CollectInv
  <2> QED BY <2>1, StartInv, SetRootInv, ConnectBlockInv, SetEndInv, StutterInv DEF Next
<1> QED BY InitInv, <1>1, PTL DEF Spec

\* No instruction is lost, doubled or moved on its way through the buffer, and the
\* blocks are basic (IrBuilder::MakeBasicBlock), for streams of any length.
THEOREM StreamIsPartitioned == Spec => []StreamPartitioned
<1>1. BuilderInv => StreamPartitioned
  BY DEF BuilderInv
<1> QED BY <1>1, BuilderInvHolds, PTL

-----------------------------------------------------------------------------
(***************************************************************************)
(* What the invariant says of a stream that has been read to its end.      *)
(***************************************************************************)

LEMMA BlocksOrdered ==
  ASSUME BuilderInv
  PROVE  /\ DOMAIN Bbs = 1 .. Len(Bbs) /\ Len(Bbs) \in Nat
         /\ Bbs = << >> <=> Len(Bbs) = 0
         /\ \A b \in DOMAIN Bbs :
              /\ Len(Bbs[b]) \in Nat /\ DOMAIN Bbs[b] = 1 .. Len(Bbs[b])
              /\ Bbs[b] = << >> <=> Len(Bbs[b]) = 0
              /\ \A k \in DOMAIN Bbs[b] : Bbs[b][k] \in 1 .. Read
              /\ \A j, k \in DOMAIN Bbs[b] : j < k => Bbs[b][j] < Bbs[b][k]
         /\ \A a, b \in DOMAIN Bbs : \A j \in DOMAIN Bbs[a], k \in DOMAIN Bbs[b] :
              a < b => Bbs[a][j] < Bbs[b][k]
<1>1. /\ Bbs \in Seq(Seq(Nat)) /\ cut.buf \in Seq(Nat) /\ Ordered(Parts, Read)
  BY Partitioned DEF BuilderInv, TypeInv, Bbs
<1>2. /\ DOMAIN Bbs = 1 .. Len(Bbs) /\ Len(Bbs) \in Nat
      /\ Bbs = << >> <=> Len(Bbs) = 0
  BY <1>1
<1>3. \A b \in DOMAIN Bbs : b \in DOMAIN Parts /\ Parts[b] = Bbs[b]
  BY <1>1 DEF Parts
<1>4. \A b \in DOMAIN Bbs : /\ Len(Bbs[b]) \in Nat /\ DOMAIN Bbs[b] = 1 .. Len(Bbs[b])
                            /\ Bbs[b] = << >> <=> Len(Bbs[b]) = 0
  <2> SUFFICES ASSUME NEW b \in DOMAIN Bbs
               PROVE  /\ Len(Bbs[b]) \in Nat /\ DOMAIN Bbs[b] = 1 .. Len(Bbs[b])
                      /\ Bbs[b] = << >> <=> Len(Bbs[b]) = 0
    OBVIOUS
  <2>1. Bbs[b] \in Seq(Nat)
    BY <1>1
  <2> QED BY <2>1
<1>5. /\ \A b \in DOMAIN Bbs : \A k \in DOMAIN Bbs[b] : Bbs[b][k] \in 1 .. Read
      /\ \A b \in DOMAIN Bbs : \A j, k \in DOMAIN Bbs[b] : j < k => Bbs[b][j] < Bbs[b][k]
      /\ \A a, b \in DOMAIN Bbs : \A j \in DOMAIN Bbs[a], k \in DOMAIN Bbs[b] :
              a < b => Bbs[a][j] < Bbs[b][k]
  BY <1>1, <1>3, Zenon DEF Ordered
<1> QED BY <1>2, <1>4, <1>5

\* The exits are the last instructions of the blocks, and there is an empty block
\* if and only if the second part of Buildable fails.
LEMMA ExitsAreLast ==
  ASSUME BuilderInv, pc \notin {"start", "refused", "split"}
  PROVE  /\ Read = Len(insns)
         /\ \A b \in DOMAIN Bbs : Bbs[b] # << >> => Bbs[b][Len(Bbs[b])] \in Exits
         /\ \A x \in Exits : \E b \in DOMAIN Bbs : Bbs[b] # << >> /\ Bbs[b][Len(Bbs[b])] = x
         /\ (\A b \in DOMAIN Bbs : Bbs[b] # << >>) <=>
              \A x \in DOMAIN insns : insns[x].is_target =>
                x > 1 /\ (IsControlFlow(insns[x - 1].op) => insns[x - 1].is_target)
<1>1. Read = Len(insns) /\ DOMAIN insns = 1 .. Len(insns) /\ Len(insns) \in Nat
  BY DEF BuilderInv, TypeInv, Read
<1>2. \A x \in Exits : CutAt(x)
  BY <1>1 DEF BuilderInv, CutsInv, Exits, Closing
<1>3. (\E b \in DOMAIN Bbs : Bbs[b] = << >>) <=>
        \E x \in DOMAIN insns : insns[x].is_target /\ (x = 1 \/ Closing(x - 1))
  BY <1>1 DEF BuilderInv, EmptyInv
<1>4. \A x \in DOMAIN insns :
        (x = 1 \/ Closing(x - 1)) <=>
          ~(x > 1 /\ (IsControlFlow(insns[x - 1].op) => insns[x - 1].is_target))
  BY <1>1 DEF Closing
<1>5. (\A b \in DOMAIN Bbs : Bbs[b] # << >>) <=>
        \A x \in DOMAIN insns : insns[x].is_target =>
          x > 1 /\ (IsControlFlow(insns[x - 1].op) => insns[x - 1].is_target)
  BY <1>3, <1>4
<1> QED BY <1>1, <1>2, <1>5 DEF BuilderInv, ExitsInv, CutAt

\* Of the last instructions of non-empty blocks the one of the last block is the
\* greatest.
LEMMA LastIsGreatest ==
  ASSUME BuilderInv, NEW a \in DOMAIN Bbs, NEW b \in DOMAIN Bbs, b = Len(Bbs),
         Bbs[a] # << >>, Bbs[b] # << >>
  PROVE  /\ Bbs[a][Len(Bbs[a])] <= Bbs[b][Len(Bbs[b])]
         /\ a # b => Bbs[a][Len(Bbs[a])] < Bbs[b][Len(Bbs[b])]
<1>1. /\ a \in 1 .. Len(Bbs) /\ b \in 1 .. Len(Bbs) /\ Len(Bbs) \in Nat
      /\ Len(Bbs[a]) \in DOMAIN Bbs[a] /\ Len(Bbs[b]) \in DOMAIN Bbs[b]
  BY BlocksOrdered
<1>2. CASE a = b
  <2>1. Bbs[b][Len(Bbs[b])] \in 1 .. Read
    BY <1>1, BlocksOrdered
  <2> QED BY <2>1, <1>2
<1>3. CASE a # b
  <2>1. a < b
    BY <1>1, <1>3
  <2>2. Bbs[a][Len(Bbs[a])] < Bbs[b][Len(Bbs[b])]
    BY <2>1, <1>1, BlocksOrdered
  <2>3. Bbs[a][Len(Bbs[a])] \in 1 .. Read /\ Bbs[b][Len(Bbs[b])] \in 1 .. Read
    BY <1>1, BlocksOrdered
  <2> QED BY <2>2, <2>3
<1> QED BY <1>2, <1>3

LEMMA DoneIsBuildable == ASSUME BuilderInv, pc = "done" PROVE Buildable
<1> DEFINE n == Len(Bbs)
<1>1. /\ n \in Nat \ {0} /\ n \in DOMAIN Bbs /\ DOMAIN Bbs = 1 .. n
      /\ \A b \in DOMAIN Bbs : Ending(b) = "connect"
  <2>1. Bbs # << >> /\ next = Len(Bbs) + 1 /\ \A b \in 1 .. next - 1 : Ending(b) = "connect"
    BY DEF BuilderInv, PhaseInv
  <2> QED BY <2>1, BlocksOrdered
<1>2. \A b \in DOMAIN Bbs : /\ Bbs[b] # << >> /\ ~IsBranch(LastInstr(b).op)
                            /\ IsReturn(LastInstr(b).op) \/ b # n
  BY <1>1, EndingValues DEF NoNext
<1>3. Bbs[n][Len(Bbs[n])] \in Exits
  BY <1>1, <1>2, ExitsAreLast
<1>4. \A x \in DOMAIN insns : insns[x].is_target =>
        x > 1 /\ (IsControlFlow(insns[x - 1].op) => insns[x - 1].is_target)
  BY <1>2, ExitsAreLast
<1>5. ASSUME NEW x \in Exits PROVE ~IsBranch(insns[x].op)
  BY <1>2, ExitsAreLast DEF LastInstr
<1>6. ASSUME NEW x \in Exits, \A y \in Exits : y <= x PROVE insns[x].op = "RET"
  <2>1. PICK b \in DOMAIN Bbs : Bbs[b] # << >> /\ Bbs[b][Len(Bbs[b])] = x
    BY ExitsAreLast
  <2>2. b = n
    <3>1. Bbs[n][Len(Bbs[n])] <= x
      BY <1>3, <1>6
    <3>2. Bbs[n][Len(Bbs[n])] \in Nat /\ x \in Nat
      BY <2>1, <1>1, <1>2, BlocksOrdered
    <3>3. SUFFICES ASSUME b # n PROVE FALSE
      OBVIOUS
    <3>4. x < Bbs[n][Len(Bbs[n])]
      BY <2>1, <3>3, <1>1, <1>2, LastIsGreatest
    <3> QED BY <3>1, <3>2, <3>4
  <2> QED BY <2>1, <2>2, <1>2 DEF LastInstr, IsReturn
<1> QED BY <1>3, <1>4, <1>5, <1>6 DEF Buildable

LEMMA FailedIsNotBuildable ==
  ASSUME BuilderInv, pc \in {"undefined", "partial", "aborted", "thrown"}
  PROVE  ~Buildable
<1>1. CASE Bbs = << >>
  <2>1. Exits = {}
    BY <1>1, ExitsAreLast
  <2> QED BY <2>1 DEF Buildable
<1>2. CASE Bbs # << >>
  <2>1. PICK b \in DOMAIN Bbs : Ending(b) = pc
    BY <1>2 DEF BuilderInv, PhaseInv
  <2>2. CASE Bbs[b] = << >>
    BY <2>2, ExitsAreLast DEF Buildable
  <2>3. CASE Bbs[b] # << >> /\ IsBranch(LastInstr(b).op)
    BY <2>3, ExitsAreLast DEF Buildable, LastInstr
  <2>4. CASE Bbs[b] # << >> /\ ~IsReturn(LastInstr(b).op) /\ b = Len(Bbs)
    <3> SUFFICES ASSUME Buildable PROVE FALSE
      OBVIOUS
    <3>1. \A a \in DOMAIN Bbs : Bbs[a] # << >>
      BY ExitsAreLast DEF Buildable
    <3>2. \A y \in Exits : y <= Bbs[b][Len(Bbs[b])]
      <4> SUFFICES ASSUME NEW y \in Exits PROVE y <= Bbs[b][Len(Bbs[b])]
        OBVIOUS
      <4>1. PICK a \in DOMAIN Bbs : Bbs[a] # << >> /\ Bbs[a][Len(Bbs[a])] = y
        BY ExitsAreLast
      <4> QED BY <4>1, <2>4, LastIsGreatest
    <3>3. Bbs[b][Len(Bbs[b])] \in Exits
      BY <2>4, ExitsAreLast
    <3> QED BY <3>2, <3>3, <2>4 DEF Buildable, LastInstr, IsReturn
  <2> QED BY <2>1, <2>2, <2>3, <2>4, EndingValues DEF NoNext
<1> QED BY <1>1, <1>2

\* IrBuilder::Run finishes exactly the streams of Buildable, whatever their length:
\* on any other one it ends in undefined behaviour, a failed assertion, an exception
\* or a half-connected graph.
THEOREM OutcomeIsExplained == Spec => []OutcomeExplained
<1>1. BuilderInv => OutcomeExplained
  BY DoneIsBuildable, FailedIsNotBuildable DEF OutcomeExplained
<1> QED BY <1>1, BuilderInvHolds, PTL

-----------------------------------------------------------------------------
\* An instruction is in one block only.
LEMMA BlockOfUnique ==
  ASSUME BuilderInv, NEW a \in DOMAIN Bbs, NEW b \in DOMAIN Bbs,
         NEW x \in ToSet(Bbs[a]), x \in ToSet(Bbs[b])
  PROVE  a = b
<1>1. PICK j \in DOMAIN Bbs[a] : Bbs[a][j] = x
  BY DEF ToSet
<1>2. PICK k \in DOMAIN Bbs[b] : Bbs[b][k] = x
  BY DEF ToSet
<1>3. x \in 1 .. Read
  BY <1>1, BlocksOrdered
<1>4. ~(a < b) /\ ~(b < a)
  BY <1>1, <1>2, <1>3, BlocksOrdered
<1> QED BY <1>4, BlocksOrdered

\* Neighbours in the stream that went to different blocks are the last of a block
\* and the first of the next one.
LEMMA NeighbourBlocks ==
  ASSUME BuilderInv, \A b \in DOMAIN Bbs : Bbs[b] # << >>,
         NEW a \in DOMAIN Bbs, NEW b \in DOMAIN Bbs, a # b,
         NEW x \in ToSet(Bbs[a]), x + 1 \in ToSet(Bbs[b])
  PROVE  b = a + 1 /\ Bbs[a][Len(Bbs[a])] = x /\ Bbs[b][1] = x + 1
<1>1. PICK j \in DOMAIN Bbs[a] : Bbs[a][j] = x
  BY DEF ToSet
<1>2. PICK k \in DOMAIN Bbs[b] : Bbs[b][k] = x + 1
  BY DEF ToSet
<1>3. /\ DOMAIN Bbs = 1 .. Len(Bbs) /\ Len(Bbs) \in Nat /\ x \in Nat
      /\ DOMAIN Bbs[a] = 1 .. Len(Bbs[a]) /\ Len(Bbs[a]) \in Nat
      /\ DOMAIN Bbs[b] = 1 .. Len(Bbs[b]) /\ Len(Bbs[b]) \in Nat
  BY <1>1, BlocksOrdered
<1>4. a < b
  <2>1. ~(b < a)
    <3> SUFFICES ASSUME b < a PROVE FALSE
      OBVIOUS
    <3>1. Bbs[b][k] < Bbs[a][j]
      BY BlocksOrdered
    <3> QED BY <3>1, <1>1, <1>2, <1>3
  <2> QED BY <2>1, <1>3
<1>5. b = a + 1
  <2> SUFFICES ASSUME b # a + 1 PROVE FALSE
    OBVIOUS
  <2>1. a + 1 \in DOMAIN Bbs /\ a < a + 1 /\ a + 1 < b
    BY <1>3, <1>4
  <2>2. 1 \in DOMAIN Bbs[a + 1]
    BY <2>1, BlocksOrdered
  <2>3. Bbs[a][j] < Bbs[a + 1][1] /\ Bbs[a + 1][1] < Bbs[b][k] /\ Bbs[a + 1][1] \in Nat
    BY <2>1, <2>2, BlocksOrdered
  <2> QED BY <2>3, <1>1, <1>2, <1>3
<1>6. Bbs[a][Len(Bbs[a])] = x
  <2>1. Len(Bbs[a]) \in DOMAIN Bbs[a]
    BY <1>3
  <2>2. Bbs[a][Len(Bbs[a])] < Bbs[b][k] /\ Bbs[a][Len(Bbs[a])] \in Nat
    BY <2>1, <1>4, BlocksOrdered
  <2>3. j = Len(Bbs[a]) \/ Bbs[a][j] < Bbs[a][Len(Bbs[a])]
    BY <2>1, <1>3, BlocksOrdered
  <2> QED BY <2>2, <2>3, <1>1, <1>2, <1>3
<1>7. Bbs[b][1] = x + 1
  <2>1. 1 \in DOMAIN Bbs[b]
    BY <1>3
  <2>2. Bbs[a][j] < Bbs[b][1] /\ Bbs[b][1] \in Nat
    BY <2>1, <1>4, BlocksOrdered
  <2>3. k = 1 \/ Bbs[b][1] < Bbs[b][k]
    BY <2>1, <1>3, BlocksOrdered
  <2> QED BY <2>2, <2>3, <1>1, <1>2, <1>3
<1> QED BY <1>5, <1>6, <1>7

LEMMA DoneEdges ==
  ASSUME BuilderInv, pc = "done"
  PROVE  /\ \A b \in DOMAIN Bbs : Bbs[b] # << >>
         /\ Len(Bbs) \in Nat \ {0} /\ DOMAIN Bbs = 1 .. Len(Bbs)
         /\ edges = {<<b, b + 1>> : b \in {a \in DOMAIN Bbs : Joined(a)}}
         /\ id = Numbering
<1>1. /\ Bbs # << >> /\ next = Len(Bbs) + 1 /\ \A b \in 1 .. next - 1 : Ending(b) = "connect"
      /\ edges = {<<b, b + 1>> : b \in {a \in 1 .. next - 1 : Joined(a)}}
      /\ id = Numbering
  BY DEF BuilderInv, PhaseInv
<1>2. Len(Bbs) \in Nat \ {0} /\ DOMAIN Bbs = 1 .. Len(Bbs)
  BY <1>1, BlocksOrdered
<1>3. next - 1 = Len(Bbs)
  BY <1>1, <1>2
<1> QED BY <1>1, <1>2, <1>3, EndingValues

\* What can run after an instruction in the stream can run after it in the graph
\* (IrBuilder::ConnectBasicBlocks).
THEOREM FallThroughIsCovered == Spec => []FallThroughCovered
<1>1. BuilderInv => FallThroughCovered
  <2> DEFINE In(x) == CHOOSE b \in DOMAIN Bbs : x \in ToSet(Bbs[b])
             kept == UNION {ToSet(Bbs[b]) : b \in DOMAIN Bbs}
  <2> SUFFICES ASSUME BuilderInv, pc = "done", NEW x \in DOMAIN insns,
                      x \in kept, x + 1 \in kept, insns[x].op \in {"ADD", "CALL"},
                      In(x) # In(x + 1)
               PROVE  <<In(x), In(x + 1)>> \in edges /\ Head(Bbs[In(x + 1)]) = x + 1
    BY DEF FallThroughCovered
  <2>1. In(x) \in DOMAIN Bbs /\ x \in ToSet(Bbs[In(x)])
    OBVIOUS
  <2>2. In(x + 1) \in DOMAIN Bbs /\ x + 1 \in ToSet(Bbs[In(x + 1)])
    OBVIOUS
  <2> HIDE DEF In, kept
  <2>3. /\ In(x + 1) = In(x) + 1 /\ Bbs[In(x)][Len(Bbs[In(x)])] = x
        /\ Bbs[In(x + 1)][1] = x + 1
    BY <2>1, <2>2, DoneEdges, NeighbourBlocks
  <2>4. Joined(In(x))
    BY <2>3 DEF Joined, LastInstr, IsReturn
  <2>5. <<In(x), In(x + 1)>> \in edges
    BY <2>1, <2>3, <2>4, DoneEdges
  <2> QED BY <2>3, <2>5
<1> QED BY <1>1, BuilderInvHolds, PTL

-----------------------------------------------------------------------------
\* The blocks reached from the root are the first ones of the list, up to the one
\* that becomes the end.
LEMMA ReachedIsChain ==
  ASSUME BuilderInv, pc = "done"
  PROVE  /\ 1 \in Reached /\ \A b \in Reached : b \in Nat \ {0}
         /\ \A b \in Reached : \A a \in 1 .. b : a \in Reached
         /\ EndBlock \in Reached /\ EndBlock + 1 \notin Reached
         /\ \A b \in Reached : b <= EndBlock
<1>1. Len(Bbs) \in Nat \ {0} /\ DOMAIN Bbs = 1 .. Len(Bbs)
  BY DoneEdges
<1>2. 1 \in Reached /\ \A b \in Reached : b \in 1 .. Len(Bbs)
  BY <1>1 DEF Reached
<1>3. \A b \in Reached : \A a \in 1 .. b : a \in Reached
  BY <1>1 DEF Reached
<1>4. \E b \in Reached : b + 1 \notin Reached
  <2> DEFINE S == {m \in Nat \ {0} : m \notin Reached}
  <2>1. Len(Bbs) + 1 \in S
    BY <1>1, <1>2
  <2>2. PICK m \in S : \A k \in S : m <= k
    BY <2>1, R!LeastNatural
  <2>3. m # 1 /\ m \in Nat \ {0} /\ m \notin Reached
    BY <1>2
  <2>4. m - 1 \in Reached /\ (m - 1) + 1 = m
    BY <2>2, <2>3
  <2> QED BY <2>3, <2>4
<1>5. EndBlock \in Reached /\ EndBlock + 1 \notin Reached
  BY <1>4 DEF EndBlock
<1>6. ASSUME NEW b \in Reached PROVE b <= EndBlock
  BY <1>2, <1>3, <1>5
<1> QED BY <1>1, <1>2, <1>3, <1>5, <1>6

\* In a built graph two reached blocks share an id only if they are the end and the
\* second block (IrBuilder::SetRootAndEnd with Graph::GetBlocks's counter).
THEOREM SharedIdIsTheEnds == Spec => []IdsSharedWithEnd
<1>1. BuilderInv => IdsSharedWithEnd
  <2> SUFFICES ASSUME BuilderInv, pc = "done" PROVE IdsSharedWithEnd
    BY DEF IdsSharedWithEnd
  <2>1. \A b \in Reached : id[b] = IF b = EndBlock THEN 1 ELSE b - 1
    BY DoneEdges DEF Numbering, Reached
  <2>2. ASSUME NEW a \in Reached, NEW b \in Reached, a < b, id[a] = id[b]
        PROVE  a = 2 /\ b + 1 \notin Reached
    <3>1. a \in Nat /\ b \in Nat /\ b <= EndBlock /\ EndBlock \in Nat
      BY ReachedIsChain
    <3>2. a # EndBlock /\ id[a] = a - 1
      BY <2>1, <2>2, <3>1
    <3>3. b = EndBlock
      <4> SUFFICES ASSUME b # EndBlock PROVE FALSE
        OBVIOUS
      <4>1. id[b] = b - 1
        BY <2>1
      <4> QED BY <4>1, <2>2, <3>1, <3>2
    <3>4. id[b] = 1
      BY <2>1, <3>3
    <3>5. a = 2
      <4>1. a - 1 = 1
        BY <2>2, <3>2, <3>4, Zenon
      <4> QED BY <4>1, <3>1
    <3> QED BY <3>3, <3>5, ReachedIsChain
  <2>3. id[1] = IF 2 \in Reached THEN 0 ELSE 1
    <3>1. CASE 2 \in Reached
      BY <3>1, <2>1, ReachedIsChain
    <3>2. CASE 2 \notin Reached
      <4>1. EndBlock = 1
        BY <3>2, ReachedIsChain
      <4> QED BY <4>1, <3>2, <2>1, ReachedIsChain
    <3> QED BY <3>1, <3>2
  <2> QED BY <2>2, <2>3 DEF IdsSharedWithEnd
<1> QED BY <1>1, BuilderInvHolds, PTL
=============================================================================
