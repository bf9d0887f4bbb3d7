--------------------------- MODULE ControlFlowProofs ---------------------------
(***************************************************************************)
(* How passes read and change the control flow, for every graph and every  *)
(* program: first what the walk of Traversal has established by the time   *)
(* it returns, then what Inlining has made of the graph of the caller, of  *)
(* its blocks and of their lists of instructions.                          *)
(***************************************************************************)
EXTENDS Inlining, ReachabilityTheorems, SequenceTheorems,
        FunctionTheorems, Traversal, FiniteSetTheorems

(***************************************************************************)
(* The invariant speaks about the blocks whose id is in discovered_bbs:    *)
(* they are the ones with an active call and the ones already emitted.     *)
(***************************************************************************)
Seen == {b \in Blocks : id[b] \in discovered}
Active == {stack[k].bb : k \in 1 .. Len(stack)}
Emitted == {dfsBbs[i] : i \in 1 .. Len(dfsBbs)}

\* Ids in use are distinct and below blocks_num_, so a new id is new to
\* discovered_bbs as well.
IdInv == /\ \A a, b \in Blocks : id[a] = id[b] /\ a # b => id[a] = NoId
         /\ \A b \in Blocks : id[b] < blocksNum
         /\ \A d \in discovered : d < blocksNum

\* The active calls form a path that starts in the root, and each has seen the
\* successors its loop has passed.
StackInv ==
  /\ \A i, j \in 1 .. Len(stack) : stack[i].bb = stack[j].bb => i = j
  /\ \A k \in 1 .. Len(stack) : stack[k].next <= Len(succs[stack[k].bb]) + 1
  /\ \A k \in 1 .. Len(stack) : \A n \in 1 .. stack[k].next - 1 :
       succs[stack[k].bb][n] \in Seen
  /\ \A k, l \in 1 .. Len(stack) :
       k <= l => stack[l].bb \in Reach(SuccSets, stack[k].bb)
  /\ \A k \in 2 .. Len(stack) : stack[k].bb \in SuccSets[stack[k - 1].bb]
  /\ stack # << >> => stack[1].bb = Root
  /\ pc = "walk" <=> stack # << >>

\* What is emitted is in post-order.
OrderInv ==
  /\ \A i, j \in 1 .. Len(dfsBbs) : dfsBbs[i] = dfsBbs[j] => i = j
  /\ Active \cap Emitted = {}
  /\ Seen = Active \cup Emitted
  /\ \A b \in Emitted : SuccSets[b] \subseteq Seen
  /\ Seen \subseteq Reach(SuccSets, Root)
  /\ SuccessorsFirst(SuccSets, dfsBbs)
  /\ \A i \in 1 .. Len(dfsBbs) :
       dfsBbs[i] # Root =>
         \/ \E j \in i + 1 .. Len(dfsBbs) : dfsBbs[i] \in SuccSets[dfsBbs[j]]
         \/ \E k \in 1 .. Len(stack) : dfsBbs[i] \in SuccSets[stack[k].bb]
  /\ pc = "done" => Root \in Seen

IInv == TypeOK /\ IdInv /\ StackInv /\ OrderInv

-----------------------------------------------------------------------------
LEMMA SuccSetsType ==
  ASSUME TypeOK
  PROVE  /\ succs \in [Blocks -> Seq(Blocks)]
         /\ \A b \in Blocks : /\ succs[b] \in Seq(Blocks)
                              /\ Len(succs[b]) \in Nat
                              /\ SuccSets[b] = {succs[b][i] : i \in 1 .. Len(succs[b])}
                              /\ SuccSets[b] \subseteq Blocks
BY GraphsAssumption DEF TypeOK, SuccSets

\* Entering DFSWalk on b adds b, and nothing else, to the seen blocks among
\* those that remain in D: the id it may have to assign is new.
LEMMA EnterSees ==
  ASSUME TypeOK, IdInv, NEW b \in Blocks, GetId(b),
         NEW D \in SUBSET discovered, discovered' = D \cup {IdOf(b)}
  PROVE  /\ id' \in [Blocks -> Nat \cup {NoId}]
         /\ blocksNum' \in Nat
         /\ discovered' \subseteq Nat
         /\ IdInv'
         /\ Seen' = {x \in Blocks : id[x] \in D} \cup {b}
<1>1. blocksNum \in Nat /\ id \in [Blocks -> Nat \cup {NoId}] /\ discovered \subseteq Nat
  BY DEF TypeOK
<1>2. CASE id[b] = NoId
  <2>1. IdOf(b) = blocksNum /\ blocksNum' = blocksNum + 1
    BY <1>2 DEF IdOf, GetId
  <2>2. \A x \in Blocks : id'[x] = IF x = b THEN blocksNum ELSE id[x]
    BY <1>1, <2>1 DEF GetId
  <2>3. id' \in [Blocks -> Nat \cup {NoId}] /\ blocksNum' \in Nat
        /\ discovered' \subseteq Nat
    BY <1>1, <2>1 DEF GetId
  <2>4. IdInv'
    BY <1>1, <2>1, <2>2 DEF IdInv, NoId
  <2>5. Seen' = {x \in Blocks : id[x] \in D} \cup {b}
    <3>1. ASSUME NEW x \in Blocks, x # b
          PROVE  id'[x] \in discovered' <=> id[x] \in D
      BY <1>1, <2>1, <2>2, <3>1 DEF IdInv
    <3>2. id'[b] \in discovered'
      BY <2>1, <2>2
    <3> QED BY <3>1, <3>2 DEF Seen
  <2> QED BY <2>3, <2>4, <2>5
<1>3. CASE id[b] # NoId
  <2>1. IdOf(b) = id[b] /\ blocksNum' = blocksNum /\ id' = id
    BY <1>1, <1>3 DEF IdOf, GetId
  <2>2. discovered' \subseteq Nat /\ IdInv'
    BY <1>1, <1>3, <2>1 DEF IdInv, NoId
  <2>3. Seen' = {x \in Blocks : id[x] \in D} \cup {b}
    <3>1. ASSUME NEW x \in Blocks, x # b
          PROVE  id'[x] \in discovered' <=> id[x] \in D
      BY <1>1, <1>3, <2>1, <3>1 DEF IdInv
    <3> QED BY <2>1, <3>1 DEF Seen
  <2> QED BY <1>1, <2>1, <2>2, <2>3
<1> QED BY <1>2, <1>3

\* A successor that Skip passes over has an id and has been seen.
LEMMA SkipSees ==
  ASSUME TypeOK, IdInv, NEW b \in Blocks, IdOf(b) \in discovered, GetId(b)
  PROVE  id' = id /\ blocksNum' = blocksNum /\ b \in Seen
<1>1. id[b] # NoId
  BY DEF IdOf, IdInv, TypeOK
<1> QED BY <1>1 DEF IdOf, GetId, Seen, TypeOK

\* While the walk runs, the innermost frame exists.
LEMMA TopFrame ==
  ASSUME TypeOK, StackInv, pc = "walk"
  PROVE  /\ Len(stack) \in Nat \ {0}
         /\ Top \in Frames
         /\ Top.bb \in Blocks /\ Top.next \in Nat \ {0}
         /\ Top.bb \in Active
<1>1. stack \in Seq(Frames) /\ stack # << >>
  BY DEF TypeOK, StackInv
<1>2. Len(stack) \in Nat \ {0}
  BY <1>1
<1>3. Top \in Frames
  BY <1>1, <1>2, ElementOfSeq DEF Top
<1> QED BY <1>2, <1>3 DEF Top, Frames, Active

\* Every active call is on a block, whose successor list has a length.
LEMMA AnyFrame ==
  ASSUME TypeOK, NEW k \in 1 .. Len(stack)
  PROVE  /\ stack[k].bb \in Blocks
         /\ stack[k].next \in Nat \ {0}
         /\ Len(succs[stack[k].bb]) \in Nat
<1>1. stack[k] \in Frames
  BY ElementOfSeq DEF TypeOK
<1>2. stack[k].bb \in Blocks /\ stack[k].next \in Nat \ {0}
  BY <1>1 DEF Frames
<1> QED BY <1>2, SuccSetsType

\* Moving the innermost loop on changes that frame's position only.
LEMMA AdvancedFrames ==
  ASSUME TypeOK, StackInv, pc = "walk"
  PROVE  /\ Advanced \in Seq(Frames)
         /\ Len(Advanced) = Len(stack)
         /\ \A k \in 1 .. Len(stack) :
              /\ Advanced[k].bb = stack[k].bb
              /\ Advanced[k].next = IF k = Len(stack) THEN stack[k].next + 1
                                                      ELSE stack[k].next
<1> DEFINE n == Len(stack)
           frame == [stack[n] EXCEPT !.next = stack[n].next + 1]
<1>1. stack \in Seq(Frames) /\ n \in 1 .. Len(stack) /\ stack[n] \in Frames
  BY TopFrame DEF TypeOK, Top
<1>2. frame = [bb |-> stack[n].bb, next |-> stack[n].next + 1] /\ frame \in Frames
  BY <1>1 DEF Frames
<1>3. Advanced = [stack EXCEPT ![n] = frame]
  BY DEF Advanced
<1> HIDE DEF frame
<1>4. /\ Advanced \in Seq(Frames)
      /\ Len(Advanced) = Len(stack)
      /\ \A k \in 1 .. Len(stack) : Advanced[k] = IF k = n THEN frame ELSE stack[k]
  BY <1>1, <1>2, <1>3, ExceptSeq
<1> QED BY <1>2, <1>4

-----------------------------------------------------------------------------
LEMMA InitIInv == ASSUME Init PROVE IInv
<1>1. Cardinality(Blocks) \in Nat
  BY BlocksAssumption, FS_CardinalityType
<1>2. Cardinality({b \in Blocks : id[b] # NoId}) \in Nat
  <2>1. {b \in Blocks : id[b] # NoId} \in SUBSET Blocks
    OBVIOUS
  <2> QED BY <2>1, BlocksAssumption, FS_Subset, FS_CardinalityType
<1>3. id \in [Blocks -> Nat \cup {NoId}] /\ blocksNum \in Nat
  <2>1. NoId .. Cardinality(Blocks) - 1 \subseteq Nat \cup {NoId}
    BY <1>1 DEF NoId
  <2>2. id \in [Blocks -> NoId .. Cardinality(Blocks) - 1]
    BY DEF Init, Numbering
  <2>3. id \in [Blocks -> Nat \cup {NoId}]
    BY <2>1, <2>2
  <2> QED BY <1>2, <2>3 DEF Init, Numbering
<1>4. dfsBbs = << >> /\ discovered = {} /\ stack = << >> /\ pc = "idle" /\ succs \in Graphs
  BY DEF Init
<1>5. TypeOK
  BY <1>3, <1>4 DEF TypeOK
<1>6. IdInv
  BY <1>4 DEF Init, Numbering, IdInv
<1>7. StackInv
  BY <1>4 DEF StackInv
<1>8. OrderInv
  BY <1>4 DEF OrderInv, Active, Emitted, Seen, SuccessorsFirst
<1> QED BY <1>5, <1>6, <1>7, <1>8 DEF IInv

\* A new walk starts with one call, on the root, and nothing seen but the root.
LEMMA CallIInv == ASSUME IInv, Call PROVE IInv'
<1>1. /\ id' \in [Blocks -> Nat \cup {NoId}] /\ blocksNum' \in Nat
      /\ discovered' \subseteq Nat
      /\ IdInv'
      /\ Seen' = {Root}
  <2> DEFINE D == {}
  <2>1. D \in SUBSET discovered /\ discovered' = D \cup {IdOf(Root)} /\ GetId(Root)
    BY DEF Call
  <2>2. {x \in Blocks : id[x] \in D} = {}
    OBVIOUS
  <2> HIDE DEF D
  <2> QED BY <2>1, <2>2, EnterSees, EndsAssumption DEF IInv
<1>2. /\ dfsBbs' = << >> /\ stack' = << [bb |-> Root, next |-> 1] >>
      /\ pc' = "walk" /\ succs' = succs
  BY DEF Call
<1>3. Len(stack') = 1 /\ stack'[1].bb = Root /\ stack'[1].next = 1
  BY <1>2
<1>4. TypeOK'
  BY <1>1, <1>2, EndsAssumption DEF IInv, TypeOK, Frames
<1>5. SuccSets' = SuccSets
  BY <1>2 DEF SuccSets
<1>6. Root \in Reach(SuccSets, Root)
  BY ReachSelf, EndsAssumption
<1>7. Len(succs[Root]) \in Nat
  BY SuccSetsType, EndsAssumption DEF IInv
<1>8. StackInv'
  BY <1>2, <1>3, <1>5, <1>6, <1>7 DEF StackInv
<1>9. Active' = {Root}
  BY <1>3 DEF Active
<1>10. Emitted' = {}
  BY <1>2 DEF Emitted
<1>11. SuccessorsFirst(SuccSets', dfsBbs')
  BY <1>2 DEF SuccessorsFirst
<1>12. OrderInv'
  BY <1>1, <1>2, <1>5, <1>6, <1>9, <1>10, <1>11 DEF OrderInv
<1> QED BY <1>1, <1>4, <1>8, <1>12 DEF IInv

\* Passing over a successor that has been seen moves one loop on.
LEMMA SkipIInv == ASSUME IInv, Skip PROVE IInv'
<1> DEFINE n == Len(stack)
<1>1. pc = "walk" /\ HasNextSucc /\ stack' = Advanced
      /\ UNCHANGED <<succs, dfsBbs, discovered, pc>>
  BY DEF Skip
<1>2. n \in Nat \ {0} /\ Top.bb \in Blocks /\ Top.next \in Nat \ {0} /\ Top = stack[n]
  BY <1>1, TopFrame DEF IInv, Top
<1>3. Top.next <= Len(succs[Top.bb]) /\ NextSucc = succs[Top.bb][Top.next]
      /\ NextSucc \in Blocks
  BY <1>1, <1>2, SuccSetsType, ElementOfSeq DEF HasNextSucc, NextSucc, IInv
<1>4. id' = id /\ blocksNum' = blocksNum /\ NextSucc \in Seen
  BY <1>3, SkipSees DEF Skip, IInv
<1>5. Seen' = Seen /\ SuccSets' = SuccSets /\ Emitted' = Emitted
  BY <1>1, <1>4 DEF Seen, SuccSets, Emitted
<1>6. /\ stack' \in Seq(Frames) /\ Len(stack') = n
      /\ \A k \in 1 .. n : /\ stack'[k].bb = stack[k].bb
                           /\ stack'[k].next = IF k = n THEN stack[k].next + 1
                                                        ELSE stack[k].next
  BY <1>1, AdvancedFrames DEF IInv
<1>7. Active' = Active
  BY <1>6 DEF Active
<1>8. TypeOK'
  BY <1>1, <1>4, <1>6 DEF IInv, TypeOK
<1>9. IdInv'
  BY <1>1, <1>4 DEF IInv, IdInv
<1>10. StackInv'
  <2>1. \A i, j \in 1 .. Len(stack') : stack'[i].bb = stack'[j].bb => i = j
    BY <1>6 DEF IInv, StackInv
  <2>2. \A k \in 1 .. n : stack[k].next \in Nat /\ Len(succs[stack[k].bb]) \in Nat
                          /\ stack[k].bb \in Blocks
    BY AnyFrame DEF IInv
  <2>3. \A k \in 1 .. Len(stack') : stack'[k].next <= Len(succs'[stack'[k].bb]) + 1
    <3> SUFFICES ASSUME NEW k \in 1 .. n
                 PROVE  stack'[k].next <= Len(succs[stack[k].bb]) + 1
      BY <1>1, <1>6
    <3>1. CASE k = n
      BY <1>2, <1>3, <1>6, <2>2, <3>1
    <3>2. CASE k # n
      BY <1>6, <2>2, <3>2 DEF IInv, StackInv
    <3> QED BY <3>1, <3>2
  <2>4. \A k \in 1 .. Len(stack') : \A m \in 1 .. stack'[k].next - 1 :
          succs'[stack'[k].bb][m] \in Seen'
    <3> SUFFICES ASSUME NEW k \in 1 .. n, NEW m \in 1 .. stack'[k].next - 1
                 PROVE  succs[stack[k].bb][m] \in Seen
      BY <1>1, <1>5, <1>6
    <3>1. CASE m <= stack[k].next - 1
      BY <2>2, <3>1 DEF IInv, StackInv
    <3>2. CASE m > stack[k].next - 1
      <4>1. k = n /\ m = stack[k].next
        BY <1>6, <2>2, <3>2
      <4> QED BY <1>2, <1>3, <1>4, <4>1
    <3> QED BY <2>2, <3>1, <3>2
  <2>5. \A k, l \in 1 .. Len(stack') :
          k <= l => stack'[l].bb \in Reach(SuccSets', stack'[k].bb)
    BY <1>5, <1>6 DEF IInv, StackInv
  <2>6. \A k \in 2 .. Len(stack') : stack'[k].bb \in SuccSets'[stack'[k - 1].bb]
    BY <1>2, <1>5, <1>6 DEF IInv, StackInv
  <2>7. stack' # << >> /\ stack'[1].bb = Root
    BY <1>1, <1>2, <1>6 DEF IInv, StackInv
  <2> QED BY <1>1, <2>1, <2>3, <2>4, <2>5, <2>6, <2>7 DEF StackInv
<1>11. OrderInv'
  <2>1. \A i \in 1 .. Len(dfsBbs') :
          dfsBbs'[i] # Root =>
            \/ \E j \in i + 1 .. Len(dfsBbs') : dfsBbs'[i] \in SuccSets'[dfsBbs'[j]]
            \/ \E k \in 1 .. Len(stack') : dfsBbs'[i] \in SuccSets'[stack'[k].bb]
    BY <1>1, <1>5, <1>6 DEF IInv, OrderInv
  <2> QED BY <1>1, <1>5, <1>7, <2>1 DEF IInv, OrderInv
<1> QED BY <1>8, <1>9, <1>10, <1>11 DEF IInv

\* Visiting a new successor puts it on top of the path and among the seen.
LEMMA DescendIInv == ASSUME IInv, Descend PROVE IInv'
<1> DEFINE n == Len(stack)
           s == NextSucc
<1>1. pc = "walk" /\ HasNextSucc /\ UNCHANGED <<succs, dfsBbs, pc>>
  BY DEF Descend
<1>2. n \in Nat \ {0} /\ Top.bb \in Blocks /\ Top.next \in Nat \ {0} /\ Top = stack[n]
  BY <1>1, TopFrame DEF IInv, Top
<1>3. Top.next <= Len(succs[Top.bb]) /\ s = succs[Top.bb][Top.next]
      /\ s \in Blocks /\ s \in SuccSets[Top.bb]
  BY <1>1, <1>2, SuccSetsType, ElementOfSeq DEF HasNextSucc, NextSucc, IInv
<1>4. s \notin Seen
  BY <1>3 DEF Descend, IdOf, Seen, IInv, TypeOK, NoId
<1>5. /\ id' \in [Blocks -> Nat \cup {NoId}] /\ blocksNum' \in Nat
      /\ discovered' \subseteq Nat
      /\ IdInv'
      /\ Seen' = Seen \cup {s}
  <2>1. discovered' = discovered \cup {IdOf(s)} /\ GetId(s)
    BY DEF Descend, Enter
  <2>2. Seen' = {x \in Blocks : id[x] \in discovered} \cup {s}
    BY <1>3, <2>1, EnterSees DEF IInv
  <2> QED BY <1>3, <2>1, <2>2, EnterSees DEF IInv, Seen
<1>6. SuccSets' = SuccSets /\ Emitted' = Emitted
  BY <1>1 DEF SuccSets, Emitted
<1>7. /\ stack' \in Seq(Frames) /\ Len(stack') = n + 1
      /\ \A k \in 1 .. n : /\ stack'[k].bb = stack[k].bb
                           /\ stack'[k].next = IF k = n THEN stack[k].next + 1
                                                        ELSE stack[k].next
      /\ stack'[n + 1].bb = s /\ stack'[n + 1].next = 1
  <2>1. stack' = Append(Advanced, [bb |-> s, next |-> 1])
    BY DEF Descend, Enter
  <2>2. [bb |-> s, next |-> 1] \in Frames
    BY <1>3 DEF Frames
  <2> QED BY <1>1, <2>1, <2>2, AdvancedFrames DEF IInv
<1>8. Active' = Active \cup {s}
  <2>1. Active' = {stack'[k].bb : k \in 1 .. n + 1}
    BY <1>7 DEF Active
  <2>2. 1 .. n + 1 = (1 .. n) \cup {n + 1}
    BY <1>2
  <2> QED BY <1>7, <2>1, <2>2 DEF Active
<1>9. TypeOK'
  BY <1>1, <1>5, <1>7 DEF IInv, TypeOK
<1>10. \A k \in 1 .. n : /\ stack[k].next \in Nat /\ Len(succs[stack[k].bb]) \in Nat
                         /\ stack[k].bb \in Blocks /\ stack[k].bb \in Seen
  BY AnyFrame DEF IInv, OrderInv, Active
<1>11. StackInv'
  <2>1. \A i, j \in 1 .. Len(stack') : stack'[i].bb = stack'[j].bb => i = j
    <3>1. \A i \in 1 .. n : stack'[i].bb # s
      BY <1>4, <1>7, <1>10
    <3>2. \A i, j \in 1 .. n : stack'[i].bb = stack'[j].bb => i = j
      BY <1>7 DEF IInv, StackInv
    <3> QED BY <1>2, <1>7, <3>1, <3>2
  <2>2. \A k \in 1 .. Len(stack') : stack'[k].next <= Len(succs'[stack'[k].bb]) + 1
    <3> SUFFICES ASSUME NEW k \in 1 .. n + 1
                 PROVE  stack'[k].next <= Len(succs[stack'[k].bb]) + 1
      BY <1>1, <1>7
    <3>1. CASE k = n
      BY <1>2, <1>3, <1>7, <1>10, <3>1
    <3>2. CASE k \in 1 .. n /\ k # n
      BY <1>7, <1>10, <3>2 DEF IInv, StackInv
    <3>3. CASE k = n + 1
      BY <1>3, <1>7, <3>3, SuccSetsType DEF IInv
    <3> QED BY <1>2, <3>1, <3>2, <3>3
  <2>3. \A k \in 1 .. Len(stack') : \A m \in 1 .. stack'[k].next - 1 :
          succs'[stack'[k].bb][m] \in Seen'
    <3> SUFFICES ASSUME NEW k \in 1 .. n + 1, NEW m \in 1 .. stack'[k].next - 1
                 PROVE  succs[stack'[k].bb][m] \in Seen'
      BY <1>1, <1>7
    <3>1. k \in 1 .. n
      BY <1>2, <1>7
    <3>2. CASE m <= stack[k].next - 1
      BY <1>5, <1>7, <1>10, <3>1, <3>2 DEF IInv, StackInv
    <3>3. CASE m > stack[k].next - 1
      <4>1. k = n /\ m = stack[k].next
        BY <1>7, <1>10, <3>1, <3>3
      <4> QED BY <1>2, <1>3, <1>5, <1>7, <4>1
    <3> QED BY <1>10, <3>1, <3>2, <3>3
  <2>4. \A k, l \in 1 .. Len(stack') :
          k <= l => stack'[l].bb \in Reach(SuccSets', stack'[k].bb)
    <3> SUFFICES ASSUME NEW k \in 1 .. n + 1, NEW l \in 1 .. n + 1, k <= l
                 PROVE  stack'[l].bb \in Reach(SuccSets, stack'[k].bb)
      BY <1>6, <1>7
    <3>1. CASE l \in 1 .. n
      BY <1>7, <3>1 DEF IInv, StackInv
    <3>2. CASE k \in 1 .. n /\ l = n + 1
      <4>1. stack[n].bb \in Reach(SuccSets, stack[k].bb)
        BY <1>2, <3>2 DEF IInv, StackInv
      <4> QED BY <1>2, <1>3, <1>7, <3>2, <4>1, ReachStep
    <3>3. CASE k = n + 1
      BY <1>3, <1>7, <3>3, ReachSelf
    <3> QED BY <1>2, <3>1, <3>2, <3>3
  <2>5. \A k \in 2 .. Len(stack') : stack'[k].bb \in SuccSets'[stack'[k - 1].bb]
    <3> SUFFICES ASSUME NEW k \in 2 .. n + 1
                 PROVE  stack'[k].bb \in SuccSets[stack'[k - 1].bb]
      BY <1>6, <1>7
    <3>1. CASE k \in 2 .. n
      BY <1>7, <3>1 DEF IInv, StackInv
    <3>2. CASE k = n + 1
      BY <1>2, <1>3, <1>7, <3>2
    <3> QED BY <1>2, <3>1, <3>2
  <2>6. stack' # << >> /\ stack'[1].bb = Root
    BY <1>1, <1>2, <1>7 DEF IInv, StackInv
  <2> QED BY <1>1, <2>1, <2>2, <2>3, <2>4, <2>5, <2>6 DEF StackInv
<1>12. OrderInv'
  <2>1. \A i \in 1 .. Len(dfsBbs') :
          dfsBbs'[i] # Root =>
            \/ \E j \in i + 1 .. Len(dfsBbs') : dfsBbs'[i] \in SuccSets'[dfsBbs'[j]]
            \/ \E k \in 1 .. Len(stack') : dfsBbs'[i] \in SuccSets'[stack'[k].bb]
    <3> SUFFICES ASSUME NEW i \in 1 .. Len(dfsBbs), dfsBbs[i] # Root,
                        NEW k \in 1 .. n, dfsBbs[i] \in SuccSets[stack[k].bb]
                 PROVE  \E l \in 1 .. Len(stack') : dfsBbs[i] \in SuccSets[stack'[l].bb]
      BY <1>1, <1>6 DEF IInv, OrderInv
    <3>1. k \in 1 .. Len(stack') /\ dfsBbs[i] \in SuccSets[stack'[k].bb]
      BY <1>2, <1>7
    <3> QED BY <3>1
  <2>2. Seen' \subseteq Reach(SuccSets, Root)
    <3>1. Top.bb \in Reach(SuccSets, Root)
      BY <1>2, <1>10 DEF IInv, OrderInv
    <3>2. s \in Reach(SuccSets, Root)
      BY <1>3, <3>1, ReachStep
    <3> QED BY <1>5, <3>2 DEF IInv, OrderInv
  <2>3. Active' \cap Emitted' = {} /\ Seen' = Active' \cup Emitted'
    BY <1>4, <1>5, <1>6, <1>8 DEF IInv, OrderInv
  <2>4. \A b \in Emitted' : SuccSets'[b] \subseteq Seen'
    BY <1>5, <1>6 DEF IInv, OrderInv
  <2> QED BY <1>1, <1>5, <1>6, <2>1, <2>2, <2>3, <2>4 DEF IInv, OrderInv
<1> QED BY <1>5, <1>9, <1>11, <1>12 DEF IInv

\* Returning from a call emits its block behind all of its successors, except
\* those whose calls are still active, from which a path leads to it.
LEMMA EmitIInv == ASSUME IInv, Emit PROVE IInv'
<1> DEFINE n == Len(stack)
           m == Len(dfsBbs)
           b == Top.bb
<1>1. pc = "walk" /\ ~HasNextSucc /\ UNCHANGED <<succs, id, blocksNum, discovered>>
      /\ dfsBbs' = Append(dfsBbs, b) /\ stack' = Below
      /\ pc' = IF Below = << >> THEN "done" ELSE "walk"
  BY DEF Emit
<1>2. n \in Nat \ {0} /\ b \in Blocks /\ Top.next \in Nat \ {0} /\ Top = stack[n]
      /\ b \in Active
  BY <1>1, TopFrame DEF IInv, Top
<1>3. Seen' = Seen /\ SuccSets' = SuccSets
  BY <1>1 DEF Seen, SuccSets
<1>4. /\ stack' \in Seq(Frames) /\ Len(stack') = n - 1
      /\ \A k \in 1 .. n - 1 : stack'[k] = stack[k]
  <2>1. \A k \in 1 .. n - 1 : stack[k] \in Frames
    BY <1>2, ElementOfSeq DEF IInv, TypeOK
  <2>2. n - 1 \in Int /\ 1 \in Int /\ (IF 1 <= n - 1 THEN n - 1 - 1 + 1 ELSE 0) = n - 1
        /\ n - 1 - 1 + 1 = n - 1
    BY <1>2
  <2> QED BY <1>1, <1>2, <2>1, <2>2, SubSeqProperties DEF Below
<1>5. /\ dfsBbs' \in Seq(Blocks) /\ m \in Nat /\ Len(dfsBbs') = m + 1
      /\ \A i \in 1 .. m : dfsBbs'[i] = dfsBbs[i]
      /\ dfsBbs'[m + 1] = b
  BY <1>1, <1>2 DEF IInv, TypeOK
<1>6. Emitted' = Emitted \cup {b}
  <2>1. Emitted' = {dfsBbs'[i] : i \in 1 .. m + 1}
    BY <1>5 DEF Emitted
  <2>2. 1 .. m + 1 = (1 .. m) \cup {m + 1}
    BY <1>5
  <2> QED BY <1>5, <2>1, <2>2 DEF Emitted
<1>7. Active' = Active \ {b}
  <2>1. Active' = {stack[k].bb : k \in 1 .. n - 1}
    BY <1>4 DEF Active
  <2>2. 1 .. n = (1 .. n - 1) \cup {n} /\ n \notin 1 .. n - 1
    BY <1>2
  <2>3. \A k \in 1 .. n - 1 : stack[k].bb # b
    BY <1>2, <2>2 DEF IInv, StackInv
  <2> QED BY <1>2, <2>1, <2>2, <2>3 DEF Active
<1>8. SuccSets[b] \subseteq Seen
  <2>0. SuccSets[b] = {succs[b][k] : k \in 1 .. Len(succs[b])}
    BY <1>2, SuccSetsType DEF IInv
  <2> SUFFICES ASSUME NEW k \in 1 .. Len(succs[b]) PROVE succs[b][k] \in Seen
    BY <2>0
  <2>1. k \in 1 .. stack[n].next - 1
    BY <1>1, <1>2, SuccSetsType DEF HasNextSucc, IInv
  <2> QED BY <1>2, <2>1 DEF IInv, StackInv
<1>9. TypeOK'
  BY <1>1, <1>4, <1>5 DEF IInv, TypeOK
<1>10. IdInv'
  BY <1>1 DEF IInv, IdInv
<1>11. StackInv'
  <2>1. n - 1 \in Nat /\ 1 .. n - 1 \subseteq 1 .. n /\ 2 .. n - 1 \subseteq 2 .. n
        /\ \A k \in 2 .. n - 1 : k - 1 \in 1 .. n - 1
    BY <1>2
  <2>2. \A i, j \in 1 .. Len(stack') : stack'[i].bb = stack'[j].bb => i = j
    BY <1>4, <2>1 DEF IInv, StackInv
  <2>3. \A k \in 1 .. Len(stack') : stack'[k].next <= Len(succs'[stack'[k].bb]) + 1
    BY <1>1, <1>4, <2>1 DEF IInv, StackInv
  <2>4. \A k \in 1 .. Len(stack') : \A l \in 1 .. stack'[k].next - 1 :
          succs'[stack'[k].bb][l] \in Seen'
    BY <1>1, <1>3, <1>4, <2>1 DEF IInv, StackInv
  <2>5. \A k, l \in 1 .. Len(stack') :
          k <= l => stack'[l].bb \in Reach(SuccSets', stack'[k].bb)
    BY <1>3, <1>4, <2>1 DEF IInv, StackInv
  <2>6. \A k \in 2 .. Len(stack') : stack'[k].bb \in SuccSets'[stack'[k - 1].bb]
    BY <1>3, <1>4, <2>1, SMTT(30) DEF IInv, StackInv
  <2>7. stack' # << >> => stack'[1].bb = Root
    <3> SUFFICES ASSUME stack' # << >> PROVE stack'[1].bb = Root
      OBVIOUS
    <3>1. Len(stack') # 0
      BY <1>4
    <3>2. 1 \in 1 .. n - 1
      BY <1>2, <1>4, <3>1
    <3> QED BY <1>4, <3>2 DEF IInv, StackInv
  <2>8. pc' = "walk" <=> stack' # << >>
    BY <1>1
  <2> QED BY <2>2, <2>3, <2>4, <2>5, <2>6, <2>7, <2>8 DEF StackInv
<1>12. SuccessorsFirst(SuccSets, dfsBbs')
  <2> SUFFICES ASSUME NEW i \in 1 .. m + 1, NEW s \in SuccSets[dfsBbs'[i]],
                      dfsBbs'[i] \notin Reach(SuccSets, s)
               PROVE  \E j \in 1 .. i - 1 : dfsBbs'[j] = s
    BY <1>5 DEF SuccessorsFirst
  <2>1. CASE i \in 1 .. m
    <3>1. \E j \in 1 .. i - 1 : dfsBbs[j] = s
      BY <1>5, <2>1 DEF IInv, OrderInv, SuccessorsFirst
    <3> QED BY <1>5, <2>1, <3>1
  <2>2. CASE i = m + 1
    <3>1. s \in Seen /\ b \notin Reach(SuccSets, s)
      BY <1>5, <1>8, <2>2
    <3>2. s \notin Active
      <4> SUFFICES ASSUME NEW k \in 1 .. n PROVE b \in Reach(SuccSets, stack[k].bb)
        BY <3>1 DEF Active
      <4> QED BY <1>2 DEF IInv, StackInv
    <3>3. PICK j \in 1 .. m : dfsBbs[j] = s
      BY <3>1, <3>2 DEF IInv, OrderInv, Emitted
    <3> QED BY <1>5, <2>2, <3>3
  <2> QED BY <1>5, <2>1, <2>2
<1>13. \A i \in 1 .. m + 1 :
         dfsBbs'[i] # Root =>
           \/ \E j \in i + 1 .. m + 1 : dfsBbs'[i] \in SuccSets[dfsBbs'[j]]
           \/ \E k \in 1 .. n - 1 : dfsBbs'[i] \in SuccSets[stack'[k].bb]
  <2> SUFFICES ASSUME NEW i \in 1 .. m + 1, dfsBbs'[i] # Root
               PROVE  \/ \E j \in i + 1 .. m + 1 : dfsBbs'[i] \in SuccSets[dfsBbs'[j]]
                      \/ \E k \in 1 .. n - 1 : dfsBbs'[i] \in SuccSets[stack'[k].bb]
    OBVIOUS
  <2>1. CASE i = m + 1
    <3>1. n # 1
      BY <1>2, <1>5, <2>1 DEF IInv, StackInv
    <3> HIDE DEF n
    <3>2. n \in Nat \ {0, 1}
      BY <1>2, <3>1
    <3>3. n - 1 \in 1 .. n - 1 /\ n \in 2 .. n
      BY <3>2
    <3>4. b \in SuccSets[stack[n - 1].bb]
      BY <1>2, <3>3 DEF IInv, StackInv, n
    <3> QED BY <1>4, <1>5, <2>1, <3>3, <3>4
  <2>2. ASSUME NEW j \in i + 1 .. m, i \in 1 .. m, dfsBbs[i] \in SuccSets[dfsBbs[j]]
        PROVE  \E l \in i + 1 .. m + 1 : dfsBbs'[i] \in SuccSets[dfsBbs'[l]]
    BY <1>5, <2>2
  <2>3. ASSUME NEW k \in 1 .. n, i \in 1 .. m, dfsBbs[i] \in SuccSets[stack[k].bb]
        PROVE  \/ \E j \in i + 1 .. m + 1 : dfsBbs'[i] \in SuccSets[dfsBbs'[j]]
               \/ \E l \in 1 .. n - 1 : dfsBbs'[i] \in SuccSets[stack'[l].bb]
    <3>1. CASE k = n
      <4>1. m + 1 \in i + 1 .. m + 1 /\ dfsBbs'[i] \in SuccSets[dfsBbs'[m + 1]]
        BY <1>2, <1>5, <2>3, <3>1
      <4> QED BY <4>1
    <3>2. CASE k \in 1 .. n - 1
      BY <1>4, <1>5, <2>3, <3>2
    <3> QED BY <1>2, <3>1, <3>2
  <2>4. CASE i \in 1 .. m
    <3>1. dfsBbs[i] # Root
      BY <1>5, <2>4
    <3> QED BY <2>2, <2>3, <2>4, <3>1 DEF IInv, OrderInv
  <2> QED BY <1>5, <2>1, <2>4
<1>14. OrderInv'
  <2>1. \A i, j \in 1 .. Len(dfsBbs') : dfsBbs'[i] = dfsBbs'[j] => i = j
    <3>1. \A i \in 1 .. m : dfsBbs'[i] # b
      BY <1>2, <1>5 DEF IInv, OrderInv, Emitted
    <3>2. \A i, j \in 1 .. m : dfsBbs'[i] = dfsBbs'[j] => i = j
      BY <1>5 DEF IInv, OrderInv
    <3> QED BY <1>5, <3>1, <3>2
  <2>2. Active' \cap Emitted' = {} /\ Seen' = Active' \cup Emitted'
    BY <1>2, <1>3, <1>6, <1>7 DEF IInv, OrderInv
  <2>3. \A x \in Emitted' : SuccSets'[x] \subseteq Seen'
    BY <1>3, <1>6, <1>8 DEF IInv, OrderInv
  <2>4. Root \in Seen'
    <3>1. stack[1].bb = Root /\ 1 \in 1 .. n
      BY <1>1, <1>2 DEF IInv, StackInv
    <3> QED BY <1>3, <3>1 DEF IInv, OrderInv, Active
  <2>5. Seen' \subseteq Reach(SuccSets', Root)
    BY <1>3 DEF IInv, OrderInv
  <2>6. \A i \in 1 .. Len(dfsBbs') :
          dfsBbs'[i] # Root =>
            \/ \E j \in i + 1 .. Len(dfsBbs') : dfsBbs'[i] \in SuccSets'[dfsBbs'[j]]
            \/ \E k \in 1 .. Len(stack') : dfsBbs'[i] \in SuccSets'[stack'[k].bb]
    BY <1>3, <1>4, <1>5, <1>13
  <2> QED BY <1>3, <1>12, <2>1, <2>2, <2>3, <2>4, <2>5, <2>6 DEF OrderInv
<1> QED BY <1>9, <1>10, <1>11, <1>14 DEF IInv

LEMMA NextIInv == ASSUME IInv, [Next]_vars PROVE IInv'
<1>1. CASE UNCHANGED vars
  <2>1. TypeOK' /\ IdInv'
    BY <1>1 DEF IInv, TypeOK, IdInv, vars
  <2>2. Seen' = Seen /\ Active' = Active /\ Emitted' = Emitted /\ SuccSets' = SuccSets
    BY <1>1 DEF Seen, Active, Emitted, SuccSets, vars
  <2>3. StackInv' /\ OrderInv'
    BY <1>1, <2>2 DEF IInv, StackInv, OrderInv, vars
  <2> QED BY <2>1, <2>3 DEF IInv
<1> QED BY <1>1, CallIInv, SkipIInv, DescendIInv, EmitIInv DEF Next, DFSWalk

THEOREM InvariantHolds == Spec => []IInv
BY InitIInv, NextIInv, PTL DEF Spec

-----------------------------------------------------------------------------
\* The walk never leaves its types; ids and the stack stay well formed.
THEOREM TypeCorrect == Spec => []TypeOK
<1>1. IInv => TypeOK
  BY DEF IInv
<1> QED BY <1>1, InvariantHolds, PTL

\* When the walk has returned, what it has seen is closed under successors.
LEMMA DoneListsReachable ==
  ASSUME IInv, pc = "done" PROVE ListsReachable(SuccSets, Root, dfsBbs)
<1>1. stack = << >>
  BY DEF IInv, StackInv
<1>2. Active = {}
  BY <1>1 DEF Active
<1>3. Seen = Emitted /\ Root \in Seen /\ Seen \subseteq Blocks
  BY <1>2 DEF IInv, OrderInv, Seen
<1>4. Closed(SuccSets, Seen)
  BY <1>3 DEF Closed, IInv, OrderInv
<1>5. Reach(SuccSets, Root) \subseteq Seen
  BY <1>3, <1>4, ReachLeast
<1> QED BY <1>3, <1>5 DEF ListsReachable, IInv, OrderInv, Emitted

LEMMA DonePostOrder ==
  ASSUME IInv, pc = "done" PROVE IsPostOrder(SuccSets, Root, dfsBbs)
<1>1. stack = << >>
  BY DEF IInv, StackInv
<1>2. SomePredecessorLater(SuccSets, Root, dfsBbs)
  BY <1>1 DEF IInv, OrderInv, SomePredecessorLater
<1> QED BY <1>2, DoneListsReachable DEF IsPostOrder, IInv, OrderInv

\* The answer holds every reachable block exactly once.
THEOREM AnswersListReachable == Spec => []AnswerListsReachable
<1>1. IInv => AnswerListsReachable
  BY DoneListsReachable DEF AnswerListsReachable
<1> QED BY <1>1, InvariantHolds, PTL

\* The answer is topological but for edges that close a cycle.
THEOREM AnswersSuccessorsFirst == Spec => []AnswerSuccessorsFirst
<1>1. IInv => AnswerSuccessorsFirst
  BY DonePostOrder DEF AnswerSuccessorsFirst, IsPostOrder
<1> QED BY <1>1, InvariantHolds, PTL

\* Every block but the root precedes one of its predecessors in the answer.
THEOREM AnswersPredecessorLater == Spec => []AnswerPredecessorLater
<1>1. IInv => AnswerPredecessorLater
  BY DonePostOrder DEF AnswerPredecessorLater, IsPostOrder
<1> QED BY <1>1, InvariantHolds, PTL

\* The recursion is never deeper than the number of blocks.
THEOREM RecursionIsBounded == Spec => []RecursionBounded
<1>1. ASSUME IInv PROVE Len(stack) <= Cardinality(Blocks)
  <2> DEFINE f == [k \in 1 .. Len(stack) |-> stack[k].bb]
  <2>1. Len(stack) \in Nat
    BY <1>1 DEF IInv, TypeOK
  <2>2. f \in Injection(1 .. Len(stack), Blocks)
    BY <1>1, AnyFrame DEF IInv, StackInv, Injection, IsInjective
  <2>3. Cardinality(1 .. Len(stack)) = Len(stack)
    <3>1. 1 \in Int /\ Len(stack) \in Int
      BY <2>1
    <3>2. Cardinality(1 .. Len(stack))
            = IF 1 > Len(stack) THEN 0 ELSE Len(stack) - 1 + 1
      BY <3>1, FS_Interval, Zenon
    <3> QED BY <2>1, <3>2
  <2> QED BY <2>2, <2>3, BlocksAssumption, FS_Injection
<1>2. IInv => RecursionBounded
  BY <1>1 DEF IInv, StackInv, RecursionBounded
<1> QED BY <1>2, InvariantHolds, PTL

\* Traversal implements Walk: it answers every call with a post-order of the
\* blocks reachable from the root.
THEOREM ImplementsWalk == Spec => WalkSpec
<1>1. Init => Abstract!Init
  BY DEF Init, Abstract!Init
<1>2. IInv /\ pc = "done" => IsPostOrder(SuccSets, Root, dfsBbs) /\ dfsBbs \in Seq(Blocks)
  BY DonePostOrder DEF IInv, TypeOK
<1>3. (IInv /\ pc = "done" => IsPostOrder(SuccSets, Root, dfsBbs) /\ dfsBbs \in Seq(Blocks))'
  BY <1>2, PTL
<1>4. IInv /\ IInv' /\ [Next]_vars => [Abstract!Call \/ Abstract!Answer]_(Abstract!vars)
  <2> SUFFICES ASSUME IInv, IInv', [Next]_vars
               PROVE  [Abstract!Call \/ Abstract!Answer]_(Abstract!vars)
    OBVIOUS
  <2>1. CASE Call
    BY <2>1 DEF Call, Abstract!Call
  <2>2. CASE Skip \/ Descend
    BY <2>2 DEF Skip, Descend, Abstract!vars
  <2>3. CASE Emit
    <3>1. CASE pc' = "done"
      <4>1. IsPostOrder(SuccSets, Root, dfsBbs)' /\ dfsBbs' \in Seq(Blocks)
        BY <1>3, <3>1
      <4>2. Abstract!SuccSets = SuccSets /\ SuccSets' = SuccSets
        BY <2>3 DEF Emit, SuccSets, Abstract!SuccSets
      <4>3. IsPostOrder(SuccSets, Root, dfsBbs')
        BY <4>1, <4>2
      <4>4. Abstract!IsPostOrder(Abstract!SuccSets, Root, dfsBbs')
        BY <4>2, <4>3 DEF IsPostOrder, ListsReachable, SuccessorsFirst,
          SomePredecessorLater, Reach, Closed, Abstract!IsPostOrder,
          Abstract!ListsReachable, Abstract!SuccessorsFirst,
          Abstract!SomePredecessorLater, Abstract!Reach, Abstract!Closed
      <4>5. (IF pc = "done" THEN dfsBbs ELSE << >>)' = dfsBbs'
        BY <3>1
      <4>6. pc = "walk" /\ (pc = "walk")' = FALSE /\ UNCHANGED succs
        BY <2>3, <3>1 DEF Emit
      <4>7. Abstract!Answer
        BY <4>1, <4>4, <4>5, <4>6 DEF Abstract!Answer
      <4> QED BY <4>7
    <3>2. CASE pc' = "walk"
      BY <2>3, <3>2 DEF Emit, Abstract!vars
    <3> QED BY <2>3, <3>1, <3>2 DEF Emit
  <2>4. CASE UNCHANGED vars
    BY <2>4 DEF vars, Abstract!vars
  <2> QED BY <2>1, <2>2, <2>3, <2>4 DEF Next, DFSWalk
<1> QED BY <1>1, <1>4, InvariantHolds, PTL DEF Spec, WalkSpec, Abstract!Spec

-----------------------------------------------------------------------------
(***************************************************************************)
(* From here on: Inlining, for every well-formed program.                  *)
(***************************************************************************)
\* The sets that ReachIn goes through exist: the first k of them, for every k.
LEMMA ReachRounds ==
  ASSUME NEW g \in [Blocks -> SUBSET Blocks], NEW b \in Blocks, NEW N \in Nat
  PROVE  \E f \in [0 .. N -> SUBSET Blocks] :
           f = [n \in 0 .. N |-> IF n = 0 THEN {b} ELSE UNION {g[x] \cup {x} : x \in f[n - 1]}]
<1> DEFINE Goes(k, f) == \A n \in 0 .. k : f[n] = IF n = 0 THEN {b} ELSE UNION {g[x] \cup {x} : x \in f[n - 1]}
           Bad == {k \in Nat : ~ \E f \in [0 .. k -> SUBSET Blocks] : Goes(k, f)}
<1>1. Bad = {}
  <2> SUFFICES ASSUME Bad # {} PROVE FALSE
    OBVIOUS
  <2>1. PICK m \in Bad : \A k \in Bad : m <= k
    <3> HIDE DEF Bad
    <3>1. Bad \subseteq Nat
      BY DEF Bad
    <3> QED BY <3>1, LeastNatural
  <2>2. m \in Nat
    OBVIOUS
  <2>3. CASE m = 0
    <3> DEFINE f == [n \in 0 .. 0 |-> {b}]
    <3>1. f \in [0 .. m -> SUBSET Blocks] /\ Goes(m, f)
      BY <2>3
    <3> QED BY <3>1
  <2>4. CASE m # 0
    <3>1. m - 1 \in Nat /\ ~ (m <= m - 1)
      BY <2>2, <2>4
    <3>2. m - 1 \notin Bad
      BY <2>1, <3>1
    <3>3. PICK f \in [0 .. m - 1 -> SUBSET Blocks] : Goes(m - 1, f)
      BY <3>1, <3>2
    <3> DEFINE h == [n \in 0 .. m |-> IF n = m THEN UNION {g[x] \cup {x} : x \in f[m - 1]} ELSE f[n]]
    <3>4. f[m - 1] \subseteq Blocks
      BY <3>1, <3>3
    <3>5. UNION {g[x] \cup {x} : x \in f[m - 1]} \in SUBSET Blocks
      BY <3>4
    <3>6. h \in [0 .. m -> SUBSET Blocks]
      <4>1. ASSUME NEW n \in 0 .. m PROVE h[n] \in SUBSET Blocks
        <5>1. CASE n = m
          BY <3>5, <5>1
        <5>2. CASE n # m
          <6>1. n \in 0 .. m - 1
            BY <5>2, <2>2
          <6> QED BY <5>2, <6>1, <3>3
        <5> QED BY <5>1, <5>2
      <4> QED BY <4>1
    <3>7. Goes(m, h)
      <4> SUFFICES ASSUME NEW n \in 0 .. m
                   PROVE  h[n] = IF n = 0 THEN {b} ELSE UNION {g[x] \cup {x} : x \in h[n - 1]}
        OBVIOUS
      <4>1. CASE n = m
        <5>1. h[n - 1] = f[m - 1]
          BY <4>1, <3>1, <2>2
        <5> QED BY <4>1, <5>1, <2>4
      <4>2. CASE n # m
        <5>1. n \in 0 .. m - 1 /\ h[n] = f[n]
          BY <4>2, <2>2
        <5>2. CASE n = 0
          BY <5>1, <5>2, <3>3
        <5>3. CASE n # 0
          <6>1. n - 1 \in 0 .. m /\ n - 1 # m
            BY <5>1, <5>3, <2>2
          <6>2. h[n - 1] = f[n - 1]
            BY <6>1
          <6> QED BY <5>1, <5>3, <6>2, <3>3
        <5> QED BY <5>2, <5>3
      <4> QED BY <4>1, <4>2
    <3> QED BY <3>6, <3>7
  <2> QED BY <2>3, <2>4
<1>2. PICK f \in [0 .. N -> SUBSET Blocks] : Goes(N, f)
  BY <1>1
<1>3. f = [n \in 0 .. N |-> f[n]]
  BY <1>2
<1> QED BY <1>2, <1>3
\* ReachIn computes Reach: a round that finds nothing new ends in a closed set, and
\* there are as many rounds as blocks.
LEMMA ReachInIsReach ==
  ASSUME NEW g \in [Blocks -> SUBSET Blocks], NEW b \in Blocks
  PROVE  ReachIn(g, b) = Reach(g, b)
<1> DEFINE N == Cardinality(Blocks)
           r == CHOOSE f : f = [n \in 0 .. N |-> IF n = 0 THEN {b} ELSE UNION {g[x] \cup {x} : x \in f[n - 1]}]
<1>1. N \in Nat /\ IsFiniteSet(Blocks)
  BY ProgramsAssumption, FS_CardinalityType
<1>2. ReachIn(g, b) = r[N]
  BY DEF ReachIn
<1>3. r = [n \in 0 .. N |-> IF n = 0 THEN {b} ELSE UNION {g[x] \cup {x} : x \in r[n - 1]}]
  <2> HIDE DEF N
  <2>1. \E f : f = [n \in 0 .. N |-> IF n = 0 THEN {b} ELSE UNION {g[x] \cup {x} : x \in f[n - 1]}]
    <3>1. PICK f \in [0 .. N -> SUBSET Blocks] :
            f = [n \in 0 .. N |-> IF n = 0 THEN {b} ELSE UNION {g[x] \cup {x} : x \in f[n - 1]}]
      BY <1>1, ReachRounds
    <3> QED BY <3>1, Zenon
  <2> QED BY <2>1, Zenon
<1>4. r[0] = {b} /\ \A n \in 1 .. N : r[n] = UNION {g[x] \cup {x} : x \in r[n - 1]}
  <2> HIDE DEF N, r
  <2>1. r[0] = {b}
    BY <1>1, <1>3
  <2>2. ASSUME NEW n \in 1 .. N PROVE r[n] = UNION {g[x] \cup {x} : x \in r[n - 1]}
    <3>1. n \in 0 .. N /\ n # 0
      BY <1>1
    <3> QED BY <3>1, <1>3, Zenon
  <2> QED BY <2>1, <2>2
<1> HIDE DEF N, r
<1> DEFINE Bad == {n \in 0 .. N : ~ (/\ r[n] \subseteq Reach(g, b) /\ b \in r[n]
                                    /\ (Closed(g, r[n]) \/ Cardinality(r[n]) > n))}
<1>5. Bad = {}
  <2> SUFFICES ASSUME Bad # {} PROVE FALSE
    OBVIOUS
  <2>1. PICK m \in Bad : \A k \in Bad : m <= k
    <3>1. Bad \subseteq Nat
      BY <1>1
    <3> HIDE DEF Bad
    <3> QED BY <3>1, LeastNatural
  <2>2. CASE m = 0
    <3>1. r[m] = {b} /\ Cardinality({b}) = 1
      BY <2>2, <1>4, FS_Singleton
    <3>2. b \in Reach(g, b)
      BY ReachSelf
    <3>3. r[m] \subseteq Reach(g, b) /\ b \in r[m] /\ Cardinality(r[m]) > m
      BY <3>1, <3>2, <2>2
    <3> QED BY <3>3
  <2>3. CASE m # 0
    <3>1. m \in 1 .. N /\ m - 1 \in 0 .. N /\ ~ (m <= m - 1)
      BY <2>3, <1>1
    <3> DEFINE s == r[m - 1]
    <3>2. s \subseteq Reach(g, b) /\ b \in s /\ (Closed(g, s) \/ Cardinality(s) > m - 1)
      BY <2>1, <3>1
    <3>3. r[m] = UNION {g[x] \cup {x} : x \in s}
      BY <1>4, <3>1
    <3> HIDE DEF s
    <3>4. s \subseteq Blocks
      BY <3>2, ReachBlocks
    <3>5. s \subseteq r[m]
      BY <3>3
    <3>6. r[m] \subseteq Reach(g, b)
      <4> SUFFICES ASSUME NEW x \in s, NEW y \in g[x] PROVE y \in Reach(g, b)
        BY <3>2, <3>3
      <4> QED BY <3>2, <3>4, ReachStep
    <3>7. CASE Closed(g, s)
      <4>1. r[m] = s
        BY <3>7, <3>3 DEF Closed
      <4> QED BY <4>1, <3>7, <3>2
    <3>8. CASE ~ Closed(g, s)
      <4>1. s # r[m]
        <5>1. PICK x \in s : ~ (g[x] \subseteq s)
          BY <3>8 DEF Closed
        <5>2. g[x] \subseteq r[m]
          BY <3>3
        <5> QED BY <5>1, <5>2
      <4>2. r[m] \subseteq Blocks
        BY <3>6, ReachBlocks
      <4>3. IsFiniteSet(r[m]) /\ IsFiniteSet(s)
        BY <4>2, <3>4, <1>1, FS_Subset
      <4>4. Cardinality(s) < Cardinality(r[m])
        <5>1. Cardinality(s) <= Cardinality(r[m]) /\ Cardinality(s) # Cardinality(r[m])
          BY <4>1, <4>3, <3>5, FS_Subset
        <5>2. Cardinality(s) \in Nat /\ Cardinality(r[m]) \in Nat
          BY <4>3, FS_CardinalityType
        <5> QED BY <5>1, <5>2
      <4>5. Cardinality(s) \in Nat /\ Cardinality(r[m]) \in Nat
        BY <4>3, FS_CardinalityType
      <4>6. Cardinality(r[m]) > m
        BY <4>4, <4>5, <3>1, <3>2, <3>8
      <4> QED BY <4>6, <3>6, <3>5, <3>2
    <3> QED BY <3>7, <3>8
  <2> QED BY <2>2, <2>3
<1>6. r[N] \subseteq Reach(g, b) /\ b \in r[N] /\ (Closed(g, r[N]) \/ Cardinality(r[N]) > N)
  <2>1. N \in 0 .. N
    BY <1>1
  <2> QED BY <2>1, <1>5
<1>7. Closed(g, r[N])
  <2>1. r[N] \subseteq Blocks
    BY <1>6, ReachBlocks
  <2>2. Cardinality(r[N]) <= N /\ Cardinality(r[N]) \in Nat
    BY <2>1, <1>1, FS_Subset, FS_CardinalityType DEF N
  <2> QED BY <2>2, <1>1, <1>6
<1>8. Reach(g, b) \subseteq r[N]
  BY <1>6, <1>7, ReachLeast, ReachBlocks
<1> QED BY <1>2, <1>6, <1>8

\* The sequences that FlattenSeq goes through exist.
LEMMA FlattenRounds ==
  ASSUME NEW S, NEW ss \in Seq(Seq(S)), ss # << >>
  PROVE  \E f \in [1 .. Len(ss) -> Seq(S)] :
           f = [i \in 1 .. Len(ss) |-> IF i = 1 THEN ss[i] ELSE f[i - 1] \o ss[i]]
<1> DEFINE Goes(k, f) == \A i \in 1 .. k : f[i] = IF i = 1 THEN ss[i] ELSE f[i - 1] \o ss[i]
           Bad == {k \in 1 .. Len(ss) : ~ \E f \in [1 .. k -> Seq(S)] : Goes(k, f)}
<1>1. Len(ss) \in Nat /\ \A i \in 1 .. Len(ss) : ss[i] \in Seq(S)
  OBVIOUS
<1>2. Bad = {}
  <2> SUFFICES ASSUME Bad # {} PROVE FALSE
    OBVIOUS
  <2>1. PICK m \in Bad : \A k \in Bad : m <= k
    <3>1. Bad \subseteq Nat
      BY <1>1
    <3> HIDE DEF Bad
    <3> QED BY <3>1, LeastNatural
  <2>2. m \in 1 .. Len(ss) /\ m \in Nat
    BY <1>1
  <2>3. CASE m = 1
    <3> DEFINE f == [i \in 1 .. 1 |-> ss[1]]
    <3>1. ss[1] \in Seq(S)
      BY <1>1, <2>2, <2>3
    <3>2. f \in [1 .. m -> Seq(S)] /\ Goes(m, f)
      BY <2>3, <3>1
    <3> QED BY <3>2
  <2>4. CASE m # 1
    <3>1. m - 1 \in 1 .. Len(ss) /\ ~ (m <= m - 1)
      BY <2>2, <2>4
    <3>2. m - 1 \notin Bad
      BY <2>1, <3>1
    <3>3. PICK f \in [1 .. m - 1 -> Seq(S)] : Goes(m - 1, f)
      BY <3>1, <3>2
    <3> DEFINE h == [i \in 1 .. m |-> IF i = m THEN f[m - 1] \o ss[m] ELSE f[i]]
    <3>4. f[m - 1] \in Seq(S)
      BY <3>1, <3>3
    <3>5. f[m - 1] \o ss[m] \in Seq(S)
      BY <3>4, <1>1, <2>2, ConcatProperties
    <3>6. h \in [1 .. m -> Seq(S)]
      <4>1. ASSUME NEW i \in 1 .. m PROVE h[i] \in Seq(S)
        <5>1. CASE i = m
          BY <3>5, <5>1
        <5>2. CASE i # m
          <6>1. i \in 1 .. m - 1
            BY <5>2, <2>2
          <6> QED BY <5>2, <6>1, <3>3
        <5> QED BY <5>1, <5>2
      <4> QED BY <4>1
    <3>7. Goes(m, h)
      <4> SUFFICES ASSUME NEW i \in 1 .. m
                   PROVE  h[i] = IF i = 1 THEN ss[i] ELSE h[i - 1] \o ss[i]
        OBVIOUS
      <4>1. CASE i = m
        <5>1. h[i - 1] = f[m - 1]
          BY <4>1, <3>1, <2>2
        <5> QED BY <4>1, <5>1, <2>4
      <4>2. CASE i # m
        <5>1. i \in 1 .. m - 1 /\ h[i] = f[i]
          BY <4>2, <2>2
        <5>2. CASE i = 1
          BY <5>1, <5>2, <3>3
        <5>3. CASE i # 1
          <6>1. i - 1 \in 1 .. m /\ i - 1 # m
            BY <5>1, <5>3, <2>2
          <6>2. h[i - 1] = f[i - 1]
            BY <6>1
          <6> QED BY <5>1, <5>3, <6>2, <3>3
        <5> QED BY <5>2, <5>3
      <4> QED BY <4>1, <4>2
    <3> QED BY <3>6, <3>7
  <2> QED BY <2>3, <2>4
<1>3. Len(ss) \in 1 .. Len(ss)
  BY <1>1
<1>4. PICK f \in [1 .. Len(ss) -> Seq(S)] : Goes(Len(ss), f)
  BY <1>2, <1>3
<1>5. f = [i \in 1 .. Len(ss) |-> f[i]]
  BY <1>4
<1> QED BY <1>4, <1>5

\* No two places of the sequences in ss hold the same.
Apart(ss) == \A i, j \in DOMAIN ss : \A k \in DOMAIN ss[i], l \in DOMAIN ss[j] :
               ss[i][k] = ss[j][l] => i = j /\ k = l

Flat(ss, n, q) ==
  /\ \A x : x \in Range(q) <=> \E i \in 1 .. n : x \in Range(ss[i])
  /\ Apart(ss) => IsInjective(q)

\* One more sequence is appended.
LEMMA FlatStep ==
  ASSUME NEW S, NEW ss \in Seq(Seq(S)), NEW m \in 2 .. Len(ss), NEW q \in Seq(S), Flat(ss, m - 1, q)
  PROVE  Flat(ss, m, q \o ss[m])
<1> DEFINE t == ss[m]
           z == q \o t
<1>1. t \in Seq(S) /\ m \in Nat
  OBVIOUS
<1>2. /\ Len(q) \in Nat /\ Len(t) \in Nat /\ z \in Seq(S) /\ Len(z) = Len(q) + Len(t)
      /\ DOMAIN q = 1 .. Len(q) /\ DOMAIN t = 1 .. Len(t) /\ DOMAIN z = 1 .. Len(q) + Len(t)
      /\ \A i \in 1 .. Len(q) : z[i] = q[i]
      /\ \A i \in 1 .. Len(t) : z[Len(q) + i] = t[i]
  BY <1>1
<1>3. \A x : x \in Range(q) <=> \E i \in 1 .. m - 1 : x \in Range(ss[i])
  BY DEF Flat
<1> HIDE DEF z, t
<1>4. ASSUME NEW i \in DOMAIN z
      PROVE  \/ i \in 1 .. Len(q) /\ z[i] = q[i]
             \/ i - Len(q) \in 1 .. Len(t) /\ z[i] = t[i - Len(q)]
  <2>1. CASE i \in 1 .. Len(q)
    BY <2>1, <1>2
  <2>2. CASE i \notin 1 .. Len(q)
    <3>1. i - Len(q) \in 1 .. Len(t) /\ Len(q) + (i - Len(q)) = i
      BY <2>2, <1>2
    <3> QED BY <3>1, <1>2
  <2> QED BY <2>1, <2>2
<1>5. ASSUME NEW v PROVE v \in Range(z) <=> v \in Range(q) \/ v \in Range(t)
  <2>1. ASSUME v \in Range(z) PROVE v \in Range(q) \/ v \in Range(t)
    <3>1. PICK i \in DOMAIN z : v = z[i]
      BY <2>1 DEF Range
    <3> QED BY <3>1, <1>4, <1>2 DEF Range
  <2>2. ASSUME v \in Range(q) PROVE v \in Range(z)
    <3>1. PICK i \in 1 .. Len(q) : v = q[i]
      BY <2>2, <1>2 DEF Range
    <3>2. i \in DOMAIN z /\ z[i] = v
      BY <3>1, <1>2
    <3> QED BY <3>2 DEF Range
  <2>3. ASSUME v \in Range(t) PROVE v \in Range(z)
    <3>1. PICK i \in 1 .. Len(t) : v = t[i]
      BY <2>3, <1>2 DEF Range
    <3>2. Len(q) + i \in DOMAIN z /\ z[Len(q) + i] = v
      BY <3>1, <1>2
    <3> QED BY <3>2 DEF Range
  <2> QED BY <2>1, <2>2, <2>3
<1>6. ASSUME NEW v PROVE v \in Range(z) <=> \E i \in 1 .. m : v \in Range(ss[i])
  <2>1. \A i \in 1 .. m : i = m \/ i \in 1 .. m - 1
    BY <1>1
  <2>2. \A i \in 1 .. m - 1 : i \in 1 .. m
    BY <1>1
  <2>3. m \in 1 .. m
    BY <1>1
  <2> QED BY <1>3, <1>5, <2>1, <2>2, <2>3 DEF t
<1>7. ASSUME Apart(ss) PROVE IsInjective(z)
  <2>1. IsInjective(q)
    BY <1>7 DEF Flat
  <2>2. ASSUME NEW i \in 1 .. Len(q), NEW k \in 1 .. Len(t), q[i] = t[k] PROVE FALSE
    <3>1. q[i] \in Range(q)
      BY <1>2 DEF Range
    <3>2. PICK j \in 1 .. m - 1 : q[i] \in Range(ss[j])
      BY <3>1, <1>3
    <3>3. PICK l \in DOMAIN ss[j] : q[i] = ss[j][l]
      BY <3>2 DEF Range
    <3>4. j \in DOMAIN ss /\ m \in DOMAIN ss /\ j # m
      BY <1>1
    <3>5. k \in DOMAIN ss[m] /\ q[i] = ss[m][k]
      BY <2>2, <1>2 DEF t
    <3> QED BY <3>3, <3>4, <3>5, <1>7 DEF Apart
  <2>3. ASSUME NEW k \in 1 .. Len(t), NEW l \in 1 .. Len(t), t[k] = t[l] PROVE k = l
    <3>1. m \in DOMAIN ss /\ k \in DOMAIN ss[m] /\ l \in DOMAIN ss[m] /\ ss[m][k] = ss[m][l]
      BY <2>3, <1>2 DEF t
    <3> QED BY <3>1, <1>7, Zenon DEF Apart
  <2>4. ASSUME NEW i \in DOMAIN z, NEW j \in DOMAIN z, z[i] = z[j] PROVE i = j
    <3>1. i \in Nat /\ j \in Nat
      BY <1>2
    <3>2. CASE i \in 1 .. Len(q) /\ j \in 1 .. Len(q) /\ z[i] = q[i] /\ z[j] = q[j]
      BY <3>2, <2>1, <2>4, <1>2 DEF IsInjective
    <3>3. CASE i \in 1 .. Len(q) /\ z[i] = q[i] /\ j - Len(q) \in 1 .. Len(t) /\ z[j] = t[j - Len(q)]
      BY <3>3, <2>2, <2>4
    <3>4. CASE j \in 1 .. Len(q) /\ z[j] = q[j] /\ i - Len(q) \in 1 .. Len(t) /\ z[i] = t[i - Len(q)]
      BY <3>4, <2>2, <2>4
    <3>5. CASE /\ i - Len(q) \in 1 .. Len(t) /\ z[i] = t[i - Len(q)]
               /\ j - Len(q) \in 1 .. Len(t) /\ z[j] = t[j - Len(q)]
      <4>1. i - Len(q) = j - Len(q)
        BY <3>5, <2>3, <2>4
      <4> QED BY <4>1, <3>1, <1>2
    <3> QED BY <3>2, <3>3, <3>4, <3>5, <1>4
  <2> QED BY <2>4 DEF IsInjective
<1> QED BY <1>6, <1>7 DEF Flat, z, t

\* Flattened, sequences without a common or repeated element hold what they held,
\* each once.
LEMMA Flattened ==
  ASSUME NEW S, NEW ss \in Seq(Seq(S))
  PROVE  /\ FlattenSeq(ss) \in Seq(S)
         /\ \A x : x \in Range(FlattenSeq(ss)) <=> \E i \in DOMAIN ss : x \in Range(ss[i])
         /\ Apart(ss) => IsInjective(FlattenSeq(ss))
<1>1. CASE ss = << >>
  <2>1. FlattenSeq(ss) = << >> /\ DOMAIN ss = {}
    BY <1>1 DEF FlattenSeq
  <2> QED BY <2>1 DEF Range, IsInjective
<1>2. CASE ss # << >>
  <2> DEFINE N == Len(ss)
             f == CHOOSE h : h = [i \in 1 .. N |-> IF i = 1 THEN ss[i] ELSE h[i - 1] \o ss[i]]
  <2>1. N \in Nat /\ N # 0 /\ DOMAIN ss = 1 .. N /\ \A i \in 1 .. N : ss[i] \in Seq(S)
    BY <1>2
  <2>2. FlattenSeq(ss) = f[N]
    BY <2>1 DEF FlattenSeq
  <2>3. f = [i \in 1 .. N |-> IF i = 1 THEN ss[i] ELSE f[i - 1] \o ss[i]]
    <3> HIDE DEF N
    <3>1. \E h : h = [i \in 1 .. N |-> IF i = 1 THEN ss[i] ELSE h[i - 1] \o ss[i]]
      <4>1. PICK h \in [1 .. N -> Seq(S)] : h = [i \in 1 .. N |-> IF i = 1 THEN ss[i] ELSE h[i - 1] \o ss[i]]
        BY <1>2, FlattenRounds DEF N
      <4> QED BY <4>1, Zenon
    <3> QED BY <3>1, Zenon
  <2> HIDE DEF f, N
  <2>4. ASSUME NEW i \in 1 .. N PROVE f[i] = IF i = 1 THEN ss[i] ELSE f[i - 1] \o ss[i]
    BY <2>3, Zenon
  <2> DEFINE Bad == {n \in 1 .. N : ~ (f[n] \in Seq(S) /\ Flat(ss, n, f[n]))}
  <2>5. Bad = {}
    <3> SUFFICES ASSUME Bad # {} PROVE FALSE
      OBVIOUS
    <3>1. PICK m \in Bad : \A k \in Bad : m <= k
      <4>1. Bad \subseteq Nat
        BY <2>1
      <4> HIDE DEF Bad
      <4> QED BY <4>1, LeastNatural
    <3>2. CASE m = 1
      <4>1. f[1] = ss[1] /\ ss[1] \in Seq(S) /\ 1 \in DOMAIN ss
        BY <2>1, <2>4
      <4>2. \A i \in 1 .. 1 : i = 1
        OBVIOUS
      <4>3. Apart(ss) => IsInjective(ss[1])
        BY <4>1 DEF Apart, IsInjective
      <4>4. Flat(ss, 1, ss[1])
        BY <4>2, <4>3 DEF Flat
      <4> QED BY <3>2, <4>1, <4>4
    <3>3. CASE m # 1
      <4>1. m \in 2 .. Len(ss) /\ m - 1 \in 1 .. N /\ ~ (m <= m - 1)
        BY <3>3, <2>1 DEF N
      <4>2. f[m - 1] \in Seq(S) /\ Flat(ss, m - 1, f[m - 1])
        BY <3>1, <4>1
      <4>3. Flat(ss, m, f[m - 1] \o ss[m])
        BY <4>1, <4>2, FlatStep
      <4>4. f[m] = f[m - 1] \o ss[m]
        BY <2>4, <3>3
      <4>5. f[m] \in Seq(S)
        BY <4>2, <4>4, <2>1, ConcatProperties
      <4> QED BY <4>3, <4>4, <4>5
    <3> QED BY <3>2, <3>3
  <2>6. f[N] \in Seq(S) /\ Flat(ss, N, f[N])
    <3>1. N \in 1 .. N
      BY <2>1
    <3> QED BY <3>1, <2>5
  <2> QED BY <2>1, <2>2, <2>6 DEF Flat
<1> QED BY <1>1, <1>2

(***************************************************************************)
(* The program p, by itself: the caller's blocks and instructions, the     *)
(* blocks of callees, the calls to inline and what belongs to call c.      *)
(***************************************************************************)
MainBlocks(p) == {b \in Blocks : p.graph[b] = Main}
Foreign(p) == {b \in Blocks : p.graph[b] \in DOMAIN p.root \ {Main}}
MainInstrs(p) == UNION {Range(p.list[b]) : b \in MainBlocks(p)}
Sites(p) == {c \in CallsOf(p) : Cardinality(MainInstrs(p)) <= Limit}
RootOf(p, c) == p.root[p.callee[c]]
EndOf(p, c) == p.end[p.callee[c]]
InnerOf(p, c) == Body(p, p.callee[c])
ExitsOf(p, c) == AtEnd(p, p.callee[c])

LEMMA ListedMeans ==
  ASSUME NEW l \in [Blocks -> Seq(Instrs)], NEW i, NEW b \in Blocks
  PROVE  b \in ListedAt(l, i) <=> i \in Range(l[b])
BY DEF ListedAt, Slots, Range

LEMMA ProgramTypes ==
  ASSUME NEW p \in Programs
  PROVE  /\ p.list \in [Blocks -> Seq(Instrs)] /\ p.succs \in [Blocks -> SUBSET Blocks]
         /\ DOMAIN p.graph = Blocks /\ DOMAIN p.id = Blocks /\ DOMAIN p.op = Instrs
         /\ \A a \in Blocks : \A b \in p.succs[a] : p.graph[a] = p.graph[b]
         /\ \A a, b \in Blocks : \A j \in DOMAIN p.list[a], k \in DOMAIN p.list[b] :
              p.list[a][j] = p.list[b][k] => a = b /\ j = k
BY ProgramsAssumption DEF WellFormed

LEMMA MainShape ==
  ASSUME NEW p \in Programs
  PROVE  /\ p.root[Main] \in MainBlocks(p)
         /\ Reach(p.succs, p.root[Main]) = MainBlocks(p)
         /\ p.rpo \in Seq(Blocks) /\ IsInjective(p.rpo) /\ Range(p.rpo) = MainBlocks(p)
         /\ \A a, b \in MainBlocks(p) : p.id[a] = p.id[b] => a = b \/ p.id[a] = Unset
         /\ \A b \in MainBlocks(p) : \A k \in 2 .. Len(p.list[b]) :
              p.op[p.list[b][k - 1]] = "CALL" => p.op[p.list[b][k]] # "PHI"
<1>1. WellFormed(p)
  BY ProgramsAssumption
<1>2. p.succs \in [Blocks -> SUBSET Blocks] /\ p.root[Main] \in Blocks
  BY <1>1 DEF WellFormed
<1>3. ReachIn(p.succs, p.root[Main]) = Reach(p.succs, p.root[Main])
  BY <1>2, ReachInIsReach
<1> QED BY <1>1, <1>3 DEF WellFormed, MainBlocks

\* Whatever is reached from a block belongs to its graph.
LEMMA ReachInGraph ==
  ASSUME NEW p \in Programs, NEW r \in Blocks
  PROVE  \A b \in Reach(p.succs, r) : b \in Blocks /\ p.graph[b] = p.graph[r]
<1> DEFINE S == {b \in Blocks : p.graph[b] = p.graph[r]}
<1>1. Closed(p.succs, S)
  BY ProgramTypes DEF Closed
<1>2. Reach(p.succs, r) \subseteq S
  BY <1>1, ReachLeast
<1> QED BY <1>2

LEMMA CalleeShape ==
  ASSUME NEW p \in Programs, NEW c \in Sites(p)
  PROVE  /\ p.callee[c] \in DOMAIN p.root \ {Main}
         /\ RootOf(p, c) \in Blocks /\ p.graph[RootOf(p, c)] = p.callee[c]
         /\ EndOf(p, c) \in Blocks /\ p.graph[EndOf(p, c)] = p.callee[c]
         /\ RootOf(p, c) # EndOf(p, c) /\ EndOf(p, c) \notin p.succs[RootOf(p, c)]
         /\ p.succs[EndOf(p, c)] = {} /\ \A b \in Blocks : RootOf(p, c) \notin p.succs[b]
         /\ EndOf(p, c) \in Reach(p.succs, RootOf(p, c))
         /\ InnerOf(p, c) = Reach(p.succs, RootOf(p, c)) \ {RootOf(p, c), EndOf(p, c)}
         /\ \A b \in InnerOf(p, c) : p.succs[b] # {}
<1>1. WellFormed(p)
  BY ProgramsAssumption
<1>2. Callee(p, p.callee[c])
  BY <1>1 DEF WellFormed, Sites
<1>3. p.succs \in [Blocks -> SUBSET Blocks]
  BY <1>1 DEF WellFormed
<1>4. ReachIn(p.succs, RootOf(p, c)) = Reach(p.succs, RootOf(p, c))
  BY <1>2, <1>3, ReachInIsReach DEF Callee, RootOf
<1> QED BY <1>2, <1>4 DEF Callee, RootOf, EndOf, InnerOf, Body

LEMMA SpareShape ==
  ASSUME NEW p \in Programs, NEW c \in Sites(p)
  PROVE  /\ p.spare[c] \in Blocks /\ p.list[p.spare[c]] = << >> /\ p.succs[p.spare[c]] = {}
         /\ p.spare[c] \notin Foreign(p) /\ p.spare[c] \notin MainBlocks(p)
         /\ p.id[p.spare[c]] = Unset /\ \A a \in Blocks : p.spare[c] \notin p.succs[a]
         /\ p.phi[c] \in Instrs /\ \A b \in Blocks : p.phi[c] \notin Range(p.list[b])
         /\ \A d \in Sites(p) : d # c => p.spare[c] # p.spare[d] /\ p.phi[c] # p.phi[d]
<1>1. WellFormed(p)
  BY ProgramsAssumption
<1>2. NewBlock(p, p.spare[c]) /\ NewInstr(p, p.phi[c])
  BY <1>1 DEF WellFormed, Sites
<1>3. Main \in DOMAIN p.root
  BY <1>1 DEF WellFormed
<1>4. p.spare[c] \notin Foreign(p) /\ p.spare[c] \notin MainBlocks(p)
  BY <1>2, <1>3 DEF NewBlock, Foreign, MainBlocks
<1>5. \A b \in Blocks : p.phi[c] \notin Range(p.list[b])
  BY <1>2, ProgramTypes, ListedMeans DEF NewInstr
<1>6. \A d \in Sites(p) : d # c => p.spare[c] # p.spare[d] /\ p.phi[c] # p.phi[d]
  BY <1>1 DEF WellFormed, Sites
<1> QED BY <1>2, <1>4, <1>5, <1>6 DEF NewBlock, NewInstr

LEMMA InnerShape ==
  ASSUME NEW p \in Programs, NEW c \in Sites(p)
  PROVE  /\ RootOf(p, c) \in Foreign(p) /\ EndOf(p, c) \in Foreign(p)
         /\ \A b \in InnerOf(p, c) : b \in Foreign(p) /\ p.graph[b] = p.callee[c]
         /\ \A b \in ExitsOf(p, c) : b \in Foreign(p) /\ p.graph[b] = p.callee[c]
         /\ RootOf(p, c) \notin InnerOf(p, c) /\ EndOf(p, c) \notin InnerOf(p, c)
         /\ RootOf(p, c) \notin ExitsOf(p, c) /\ EndOf(p, c) \notin ExitsOf(p, c)
         /\ p.succs[RootOf(p, c)] \subseteq InnerOf(p, c)
         /\ \A b \in InnerOf(p, c) : p.succs[b] \subseteq InnerOf(p, c) \cup {EndOf(p, c)}
         /\ \A b \in Foreign(p) : EndOf(p, c) \in p.succs[b] <=> b \in ExitsOf(p, c)
         /\ \E b \in InnerOf(p, c) : b \in ExitsOf(p, c)
<1> DEFINE r == RootOf(p, c)
           e == EndOf(p, c)
<1>1. /\ p.callee[c] \in DOMAIN p.root \ {Main} /\ r \in Blocks /\ p.graph[r] = p.callee[c]
      /\ e \in Blocks /\ p.graph[e] = p.callee[c] /\ r # e /\ e \notin p.succs[r]
      /\ p.succs[e] = {} /\ \A b \in Blocks : r \notin p.succs[b]
      /\ e \in Reach(p.succs, r) /\ InnerOf(p, c) = Reach(p.succs, r) \ {r, e}
  BY CalleeShape
<1>2. p.succs \in [Blocks -> SUBSET Blocks]
  BY ProgramTypes
<1> HIDE DEF r, e
<1>3. \A b \in Reach(p.succs, r) : b \in Blocks /\ p.graph[b] = p.callee[c]
  BY <1>1, ReachInGraph
<1>4. \A b \in InnerOf(p, c) : b \in Foreign(p) /\ p.graph[b] = p.callee[c]
  BY <1>1, <1>3 DEF Foreign
<1>5. \A b \in ExitsOf(p, c) : b \in Foreign(p) /\ p.graph[b] = p.callee[c]
  BY <1>1, ProgramTypes DEF ExitsOf, AtEnd, e, EndOf, Foreign
<1>6. \A b \in Blocks : e \in p.succs[b] <=> b \in ExitsOf(p, c)
  BY DEF ExitsOf, AtEnd, e, EndOf
<1>7. ASSUME NEW b \in Reach(p.succs, r), b # e, NEW x \in p.succs[b]
      PROVE  x \in Reach(p.succs, r) \ {r}
  BY <1>1, <1>2, <1>3, <1>7, ReachStep
<1>8. r \in Reach(p.succs, r)
  BY <1>1, ReachSelf
<1>9. \E b \in InnerOf(p, c) : b \in ExitsOf(p, c)
  <2> SUFFICES ASSUME \A b \in InnerOf(p, c) : b \notin ExitsOf(p, c) PROVE FALSE
    OBVIOUS
  <2> DEFINE S == Reach(p.succs, r) \ {e}
  <2>1. Closed(p.succs, S)
    <3> SUFFICES ASSUME NEW b \in S, NEW x \in p.succs[b] PROVE x \in S
      BY DEF Closed
    <3>1. x # e
      BY <1>1, <1>3, <1>6
    <3> QED BY <3>1, <1>7
  <2>2. S \in SUBSET Blocks /\ r \in S
    BY <1>1, <1>3, <1>8
  <2>3. Reach(p.succs, r) \subseteq S
    <3> HIDE DEF S
    <3> QED BY <2>1, <2>2, ReachLeast
  <2> QED BY <2>3, <1>1
<1>10. p.succs[r] \subseteq InnerOf(p, c)
  BY <1>1, <1>7, <1>8
<1>11. \A b \in InnerOf(p, c) : p.succs[b] \subseteq InnerOf(p, c) \cup {e}
  BY <1>1, <1>7
<1>12. r \in Foreign(p) /\ e \in Foreign(p)
  BY <1>1 DEF Foreign
<1>13. r \notin ExitsOf(p, c) /\ e \notin ExitsOf(p, c)
  BY <1>1, <1>6
<1> QED BY <1>1, <1>4, <1>5, <1>6, <1>9, <1>10, <1>11, <1>12, <1>13 DEF r, e, Foreign

\* Only the exits and the root of a callee are told apart from other callees: the
\* blocks of different graphs are different.
LEMMA SitesApart ==
  ASSUME NEW p \in Programs, NEW c \in Sites(p), NEW d \in Sites(p), p.callee[c] # p.callee[d]
  PROVE  /\ InnerOf(p, c) \cap InnerOf(p, d) = {} /\ ExitsOf(p, c) \cap ExitsOf(p, d) = {}
         /\ EndOf(p, c) # EndOf(p, d) /\ EndOf(p, c) \notin ExitsOf(p, d)
         /\ EndOf(p, c) \notin InnerOf(p, d)
BY InnerShape, CalleeShape

LEMMA ListLength ==
  ASSUME NEW S, NEW q \in Seq(S), IsInjective(q)
  PROVE  IsFiniteSet(Range(q)) /\ Cardinality(Range(q)) = Len(q)
<1>1. DOMAIN q = 1 .. Len(q) /\ Len(q) \in Nat
  OBVIOUS
<1>2. q \in Bijection(1 .. Len(q), Range(q))
  BY <1>1 DEF Bijection, Injection, Surjection, Range
<1>3. ExistsBijection(1 .. Len(q), Range(q))
  BY <1>2 DEF ExistsBijection
<1> QED BY <1>1, <1>3, FS_CountingElements, FS_NatBijection

\* The instructions that IsGraphSuitableForInl counts are those of the caller, and
\* the calls it collects, each once, are all of them unless there are too many.
LEMMA CallsAreSites ==
  ASSUME NEW p \in Programs, prog = p, code.list = p.list, store.op = p.op
  PROVE  Calls \in Seq(Instrs) /\ IsInjective(Calls) /\ Range(Calls) = Sites(p)
<1> DEFINE ss == [k \in DOMAIN p.rpo |-> p.list[p.rpo[k]]]
           q == FlattenSeq(ss)
           cs == [k \in DOMAIN q |-> IF p.op[q[k]] = "CALL" THEN <<q[k]>> ELSE << >>]
<1>1. p.rpo \in Seq(Blocks) /\ IsInjective(p.rpo) /\ Range(p.rpo) = MainBlocks(p)
  BY MainShape
<1>2. \A k \in DOMAIN p.rpo : p.rpo[k] \in Blocks
  BY <1>1
<1>3. p.list \in [Blocks -> Seq(Instrs)]
  BY ProgramTypes
<1>4. ss \in Seq(Seq(Instrs)) /\ DOMAIN ss = DOMAIN p.rpo
  <2>1. Len(p.rpo) \in Nat /\ DOMAIN p.rpo = 1 .. Len(p.rpo)
    BY <1>1
  <2>2. \A k \in 1 .. Len(p.rpo) : p.list[p.rpo[k]] \in Seq(Instrs)
    BY <1>2, <1>3, <2>1
  <2>3. ss \in [1 .. Len(p.rpo) -> Seq(Instrs)]
    BY <2>1, <2>2
  <2> QED BY <2>1, <2>3
<1>5. Apart(ss)
  <2> SUFFICES ASSUME NEW i \in DOMAIN ss, NEW j \in DOMAIN ss,
                      NEW k \in DOMAIN ss[i], NEW l \in DOMAIN ss[j], ss[i][k] = ss[j][l]
               PROVE  i = j /\ k = l
    BY DEF Apart
  <2>1. p.rpo[i] = p.rpo[j] /\ k = l
    BY <1>2, <1>4, ProgramTypes
  <2> QED BY <2>1, <1>1, <1>4 DEF IsInjective
<1>6. /\ q \in Seq(Instrs) /\ IsInjective(q)
      /\ \A x : x \in Range(q) <=> \E i \in DOMAIN ss : x \in Range(ss[i])
  <2> HIDE DEF ss
  <2> QED BY <1>4, <1>5, Flattened
<1>7. Range(q) = MainInstrs(p)
  <2>1. ASSUME NEW x PROVE x \in Range(q) <=> \E b \in MainBlocks(p) : x \in Range(p.list[b])
    <3> HIDE DEF q
    <3>1. \A k \in DOMAIN p.rpo : p.rpo[k] \in MainBlocks(p) /\ ss[k] = p.list[p.rpo[k]]
      BY <1>1 DEF Range
    <3>2. \A b \in MainBlocks(p) : \E k \in DOMAIN p.rpo : b = p.rpo[k]
      BY <1>1 DEF Range
    <3> HIDE DEF ss
    <3>3. ASSUME NEW i \in DOMAIN ss, x \in Range(ss[i])
          PROVE  \E b \in MainBlocks(p) : x \in Range(p.list[b])
      BY <3>1, <3>3, <1>4
    <3>4. ASSUME NEW b \in MainBlocks(p), x \in Range(p.list[b]) PROVE \E i \in DOMAIN ss : x \in Range(ss[i])
      <4>1. PICK k \in DOMAIN p.rpo : b = p.rpo[k]
        BY <3>2
      <4> QED BY <4>1, <3>1, <3>4, <1>4
    <3> QED BY <3>3, <3>4, <1>6
  <2> HIDE DEF q
  <2> QED BY <2>1 DEF MainInstrs
<1>8. Len(q) = Cardinality(MainInstrs(p)) /\ Len(q) \in Nat
  <2> HIDE DEF q
  <2> QED BY <1>6, <1>7, ListLength
<1>9. Calls = IF Len(q) > Limit THEN << >> ELSE FlattenSeq(cs)
  BY <1>4 DEF Calls, Only
<1> HIDE DEF ss, q
<1>10. cs \in Seq(Seq(Instrs)) /\ DOMAIN cs = DOMAIN q
  <2>1. Len(q) \in Nat /\ DOMAIN q = 1 .. Len(q)
    BY <1>6
  <2>2. ASSUME NEW k \in 1 .. Len(q)
        PROVE  (IF p.op[q[k]] = "CALL" THEN <<q[k]>> ELSE << >>) \in Seq(Instrs)
    <3>1. q[k] \in Instrs
      BY <1>6, <2>1
    <3> QED BY <3>1
  <2>3. cs \in [1 .. Len(q) -> Seq(Instrs)]
    BY <2>1, <2>2
  <2> QED BY <2>1, <2>3
<1>11. Apart(cs)
  <2> SUFFICES ASSUME NEW i \in DOMAIN cs, NEW j \in DOMAIN cs,
                      NEW k \in DOMAIN cs[i], NEW l \in DOMAIN cs[j], cs[i][k] = cs[j][l]
               PROVE  i = j /\ k = l
    BY DEF Apart
  <2>1. cs[i] = <<q[i]>> /\ cs[j] = <<q[j]>>
    <3>1. k \in 1 .. Len(cs[i]) /\ l \in 1 .. Len(cs[j])
      BY <1>10
    <3> QED BY <3>1
  <2>2. k = 1 /\ l = 1
    BY <2>1
  <2> QED BY <2>1, <2>2, <1>6, <1>10 DEF IsInjective
<1>12. /\ FlattenSeq(cs) \in Seq(Instrs) /\ IsInjective(FlattenSeq(cs))
       /\ \A x : x \in Range(FlattenSeq(cs)) <=> \E i \in DOMAIN cs : x \in Range(cs[i])
  <2> HIDE DEF cs
  <2> QED BY <1>10, <1>11, Flattened
<1>13. ASSUME NEW x PROVE x \in Range(FlattenSeq(cs)) <=> x \in MainInstrs(p) /\ p.op[x] = "CALL"
  <2>1. \A i \in DOMAIN cs : x \in Range(cs[i]) <=> x = q[i] /\ p.op[q[i]] = "CALL"
    <3> SUFFICES ASSUME NEW i \in DOMAIN cs PROVE x \in Range(cs[i]) <=> x = q[i] /\ p.op[q[i]] = "CALL"
      OBVIOUS
    <3>1. CASE p.op[q[i]] = "CALL"
      <4>1. cs[i] = <<q[i]>>
        BY <3>1, <1>10
      <4> QED BY <4>1, <3>1 DEF Range
    <3>2. CASE p.op[q[i]] # "CALL"
      <4>1. cs[i] = << >>
        BY <3>2, <1>10
      <4> QED BY <4>1, <3>2 DEF Range
    <3> QED BY <3>1, <3>2
  <2> HIDE DEF cs
  <2>2. x \in Range(FlattenSeq(cs)) <=> \E i \in DOMAIN q : x = q[i] /\ p.op[q[i]] = "CALL"
    BY <2>1, <1>10, <1>12
  <2>3. x \in Range(q) <=> \E i \in DOMAIN q : x = q[i]
    BY DEF Range
  <2> QED BY <2>2, <2>3, <1>7
<1>14. \A x : x \in CallsOf(p) <=> x \in MainInstrs(p) /\ p.op[x] = "CALL"
  <2> SUFFICES ASSUME NEW x PROVE x \in CallsOf(p) <=> x \in MainInstrs(p) /\ p.op[x] = "CALL"
    OBVIOUS
  <2>1. x \in MainInstrs(p) => x \in Instrs
    BY <1>6, <1>7 DEF Range
  <2>2. (\E b \in ListedAt(p.list, x) : p.graph[b] = Main) <=> \E b \in MainBlocks(p) : x \in Range(p.list[b])
    BY <1>3, ListedMeans DEF MainBlocks, ListedAt
  <2> QED BY <2>1, <2>2 DEF CallsOf, MainInstrs
<1> HIDE DEF cs
<1>15. CASE Len(q) > Limit
  <2>1. Calls = << >> /\ Sites(p) = {}
    BY <1>8, <1>9, <1>15, NamesAssumption DEF Sites
  <2> QED BY <2>1 DEF Range, IsInjective
<1>16. CASE ~ (Len(q) > Limit)
  <2>1. Calls = FlattenSeq(cs) /\ Sites(p) = CallsOf(p)
    BY <1>8, <1>9, <1>16, NamesAssumption DEF Sites
  <2> QED BY <2>1, <1>12, <1>13, <1>14
<1> QED BY <1>15, <1>16

(***************************************************************************)
(* The edges, as g of the successors and q of the predecessors.  H are the *)
(* calls whose block is split, E those whose callee is entered and C those *)
(* whose callee is left again; cur is the block split last.                *)
(***************************************************************************)
\* The blocks of the caller, those added to it included.
Owned(p, H, E) == MainBlocks(p) \cup {p.spare[c] : c \in H} \cup UNION {InnerOf(p, c) : c \in E}
Untouched(p, E) == {b \in Foreign(p) : \A c \in E : p.graph[b] # p.callee[c]}

OutEdges(p, g, C) ==
  /\ \A c \in C : \A b \in ExitsOf(p, c) : g[b] = {p.spare[c]}
  /\ \A b \in Foreign(p) : (\A c \in C : b \notin ExitsOf(p, c)) => g[b] = p.succs[b]
InEdges(p, q, E, C) ==
  /\ \A b \in Untouched(p, E) : q[b] = {a \in Blocks : b \in p.succs[a]}
  /\ \A c \in E : \A b \in p.succs[RootOf(p, c)] : RootOf(p, c) \notin q[b]
  /\ \A c \in E \ C : q[EndOf(p, c)] = ExitsOf(p, c)
Distinct(p, E) == \A c, d \in E : c # d => p.callee[c] # p.callee[d]
Halves(p, g, q, H) ==
  /\ \A c \in Sites(p) \ H : /\ g[p.spare[c]] = {} /\ q[p.spare[c]] = {}
                             /\ \A a \in Blocks : p.spare[c] \notin q[a]
  /\ \A c \in Sites(p), a \in Blocks : p.spare[c] \in g[a] => c \in H /\ a \in ExitsOf(p, c)
StaysIn(p, g, H, E, C) ==
  \A b \in Owned(p, H, E) : \A x \in g[b] :
    x \in Owned(p, H, E) \/ \E c \in E \ C : x = EndOf(p, c) /\ b \in ExitsOf(p, c)
NoWayIn(p, q, H, E) == \A b \in Owned(p, H, E) : \A a \in Untouched(p, E) : a \notin q[b]
Mirrored(p, g, q, H, E) == \A a, b \in Owned(p, H, E) : b \in g[a] <=> a \in q[b]
Covered(p, g, cur, H, E, C) ==
  \A S \in SUBSET Blocks :
    /\ p.root[Main] \in S /\ Closed(g, S)
    /\ cur \in S => \A c \in H \ C : p.spare[c] \in S
    => Owned(p, H, E) \subseteq S

Entered(p, g, cur, E, C) ==
  \A S \in SUBSET Blocks : Closed(g, S) /\ cur \in S => \A c \in E \ C : InnerOf(p, c) \subseteq S

FlowOk(p, g, q, cur, H, E, C) ==
  /\ g \in [Blocks -> SUBSET Blocks] /\ q \in [Blocks -> SUBSET Blocks]
  /\ OutEdges(p, g, C) /\ InEdges(p, q, E, C) /\ Distinct(p, E) /\ Halves(p, g, q, H)
  /\ StaysIn(p, g, H, E, C) /\ NoWayIn(p, q, H, E)
  /\ Mirrored(p, g, q, H, E) /\ Entered(p, g, cur, E, C) /\ Covered(p, g, cur, H, E, C)

LEMMA OwnedBlocks ==
  ASSUME NEW p \in Programs, NEW H \in SUBSET Sites(p), NEW E \in SUBSET Sites(p)
  PROVE  Owned(p, H, E) \subseteq Blocks
BY SpareShape, InnerShape DEF Owned, MainBlocks, Foreign

LEMMA MainNotForeign ==
  ASSUME NEW p \in Programs, NEW b \in MainBlocks(p)
  PROVE  b \in Blocks /\ b \notin Foreign(p)
BY DEF MainBlocks, Foreign

LEMMA FlowInit ==
  ASSUME NEW p \in Programs, NEW cur,
         NEW q, q = [b \in Blocks |-> {a \in Blocks : b \in p.succs[a]}]
  PROVE  FlowOk(p, p.succs, q, cur, {}, {}, {})
<1>1. p.succs \in [Blocks -> SUBSET Blocks] /\ q \in [Blocks -> SUBSET Blocks]
  BY ProgramTypes
<1>2. Owned(p, {}, {}) = MainBlocks(p)
  BY DEF Owned
<1>3. OutEdges(p, p.succs, {})
  BY DEF OutEdges
<1>4. InEdges(p, q, {}, {})
  BY DEF InEdges, Untouched, Foreign
<1>5. Halves(p, p.succs, q, {})
  BY SpareShape, <1>1 DEF Halves
<1>6. \A b \in MainBlocks(p) : \A x \in p.succs[b] : x \in MainBlocks(p)
  BY ProgramTypes DEF MainBlocks
<1>7. StaysIn(p, p.succs, {}, {}, {})
  BY <1>2, <1>6 DEF StaysIn
<1>8. NoWayIn(p, q, {}, {})
  <2> SUFFICES ASSUME NEW b \in MainBlocks(p), NEW a \in Foreign(p), a \in q[b] PROVE FALSE
    BY <1>2 DEF NoWayIn, Untouched
  <2>1. b \in p.succs[a] /\ a \in Blocks
    BY DEF MainBlocks, Foreign
  <2> QED BY <2>1, ProgramTypes DEF MainBlocks, Foreign
<1>9. Mirrored(p, p.succs, q, {}, {})
  BY <1>2 DEF Mirrored, MainBlocks
<1>10. Covered(p, p.succs, cur, {}, {}, {})
  <2> SUFFICES ASSUME NEW S \in SUBSET Blocks, p.root[Main] \in S, Closed(p.succs, S)
               PROVE  MainBlocks(p) \subseteq S
    BY <1>2 DEF Covered
  <2> QED BY MainShape, ReachLeast
<1> QED BY <1>1, <1>3, <1>4, <1>5, <1>7, <1>8, <1>9, <1>10 DEF FlowOk, Distinct, Entered

-----------------------------------------------------------------------------
\* SplitOn: the second half takes over the successors of the first.
SplitSuccs(g, b, s) == [g EXCEPT ![b] = {}, ![s] = g[b]]
SplitPreds(g, q, b, s) == [x \in Blocks |-> IF x \in g[b] THEN (q[x] \ {b}) \cup {s} ELSE q[x]]

LEMMA FlowSplit ==
  ASSUME NEW p \in Programs, NEW D \in SUBSET Sites(p), NEW c \in Sites(p) \ D,
         NEW cur \in MainBlocks(p), NEW old, NEW g, NEW q, FlowOk(p, g, q, old, D, D, D)
  PROVE  FlowOk(p, SplitSuccs(g, cur, p.spare[c]), SplitPreds(g, q, cur, p.spare[c]),
                cur, D \cup {c}, D, D)
<1> DEFINE H == D \cup {c}
           s == p.spare[c]
           g2 == SplitSuccs(g, cur, s)
           q2 == SplitPreds(g, q, cur, s)
           old_ == Owned(p, D, D)
           new_ == Owned(p, H, D)
<1>1. /\ g \in [Blocks -> SUBSET Blocks] /\ q \in [Blocks -> SUBSET Blocks]
      /\ OutEdges(p, g, D) /\ InEdges(p, q, D, D) /\ Distinct(p, D) /\ Halves(p, g, q, D)
      /\ StaysIn(p, g, D, D, D) /\ NoWayIn(p, q, D, D)
      /\ Mirrored(p, g, q, D, D) /\ Covered(p, g, old, D, D, D)
  BY DEF FlowOk
<1>2. /\ s \in Blocks /\ s \notin MainBlocks(p) /\ s \notin Foreign(p)
      /\ \A d \in Sites(p) : d # c => s # p.spare[d]
      /\ \A d \in Sites(p) : p.spare[d] \in Blocks /\ p.spare[d] \notin Foreign(p) /\ p.spare[d] \notin MainBlocks(p)
  BY SpareShape
<1>3. cur \in Blocks /\ cur \notin Foreign(p) /\ cur # s
  BY <1>2, MainNotForeign
<1>4. g[s] = {} /\ q[s] = {} /\ \A a \in Blocks : s \notin q[a] /\ s \notin g[a]
  BY <1>1, <1>2 DEF Halves
<1>5. new_ = old_ \cup {s} /\ cur \in old_ /\ s \notin old_ /\ old_ \subseteq Blocks
  <2>1. \A d \in D : s \notin InnerOf(p, d)
    BY <1>2, InnerShape
  <2> QED BY <1>2, <2>1, OwnedBlocks DEF Owned
<1>6. /\ g2 \in [Blocks -> SUBSET Blocks] /\ g2[cur] = {} /\ g2[s] = g[cur]
      /\ \A b \in Blocks : b # cur /\ b # s => g2[b] = g[b]
  BY <1>1, <1>2, <1>3 DEF SplitSuccs
<1>7. /\ q2 \in [Blocks -> SUBSET Blocks]
      /\ \A x \in Blocks : q2[x] = IF x \in g[cur] THEN (q[x] \ {cur}) \cup {s} ELSE q[x]
  BY <1>1, <1>2 DEF SplitPreds
<1> HIDE DEF old_, new_, s, g2, q2
<1>8. OutEdges(p, g2, D)
  BY <1>1, <1>2, <1>3, <1>6, InnerShape DEF OutEdges, Foreign
<1>9. \A x \in Untouched(p, D) : x \in Foreign(p) /\ x \notin old_
  BY InnerShape, <1>2, MainNotForeign DEF Untouched, old_, Owned
<1>10. \A x \in g[cur] : x \in old_
  BY <1>1, <1>5 DEF StaysIn, old_
<1>11. InEdges(p, q2, D, D)
  <2>1. ASSUME NEW x \in Untouched(p, D) PROVE q2[x] = q[x]
    <3>1. x \notin g[cur] /\ x \in Blocks
      BY <1>9, <1>10 DEF Foreign
    <3> QED BY <3>1, <1>7
  <2>2. ASSUME NEW d \in D, NEW x \in p.succs[RootOf(p, d)] PROVE RootOf(p, d) \notin q2[x]
    <3>1. RootOf(p, d) # s /\ x \in Blocks /\ RootOf(p, d) \notin q[x]
      BY <1>1, <1>2, InnerShape, ProgramTypes DEF InEdges, Foreign
    <3> QED BY <3>1, <1>7
  <2> QED BY <2>1, <2>2, <1>1 DEF InEdges
<1>12. Halves(p, g2, q2, H)
  <2>1. ASSUME NEW d \in Sites(p) \ H
        PROVE  /\ g2[p.spare[d]] = {} /\ q2[p.spare[d]] = {}
               /\ \A a \in Blocks : p.spare[d] \notin q2[a]
    <3>1. d # c /\ d \in Sites(p) \ D
      OBVIOUS
    <3>2. p.spare[d] \in Blocks /\ p.spare[d] # s /\ p.spare[d] # cur
      BY <1>2, <3>1
    <3>3. /\ g[p.spare[d]] = {} /\ q[p.spare[d]] = {}
          /\ \A a \in Blocks : p.spare[d] \notin q[a]
      BY <1>1, <3>1 DEF Halves
    <3>4. p.spare[d] \notin g[cur]
      BY <1>1, <1>3, <3>1 DEF Halves
    <3> QED BY <3>2, <3>3, <3>4, <1>6, <1>7
  <2>2. ASSUME NEW d \in Sites(p), NEW a \in Blocks, p.spare[d] \in g2[a]
        PROVE  d \in H /\ a \in ExitsOf(p, d)
    <3>1. a # cur
      BY <2>2, <1>6
    <3>2. a # s
      <4> SUFFICES ASSUME p.spare[d] \in g[cur] PROVE FALSE
        BY <2>2, <1>6
      <4>1. cur \in ExitsOf(p, d)
        BY <1>1, <1>3 DEF Halves
      <4> QED BY <4>1, <1>3, InnerShape
    <3> QED BY <3>1, <3>2, <2>2, <1>1, <1>6 DEF Halves
  <2> QED BY <2>1, <2>2 DEF Halves
<1>13. \A b \in new_ : \A x \in g2[b] : x \in new_
  <2> SUFFICES ASSUME NEW b \in new_, NEW x \in g2[b] PROVE x \in new_
    OBVIOUS
  <2>1. CASE b = cur
    BY <2>1, <1>6
  <2>2. CASE b = s
    BY <2>2, <1>5, <1>6, <1>10
  <2>3. CASE b # cur /\ b # s
    <3>1. b \in old_ /\ x \in g[b]
      BY <2>3, <1>5, <1>6
    <3> QED BY <3>1, <1>1, <1>5 DEF StaysIn, old_
  <2> QED BY <2>1, <2>2, <2>3
<1>14. StaysIn(p, g2, H, D, D)
  BY <1>13 DEF StaysIn, new_
<1>15. ASSUME NEW b \in new_, NEW a \in Untouched(p, D) PROVE a \notin q2[b]
  <2>1. a # s
    BY <1>2, <1>9
  <2>2. CASE b = s
    BY <2>2, <1>2, <1>3, <1>4, <1>7
  <2>3. CASE b # s
    <3>1. b \in old_ /\ b \in Blocks
      BY <2>3, <1>5
    <3>2. a \notin q[b]
      BY <3>1, <1>1 DEF NoWayIn, old_
    <3> QED BY <2>1, <3>1, <3>2, <1>7
  <2> QED BY <2>2, <2>3
<1>16. NoWayIn(p, q2, H, D)
  BY <1>15 DEF NoWayIn, new_
<1>17. ASSUME NEW a \in new_, NEW b \in new_ PROVE b \in g2[a] <=> a \in q2[b]
  <2>1. \A x, y \in old_ : y \in g[x] <=> x \in q[y]
    BY <1>1 DEF Mirrored, old_
  <2>2. CASE b = s
    <3>1. q2[s] = {}
      BY <1>2, <1>3, <1>4, <1>7
    <3>2. s \notin g2[a]
      BY <1>3, <1>4, <1>5, <1>6
    <3> QED BY <3>1, <3>2, <2>2
  <2>3. CASE b # s
    <3>1. b \in old_ /\ b \in Blocks
      BY <2>3, <1>5
    <3>2. q2[b] = IF b \in g[cur] THEN (q[b] \ {cur}) \cup {s} ELSE q[b]
      BY <3>1, <1>7
    <3>3. CASE a = cur
      BY <3>1, <3>2, <3>3, <2>1, <1>3, <1>5, <1>6
    <3>4. CASE a = s
      BY <3>1, <3>2, <3>4, <1>4, <1>6
    <3>5. CASE a # cur /\ a # s
      BY <3>1, <3>2, <3>5, <2>1, <1>5, <1>6
    <3> QED BY <3>3, <3>4, <3>5
  <2> QED BY <2>2, <2>3
<1>18. Mirrored(p, g2, q2, H, D)
  BY <1>17 DEF Mirrored, new_
<1>19. Covered(p, g2, cur, H, D, D)
  <2> SUFFICES ASSUME NEW S \in SUBSET Blocks, p.root[Main] \in S, Closed(g2, S),
                      cur \in S => \A d \in H \ D : p.spare[d] \in S
               PROVE  new_ \subseteq S
    BY DEF Covered, new_
  <2>1. cur \in S => s \in S
    BY DEF s
  <2>2. Closed(g, S)
    <3> SUFFICES ASSUME NEW b \in S, NEW x \in g[b] PROVE x \in S
      BY DEF Closed
    <3>1. CASE b = cur
      BY <3>1, <2>1, <1>6 DEF Closed
    <3>2. CASE b = s
      BY <3>2, <1>4
    <3>3. CASE b # cur /\ b # s
      BY <3>3, <1>6 DEF Closed
    <3> QED BY <3>1, <3>2, <3>3
  <2>3. old_ \subseteq S
    BY <2>2, <1>1 DEF Covered, old_
  <2> QED BY <2>1, <2>3, <1>5
<1> QED BY <1>1, <1>6, <1>7, <1>8, <1>11, <1>12, <1>14, <1>16, <1>18, <1>19 DEF FlowOk, Entered, g2, q2, s

\* A callee that another call has been given has no way in left.
LEMMA FreshCallee ==
  ASSUME NEW p \in Programs, NEW D \in SUBSET Sites(p), NEW c \in Sites(p) \ D, NEW H, NEW cur,
         NEW g, NEW q, FlowOk(p, g, q, cur, H, D, D),
         \A b \in g[RootOf(p, c)] : RootOf(p, c) \in q[b]
  PROVE  /\ \A d \in D : p.callee[d] # p.callee[c]
         /\ g[RootOf(p, c)] = p.succs[RootOf(p, c)]
<1> DEFINE r == RootOf(p, c)
<1>1. ASSUME NEW d \in Sites(p) PROVE r \notin ExitsOf(p, d)
  <2>1. CASE p.callee[d] = p.callee[c]
    <3>1. ExitsOf(p, d) = ExitsOf(p, c)
      BY <2>1 DEF ExitsOf
    <3> QED BY <3>1, InnerShape
  <2>2. CASE p.callee[d] # p.callee[c]
    BY <2>2, InnerShape, CalleeShape
  <2> QED BY <2>1, <2>2
<1>2. g[r] = p.succs[r]
  BY <1>1, InnerShape DEF FlowOk, OutEdges
<1>3. ASSUME NEW d \in D, p.callee[d] = p.callee[c] PROVE FALSE
  <2>1. RootOf(p, d) = r
    BY <1>3 DEF RootOf
  <2>2. \A b \in p.succs[r] : r \notin q[b]
    BY <2>1 DEF FlowOk, InEdges
  <2>3. p.succs[r] # {}
    <3> SUFFICES ASSUME p.succs[r] = {} PROVE FALSE
      OBVIOUS
    <3>1. r \in Blocks /\ EndOf(p, c) \in Reach(p.succs, r) /\ r # EndOf(p, c)
      BY CalleeShape
    <3>2. Closed(p.succs, {r})
      BY DEF Closed
    <3>3. Reach(p.succs, r) \subseteq {r}
      BY <3>1, <3>2, ReachLeast
    <3> QED BY <3>1, <3>3
  <2> QED BY <2>2, <2>3, <1>2
<1> QED BY <1>2, <1>3

\* What a callee is like as long as no call has been given it.
Unentered(p, g, q, H, D, c) ==
  /\ \A b \in Blocks : p.graph[b] = p.callee[c] =>
       b \in Untouched(p, D) /\ g[b] = p.succs[b] /\ q[b] = {a \in Blocks : b \in p.succs[a]}
  /\ \A b \in Owned(p, H, D) : b \in Blocks /\ p.graph[b] # p.callee[c]

LEMMA FreshEdges ==
  ASSUME NEW p \in Programs, NEW D \in SUBSET Sites(p), NEW c \in Sites(p),
         \A d \in D : p.callee[d] # p.callee[c],
         NEW H \in SUBSET Sites(p), NEW cur, NEW g, NEW q, FlowOk(p, g, q, cur, H, D, D)
  PROVE  Unentered(p, g, q, H, D, c)
<1>1. ASSUME NEW b \in Blocks, p.graph[b] = p.callee[c]
      PROVE  b \in Untouched(p, D) /\ g[b] = p.succs[b] /\ q[b] = {a \in Blocks : b \in p.succs[a]}
  <2>1. b \in Foreign(p) /\ b \in Untouched(p, D)
    BY <1>1, CalleeShape DEF Foreign, Untouched
  <2>2. \A d \in D : b \notin ExitsOf(p, d)
    BY <1>1, InnerShape
  <2> QED BY <2>1, <2>2 DEF FlowOk, OutEdges, InEdges
<1>2. ASSUME NEW b \in Owned(p, H, D) PROVE b \in Blocks /\ p.graph[b] # p.callee[c]
  <2>1. b \in Blocks
    BY OwnedBlocks
  <2>2. CASE b \in MainBlocks(p)
    BY <2>2, CalleeShape DEF MainBlocks
  <2>3. ASSUME NEW d \in H, b = p.spare[d] PROVE p.graph[b] # p.callee[c]
    <3>1. b \notin Foreign(p)
      BY <2>3, SpareShape
    <3> QED BY <3>1, <2>1, CalleeShape DEF Foreign
  <2>4. ASSUME NEW d \in D, b \in InnerOf(p, d) PROVE p.graph[b] # p.callee[c]
    BY <2>4, InnerShape
  <2> QED BY <2>1, <2>2, <2>3, <2>4 DEF Owned
<1> QED BY <1>1, <1>2 DEF Unentered

\* ConnectRoot: the first half leads into the callee.
RootSuccs(g, a, b) == [g EXCEPT ![a] = @ \cup {b}]
RootPreds(q, r, a, b) == [q EXCEPT ![b] = (@ \ {r}) \cup {a}]

LEMMA FlowRoot ==
  ASSUME NEW p \in Programs, NEW D \in SUBSET Sites(p), NEW c \in Sites(p) \ D,
         NEW cur \in MainBlocks(p), NEW g, NEW q, FlowOk(p, g, q, cur, D \cup {c}, D, D),
         NEW b, g[RootOf(p, c)] = {b}, RootOf(p, c) \in q[b]
  PROVE  FlowOk(p, RootSuccs(g, cur, b), RootPreds(q, RootOf(p, c), cur, b),
                cur, D \cup {c}, D \cup {c}, D)
<1> DEFINE H == D \cup {c}
           r == RootOf(p, c)
           g2 == RootSuccs(g, cur, b)
           q2 == RootPreds(q, r, cur, b)
           e == EndOf(p, c)
           inner == InnerOf(p, c)
           old_ == Owned(p, H, D)
           new_ == Owned(p, H, H)
<1>1. /\ g \in [Blocks -> SUBSET Blocks] /\ q \in [Blocks -> SUBSET Blocks]
      /\ OutEdges(p, g, D) /\ InEdges(p, q, D, D) /\ Distinct(p, D) /\ Halves(p, g, q, H)
      /\ StaysIn(p, g, H, D, D) /\ NoWayIn(p, q, H, D)
      /\ Mirrored(p, g, q, H, D) /\ Covered(p, g, cur, H, D, D)
  BY DEF FlowOk
<1>2. (\A d \in D : p.callee[d] # p.callee[c]) /\ p.succs[r] = {b}
  BY FreshCallee
<1>3. /\ \A x \in Blocks : p.graph[x] = p.callee[c] =>
           x \in Untouched(p, D) /\ g[x] = p.succs[x] /\ q[x] = {a \in Blocks : x \in p.succs[a]}
      /\ \A x \in old_ : x \in Blocks /\ p.graph[x] # p.callee[c]
  <2>1. H \in SUBSET Sites(p) /\ c \in Sites(p) /\ FlowOk(p, g, q, cur, H, D, D)
    OBVIOUS
  <2>2. Unentered(p, g, q, H, D, c)
    <3> HIDE DEF H
    <3> QED BY <2>1, <1>2, FreshEdges
  <2> QED BY <2>2 DEF Unentered
<1>4. /\ r \in Blocks /\ p.graph[r] = p.callee[c] /\ e \in Blocks /\ p.graph[e] = p.callee[c]
      /\ p.succs[e] = {} /\ e \in Foreign(p) /\ r \in Foreign(p) /\ e \notin p.succs[r]
      /\ b \in inner /\ b \in Blocks /\ p.graph[b] = p.callee[c] /\ b # e
      /\ \A x \in inner : /\ x \in Foreign(p) /\ x \in Blocks /\ p.graph[x] = p.callee[c]
                          /\ p.succs[x] \subseteq inner \cup {e}
      /\ r \notin inner /\ e \notin inner
      /\ \A x \in Foreign(p) : e \in p.succs[x] <=> x \in ExitsOf(p, c)
  BY <1>2, InnerShape, CalleeShape DEF Foreign
<1>5. cur \in Blocks /\ cur \notin Foreign(p) /\ cur \in old_ /\ cur # r /\ cur # b
  BY <1>4, MainNotForeign DEF Owned
<1>6. new_ = old_ \cup inner
  BY DEF Owned
<1>7. /\ g2 \in [Blocks -> SUBSET Blocks] /\ g2[cur] = g[cur] \cup {b}
      /\ \A x \in Blocks : x # cur => g2[x] = g[x]
  BY <1>1, <1>4, <1>5 DEF RootSuccs
<1>8. /\ q2 \in [Blocks -> SUBSET Blocks] /\ q2[b] = (q[b] \ {r}) \cup {cur}
      /\ \A x \in Blocks : x # b => q2[x] = q[x]
  BY <1>1, <1>4, <1>5 DEF RootPreds
<1>9. \A x \in Untouched(p, H) : x \in Untouched(p, D) /\ x \in Blocks /\ x \in Foreign(p) /\ p.graph[x] # p.callee[c]
  BY DEF Untouched, Foreign
<1>10. ExitsOf(p, c) = {a \in Blocks : e \in p.succs[a]}
  BY DEF ExitsOf, AtEnd, EndOf
<1>11. \A x \in Blocks : \A y \in p.succs[x] : p.graph[x] = p.graph[y]
  BY ProgramTypes
<1> HIDE DEF old_, new_, r, e, inner, g2, q2
<1>12. OutEdges(p, g2, D)
  BY <1>1, <1>5, <1>7, InnerShape DEF OutEdges, Foreign
<1>13. InEdges(p, q2, H, D)
  <2>1. ASSUME NEW x \in Untouched(p, H) PROVE q2[x] = {a \in Blocks : x \in p.succs[a]}
    <3>1. x # b /\ x \in Blocks /\ x \in Untouched(p, D)
      BY <1>4, <1>9
    <3> QED BY <3>1, <1>1, <1>8 DEF InEdges
  <2>2. ASSUME NEW d \in H, NEW x \in p.succs[RootOf(p, d)] PROVE RootOf(p, d) \notin q2[x]
    <3>1. x \in Blocks /\ RootOf(p, d) # cur
      BY <1>5, ProgramTypes, InnerShape DEF Foreign
    <3>2. CASE d = c
      <4>1. x = b
        BY <3>2, <1>2 DEF r
      <4> QED BY <4>1, <3>1, <3>2, <1>8 DEF r
    <3>3. CASE d \in D
      <4>1. RootOf(p, d) \notin q[x]
        BY <3>3, <1>1 DEF InEdges
      <4> QED BY <4>1, <3>1, <1>8
    <3> QED BY <3>2, <3>3
  <2>3. q2[e] = ExitsOf(p, c)
    BY <1>3, <1>4, <1>8, <1>10
  <2>4. \A d \in H \ D : d = c
    OBVIOUS
  <2> QED BY <2>1, <2>2, <2>3, <2>4 DEF InEdges, e
<1>14. Distinct(p, H)
  BY <1>1, <1>2 DEF Distinct
<1>15. Halves(p, g2, q2, H)
  <2>1. ASSUME NEW d \in Sites(p) \ H
        PROVE  /\ g2[p.spare[d]] = {} /\ q2[p.spare[d]] = {}
               /\ \A a \in Blocks : p.spare[d] \notin q2[a]
    <3>1. p.spare[d] \in Blocks /\ p.spare[d] # cur /\ p.spare[d] # b
      BY <1>4, SpareShape
    <3> QED BY <3>1, <1>1, <1>7, <1>8 DEF Halves
  <2>2. ASSUME NEW d \in Sites(p), NEW a \in Blocks, p.spare[d] \in g2[a]
        PROVE  d \in H /\ a \in ExitsOf(p, d)
    <3>1. p.spare[d] # b
      BY <1>4, SpareShape
    <3>2. p.spare[d] \in g[a]
      BY <3>1, <2>2, <1>7
    <3> QED BY <3>2, <1>1 DEF Halves
  <2> QED BY <2>1, <2>2 DEF Halves
<1>16. StaysIn(p, g2, H, H, D)
  <2> SUFFICES ASSUME NEW a \in new_, NEW x \in g2[a]
               PROVE  x \in new_ \/ \E d \in H \ D : x = EndOf(p, d) /\ a \in ExitsOf(p, d)
    BY DEF StaysIn, new_
  <2>1. CASE a \in old_
    <3>1. \A y \in g[a] : y \in old_
      BY <2>1, <1>1 DEF StaysIn, old_
    <3>2. a \in Blocks
      BY <2>1, <1>3
    <3>3. x \in g[a] \/ x = b
      BY <3>2, <1>7
    <3> QED BY <3>1, <3>3, <1>4, <1>6
  <2>2. CASE a \in inner
    <3>1. x \in p.succs[a] /\ a \in Foreign(p)
      BY <2>2, <1>3, <1>4, <1>5, <1>7
    <3>2. x \in inner \/ (x = e /\ a \in ExitsOf(p, c))
      BY <2>2, <3>1, <1>4
    <3> QED BY <3>2, <1>6 DEF e
  <2> QED BY <2>1, <2>2, <1>6
<1>17. NoWayIn(p, q2, H, H)
  <2> SUFFICES ASSUME NEW y \in new_, NEW a \in Untouched(p, H), a \in q2[y] PROVE FALSE
    BY DEF NoWayIn, new_
  <2>1. a # cur
    BY <1>5, <1>9
  <2>2. y \in Blocks
    BY <1>3, <1>4, <1>6
  <2>3. a \in q[y]
    BY <2>1, <2>2, <1>8
  <2>4. CASE y \in old_
    BY <2>3, <2>4, <1>1, <1>9 DEF NoWayIn, old_
  <2>5. CASE y \in inner
    <3>1. a \in Blocks /\ y \in p.succs[a]
      BY <2>3, <2>5, <1>3, <1>4
    <3>2. p.graph[a] = p.callee[c]
      BY <3>1, <2>5, <1>4, <1>11
    <3> QED BY <3>2, <1>9
  <2> QED BY <2>4, <2>5, <1>6
<1>18. Mirrored(p, g2, q2, H, H)
  <2> SUFFICES ASSUME NEW a \in new_, NEW y \in new_ PROVE y \in g2[a] <=> a \in q2[y]
    BY DEF Mirrored, new_
  <2>1. a \in Blocks /\ y \in Blocks /\ a # r
    BY <1>3, <1>4, <1>6
  <2>2. CASE a \in old_ /\ y \in old_
    <3>1. y # b /\ (y \in g[a] <=> a \in q[y])
      BY <2>2, <1>1, <1>3, <1>4, ZenonT(30) DEF Mirrored, old_
    <3> QED BY <3>1, <2>1, <1>7, <1>8
  <2>3. CASE a \in old_ /\ y \in inner
    <3>1. y \notin g[a]
      BY <2>3, <1>1, <1>3, <1>4 DEF StaysIn, old_
    <3>2. a \notin q[y]
      BY <2>3, <1>3, <1>4, <1>11
    <3> QED BY <3>1, <3>2, <2>1, <1>7, <1>8
  <2>4. CASE a \in inner /\ y \in old_
    <3>1. a # cur /\ y # b
      BY <2>4, <1>3, <1>4, <1>5
    <3>2. y \notin g[a]
      BY <2>4, <1>3, <1>4
    <3>3. a \notin q[y]
      BY <2>4, <1>1, <1>3, <1>4 DEF NoWayIn, old_
    <3> QED BY <3>1, <3>2, <3>3, <2>1, <1>7, <1>8
  <2>5. CASE a \in inner /\ y \in inner
    <3>1. a # cur
      BY <2>5, <1>4, <1>5
    <3>2. y \in g[a] <=> a \in q[y]
      BY <2>5, <2>1, <1>3, <1>4
    <3> QED BY <3>1, <3>2, <2>1, <1>7, <1>8
  <2> QED BY <2>2, <2>3, <2>4, <2>5, <1>6
<1>19. ASSUME NEW S \in SUBSET Blocks, Closed(g2, S), cur \in S PROVE inner \subseteq S
  <2>1. b \in S
    BY <1>19, <1>5, <1>7 DEF Closed
  <2> DEFINE T == {r, e} \cup (S \cap inner)
  <2>2. Closed(p.succs, T)
    <3> SUFFICES ASSUME NEW x \in T, NEW y \in p.succs[x] PROVE y \in T
      BY DEF Closed
    <3>1. CASE x = r
      BY <3>1, <2>1, <1>2, <1>4 DEF r
    <3>2. CASE x = e
      BY <3>2, <1>4
    <3>3. CASE x \in S \cap inner
      <4>1. y \in g2[x]
        BY <3>3, <1>3, <1>4, <1>5, <1>7
      <4>2. y \in S
        BY <4>1, <3>3, <1>19 DEF Closed
      <4> QED BY <4>2, <3>3, <1>4
    <3> QED BY <3>1, <3>2, <3>3
  <2>3. T \in SUBSET Blocks /\ r \in T
    BY <1>4
  <2>4. Reach(p.succs, r) \subseteq T
    <3> HIDE DEF T
    <3> QED BY <2>2, <2>3, ReachLeast
  <2> QED BY <2>4, CalleeShape DEF inner, r, e
<1>20. Entered(p, g2, cur, H, D)
  <2>1. \A d \in H \ D : d = c
    OBVIOUS
  <2> QED BY <2>1, <1>19 DEF Entered, inner
<1>21. Covered(p, g2, cur, H, H, D)
  <2> SUFFICES ASSUME NEW S \in SUBSET Blocks, p.root[Main] \in S, Closed(g2, S),
                      cur \in S => \A d \in H \ D : p.spare[d] \in S
               PROVE  new_ \subseteq S
    BY DEF Covered, new_
  <2>1. Closed(g, S)
    BY <1>1, <1>7 DEF Closed
  <2>2. old_ \subseteq S
    BY <2>1, <1>1 DEF Covered, old_
  <2>3. inner \subseteq S
    BY <2>2, <1>5, <1>19
  <2> QED BY <2>2, <2>3, <1>6
<1> QED BY <1>7, <1>8, <1>12, <1>13, <1>14, <1>15, <1>16, <1>17, <1>18, <1>20, <1>21 DEF FlowOk, g2, q2, r

\* ConnectEnds: the exits of the callee lead to the second half.
EndSuccs(g, ends, s) == [b \in Blocks |-> IF b \in ends THEN {s} ELSE g[b]]
EndPreds(q, ends, s) == [q EXCEPT ![s] = @ \cup ends]

LEMMA FlowEnds ==
  ASSUME NEW p \in Programs, NEW D \in SUBSET Sites(p), NEW c \in Sites(p) \ D,
         NEW cur \in MainBlocks(p), NEW g, NEW q,
         FlowOk(p, g, q, cur, D \cup {c}, D \cup {c}, D),
         \A b \in q[EndOf(p, c)] : g[b] = {EndOf(p, c)}
  PROVE  FlowOk(p, EndSuccs(g, q[EndOf(p, c)], p.spare[c]), EndPreds(q, q[EndOf(p, c)], p.spare[c]),
                cur, D \cup {c}, D \cup {c}, D \cup {c})
<1> DEFINE H == D \cup {c}
           s == p.spare[c]
           e == EndOf(p, c)
           X == ExitsOf(p, c)
           g2 == EndSuccs(g, q[e], s)
           q2 == EndPreds(q, q[e], s)
           owned == Owned(p, H, H)
<1>1. /\ g \in [Blocks -> SUBSET Blocks] /\ q \in [Blocks -> SUBSET Blocks]
      /\ OutEdges(p, g, D) /\ InEdges(p, q, H, D) /\ Distinct(p, H) /\ Halves(p, g, q, H)
      /\ StaysIn(p, g, H, H, D) /\ NoWayIn(p, q, H, H)
      /\ Mirrored(p, g, q, H, H) /\ Entered(p, g, cur, H, D) /\ Covered(p, g, cur, H, H, D)
  BY DEF FlowOk
<1>2. \A d \in D : d # c /\ p.callee[d] # p.callee[c]
  BY <1>1 DEF Distinct
<1>3. q[e] = X
  BY <1>1 DEF InEdges
<1>4. \A x \in X : x \in Foreign(p) /\ x \in Blocks /\ p.graph[x] = p.callee[c] /\ g[x] = {e}
  BY <1>3, InnerShape DEF Foreign
<1>5. /\ s \in Blocks /\ s \notin MainBlocks(p) /\ s \notin Foreign(p)
      /\ \A d \in Sites(p) : d # c => s # p.spare[d]
      /\ \A d \in Sites(p) : p.spare[d] \in Blocks /\ p.spare[d] \notin Foreign(p)
  BY SpareShape
<1>6. /\ e \in Foreign(p) /\ e \in Blocks /\ p.graph[e] = p.callee[c] /\ p.succs[e] = {}
      /\ e \notin X /\ e \notin InnerOf(p, c)
  BY InnerShape, CalleeShape
<1>7. owned \subseteq Blocks /\ s \in owned
  BY OwnedBlocks DEF Owned
<1>8. e \notin owned
  <2>1. e \notin MainBlocks(p)
    BY <1>6, MainNotForeign
  <2>2. \A d \in H : e # p.spare[d]
    BY <1>5, <1>6
  <2>3. \A d \in H : e \notin InnerOf(p, d)
    BY <1>2, <1>6, InnerShape
  <2> QED BY <2>1, <2>2, <2>3 DEF Owned
<1>9. /\ g2 \in [Blocks -> SUBSET Blocks]
      /\ \A b \in Blocks : g2[b] = IF b \in X THEN {s} ELSE g[b]
  BY <1>1, <1>3, <1>5 DEF EndSuccs
<1>10. /\ q2 \in [Blocks -> SUBSET Blocks] /\ q2[s] = q[s] \cup X
       /\ \A b \in Blocks : b # s => q2[b] = q[b]
  BY <1>1, <1>3, <1>4, <1>5 DEF EndPreds
<1>11. \A d \in D : \A b \in ExitsOf(p, d) : b \in Foreign(p) /\ b \in Blocks /\ b \notin X /\ b # e
  <2> SUFFICES ASSUME NEW d \in D, NEW b \in ExitsOf(p, d)
               PROVE  b \in Foreign(p) /\ b \in Blocks /\ b \notin X /\ b # e
    OBVIOUS
  <2>1. b \in Foreign(p) /\ p.graph[b] = p.callee[d]
    BY InnerShape
  <2> QED BY <2>1, <1>2, <1>4, <1>6 DEF Foreign
<1>12. s \notin X
  BY <1>4, <1>5
<1> HIDE DEF s, e, X, owned, g2, q2
<1>13. OutEdges(p, g2, H)
  <2>1. ASSUME NEW d \in H, NEW b \in ExitsOf(p, d) PROVE g2[b] = {p.spare[d]}
    <3>1. CASE d = c
      BY <3>1, <1>4, <1>9 DEF X, s
    <3>2. CASE d \in D
      <4>1. b \in Blocks /\ b \notin X
        BY <3>2, <1>11
      <4>2. g[b] = {p.spare[d]}
        BY <3>2, <1>1 DEF OutEdges
      <4> QED BY <4>1, <4>2, <1>9
    <3> QED BY <3>1, <3>2
  <2>2. ASSUME NEW b \in Foreign(p), \A d \in H : b \notin ExitsOf(p, d) PROVE g2[b] = p.succs[b]
    <3>1. b \in Blocks /\ b \notin X
      BY <2>2 DEF X, Foreign
    <3> QED BY <2>2, <3>1, <1>1, <1>9 DEF OutEdges
  <2> QED BY <2>1, <2>2 DEF OutEdges
<1>14. InEdges(p, q2, H, H)
  <2>1. ASSUME NEW b \in Untouched(p, H) PROVE q2[b] = {a \in Blocks : b \in p.succs[a]}
    <3>1. b \in Blocks /\ b # s
      BY <1>5 DEF Untouched, Foreign
    <3> QED BY <3>1, <1>1, <1>10 DEF InEdges
  <2>2. ASSUME NEW d \in H, NEW b \in p.succs[RootOf(p, d)] PROVE RootOf(p, d) \notin q2[b]
    <3>1. b \in InnerOf(p, d)
      BY InnerShape
    <3>2. b \in Blocks /\ b # s
      BY <3>1, <1>5, InnerShape DEF Foreign
    <3> QED BY <3>2, <1>1, <1>10 DEF InEdges
  <2> QED BY <2>1, <2>2 DEF InEdges
<1>15. Halves(p, g2, q2, H)
  <2>1. ASSUME NEW d \in Sites(p) \ H
        PROVE  /\ g2[p.spare[d]] = {} /\ q2[p.spare[d]] = {}
               /\ \A a \in Blocks : p.spare[d] \notin q2[a]
    <3>1. p.spare[d] \in Blocks /\ p.spare[d] # s /\ p.spare[d] \notin X
      BY <1>4, <1>5
    <3> QED BY <3>1, <1>1, <1>9, <1>10 DEF Halves
  <2>2. ASSUME NEW d \in Sites(p), NEW a \in Blocks, p.spare[d] \in g2[a]
        PROVE  d \in H /\ a \in ExitsOf(p, d)
    <3>1. CASE a \in X
      BY <3>1, <2>2, <1>5, <1>9 DEF X, s
    <3>2. CASE a \notin X
      BY <3>2, <2>2, <1>1, <1>9 DEF Halves
    <3> QED BY <3>1, <3>2
  <2> QED BY <2>1, <2>2 DEF Halves
<1>16. StaysIn(p, g2, H, H, H)
  <2> SUFFICES ASSUME NEW b \in owned, NEW x \in g2[b] PROVE x \in owned
    BY DEF StaysIn, owned
  <2>1. CASE b \in X
    BY <2>1, <1>7, <1>9
  <2>2. CASE b \notin X
    <3>1. x \in g[b]
      BY <2>2, <1>7, <1>9
    <3>2. \A d \in H \ D : d = c
      OBVIOUS
    <3> QED BY <3>1, <3>2, <2>2, <1>1 DEF StaysIn, owned, X
  <2> QED BY <2>1, <2>2
<1>17. NoWayIn(p, q2, H, H)
  <2> SUFFICES ASSUME NEW b \in owned, NEW a \in Untouched(p, H), a \in q2[b] PROVE FALSE
    BY DEF NoWayIn, owned
  <2>1. a \notin q[b]
    BY <1>1 DEF NoWayIn, owned
  <2>2. a \in X
    BY <2>1, <1>7, <1>10
  <2> QED BY <2>2, <1>4 DEF Untouched
<1>18. Mirrored(p, g2, q2, H, H)
  <2> SUFFICES ASSUME NEW a \in owned, NEW b \in owned PROVE b \in g2[a] <=> a \in q2[b]
    BY DEF Mirrored, owned
  <2>1. a \in Blocks /\ b \in Blocks /\ b # e /\ (b \in g[a] <=> a \in q[b])
    BY <1>1, <1>7, <1>8 DEF Mirrored, owned
  <2>2. s \in g[a] => a \in X
    BY <2>1, <1>1 DEF Halves, s, X
  <2>3. CASE b = s
    BY <2>1, <2>2, <2>3, <1>4, <1>9, <1>10
  <2>4. CASE b # s
    BY <2>1, <2>4, <1>4, <1>9, <1>10
  <2> QED BY <2>3, <2>4
<1>19. Covered(p, g2, cur, H, H, H)
  <2> SUFFICES ASSUME NEW S \in SUBSET Blocks, p.root[Main] \in S, Closed(g2, S)
               PROVE  owned \subseteq S
    BY DEF Covered, owned
  <2> DEFINE T == S \cup {e}
  <2>1. g[e] = {}
    <3>1. \A d \in D : e \notin ExitsOf(p, d)
      BY <1>11
    <3> QED BY <3>1, <1>1, <1>6 DEF OutEdges
  <2>2. Closed(g, T)
    <3> SUFFICES ASSUME NEW b \in T, NEW x \in g[b] PROVE x \in T
      BY DEF Closed
    <3>1. b \in S
      BY <2>1
    <3>2. CASE b \in X
      BY <3>2, <1>4
    <3>3. CASE b \notin X
      BY <3>1, <3>3, <1>9 DEF Closed
    <3> QED BY <3>2, <3>3
  <2>3. T \in SUBSET Blocks /\ p.root[Main] \in T
    BY <1>6
  <2> HIDE DEF T
  <2>4. cur \in T => s \in T
    <3> SUFFICES ASSUME cur \in T PROVE s \in T
      OBVIOUS
    <3>1. InnerOf(p, c) \subseteq T
      BY <2>2, <2>3, <1>1 DEF Entered
    <3>2. PICK x \in InnerOf(p, c) : x \in X
      BY InnerShape DEF X
    <3>3. x \in S /\ x \in Blocks
      BY <3>1, <3>2, <1>4, <1>6 DEF T
    <3>4. s \in g2[x]
      BY <3>2, <3>3, <1>9
    <3> QED BY <3>3, <3>4 DEF T, Closed
  <2>5. \A d \in H \ D : d = c
    OBVIOUS
  <2>6. owned \subseteq T
    BY <2>2, <2>3, <2>4, <2>5, <1>1 DEF Covered, owned, s
  <2> QED BY <2>6, <1>8 DEF T
<1> QED BY <1>1, <1>9, <1>10, <1>13, <1>14, <1>15, <1>16, <1>17, <1>18, <1>19 DEF FlowOk, Entered, g2, q2, s, e

\* Every way out of l leads back to it: such a block may be the last of the RPO.
OnlyBack(p, l) == \A x \in p.succs[l] : l \in Reach(p.succs, x)

\* All of the callee of c belongs to the caller but one block.
LeftBehind(p, graph, c) ==
  \E l \in InnerOf(p, c) \cup {EndOf(p, c)} :
    /\ graph[l] = p.callee[c] /\ OnlyBack(p, l)
    /\ \A b \in InnerOf(p, c) \ {l} : graph[b] = Main

(***************************************************************************)
(* Whose graph the blocks belong to, and their ids.  A are the calls whose *)
(* callee has been adopted.                                                *)
(***************************************************************************)
AdoptOk(p, graph, ids, H, A) ==
  /\ DOMAIN graph = Blocks /\ DOMAIN ids = Blocks
  /\ \A b \in Blocks : ids[b] \in {p.id[b], Unset}
  /\ \A b \in MainBlocks(p) : graph[b] = Main
  /\ \A c \in H : graph[p.spare[c]] = Main
  /\ \A b \in Foreign(p) : graph[b] = Main => ids[b] = Unset
  /\ Distinct(p, A) =>
       /\ \A c \in A : LeftBehind(p, graph, c)
       /\ \A b \in Foreign(p) : (\A c \in A : p.graph[b] # p.callee[c]) => graph[b] = p.graph[b]

LEMMA AdoptInit ==
  ASSUME NEW p \in Programs
  PROVE  AdoptOk(p, p.graph, p.id, {}, {})
BY ProgramTypes DEF AdoptOk, MainBlocks, Foreign

LEMMA AdoptSplit ==
  ASSUME NEW p \in Programs, NEW H \in SUBSET Sites(p), NEW c \in Sites(p),
         NEW A \in SUBSET Sites(p), NEW graph, NEW ids, AdoptOk(p, graph, ids, H, A),
         NEW graph2, graph2 = [graph EXCEPT ![p.spare[c]] = Main]
  PROVE  AdoptOk(p, graph2, ids, H \cup {c}, A)
<1>1. /\ p.spare[c] \in Blocks /\ p.spare[c] \notin Foreign(p)
      /\ \A d \in H : p.spare[d] \in Blocks
  BY SpareShape
<1>2. /\ DOMAIN graph2 = Blocks /\ graph2[p.spare[c]] = Main
      /\ \A b \in Blocks : b # p.spare[c] => graph2[b] = graph[b]
  BY <1>1 DEF AdoptOk
<1>3. \A b \in Blocks : graph[b] = Main => graph2[b] = Main
  BY <1>2
<1>4. \A b \in Foreign(p) : graph2[b] = graph[b]
  BY <1>1, <1>2 DEF Foreign
<1>5. \A b \in Blocks : ids[b] \in {p.id[b], Unset}
  BY DEF AdoptOk
<1>6. \A b \in MainBlocks(p) : graph2[b] = Main
  BY <1>3 DEF AdoptOk, MainBlocks
<1>7. \A d \in H \cup {c} : graph2[p.spare[d]] = Main
  BY <1>1, <1>2, <1>3 DEF AdoptOk
<1>8. \A b \in Foreign(p) : graph2[b] = Main => ids[b] = Unset
  BY <1>4 DEF AdoptOk
<1>9. ASSUME Distinct(p, A)
      PROVE  /\ \A d \in A : LeftBehind(p, graph2, d)
             /\ \A b \in Foreign(p) : (\A d \in A : p.graph[b] # p.callee[d]) => graph2[b] = p.graph[b]
  <2>1. /\ \A d \in A : LeftBehind(p, graph, d)
        /\ \A b \in Foreign(p) : (\A d \in A : p.graph[b] # p.callee[d]) => graph[b] = p.graph[b]
    BY <1>9 DEF AdoptOk
  <2>2. ASSUME NEW d \in A PROVE LeftBehind(p, graph2, d)
    <3>1. InnerOf(p, d) \cup {EndOf(p, d)} \subseteq Foreign(p)
      BY InnerShape
    <3>2. PICK l \in InnerOf(p, d) \cup {EndOf(p, d)} :
            /\ graph[l] = p.callee[d] /\ OnlyBack(p, l)
            /\ \A b \in InnerOf(p, d) \ {l} : graph[b] = Main
      BY <2>1 DEF LeftBehind
    <3> QED BY <3>1, <3>2, <1>4 DEF LeftBehind
  <2> QED BY <2>1, <2>2, <1>4
<1> QED BY <1>2, <1>5, <1>6, <1>7, <1>8, <1>9 DEF AdoptOk

\* Two graphs with the same edges in a part that none of them leaves.
LEMMA SameReach ==
  ASSUME NEW f, NEW g, NEW S \in SUBSET Blocks, NEW r \in S,
         Closed(f, S), \A b \in S : g[b] = f[b]
  PROVE  Reach(g, r) = Reach(f, r)
<1>1. Closed(g, S)
  BY DEF Closed
<1>2. Reach(f, r) \subseteq S /\ Reach(g, r) \subseteq S /\ r \in Reach(f, r) /\ r \in Reach(g, r)
  BY <1>1, ReachLeast, ReachSelf
<1>3. Closed(g, Reach(f, r))
  BY <1>2, ReachStep, ReachBlocks DEF Closed
<1>4. Closed(f, Reach(g, r))
  BY <1>1, <1>2, ReachStep, ReachBlocks DEF Closed
<1> QED BY <1>2, <1>3, <1>4, ReachLeast

\* ChangeInlBlocksRelation: one block is taken for the end, and left behind.
SetFor(f, bs, v) == [b \in Blocks |-> IF b \in bs THEN v ELSE f[b]]

LEMMA AdoptInner ==
  ASSUME NEW p \in Programs, NEW D \in SUBSET Sites(p), NEW c \in Sites(p) \ D,
         NEW H \in SUBSET Sites(p), NEW cur, NEW g, NEW q, FlowOk(p, g, q, cur, H, D, D),
         NEW graph, NEW ids, AdoptOk(p, graph, ids, H, D),
         NEW l \in ReachIn(g, RootOf(p, c)) \ {RootOf(p, c)},
         \A s \in g[l] : l \in ReachIn(g, s),
         NEW bs, bs = ReachIn(g, RootOf(p, c)) \ {RootOf(p, c), l}
  PROVE  AdoptOk(p, SetFor(graph, bs, Main), SetFor(ids, bs, Unset), H, D \cup {c})
<1> DEFINE r == RootOf(p, c)
           graph2 == SetFor(graph, bs, Main)
           id2 == SetFor(ids, bs, Unset)
<1>1. g \in [Blocks -> SUBSET Blocks]
  BY DEF FlowOk
<1>2. r \in Blocks /\ p.graph[r] = p.callee[c]
  BY CalleeShape
<1>3. /\ DOMAIN graph2 = Blocks /\ DOMAIN id2 = Blocks
      /\ \A b \in Blocks : graph2[b] = (IF b \in bs THEN Main ELSE graph[b])
                           /\ id2[b] = (IF b \in bs THEN Unset ELSE ids[b])
  BY DEF SetFor
<1> HIDE DEF graph2, id2
<1>4. \A b \in Blocks : id2[b] \in {p.id[b], Unset}
  BY <1>3 DEF AdoptOk
<1>5. \A b \in MainBlocks(p) : graph2[b] = Main
  BY <1>3 DEF AdoptOk, MainBlocks
<1>6. \A d \in H : graph2[p.spare[d]] = Main
  BY <1>3, SpareShape DEF AdoptOk
<1>7. \A b \in Foreign(p) : graph2[b] = Main => id2[b] = Unset
  BY <1>3 DEF AdoptOk, Foreign
<1>8. ASSUME Distinct(p, D \cup {c})
      PROVE  /\ \A d \in D \cup {c} : LeftBehind(p, graph2, d)
             /\ \A b \in Foreign(p) : (\A d \in D \cup {c} : p.graph[b] # p.callee[d])
                                        => graph2[b] = p.graph[b]
  <2> DEFINE S == {x \in Blocks : p.graph[x] = p.callee[c]}
  <2>1. Distinct(p, D) /\ \A d \in D : p.callee[d] # p.callee[c]
    BY <1>8 DEF Distinct
  <2>2. /\ \A d \in D : LeftBehind(p, graph, d)
        /\ \A b \in Foreign(p) : (\A d \in D : p.graph[b] # p.callee[d]) => graph[b] = p.graph[b]
    BY <2>1 DEF AdoptOk
  <2>3. \A x \in S : g[x] = p.succs[x]
    <3>1. Unentered(p, g, q, H, D, c)
      BY <2>1, FreshEdges
    <3> QED BY <3>1 DEF Unentered
  <2>4. Closed(p.succs, S)
    BY ProgramTypes DEF Closed
  <2>5. /\ p.succs \in [Blocks -> SUBSET Blocks] /\ S \in SUBSET Blocks /\ r \in S
        /\ \A b \in Blocks : b \in S <=> p.graph[b] = p.callee[c]
    BY <1>2, ProgramTypes
  <2> HIDE DEF S, r
  <2>6. \A x \in S : ReachIn(g, x) = Reach(p.succs, x)
    BY <2>3, <2>4, <2>5, <1>1, ReachInIsReach, SameReach
  <2>7. bs = Reach(p.succs, r) \ {r, l} /\ l \in Reach(p.succs, r) \ {r}
    BY <2>5, <2>6 DEF r
  <2>8. Reach(p.succs, r) \subseteq S
    BY <2>4, <2>5, ReachLeast
  <2>9. \A b \in Blocks \ S : graph2[b] = graph[b]
    BY <2>7, <2>8, <1>3
  <2>10. ASSUME NEW d \in D PROVE LeftBehind(p, graph2, d)
    <3>1. InnerOf(p, d) \cup {EndOf(p, d)} \subseteq Blocks \ S
      BY <2>1, <2>5, InnerShape, CalleeShape DEF Foreign
    <3>2. PICK x \in InnerOf(p, d) \cup {EndOf(p, d)} :
            /\ graph[x] = p.callee[d] /\ OnlyBack(p, x)
            /\ \A b \in InnerOf(p, d) \ {x} : graph[b] = Main
      BY <2>2 DEF LeftBehind
    <3> QED BY <3>1, <3>2, <2>9 DEF LeftBehind
  <2>11. LeftBehind(p, graph2, c)
    <3>1. l \in InnerOf(p, c) \cup {EndOf(p, c)} /\ l \in S /\ l \notin bs
      BY <2>7, <2>8, CalleeShape DEF r
    <3>2. graph2[l] = p.callee[c]
      <4>1. l \in Foreign(p) /\ l \in Blocks /\ p.graph[l] = p.callee[c]
        BY <3>1, <2>5, InnerShape DEF Foreign
      <4> QED BY <4>1, <3>1, <2>1, <2>2, <1>3
    <3>3. OnlyBack(p, l)
      <4> SUFFICES ASSUME NEW x \in p.succs[l] PROVE l \in Reach(p.succs, x)
        BY DEF OnlyBack
      <4>1. x \in S
        BY <3>1, <2>4 DEF Closed
      <4>2. l \in ReachIn(g, x)
        BY <3>1, <2>3
      <4> QED BY <4>1, <4>2, <2>6
    <3>4. ASSUME NEW b \in InnerOf(p, c) \ {l} PROVE graph2[b] = Main
      <4>1. b \in Reach(p.succs, r) /\ b # r /\ b \in Blocks
        BY CalleeShape, InnerShape DEF r, Foreign
      <4> QED BY <4>1, <2>7, <1>3
    <3> QED BY <3>1, <3>2, <3>3, <3>4 DEF LeftBehind
  <2>12. ASSUME NEW b \in Foreign(p), \A d \in D \cup {c} : p.graph[b] # p.callee[d]
         PROVE  graph2[b] = p.graph[b]
    <3>1. b \in Blocks \ S
      BY <2>12, <2>5 DEF Foreign
    <3> QED BY <3>1, <2>12, <2>2, <2>9
  <2> QED BY <2>10, <2>11, <2>12
<1> QED BY <1>3, <1>4, <1>5, <1>6, <1>7, <1>8 DEF AdoptOk, graph2, id2

(***************************************************************************)
(* The inductive invariant: how far the calls have come, by the step.      *)
(***************************************************************************)
FinishedCalls == IF at.step = "start" THEN {} ELSE Sites(prog) \ Range(todo)
Busy == at.step \in {"params", "exits", "constants", "connect", "ends", "remove"}
SplitCalls == IF Busy THEN FinishedCalls \cup {call} ELSE FinishedCalls
AdoptedCalls == IF at.step \in {"connect", "ends", "remove"} THEN SplitCalls ELSE FinishedCalls
EnteredCalls == IF at.step \in {"ends", "remove"} THEN SplitCalls ELSE FinishedCalls
LeftCalls == IF at.step = "remove" THEN SplitCalls ELSE FinishedCalls

Records ==
  /\ prog \in Programs
  /\ code = [list |-> code.list, last |-> code.last, home |-> code.home]
  /\ flow = [succs |-> flow.succs, preds |-> flow.preds, graph |-> flow.graph, id |-> flow.id]
  /\ at = [step |-> at.step, cur |-> at.cur, second |-> at.second, rets |-> at.rets]

Planned ==
  /\ todo \in Seq(Sites(prog)) /\ IsInjective(todo)
  /\ at.step \in {"start", "done"} => todo = << >>
  /\ Busy => todo # << >> /\ at.cur \in MainBlocks(prog) /\ at.second = prog.spare[call]

\* The bb_ of an instruction of the caller is one of its blocks, or destroyed.
AtHome == \A i \in MainInstrs(prog) : code.home[i] \in MainBlocks(prog) \cup {Gone}

FlowNow == FlowOk(prog, flow.succs, flow.preds, at.cur, SplitCalls, EnteredCalls, LeftCalls)
AdoptNow == AdoptOk(prog, flow.graph, flow.id, SplitCalls, AdoptedCalls)

SpliceInv ==
  /\ Records
  /\ at.step = "start" => code.list = prog.list /\ store.op = prog.op
  /\ at.step # "fault" => Planned /\ AtHome /\ FlowNow /\ AdoptNow

-----------------------------------------------------------------------------
LEMMA SitesInMain == ASSUME NEW p \in Programs PROVE Sites(p) \subseteq MainInstrs(p)
<1> SUFFICES ASSUME NEW c \in Sites(p) PROVE c \in MainInstrs(p)
  OBVIOUS
<1>1. PICK b \in ListedAt(p.list, c) : p.graph[b] = Main
  BY DEF Sites, CallsOf
<1>2. b \in Blocks /\ c \in Range(p.list[b])
  BY ProgramTypes, ListedMeans DEF ListedAt
<1> QED BY <1>1, <1>2 DEF MainInstrs, MainBlocks

\* The call at hand is none of those that are through.
LEMMA CallAtHand ==
  ASSUME SpliceInv, at.step \notin {"start", "fault"}, todo # << >>
  PROVE  call \in Sites(prog) \ FinishedCalls
<1>1. todo \in Seq(Sites(prog)) /\ todo # << >>
  BY DEF SpliceInv, Planned
<1>2. call \in Sites(prog) /\ call \in Range(todo)
  BY <1>1 DEF call, Range
<1> QED BY <1>2 DEF FinishedCalls

LEMMA SpliceFault ==
  ASSUME SpliceInv, Fault
  PROVE  SpliceInv'
<1>1. UNCHANGED <<prog, code, flow>> /\ at' = [at EXCEPT !.step = "fault"]
  BY DEF Fault, Goto, given
<1>2. at = [step |-> at.step, cur |-> at.cur, second |-> at.second, rets |-> at.rets]
  BY DEF SpliceInv, Records
<1>3. /\ at' = [step |-> at'.step, cur |-> at'.cur, second |-> at'.second, rets |-> at'.rets]
      /\ at'.step = "fault"
  BY <1>1, <1>2
<1> QED BY <1>1, <1>3 DEF SpliceInv, Records

LEMMA HomeInit ==
  ASSUME InlineInit, NEW i \in MainInstrs(prog)
  PROVE  code.home[i] \in MainBlocks(prog) /\ i \in Range(prog.list[code.home[i]])
<1>1. prog \in Programs
  BY DEF InlineInit
<1>2. code.home = [x \in Instrs |-> IF ListedAt(prog.list, x) = {} THEN Gone
                                   ELSE CHOOSE b \in Blocks : b \in ListedAt(prog.list, x)]
  BY DEF InlineInit
<1>3. PICK b \in MainBlocks(prog) : i \in Range(prog.list[b])
  BY DEF MainInstrs
<1>4. b \in Blocks /\ prog.list[b] \in Seq(Instrs)
  BY <1>1, ProgramTypes DEF MainBlocks
<1>5. i \in Instrs /\ b \in ListedAt(prog.list, i)
  BY <1>1, <1>3, <1>4, ProgramTypes, ListedMeans DEF Range
<1>6. ASSUME NEW x \in Blocks, x \in ListedAt(prog.list, i) PROVE x = b
  <2>1. i \in Range(prog.list[x])
    BY <1>1, <1>6, ProgramTypes, ListedMeans
  <2> QED BY <2>1, <1>3, <1>4, <1>1, ProgramTypes DEF Range
<1>7. code.home[i] = b
  BY <1>2, <1>4, <1>5, <1>6
<1> QED BY <1>3, <1>7

LEMMA SpliceInit == InlineInit => SpliceInv
<1> SUFFICES ASSUME InlineInit PROVE SpliceInv
  OBVIOUS
<1>1. /\ prog \in Programs /\ at.step = "start" /\ todo = << >>
      /\ at = [step |-> at.step, cur |-> at.cur, second |-> at.second, rets |-> at.rets]
  BY DEF InlineInit
<1>2. /\ flow = [succs |-> flow.succs, preds |-> flow.preds, graph |-> flow.graph, id |-> flow.id]
      /\ flow.succs = prog.succs /\ flow.graph = prog.graph /\ flow.id = prog.id
      /\ flow.preds = [b \in Blocks |-> {a \in Blocks : b \in prog.succs[a]}]
  BY DEF InlineInit
<1>3. /\ code = [list |-> code.list, last |-> code.last, home |-> code.home]
      /\ code.list = prog.list
      /\ code.home = [i \in Instrs |-> IF ListedAt(prog.list, i) = {} THEN Gone
                                        ELSE CHOOSE b \in Blocks : b \in ListedAt(prog.list, i)]
  BY DEF InlineInit
<1>4. store.op = prog.op
  BY DEF InlineInit
<1>5. /\ ~ Busy /\ FinishedCalls = {} /\ SplitCalls = {} /\ AdoptedCalls = {}
      /\ EnteredCalls = {} /\ LeftCalls = {}
  BY <1>1 DEF Busy, FinishedCalls, SplitCalls, AdoptedCalls, EnteredCalls, LeftCalls
<1>6. Planned
  BY <1>1, <1>5 DEF Planned, IsInjective
<1>7. AtHome
  BY HomeInit DEF AtHome
<1>8. FlowNow
  BY <1>1, <1>2, <1>5, FlowInit DEF FlowNow
<1>9. AdoptNow
  BY <1>1, <1>2, <1>5, AdoptInit DEF AdoptNow
<1> QED BY <1>1, <1>2, <1>3, <1>4, <1>6, <1>7, <1>8, <1>9 DEF SpliceInv, Records

-----------------------------------------------------------------------------
LEMMA SpliceStart == ASSUME SpliceInv, Start PROVE SpliceInv'
<1>1. /\ prog' = prog /\ code' = code /\ flow' = flow /\ store' = store
      /\ at.step = "start" /\ at' = [at EXCEPT !.step = "next"] /\ todo' = Calls
  BY DEF Start, Goto, given
<1>2. Records /\ Planned /\ AtHome /\ FlowNow /\ AdoptNow /\ code.list = prog.list /\ store.op = prog.op
  BY <1>1 DEF SpliceInv
<1>3. /\ at' = [step |-> at'.step, cur |-> at'.cur, second |-> at'.second, rets |-> at'.rets]
      /\ at'.step = "next" /\ at'.cur = at.cur
  BY <1>1, <1>2 DEF Records
<1>4. todo' \in Seq(Instrs) /\ IsInjective(todo') /\ Range(todo') = Sites(prog)
  BY <1>1, <1>2, CallsAreSites DEF Records
<1>5. todo' \in Seq(Sites(prog))
  BY <1>4 DEF Range
<1>6. /\ ~ Busy /\ ~ Busy' /\ FinishedCalls = {} /\ FinishedCalls' = {}
  BY <1>1, <1>3, <1>4 DEF Busy, FinishedCalls
<1>7. /\ SplitCalls' = SplitCalls /\ AdoptedCalls' = AdoptedCalls
      /\ EnteredCalls' = EnteredCalls /\ LeftCalls' = LeftCalls
  BY <1>1, <1>3, <1>6 DEF SplitCalls, AdoptedCalls, EnteredCalls, LeftCalls
<1>8. Planned'
  BY <1>1, <1>3, <1>4, <1>5, <1>6 DEF Planned
<1>9. Records' /\ AtHome' /\ FlowNow' /\ AdoptNow'
  BY <1>1, <1>2, <1>3, <1>7 DEF Records, AtHome, FlowNow, AdoptNow
<1> QED BY <1>3, <1>8, <1>9 DEF SpliceInv

LEMMA SpliceFinish == ASSUME SpliceInv, Finish PROVE SpliceInv'
<1>1. /\ prog' = prog /\ code' = code /\ flow' = flow /\ store' = store /\ todo' = todo
      /\ at.step = "next" /\ at' = [at EXCEPT !.step = "done"] /\ todo = << >>
  BY DEF Finish, Goto, given
<1>2. Records /\ Planned /\ AtHome /\ FlowNow /\ AdoptNow
  BY <1>1 DEF SpliceInv
<1>3. /\ at' = [step |-> at'.step, cur |-> at'.cur, second |-> at'.second, rets |-> at'.rets]
      /\ at'.step = "done" /\ at'.cur = at.cur
  BY <1>1, <1>2 DEF Records
<1>6. /\ ~ Busy /\ ~ Busy' /\ FinishedCalls' = FinishedCalls
  BY <1>1, <1>3 DEF Busy, FinishedCalls
<1>7. /\ SplitCalls' = SplitCalls /\ AdoptedCalls' = AdoptedCalls
      /\ EnteredCalls' = EnteredCalls /\ LeftCalls' = LeftCalls
  BY <1>1, <1>3, <1>6 DEF SplitCalls, AdoptedCalls, EnteredCalls, LeftCalls
<1>8. Planned'
  BY <1>1, <1>2, <1>3, <1>6 DEF Planned
<1>9. Records' /\ AtHome' /\ FlowNow' /\ AdoptNow'
  BY <1>1, <1>2, <1>3, <1>7 DEF Records, AtHome, FlowNow, AdoptNow
<1> QED BY <1>3, <1>8, <1>9 DEF SpliceInv

\* From SplitOn to ChangeInlBlocksRelation the steps change values and lists.
LEMMA SpliceKept ==
  ASSUME SpliceInv, prog' = prog, flow' = flow, todo' = todo,
         at.step \in {"params", "exits", "constants"}, at'.step \in {"params", "exits", "constants"},
         at' = [step |-> at'.step, cur |-> at.cur, second |-> at.second, rets |-> at'.rets],
         code' = [list |-> code'.list, last |-> code'.last, home |-> code.home]
  PROVE  SpliceInv'
<1>1. Records /\ Planned /\ AtHome /\ FlowNow /\ AdoptNow
  BY DEF SpliceInv
<1>2. at'.cur = at.cur /\ at'.second = at.second /\ code'.home = code.home
  OBVIOUS
<1>3. /\ Busy /\ Busy' /\ FinishedCalls' = FinishedCalls /\ call' = call
  BY DEF Busy, FinishedCalls, call
<1>4. /\ SplitCalls' = SplitCalls /\ AdoptedCalls' = AdoptedCalls
      /\ EnteredCalls' = EnteredCalls /\ LeftCalls' = LeftCalls
  BY <1>3 DEF SplitCalls, AdoptedCalls, EnteredCalls, LeftCalls
<1>5. Planned'
  BY <1>1, <1>2, <1>3 DEF Planned
<1>6. Records'
  BY <1>1, <1>2 DEF Records
<1>7. AtHome' /\ FlowNow' /\ AdoptNow'
  BY <1>1, <1>2, <1>4 DEF AtHome, FlowNow, AdoptNow
<1> QED BY <1>5, <1>6, <1>7 DEF SpliceInv

LEMMA ListsOnly ==
  ASSUME NEW c, c = [list |-> c.list, last |-> c.last, home |-> c.home], NEW b, NEW i
  PROVE  /\ RemoveLastInstr(c, b) = [list |-> RemoveLastInstr(c, b).list,
                                     last |-> RemoveLastInstr(c, b).last, home |-> c.home]
         /\ InFront(c, b, i) = [list |-> InFront(c, b, i).list, last |-> c.last, home |-> c.home]
<1>1. InFront(c, b, i) = [list |-> InFront(c, b, i).list, last |-> c.last, home |-> c.home]
  BY DEF InFront
<1>2. CASE c.last[b] = NoInstr
  <2>1. RemoveLastInstr(c, b) = c
    BY <1>2 DEF RemoveLastInstr
  <2> QED BY <1>1, <2>1
<1>3. CASE c.last[b] # NoInstr /\ Len(c.list[b]) = 1
  <2>1. RemoveLastInstr(c, b) = [c EXCEPT !.last[b] = NoInstr]
    BY <1>3 DEF RemoveLastInstr
  <2> QED BY <1>1, <2>1
<1>4. CASE c.last[b] # NoInstr /\ Len(c.list[b]) # 1
  <2>1. RemoveLastInstr(c, b) = [c EXCEPT !.list[b] = SubSeq(@, 1, Len(c.list[b]) - 1),
                                          !.last[b] = c.list[b][Len(c.list[b]) - 1]]
    BY <1>4 DEF RemoveLastInstr
  <2> QED BY <1>1, <2>1
<1> QED BY <1>2, <1>3, <1>4

LEMMA SpliceParam == ASSUME SpliceInv, NEW k, ReplaceParam(k) PROVE SpliceInv'
<1>1. CASE Fault
  BY <1>1, SpliceFault
<1>2. CASE UNCHANGED <<given, code, flow, todo, at>>
  <2>1. at.step = "params"
    BY DEF ReplaceParam
  <2>2. Records
    BY DEF SpliceInv
  <2> QED BY <1>2, <2>1, <2>2, SpliceKept DEF Records, given
<1> QED BY <1>1, <1>2 DEF ReplaceParam

LEMMA SpliceCount == ASSUME SpliceInv, CountReturns PROVE SpliceInv'
<1>1. CASE Fault
  BY <1>1, SpliceFault
<1>2. CASE ~ Fault
  <2> DEFINE n == Cardinality({b \in flow.preds[end] : Has(code.last[b], "RET")})
  <2>1. /\ at.step = "params" /\ at' = [at EXCEPT !.step = "exits", !.rets = n]
        /\ UNCHANGED <<given, code, flow, todo>>
    BY <1>2 DEF CountReturns
  <2>2. Records
    BY DEF SpliceInv
  <2> HIDE DEF n
  <2>3. at' = [step |-> at'.step, cur |-> at.cur, second |-> at.second, rets |-> at'.rets] /\ at'.step = "exits"
    BY <2>1, <2>2 DEF Records
  <2> QED BY <2>1, <2>2, <2>3, SpliceKept DEF Records, given
<1> QED BY <1>1, <1>2

LEMMA SpliceExit == ASSUME SpliceInv, NEW b, ReplaceExit(b) PROVE SpliceInv'
<1>1. CASE Fault
  BY <1>1, SpliceFault
<1>2. CASE ~ Fault
  <2>1. at.step = "exits" /\ UNCHANGED <<given, flow, todo, at>>
    BY <1>2 DEF ReplaceExit
  <2>2. Records
    BY DEF SpliceInv
  <2>3. code = [list |-> code.list, last |-> code.last, home |-> code.home]
    BY <2>2 DEF Records
  <2>4. \/ code' = RemoveLastInstr(code, b)
        \/ \E i : code' = RemoveLastInstr(InFront(code, at.second, i), b)
    BY <1>2 DEF ReplaceExit, MergeReturn, UseReturned
  <2>5. code' = [list |-> code'.list, last |-> code'.last, home |-> code.home]
    <3>1. CASE code' = RemoveLastInstr(code, b)
      BY <2>3, <3>1, ListsOnly
    <3>2. CASE \E i : code' = RemoveLastInstr(InFront(code, at.second, i), b)
      <4>1. PICK i : code' = RemoveLastInstr(InFront(code, at.second, i), b)
        BY <3>2
      <4> DEFINE c == InFront(code, at.second, i)
      <4>2. c = [list |-> c.list, last |-> code.last, home |-> code.home]
        BY <2>3, ListsOnly
      <4> HIDE DEF c
      <4>3. c = [list |-> c.list, last |-> c.last, home |-> c.home] /\ c.home = code.home
        BY <4>2
      <4>4. code' = RemoveLastInstr(c, b)
        BY <4>1 DEF c
      <4> QED BY <4>3, <4>4, ListsOnly
    <3> QED BY <2>4, <3>1, <3>2
  <2> QED BY <2>1, <2>2, <2>5, SpliceKept DEF Records, given
<1> QED BY <1>1, <1>2

LEMMA SpliceConstants == ASSUME SpliceInv, StartConstants PROVE SpliceInv'
<1>1. /\ at.step = "exits" /\ at' = [at EXCEPT !.step = "constants"]
      /\ UNCHANGED <<given, code, flow, todo>>
  BY DEF StartConstants, Goto
<1>2. Records
  BY DEF SpliceInv
<1>3. at' = [step |-> at'.step, cur |-> at.cur, second |-> at.second, rets |-> at'.rets] /\ at'.step = "constants"
  BY <1>1, <1>2 DEF Records
<1> QED BY <1>1, <1>2, <1>3, SpliceKept DEF Records, given

LEMMA SpliceConstant == ASSUME SpliceInv, NEW i, MoveConstant(i) PROVE SpliceInv'
<1>1. CASE Fault
  BY <1>1, SpliceFault
<1>2. CASE UNCHANGED <<given, code, flow, todo, at>>
  <2>1. at.step = "constants"
    BY DEF MoveConstant
  <2>2. Records
    BY DEF SpliceInv
  <2> QED BY <1>2, <2>1, <2>2, SpliceKept DEF Records, given
<1> QED BY <1>1, <1>2 DEF MoveConstant

-----------------------------------------------------------------------------
LEMMA SpliceSplit == ASSUME SpliceInv, SplitOn PROVE SpliceInv'
<1> DEFINE cur == code.home[call]
           s == prog.spare[call]
           f == MoveSuccs(flow, cur, s)
<1>1. CASE Fault
  BY <1>1, SpliceFault
<1>2. CASE ~ Fault
  <2> DEFINE k == Position(cur, call)
             rest == SubSeq(code.list[cur], k + 1, Len(code.list[cur]))
  <2>1. /\ at.step = "next" /\ todo # << >> /\ cur # Gone
        /\ code' = [list |-> [code.list EXCEPT ![cur] = SubSeq(@, 1, k), ![s] = rest],
                    last |-> [code.last EXCEPT ![cur] = call, ![s] = code.last[cur]],
                    home |-> [i \in Instrs |-> IF Slots(rest, i) # {} THEN Gone ELSE code.home[i]]]
        /\ flow' = [f EXCEPT !.graph[s] = Main]
        /\ at' = [at EXCEPT !.step = "params", !.cur = cur, !.second = s]
        /\ prog' = prog /\ todo' = todo
    BY <1>2 DEF SplitOn, given
  <2>2. Records /\ Planned /\ AtHome /\ FlowNow /\ AdoptNow
    BY <2>1 DEF SpliceInv
  <2>3. call \in Sites(prog) \ FinishedCalls /\ prog \in Programs
    BY <2>1, <2>2, CallAtHand DEF Records
  <2> HIDE DEF k, rest
  <2>4. /\ code' = [list |-> code'.list, last |-> code'.last, home |-> code'.home]
        /\ \A i \in Instrs : code'.home[i] \in {Gone, code.home[i]}
    BY <2>1
  <2>5. cur \in MainBlocks(prog)
    BY <2>1, <2>2, <2>3, SitesInMain DEF AtHome
  <2> HIDE DEF cur, s
  <2> DEFINE sc == SplitSuccs(flow.succs, cur, s)
             pd == SplitPreds(flow.succs, flow.preds, cur, s)
  <2>6. /\ f.succs = sc /\ f.preds = pd /\ f.graph = flow.graph /\ f.id = flow.id
        /\ f = [succs |-> f.succs, preds |-> f.preds, graph |-> f.graph, id |-> f.id]
    <3>1. f = [flow EXCEPT !.succs = sc, !.preds = pd]
      BY DEF MoveSuccs, SplitSuccs, SplitPreds
    <3> HIDE DEF f, sc, pd
    <3> QED BY <3>1, <2>2 DEF Records
  <2> HIDE DEF f
  <2>7. /\ flow' = [succs |-> flow'.succs, preds |-> flow'.preds, graph |-> flow'.graph, id |-> flow'.id]
        /\ flow'.succs = f.succs /\ flow'.preds = f.preds
        /\ flow'.graph = [flow.graph EXCEPT ![s] = Main] /\ flow'.id = flow.id
    BY <2>1, <2>6
  <2>8. /\ at' = [step |-> at'.step, cur |-> at'.cur, second |-> at'.second, rets |-> at'.rets]
        /\ at'.step = "params" /\ at'.cur = cur /\ at'.second = s
    BY <2>1, <2>2 DEF Records
  <2>9. /\ ~ Busy /\ Busy' /\ FinishedCalls' = FinishedCalls /\ call' = call
    BY <2>1, <2>8 DEF Busy, FinishedCalls, call
  <2>10. /\ SplitCalls = FinishedCalls /\ SplitCalls' = FinishedCalls \cup {call}
         /\ AdoptedCalls = FinishedCalls /\ AdoptedCalls' = FinishedCalls
         /\ EnteredCalls = FinishedCalls /\ EnteredCalls' = FinishedCalls
         /\ LeftCalls = FinishedCalls /\ LeftCalls' = FinishedCalls
    BY <2>1, <2>8, <2>9 DEF SplitCalls, AdoptedCalls, EnteredCalls, LeftCalls
  <2>11. Planned'
    BY <2>1, <2>2, <2>5, <2>8, <2>9 DEF Planned, s
  <2>12. Records'
    BY <2>1, <2>2, <2>4, <2>7, <2>8 DEF Records
  <2>13. AtHome'
    <3> SUFFICES ASSUME NEW i \in MainInstrs(prog) PROVE code'.home[i] \in MainBlocks(prog) \cup {Gone}
      BY <2>1 DEF AtHome
    <3>1. i \in Instrs
      <4>1. PICK b \in MainBlocks(prog) : i \in Range(prog.list[b])
        BY DEF MainInstrs
      <4>2. prog.list[b] \in Seq(Instrs)
        BY <2>3, ProgramTypes DEF MainBlocks
      <4> QED BY <4>1, <4>2 DEF Range
    <3> QED BY <3>1, <2>2, <2>4 DEF AtHome
  <2>14. FlowNow'
    <3>1. FinishedCalls \in SUBSET Sites(prog)
      BY DEF FinishedCalls
    <3>2. FlowOk(prog, flow.succs, flow.preds, at.cur, FinishedCalls, FinishedCalls, FinishedCalls)
      BY <2>2, <2>10 DEF FlowNow
    <3> DEFINE D == FinishedCalls
               g == flow.succs
               q == flow.preds
               g2 == flow'.succs
               q2 == flow'.preds
    <3>3. /\ prog \in Programs /\ D \in SUBSET Sites(prog) /\ call \in Sites(prog) \ D
          /\ cur \in MainBlocks(prog) /\ FlowOk(prog, g, q, at.cur, D, D, D)
      BY <2>3, <2>5, <3>1, <3>2
    <3>4. g2 = SplitSuccs(g, cur, prog.spare[call])
      BY <2>6, <2>7 DEF s
    <3>5. q2 = SplitPreds(g, q, cur, prog.spare[call])
      BY <2>6, <2>7 DEF s
    <3> HIDE DEF D, g, q, g2, q2
    <3>6. FlowOk(prog, g2, q2, cur, D \cup {call}, D, D)
      BY ONLY <3>3, <3>4, <3>5, FlowSplit
    <3> QED BY <3>6, <2>1, <2>8, <2>10 DEF FlowNow, D, g2, q2
  <2>15. AdoptNow'
    <3>1. FinishedCalls \in SUBSET Sites(prog)
      BY DEF FinishedCalls
    <3>2. AdoptOk(prog, flow.graph, flow.id, FinishedCalls, FinishedCalls)
      BY <2>2, <2>10 DEF AdoptNow
    <3>3. AdoptOk(prog, flow'.graph, flow'.id, FinishedCalls \cup {call}, FinishedCalls)
      BY <2>3, <2>7, <3>1, <3>2, AdoptSplit DEF s
    <3> QED BY <3>3, <2>1, <2>10 DEF AdoptNow
  <2> QED BY <2>8, <2>11, <2>12, <2>13, <2>14, <2>15 DEF SpliceInv
<1> QED BY <1>1, <1>2

LEMMA SpliceInner == ASSUME SpliceInv, ChangeInlBlocksRelation PROVE SpliceInv'
<1>1. PICK l \in LastOfRpo : flow' = Adopted(flow, ReachIn(flow.succs, root) \ {root, l})
  BY DEF ChangeInlBlocksRelation
<1> DEFINE bs == ReachIn(flow.succs, root) \ {root, l}
<1>2. /\ at.step = "constants" /\ at' = [at EXCEPT !.step = "connect"]
      /\ prog' = prog /\ code' = code /\ todo' = todo
  BY DEF ChangeInlBlocksRelation, Goto, given
<1>3. Records /\ Planned /\ AtHome /\ FlowNow /\ AdoptNow
  BY <1>2 DEF SpliceInv
<1>4. /\ at' = [step |-> at'.step, cur |-> at'.cur, second |-> at'.second, rets |-> at'.rets]
      /\ at'.step = "connect" /\ at'.cur = at.cur /\ at'.second = at.second
  BY <1>2, <1>3 DEF Records
<1>5. /\ flow'.succs = flow.succs /\ flow'.preds = flow.preds
      /\ flow'.graph = SetFor(flow.graph, bs, Main) /\ flow'.id = SetFor(flow.id, bs, Unset)
      /\ flow' = [succs |-> flow'.succs, preds |-> flow'.preds, graph |-> flow'.graph, id |-> flow'.id]
  <2> DEFINE gr == SetFor(flow.graph, bs, Main)
             nr == SetFor(flow.id, bs, Unset)
  <2>1. flow' = [flow EXCEPT !.graph = gr, !.id = nr]
    BY <1>1 DEF Adopted, SetFor
  <2> HIDE DEF gr, nr
  <2>2. /\ flow'.succs = flow.succs /\ flow'.preds = flow.preds /\ flow'.graph = gr /\ flow'.id = nr
        /\ flow' = [succs |-> flow'.succs, preds |-> flow'.preds, graph |-> flow'.graph, id |-> flow'.id]
    BY <2>1, <1>3 DEF Records
  <2> QED BY <2>2 DEF gr, nr
<1>6. /\ Busy /\ Busy' /\ FinishedCalls' = FinishedCalls /\ call' = call
  BY <1>2, <1>4 DEF Busy, FinishedCalls, call
<1>7. /\ SplitCalls = FinishedCalls \cup {call} /\ SplitCalls' = FinishedCalls \cup {call}
      /\ AdoptedCalls = FinishedCalls /\ AdoptedCalls' = FinishedCalls \cup {call}
      /\ EnteredCalls' = EnteredCalls /\ EnteredCalls = FinishedCalls
      /\ LeftCalls' = LeftCalls /\ LeftCalls = FinishedCalls
  BY <1>2, <1>4, <1>6 DEF SplitCalls, AdoptedCalls, EnteredCalls, LeftCalls
<1>8. Planned'
  BY <1>2, <1>3, <1>4, <1>6 DEF Planned
<1>9. Records' /\ AtHome' /\ FlowNow'
  BY <1>2, <1>3, <1>4, <1>5, <1>7 DEF Records, AtHome, FlowNow
<1>10. AdoptNow'
  <2> DEFINE D == FinishedCalls
             H == FinishedCalls \cup {call}
             g == flow.succs
  <2>1. /\ prog \in Programs /\ D \in SUBSET Sites(prog) /\ H \in SUBSET Sites(prog)
        /\ call \in Sites(prog) \ D
    BY <1>2, <1>3, <1>6, CallAtHand DEF FinishedCalls, Records, Planned
  <2>2. /\ FlowOk(prog, g, flow.preds, at.cur, H, D, D)
        /\ AdoptOk(prog, flow.graph, flow.id, H, D)
    BY <1>3, <1>7 DEF FlowNow, AdoptNow
  <2>3. RootOf(prog, call) = root
    BY DEF RootOf, root, callee
  <2>4. /\ l \in ReachIn(g, RootOf(prog, call)) \ {RootOf(prog, call)}
        /\ \A s \in g[l] : l \in ReachIn(g, s)
        /\ bs = ReachIn(g, RootOf(prog, call)) \ {RootOf(prog, call), l}
    BY <2>3 DEF LastOfRpo
  <2> HIDE DEF D, H, g, bs
  <2>5. AdoptOk(prog, SetFor(flow.graph, bs, Main), SetFor(flow.id, bs, Unset), H, D \cup {call})
    BY <2>1, <2>2, <2>4, AdoptInner
  <2> QED BY <2>5, <1>2, <1>5, <1>7 DEF AdoptNow, D, H
<1> QED BY <1>4, <1>8, <1>9, <1>10 DEF SpliceInv

LEMMA SpliceRoot == ASSUME SpliceInv, ConnectRoot PROVE SpliceInv'
<1>1. CASE Fault
  BY <1>1, SpliceFault
<1>2. CASE ~ Fault
  <2> DEFINE g == flow.succs
             q == flow.preds
             r == RootOf(prog, call)
             D == FinishedCalls
             H == FinishedCalls \cup {call}
  <2>1. /\ at.step = "connect" /\ at' = [at EXCEPT !.step = "ends"]
        /\ prog' = prog /\ code' = code /\ todo' = todo
        /\ \A b \in flow.succs[root] : flow.succs[root] = {b} /\ root \in flow.preds[b]
    BY <1>2 DEF ConnectRoot, Goto, given
  <2>2. PICK b \in flow.succs[root] :
          flow' = Linked([flow EXCEPT !.preds[b] = @ \ {root}], at.cur, b)
    BY <1>2 DEF ConnectRoot
  <2>3. Records /\ Planned /\ AtHome /\ FlowNow /\ AdoptNow
    BY <2>1 DEF SpliceInv
  <2>4. /\ at' = [step |-> at'.step, cur |-> at'.cur, second |-> at'.second, rets |-> at'.rets]
        /\ at'.step = "ends" /\ at'.cur = at.cur /\ at'.second = at.second
    BY <2>1, <2>3 DEF Records
  <2>5. /\ Busy /\ Busy' /\ FinishedCalls' = FinishedCalls /\ call' = call
    BY <2>1, <2>4 DEF Busy, FinishedCalls, call
  <2>6. /\ SplitCalls = H /\ SplitCalls' = H /\ AdoptedCalls = H /\ AdoptedCalls' = H
        /\ EnteredCalls = D /\ EnteredCalls' = H /\ LeftCalls = D /\ LeftCalls' = D
    BY <2>1, <2>4, <2>5 DEF SplitCalls, AdoptedCalls, EnteredCalls, LeftCalls
  <2>7. /\ prog \in Programs /\ D \in SUBSET Sites(prog) /\ call \in Sites(prog) \ D
        /\ at.cur \in MainBlocks(prog) /\ FlowOk(prog, g, q, at.cur, D \cup {call}, D, D)
    BY <2>1, <2>3, <2>5, <2>6, CallAtHand DEF FinishedCalls, Records, Planned, FlowNow
  <2>8. root = r
    BY DEF RootOf, root, callee
  <2>9. g[r] = {b} /\ r \in q[b]
    BY <2>1, <2>8
  <2>10. q \in [Blocks -> SUBSET Blocks] /\ b \in Blocks
    <3>1. q \in [Blocks -> SUBSET Blocks] /\ g \in [Blocks -> SUBSET Blocks]
      BY <2>7 DEF FlowOk
    <3>2. r \in Blocks
      BY <2>7, CalleeShape
    <3> QED BY <3>1, <3>2, <2>9
  <2>11. /\ flow'.succs = RootSuccs(g, at.cur, b) /\ flow'.preds = RootPreds(q, r, at.cur, b)
         /\ flow'.graph = flow.graph /\ flow'.id = flow.id
         /\ flow' = [succs |-> flow'.succs, preds |-> flow'.preds, graph |-> flow'.graph, id |-> flow'.id]
    <3> DEFINE q1 == [q EXCEPT ![b] = @ \ {r}]
               q2 == [q1 EXCEPT ![b] = @ \cup {at.cur}]
               f1 == [flow EXCEPT !.preds[b] = @ \ {root}]
    <3>1. q2 = RootPreds(q, r, at.cur, b)
      BY <2>10 DEF RootPreds
    <3>2. f1 = [succs |-> g, preds |-> q1, graph |-> flow.graph, id |-> flow.id]
      <4> DEFINE q0 == [flow.preds EXCEPT ![b] = @ \ {root}]
      <4>1. f1 = [flow EXCEPT !.preds = q0]
        OBVIOUS
      <4>2. q0 = q1
        BY <2>8
      <4> HIDE DEF q0, q1, f1
      <4> QED BY <4>1, <4>2, <2>3 DEF Records
    <3> HIDE DEF q1, f1
    <3>3. flow' = [f1 EXCEPT !.succs[at.cur] = @ \cup {b}, !.preds[b] = @ \cup {at.cur}]
      BY <2>2 DEF Linked, f1
    <3>4. flow' = [succs |-> RootSuccs(g, at.cur, b), preds |-> q2, graph |-> flow.graph, id |-> flow.id]
      BY <3>2, <3>3 DEF RootSuccs
    <3> HIDE DEF q2
    <3> QED BY <3>1, <3>4
  <2> HIDE DEF g, q, r, D, H
  <2>12. Planned'
    BY <2>1, <2>3, <2>4, <2>5 DEF Planned
  <2>13. Records' /\ AtHome' /\ AdoptNow'
    BY <2>1, <2>3, <2>4, <2>6, <2>11 DEF Records, AtHome, AdoptNow
  <2>14. FlowOk(prog, RootSuccs(g, at.cur, b), RootPreds(q, r, at.cur, b), at.cur, D \cup {call}, D \cup {call}, D)
    BY <2>7, <2>9, FlowRoot DEF r
  <2>15. FlowNow'
    BY <2>1, <2>4, <2>6, <2>11, <2>14 DEF FlowNow, H, D
  <2> QED BY <2>4, <2>12, <2>13, <2>15 DEF SpliceInv
<1> QED BY <1>1, <1>2

LEMMA SpliceEnds == ASSUME SpliceInv, ConnectEnds PROVE SpliceInv'
<1>1. CASE Fault
  BY <1>1, SpliceFault
<1>2. CASE ~ Fault
  <2> DEFINE g == flow.succs
             q == flow.preds
             e == EndOf(prog, call)
             s == prog.spare[call]
             D == FinishedCalls
             H == FinishedCalls \cup {call}
  <2>1. /\ at.step = "ends" /\ at' = [at EXCEPT !.step = "remove"]
        /\ prog' = prog /\ code' = code /\ todo' = todo
        /\ \A b \in flow.preds[end] : flow.succs[b] = {end}
        /\ flow' = [flow EXCEPT
                     !.succs = [b \in Blocks |-> IF b \in flow.preds[end] THEN {at.second} ELSE @[b]],
                     !.preds[at.second] = @ \cup flow.preds[end]]
    BY <1>2 DEF ConnectEnds, Goto, given
  <2>2. end = e
    BY DEF EndOf, end, callee
  <2>3. Records /\ Planned /\ AtHome /\ FlowNow /\ AdoptNow
    BY <2>1 DEF SpliceInv
  <2>4. /\ at' = [step |-> at'.step, cur |-> at'.cur, second |-> at'.second, rets |-> at'.rets]
        /\ at'.step = "remove" /\ at'.cur = at.cur /\ at'.second = at.second
    BY <2>1, <2>3 DEF Records
  <2>5. /\ Busy /\ Busy' /\ FinishedCalls' = FinishedCalls /\ call' = call
    BY <2>1, <2>4 DEF Busy, FinishedCalls, call
  <2>6. /\ SplitCalls = H /\ SplitCalls' = H /\ AdoptedCalls = H /\ AdoptedCalls' = H
        /\ EnteredCalls = H /\ EnteredCalls' = H /\ LeftCalls = D /\ LeftCalls' = H
    BY <2>1, <2>4, <2>5 DEF SplitCalls, AdoptedCalls, EnteredCalls, LeftCalls
  <2>7. /\ prog \in Programs /\ D \in SUBSET Sites(prog) /\ call \in Sites(prog) \ D
        /\ at.cur \in MainBlocks(prog) /\ FlowOk(prog, g, q, at.cur, D \cup {call}, D \cup {call}, D)
    BY <2>1, <2>3, <2>5, <2>6, CallAtHand DEF FinishedCalls, Records, Planned, FlowNow
  <2>8. at.second = s
    BY <2>3, <2>5 DEF Planned
  <2>9. /\ flow'.succs = EndSuccs(g, q[e], s) /\ flow'.preds = EndPreds(q, q[e], s)
        /\ flow'.graph = flow.graph /\ flow'.id = flow.id
        /\ flow' = [succs |-> flow'.succs, preds |-> flow'.preds, graph |-> flow'.graph, id |-> flow'.id]
    <3> DEFINE sc == EndSuccs(g, q[e], s)
               pd == EndPreds(q, q[e], s)
    <3>1. flow' = [flow EXCEPT !.succs = sc, !.preds = pd]
      <4> DEFINE ends == q[end]
      <4> HIDE DEF ends
      <4>1. flow' = [flow EXCEPT !.succs = [b \in Blocks |-> IF b \in ends THEN {at.second} ELSE @[b]],
                                 !.preds[at.second] = @ \cup ends]
        BY <2>1 DEF ends
      <4>2. [flow EXCEPT !.succs = [b \in Blocks |-> IF b \in ends THEN {at.second} ELSE @[b]],
                         !.preds[at.second] = @ \cup ends]
              = [flow EXCEPT !.succs = EndSuccs(g, ends, s), !.preds = EndPreds(q, ends, s)]
        BY <2>3, <2>8 DEF Records, EndSuccs, EndPreds
      <4> QED BY <4>1, <4>2, <2>2 DEF ends
    <3> HIDE DEF sc, pd
    <3> QED BY <3>1, <2>3 DEF Records, sc, pd
  <2>10. \A b \in q[e] : g[b] = {e}
    BY <2>1, <2>2
  <2> HIDE DEF g, q, s, e, D, H
  <2>12. Planned'
    BY <2>1, <2>3, <2>4, <2>5 DEF Planned
  <2>13. Records' /\ AtHome' /\ AdoptNow'
    BY <2>1, <2>3, <2>4, <2>6, <2>9 DEF Records, AtHome, AdoptNow
  <2>14. FlowOk(prog, EndSuccs(g, q[e], s), EndPreds(q, q[e], s), at.cur,
                D \cup {call}, D \cup {call}, D \cup {call})
    BY <2>7, <2>10, FlowEnds DEF e, s
  <2>15. FlowNow'
    BY <2>1, <2>4, <2>6, <2>9, <2>14 DEF FlowNow, H, D
  <2> QED BY <2>4, <2>12, <2>13, <2>15 DEF SpliceInv
<1> QED BY <1>1, <1>2

\* The call is through: it leaves the list of those to inline.
LEMMA CallPassed ==
  ASSUME SpliceInv, RemoveCall
  PROVE  /\ todo' \in Seq(Sites(prog)) /\ IsInjective(todo')
         /\ FinishedCalls' = FinishedCalls \cup {call}
<1>1. /\ at.step = "remove" /\ at' = [at EXCEPT !.step = "next"] /\ todo' = Tail(todo) /\ prog' = prog
  BY DEF RemoveCall, Goto, given
<1>2. Records /\ Planned
  BY <1>1 DEF SpliceInv
<1>3. at'.step = "next"
  BY <1>1, <1>2 DEF Records
<1>5. Busy
  BY <1>1 DEF Busy
<1>6. todo \in Seq(Sites(prog)) /\ IsInjective(todo) /\ todo # << >>
  BY <1>2, <1>5 DEF Planned
<1>7. todo' \in Seq(Sites(prog)) /\ IsInjective(todo') /\ Range(todo') = Range(todo) \ {call}
  <2> DEFINE t == Tail(todo)
  <2>1. /\ t \in Seq(Sites(prog)) /\ Len(todo) \in Nat \ {0}
        /\ Len(t) = Len(todo) - 1 /\ \A k \in 1 .. Len(t) : t[k] = todo[k + 1]
    BY <1>6
  <2>2. DOMAIN t = 1 .. Len(t) /\ DOMAIN todo = 1 .. Len(todo) /\ call = todo[1]
    BY <1>6, <2>1 DEF call
  <2> HIDE DEF t
  <2>3. \A j, k \in 1 .. Len(todo) : todo[j] = todo[k] => j = k
    BY <1>6, <2>2 DEF IsInjective
  <2>4. IsInjective(t)
    <3> SUFFICES ASSUME NEW j \in DOMAIN t, NEW k \in DOMAIN t, t[j] = t[k] PROVE j = k
      BY DEF IsInjective
    <3>1. j + 1 \in 1 .. Len(todo) /\ k + 1 \in 1 .. Len(todo) /\ todo[j + 1] = todo[k + 1]
      BY <2>1, <2>2
    <3> QED BY <3>1, <2>3, <2>2
  <2>5. Range(t) = Range(todo) \ {call}
    <3>1. ASSUME NEW k \in DOMAIN t PROVE t[k] \in Range(todo) \ {call}
      <4>1. k + 1 \in 1 .. Len(todo) /\ 1 \in 1 .. Len(todo) /\ k + 1 # 1 /\ t[k] = todo[k + 1]
        BY <2>1, <2>2
      <4> QED BY <4>1, <2>2, <2>3 DEF Range
    <3>2. ASSUME NEW k \in DOMAIN todo, todo[k] # call PROVE todo[k] \in Range(t)
      <4>1. k - 1 \in 1 .. Len(t) /\ t[k - 1] = todo[k]
        BY <2>1, <2>2, <3>2
      <4> QED BY <4>1, <2>2 DEF Range
    <3> QED BY <3>1, <3>2 DEF Range
  <2> QED BY <2>1, <2>4, <2>5, <1>1 DEF t
<1>8. call \in Sites(prog) \ FinishedCalls
  BY <1>1, <1>6, CallAtHand
<1>9. FinishedCalls' = FinishedCalls \cup {call}
  BY <1>1, <1>3, <1>7, <1>8 DEF FinishedCalls
<1> QED BY <1>7, <1>9

LEMMA SpliceRemove == ASSUME SpliceInv, RemoveCall PROVE SpliceInv'
<1>1. /\ at.step = "remove" /\ at' = [at EXCEPT !.step = "next"] /\ todo' = Tail(todo)
      /\ code' = RemoveLastInstr(code, at.cur) /\ prog' = prog /\ flow' = flow
  BY DEF RemoveCall, Goto, given
<1>2. Records /\ Planned /\ AtHome /\ FlowNow /\ AdoptNow
  BY <1>1 DEF SpliceInv
<1>3. /\ at' = [step |-> at'.step, cur |-> at'.cur, second |-> at'.second, rets |-> at'.rets]
      /\ at'.step = "next" /\ at'.cur = at.cur /\ at'.second = at.second
  BY <1>1, <1>2 DEF Records
<1>4. code' = [list |-> code'.list, last |-> code'.last, home |-> code'.home] /\ code'.home = code.home
  <2>1. code = [list |-> code.list, last |-> code.last, home |-> code.home]
    BY <1>2 DEF Records
  <2>2. code' = [list |-> code'.list, last |-> code'.last, home |-> code.home]
    BY <2>1, <1>1, ListsOnly
  <2> QED BY <2>2
<1>5. Busy /\ ~ Busy'
  BY <1>1, <1>3 DEF Busy
<1>7. /\ todo' \in Seq(Sites(prog)) /\ IsInjective(todo')
      /\ FinishedCalls' = FinishedCalls \cup {call}
  BY CallPassed
<1>10. /\ SplitCalls' = SplitCalls /\ AdoptedCalls' = AdoptedCalls
       /\ EnteredCalls' = EnteredCalls /\ LeftCalls' = LeftCalls
  BY <1>1, <1>3, <1>5, <1>7 DEF SplitCalls, AdoptedCalls, EnteredCalls, LeftCalls
<1>11. Planned'
  BY <1>1, <1>3, <1>5, <1>7 DEF Planned
<1>12. Records' /\ AtHome' /\ FlowNow' /\ AdoptNow'
  BY <1>1, <1>2, <1>3, <1>4, <1>10 DEF Records, AtHome, FlowNow, AdoptNow
<1> QED BY <1>3, <1>11, <1>12 DEF SpliceInv

-----------------------------------------------------------------------------
\* The calls, the edges and what the blocks belong to are as the step says.
THEOREM SpliceInvHolds == InlineSpec => []SpliceInv
<1>1. SpliceInv /\ [InlineNext]_inlineVars => SpliceInv'
  <2> SUFFICES ASSUME SpliceInv, [InlineNext]_inlineVars PROVE SpliceInv'
    OBVIOUS
  <2>1. CASE Start
    BY <2>1, SpliceStart
  <2>2. CASE Finish
    BY <2>2, SpliceFinish
  <2>3. CASE SplitOn
    BY <2>3, SpliceSplit
  <2>4. CASE CountReturns
    BY <2>4, SpliceCount
  <2>5. CASE StartConstants
    BY <2>5, SpliceConstants
  <2>6. CASE ChangeInlBlocksRelation
    BY <2>6, SpliceInner
  <2>7. CASE ConnectRoot
    BY <2>7, SpliceRoot
  <2>8. CASE ConnectEnds
    BY <2>8, SpliceEnds
  <2>9. CASE RemoveCall
    BY <2>9, SpliceRemove
  <2>10. ASSUME NEW x \in work, ReplaceParam(x) \/ ReplaceExit(x) \/ MoveConstant(x) PROVE SpliceInv'
    BY <2>10, SpliceParam, SpliceExit, SpliceConstant
  <2>11. CASE UNCHANGED inlineVars
    <3>1. UNCHANGED <<prog, code, flow, store, todo, at>>
      BY <2>11 DEF inlineVars, given
    <3>2. /\ UNCHANGED <<Busy, call, FinishedCalls>>
      BY <3>1 DEF Busy, call, FinishedCalls
    <3>3. UNCHANGED <<SplitCalls, AdoptedCalls, EnteredCalls, LeftCalls>>
      BY <3>1, <3>2 DEF SplitCalls, AdoptedCalls, EnteredCalls, LeftCalls
    <3>4. UNCHANGED <<FlowNow, AdoptNow, Planned, AtHome, Records>>
      BY <3>1, <3>2, <3>3 DEF FlowNow, AdoptNow, Planned, AtHome, Records
    <3> QED BY <3>1, <3>4 DEF SpliceInv
  <2> QED BY <2>1, <2>2, <2>3, <2>4, <2>5, <2>6, <2>7, <2>8, <2>9, <2>10, <2>11, Zenon DEF InlineNext
<1> QED BY <1>1, SpliceInit, PTL DEF InlineSpec

\* What the properties call the calls inlined are the calls to inline.
LEMMA CallsMeant ==
  ASSUME prog \in Programs
  PROVE  InlinedCalls = Sites(prog) /\ InMain = MainInstrs(prog)
         /\ \A b \in Blocks : In(b) = Range(prog.list[b])
<1>1. ASSUME NEW b \in Blocks PROVE In(b) = Range(prog.list[b])
  <2>1. prog.list[b] \in Seq(Instrs)
    BY ProgramTypes
  <2> QED BY <2>1 DEF In, Slots, Range
<1>2. InMain = MainInstrs(prog)
  <2>1. \A b \in MainBlocks(prog) : In(b) = Range(prog.list[b])
    BY <1>1 DEF MainBlocks
  <2>2. InMain = UNION {In(b) : b \in MainBlocks(prog)}
    BY DEF InMain, MainBlocks
  <2> QED BY <2>1, <2>2 DEF MainInstrs
<1>3. ASSUME NEW i PROVE i \in CallsOf(prog) <=> i \in MainInstrs(prog) /\ prog.op[i] = "CALL"
  <2>1. ASSUME NEW b \in MainBlocks(prog), i \in Range(prog.list[b])
        PROVE  i \in Instrs /\ b \in ListedAt(prog.list, i) /\ prog.graph[b] = Main
    <3>1. b \in Blocks /\ prog.list[b] \in Seq(Instrs)
      BY ProgramTypes DEF MainBlocks
    <3> QED BY <2>1, <3>1, ProgramTypes, ListedMeans DEF MainBlocks, Range
  <2>2. ASSUME NEW b \in ListedAt(prog.list, i), prog.graph[b] = Main
        PROVE  b \in MainBlocks(prog) /\ i \in Range(prog.list[b])
    <3>1. b \in Blocks
      BY DEF ListedAt
    <3> QED BY <2>2, <3>1, ProgramTypes, ListedMeans DEF MainBlocks
  <2> QED BY <2>1, <2>2 DEF CallsOf, MainInstrs
<1>4. InlinedCalls = Sites(prog)
  BY <1>2, <1>3 DEF InlinedCalls, Sites
<1> QED BY <1>1, <1>2, <1>4

\* At the end all calls are through.
LEMMA AllThrough ==
  ASSUME SpliceInv, Done
  PROVE  /\ prog \in Programs /\ InlinedCalls = Sites(prog)
         /\ FlowOk(prog, flow.succs, flow.preds, at.cur, Sites(prog), Sites(prog), Sites(prog))
         /\ AdoptOk(prog, flow.graph, flow.id, Sites(prog), Sites(prog))
         /\ Reached = Owned(prog, Sites(prog), Sites(prog))
         /\ FinishedCalls = Sites(prog)
<1>1. at.step = "done" /\ Records /\ Planned /\ FlowNow /\ AdoptNow
  BY DEF SpliceInv, Done
<1>2. prog \in Programs /\ todo = << >>
  BY <1>1 DEF Records, Planned
<1> DEFINE C == Sites(prog)
           g == flow.succs
           m == prog.root[Main]
<1>3. FinishedCalls = C
  BY <1>1, <1>2 DEF FinishedCalls, Range
<1>4. SplitCalls = C /\ AdoptedCalls = C /\ EnteredCalls = C /\ LeftCalls = C
  BY <1>1, <1>3 DEF SplitCalls, AdoptedCalls, EnteredCalls, LeftCalls, Busy
<1>5. FlowOk(prog, g, flow.preds, at.cur, C, C, C) /\ AdoptOk(prog, flow.graph, flow.id, C, C)
  BY <1>1, <1>4 DEF FlowNow, AdoptNow
<1>6. Reached = Owned(prog, C, C)
  <2>1. g \in [Blocks -> SUBSET Blocks] /\ StaysIn(prog, g, C, C, C) /\ Covered(prog, g, at.cur, C, C, C)
    BY <1>5 DEF FlowOk
  <2>2. m \in MainBlocks(prog) /\ m \in Blocks
    BY <1>2, MainShape DEF MainBlocks
  <2>3. Reached = Reach(g, m)
    BY <2>1, <2>2, ReachInIsReach DEF Reached
  <2>4. Closed(g, Owned(prog, C, C))
    BY <2>1 DEF Closed, StaysIn
  <2>5. Owned(prog, C, C) \in SUBSET Blocks /\ m \in Owned(prog, C, C)
    BY <1>2, <2>2, OwnedBlocks DEF Owned
  <2>6. Reach(g, m) \subseteq Owned(prog, C, C)
    BY <2>4, <2>5, ReachLeast
  <2>7. Reach(g, m) \in SUBSET Blocks /\ m \in Reach(g, m) /\ Closed(g, Reach(g, m))
    BY <2>1, <2>2, ReachSelf, ReachStep, ReachBlocks DEF Closed
  <2>8. Owned(prog, C, C) \subseteq Reach(g, m)
    BY <2>1, <2>7 DEF Covered
  <2> QED BY <2>3, <2>6, <2>8
<1> QED BY <1>2, <1>3, <1>5, <1>6, CallsMeant

\* Control runs through the callees, and only through them from one half to the other.
THEOREM ControlIsSpliced == InlineSpec => []ControlSpliced
<1>1. SpliceInv => ControlSpliced
  <2> SUFFICES ASSUME SpliceInv, Done PROVE ControlSpliced
    BY DEF ControlSpliced
  <2> DEFINE C == Sites(prog)
  <2>1. /\ prog \in Programs /\ InlinedCalls = C /\ Reached = Owned(prog, C, C)
        /\ FlowOk(prog, flow.succs, flow.preds, at.cur, C, C, C)
    BY AllThrough
  <2>2. Reached = {b \in Blocks : prog.graph[b] = Main}
                    \cup UNION {Inner(c) \cup {prog.spare[c]} : c \in InlinedCalls}
    BY <2>1 DEF Owned, MainBlocks, InnerOf, Inner
  <2>3. \A a, b \in Reached : b \in flow.succs[a] <=> a \in flow.preds[b]
    BY <2>1 DEF FlowOk, Mirrored
  <2>4. ASSUME NEW c \in C
        PROVE  prog.spare[c] \notin ReachIn([b \in Blocks |-> IF b \in ExitBlocks(c) THEN {} ELSE flow.succs[b]],
                                            prog.root[Main])
    <3> DEFINE cut == [b \in Blocks |-> IF b \in ExitBlocks(c) THEN {} ELSE flow.succs[b]]
               S == Blocks \ {prog.spare[c]}
    <3>1. flow.succs \in [Blocks -> SUBSET Blocks] /\ Halves(prog, flow.succs, flow.preds, C)
      BY <2>1 DEF FlowOk
    <3>2. cut \in [Blocks -> SUBSET Blocks] /\ prog.root[Main] \in S
      BY <2>1, <3>1, MainShape, SpareShape DEF MainBlocks
    <3>3. Closed(cut, S)
      <4> SUFFICES ASSUME NEW a \in S, NEW b \in cut[a], b = prog.spare[c] PROVE FALSE
        BY <3>2 DEF Closed
      <4>1. b \in flow.succs[a] /\ a \notin ExitBlocks(c)
        OBVIOUS
      <4> QED BY <4>1, <3>1 DEF Halves, ExitBlocks, ExitsOf
    <3> HIDE DEF cut, S
    <3>4. ReachIn(cut, prog.root[Main]) \subseteq S
      BY <3>2, <3>3, ReachInIsReach, ReachLeast DEF S
    <3> QED BY <3>4 DEF S, cut
  <2> QED BY <2>1, <2>2, <2>3, <2>4 DEF ControlSpliced
<1> QED BY <1>1, SpliceInvHolds, PTL

\* Whichever callees: the caller owns what it has inlined but for at most one
\* block for each call, and no two blocks it owns have the same id.
THEOREM BlocksAreAdopted == InlineSpec => []BlocksAdopted
<1>1. SpliceInv => BlocksAdopted
  <2> SUFFICES ASSUME SpliceInv, Done PROVE BlocksAdopted
    BY DEF BlocksAdopted
  <2> DEFINE C == Sites(prog)
             ids == flow.id
  <2>1. /\ prog \in Programs /\ InlinedCalls = C /\ Reached = Owned(prog, C, C)
        /\ AdoptOk(prog, flow.graph, ids, C, C) /\ Distinct(prog, C)
    BY AllThrough DEF FlowOk
  <2>2. ASSUME NEW c \in InlinedCalls
        PROVE  \E l \in Inner(c) \cup {prog.end[prog.callee[c]]} :
                 /\ flow.graph[l] = prog.callee[c]
                 /\ \A s \in prog.succs[l] : l \in ReachIn(prog.succs, s)
                 /\ \A b \in Inner(c) \ {l} : flow.graph[b] = Main /\ ids[b] = Unset
    <3>1. LeftBehind(prog, flow.graph, c)
      BY <2>1, <2>2 DEF AdoptOk
    <3>2. PICK l \in InnerOf(prog, c) \cup {EndOf(prog, c)} :
            /\ flow.graph[l] = prog.callee[c] /\ OnlyBack(prog, l)
            /\ \A b \in InnerOf(prog, c) \ {l} : flow.graph[b] = Main
      BY <3>1 DEF LeftBehind
    <3>3. InnerOf(prog, c) \cup {EndOf(prog, c)} \subseteq Foreign(prog)
      BY <2>1, <2>2, InnerShape
    <3>4. \A b \in InnerOf(prog, c) \ {l} : ids[b] = Unset
      BY <2>1, <3>2, <3>3 DEF AdoptOk
    <3>5. ASSUME NEW s \in prog.succs[l] PROVE l \in ReachIn(prog.succs, s)
      <4>1. prog.succs \in [Blocks -> SUBSET Blocks] /\ l \in Blocks
        BY <2>1, <3>2, <3>3, ProgramTypes DEF Foreign
      <4>2. ReachIn(prog.succs, s) = Reach(prog.succs, s)
        BY <4>1, ReachInIsReach
      <4> QED BY <4>2, <3>2 DEF OnlyBack
    <3> QED BY <3>2, <3>4, <3>5 DEF InnerOf, EndOf, Inner
  <2>3. \A b \in {x \in Blocks : prog.graph[x] = Main} \cup {prog.spare[c] : c \in InlinedCalls} :
          flow.graph[b] = Main
    BY <2>1 DEF AdoptOk, MainBlocks
  <2>4. ASSUME NEW x \in Reached, flow.graph[x] = Main, ids[x] # Unset
        PROVE  x \in MainBlocks(prog) /\ ids[x] = prog.id[x]
    <3>1. x \in Blocks /\ ids[x] = prog.id[x]
      BY <2>1, <2>4, OwnedBlocks DEF AdoptOk
    <3>2. \A c \in C : x # prog.spare[c]
      BY <2>1, <2>4, <3>1, SpareShape
    <3>3. \A c \in C : x \notin InnerOf(prog, c)
      BY <2>1, <2>4, InnerShape DEF AdoptOk
    <3> QED BY <2>1, <3>1, <3>2, <3>3 DEF Owned
  <2>5. ASSUME NEW a \in {x \in Reached : flow.graph[x] = Main},
               NEW b \in {x \in Reached : flow.graph[x] = Main}, ids[a] = ids[b]
        PROVE  a = b \/ ids[a] = Unset
    <3> SUFFICES ASSUME ids[a] # Unset PROVE a = b
      OBVIOUS
    <3>1. /\ a \in MainBlocks(prog) /\ b \in MainBlocks(prog)
          /\ prog.id[a] = prog.id[b] /\ prog.id[a] # Unset
      BY <2>4, <2>5
    <3> QED BY <3>1, <2>1, MainShape
  <2> QED BY <2>2, <2>3, <2>5 DEF BlocksAdopted
<1> QED BY <1>1, SpliceInvHolds, PTL

(***************************************************************************)
(* The lists of instructions, as c of the record the variable code holds.  *)
(* D are the calls that are through, H those whose block is split and K    *)
(* the exits that have lost their last instruction.                        *)
(***************************************************************************)
LastOf(p, b) == IF p.list[b] = << >> THEN NoInstr ELSE p.list[b][Len(p.list[b])]
RetsOf(p, d) == {b \in ExitsOf(p, d) : p.list[b] # << >> /\ p.op[LastOf(p, b)] = "RET"}
Merges(p, d) == Cardinality(RetsOf(p, d)) > 1
IsSpare(p, b) == \E d \in Sites(p) : b = p.spare[d]

Shaped(c) == /\ c.list \in [Blocks -> Seq(Instrs)] /\ DOMAIN c.last = Blocks
             /\ c = [list |-> c.list, last |-> c.last, home |-> c.home]
OnePlace(c) == \A a, b \in Blocks : \A j \in 1 .. Len(c.list[a]), k \in 1 .. Len(c.list[b]) :
                 c.list[a][j] = c.list[b][k] => a = b /\ j = k
Truncated(p, c) == \A b \in Blocks : ~ IsSpare(p, b) =>
                    /\ Len(c.list[b]) <= Len(p.list[b])
                    /\ \A k \in 1 .. Len(c.list[b]) : c.list[b][k] = p.list[b][k]
Untold(p, c, K) == \A b \in Foreign(p) \ K : c.list[b] = p.list[b] /\ c.last[b] = LastOf(p, b)
Stripped(p, c, K) == \A b \in K : \A i \in Range(p.list[b]) :
                       IF i = LastOf(p, b) THEN i \in Range(c.list[b]) => p.list[b][1] = i
                                           ELSE i \in Range(c.list[b])
Seconds(p, c, D, H) == \A d \in Sites(p) : LET l == c.list[p.spare[d]] IN
                         /\ Range(l) \subseteq MainInstrs(p) \cup {p.phi[d]}
                         /\ d \notin H => l = << >>
                         /\ p.phi[d] \in Range(l) => Merges(p, d)
                         /\ d \in D /\ Merges(p, d) => p.phi[d] \in Range(l)
CallerKept(p, c, D, H) ==
  \A i \in MainInstrs(p) \ D :
    \E b \in MainBlocks(p) \cup {p.spare[d] : d \in H} : i \in Range(c.list[b])
CallsGone(p, c, D) == \A d \in D, b \in Blocks :
                        d \in Range(c.list[b]) => b \in MainBlocks(p) /\ c.list[b][1] = d
Lasts(p, c, D) == \A b \in MainBlocks(p) : LET l == c.list[b] IN
                    l = << >> \/ c.last[b] = l[Len(l)] \/ (Len(l) = 1 /\ l[1] \in D)
Homes(p, c, D) == \A i \in MainInstrs(p) \ D :
                    c.home[i] # Gone => c.home[i] \in MainBlocks(p) /\ i \in Range(c.list[c.home[i]])

CodeOk(p, c, D, H, K) ==
  /\ Shaped(c) /\ OnePlace(c) /\ Truncated(p, c) /\ Untold(p, c, K) /\ Stripped(p, c, K)
  /\ Seconds(p, c, D, H) /\ CallerKept(p, c, D, H) /\ CallsGone(p, c, D)
  /\ Lasts(p, c, D) /\ Homes(p, c, D)

\* The two halves of the block that call d splits.
Halved(p, c, cur, d, K) ==
  LET l == c.list[cur]
      s == c.list[p.spare[d]]
  IN  /\ l # << >> /\ l[Len(l)] = d /\ c.last[cur] = d
      /\ s # << >> /\ (s[1] = p.phi[d] \/ p.op[s[1]] # "PHI")
      /\ p.phi[d] \in Range(s) => s[1] = p.phi[d]
      /\ Merges(p, d) /\ (\E b \in RetsOf(p, d) : b \in K) => s[1] = p.phi[d]

LEMMA MainInstrShape ==
  ASSUME NEW p \in Programs, NEW i \in MainInstrs(p)
  PROVE  /\ i \in Instrs
         /\ \E b \in MainBlocks(p) : \E k \in 1 .. Len(p.list[b]) : i = p.list[b][k]
         /\ \A b \in Foreign(p) : i \notin Range(p.list[b])
         /\ \A d \in Sites(p) : i # p.phi[d]
<1>1. PICK b \in MainBlocks(p) : i \in Range(p.list[b])
  BY DEF MainInstrs
<1>2. b \in Blocks /\ p.list[b] \in Seq(Instrs)
  BY ProgramTypes DEF MainBlocks
<1>3. PICK k \in 1 .. Len(p.list[b]) : i = p.list[b][k]
  BY <1>1, <1>2 DEF Range
<1>4. i \in Instrs
  BY <1>2, <1>3
<1>5. \A a \in Foreign(p) : i \notin Range(p.list[a])
  <2> SUFFICES ASSUME NEW a \in Foreign(p), i \in Range(p.list[a]) PROVE FALSE
    OBVIOUS
  <2>1. a \in Blocks /\ a # b
    BY MainNotForeign DEF Foreign
  <2> QED BY <2>1, <1>1, <1>2, ProgramTypes DEF Range
<1>6. \A d \in Sites(p) : i # p.phi[d]
  BY <1>1, <1>2, SpareShape
<1> QED BY <1>3, <1>4, <1>5, <1>6

\* No block of a program is both its own and one to come.
LEMMA SpareIsNew ==
  ASSUME NEW p \in Programs, NEW b
  PROVE  /\ b \in MainBlocks(p) \/ b \in Foreign(p) => b \in Blocks /\ ~ IsSpare(p, b)
BY SpareShape DEF IsSpare, MainBlocks, Foreign

LEMMA CodeInit ==
  ASSUME NEW p \in Programs, NEW c,
         c = [list |-> c.list, last |-> c.last, home |-> c.home], c.list = p.list,
         c.last = [b \in Blocks |-> LastOf(p, b)],
         \A i \in MainInstrs(p) : c.home[i] \in MainBlocks(p) /\ i \in Range(p.list[c.home[i]])
  PROVE  CodeOk(p, c, {}, {}, {})
<1>1. p.list \in [Blocks -> Seq(Instrs)]
  BY ProgramTypes
<1>2. Shaped(c)
  BY <1>1 DEF Shaped
<1>3. OnePlace(c)
  <2>1. \A b \in Blocks : DOMAIN p.list[b] = 1 .. Len(p.list[b])
    BY <1>1
  <2> QED BY <2>1, ProgramTypes DEF OnePlace
<1>4. Truncated(p, c)
  <2>1. \A b \in Blocks : Len(p.list[b]) \in Nat
    BY <1>1
  <2> QED BY <2>1 DEF Truncated
<1>5. Untold(p, c, {})
  BY DEF Untold, Foreign
<1>6. Seconds(p, c, {}, {})
  BY SpareShape DEF Seconds, Range
<1>7. CallerKept(p, c, {}, {})
  BY DEF CallerKept, MainInstrs
<1>8. Lasts(p, c, {})
  BY DEF Lasts, MainBlocks, LastOf
<1>9. Homes(p, c, {})
  BY DEF Homes
<1> QED BY <1>2, <1>3, <1>4, <1>5, <1>6, <1>7, <1>8, <1>9 DEF CodeOk, Stripped, CallsGone

-----------------------------------------------------------------------------
\* RemoveLastInstr on a block with a last instruction.
LEMMA RemovedLast ==
  ASSUME NEW c, Shaped(c), NEW b \in Blocks, c.last[b] # NoInstr, c.list[b] # << >>
  PROVE  LET r == RemoveLastInstr(c, b)
             n == Len(c.list[b])
         IN  /\ Shaped(r) /\ r.home = c.home
             /\ \A x \in Blocks : x # b => r.list[x] = c.list[x] /\ r.last[x] = c.last[x]
             /\ n \in Nat \ {0}
             /\ Len(r.list[b]) = (IF n = 1 THEN 1 ELSE n - 1)
             /\ \A k \in 1 .. Len(r.list[b]) : r.list[b][k] = c.list[b][k]
             /\ r.last[b] = IF n = 1 THEN NoInstr ELSE c.list[b][n - 1]
<1> DEFINE r == RemoveLastInstr(c, b)
           n == Len(c.list[b])
<1>1. /\ c.list \in [Blocks -> Seq(Instrs)] /\ DOMAIN c.last = Blocks
      /\ c = [list |-> c.list, last |-> c.last, home |-> c.home]
  BY DEF Shaped
<1>2. c.list[b] \in Seq(Instrs) /\ n \in Nat \ {0}
  BY <1>1
<1>3. CASE n = 1
  <2>1. r = [list |-> c.list, last |-> [c.last EXCEPT ![b] = NoInstr], home |-> c.home]
    <3>1. r = [c EXCEPT !.last[b] = NoInstr]
      BY <1>3 DEF RemoveLastInstr
    <3> HIDE DEF r
    <3> QED BY <3>1, <1>1
  <2> HIDE DEF r
  <2>2. r.list = c.list /\ r.last = [c.last EXCEPT ![b] = NoInstr] /\ r.home = c.home
    BY <2>1
  <2> QED BY <2>1, <2>2, <1>1, <1>2, <1>3 DEF Shaped, r
<1>4. CASE n # 1
  <2> DEFINE q == SubSeq(c.list[b], 1, n - 1)
  <2>1. r = [list |-> [c.list EXCEPT ![b] = q], last |-> [c.last EXCEPT ![b] = c.list[b][n - 1]],
             home |-> c.home]
    <3>1. r = [c EXCEPT !.list[b] = SubSeq(@, 1, n - 1), !.last[b] = c.list[b][n - 1]]
      BY <1>4 DEF RemoveLastInstr
    <3> HIDE DEF r
    <3> QED BY <3>1, <1>1
  <2>2. q \in Seq(Instrs) /\ Len(q) = n - 1 /\ \A k \in 1 .. n - 1 : q[k] = c.list[b][k]
    BY <1>2, <1>4
  <2> HIDE DEF r, q, n
  <2>3. /\ r.list = [c.list EXCEPT ![b] = q] /\ r.home = c.home
        /\ r.last = [c.last EXCEPT ![b] = c.list[b][n - 1]]
    BY <2>1
  <2>4. r.list \in [Blocks -> Seq(Instrs)] /\ r.list[b] = q /\ \A x \in Blocks : x # b => r.list[x] = c.list[x]
    BY <2>2, <2>3, <1>1
  <2>5. /\ DOMAIN r.last = Blocks /\ r.last[b] = c.list[b][n - 1]
        /\ \A x \in Blocks : x # b => r.last[x] = c.last[x]
    BY <2>3, <1>1
  <2>6. Shaped(r)
    BY <2>1, <2>3, <2>4, <2>5 DEF Shaped
  <2> QED BY <2>2, <2>3, <2>4, <2>5, <2>6, <1>2, <1>4 DEF r, n
<1> QED BY <1>3, <1>4

\* SplitOn: what follows the call goes to the second half.
SplitLists(c, b, s, k, d) ==
  [list |-> [c.list EXCEPT ![b] = SubSeq(@, 1, k), ![s] = SubSeq(c.list[b], k + 1, Len(c.list[b]))],
   last |-> [c.last EXCEPT ![b] = d, ![s] = c.last[b]],
   home |-> [i \in Instrs |-> IF Slots(SubSeq(c.list[b], k + 1, Len(c.list[b])), i) # {} THEN Gone
                                                                                    ELSE c.home[i]]]

LEMMA CodeSplit ==
  ASSUME NEW p \in Programs, NEW D \in SUBSET Sites(p), NEW d \in Sites(p) \ D,
         NEW K \in SUBSET Foreign(p), \A b \in ExitsOf(p, d) : b \notin K,
         NEW c, CodeOk(p, c, D, D, K),
         NEW cur \in MainBlocks(p), c.last[cur] # d,
         NEW k \in 1 .. Len(c.list[cur]), c.list[cur][k] = d
  PROVE  /\ CodeOk(p, SplitLists(c, cur, p.spare[d], k, d), D, D \cup {d}, K)
         /\ Halved(p, SplitLists(c, cur, p.spare[d], k, d), cur, d, K)
<1> DEFINE s == p.spare[d]
           l == c.list[cur]
           n == Len(l)
           rest == SubSeq(l, k + 1, n)
           kept == SubSeq(l, 1, k)
           r == SplitLists(c, cur, s, k, d)
           H == D \cup {d}
<1>1. /\ Shaped(c) /\ OnePlace(c) /\ Truncated(p, c) /\ Untold(p, c, K) /\ Stripped(p, c, K)
      /\ Seconds(p, c, D, D) /\ CallerKept(p, c, D, D) /\ CallsGone(p, c, D)
      /\ Lasts(p, c, D) /\ Homes(p, c, D)
  BY DEF CodeOk
<1>2. /\ c.list \in [Blocks -> Seq(Instrs)] /\ DOMAIN c.last = Blocks
      /\ \A b \in Blocks : /\ c.list[b] \in Seq(Instrs) /\ Len(c.list[b]) \in Nat
                           /\ DOMAIN c.list[b] = 1 .. Len(c.list[b])
  BY <1>1 DEF Shaped
<1>3. /\ cur \in Blocks /\ ~ IsSpare(p, cur) /\ cur \notin Foreign(p)
      /\ s \in Blocks /\ IsSpare(p, s) /\ s \notin Foreign(p) /\ s \notin MainBlocks(p) /\ s # cur
      /\ \A e \in Sites(p) : e # d => p.spare[e] # s
      /\ \A e \in Sites(p) : p.spare[e] \in Blocks /\ p.spare[e] # cur
  BY SpareShape, SpareIsNew, MainNotForeign DEF IsSpare
<1>4. l \in Seq(Instrs) /\ n \in Nat /\ k \in 1 .. n /\ l[k] = d /\ c.list[s] = << >>
  BY <1>1, <1>2, <1>3 DEF Seconds
<1>5. d \in MainInstrs(p) /\ d \notin D /\ d \in Instrs /\ p.op[d] = "CALL"
  BY SitesInMain, MainInstrShape DEF Sites, CallsOf
<1>6. k < n
  <2>1. CASE n = 1 /\ l[1] \in D
    <3>1. k = 1
      BY <2>1, <1>4
    <3> QED BY <3>1, <2>1, <1>4, <1>5
  <2>2. CASE c.last[cur] = l[n]
    BY <2>2, <1>4
  <2>3. l # << >>
    BY <1>4
  <2> QED BY <2>1, <2>2, <2>3, <1>1 DEF Lasts
<1>7. /\ rest \in Seq(Instrs) /\ Len(rest) = n - k /\ \A j \in 1 .. n - k : rest[j] = l[k + j]
      /\ kept \in Seq(Instrs) /\ Len(kept) = k /\ \A j \in 1 .. k : kept[j] = l[j]
  BY <1>4, <1>6
<1>8. \A j \in 1 .. n : l[j] = p.list[cur][j] /\ l[j] \in MainInstrs(p)
  <2>1. n <= Len(p.list[cur]) /\ \A j \in 1 .. n : l[j] = p.list[cur][j]
    BY <1>1, <1>3 DEF Truncated
  <2>2. p.list[cur] \in Seq(Instrs)
    BY <1>3, ProgramTypes
  <2>3. \A j \in 1 .. n : p.list[cur][j] \in Range(p.list[cur])
    BY <1>4, <2>1, <2>2 DEF Range
  <2> QED BY <2>1, <2>3 DEF MainInstrs
<1>9. /\ r = [list |-> r.list, last |-> r.last, home |-> r.home]
      /\ r.list = [c.list EXCEPT ![cur] = kept, ![s] = rest]
      /\ r.last = [c.last EXCEPT ![cur] = d, ![s] = c.last[cur]]
      /\ r.home = [i \in Instrs |-> IF Slots(rest, i) # {} THEN Gone ELSE c.home[i]]
  BY DEF SplitLists
<1> HIDE DEF r, rest, kept, s, l, n
<1>10. /\ r.list \in [Blocks -> Seq(Instrs)] /\ r.list[cur] = kept /\ r.list[s] = rest
       /\ \A b \in Blocks : b # cur /\ b # s => r.list[b] = c.list[b]
  <2> DEFINE S == Seq(Instrs)
  <2>1. c.list \in [Blocks -> S] /\ kept \in S /\ rest \in S
    BY <1>2, <1>7
  <2> HIDE DEF S
  <2>2. /\ r.list \in [Blocks -> S] /\ r.list[cur] = kept /\ r.list[s] = rest
        /\ \A b \in Blocks : b # cur /\ b # s => r.list[b] = c.list[b]
    BY <2>1, <1>3, <1>9
  <2> QED BY <2>2 DEF S
<1>11. /\ DOMAIN r.last = Blocks /\ r.last[cur] = d
       /\ \A b \in Blocks : b # cur /\ b # s => r.last[b] = c.last[b]
  BY <1>2, <1>3, <1>9
<1>12. Shaped(r)
  BY <1>9, <1>10, <1>11 DEF Shaped
<1>13. \A b \in Blocks : r.list[b] \in Seq(Instrs) /\ Len(r.list[b]) \in Nat /\ DOMAIN r.list[b] = 1 .. Len(r.list[b])
  BY <1>10
<1>14. /\ Len(r.list[cur]) = k /\ \A j \in 1 .. k : r.list[cur][j] = l[j]
       /\ Len(r.list[s]) = n - k /\ \A j \in 1 .. n - k : r.list[s][j] = l[k + j]
  BY <1>7, <1>10
<1>15. OnePlace(r)
  <2> DEFINE B(x) == IF x = s THEN cur ELSE x
             I(x, j) == IF x = s THEN k + j ELSE j
  <2>1. ASSUME NEW x \in Blocks, NEW j \in 1 .. Len(r.list[x])
        PROVE  /\ B(x) \in Blocks /\ I(x, j) \in 1 .. Len(c.list[B(x)])
               /\ r.list[x][j] = c.list[B(x)][I(x, j)]
    <3>1. CASE x = s
      BY <3>1, <1>3, <1>4, <1>6, <1>14, SMTT(30) DEF l, n
    <3>2. CASE x = cur
      BY <3>2, <1>3, <1>4, <1>6, <1>14 DEF l, n
    <3>3. CASE x # s /\ x # cur
      BY <3>3, <1>10
    <3> QED BY <3>1, <3>2, <3>3
  <2>2. ASSUME NEW a \in Blocks, NEW b \in Blocks, NEW i \in 1 .. Len(r.list[a]), NEW j \in 1 .. Len(r.list[b]),
               r.list[a][i] = r.list[b][j]
        PROVE  a = b /\ i = j
    <3>1. B(a) = B(b) /\ I(a, i) = I(b, j)
      <4>1. c.list[B(a)][I(a, i)] = c.list[B(b)][I(b, j)]
        BY <2>1, <2>2
      <4> HIDE DEF B, I
      <4> QED BY <4>1, <2>1, <1>1, SMTT(30) DEF OnePlace
    <3>2. i \in Nat /\ j \in Nat /\ k \in Nat /\ i >= 1 /\ j >= 1
      BY <1>4, <1>13
    <3>3. (a = cur => i <= k) /\ (b = cur => j <= k)
      BY <1>14
    <3> QED BY <3>1, <3>2, <3>3
  <2> QED BY <2>2 DEF OnePlace
<1>16. Truncated(p, r)
  <2> SUFFICES ASSUME NEW b \in Blocks, ~ IsSpare(p, b)
               PROVE  Len(r.list[b]) <= Len(p.list[b]) /\ \A j \in 1 .. Len(r.list[b]) : r.list[b][j] = p.list[b][j]
    BY DEF Truncated
  <2>1. b # s /\ Len(c.list[b]) <= Len(p.list[b]) /\ \A j \in 1 .. Len(c.list[b]) : c.list[b][j] = p.list[b][j]
    BY <1>1, <1>3 DEF Truncated
  <2>2. CASE b = cur
    <3>1. Len(p.list[b]) \in Nat
      BY ProgramTypes
    <3> QED BY <2>1, <2>2, <3>1, <1>4, <1>6, <1>8, <1>14 DEF l, n
  <2>3. CASE b # cur
    BY <2>1, <2>3, <1>10
  <2> QED BY <2>2, <2>3
<1>17. \A b \in Foreign(p) : b \in Blocks /\ r.list[b] = c.list[b] /\ r.last[b] = c.last[b]
  BY <1>3, <1>10, <1>11 DEF Foreign
<1>18. Untold(p, r, K) /\ Stripped(p, r, K)
  BY <1>1, <1>17 DEF Untold, Stripped
<1>19. Seconds(p, r, D, H)
  <2> SUFFICES ASSUME NEW e \in Sites(p)
               PROVE  /\ Range(r.list[p.spare[e]]) \subseteq MainInstrs(p) \cup {p.phi[e]}
                      /\ e \notin H => r.list[p.spare[e]] = << >>
                      /\ p.phi[e] \in Range(r.list[p.spare[e]]) => Merges(p, e)
                      /\ e \in D /\ Merges(p, e) => p.phi[e] \in Range(r.list[p.spare[e]])
    BY DEF Seconds
  <2>1. CASE e = d
    <3>1. Range(r.list[s]) \subseteq MainInstrs(p)
      <4> SUFFICES ASSUME NEW j \in 1 .. n - k PROVE r.list[s][j] \in MainInstrs(p)
        BY <1>3, <1>13, <1>14 DEF Range
      <4>1. k + j \in 1 .. n
        BY <1>4, <1>6
      <4> QED BY <4>1, <1>8, <1>14
    <3>2. p.phi[d] \notin MainInstrs(p)
      BY MainInstrShape
    <3> QED BY <2>1, <3>1, <3>2, <1>5 DEF s
  <2>2. CASE e # d
    <3>1. r.list[p.spare[e]] = c.list[p.spare[e]]
      BY <2>2, <1>3, <1>10
    <3> QED BY <2>2, <3>1, <1>1 DEF Seconds
  <2> QED BY <2>1, <2>2
<1>20. CallerKept(p, r, D, H)
  <2> SUFFICES ASSUME NEW i \in MainInstrs(p) \ D
               PROVE  \E b \in MainBlocks(p) \cup {p.spare[e] : e \in H} : i \in Range(r.list[b])
    BY DEF CallerKept
  <2>1. PICK b \in MainBlocks(p) \cup {p.spare[e] : e \in D} : i \in Range(c.list[b])
    BY <1>1 DEF CallerKept
  <2>2. CASE b = cur
    <3>1. PICK j \in 1 .. n : i = l[j]
      BY <2>1, <2>2, <1>2, <1>3 DEF l, n, Range
    <3>2. CASE j <= k
      <4>1. j \in DOMAIN r.list[cur] /\ r.list[cur][j] = i
        BY <3>1, <3>2, <1>3, <1>4, <1>13, <1>14
      <4> QED BY <4>1 DEF Range
    <3>3. CASE j > k
      <4>1. j - k \in DOMAIN r.list[s] /\ r.list[s][j - k] = i
        BY <3>1, <3>3, <1>3, <1>4, <1>13, <1>14
      <4> QED BY <4>1 DEF Range, s
    <3> QED BY <3>2, <3>3, <1>4
  <2>3. CASE b # cur
    <3>1. b \in Blocks /\ b # s
      <4>1. b \in Blocks
        BY <2>1, <1>3 DEF MainBlocks
      <4>2. c.list[b] # << >>
        BY <2>1 DEF Range
      <4> QED BY <4>1, <4>2, <1>4
    <3>2. r.list[b] = c.list[b]
      BY <2>3, <3>1, <1>10
    <3> QED BY <2>1, <3>2
  <2> QED BY <2>2, <2>3
<1>21. CallsGone(p, r, D)
  <2> SUFFICES ASSUME NEW e \in D, NEW b \in Blocks, e \in Range(r.list[b])
               PROVE  b \in MainBlocks(p) /\ r.list[b][1] = e
    BY DEF CallsGone
  <2>1. PICK j \in 1 .. Len(r.list[b]) : r.list[b][j] = e
    BY <1>13 DEF Range
  <2>2. ASSUME NEW i \in 1 .. n, l[i] = e PROVE i = 1 /\ l[1] = e
    <3>1. e \in Range(l)
      BY <2>2, <1>2, <1>3 DEF Range, l, n
    <3>2. l[1] = e
      BY <3>1, <1>1, <1>3 DEF CallsGone, l
    <3>3. 1 \in 1 .. n /\ l[1] = l[i]
      BY <2>2, <3>2, <1>4
    <3> QED BY <3>2, <3>3, <2>2, <1>1, <1>3 DEF OnePlace, l, n
  <2>3. CASE b = cur
    BY <2>1, <2>2, <2>3, <1>4, <1>6, <1>14, SMTT(30)
  <2>4. CASE b = s
    <3>1. k + j \in 1 .. n /\ l[k + j] = e /\ k + j # 1
      BY <2>1, <2>4, <1>4, <1>6, <1>14
    <3> QED BY <3>1, <2>2
  <2>5. CASE b # cur /\ b # s
    BY <2>5, <1>1, <1>10 DEF CallsGone
  <2> QED BY <2>3, <2>4, <2>5
<1>22. Lasts(p, r, D)
  <2> SUFFICES ASSUME NEW b \in MainBlocks(p)
               PROVE  \/ r.list[b] = << >> \/ r.last[b] = r.list[b][Len(r.list[b])]
                      \/ Len(r.list[b]) = 1 /\ r.list[b][1] \in D
    BY DEF Lasts
  <2>1. CASE b = cur
    BY <2>1, <1>4, <1>11, <1>14
  <2>2. CASE b # cur
    <3>1. r.list[b] = c.list[b] /\ r.last[b] = c.last[b]
      BY <2>2, <1>3, <1>10, <1>11 DEF MainBlocks
    <3> QED BY <3>1, <1>1 DEF Lasts
  <2> QED BY <2>1, <2>2
<1>23. Homes(p, r, D)
  <2> SUFFICES ASSUME NEW i \in MainInstrs(p) \ D, r.home[i] # Gone
               PROVE  r.home[i] \in MainBlocks(p) /\ i \in Range(r.list[r.home[i]])
    BY DEF Homes
  <2>1. r.home[i] = c.home[i] /\ Slots(rest, i) = {}
    BY <1>9, MainInstrShape
  <2> DEFINE h == c.home[i]
  <2>2. h \in MainBlocks(p) /\ i \in Range(c.list[h])
    BY <2>1, <1>1 DEF Homes
  <2> HIDE DEF h
  <2>3. CASE h = cur
    <3>1. PICK j \in 1 .. n : i = l[j]
      BY <2>2, <2>3, <1>2, <1>3 DEF l, n, Range
    <3>2. j <= k
      <4> SUFFICES ASSUME j > k PROVE FALSE
        BY <1>4
      <4>1. j - k \in 1 .. n - k /\ rest[j - k] = i
        BY <3>1, <1>4, <1>10, <1>14
      <4>2. j - k \in DOMAIN rest
        BY <4>1, <1>3, <1>10, <1>13, <1>14
      <4> QED BY <4>1, <4>2, <2>1 DEF Slots
    <3>3. j \in DOMAIN r.list[cur] /\ r.list[cur][j] = i
      BY <3>1, <3>2, <1>3, <1>4, <1>13, <1>14
    <3> QED BY <2>1, <2>2, <2>3, <3>3 DEF Range, h
  <2>4. CASE h # cur
    <3>1. r.list[h] = c.list[h]
      BY <2>2, <2>4, <1>3, <1>10 DEF MainBlocks
    <3> QED BY <2>1, <2>2, <3>1 DEF h
  <2> QED BY <2>3, <2>4
<1>24. Halved(p, r, cur, d, K)
  <2>1. r.list[cur] # << >> /\ r.list[cur][Len(r.list[cur])] = d /\ r.last[cur] = d
    <3>1. k \in 1 .. k /\ Len(r.list[cur]) # 0
      BY <1>4, <1>14
    <3>2. r.list[cur] # << >>
      BY <3>1
    <3>3. r.list[cur][Len(r.list[cur])] = d
      BY <3>1, <1>4, <1>14
    <3> QED BY <3>2, <3>3, <1>11
  <2>2. r.list[s] # << >> /\ r.list[s][1] = l[k + 1]
    BY <1>4, <1>6, <1>14
  <2>3. p.op[l[k + 1]] # "PHI"
    <3>1. n <= Len(p.list[cur]) /\ Len(p.list[cur]) \in Nat
      <4>1. p.list[cur] \in Seq(Instrs)
        BY <1>3, ProgramTypes
      <4> QED BY <4>1, <1>1, <1>3 DEF Truncated, n, l
    <3>2. k + 1 \in 2 .. Len(p.list[cur]) /\ (k + 1) - 1 = k
      BY <3>1, <1>4, <1>6
    <3>3. p.op[p.list[cur][(k + 1) - 1]] = "CALL"
      BY <3>2, <1>4, <1>5, <1>8
    <3>4. p.op[p.list[cur][k + 1]] # "PHI"
      BY <3>2, <3>3, MainShape
    <3> QED BY <3>4, <1>4, <1>6, <1>8
  <2>4. \A b \in RetsOf(p, d) : b \notin K
    BY DEF RetsOf
  <2>5. p.phi[d] \notin Range(r.list[s])
    <3>1. Range(r.list[s]) \subseteq MainInstrs(p)
      <4> SUFFICES ASSUME NEW j \in 1 .. n - k PROVE r.list[s][j] \in MainInstrs(p)
        BY <1>3, <1>13, <1>14 DEF Range
      <4>1. k + j \in 1 .. n
        BY <1>4, <1>6
      <4> QED BY <4>1, <1>8, <1>14
    <3> QED BY <3>1, MainInstrShape
  <2> QED BY <2>1, <2>2, <2>3, <2>4, <2>5 DEF Halved, s
<1> QED BY <1>12, <1>15, <1>16, <1>18, <1>19, <1>20, <1>21, <1>22, <1>23, <1>24 DEF CodeOk, r, s

\* When lists lose instructions at their ends, the rest stays in its place.
LEMMA ShorterLists ==
  ASSUME NEW p \in Programs, NEW c, NEW r, Shaped(c), Shaped(r), OnePlace(c), Truncated(p, c),
         \A b \in Blocks : /\ Len(r.list[b]) <= Len(c.list[b])
                           /\ \A k \in 1 .. Len(r.list[b]) : r.list[b][k] = c.list[b][k]
  PROVE  /\ OnePlace(r) /\ Truncated(p, r)
         /\ \A b \in Blocks : Range(r.list[b]) \subseteq Range(c.list[b])
<1>1. \A b \in Blocks : /\ Len(c.list[b]) \in Nat /\ DOMAIN c.list[b] = 1 .. Len(c.list[b])
                        /\ Len(r.list[b]) \in Nat /\ DOMAIN r.list[b] = 1 .. Len(r.list[b])
                        /\ Len(p.list[b]) \in Nat
  BY ProgramTypes DEF Shaped
<1>2. \A b \in Blocks : \A k \in 1 .. Len(r.list[b]) : k \in 1 .. Len(c.list[b]) /\ r.list[b][k] = c.list[b][k]
  BY <1>1
<1>3. OnePlace(r)
  BY <1>2 DEF OnePlace
<1>4. Truncated(p, r)
  <2> SUFFICES ASSUME NEW b \in Blocks, ~ IsSpare(p, b)
               PROVE  /\ Len(r.list[b]) <= Len(p.list[b])
                      /\ \A k \in 1 .. Len(r.list[b]) : r.list[b][k] = p.list[b][k]
    BY DEF Truncated
  <2>1. /\ Len(c.list[b]) <= Len(p.list[b])
        /\ \A k \in 1 .. Len(c.list[b]) : c.list[b][k] = p.list[b][k]
    BY DEF Truncated
  <2>2. Len(r.list[b]) <= Len(p.list[b])
    BY <1>1, <2>1, SMTT(30)
  <2>3. \A k \in 1 .. Len(r.list[b]) : r.list[b][k] = p.list[b][k]
    BY <1>2, <2>1
  <2> QED BY <2>2, <2>3
<1>5. \A b \in Blocks : Range(r.list[b]) \subseteq Range(c.list[b])
  BY <1>1, <1>2 DEF Range
<1> QED BY <1>3, <1>4, <1>5

\* An exit loses its last instruction.
LEMMA CodeStrip ==
  ASSUME NEW p \in Programs, NEW D \in SUBSET Sites(p), NEW H \in SUBSET Sites(p),
         NEW d \in Sites(p), NEW K \in SUBSET Foreign(p), NEW c, CodeOk(p, c, D, H, K),
         NEW cur \in MainBlocks(p), Halved(p, c, cur, d, K),
         NEW b \in Foreign(p) \ K, p.list[b] # << >>,
         Merges(p, d) /\ b \in RetsOf(p, d) => c.list[p.spare[d]][1] = p.phi[d]
  PROVE  /\ CodeOk(p, RemoveLastInstr(c, b), D, H, K \cup {b})
         /\ Halved(p, RemoveLastInstr(c, b), cur, d, K \cup {b})
<1> DEFINE r == RemoveLastInstr(c, b)
           n == Len(c.list[b])
<1>1. /\ Shaped(c) /\ OnePlace(c) /\ Truncated(p, c) /\ Untold(p, c, K) /\ Stripped(p, c, K)
      /\ Seconds(p, c, D, H) /\ CallerKept(p, c, D, H) /\ CallsGone(p, c, D)
      /\ Lasts(p, c, D) /\ Homes(p, c, D)
  BY DEF CodeOk
<1>2. /\ b \in Blocks /\ ~ IsSpare(p, b) /\ b \notin MainBlocks(p)
      /\ c.list[b] = p.list[b] /\ p.list[b] \in Seq(Instrs) /\ c.last[b] = p.list[b][n]
      /\ LastOf(p, b) = p.list[b][n] /\ n \in Nat \ {0}
  <2>1. b \in Blocks /\ ~ IsSpare(p, b) /\ b \notin MainBlocks(p)
    BY SpareIsNew, MainNotForeign
  <2>2. c.list[b] = p.list[b] /\ p.list[b] \in Seq(Instrs) /\ c.last[b] = LastOf(p, b)
    BY <2>1, <1>1, ProgramTypes DEF Untold
  <2> QED BY <2>1, <2>2 DEF LastOf
<1>3. c.last[b] # NoInstr
  BY <1>2, NamesAssumption
<1>4. /\ Shaped(r) /\ r.home = c.home
      /\ \A x \in Blocks : x # b => r.list[x] = c.list[x] /\ r.last[x] = c.last[x]
      /\ Len(r.list[b]) = (IF n = 1 THEN 1 ELSE n - 1)
      /\ \A k \in 1 .. Len(r.list[b]) : r.list[b][k] = c.list[b][k]
  BY <1>1, <1>2, <1>3, RemovedLast, SMTT(30)
<1> HIDE DEF r
<1>5. \A x \in Blocks : /\ Len(r.list[x]) <= Len(c.list[x])
                        /\ \A k \in 1 .. Len(r.list[x]) : r.list[x][k] = c.list[x][k]
  <2> SUFFICES ASSUME NEW x \in Blocks
               PROVE  Len(r.list[x]) <= Len(c.list[x]) /\ \A k \in 1 .. Len(r.list[x]) : r.list[x][k] = c.list[x][k]
    OBVIOUS
  <2>1. CASE x = b
    BY <2>1, <1>2, <1>4
  <2>2. CASE x # b
    <3>1. Len(c.list[x]) \in Nat
      BY <1>1 DEF Shaped
    <3> QED BY <2>2, <3>1, <1>4
  <2> QED BY <2>1, <2>2
<1>6. /\ OnePlace(r) /\ Truncated(p, r)
      /\ \A x \in Blocks : Range(r.list[x]) \subseteq Range(c.list[x])
  BY <1>1, <1>4, <1>5, ShorterLists
<1>7. \A x \in MainBlocks(p) : r.list[x] = c.list[x] /\ r.last[x] = c.last[x] /\ x \in Blocks
  BY <1>2, <1>4 DEF MainBlocks
<1>8. \A e \in Sites(p) : r.list[p.spare[e]] = c.list[p.spare[e]]
  BY <1>2, <1>4, SpareShape DEF IsSpare
<1>9. Untold(p, r, K \cup {b})
  BY <1>1, <1>4 DEF Untold, Foreign
<1>10. Stripped(p, r, K \cup {b})
  <2> SUFFICES ASSUME NEW x \in K \cup {b}, NEW i \in Range(p.list[x])
               PROVE  IF i = LastOf(p, x) THEN i \in Range(r.list[x]) => p.list[x][1] = i
                                          ELSE i \in Range(r.list[x])
    BY DEF Stripped
  <2>1. CASE x # b
    <3>1. r.list[x] = c.list[x]
      BY <2>1, <1>4 DEF Foreign
    <3> QED BY <2>1, <3>1, <1>1 DEF Stripped
  <2>2. CASE x = b
    <3>1. PICK j \in 1 .. n : i = p.list[b][j]
      BY <2>2, <1>2 DEF Range
    <3>2. DOMAIN r.list[b] = 1 .. Len(r.list[b]) /\ Len(r.list[b]) \in Nat
      BY <1>2, <1>4 DEF Shaped
    <3>3. CASE i = LastOf(p, b)
      <4> SUFFICES ASSUME i \in Range(r.list[b]) PROVE p.list[b][1] = i
        BY <2>2, <3>3
      <4>1. PICK m \in 1 .. Len(r.list[b]) : r.list[b][m] = i
        BY <3>2 DEF Range
      <4>2. m \in 1 .. n /\ p.list[b][m] = p.list[b][n]
        BY <4>1, <3>3, <1>2, <1>4
      <4>3. m = n
        BY <4>2, <1>2, ProgramTypes
      <4> QED BY <4>1, <4>2, <4>3, <3>3, <1>2, <1>4
    <3>4. CASE i # LastOf(p, b)
      <4>1. j # n
        BY <3>1, <3>4, <1>2
      <4>2. j \in 1 .. Len(r.list[b]) /\ r.list[b][j] = i
        BY <4>1, <3>1, <1>2, <1>4
      <4> QED BY <4>2, <3>2, <3>4, <2>2 DEF Range
    <3> QED BY <2>2, <3>3, <3>4
  <2> QED BY <2>1, <2>2
<1>11. Seconds(p, r, D, H)
  BY <1>1, <1>8 DEF Seconds
<1>12. CallerKept(p, r, D, H)
  <2>1. \A x \in MainBlocks(p) \cup {p.spare[e] : e \in H} : r.list[x] = c.list[x]
    BY <1>7, <1>8
  <2> QED BY <2>1, <1>1 DEF CallerKept
<1>13. CallsGone(p, r, D)
  BY <1>1, <1>6, <1>7 DEF CallsGone
<1>14. Lasts(p, r, D)
  BY <1>1, <1>7 DEF Lasts
<1>15. Homes(p, r, D)
  BY <1>1, <1>4, <1>7 DEF Homes
<1>16. Halved(p, r, cur, d, K \cup {b})
  BY <1>7, <1>8 DEF Halved
<1> QED BY <1>4, <1>6, <1>9, <1>10, <1>11, <1>12, <1>13, <1>14, <1>15, <1>16 DEF CodeOk, r

\* The second half gets its PHI.
LEMMA CodeFront ==
  ASSUME NEW p \in Programs, NEW D \in SUBSET Sites(p), NEW H \in SUBSET Sites(p),
         NEW d \in H \ D, Merges(p, d), NEW K \in SUBSET Foreign(p), NEW c, CodeOk(p, c, D, H, K),
         NEW cur \in MainBlocks(p), Halved(p, c, cur, d, K)
  PROVE  /\ CodeOk(p, InFront(c, p.spare[d], p.phi[d]), D, H, K)
         /\ Halved(p, InFront(c, p.spare[d], p.phi[d]), cur, d, K)
         /\ InFront(c, p.spare[d], p.phi[d]).list[p.spare[d]][1] = p.phi[d]
<1> DEFINE s == p.spare[d]
           f == p.phi[d]
           l == c.list[s]
           r == InFront(c, s, f)
           m == <<f>> \o l
<1>1. /\ Shaped(c) /\ OnePlace(c) /\ Truncated(p, c) /\ Untold(p, c, K) /\ Stripped(p, c, K)
      /\ Seconds(p, c, D, H) /\ CallerKept(p, c, D, H) /\ CallsGone(p, c, D)
      /\ Lasts(p, c, D) /\ Homes(p, c, D)
  BY DEF CodeOk
<1>2. /\ c.list \in [Blocks -> Seq(Instrs)]
      /\ \A b \in Blocks : /\ c.list[b] \in Seq(Instrs) /\ Len(c.list[b]) \in Nat
                           /\ DOMAIN c.list[b] = 1 .. Len(c.list[b])
  BY <1>1 DEF Shaped
<1>3. /\ s \in Blocks /\ s \notin MainBlocks(p) /\ s \notin Foreign(p) /\ IsSpare(p, s) /\ f \in Instrs
      /\ \A b \in Blocks : f \notin Range(p.list[b])
      /\ \A e \in Sites(p) : e # d => p.spare[e] # s /\ p.phi[e] # f
      /\ \A e \in Sites(p) : p.spare[e] \in Blocks
  BY SpareShape DEF IsSpare
<1>4. l \in Seq(Instrs) /\ l # << >> /\ Head(l) = l[1] /\ Len(l) \in Nat
  BY <1>2, <1>3 DEF Halved
<1>5. CASE Head(l) = f
  <2>1. r = c
    BY <1>5 DEF InFront
  <2> QED BY <2>1, <1>4, <1>5
<1>6. CASE Head(l) # f
  <2>1. f \notin Range(l)
    BY <1>4, <1>6 DEF Halved
  <2>2. /\ m \in Seq(Instrs) /\ Len(m) = Len(l) + 1 /\ m[1] = f
        /\ \A j \in 2 .. Len(m) : m[j] = l[j - 1]
    BY <1>3, <1>4
  <2>3. r = [c EXCEPT !.list[s] = m]
    BY <1>6 DEF InFront
  <2> HIDE DEF r, m, s, f, l
  <2>4. /\ r.list = [c.list EXCEPT ![s] = m] /\ r.last = c.last /\ r.home = c.home
        /\ r = [list |-> r.list, last |-> r.last, home |-> r.home]
    BY <2>3, <1>1 DEF Shaped
  <2>5. r.list \in [Blocks -> Seq(Instrs)] /\ r.list[s] = m /\ \A b \in Blocks : b # s => r.list[b] = c.list[b]
    <3> DEFINE S == Seq(Instrs)
    <3>1. c.list \in [Blocks -> S] /\ m \in S
      BY <1>2, <2>2
    <3> HIDE DEF S
    <3>2. r.list \in [Blocks -> S] /\ r.list[s] = m /\ \A b \in Blocks : b # s => r.list[b] = c.list[b]
      BY <3>1, <2>4, <1>3
    <3> QED BY <3>2 DEF S
  <2>6. Shaped(r)
    BY <2>4, <2>5, <1>1 DEF Shaped
  <2>7. \A b \in Blocks : b # s => f \notin Range(c.list[b])
    <3> SUFFICES ASSUME NEW b \in Blocks, b # s, f \in Range(c.list[b]) PROVE FALSE
      OBVIOUS
    <3>1. CASE IsSpare(p, b)
      <4>1. PICK e \in Sites(p) : b = p.spare[e]
        BY <3>1 DEF IsSpare
      <4>2. f \in MainInstrs(p) \/ f = p.phi[e]
        BY <4>1, <1>1 DEF Seconds
      <4> QED BY <4>1, <4>2, <1>3, MainInstrShape DEF f, s
    <3>2. CASE ~ IsSpare(p, b)
      <4>1. PICK j \in 1 .. Len(c.list[b]) : c.list[b][j] = f
        BY <1>2 DEF Range
      <4>2. j \in 1 .. Len(p.list[b]) /\ p.list[b][j] = f /\ p.list[b] \in Seq(Instrs)
        BY <4>1, <3>2, <1>1, <1>2, ProgramTypes DEF Truncated
      <4> QED BY <4>2, <1>3 DEF Range
    <3> QED BY <3>1, <3>2
  <2>8. \A b \in Blocks : Len(r.list[b]) \in Nat /\ DOMAIN r.list[b] = 1 .. Len(r.list[b])
    BY <2>5
  <2>9. OnePlace(r)
    <3>1. ASSUME NEW x \in Blocks, NEW j \in 1 .. Len(r.list[x])
          PROVE  \/ x = s /\ j = 1 /\ r.list[x][j] = f
                 \/ x = s /\ j - 1 \in 1 .. Len(c.list[x]) /\ r.list[x][j] = c.list[x][j - 1] /\ r.list[x][j] # f
                 \/ x # s /\ j \in 1 .. Len(c.list[x]) /\ r.list[x][j] = c.list[x][j] /\ r.list[x][j] # f
      <4>1. CASE x = s /\ j = 1
        BY <4>1, <2>2, <2>5
      <4>2. CASE x = s /\ j # 1
        <5>1. j - 1 \in 1 .. Len(l) /\ r.list[x][j] = l[j - 1]
          BY <4>2, <1>4, <2>2, <2>5
        <5>2. l[j - 1] # f
          BY <5>1, <2>1, <1>4 DEF Range
        <5> QED BY <4>2, <5>1, <5>2 DEF l
      <4>3. CASE x # s
        <5>1. j \in 1 .. Len(c.list[x]) /\ r.list[x][j] = c.list[x][j]
          BY <4>3, <2>5
        <5>2. c.list[x][j] # f
          BY <4>3, <5>1, <2>7, <1>2 DEF Range
        <5> QED BY <4>3, <5>1, <5>2
      <4> QED BY <4>1, <4>2, <4>3
    <3>2. ASSUME NEW a \in Blocks, NEW b \in Blocks, NEW i \in 1 .. Len(r.list[a]), NEW j \in 1 .. Len(r.list[b]),
                 r.list[a][i] = r.list[b][j]
          PROVE  a = b /\ i = j
      <4>1. CASE a = s /\ i = 1
        BY <4>1, <3>1, <3>2
      <4>2. CASE b = s /\ j = 1
        BY <4>2, <3>1, <3>2
      <4>3. CASE ~ (a = s /\ i = 1) /\ ~ (b = s /\ j = 1)
        <5> DEFINE u == IF a = s THEN i - 1 ELSE i
                   v == IF b = s THEN j - 1 ELSE j
        <5>1. u \in 1 .. Len(c.list[a]) /\ r.list[a][i] = c.list[a][u]
          BY <4>3, <3>1
        <5>2. v \in 1 .. Len(c.list[b]) /\ r.list[b][j] = c.list[b][v]
          BY <4>3, <3>1
        <5>3. a = b /\ u = v
          <6> HIDE DEF u, v
          <6>1. c.list[a][u] = c.list[b][v]
            BY <5>1, <5>2, <3>2
          <6>2. u \in 1 .. Len(c.list[a]) /\ v \in 1 .. Len(c.list[b])
            BY <5>1, <5>2
          <6> QED BY <6>1, <6>2, <1>1 DEF OnePlace
        <5>4. i \in Int /\ j \in Int
          OBVIOUS
        <5> QED BY <5>3, <5>4
      <4> QED BY <4>1, <4>2, <4>3
    <3> QED BY <3>2 DEF OnePlace
  <2>10. Truncated(p, r)
    <3>1. \A b \in Blocks : ~ IsSpare(p, b) => r.list[b] = c.list[b]
      BY <2>5, <1>3
    <3> QED BY <3>1, <1>1 DEF Truncated
  <2>11. /\ \A b \in Foreign(p) : r.list[b] = c.list[b] /\ r.last[b] = c.last[b]
         /\ \A b \in MainBlocks(p) : r.list[b] = c.list[b] /\ r.last[b] = c.last[b]
         /\ \A e \in Sites(p) : e # d => r.list[p.spare[e]] = c.list[p.spare[e]]
    BY <2>4, <2>5, <1>3 DEF Foreign, MainBlocks
  <2>12. Untold(p, r, K) /\ Stripped(p, r, K) /\ Lasts(p, r, D) /\ Homes(p, r, D)
    BY <2>4, <2>11, <1>1, SMTT(30) DEF Untold, Stripped, Lasts, Homes
  <2>13. \A x : x \in Range(r.list[s]) <=> x = f \/ x \in Range(l)
    <3> SUFFICES ASSUME NEW x PROVE x \in Range(m) <=> x = f \/ x \in Range(l)
      BY <2>5
    <3>1. DOMAIN m = 1 .. Len(l) + 1 /\ DOMAIN l = 1 .. Len(l)
      BY <2>2, <1>4
    <3>2. ASSUME NEW j \in 1 .. Len(l) + 1 PROVE m[j] = f \/ m[j] \in Range(l)
      <4>1. CASE j = 1
        BY <4>1, <2>2
      <4>2. CASE j # 1
        <5>1. j - 1 \in 1 .. Len(l) /\ m[j] = l[j - 1]
          BY <4>2, <2>2, <1>4
        <5> QED BY <5>1, <3>1 DEF Range
      <4> QED BY <4>1, <4>2
    <3>3. ASSUME NEW j \in 1 .. Len(l) PROVE l[j] \in Range(m)
      <4>1. j + 1 \in 1 .. Len(l) + 1 /\ m[j + 1] = l[j]
        BY <2>2, <1>4
      <4> QED BY <4>1, <3>1 DEF Range
    <3>4. f \in Range(m)
      <4>1. 1 \in 1 .. Len(l) + 1
        BY <1>4
      <4> QED BY <4>1, <3>1, <2>2 DEF Range
    <3> QED BY <3>1, <3>2, <3>3, <3>4 DEF Range
  <2>14. Seconds(p, r, D, H)
    <3> SUFFICES ASSUME NEW e \in Sites(p)
                 PROVE  /\ Range(r.list[p.spare[e]]) \subseteq MainInstrs(p) \cup {p.phi[e]}
                        /\ e \notin H => r.list[p.spare[e]] = << >>
                        /\ p.phi[e] \in Range(r.list[p.spare[e]]) => Merges(p, e)
                        /\ e \in D /\ Merges(p, e) => p.phi[e] \in Range(r.list[p.spare[e]])
      BY DEF Seconds
    <3>1. CASE e = d
      <4>1. Range(l) \subseteq MainInstrs(p) \cup {f}
        BY <1>1 DEF Seconds, l, f, s
      <4>2. r.list[p.spare[d]] = r.list[s] /\ p.phi[d] = f
        BY DEF s, f
      <4> QED BY <3>1, <4>1, <4>2, <2>13
    <3>2. CASE e # d
      BY <3>2, <2>11, <1>1 DEF Seconds
    <3> QED BY <3>1, <3>2
  <2>15. \A b \in Blocks : Range(c.list[b]) \subseteq Range(r.list[b])
    BY <2>5, <2>13 DEF l
  <2>16. CallerKept(p, r, D, H)
    <3>1. \A b \in MainBlocks(p) \cup {p.spare[e] : e \in H} : b \in Blocks
      BY <1>3 DEF MainBlocks
    <3> QED BY <3>1, <2>15, <1>1 DEF CallerKept
  <2>17. CallsGone(p, r, D)
    <3> SUFFICES ASSUME NEW e \in D, NEW b \in Blocks, e \in Range(r.list[b])
                 PROVE  b \in MainBlocks(p) /\ r.list[b][1] = e
      BY DEF CallsGone
    <3>1. e # f
      BY SitesInMain, MainInstrShape DEF f
    <3>2. e \in Range(c.list[b])
      BY <3>1, <2>5, <2>13 DEF l
    <3> QED BY <3>2, <2>11, <1>1 DEF CallsGone
  <2>18. Halved(p, r, cur, d, K) /\ r.list[s][1] = f
    <3>1. r.list[s] # << >> /\ r.list[s][1] = f
      BY <2>2, <2>5, <1>4
    <3>2. r.list[cur] = c.list[cur] /\ r.last[cur] = c.last[cur]
      BY <2>11
    <3> QED BY <3>1, <3>2 DEF Halved, s, f
  <2> QED BY <2>6, <2>9, <2>10, <2>12, <2>14, <2>16, <2>17, <2>18 DEF CodeOk, r, s, f
<1> QED BY <1>5, <1>6

\* The first half loses the call, unless that is all it holds.
LEMMA CodeRemove ==
  ASSUME NEW p \in Programs, NEW D \in SUBSET Sites(p), NEW d \in Sites(p) \ D,
         NEW K \in SUBSET Foreign(p), ExitsOf(p, d) \subseteq K,
         NEW c, CodeOk(p, c, D, D \cup {d}, K),
         NEW cur \in MainBlocks(p), Halved(p, c, cur, d, K)
  PROVE  CodeOk(p, RemoveLastInstr(c, cur), D \cup {d}, D \cup {d}, K)
<1> DEFINE r == RemoveLastInstr(c, cur)
           l == c.list[cur]
           n == Len(l)
           H == D \cup {d}
<1>1. /\ Shaped(c) /\ OnePlace(c) /\ Truncated(p, c) /\ Untold(p, c, K) /\ Stripped(p, c, K)
      /\ Seconds(p, c, D, H) /\ CallerKept(p, c, D, H) /\ CallsGone(p, c, D)
      /\ Lasts(p, c, D) /\ Homes(p, c, D)
  BY DEF CodeOk
<1>2. /\ \A b \in Blocks : /\ c.list[b] \in Seq(Instrs) /\ Len(c.list[b]) \in Nat
                           /\ DOMAIN c.list[b] = 1 .. Len(c.list[b])
      /\ cur \in Blocks /\ cur \notin Foreign(p) /\ ~ IsSpare(p, cur)
      /\ \A b \in MainBlocks(p) : b \in Blocks
      /\ \A e \in Sites(p) : p.spare[e] \in Blocks /\ p.spare[e] # cur
  BY <1>1, SpareShape, SpareIsNew, MainNotForeign DEF Shaped, MainBlocks
<1>3. /\ d \in MainInstrs(p) /\ d \in Instrs /\ d # NoInstr
      /\ l # << >> /\ l[n] = d /\ c.last[cur] = d
  BY SitesInMain, MainInstrShape, NamesAssumption DEF Halved
<1>4. /\ Shaped(r) /\ r.home = c.home
      /\ \A x \in Blocks : x # cur => r.list[x] = c.list[x] /\ r.last[x] = c.last[x]
      /\ n \in Nat \ {0}
      /\ Len(r.list[cur]) = (IF n = 1 THEN 1 ELSE n - 1)
      /\ \A k \in 1 .. Len(r.list[cur]) : r.list[cur][k] = l[k]
      /\ r.last[cur] = IF n = 1 THEN NoInstr ELSE l[n - 1]
  BY <1>1, <1>2, <1>3, RemovedLast
<1> HIDE DEF r, n, l
<1>5. \A x \in Blocks : /\ Len(r.list[x]) <= Len(c.list[x])
                        /\ \A k \in 1 .. Len(r.list[x]) : r.list[x][k] = c.list[x][k]
  <2> SUFFICES ASSUME NEW x \in Blocks
               PROVE  Len(r.list[x]) <= Len(c.list[x]) /\ \A k \in 1 .. Len(r.list[x]) : r.list[x][k] = c.list[x][k]
    OBVIOUS
  <2>1. CASE x = cur
    BY <2>1, <1>4 DEF n, l
  <2>2. CASE x # cur
    BY <2>2, <1>2, <1>4
  <2> QED BY <2>1, <2>2
<1>6. /\ OnePlace(r) /\ Truncated(p, r)
      /\ \A x \in Blocks : Range(r.list[x]) \subseteq Range(c.list[x])
  BY <1>1, <1>4, <1>5, ShorterLists
<1>7. \A x \in Blocks : DOMAIN r.list[x] = 1 .. Len(r.list[x]) /\ Len(r.list[x]) \in Nat
  BY <1>4 DEF Shaped
<1>8. /\ \A x \in Foreign(p) : r.list[x] = c.list[x] /\ r.last[x] = c.last[x]
      /\ \A e \in Sites(p) : r.list[p.spare[e]] = c.list[p.spare[e]]
  BY <1>2, <1>4 DEF Foreign
<1>9. Untold(p, r, K) /\ Stripped(p, r, K)
  BY <1>1, <1>8 DEF Untold, Stripped
<1>10. Seconds(p, r, H, H)
  <2>1. Merges(p, d) => p.phi[d] \in Range(c.list[p.spare[d]])
    <3> SUFFICES ASSUME Merges(p, d) PROVE p.phi[d] \in Range(c.list[p.spare[d]])
      OBVIOUS
    <3>1. RetsOf(p, d) # {}
      <4> SUFFICES ASSUME RetsOf(p, d) = {} PROVE FALSE
        OBVIOUS
      <4>1. Cardinality(RetsOf(p, d)) = 0
        BY FS_EmptySet
      <4> QED BY <4>1 DEF Merges
    <3>2. PICK b \in RetsOf(p, d) : b \in K
      BY <3>1 DEF RetsOf
    <3>3. c.list[p.spare[d]] # << >> /\ c.list[p.spare[d]][1] = p.phi[d]
      BY <3>2 DEF Halved
    <3>4. c.list[p.spare[d]] \in Seq(Instrs)
      BY <1>2
    <3>5. 1 \in DOMAIN c.list[p.spare[d]]
      BY <3>3, <3>4
    <3> QED BY <3>3, <3>5 DEF Range
  <2> QED BY <2>1, <1>1, <1>8 DEF Seconds
<1>11. ASSUME NEW i \in MainInstrs(p) \ H, i \in Range(l) PROVE i \in Range(r.list[cur])
  <2>1. PICK j \in 1 .. n : l[j] = i
    BY <1>2, <1>11 DEF Range, l, n
  <2>2. j # n
    BY <2>1, <1>3
  <2>3. j \in 1 .. Len(r.list[cur]) /\ r.list[cur][j] = i
    BY <2>1, <2>2, <1>4
  <2> QED BY <2>3, <1>2, <1>7 DEF Range
<1>12. CallerKept(p, r, H, H)
  <2> SUFFICES ASSUME NEW i \in MainInstrs(p) \ H
               PROVE  \E b \in MainBlocks(p) \cup {p.spare[e] : e \in H} : i \in Range(r.list[b])
    BY DEF CallerKept
  <2>1. PICK b \in MainBlocks(p) \cup {p.spare[e] : e \in H} : i \in Range(c.list[b])
    BY <1>1 DEF CallerKept
  <2>2. b \in Blocks
    BY <1>2
  <2>3. i \in Range(r.list[b])
    <3>1. CASE b = cur
      BY <3>1, <2>1, <1>11 DEF l
    <3>2. CASE b # cur
      BY <3>2, <2>1, <2>2, <1>4
    <3> QED BY <3>1, <3>2
  <2> QED BY <2>3
<1>13. CallsGone(p, r, H)
  <2> SUFFICES ASSUME NEW e \in H, NEW b \in Blocks, e \in Range(r.list[b])
               PROVE  b \in MainBlocks(p) /\ r.list[b][1] = e
    BY DEF CallsGone
  <2>1. PICK j \in 1 .. Len(r.list[b]) : r.list[b][j] = e
    BY <1>7 DEF Range
  <2>2. r.list[b][1] = c.list[b][1]
    <3>1. 1 \in 1 .. Len(r.list[b])
      BY <2>1, <1>7
    <3> QED BY <3>1, <1>5
  <2>3. CASE e \in D
    BY <2>2, <2>3, <1>1, <1>6 DEF CallsGone
  <2>4. CASE e = d
    <3>1. j \in 1 .. Len(c.list[b]) /\ c.list[b][j] = d
      BY <2>1, <2>4, <1>2, <1>5, <1>7
    <3>2. n \in 1 .. Len(c.list[cur]) /\ c.list[cur][n] = d
      BY <1>3, <1>4 DEF n, l
    <3>3. b = cur /\ j = n
      BY <3>1, <3>2, <1>1, <1>2 DEF OnePlace
    <3>4. n = 1
      BY <3>3, <2>1, <1>4
    <3> QED BY <3>3, <3>4, <2>1, <2>4
  <2> QED BY <2>3, <2>4
<1>14. Lasts(p, r, H)
  <2> SUFFICES ASSUME NEW b \in MainBlocks(p)
               PROVE  \/ r.list[b] = << >> \/ r.last[b] = r.list[b][Len(r.list[b])]
                      \/ Len(r.list[b]) = 1 /\ r.list[b][1] \in H
    BY DEF Lasts
  <2>1. CASE b = cur /\ n = 1
    BY <2>1, <1>3, <1>4
  <2>2. CASE b = cur /\ n # 1
    BY <2>2, <1>4
  <2>3. CASE b # cur
    <3>1. r.list[b] = c.list[b] /\ r.last[b] = c.last[b]
      BY <2>3, <1>2, <1>4
    <3> QED BY <3>1, <1>1 DEF Lasts
  <2> QED BY <2>1, <2>2, <2>3
<1>15. Homes(p, r, H)
  <2> SUFFICES ASSUME NEW i \in MainInstrs(p) \ H, c.home[i] # Gone
               PROVE  c.home[i] \in MainBlocks(p) /\ i \in Range(r.list[c.home[i]])
    BY <1>4 DEF Homes
  <2>1. c.home[i] \in MainBlocks(p) /\ i \in Range(c.list[c.home[i]])
    BY <1>1 DEF Homes
  <2>2. CASE c.home[i] = cur
    BY <2>1, <2>2, <1>11 DEF l
  <2>3. CASE c.home[i] # cur
    BY <2>1, <2>3, <1>2, <1>4
  <2> QED BY <2>1, <2>2, <2>3
<1> QED BY <1>4, <1>6, <1>9, <1>10, <1>12, <1>13, <1>14, <1>15 DEF CodeOk, r

-----------------------------------------------------------------------------
\* The opcodes stay what they are, except that spare instructions become PHIs.
Stored(m) == m = [op |-> m.op, ins |-> m.ins, users |-> m.users]

LEMMA SameOps ==
  ASSUME NEW m, Stored(m), NEW x, NEW y
  PROVE  /\ Stored(ReplaceInputForUsers(m, x, y)) /\ ReplaceInputForUsers(m, x, y).op = m.op
         /\ Stored(ReplaceUserForInputs(m, x, y)) /\ ReplaceUserForInputs(m, x, y).op = m.op
         /\ Stored(AddUsers(m, x, y)) /\ AddUsers(m, x, y).op = m.op
         /\ Stored(RemoveUser(m, x, y)) /\ RemoveUser(m, x, y).op = m.op
<1>1. ASSUME NEW r, NEW z, r = [m EXCEPT !.ins = z] PROVE Stored(r) /\ r.op = m.op
  BY <1>1 DEF Stored
<1>2. ASSUME NEW r, NEW z, r = [m EXCEPT !.users = z] PROVE Stored(r) /\ r.op = m.op
  BY <1>2 DEF Stored
<1>3. \E z : ReplaceInputForUsers(m, x, y) = [m EXCEPT !.ins = z]
  BY DEF ReplaceInputForUsers
<1>4. \E z : ReplaceUserForInputs(m, x, y) = [m EXCEPT !.users = z]
  BY DEF ReplaceUserForInputs
<1>5. \E z : AddUsers(m, x, y) = [m EXCEPT !.users = z]
  <2> DEFINE z == [m.users EXCEPT ![x] = [u \in Instrs |-> @[u] + m.users[y][u]]]
  <2>1. AddUsers(m, x, y) = [m EXCEPT !.users = z]
    BY DEF AddUsers
  <2> HIDE DEF z
  <2> QED BY <2>1
<1>6. \E z : RemoveUser(m, x, y) = [m EXCEPT !.users = z]
  <2> DEFINE z == [m.users EXCEPT ![x][y] = Less(@, 1)]
  <2>1. RemoveUser(m, x, y) = [m EXCEPT !.users = z]
    BY DEF RemoveUser
  <2> HIDE DEF z
  <2> QED BY <2>1
<1> QED BY <1>1, <1>2, <1>3, <1>4, <1>5, <1>6

(***************************************************************************)
(* What the lists are like at each step, as long as no callee is repeated. *)
(***************************************************************************)
ExitsCut == CASE at.step = "exits" -> ExitsOf(prog, call) \ work
              [] at.step \in {"constants", "connect", "ends", "remove"} -> ExitsOf(prog, call)
              [] OTHER -> {}
StrippedExits == ExitsCut \cup UNION {ExitsOf(prog, e) : e \in FinishedCalls}
Fresh == Busy => \A e \in FinishedCalls : prog.callee[e] # prog.callee[call]
Exiting == at.step = "exits" => /\ work \subseteq ExitsOf(prog, call)
                                /\ at.rets = Cardinality(RetsOf(prog, call))
                                /\ \A b \in ExitsOf(prog, call) : prog.list[b] # << >>
Opcodes ==
  /\ Stored(store) /\ DOMAIN store.op = Instrs
  /\ \A i \in Instrs : (\A e \in Sites(prog) : i # prog.phi[e]) => store.op[i] = prog.op[i]

CodeInv ==
  /\ Opcodes
  /\ at.step # "fault" /\ Fresh =>
       /\ CodeOk(prog, code, FinishedCalls, SplitCalls, StrippedExits)
       /\ Busy => Halved(prog, code, at.cur, call, StrippedExits)
       /\ Exiting

-----------------------------------------------------------------------------
MadePhi(m, i, s) == [m EXCEPT !.op[i] = "PHI", !.ins[i] = s]

LEMMA MadePhiOps ==
  ASSUME NEW m, Stored(m), NEW i, NEW y
  PROVE  Stored(MadePhi(m, i, y)) /\ MadePhi(m, i, y).op = [m.op EXCEPT ![i] = "PHI"]
<1> DEFINE o == [m.op EXCEPT ![i] = "PHI"]
           s == [m.ins EXCEPT ![i] = y]
           r == MadePhi(m, i, y)
<1>1. r = [m EXCEPT !.op = o, !.ins = s]
  BY DEF MadePhi
<1> HIDE DEF o, s, r
<1>2. Stored(r) /\ r.op = o
  BY <1>1 DEF Stored
<1> QED BY <1>2 DEF o, r

LEMMA HandOverKeeps ==
  ASSUME Stored(store), NEW e, NEW d
  PROVE  Stored(HandOver(e, d)) /\ HandOver(e, d).op = store.op
<1> DEFINE z == [store.users EXCEPT ![d] = [u \in Instrs |-> store.users[call][u]
                                              + (IF u = e THEN Less(@[u], 1) ELSE @[u])]]
<1>1. HandOver(e, d) = store \/ HandOver(e, d) = [store EXCEPT !.users = z]
  BY DEF HandOver
<1> HIDE DEF z
<1>2. HandOver(e, d) = store \/ \E y : HandOver(e, d) = [store EXCEPT !.users = y]
  BY <1>1
<1> QED BY <1>2 DEF Stored

\* Opcodes are changed by MergeReturn only, to PHI.
LEMMA OpcodesKept ==
  ASSUME SpliceInv, Opcodes, [InlineNext]_inlineVars
  PROVE  Opcodes'
<1>1. CASE store' = store /\ prog' = prog
  BY <1>1 DEF Opcodes
<1>2. CASE Stored(store') /\ store'.op = store.op /\ prog' = prog
  BY <1>2 DEF Opcodes
<1>3. ASSUME NEW k, ReplaceParam(k) PROVE Opcodes'
  <2>1. CASE Fault
    BY <2>1, <1>1 DEF Fault, Goto, given
  <2>2. CASE store' = PassArg(Args[k], Params[k]) /\ prog' = prog
    <3> DEFINE m1 == ReplaceInputForUsers(store, Params[k], Args[k])
               m2 == AddUsers(m1, Args[k], Params[k])
    <3>1. Stored(store)
      BY DEF Opcodes
    <3>2. Stored(m1) /\ m1.op = store.op
      BY <3>1, SameOps
    <3>3. Stored(m2) /\ m2.op = m1.op
      <4> HIDE DEF m1
      <4> QED BY <3>2, SameOps
    <3>4. store' = RemoveUser(m2, Args[k], call)
      BY <2>2 DEF PassArg
    <3> HIDE DEF m1, m2
    <3>5. Stored(store') /\ store'.op = m2.op
      <4> DEFINE m3 == RemoveUser(m2, Args[k], call)
      <4>1. Stored(m3) /\ m3.op = m2.op
        BY <3>3, SameOps
      <4> QED BY <4>1, <3>4
    <3> QED BY <3>2, <3>3, <3>5, <2>2, <1>2
  <2> QED BY <1>3, <2>1, <2>2 DEF ReplaceParam, given
<1>4. ASSUME NEW i, MoveConstant(i) PROVE Opcodes'
  <2>1. CASE Fault
    BY <2>1, <1>1 DEF Fault, Goto, given
  <2>2. CASE \E j \in SameConstants(i) : store' = ReplaceInputForUsers(store, i, j) /\ prog' = prog
    BY <2>2, <1>2, SameOps DEF Opcodes
  <2> QED BY <1>4, <2>1, <2>2 DEF MoveConstant, given
<1>5. ASSUME NEW b, ReplaceExit(b) PROVE Opcodes'
  <2>1. CASE Fault
    BY <2>1, <1>1 DEF Fault, Goto, given
  <2>2. CASE prog' = prog /\ MergeReturn(b, code.last[b])
    <3> DEFINE e == code.last[b]
               phi == IF Has(Head(code.list[at.second]), "PHI") THEN Head(code.list[at.second])
                                                                ELSE prog.phi[call]
               m == ReplaceUserForInputs(store, e, phi)
    <3>1. store' = MadePhi(m, phi, m.ins[e])
      BY <2>2 DEF MergeReturn, MadePhi
    <3>2. call \in Sites(prog)
      <4>1. at.step = "exits"
        BY <1>5 DEF ReplaceExit
      <4>2. todo # << >>
        BY <4>1 DEF SpliceInv, Planned, Busy
      <4> QED BY <4>1, <4>2, CallAtHand
    <3>3. store.op[phi] = "PHI" \/ phi = prog.phi[call]
      BY DEF Has
    <3> HIDE DEF phi, e
    <3>4. Stored(m) /\ m.op = store.op
      BY SameOps DEF Opcodes
    <3> HIDE DEF m
    <3>5. Stored(store') /\ store'.op = [store.op EXCEPT ![phi] = "PHI"]
      BY <3>1, <3>4, MadePhiOps
    <3>6. \A i \in Instrs : i = phi /\ i # prog.phi[call] => store'.op[i] = store.op[i]
      BY <3>3, <3>5 DEF Opcodes
    <3>7. \A i \in Instrs : i # phi => store'.op[i] = store.op[i]
      BY <3>5 DEF Opcodes
    <3> QED BY <3>2, <3>5, <3>6, <3>7, <2>2 DEF Opcodes
  <2>3. CASE prog' = prog /\ UseReturned(b, code.last[b])
    <3> DEFINE e == code.last[b]
               d == store.ins[e][1]
               m == HandOver(e, d)
    <3>1. store' = ReplaceInputForUsers(m, call, d)
      BY <2>3 DEF UseReturned
    <3>2. Stored(m) /\ m.op = store.op
      BY HandOverKeeps DEF Opcodes
    <3> HIDE DEF m, d
    <3>3. Stored(store') /\ store'.op = m.op
      <4> DEFINE r == ReplaceInputForUsers(m, call, d)
      <4>1. Stored(r) /\ r.op = m.op
        BY <3>2, SameOps
      <4> QED BY <4>1, <3>1
    <3> QED BY <3>2, <3>3, <2>3, <1>2
  <2> QED BY <1>5, <1>1, <2>1, <2>2, <2>3 DEF ReplaceExit, given
<1>6. CASE Start \/ Finish \/ SplitOn \/ CountReturns \/ StartConstants \/ ChangeInlBlocksRelation
            \/ ConnectRoot \/ ConnectEnds \/ RemoveCall
  <2>1. store' = store /\ prog' = prog
    BY <1>6 DEF Start, Finish, SplitOn, CountReturns, StartConstants, ChangeInlBlocksRelation,
                ConnectRoot, ConnectEnds, RemoveCall, Fault, Goto, given
  <2> QED BY <2>1, <1>1
<1>7. CASE UNCHANGED inlineVars
  BY <1>7, <1>1 DEF inlineVars, given
<1> QED BY <1>3, <1>4, <1>5, <1>6, <1>7, Zenon DEF InlineNext

-----------------------------------------------------------------------------
LEMMA StrippedForeign ==
  ASSUME SpliceInv, at.step # "fault"
  PROVE  /\ StrippedExits \in SUBSET Foreign(prog) /\ prog \in Programs
         /\ FinishedCalls \in SUBSET Sites(prog)
         /\ Busy => call \in Sites(prog) \ FinishedCalls
<1>1. prog \in Programs /\ FinishedCalls \in SUBSET Sites(prog)
  BY DEF SpliceInv, Records, FinishedCalls
<1>2. Busy => call \in Sites(prog) \ FinishedCalls
  BY CallAtHand DEF SpliceInv, Planned, Busy
<1>3. Busy => ExitsOf(prog, call) \subseteq Foreign(prog)
  BY <1>1, <1>2, InnerShape
<1>4. ExitsCut \subseteq Foreign(prog)
  BY <1>3 DEF ExitsCut, Busy
<1>5. \A e \in FinishedCalls : ExitsOf(prog, e) \subseteq Foreign(prog)
  BY <1>1, InnerShape
<1> QED BY <1>1, <1>2, <1>4, <1>5 DEF StrippedExits

\* A step that leaves the lists alone, and the exits that are through.
LEMMA CodeKept ==
  ASSUME CodeInv, Opcodes', at.step # "fault", prog' = prog, code' = code,
         FinishedCalls' = FinishedCalls, SplitCalls' = SplitCalls, StrippedExits' = StrippedExits,
         Busy' => Busy /\ call' = call /\ at'.cur = at.cur,
         Busy /\ ~ Busy' => Fresh, Fresh => Exiting'
  PROVE  CodeInv'
<1> SUFFICES ASSUME Fresh'
             PROVE  /\ CodeOk(prog', code', FinishedCalls', SplitCalls', StrippedExits')
                    /\ Busy' => Halved(prog', code', at'.cur, call', StrippedExits')
                    /\ Exiting'
  BY DEF CodeInv
<1>1. Fresh
  BY DEF Fresh
<1>2. /\ CodeOk(prog, code, FinishedCalls, SplitCalls, StrippedExits)
      /\ Busy => Halved(prog, code, at.cur, call, StrippedExits)
  BY <1>1 DEF CodeInv
<1> QED BY <1>1, <1>2

LEMMA CodeStart == InlineInit => CodeInv
<1> SUFFICES ASSUME InlineInit PROVE CodeInv
  OBVIOUS
<1>1. SpliceInv /\ prog \in Programs /\ at.step = "start"
  BY SpliceInit DEF InlineInit
<1>2. /\ store = [op |-> store.op, ins |-> store.ins, users |-> store.users]
      /\ store.op = prog.op
  BY DEF InlineInit
<1>3. Opcodes
  BY <1>1, <1>2, ProgramTypes DEF Opcodes, Stored
<1>4. /\ code = [list |-> code.list, last |-> code.last, home |-> code.home]
      /\ code.list = prog.list
      /\ code.last = [b \in Blocks |-> LastOf(prog, b)]
  BY DEF InlineInit, LastOf
<1>5. \A i \in MainInstrs(prog) : code.home[i] \in MainBlocks(prog) /\ i \in Range(prog.list[code.home[i]])
  BY HomeInit
<1>6. ~ Busy /\ FinishedCalls = {} /\ SplitCalls = {} /\ StrippedExits = {}
  BY <1>1 DEF Busy, FinishedCalls, SplitCalls, StrippedExits, ExitsCut
<1>7. CodeOk(prog, code, {}, {}, {})
  BY <1>1, <1>4, <1>5, CodeInit
<1> QED BY <1>1, <1>3, <1>6, <1>7 DEF CodeInv, Exiting

LEMMA CodeFault ==
  ASSUME CodeInv, Opcodes', Fault, SpliceInv PROVE CodeInv'
<1>1. at' = [at EXCEPT !.step = "fault"] /\ Records
  BY DEF Fault, Goto, SpliceInv
<1>2. at'.step = "fault"
  BY <1>1 DEF Records
<1> QED BY <1>2 DEF CodeInv

LEMMA CodeSplitOn ==
  ASSUME SpliceInv, CodeInv, Opcodes', SplitOn PROVE CodeInv'
<1> DEFINE cur == code.home[call]
           s == prog.spare[call]
           D == FinishedCalls
           K == StrippedExits
<1>1. CASE Fault
  BY <1>1, CodeFault
<1>2. CASE ~ Fault
  <2> DEFINE k == Position(cur, call)
  <2>1. /\ at.step = "next" /\ todo # << >> /\ cur # Gone /\ code.last[cur] # call
        /\ code' = SplitLists(code, cur, s, k, call)
        /\ at' = [at EXCEPT !.step = "params", !.cur = cur, !.second = s]
        /\ prog' = prog /\ todo' = todo
    BY <1>2 DEF SplitOn, given, SplitLists
  <2>2. Records
    BY DEF SpliceInv
  <2>3. /\ prog \in Programs /\ D \in SUBSET Sites(prog) /\ call \in Sites(prog) \ D
        /\ K \in SUBSET Foreign(prog)
    BY <2>1, StrippedForeign, CallAtHand
  <2>4. ~ Busy /\ SplitCalls = D /\ K = UNION {ExitsOf(prog, e) : e \in D}
    BY <2>1 DEF Busy, SplitCalls, StrippedExits, ExitsCut
  <2>5. CodeOk(prog, code, D, D, K)
    BY <2>1, <2>4 DEF CodeInv, Fresh
  <2> HIDE DEF cur, s, k
  <2>6. at'.step = "params" /\ at'.cur = cur
    BY <2>1, <2>2 DEF Records
  <2>7. /\ Busy' /\ FinishedCalls' = D /\ SplitCalls' = D \cup {call} /\ call' = call
        /\ ExitsCut' = {} /\ StrippedExits' = K /\ Exiting'
    <3>1. Busy' /\ FinishedCalls' = D /\ call' = call
      BY <2>1, <2>6 DEF Busy, FinishedCalls, call
    <3>2. ExitsCut' = {}
      BY <2>6 DEF ExitsCut
    <3>3. Exiting'
      BY <2>6 DEF Exiting
    <3> QED BY <3>1, <3>2, <3>3, <2>1, <2>4 DEF SplitCalls, StrippedExits
  <2> SUFFICES ASSUME Fresh' PROVE /\ CodeOk(prog, code', D, D \cup {call}, K)
                                   /\ Halved(prog, code', cur, call, K)
    BY <2>1, <2>6, <2>7 DEF CodeInv
  <2>8. \A e \in D : prog.callee[e] # prog.callee[call]
    BY <2>1, <2>7 DEF Fresh
  <2>9. \A b \in ExitsOf(prog, call) : b \notin K
    BY <2>3, <2>4, <2>8, InnerShape
  <2>10. cur \in MainBlocks(prog) /\ call \in Range(code.list[cur])
    BY <2>1, <2>3, <2>5, SitesInMain DEF CodeOk, Homes, cur
  <2>11. k \in 1 .. Len(code.list[cur]) /\ code.list[cur][k] = call
    <3>1. code.list[cur] \in Seq(Instrs)
      BY <2>5, <2>10 DEF CodeOk, Shaped, MainBlocks
    <3>2. \E j \in DOMAIN code.list[cur] : code.list[cur][j] = call
      BY <2>10 DEF Range
    <3>3. k \in DOMAIN code.list[cur] /\ code.list[cur][k] = call
      BY <3>2 DEF k, Position
    <3> QED BY <3>1, <3>3
  <2> DEFINE c == code
  <2>12. /\ D \in SUBSET Sites(prog) /\ call \in Sites(prog) \ D /\ K \in SUBSET Foreign(prog)
         /\ CodeOk(prog, c, D, D, K) /\ c.last[cur] # call
         /\ k \in 1 .. Len(c.list[cur]) /\ c.list[cur][k] = call
    BY <2>1, <2>3, <2>5, <2>11
  <2> HIDE DEF c, D, K
  <2>13. /\ CodeOk(prog, SplitLists(c, cur, prog.spare[call], k, call), D, D \cup {call}, K)
         /\ Halved(prog, SplitLists(c, cur, prog.spare[call], k, call), cur, call, K)
    BY <2>3, <2>9, <2>10, <2>12, CodeSplit
  <2> QED BY <2>1, <2>13 DEF c, s
<1> QED BY <1>1, <1>2

\* The exits of a callee used for the first time are as the program has them.
LEMMA CodeCount ==
  ASSUME SpliceInv, CodeInv, Opcodes', CountReturns PROVE CodeInv'
<1>1. CASE Fault
  BY <1>1, CodeFault
<1>2. CASE ~ Fault
  <2> DEFINE ends == flow.preds[end]
             n == Cardinality({b \in ends : Has(code.last[b], "RET")})
  <2>1. /\ at.step = "params" /\ \A b \in ends : code.last[b] # NoInstr
        /\ at' = [at EXCEPT !.step = "exits", !.rets = n] /\ work' = ends
        /\ prog' = prog /\ code' = code /\ todo' = todo /\ store' = store
    BY <1>2 DEF CountReturns, given
  <2>2. Records /\ Busy
    BY <2>1 DEF SpliceInv, Busy
  <2>3. at'.step = "exits" /\ at'.cur = at.cur /\ at'.rets = n
    <3> HIDE DEF n
    <3> QED BY <2>1, <2>2 DEF Records
  <2>4. Busy' /\ FinishedCalls' = FinishedCalls /\ call' = call /\ SplitCalls' = SplitCalls
    BY <2>1, <2>2, <2>3 DEF Busy, FinishedCalls, call, SplitCalls
  <2>5. /\ prog \in Programs /\ FinishedCalls \in SUBSET Sites(prog)
        /\ call \in Sites(prog) \ FinishedCalls /\ StrippedExits \in SUBSET Foreign(prog)
    BY <2>1, <2>2, StrippedForeign
  <2>6. Fresh => ends = ExitsOf(prog, call)
    <3> SUFFICES ASSUME Fresh PROVE ends = ExitsOf(prog, call)
      OBVIOUS
    <3> DEFINE D == FinishedCalls
               H == SplitCalls
               g == flow.succs
               q == flow.preds
    <3>1. FlowOk(prog, g, q, at.cur, H, D, D)
      BY <2>1 DEF SpliceInv, FlowNow, EnteredCalls, LeftCalls
    <3>2. H \in SUBSET Sites(prog) /\ \A d \in D : prog.callee[d] # prog.callee[call]
      BY <2>2, <2>5 DEF SplitCalls, Fresh
    <3> HIDE DEF D, H, g, q
    <3>3. Unentered(prog, g, q, H, D, call)
      BY <3>1, <3>2, <2>5, FreshEdges DEF D
    <3>4. end \in Blocks /\ prog.graph[end] = prog.callee[call] /\ end = EndOf(prog, call)
      BY <2>5, CalleeShape DEF end, callee, EndOf
    <3>5. q[end] = {a \in Blocks : end \in prog.succs[a]}
      BY <3>3, <3>4 DEF Unentered
    <3> QED BY <3>5, <3>4 DEF ExitsOf, AtEnd, EndOf, q
  <2>7. ExitsCut = {} /\ (Fresh => ExitsCut' = {})
    <3>1. ExitsCut = {}
      BY <2>1 DEF ExitsCut
    <3>2. ASSUME Fresh PROVE ExitsCut' = {}
      BY <3>2, <2>1, <2>3, <2>4, <2>6 DEF ExitsCut
    <3> QED BY <3>1, <3>2
  <2>8. Fresh => StrippedExits' = StrippedExits
    BY <2>1, <2>4, <2>7 DEF StrippedExits
  <2>9. Fresh => Exiting'
    <3> SUFFICES ASSUME Fresh
                 PROVE  /\ n = Cardinality(RetsOf(prog, call))
                        /\ \A b \in ExitsOf(prog, call) : prog.list[b] # << >>
      BY <2>1, <2>3, <2>4, <2>6 DEF Exiting
    <3>1. CodeOk(prog, code, FinishedCalls, SplitCalls, StrippedExits)
      BY <2>1 DEF CodeInv
    <3>2. \A b \in ExitsOf(prog, call) : b \in Foreign(prog) \ StrippedExits
      <4>1. \A e \in FinishedCalls : prog.callee[e] # prog.callee[call]
        BY <2>2 DEF Fresh
      <4> QED BY <4>1, <2>5, <2>7, InnerShape DEF StrippedExits
    <3>3. \A b \in ExitsOf(prog, call) : code.last[b] = LastOf(prog, b)
      BY <3>1, <3>2 DEF CodeOk, Untold
    <3>4. ASSUME NEW b \in ExitsOf(prog, call)
          PROVE  /\ prog.list[b] # << >> /\ (Has(code.last[b], "RET") <=> prog.op[LastOf(prog, b)] = "RET")
      <4>1. prog.list[b] # << >> /\ code.last[b] = LastOf(prog, b)
        BY <3>3, <2>1, <2>6 DEF LastOf
      <4>2. b \in Blocks /\ prog.list[b] \in Seq(Instrs)
        BY <2>5, <3>2, ProgramTypes DEF Foreign
      <4>3. LastOf(prog, b) \in Instrs /\ LastOf(prog, b) \in Range(prog.list[b])
        <5>1. Len(prog.list[b]) \in DOMAIN prog.list[b]
          BY <4>1, <4>2
        <5> QED BY <5>1, <4>1, <4>2 DEF LastOf, Range
      <4>4. \A e \in Sites(prog) : LastOf(prog, b) # prog.phi[e]
        BY <4>2, <4>3, <2>5, SpareShape
      <4>5. store.op[LastOf(prog, b)] = prog.op[LastOf(prog, b)]
        BY <4>3, <4>4 DEF CodeInv, Opcodes
      <4> QED BY <4>1, <4>5 DEF Has
    <3>5. {b \in ends : Has(code.last[b], "RET")} = RetsOf(prog, call)
      BY <3>4, <2>6 DEF RetsOf
    <3> QED BY <3>4, <3>5
  <2>10. Fresh' => Fresh
    BY <2>1, <2>2, <2>4 DEF Fresh
  <2> QED BY <2>1, <2>2, <2>3, <2>4, <2>8, <2>9, <2>10 DEF CodeInv
<1> QED BY <1>1, <1>2

LEMMA LastIsOld ==
  ASSUME Opcodes, prog \in Programs, NEW b \in Foreign(prog), prog.list[b] # << >>
  PROVE  Has(LastOf(prog, b), "RET") <=> prog.op[LastOf(prog, b)] = "RET"
<1>1. b \in Blocks /\ prog.list[b] \in Seq(Instrs)
  BY ProgramTypes DEF Foreign
<1>2. LastOf(prog, b) \in Instrs /\ LastOf(prog, b) \in Range(prog.list[b])
  <2>1. Len(prog.list[b]) \in DOMAIN prog.list[b]
    BY <1>1
  <2> QED BY <2>1, <1>1 DEF LastOf, Range
<1>3. \A e \in Sites(prog) : LastOf(prog, b) # prog.phi[e]
  BY <1>1, <1>2, SpareShape
<1> QED BY <1>2, <1>3 DEF Opcodes, Has

\* The PHI that MergeReturn takes is the one made for the call.
LEMMA PhiOfCall ==
  ASSUME Opcodes, prog \in Programs, NEW d \in Sites(prog), NEW K, NEW cur,
         NEW D, NEW H, CodeOk(prog, code, D, H, K), Halved(prog, code, cur, d, K)
  PROVE  LET h == Head(code.list[prog.spare[d]])
         IN  IF Has(h, "PHI") THEN h = prog.phi[d] ELSE TRUE
<1> DEFINE l == code.list[prog.spare[d]]
<1>1. /\ l \in Seq(Instrs) /\ l # << >> /\ (l[1] = prog.phi[d] \/ prog.op[l[1]] # "PHI")
      /\ Range(l) \subseteq MainInstrs(prog) \cup {prog.phi[d]}
  <2>1. prog.spare[d] \in Blocks
    BY SpareShape
  <2> QED BY <2>1 DEF CodeOk, Shaped, Seconds, Halved
<1>2. Head(l) = l[1] /\ l[1] \in Range(l)
  <2>1. 1 \in DOMAIN l /\ Head(l) = l[1]
    BY <1>1
  <2> QED BY <2>1 DEF Range
<1>3. l[1] \in MainInstrs(prog) => l[1] \in Instrs /\ \A e \in Sites(prog) : l[1] # prog.phi[e]
  BY MainInstrShape
<1>4. l[1] \in MainInstrs(prog) => store.op[l[1]] = prog.op[l[1]]
  BY <1>3 DEF Opcodes
<1> HIDE DEF l
<1>5. Has(Head(l), "PHI") => Head(l) = prog.phi[d]
  BY <1>1, <1>2, <1>4 DEF Has
<1> QED BY <1>5 DEF l

LEMMA CodeExit ==
  ASSUME SpliceInv, CodeInv, Opcodes', NEW b, ReplaceExit(b) PROVE CodeInv'
<1> DEFINE D == FinishedCalls
           H == SplitCalls
           K == StrippedExits
           s == prog.spare[call]
           f == prog.phi[call]
           c == code
<1>1. CASE Fault
  BY <1>1, CodeFault
<1>2. CASE ~ Fault
  <2>1. /\ at.step = "exits" /\ b \in work /\ work' = work \ {b}
        /\ prog' = prog /\ todo' = todo /\ at' = at
        /\ \/ Has(c.last[b], "RET") /\ at.rets > 1 /\ MergeReturn(b, c.last[b])
           \/ ~ (Has(c.last[b], "RET") /\ at.rets > 1) /\ code' = RemoveLastInstr(c, b)
    BY <1>2 DEF ReplaceExit, UseReturned, given
  <2>2. Busy /\ at.second = s /\ at.cur \in MainBlocks(prog)
    BY <2>1 DEF Busy, SpliceInv, Planned
  <2>3. /\ prog \in Programs /\ D \in SUBSET Sites(prog)
        /\ call \in Sites(prog) \ D /\ K \in SUBSET Foreign(prog) /\ H = D \cup {call}
    BY <2>1, <2>2, StrippedForeign DEF SplitCalls
  <2>4. Busy' /\ D' = D /\ call' = call /\ H' = H /\ at'.cur = at.cur
    BY <2>1 DEF Busy, FinishedCalls, call, SplitCalls
  <2> SUFFICES ASSUME Fresh PROVE /\ CodeOk(prog, code', D, H, K')
                                  /\ Halved(prog, code', at.cur, call, K')
                                  /\ Exiting'
    BY <2>1, <2>2, <2>4 DEF CodeInv, Fresh
  <2>5. /\ CodeOk(prog, c, D, H, K) /\ Halved(prog, c, at.cur, call, K)
        /\ work \subseteq ExitsOf(prog, call) /\ at.rets = Cardinality(RetsOf(prog, call))
        /\ \A x \in ExitsOf(prog, call) : prog.list[x] # << >>
    BY <2>1, <2>2 DEF CodeInv, Exiting
  <2>6. Exiting'
    BY <2>1, <2>4, <2>5 DEF Exiting
  <2>7. b \in ExitsOf(prog, call) /\ prog.list[b] # << >> /\ b \in Foreign(prog) \ K
    <3>1. b \in ExitsOf(prog, call) /\ b \notin ExitsCut
      BY <2>1, <2>5 DEF ExitsCut
    <3>2. \A e \in D : prog.callee[e] # prog.callee[call]
      BY <2>2 DEF Fresh
    <3>3. \A e \in D : b \notin ExitsOf(prog, e)
      BY <3>1, <3>2, <2>3, InnerShape
    <3> QED BY <3>1, <3>3, <2>3, <2>5, InnerShape DEF StrippedExits
  <2>8. K' = K \cup {b}
    <3>1. ExitsCut' = ExitsCut \cup {b}
      BY <2>1, <2>4, <2>7 DEF ExitsCut
    <3> QED BY <3>1, <2>1, <2>4 DEF StrippedExits
  <2>9. Has(c.last[b], "RET") /\ at.rets > 1 <=> Merges(prog, call) /\ b \in RetsOf(prog, call)
    <3>1. c.last[b] = LastOf(prog, b)
      BY <2>5, <2>7 DEF CodeOk, Untold
    <3>2. Has(c.last[b], "RET") <=> b \in RetsOf(prog, call)
      BY <3>1, <2>3, <2>7, LastIsOld DEF RetsOf, CodeInv
    <3> QED BY <3>2, <2>5 DEF Merges
  <2>10. CASE ~ (Merges(prog, call) /\ b \in RetsOf(prog, call))
    <3>1. code' = RemoveLastInstr(c, b)
      BY <2>1, <2>9, <2>10
    <3> HIDE DEF c, D, H, K
    <3>2. H \in SUBSET Sites(prog)
      BY <2>3
    <3>3. /\ CodeOk(prog, RemoveLastInstr(c, b), D, H, K \cup {b})
          /\ Halved(prog, RemoveLastInstr(c, b), at.cur, call, K \cup {b})
      BY <3>2, <2>2, <2>3, <2>5, <2>7, <2>10, CodeStrip
    <3> QED BY <3>1, <3>3, <2>6, <2>8
  <2>11. CASE Merges(prog, call) /\ b \in RetsOf(prog, call)
    <3> DEFINE r == InFront(c, s, f)
    <3>1. code' = RemoveLastInstr(r, b)
      <4>1. MergeReturn(b, c.last[b])
        BY <2>1, <2>9, <2>11
      <4>2. Opcodes
        BY DEF CodeInv
      <4>3. IF Has(Head(c.list[s]), "PHI") THEN Head(c.list[s]) = f ELSE TRUE
        BY <4>2, <2>3, <2>5, PhiOfCall
      <4> QED BY <4>1, <4>3, <2>2 DEF MergeReturn
    <3> HIDE DEF c, D, H, K
    <3>2. H \in SUBSET Sites(prog) /\ call \in H \ D
      BY <2>3
    <3>3. /\ CodeOk(prog, r, D, H, K) /\ Halved(prog, r, at.cur, call, K) /\ r.list[s][1] = f
      BY <3>2, <2>2, <2>3, <2>5, <2>11, CodeFront
    <3> HIDE DEF r
    <3>4. /\ CodeOk(prog, RemoveLastInstr(r, b), D, H, K \cup {b})
          /\ Halved(prog, RemoveLastInstr(r, b), at.cur, call, K \cup {b})
      BY <3>2, <3>3, <2>2, <2>3, <2>7, CodeStrip
    <3> QED BY <3>1, <3>4, <2>6, <2>8
  <2> QED BY <2>10, <2>11
<1> QED BY <1>1, <1>2

LEMMA CodeRemoved ==
  ASSUME SpliceInv, CodeInv, Opcodes', RemoveCall PROVE CodeInv'
<1> DEFINE D == FinishedCalls
           K == StrippedExits
           c == code
<1>1. /\ at.step = "remove" /\ at' = [at EXCEPT !.step = "next"]
      /\ code' = RemoveLastInstr(code, at.cur) /\ prog' = prog
  BY DEF RemoveCall, Goto, given
<1>2. Records /\ Planned /\ Busy /\ at.cur \in MainBlocks(prog)
  BY <1>1 DEF SpliceInv, Busy, Planned
<1>3. at'.step = "next"
  BY <1>1, <1>2 DEF Records
<1>4. /\ prog \in Programs /\ D \in SUBSET Sites(prog)
      /\ call \in Sites(prog) \ D /\ K \in SUBSET Foreign(prog) /\ SplitCalls = D \cup {call}
  BY <1>1, <1>2, StrippedForeign DEF SplitCalls
<1>5. FinishedCalls' = D \cup {call}
  BY CallPassed
<1>6. ~ Busy' /\ SplitCalls' = D \cup {call} /\ Exiting'
  BY <1>3, <1>5 DEF Busy, SplitCalls, Exiting
<1>7. StrippedExits' = K /\ ExitsOf(prog, call) \subseteq K
  <2>1. ExitsCut = ExitsOf(prog, call) /\ ExitsCut' = {}
    BY <1>1, <1>3 DEF ExitsCut
  <2> QED BY <2>1, <1>1, <1>5 DEF StrippedExits
<1>8. Fresh
  <2>1. Distinct(prog, D \cup {call})
    BY <1>1, <1>4 DEF SpliceInv, FlowNow, FlowOk, EnteredCalls
  <2> QED BY <2>1, <1>4 DEF Fresh, Distinct
<1>9. CodeOk(prog, c, D, D \cup {call}, K) /\ Halved(prog, c, at.cur, call, K)
  BY <1>1, <1>2, <1>4, <1>8 DEF CodeInv
<1> HIDE DEF c, D, K
<1>10. CodeOk(prog, RemoveLastInstr(c, at.cur), D \cup {call}, D \cup {call}, K)
  BY <1>2, <1>4, <1>7, <1>9, CodeRemove
<1> QED BY <1>1, <1>5, <1>6, <1>7, <1>10 DEF CodeInv, c

\* The other steps leave the lists alone.
LEMMA CodeElsewhere ==
  ASSUME SpliceInv, CodeInv, Opcodes',
         \/ Start \/ Finish \/ StartConstants \/ ChangeInlBlocksRelation \/ ConnectRoot \/ ConnectEnds
         \/ \E x : ReplaceParam(x) \/ MoveConstant(x)
  PROVE  CodeInv'
<1>1. CASE Fault
  BY <1>1, CodeFault
<1>2. CASE ~ Fault
  <2>1. at.step # "fault" /\ prog' = prog /\ code' = code
    BY <1>2 DEF Start, Finish, StartConstants, ChangeInlBlocksRelation, ConnectRoot, ConnectEnds,
                ReplaceParam, MoveConstant, Goto, given
  <2>2. Records /\ Planned
    BY <2>1 DEF SpliceInv
  <2> DEFINE Moves(x, y) == at.step = x /\ at' = [at EXCEPT !.step = y]
  <2>3. ASSUME NEW x, NEW y, Moves(x, y) PROVE at.step = x /\ at'.step = y /\ at'.cur = at.cur
    BY <2>2, <2>3 DEF Records
  <2>4. ASSUME at.step \in {"params", "constants"}, at' = at, todo' = todo PROVE CodeInv'
    <3>1. /\ Busy /\ Busy' /\ FinishedCalls' = FinishedCalls /\ call' = call
          /\ SplitCalls' = SplitCalls /\ Exiting' /\ ExitsCut' = ExitsCut
      BY <2>1, <2>4 DEF Busy, FinishedCalls, call, SplitCalls, Exiting, ExitsCut
    <3>2. StrippedExits' = StrippedExits
      BY <3>1, <2>1 DEF StrippedExits
    <3> QED BY <3>1, <3>2, <2>1, <2>4, CodeKept
  <2>5. ASSUME Moves("constants", "connect") \/ Moves("connect", "ends") \/ Moves("ends", "remove"),
               todo' = todo
        PROVE  CodeInv'
    <3>1. /\ at.step \in {"constants", "connect", "ends"} /\ at'.step \in {"connect", "ends", "remove"}
          /\ at'.cur = at.cur
      BY <2>3, <2>5
    <3>2. /\ Busy /\ Busy' /\ FinishedCalls' = FinishedCalls /\ call' = call
          /\ SplitCalls' = SplitCalls /\ Exiting' /\ ExitsCut' = ExitsCut
      BY <2>1, <2>5, <3>1 DEF Busy, FinishedCalls, call, SplitCalls, Exiting, ExitsCut
    <3>3. StrippedExits' = StrippedExits
      BY <3>2, <2>1 DEF StrippedExits
    <3> QED BY <3>1, <3>2, <3>3, <2>1, CodeKept
  <2>6. ASSUME Moves("exits", "constants"), work = {}, todo' = todo PROVE CodeInv'
    <3>1. at.step = "exits" /\ at'.step = "constants" /\ at'.cur = at.cur
      BY <2>3, <2>6
    <3>2. /\ Busy /\ Busy' /\ FinishedCalls' = FinishedCalls /\ call' = call
          /\ SplitCalls' = SplitCalls /\ Exiting' /\ ExitsCut' = ExitsCut
      BY <2>1, <2>6, <3>1 DEF Busy, FinishedCalls, call, SplitCalls, Exiting, ExitsCut
    <3>3. StrippedExits' = StrippedExits
      BY <3>2, <2>1 DEF StrippedExits
    <3> QED BY <3>1, <3>2, <3>3, <2>1, CodeKept
  <2>7. ASSUME Moves("next", "done"), todo' = todo PROVE CodeInv'
    <3>1. at.step = "next" /\ at'.step = "done"
      BY <2>3, <2>7
    <3>2. /\ ~ Busy /\ ~ Busy' /\ FinishedCalls' = FinishedCalls
          /\ SplitCalls' = SplitCalls /\ Exiting' /\ ExitsCut' = ExitsCut
      BY <2>1, <2>7, <3>1 DEF Busy, FinishedCalls, SplitCalls, Exiting, ExitsCut
    <3>3. StrippedExits' = StrippedExits
      BY <3>2, <2>1 DEF StrippedExits
    <3> QED BY <3>2, <3>3, <2>1, CodeKept
  <2>8. CASE Start
    <3>1. at.step = "start" /\ at'.step = "next" /\ todo' = Calls /\ todo = << >>
      BY <2>2, <2>3, <2>8 DEF Start, Goto, Planned
    <3>2. FinishedCalls = {} /\ FinishedCalls' = {}
      <4>1. code.list = prog.list /\ store.op = prog.op /\ prog \in Programs
        BY <3>1, <2>2 DEF SpliceInv, Records
      <4>2. Range(Calls) = Sites(prog)
        BY <4>1, CallsAreSites
      <4> QED BY <3>1, <4>2, <2>1 DEF FinishedCalls
    <3>3. /\ ~ Busy /\ ~ Busy' /\ SplitCalls' = SplitCalls /\ Exiting' /\ ExitsCut' = ExitsCut
      BY <2>1, <3>1, <3>2 DEF Busy, SplitCalls, Exiting, ExitsCut
    <3>4. StrippedExits' = StrippedExits
      BY <3>2, <3>3, <2>1 DEF StrippedExits
    <3> QED BY <3>2, <3>3, <3>4, <2>1, CodeKept
  <2>9. CASE Finish
    BY <2>9, <2>7 DEF Finish, Goto
  <2>10. CASE StartConstants
    BY <2>10, <2>6 DEF StartConstants, Goto
  <2>11. CASE ChangeInlBlocksRelation \/ ConnectRoot \/ ConnectEnds
    BY <2>11, <2>5, <1>2 DEF ChangeInlBlocksRelation, ConnectRoot, ConnectEnds, Goto
  <2>12. ASSUME NEW x, ReplaceParam(x) \/ MoveConstant(x) PROVE CodeInv'
    BY <2>12, <2>4, <1>2 DEF ReplaceParam, MoveConstant
  <2> QED BY <2>8, <2>9, <2>10, <2>11, <2>12
<1> QED BY <1>1, <1>2

\* The lists of instructions are as the step says.
THEOREM CodeInvHolds == InlineSpec => []CodeInv
<1>1. CodeInv /\ SpliceInv /\ [InlineNext]_inlineVars => CodeInv'
  <2> SUFFICES ASSUME SpliceInv, CodeInv, [InlineNext]_inlineVars PROVE CodeInv'
    OBVIOUS
  <2>1. Opcodes'
    BY OpcodesKept DEF CodeInv
  <2>2. CASE SplitOn
    BY <2>1, <2>2, CodeSplitOn
  <2>3. CASE CountReturns
    BY <2>1, <2>3, CodeCount
  <2>4. CASE RemoveCall
    BY <2>1, <2>4, CodeRemoved
  <2>5. ASSUME NEW x, ReplaceExit(x) PROVE CodeInv'
    BY <2>1, <2>5, CodeExit
  <2>6. CASE \/ Start \/ Finish \/ StartConstants \/ ChangeInlBlocksRelation \/ ConnectRoot \/ ConnectEnds
             \/ \E x : ReplaceParam(x) \/ MoveConstant(x)
    BY <2>1, <2>6, CodeElsewhere
  <2>7. CASE UNCHANGED inlineVars
    <3>1. UNCHANGED <<prog, code, flow, store, todo, at, work>>
      BY <2>7 DEF inlineVars, given
    <3>2. UNCHANGED <<Busy, call, FinishedCalls, Opcodes>>
      BY <3>1 DEF Busy, call, FinishedCalls, Opcodes
    <3>3. UNCHANGED <<SplitCalls, ExitsCut, Fresh, Exiting>>
      BY <3>1, <3>2 DEF SplitCalls, ExitsCut, Fresh, Exiting
    <3>4. UNCHANGED StrippedExits
      BY <3>1, <3>2, <3>3 DEF StrippedExits
    <3> QED BY <3>1, <3>2, <3>3, <3>4 DEF CodeInv
  <2> QED BY <2>2, <2>3, <2>4, <2>5, <2>6, <2>7, Zenon DEF InlineNext
<1> QED BY <1>1, CodeStart, SpliceInvHolds, PTL DEF InlineSpec

\* No two exits return with the same instruction.
LEMMA ReturnsCounted ==
  ASSUME prog \in Programs, NEW c \in Sites(prog)
  PROVE  Cardinality(Returns(c)) > 1 <=> Merges(prog, c)
<1> DEFINE R == RetsOf(prog, c)
           S == Returns(c)
           f == [b \in R |-> LastOf(prog, b)]
<1>1. ASSUME NEW b \in Blocks PROVE LastOf(prog, b) \in Instrs <=> prog.list[b] # << >>
  <2>1. prog.list[b] \in Seq(Instrs)
    BY ProgramTypes
  <2>2. prog.list[b] # << >> => prog.list[b][Len(prog.list[b])] \in Instrs
    BY <2>1
  <2> QED BY <2>2, NamesAssumption DEF LastOf
<1>2. ExitBlocks(c) = ExitsOf(prog, c) /\ \A b : ExitOf(b) = LastOf(prog, b)
  BY DEF ExitBlocks, ExitsOf, ExitOf, LastOf
<1>3. R \in SUBSET Blocks /\ ExitsOf(prog, c) \in SUBSET Blocks
  BY DEF RetsOf, ExitsOf, AtEnd
<1>4. S = {LastOf(prog, b) : b \in R}
  <2>1. {x \in ExitBlocks(c) : ExitOf(x) \in Instrs /\ prog.op[ExitOf(x)] = "RET"} = R
    BY <1>1, <1>2, <1>3 DEF RetsOf
  <2> QED BY <2>1, <1>2 DEF Returns
<1>5. ASSUME NEW a \in R, NEW b \in R, LastOf(prog, a) = LastOf(prog, b) PROVE a = b
  <2>1. /\ prog.list[a] \in Seq(Instrs) /\ prog.list[a] # << >>
        /\ prog.list[b] \in Seq(Instrs) /\ prog.list[b] # << >>
    BY <1>3, ProgramTypes DEF RetsOf
  <2>2. Len(prog.list[a]) \in DOMAIN prog.list[a] /\ Len(prog.list[b]) \in DOMAIN prog.list[b]
    BY <2>1
  <2>3. prog.list[a][Len(prog.list[a])] = prog.list[b][Len(prog.list[b])]
    BY <2>1, <1>5 DEF LastOf
  <2> QED BY <2>2, <2>3, <1>3, ProgramTypes
<1> HIDE DEF R, S
<1>6. f \in Bijection(R, S)
  <2>1. f \in [R -> S] /\ \A b \in R : f[b] = LastOf(prog, b)
    BY <1>4
  <2>2. \A x \in S : \E b \in R : f[b] = x
    BY <1>4
  <2>3. \A a, b \in R : f[a] = f[b] => a = b
    BY <2>1, <1>5
  <2> HIDE DEF f
  <2>4. f \in Injection(R, S)
    BY <2>1, <2>3 DEF Injection, IsInjective
  <2>5. f \in Surjection(R, S)
    BY <2>1, <2>2 DEF Surjection
  <2> QED BY <2>4, <2>5 DEF Bijection
<1>7. IsFiniteSet(R)
  BY <1>3, ProgramsAssumption, FS_Subset
<1>8. Cardinality(R) = Cardinality(S)
  BY <1>6, <1>7, FS_Bijection DEF ExistsBijection
<1> QED BY <1>8 DEF Merges, R, S

\* Every instruction is still there, once, besides the calls and the ends of the exits.
THEOREM NothingIsLost == InlineSpec => []NothingLost
<1>1. SpliceInv /\ CodeInv => NothingLost
  <2> SUFFICES ASSUME SpliceInv, CodeInv, Done PROVE NothingLost
    BY DEF NothingLost
  <2> DEFINE C == Sites(prog)
             K == StrippedExits
             l == code.list
             Ends == UNION {ExitsOf(prog, c) : c \in C}
  <2>1. /\ prog \in Programs /\ InlinedCalls = C /\ FinishedCalls = C
        /\ Reached = Owned(prog, C, C) /\ Reached \in SUBSET Blocks
    BY AllThrough, OwnedBlocks
  <2>2. ~ Busy /\ SplitCalls = C /\ K = Ends
    BY <2>1 DEF Done, Busy, SplitCalls, StrippedExits, ExitsCut
  <2>3. CodeOk(prog, code, C, C, K)
    BY <2>1, <2>2 DEF Done, CodeInv, Fresh
  <2>4. /\ OnePlace(code) /\ Truncated(prog, code) /\ Untold(prog, code, K) /\ Stripped(prog, code, K)
        /\ Seconds(prog, code, C, C) /\ CallerKept(prog, code, C, C) /\ CallsGone(prog, code, C)
        /\ l \in [Blocks -> Seq(Instrs)]
    BY <2>3 DEF CodeOk, Shaped
  <2>5. \A b \in Blocks : /\ Len(l[b]) \in Nat /\ DOMAIN l[b] = 1 .. Len(l[b])
                          /\ prog.list[b] \in Seq(Instrs) /\ Len(prog.list[b]) \in Nat
                          /\ DOMAIN prog.list[b] = 1 .. Len(prog.list[b])
    BY <2>1, <2>4, ProgramTypes
  <2>6. /\ InMain = MainInstrs(prog) /\ \A b \in Blocks : In(b) = Range(prog.list[b])
    BY <2>1, CallsMeant
  <2>7. Removed = C \cup {LastOf(prog, b) : b \in Ends}
    <3>1. \A c, b : ExitBlocks(c) = ExitsOf(prog, c) /\ ExitOf(b) = LastOf(prog, b)
      BY DEF ExitBlocks, ExitsOf, ExitOf, LastOf
    <3> QED BY <3>1, <2>1 DEF Removed
  <2>8. \A i : i \in Kept <=> /\ i \notin Removed
                              /\ \E b \in MainBlocks(prog) \cup UNION {InnerOf(prog, c) : c \in C} :
                                   i \in Range(prog.list[b])
    <3>1. MainBlocks(prog) \cup UNION {InnerOf(prog, c) : c \in C} \subseteq Blocks
      BY <2>1, InnerShape DEF MainBlocks, Foreign
    <3> DEFINE B == MainBlocks(prog) \cup UNION {InnerOf(prog, c) : c \in C}
    <3>2. KeptBlocks = B
      BY <2>1 DEF KeptBlocks, MainBlocks, InnerOf, Inner
    <3> HIDE DEF B
    <3>3. \A i : i \in Kept <=> i \notin Removed /\ \E b \in B : i \in In(b)
      BY <3>2 DEF Kept
    <3>4. \A b \in B : In(b) = Range(prog.list[b])
      BY <3>1, <2>6 DEF B
    <3>5. \A i : i \in Kept <=> i \notin Removed /\ \E b \in B : i \in Range(prog.list[b])
      BY <3>3, <3>4
    <3> QED BY <3>5 DEF B
  <2>9. \A i : i \in Listed <=> i \in Instrs /\ \E b \in Reached : i \in Range(l[b])
    BY <2>1, <2>4 DEF Listed, Slots, Range
  <2>10. ASSUME NEW b \in Blocks, NEW i \in Range(l[b])
         PROVE  i \in Instrs /\ \E k \in 1 .. Len(l[b]) : l[b][k] = i
    BY <2>4, <2>5 DEF Range
  <2>11. \A c \in C : c \in MainInstrs(prog)
    BY <2>1, SitesInMain
  <2>12. \A c \in C : Cardinality(Returns(c)) > 1 <=> Merges(prog, c)
    BY <2>1, ReturnsCounted
  <2>13. Ends \subseteq Foreign(prog)
    BY <2>1, InnerShape
  <2>14. ASSUME NEW i, NEW b \in Blocks, i \in Range(prog.list[b]), NEW a \in Ends, i = LastOf(prog, a)
         PROVE  a = b
    <3>1. a \in Blocks /\ i \in Instrs
      BY <2>5, <2>13, <2>14 DEF Foreign, Range
    <3>2. prog.list[a] # << >> /\ i = prog.list[a][Len(prog.list[a])]
      BY <3>1, <2>14, NamesAssumption DEF LastOf
    <3>3. Len(prog.list[a]) \in DOMAIN prog.list[a]
      BY <3>1, <3>2, <2>5
    <3>4. PICK k \in DOMAIN prog.list[b] : i = prog.list[b][k]
      BY <2>14 DEF Range
    <3>5. PICK j \in DOMAIN prog.list[a] : i = prog.list[a][j]
      BY <3>2, <3>3
    <3>6. b \in Blocks /\ prog.list[a][j] = prog.list[b][k]
      BY <3>4, <3>5, <2>14
    <3> QED BY <3>1, <3>6, <2>1, ProgramTypes
  <2>15. \A i \in MainInstrs(prog) : i \in Removed => i \in C
    <3> SUFFICES ASSUME NEW i \in MainInstrs(prog), NEW a \in Ends, i = LastOf(prog, a) PROVE FALSE
      BY <2>7
    <3>1. PICK b \in MainBlocks(prog) : i \in Range(prog.list[b])
      BY DEF MainInstrs
    <3>2. b \in Blocks /\ b \notin Foreign(prog)
      BY <2>1, MainNotForeign
    <3> QED BY <3>1, <3>2, <2>13, <2>14
  <2> HIDE DEF C, K, l, Ends
  <2>16. ASSUME NEW i \in Kept PROVE i \in Listed
    <3>1. PICK b \in MainBlocks(prog) \cup UNION {InnerOf(prog, c) : c \in C} : i \in Range(prog.list[b])
      BY <2>8
    <3>2. CASE b \in MainBlocks(prog)
      <4>1. i \in MainInstrs(prog) \ C
        BY <3>1, <3>2, <2>7, <2>8 DEF MainInstrs
      <4>2. PICK a \in MainBlocks(prog) \cup {prog.spare[d] : d \in C} : i \in Range(l[a])
        BY <4>1, <2>4 DEF CallerKept, l
      <4>3. a \in Reached
        BY <2>1 DEF Owned
      <4> QED BY <4>2, <4>3, <2>1, <2>9, <2>10
    <3>3. CASE b \in UNION {InnerOf(prog, c) : c \in C}
      <4>1. b \in Foreign(prog) /\ b \in Reached /\ b \in Blocks
        BY <3>3, <2>1, InnerShape DEF Owned, C
      <4>2. i \in Range(l[b])
        <5>1. CASE b \in K
          <6>1. i # LastOf(prog, b)
            BY <5>1, <2>2, <2>7, <2>8
          <6> QED BY <5>1, <6>1, <3>1, <2>4 DEF Stripped, l
        <5>2. CASE b \notin K
          BY <5>2, <4>1, <3>1, <2>4 DEF Untold, l
        <5> QED BY <5>1, <5>2
      <4> QED BY <4>1, <4>2, <2>9, <2>10
    <3> QED BY <3>2, <3>3
  <2>17. ASSUME NEW i \in Phis PROVE i \in Listed
    <3>1. PICK c \in C : Merges(prog, c) /\ i = prog.phi[c]
      BY <2>1, <2>12 DEF Phis
    <3>2. prog.spare[c] \in Reached /\ i \in Range(l[prog.spare[c]])
      BY <3>1, <2>1, <2>4 DEF Seconds, Owned, C, l
    <3> QED BY <3>2, <2>1, <2>9, <2>10
  <2>18. ASSUME NEW i \in Listed, i \notin Kept, i \notin Phis
         PROVE  i \in Removed /\ prog.list[HomeOf(i)][1] = i
    <3>1. PICK b \in Reached : i \in Range(l[b])
      BY <2>9
    <3>2. PICK k \in 1 .. Len(l[b]) : l[b][k] = i
      BY <3>1, <2>1, <2>10
    <3>3. b \in Blocks /\ i \in Instrs
      BY <3>1, <2>1, <2>10
    <3>4. CASE b \in MainBlocks(prog) \cup UNION {InnerOf(prog, c) : c \in C}
      <4>1. ~ IsSpare(prog, b)
        BY <3>4, <2>1, SpareIsNew, InnerShape DEF C
      <4>2. Len(l[b]) <= Len(prog.list[b]) /\ \A j \in 1 .. Len(l[b]) : l[b][j] = prog.list[b][j]
        BY <4>1, <3>3, <2>4 DEF Truncated, l
      <4>3. k \in 1 .. Len(prog.list[b]) /\ prog.list[b][k] = i
        BY <3>2, <3>3, <4>2, <2>5
      <4>4. i \in Range(prog.list[b])
        BY <4>3, <3>3, <2>5 DEF Range
      <4>5. i \in Removed
        BY <3>4, <4>4, <2>8, <2>18
      <4>6. HomeOf(i) = b
        <5>1. ASSUME NEW a \in Blocks, i \in Range(prog.list[a]) PROVE a = b
          BY <5>1, <4>4, <3>3, <2>1, ProgramTypes DEF Range
        <5>2. b \in Blocks /\ i \in In(b) /\ \A a \in Blocks : i \in In(a) => a = b
          BY <5>1, <4>4, <3>3, <2>6
        <5> QED BY <5>2 DEF HomeOf
      <4>7. prog.list[b][1] = i
        <5>1. CASE b \in MainBlocks(prog)
          <6>1. i \in MainInstrs(prog)
            BY <5>1, <4>4 DEF MainInstrs
          <6>2. i \in C
            BY <6>1, <4>5, <2>15
          <6>3. l[b][1] = i
            BY <6>2, <3>1, <3>3, <2>4 DEF CallsGone, l
          <6>4. 1 \in 1 .. Len(l[b])
            BY <3>2, <3>3, <2>5
          <6> QED BY <6>3, <6>4, <4>2
        <5>2. CASE b \in UNION {InnerOf(prog, c) : c \in C}
          <6>1. b \in Foreign(prog)
            BY <5>2, <2>1, InnerShape DEF C
          <6>2. i \notin C
            BY <6>1, <4>4, <2>1, <2>11, MainInstrShape
          <6>3. PICK a \in Ends : i = LastOf(prog, a)
            BY <6>2, <4>5, <2>7
          <6>4. a = b
            BY <6>3, <3>3, <4>4, <2>14
          <6>5. b \in K /\ i = LastOf(prog, b)
            BY <6>3, <6>4, <2>2
          <6> QED BY <6>5, <4>4, <3>1, <2>4 DEF Stripped, l
        <5> QED BY <3>4, <5>1, <5>2
      <4> QED BY <4>5, <4>6, <4>7
    <3>5. CASE \E d \in C : b = prog.spare[d]
      <4>1. PICK d \in C : b = prog.spare[d]
        BY <3>5
      <4>2. /\ i \in MainInstrs(prog) \cup {prog.phi[d]}
            /\ prog.phi[d] \in Range(l[b]) => Merges(prog, d)
        BY <4>1, <3>1, <2>4 DEF Seconds, C, l
      <4>3. i # prog.phi[d]
        <5>1. Merges(prog, d) => prog.phi[d] \in Phis
          BY <2>1, <2>12 DEF Phis
        <5> QED BY <5>1, <4>2, <3>1, <2>18
      <4>4. i \in MainInstrs(prog) /\ i \in Removed
        BY <4>2, <4>3, <2>8, <2>18 DEF MainInstrs
      <4>5. i \in C
        BY <4>4, <2>15
      <4>6. b \in MainBlocks(prog)
        BY <4>5, <3>1, <3>3, <2>4 DEF CallsGone, l
      <4> QED BY <4>1, <4>6, <2>1, SpareShape DEF C
    <3> QED BY <3>4, <3>5, <2>1 DEF Owned
  <2>19. ASSUME NEW i \in Instrs PROVE Cardinality(ListedAt(code.list, i) \cap Reached) <= 1
    <3> DEFINE S == ListedAt(code.list, i) \cap Reached
    <3>1. \A b \in S : b \in Blocks /\ \E k \in 1 .. Len(l[b]) : l[b][k] = i
      <4> SUFFICES ASSUME NEW b \in S PROVE b \in Blocks /\ \E k \in 1 .. Len(l[b]) : l[b][k] = i
        OBVIOUS
      <4>1. b \in Blocks /\ Slots(l[b], i) # {}
        BY DEF ListedAt, l
      <4> QED BY <4>1, <2>5 DEF Slots
    <3>2. \A a, b \in S : a = b
      BY <3>1, <2>4 DEF OnePlace, l
    <3> HIDE DEF S
    <3>3. CASE S = {}
      BY <3>3, FS_EmptySet DEF S
    <3>4. CASE S # {}
      <4>1. PICK b \in S : S = {b}
        BY <3>2, <3>4
      <4>2. Cardinality(S) = 1
        BY <4>1, FS_Singleton
      <4> QED BY <4>2 DEF S
    <3> QED BY <3>3, <3>4
  <2>20. Kept \cup Phis \subseteq Listed
    BY <2>16, <2>17
  <2> QED BY <2>18, <2>19, <2>20 DEF NothingLost
<1> QED BY <1>1, SpliceInvHolds, CodeInvHolds, PTL
================================================================================
