------------------------------- MODULE InstrList -------------------------------
(***************************************************************************)
(* The instruction list of a basic block (basic_block.h, basic_block.cpp): *)
(* first_instr_ and last_instr_ of class BasicBlock, prev_, next_ and bb_  *)
(* of class InstructionBase.                                               *)
(*                                                                         *)
(* The operations work on whatever the pointers say; what keeps the lists  *)
(* well formed is partly the code and partly how it is called.  The calls  *)
(* that break them are admitted by the two constants below.                *)
(***************************************************************************)
EXTENDS SequencesExt, Naturals

CONSTANTS
  Blocks,       \* BasicBlock objects
  Instrs,       \* InstructionBase objects
  Null,         \* nullptr
  Gone,         \* a BasicBlock temporary that no longer exists
  KeepOne,      \* TRUE: the only instruction of a block is never removed
  CleanInsert   \* TRUE: what InsertInstrBefore puts in front of the first
                \* instruction has no prev_ left from an earlier place

ASSUME InstrsAssumption == IsFiniteSet(Instrs)
ASSUME PointersAssumption == /\ Null \notin Instrs \cup Blocks
                             /\ Gone \notin Blocks \cup {Null}
ASSUME DisciplineAssumption == KeepOne \in BOOLEAN /\ CleanInsert \in BOOLEAN

VARIABLES
  first,  \* first_instr_ of every block
  last,   \* last_instr_ of every block
  prev,   \* prev_ of every instruction
  next,   \* next_ of every instruction
  bb      \* bb_ of every instruction

vars == <<first, last, prev, next, bb>>

\* The instructions met from i on along link, stopping after one more step
\* than there are instructions (a cycle).
Follow(link, i) ==
  LET walk[n \in 0 .. Cardinality(Instrs) + 1] == [j \in Instrs \cup {Null} |->
        IF n = 0 \/ j = Null THEN << >> ELSE <<j>> \o walk[n - 1][link[j]]]
  IN  walk[Cardinality(Instrs) + 1][i]

\* BasicBlock::GetAllInstrs.
GetAllInstrs(b) == Follow(next, first[b])

\* Instruction i comes after other, or is other: the walk along prev_ from i
\* meets it (InstructionBase::IsNextTo).
IsNextTo(i, other) == Contains(Follow(prev, i), other)

Listed == UNION {ToSet(GetAllInstrs(b)) : b \in Blocks}

-----------------------------------------------------------------------------
\* The links MakeBasicBlock writes for the instructions of q; it leaves prev_
\* of the first and next_ of the last alone.
Linked(q) ==
  LET links == {<<q[n], q[n + 1]>> : n \in 1 .. Len(q) - 1}
  IN  /\ next' = [i \in Instrs |-> IF \E e \in links : e[1] = i
                                     THEN (CHOOSE e \in links : e[1] = i)[2]
                                     ELSE next[i]]
      /\ prev' = [i \in Instrs |-> IF \E e \in links : e[2] = i
                                     THEN (CHOOSE e \in links : e[2] = i)[1]
                                     ELSE prev[i]]

\* b = MakeBasicBlock(q), a variable initialised with the result: the local of
\* MakeBasicBlock is constructed in b, so &bb is b.
MakeBasicBlock(b, q) ==
  /\ first[b] = Null /\ last[b] = Null
  /\ q # << >> /\ IsInjective(q)
  /\ \A i \in ToSet(q) : i \notin Listed /\ prev[i] = Null /\ next[i] = Null
  /\ Linked(q)
  /\ first' = [first EXCEPT ![b] = q[1]]
  /\ last' = [last EXCEPT ![b] = Last(q)]
  /\ bb' = [i \in Instrs |-> IF i \in ToSet(q) THEN b ELSE bb[i]]

RemoveFirstInstr(b) ==
  /\ first[b] # Null
  /\ KeepOne => first[b] # last[b]
  /\ LET newFirst == next[first[b]]
     IN  /\ prev' = [i \in Instrs |-> IF i = newFirst THEN Null ELSE prev[i]]
         /\ next' = [next EXCEPT ![first[b]] = Null]
         /\ first' = [first EXCEPT ![b] = newFirst]
  /\ UNCHANGED <<last, bb>>

\* Mutant of RemoveLastInstr: the new last instruction keeps its next_.
RemoveLastInstrKeepsNext(b) ==
  /\ last[b] # Null
  /\ KeepOne => first[b] # last[b]
  /\ prev' = [prev EXCEPT ![last[b]] = Null]
  /\ last' = [last EXCEPT ![b] = prev[last[b]]]
  /\ UNCHANGED <<first, next, bb>>

RemoveLastInstr(b) ==
  /\ last[b] # Null
  /\ KeepOne => first[b] # last[b]
  /\ LET newLast == prev[last[b]]
     IN  /\ next' = [i \in Instrs |-> IF i = newLast THEN Null ELSE next[i]]
         /\ prev' = [prev EXCEPT ![last[b]] = Null]
         /\ last' = [last EXCEPT ![b] = newLast]
  /\ UNCHANGED <<first, bb>>

\* The links of an instruction taken out of the middle are not reset.
Unlink(i) == /\ prev[i] # Null /\ next[i] # Null
             /\ next' = [next EXCEPT ![prev[i]] = next[i]]
             /\ prev' = [prev EXCEPT ![next[i]] = prev[i]]
             /\ UNCHANGED <<first, last, bb>>

\* The caller passes an instruction of the list; bb_ is asserted.
RemoveInstr(b, i) ==
  /\ bb[i] = b
  /\ Contains(GetAllInstrs(b), i)
  /\ \/ i = first[b] /\ RemoveFirstInstr(b)
     \/ i # first[b] /\ i = last[b] /\ RemoveLastInstr(b)
     \/ i # first[b] /\ i # last[b] /\ Unlink(i)

\* at is in the list of b, i is in no list.
InsertInstrBefore(b, at, i) ==
  /\ Contains(GetAllInstrs(b), at) /\ i \notin Listed
  /\ CleanInsert => prev[at] # Null \/ prev[i] = Null
  /\ bb' = [bb EXCEPT ![i] = b]
  /\ next' = [j \in Instrs |-> IF j = i THEN at
                               ELSE IF j = prev[at] THEN i ELSE next[j]]
  /\ prev' = [prev EXCEPT ![i] = IF prev[at] # Null THEN prev[at] ELSE @,
                          ![at] = i]
  /\ first' = [first EXCEPT ![b] = IF at = @ THEN i ELSE @]
  /\ UNCHANGED last

\* Mutant of InsertInstrAfter: SetBasicBlock is missing.
InsertInstrAfterUnowned(b, at, i) ==
  /\ Contains(GetAllInstrs(b), at) /\ i \notin Listed
  /\ prev' = [j \in Instrs |-> IF j = i THEN at
                               ELSE IF j = next[at] THEN i ELSE prev[j]]
  /\ next' = [next EXCEPT ![i] = next[at], ![at] = i]
  /\ last' = [last EXCEPT ![b] = IF at = @ THEN i ELSE @]
  /\ UNCHANGED <<first, bb>>

InsertInstrAfter(b, at, i) ==
  /\ Contains(GetAllInstrs(b), at) /\ i \notin Listed
  /\ bb' = [bb EXCEPT ![i] = b]
  /\ prev' = [j \in Instrs |-> IF j = i THEN at
                               ELSE IF j = next[at] THEN i ELSE prev[j]]
  /\ next' = [next EXCEPT ![i] = next[at], ![at] = i]
  /\ last' = [last EXCEPT ![b] = IF at = @ THEN i ELSE @]
  /\ UNCHANGED first

\* Mutant of SplitOn: next_ of insn still leads into the second half.
SplitOnKeepsNext(b, i, c) ==
  /\ bb[i] = b /\ Contains(GetAllInstrs(b), i)
  /\ next[i] # Null
  /\ first[c] = Null /\ last[c] = Null /\ b # c
  /\ LET rest == Follow(next, next[i])
     IN  /\ prev' = [prev EXCEPT ![next[i]] = Null]
         /\ bb' = [j \in Instrs |-> IF j \in ToSet(rest) THEN Gone ELSE bb[j]]
         /\ first' = [first EXCEPT ![c] = rest[1]]
         /\ last' = [last EXCEPT ![b] = i, ![c] = Last(rest)]
         /\ UNCHANGED next

\* The instructions behind i go through MakeBasicBlock into a temporary, which
\* is then moved into the allocator's storage as c: their bb_ keeps the address
\* of the temporary.  An instruction whose bb_ is not b is refused; the last
\* one has no next_ to read.
SplitOn(b, i, c) ==
  /\ bb[i] = b /\ Contains(GetAllInstrs(b), i)
  /\ next[i] # Null
  /\ first[c] = Null /\ last[c] = Null /\ b # c
  /\ LET rest == Follow(next, next[i])
     IN  /\ prev' = [prev EXCEPT ![next[i]] = Null]
         /\ next' = [next EXCEPT ![i] = Null]
         /\ bb' = [j \in Instrs |-> IF j \in ToSet(rest) THEN Gone ELSE bb[j]]
         /\ first' = [first EXCEPT ![c] = rest[1]]
         /\ last' = [last EXCEPT ![b] = i, ![c] = Last(rest)]

Init == /\ first = [b \in Blocks |-> Null]
        /\ last = [b \in Blocks |-> Null]
        /\ prev = [i \in Instrs |-> Null]
        /\ next = [i \in Instrs |-> Null]
        /\ bb = [i \in Instrs |-> Null]

Next == \E b \in Blocks :
          \/ \E q \in UNION {[1 .. n -> Instrs] : n \in 1 .. Cardinality(Instrs)} :
               MakeBasicBlock(b, q)
          \/ RemoveFirstInstr(b)
          \/ RemoveLastInstr(b)
          \/ \E i \in Instrs : RemoveInstr(b, i)
          \/ \E at, i \in Instrs : \/ InsertInstrBefore(b, at, i)
                                   \/ InsertInstrAfter(b, at, i)
          \/ \E i \in Instrs, c \in Blocks : SplitOn(b, i, c)

Spec == Init /\ [][Next]_vars

-----------------------------------------------------------------------------
\* Both directions tell the same story: from last_instr_ along prev_ the list
\* is met backwards, and no instruction is in the lists of two blocks.  The
\* links removed instructions keep lead into lists but never out of them.  So the
\* order that IsNextTo tells, by which IsDominatedBy decides inside a block, is that
\* of the list.
ChainsAgree ==
  /\ \A b \in Blocks :
       LET q == GetAllInstrs(b)
       IN  /\ Follow(prev, last[b]) = Reverse(q)
           /\ \A m, n \in DOMAIN q : IsNextTo(q[m], q[n]) <=> n <= m
  /\ \A b, c \in Blocks :
       b # c => ToSet(GetAllInstrs(b)) \cap ToSet(GetAllInstrs(c)) = {}

\* bb_ of a listed instruction names its block or a destroyed temporary, never
\* another block: the assertion of RemoveInstr and the refusal of SplitOn can
\* be too strict after a split but never let a wrong block through.
BbNeverAnotherBlock ==
  \A b \in Blocks : \A i \in ToSet(GetAllInstrs(b)) : bb[i] \in {b, Gone}

\* The pointers implement one sequence of instructions per block.
Lists == INSTANCE InstrSequences WITH list <- [b \in Blocks |-> GetAllInstrs(b)]
ListsSpec == Lists!Spec
=============================================================================
