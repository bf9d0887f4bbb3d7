---------------------------- MODULE InstrSequences ----------------------------
(***************************************************************************)
(* What the instruction lists of basic blocks promise: every block holds a *)
(* sequence of instructions, no instruction is in two places, and each     *)
(* operation changes exactly the sequences it names.  InstrList implements *)
(* this with prev/next pointers.                                           *)
(***************************************************************************)
EXTENDS SequencesExt

CONSTANTS Blocks,  \* basic blocks
          Instrs   \* instructions

VARIABLE list      \* list[b]: the instructions of block b, first to last

Placed == UNION {ToSet(list[b]) : b \in Blocks}

Init == list = [b \in Blocks |-> << >>]

\* An empty block is filled with instructions that are nowhere yet.
Fill(b) == /\ list[b] = << >>
           /\ IsInjective(list'[b]) /\ ToSet(list'[b]) \subseteq Instrs \ Placed
           /\ list' = [list EXCEPT ![b] = list'[b]]

Insert(b) == \E i \in Instrs \ Placed, k \in 1 .. Len(list[b]) + 1 :
               /\ list[b] # << >>
               /\ list' = [list EXCEPT ![b] = InsertAt(@, k, i)]

Take(b) == \E k \in 1 .. Len(list[b]) : list' = [list EXCEPT ![b] = RemoveAt(@, k)]

\* What follows position k moves to a block that held nothing.
Split(b, c) == \E k \in 1 .. Len(list[b]) - 1 :
                 /\ list[c] = << >>
                 /\ list' = [list EXCEPT ![b] = SubSeq(@, 1, k),
                                         ![c] = SubSeq(list[b], k + 1, Len(list[b]))]

Next == \/ \E b \in Blocks : Fill(b) \/ Insert(b) \/ Take(b)
        \/ \E b, c \in Blocks : b # c /\ Split(b, c)

Spec == Init /\ [][Next]_list
=============================================================================
