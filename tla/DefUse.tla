-------------------------------- MODULE DefUse --------------------------------
(***************************************************************************)
(* Def-use edges between instructions (instruction.h): users_ of class     *)
(* InstructionBase and inputs_ of its subclasses.                          *)
(*                                                                         *)
(* Every use is stored twice, as an input of the user and as an entry in   *)
(* users_ of the definition, and no operation writes both sides: the       *)
(* passes call them in pairs, or do not.  The operators below are the      *)
(* member functions, on a value m of the whole instruction store; a user   *)
(* list is the bag of its entries, as no function depends on its order.    *)
(***************************************************************************)
EXTENDS Sequences, Integers, FiniteSets

CONSTANTS
  Instrs,    \* InstructionBase objects
  Dynamic,   \* those of class DynamicInputInstr; the others have fixed slots
  NoDef,     \* an InstrArg whose ref_ is nullptr
  Label,     \* an InstrArg of type id or callee_graph: def() asserts
  NoArg      \* a nullptr in a fixed slot, left by the removal of an input

ASSUME InstrsAssumption == IsFiniteSet(Instrs) /\ Dynamic \subseteq Instrs
ASSUME ArgsAssumption == /\ {NoDef, Label, NoArg} \cap Instrs = {}
                         /\ NoArg \notin {NoDef, Label}

Slots(s, a) == {k \in DOMAIN s : s[k] = a}
Uses(m, u, d) == Cardinality(Slots(m.ins[u], d))
UsersOf(m, d) == {u \in Instrs : m.users[d][u] > 0}
NoUsers == [u \in Instrs |-> 0]

Less(n, k) == IF k < n THEN n - k ELSE 0

RemoveUser(m, d, u) == [m EXCEPT !.users[d][u] = Less(@, 1)]

\* new->AddUsers(old->GetUsers()).
AddUsers(m, new, old) ==
  [m EXCEPT !.users[new] = [u \in Instrs |-> @[u] + m.users[old][u]]]

\* s without its holes.
Packed(s) ==
  LET kept == {k \in DOMAIN s : s[k] # NoArg}
  IN  [n \in 1 .. Cardinality(kept) |->
         s[CHOOSE k \in kept : Cardinality({j \in kept : j <= k}) = n]]

\* The inputs of u after c calls of TryRemoveInput(d): the first c uses of d go.
Dropped(m, u, d, c) ==
  LET s == m.ins[u]
      holes == [k \in DOMAIN s |-> IF s[k] = d /\ Cardinality(Slots(SubSeq(s, 1, k), d)) <= c
                                     THEN NoArg ELSE s[k]]
  IN  IF u \in Dynamic THEN Packed(holes) ELSE holes

RemoveInput(m, u, d) == [m EXCEPT !.ins[u] = Dropped(m, u, d, 1)]

\* Mutant of Redirected: only the first use is redirected.
RedirectedOnce(s, d, new) ==
  [k \in DOMAIN s |-> IF s[k] = d /\ Slots(SubSeq(s, 1, k - 1), d) = {} THEN new ELSE s[k]]

Redirected(s, d, new) == [k \in DOMAIN s |-> IF s[k] = d THEN new ELSE s[k]]

\* The users of d use new instead; nobody tells new, and d keeps its users.
ReplaceInputForUsers(m, d, new) ==
  [m EXCEPT !.ins = [u \in Instrs |-> IF u \in UsersOf(m, d) THEN Redirected(@[u], d, new)
                                                             ELSE @[u]]]

\* The inputs of i list new as a user instead of i; the inputs of new are not
\* touched.
ReplaceUserForInputs(m, i, new) ==
  [m EXCEPT !.users = [d \in Instrs |->
     [@[d] EXCEPT ![i] = Less(@, Uses(m, i, d)), ![new] = @ + Uses(m, i, d)]]]

\* Mutant of Forget: a user is removed once, however often it uses d.
ForgetOnce(m, i, d) == [m.users[d] EXCEPT ![i] = Less(@, 1)]

\* users_ of d when each input of i that is d has called TryRemoveUser(i).
Forget(m, i, d) == [m.users[d] EXCEPT ![i] = Less(@, Uses(m, i, d))]

Emptied(m, i) == IF i \in Dynamic THEN << >> ELSE [k \in DOMAIN m.ins[i] |-> NoArg]

\* i stays in its block as a NOP without inputs and users.
MakeNop(m, i) ==
  [op |-> [m.op EXCEPT ![i] = "NOP"],
   ins |-> [u \in Instrs |-> IF u = i THEN Emptied(m, i)
                                      ELSE Dropped(m, u, i, m.users[i][u])],
   users |-> [d \in Instrs |-> IF d = i THEN NoUsers ELSE Forget(m, i, d)]]

(***************************************************************************)
(* Where these functions fail: def() of a null argument dereferences it,   *)
(* def() of a label or callee asserts, and a null definition has no users. *)
(***************************************************************************)
Unreadable == {NoArg, Label}

ReplaceInputFails(m, d) ==
  \E u \in UsersOf(m, d) : \E a \in Unreadable : Slots(m.ins[u], a) # {}

\* RemoveInput reads what is in front of its match; in fixed slots it steps over
\* the holes.
RemoveInputFails(m, u, d) ==
  LET s == m.ins[u]
  IN  \E k \in DOMAIN s : /\ s[k] \in IF u \in Dynamic THEN Unreadable ELSE {Label}
                          /\ Slots(SubSeq(s, 1, k), d) = {}

\* So does each of c calls of TryRemoveInput, which steps over nothing, the holes
\* of the calls before it included.
DropFails(m, u, d, c) ==
  LET s == m.ins[u]
  IN  \/ \E k \in DOMAIN s : /\ s[k] \in Unreadable
                             /\ Cardinality(Slots(SubSeq(s, 1, k), d)) < c
      \/ c > 1 /\ u \notin Dynamic /\ Slots(s, d) # {}

MakeNopFails(m, i) == \/ \E u \in UsersOf(m, i) : DropFails(m, u, i, m.users[i][u])
                      \/ \E k \in DOMAIN m.ins[i] : m.ins[i][k] \notin Instrs
=============================================================================
