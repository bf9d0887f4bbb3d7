-------------------------------- MODULE UseLists --------------------------------
(***************************************************************************)
(* Clients of the def-use edges: instructions are created, replaced,       *)
(* removed and relieved of single inputs in any order.  What src/ does     *)
(* with an instruction in one go is one action, a sequence of the calls of *)
(* DefUse.                                                                 *)
(***************************************************************************)
EXTENDS DefUse

CONSTANTS
  MaxInputs,   \* bound: the most inputs an instruction has
  OtherArgs    \* the arguments besides instructions that clients pass

ASSUME ClientAssumption == MaxInputs \in Nat /\ OtherArgs \subseteq {NoDef, Label}

VARIABLES
  store,    \* op_, inputs_ and users_ of all instructions
  lost,     \* history: instructions that were given users nobody told them of, and
            \* those that took over the users of such an instruction
  stale,    \* history: parameters that were replaced and kept their users_, and
            \* the arguments that took users over from such a parameter
  inlined,  \* the arguments <<call, position>> that were passed on, each once
  fault     \* the instruction one of whose functions dereferenced a null pointer
            \* or failed an assertion, if any

history == <<lost, stale, inlined>>
vars == <<store, history, fault>>

Live == {i \in Instrs : store.op[i] = "live"}
Fresh == {i \in Instrs : store.op[i] = "none"}

\* Create, and AddUsers on each definition, once per use.
Create(i, s) ==
  /\ i \in Fresh
  /\ store' = [op |-> [store.op EXCEPT ![i] = "live"],
               ins |-> [store.ins EXCEPT ![i] = s],
               users |-> [d \in Instrs |-> [store.users[d] EXCEPT
                            ![i] = Cardinality(Slots(s, d))]]]
  /\ UNCHANGED <<history, fault>>

Fails(i) == fault' = {i} /\ UNCHANGED <<store, history>>

MakeNopOn(i) ==
  /\ i \in Live
  /\ IF MakeNopFails(store, i)
       THEN Fails(i)
       ELSE store' = MakeNop(store, i) /\ UNCHANGED <<history, fault>>

\* What CheckElimination does with a superfluous check i: its users use new
\* instead, and it becomes a NOP.
Eliminate(i, new) ==
  /\ i \in Live /\ new \in Live \ {i}
  /\ Slots(store.ins[new], i) = {}
  /\ LET m == ReplaceInputForUsers(store, i, new)
     IN  IF ReplaceInputFails(store, i) \/ MakeNopFails(m, i)
           THEN Fails(i)
           ELSE /\ store' = MakeNop(m, i)
                /\ lost' = lost \cup {x \in {new} : UsersOf(store, i) # {}}
                /\ UNCHANGED <<stale, inlined, fault>>

\* What Inlining does with the k-th input new of a call c, for which the callee
\* has the parameter p: the users of p use new, which learns of them and forgets
\* the call.  Nobody clears the users of p.
Substitute(c, k, p) ==
  /\ {c, p} \subseteq Live /\ store.ins[p] = << >>
  /\ store.ins[c] # << >> /\ Head(store.ins[c]) = Label
  /\ k \in DOMAIN Tail(store.ins[c]) /\ <<c, k>> \notin inlined
  /\ LET new == Tail(store.ins[c])[k]
     IN  /\ new \in Live \ {c, p} /\ Uses(store, new, p) = 0
         /\ IF ReplaceInputFails(store, p)
              THEN Fails(p)
              ELSE /\ store' = RemoveUser(AddUsers(ReplaceInputForUsers(store, p, new), new, p),
                                          new, c)
                   /\ lost' = lost \cup {x \in {new} : p \in lost}
                   /\ stale' = stale \cup {p} \cup {x \in {new} : p \in stale}
                   /\ inlined' = inlined \cup {<<c, k>>}
                   /\ UNCHANGED fault

\* Both ends of one use are removed.
Unuse(i, d) ==
  /\ i \in Live /\ Uses(store, i, d) > 0
  /\ IF RemoveInputFails(store, i, d)
       THEN Fails(i)
       ELSE /\ store' = RemoveInput(RemoveUser(store, d, i), i, d)
            /\ UNCHANGED <<history, fault>>

Init == /\ store = [op |-> [i \in Instrs |-> "none"],
                    ins |-> [i \in Instrs |-> << >>],
                    users |-> [i \in Instrs |-> NoUsers]]
        /\ lost = {} /\ stale = {} /\ inlined = {}
        /\ fault = {}

Next == /\ fault = {}
        /\ \E i \in Instrs :
             \/ \E n \in 0 .. MaxInputs : \E s \in [1 .. n -> Live \cup OtherArgs] :
                  Create(i, s)
             \/ MakeNopOn(i)
             \/ \E d \in Instrs : \/ Eliminate(i, d)
                                 \/ \E k \in 1 .. MaxInputs : Substitute(i, k, d)
                                 \/ Unuse(i, d)

Spec == Init /\ [][Next]_vars

-----------------------------------------------------------------------------
\* A definition has one entry in users_ for every use of it, multiplicity
\* included: a pass that walks the users meets only instructions that have the
\* input it looks for, and misses none.  Some may be missing for instructions that
\* others were redirected to without being told, as CheckElimination does, and for
\* a call that was inlined, which keeps its arguments.  There may be too many of a
\* parameter that was replaced, and of what replaces it a second time
\* (inlining.cpp:61-62).
UsersMirrorUses ==
  \A d, u \in Instrs :
    LET entries == store.users[d][u]
        uses == Uses(store, u, d)
    IN  /\ entries < uses => d \in lost \/ \E x \in inlined : x[1] = u
        /\ entries > uses => d \in stale

\* A function of i only fails (instruction.h:99, 138, 141, 269, 396) over i itself
\* or a user of it: one with an empty slot or an argument that is no instruction,
\* or whose fixed slots have i and that i lists twice.  A NOP, although it is full
\* of empty slots, is met only through the users_ of a parameter that was replaced.
FaultsExplained ==
  \A i \in fault : \E u \in {i} \cup UsersOf(store, i) :
    LET s == store.ins[u]
    IN  \/ (\E k \in DOMAIN s : s[k] \notin Instrs) /\ (u \in Live \/ i \in stale)
        \/ u \notin Dynamic /\ Slots(s, i) # {} /\ store.users[i][u] > 1
=============================================================================
