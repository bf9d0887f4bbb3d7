--------------------------------- MODULE Walk ---------------------------------
(***************************************************************************)
(* What a client of Traversal relies on: a call answers with a post-order  *)
(* of the blocks reachable from the root, whatever graph it is asked for   *)
(* and however often.                                                      *)
(***************************************************************************)
EXTENDS Reachability

CONSTANTS Root,    \* the block the walk starts in
          Graphs   \* the successor lists a graph may have

VARIABLES succs,   \* the successor list of every block
          calling, \* a client waits for the answer
          answer   \* the last answer, or << >>

vars == <<succs, calling, answer>>

SuccSets == [b \in Blocks |-> {succs[b][i] : i \in 1 .. Len(succs[b])}]

Init == succs \in Graphs /\ calling = FALSE /\ answer = << >>

Call == ~calling /\ calling' = TRUE /\ answer' = << >> /\ UNCHANGED succs

Answer == /\ calling
          /\ calling' = FALSE
          /\ answer' \in Seq(Blocks)
          /\ IsPostOrder(SuccSets, Root, answer')
          /\ UNCHANGED succs

Spec == Init /\ [][Call \/ Answer]_vars
=============================================================================
