------------------------------ MODULE MCInlining ------------------------------
(***************************************************************************)
(* Callers and callees for Inlining: Main calls foo in block A and perhaps *)
(* foo or bar after that, in A or in B.                                    *)
(***************************************************************************)
EXTENDS Inlining, TLC

CONSTANTS R, A, B, E,               \* Main
          f0, f1, f2, f3, fe,       \* foo
          g0, g1, ge,               \* bar
          S1, S2,                   \* second halves
          konst, mv, c1, u, c2, v, ret,  \* Main
          p, ck, sv, t, r1, r2,       \* foo
          q, w, r3,                 \* bar
          ph1, ph2                  \* PHIs

MCBlocks == {R, A, B, E, f0, f1, f2, f3, fe, g0, g1, ge, S1, S2}
MCInstrs == {konst, mv, c1, u, c2, v, ret, p, ck, sv, t, r1, r2, q, w, r3, ph1, ph2}
MCDynamic == {c1, c2, ph1, ph2}

\* [a, b: what A and B hold besides the return; loop: A is a loop of its own;
\*  args, args2: what is passed; uses: what u and v use; second: callee of c2;
\*  front: what c1 has in front of its arguments]
Callers ==
  {[front |-> <<Label>>, a |-> a, b |-> b, loop |-> loop, args |-> args, args2 |-> args2,
    uses |-> uses, second |-> x] :
     a \in {<<mv, c1, u>>, <<c1, u>>, <<mv, c1>>, <<c1, u, c2, v>>}, b \in {<< >>, <<c2, v>>},
     loop \in BOOLEAN, args \in {<< >>, <<konst>>, <<NoDef>>}, args2 \in {<<konst>>, <<c1>>},
     uses \in {<<c1>>, <<c1, c1>>, <<konst>>}, x \in {"foo", "bar"}}

PlainCaller == [front |-> <<Label>>, a |-> <<mv, c1, u>>, b |-> << >>, loop |-> FALSE,
                args |-> <<mv>>, args2 |-> <<konst>>, uses |-> <<c1>>, second |-> "bar"]
TwoCalls == [PlainCaller EXCEPT !.a = <<c1, u>>, !.b = <<c2, v>>, !.loop = TRUE, !.args = <<konst>>,
                                !.uses = <<c1, c1>>]
NoLabel == {[PlainCaller EXCEPT !.front = << >>], [PlainCaller EXCEPT !.front = << >>, !.args = << >>],
            [PlainCaller EXCEPT !.front = <<konst>>], [TwoCalls EXCEPT !.front = <<NoDef>>]}

\* [shape; consts: constants in the root; sum: what sv adds; exits: the ends of
\*  the first and the second block in front of the end]
WrongExits == {<<"RET", << >>>>, <<"RET", <<p, p>>>>, <<"RET_VOID", <<p>>>>, <<"THROW", <<p>>>>}
Exits == {<<"RET", <<x>>>> : x \in {p, ck, sv, NoDef}}
         \cup {<<"RET_VOID", << >>>>, <<"OTHER", << >>>>} \cup WrongExits
Callees == {[shape |-> sh, consts |-> n, sum |-> a, exit1 |-> x, exit2 |-> y] :
              sh \in {"line", "bare", "arms", "loop", "skip", "hollow"}, n \in 0 .. 2,
              a \in {<<p, p>>, <<p, ck>>, << >>}, x \in Exits, y \in Exits}
PlainCallee == [shape |-> "line", consts |-> 1, sum |-> <<p, ck>>, exit1 |-> <<"RET", <<sv>>>>,
                exit2 |-> <<"RET", <<p>>>>]
TypicalCallees == {PlainCallee, [PlainCallee EXCEPT !.shape = "arms"],
                   [PlainCallee EXCEPT !.shape = "loop", !.exit1 = <<"RET", <<ck>>>>],
                   [PlainCallee EXCEPT !.exit1 = <<"THROW", << >>>>]}

\* A callee that does not use what it does not have.
Sensible(f) == /\ f.consts = 0 => f.sum # <<p, ck>> /\ {f.exit1, f.exit2} \cap {<<"RET", <<ck>>>>} = {}
               /\ f.shape \in {"bare", "hollow"} => f.sum = << >> /\ f.exit1[2] # <<sv>>
               /\ {f.exit1, f.exit2} \cap WrongExits # {} => f.sum = << >> /\ f.consts = 1
               /\ f.shape # "arms" => f.exit2 = <<"RET", <<p>>>>

Default(fn, S, x) == [y \in S |-> IF y \in DOMAIN fn THEN fn[y] ELSE x]

Lists(c, f) ==
  R :> <<konst>> @@ A :> c.a @@ B :> Append(c.b, ret) @@ g0 :> <<q>> @@ g1 :> <<w, r3>> @@
  f0 :> (IF f.consts = 0 THEN <<p>> ELSE <<p, ck>>) @@
  CASE f.shape = "line" -> f1 :> <<sv, r1>>
    [] f.shape = "bare" -> f1 :> <<r1>>
    [] f.shape = "hollow" -> f1 :> << >>
    [] f.shape = "arms" -> f1 :> <<sv>> @@ f2 :> <<r1>> @@ f3 :> <<t, r2>>
    [] f.shape = "loop" -> f1 :> <<sv>> @@ f2 :> <<t>> @@ f3 :> <<r1>>
    [] f.shape = "skip" -> f1 :> <<sv>> @@ f2 :> <<t, r1>>

Succs(c, f) ==
  R :> {A} @@ A :> (IF c.loop THEN {A, B} ELSE {B}) @@ B :> {E} @@
  g0 :> {g1} @@ g1 :> {ge} @@ f0 :> {f1} @@
  CASE f.shape \in {"line", "bare", "hollow"} -> f1 :> {fe}
    [] f.shape = "arms" -> f1 :> {f2, f3} @@ f2 :> {fe} @@ f3 :> {fe}
    [] f.shape = "loop" -> f1 :> {f2, f3} @@ f2 :> {f1} @@ f3 :> {fe}
    [] f.shape = "skip" -> f1 :> {f2, fe} @@ f2 :> {fe}

Ins(c, f) ==
  mv :> <<konst>> @@ c1 :> c.front \o c.args @@ u :> c.uses @@
  c2 :> <<Label>> \o c.args2 @@ v :> <<c2>> @@ ret :> <<konst>> @@ w :> <<q>> @@ r3 :> <<w>> @@
  sv :> f.sum @@ t :> <<p>> @@ r1 :> f.exit1[2] @@ r2 :> f.exit2[2]

Ops(f) ==
  [i \in {konst, ck} |-> "CONSTANT"] @@ [i \in {p, q} |-> "PARAMETER"] @@
  [i \in {c1, c2} |-> "CALL"] @@ [i \in {ret, r3} |-> "RET"] @@
  [i \in {mv, u, v, sv, t, w} |-> "ADD"] @@ r1 :> f.exit1[1] @@ r2 :> f.exit2[1]

Program(c, f) ==
  LET list == Default(Lists(c, f), MCBlocks, << >>)
      listed == {i \in MCInstrs : ListedAt(list, i) # {}}
  IN  [list |-> list, succs |-> Default(Succs(c, f), MCBlocks, {}),
       rpo |-> <<R, A, B, E>>,
       root |-> "main" :> R @@ "foo" :> f0 @@ "bar" :> g0,
       end |-> "main" :> E @@ "foo" :> fe @@ "bar" :> ge,
       callee |-> c1 :> "foo" @@ c2 :> c.second,
       spare |-> c1 :> S1 @@ c2 :> S2, phi |-> c1 :> ph1 @@ c2 :> ph2,
       graph |-> [b \in MCBlocks |-> CASE b \in {R, A, B, E} -> "main" [] b \in {g0, g1, ge} -> "bar"
                                       [] b \in {S1, S2} -> "none" [] OTHER -> "foo"],
       id |-> R :> 0 @@ E :> 1 @@ A :> 2 @@ B :> 3 @@ g0 :> 0 @@ ge :> 1 @@ g1 :> 2 @@
              f0 :> 0 @@ fe :> 1 @@ f1 :> 2 @@ f2 :> 3 @@ f3 :> 4 @@ [b \in {S1, S2} |-> Unset],
       op |-> [i \in MCInstrs |-> IF i \in listed THEN Ops(f)[i] ELSE "NONE"],
       ins |-> Default([i \in listed \cap DOMAIN Ins(c, f) |-> Ins(c, f)[i]], MCInstrs, << >>),
       value |-> konst :> 1 @@ ck :> f.consts]

MCPrograms == {Program(c, f) : c \in {PlainCaller, TwoCalls}, f \in {x \in Callees : Sensible(x)}}
              \cup {Program(c, f) : c \in NoLabel \cup {x \in Callers : Slots(x.a, c2) # {} => x.b = << >>},
                                    f \in TypicalCallees}
=============================================================================
