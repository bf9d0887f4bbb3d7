SPECIFICATION InlineSpec
CONSTANTS
  R = R
  A = A
  B = B
  E = E
  f0 = f0
  f1 = f1
  f2 = f2
  f3 = f3
  fe = fe
  g0 = g0
  g1 = g1
  ge = ge
  S1 = S1
  S2 = S2
  konst = konst
  mv = mv
  c1 = c1
  u = u
  c2 = c2
  v = v
  ret = ret
  p = p
  ck = ck
  sv = sv
  t = t
  r1 = r1
  r2 = r2
  q = q
  w = w
  r3 = r3
  ph1 = ph1
  ph2 = ph2
  NoDef = NoDef
  Label = Label
  NoArg = NoArg
  Gone = Gone
  Unset = Unset
  NoInstr = NoInstr
  Main = "main"
  Limit = 6
  Blocks <- MCBlocks
  Instrs <- MCInstrs
  Dynamic <- MCDynamic
  Programs <- MCPrograms
INVARIANT
  ReturnsMerged
CHECK_DEADLOCK FALSE
