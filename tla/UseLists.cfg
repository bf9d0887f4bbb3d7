SPECIFICATION Spec
CONSTANTS
  Instrs = {i1, i2, i3, i4}
  Dynamic = {i4}
  NoDef = NoDef
  Label = Label
  NoArg = NoArg
  MaxInputs = 2
  OtherArgs = {Label}
INVARIANTS
  UsersMirrorUses
  FaultsExplained
CHECK_DEADLOCK FALSE
