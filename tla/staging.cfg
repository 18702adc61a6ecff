SPECIFICATION Spec
CONSTANTS
  outer = outer
  inner = inner
  stray = stray
  Files = {f1, f2}
  Dirs = {outer, inner}
  Strays = {stray}
  Root = Root
  Parent <- MCParent
  MaxFaults = 2
SYMMETRY Symmetry
INVARIANTS
  TypeOK
  AcceptedIsExact
  CleanIsCounted
  TwoRoundsRepair
