SPECIFICATION Spec
CONSTANTS
  root = root
  sub = sub
  None = None
  Units = {u1, u2, u3}
  Slots = {s1, s2}
  Dirs <- MCDirs
  Parent <- MCParent
  MaxAttempts = 1
  MaxOrphans = 2
  FailureClasses = {"authentication", "transport"}
SYMMETRY Symmetry
INVARIANTS
  CompleteIsStored
  AcceptedIsStored
  FoldersFirst
  SlotsExclusive
PROPERTIES
  StopHolds
