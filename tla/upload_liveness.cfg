SPECIFICATION FairSpec
CONSTANTS
  root = root
  sub = sub
  None = None
  Units = {u1, u2}
  Slots = {s1}
  Dirs <- MCRoot
  Parent <- MCRootParent
  MaxAttempts = 2
  MaxOrphans = 1
  FailureClasses = {"transport"}
INVARIANTS
  TypeOK
  LaunchesBounded
  RunTriesAll
PROPERTIES
  FinishTellsTruth
  KeepsContract
  RunEnds
