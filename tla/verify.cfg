SPECIFICATION FairSpec
CONSTANTS
  Dirs = {d1, d2}
  Slots = {s1, s2}
  MaxAttempts = 2
  FailureClasses = {"authentication", "transport"}
  Discrepancies = {missing}
  None = None
INVARIANTS
  TypeOK
  VerifiedWasSeen
  EvidenceAgrees
PROPERTIES
  FinishTellsTruth
  KeepsContract
  RunListsAll
