SPECIFICATION FairSpec
CONSTANTS
  Launchers = {l1, l2}
  MaxAttempts = 2
  Variants = {{"run-id", "events"}, {}}
  None = None
INVARIANTS
  TypeOK
  CompleteIsQuiet
  OneCommand
  StartsBounded
PROPERTIES
  ClosedLaunchReturns
