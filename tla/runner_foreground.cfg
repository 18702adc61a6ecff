SPECIFICATION FairSpec
CONSTANTS
  Launchers = {l1}
  MaxAttempts = 2
  Variants = {{"run-id", "events"}}
  None = None
PROPERTIES
  LaunchReturns
