SPECIFICATION FairSpec
CONSTANTS
  Folders = {f1, f2}
  Operated = {"inventory", "remediate", "verify-local", "upload", "upload-plan", "completion"}
  MaxAttempts = 2
  Acknowledged = TRUE
  QuotaLeft = TRUE
  MaxMishaps = 2
  MaxCommands = 1
  None = None
INVARIANTS
  TypeOK
  HandoffIsTrue
PROPERTIES
  QuietRunFinishes
  EndsAsExpected
