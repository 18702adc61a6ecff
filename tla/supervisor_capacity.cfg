SPECIFICATION FairSpec
CONSTANTS
  Folders = {f1, f2}
  Operated = {}
  MaxAttempts = 2
  Acknowledged = FALSE
  QuotaLeft = FALSE
  MaxMishaps = 1
  MaxCommands = 0
  None = None
PROPERTIES
  FinishesOrAsks
