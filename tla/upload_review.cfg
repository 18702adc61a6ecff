SPECIFICATION Spec
CONSTANTS
  root = root
  sub = sub
  None = None
  Units = {u1}
  Slots = {s1}
  Dirs <- MCRoot
  Parent <- MCRootParent
  MaxAttempts = 2
  MaxOrphans = 1
  FailureClasses = {"permission", "transport"}
PROPERTIES
  ReviewIsRecorded
