SPECIFICATION Spec
CONSTANTS
  root = root
  sub = sub
  top = top
  low = low
  Files <- MCFiles
  Folders <- MCFolders
  Root = root
  In <- MCIn
  Workers = 2
  MaxRetries = 2
  Freezers = {p1, p2}
  MaxChanges = 1
  None = None
SYMMETRY Symmetry
INVARIANTS TypeOK DigestHolds FrozenIsWhole FreshMeansSame
