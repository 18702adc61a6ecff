SPECIFICATION Spec
CONSTANTS
  MaxEntries = 4
  Sizes = {1, 3}
  Limits <- MCLimits
  None = None
  Timed = {2, 4}
INVARIANTS TypeOK EveryEntryOnce LandsInPlace UnitsFit OnlyWholePlans ListingDecides
