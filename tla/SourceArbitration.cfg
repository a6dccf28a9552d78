CONSTANTS
  Never = Never
  first = first
  second = second
  Connections = {first, second}
  Preferred = "bookmap"
  BookmapStale = 0
  NtStale = 0
  Qualify = 1
  Recover = 1
  MinHold = 0
  Grace = 0
  MaxLag = 0
SPECIFICATION FairSpec
INVARIANTS
  OnlyActiveSourceWrites
PROPERTIES
  UnfitBookmapLeaves
  
CHECK_DEADLOCK FALSE
