SPECIFICATION Spec
CONSTANTS
  Procs = {p1, p2}
  Kinds = {"snapshot", "sweep"}
  TransPerTip = 2
  Cleanup = 2
  Ends = {"committed", "dead"}
  MaxTra = 3
  MaxRetain = 1
  MaxCrash = 1
  MaxWait = 1
SYMMETRY ProcSymmetry
CHECK_DEADLOCK FALSE
INVARIANTS
  OldestActiveIsOldest
  NeighboursAreCut
  NeededVersionsStay
  OnlyTheDeadAreDead
  CacheSound
  AssumedCommitted
PROPERTIES
  FinalIsFinal
