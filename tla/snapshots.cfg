SPECIFICATION Spec
CONSTANTS
  Procs = {p1}
  Kinds = {"snapshot", "committed"}
  TransPerTip = 3
  Cleanup = 100
  Ends = {"committed"}
  MaxTra = 4
  MaxRetain = 1
  MaxCrash = 0
  MaxWait = 0
CHECK_DEADLOCK FALSE
INVARIANTS
  TypeOK
  OldestActiveIsOldest
  SnapshotIsACut
  NeededVersionsStay
