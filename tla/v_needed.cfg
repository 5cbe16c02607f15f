SPECIFICATION Spec
CONSTANTS
  Procs = {p1}
  Kinds = {"snapshot"}
  TransPerTip = 3
  Cleanup = 100
  Ends = {"committed"}
  MaxTra = 4
  MaxRetain = 0
  MaxCrash = 0
  MaxWait = 0
CHECK_DEADLOCK FALSE
INVARIANTS
  NoNeededVersionCollected
