SPECIFICATION Spec
CONSTANTS
  Procs = {p1, p2}
  Kinds = {"snapshot"}
  TransPerTip = 1
  Cleanup = 100
  Ends = {"committed"}
  MaxTra = 4
  MaxRetain = 2
  MaxCrash = 0
  MaxWait = 1
CHECK_DEADLOCK FALSE
PROPERTIES
  FinalIsFinal
