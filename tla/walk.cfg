SPECIFICATION Spec
CONSTANTS
  Requests = {r1, r2, r3}
  Stale = {r1, r2, r3}
  MayAct = {r1, r2, r3}
  None = None
INVARIANTS
  VictimDeadlocked
  NothingMissed
PROPERTIES
  WalkEnds
CHECK_DEADLOCK FALSE
