SPECIFICATION Spec
CHECK_DEADLOCK FALSE
CONSTANTS
  p1 = p1
  p2 = p2
  t1 = t1
  t2 = t2
  None = None
  Procs = {p1, p2}
  Threads = {t1, t2}
  Home <- TwoHomes
  Masters = {t1, t2}
  Pages = {pg}
  Prefer = "writers"
  MaxWrites = 1
  MaxScn = 3
  MaxCrash = 0
PROPERTY FrozenWhileStalled
