SPECIFICATION QuietSpec
CHECK_DEADLOCK FALSE
CONSTANTS
  p1 = p1
  p2 = p2
  t1 = t1
  t2 = t2
  None = None
  Procs = {p1, p2}
  Threads = {t1, t2}
  Home <- TwoHomes
  Masters = {t1, t2}
  Pages = {pg}
  Prefer = "writers"
  MaxWrites = 2
  MaxScn = 5
  MaxCrash = 1
INVARIANTS ReadsLatest NothingLost KnownInside DirtyOfThisScn TableFresh
PROPERTY FrozenWhileStalled
