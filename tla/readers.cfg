SPECIFICATION Spec
CONSTANTS
  p1 = p1
  p2 = p2
  t1 = t1
  t2 = t2
  None = None
  Procs = {p1}
  Threads = {t1, t2}
  Home <- OneHome
  Masters = {t1}
  Pages = {pg, pg2}
  Prefer = "readers"
  MaxWrites = 2
  MaxScn = 5
  MaxCrash = 0
INVARIANTS TypeOK ReadsLatest NothingLost KnownInside DirtyOfThisScn TableFresh
PROPERTY FrozenWhileStalled
