SPECIFICATION Spec
CONSTANTS
  o1 = o1
  o2 = o2
  o3 = o3
  p1 = p1
  p2 = p2
  Owners = {o1, o2}
  Processes = {p1}
  Home <- OneProcess
  Locks = {l1, l2}
  Requests = {r1, r2, r3, r4}
  Levels = {6}
  Waits = {"wait"}
  Shared = {o1}
  Asts = {FALSE}
  Ops = {"enqueue"}
  MaxUse = 1
  NoThread = NoThread
  NoOwner = NoOwner
  NoLock = NoLock
SYMMETRY RequestSymmetry
INVARIANTS
  DeadlockStillScanned
