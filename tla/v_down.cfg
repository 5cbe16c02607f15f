SPECIFICATION Spec
CONSTANTS
  o1 = o1
  o2 = o2
  o3 = o3
  p1 = p1
  p2 = p2
  Owners = {o1, o2, o3}
  Processes = {p1}
  Home <- OneProcess
  Locks = {l1}
  Requests = {r1, r2, r3}
  Levels = {3, 4}
  Waits = {"wait"}
  Shared = {}
  Asts = {FALSE}
  Ops = {"enqueue", "downgrade", "dequeue"}
  MaxUse = 1
  NoThread = NoThread
  NoOwner = NoOwner
  NoLock = NoLock
SYMMETRY OwnerSymmetry
INVARIANTS
  PhysicalMatches
