SPECIFICATION Spec
CONSTANTS
  o1 = o1
  o2 = o2
  o3 = o3
  p1 = p1
  p2 = p2
  Owners = {o1, o2, o3}
  Processes = {p1, p2}
  Home <- ThirdShares
  Locks = {l1}
  Requests = {r1, r2, r3}
  Levels = {3, 6}
  Waits = {"wait"}
  Shared = {}
  Asts = {TRUE}
  Ops = {"enqueue", "dequeue", "die"}
  MaxUse = 1
  NoThread = NoThread
  NoOwner = NoOwner
  NoLock = NoLock
SYMMETRY RequestSymmetry
INVARIANTS
  SignalsKnownOwners
