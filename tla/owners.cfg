SPECIFICATION Spec
CONSTANTS
  o1 = o1
  o2 = o2
  o3 = o3
  p1 = p1
  p2 = p2
  Owners = {o1, o2}
  Processes = {p1, p2}
  Home <- OwnProcess
  Locks = {l1}
  Requests = {r1, r2}
  Levels = {6}
  Waits = {"cancel"}
  Shared = {}
  Asts = {TRUE}
  Ops = {"enqueue", "dequeue", "repost", "cancel", "again", "shutdown", "destroy"}
  MaxUse = 2
  NoThread = NoThread
  NoOwner = NoOwner
  NoLock = NoLock
SYMMETRY ProcessSymmetry
INVARIANTS
  TypeOK
  AstOwnerPresent
  NoLostWakeup
  BlocksMatchFlags
