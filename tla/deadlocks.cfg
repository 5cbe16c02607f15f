SPECIFICATION FairSpec
CONSTANTS
  o1 = o1
  o2 = o2
  o3 = o3
  p1 = p1
  p2 = p2
  Owners = {o1, o2}
  Processes = {p1, p2}
  Home <- OwnProcess
  Locks = {l1}
  Requests = {r1, r2}
  Levels = {3, 6}
  Waits = {"wait"}
  Shared = {}
  Asts = {TRUE}
  Ops = {"enqueue", "convert"}
  MaxUse = 1
  NoThread = NoThread
  NoOwner = NoOwner
  NoLock = NoLock
PROPERTIES
  DeadlocksBroken
  BlockersTold
