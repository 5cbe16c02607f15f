SPECIFICATION Spec
CONSTANTS
  Threads = {t1, t2, t3}
  TimeOuts = {"none", "limited", "forever"}
  MaxMonitor = 1
  NoThread = NoThread
SYMMETRY ThreadSymmetry
INVARIANTS
  StateMatchesHolders
  ReentryIsOwn
  WaitersMatchQueue
  NoneForgotten
  GrantedAreWoken
PROPERTIES
  ReadWrite
