SPECIFICATION FairSpec
CHECK_DEADLOCK FALSE
CONSTANTS
  p1 = p1
  p2 = p2
  Procs = {p1, p2}
  Events = {e1}
  MaxSessions = 1
  MaxRequests = 1
  MaxPosts = 1
  MaxCrash = 1
PROPERTY DeadAreDeleted
