SPECIFICATION FairSpec
CHECK_DEADLOCK FALSE
CONSTANTS
  p1 = p1
  p2 = p2
  Procs = {p1, p2}
  Events = {e1}
  MaxSessions = 2
  MaxRequests = 2
  MaxPosts = 2
  MaxCrash = 1
INVARIANTS CompletedIsDue CountsKept NotFreedInCallback EventsMatchInterests
PROPERTY Delivered
