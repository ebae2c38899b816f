SPECIFICATION FairSpec
CONSTANTS
  None = None
  MaxEvents = 4
  MaxNotices = 2
  Replicas = {r, q}
  Consoles = {slow, quick}
  Slow = {slow}
  ChanCap = 1
  ListLimit = 1
INVARIANT Accounted
PROPERTIES Delivered ImplementsBell
CHECK_DEADLOCK FALSE
