SPECIFICATION FairSpec
CONSTANTS
  MaxJobs = 3
  MaxEvents = 4
INVARIANTS Accounted ReadyIsWhole
PROPERTY BusyEnds
CHECK_DEADLOCK FALSE
