SPECIFICATION Spec
CONSTANTS
  Requests = {r1, r2}
  Items = {i1}
  Ways = {w1, w2}
  MaxJobs = 2
  MaxFaults = 1
  MaxRestarts = 1
SYMMETRY Interchangeable
CHECK_DEADLOCK FALSE
INVARIANTS
  ReviewedIsSettled
  UnfinishedHasWorker
PROPERTIES
  DecisionsKept
  EndedStays
