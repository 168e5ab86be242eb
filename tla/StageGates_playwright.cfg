CONSTANTS
  Design = 2
  ItemStage = 2
  SkipStage = 1
  Clients = {c1}
  MaxRequests = 4
SPECIFICATION Spec
INVARIANTS TestsAfterApproval
CHECK_DEADLOCK FALSE
