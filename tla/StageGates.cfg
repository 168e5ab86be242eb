CONSTANTS
  Design = 2
  ItemStage = 2
  SkipStage = 1
  Clients = {c1, c2}
  MaxRequests = 3
SPECIFICATION Spec
SYMMETRY ClientSymmetry
INVARIANTS AuditExplains OvertakenProceedsOpen
CHECK_DEADLOCK FALSE
