\* One run with two defects: every order of two requests, a restart and a failure.
SPECIFICATION FairSpec
CONSTANTS
  Clients = {c1, c2}
  Defects = {d1, d2}
  Keep = 1
  MaxIterations = 2
  MaxRuns = 1
  MaxDecisions = 2
  MaxFaults = 1
  MaxCrashes = 1
INVARIANTS ApprovedFixWasSent
PROPERTIES  DrivenUnlessAdopted RunsEnd
