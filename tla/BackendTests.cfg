\* One job, two requests, two runs; a request goes back on a stage, overlaps
\* another one, and one failure or restart.
SPECIFICATION Spec
CONSTANTS
  Design = 2
  ReadStage = 1
  Clients = {c1, c2}
  Tenants = {t1}
  Jobs = {j1}
  j1 = j1
  t1 = t1
  t2 = t2
  Owner <- MCOwner
  MaxRuns = 2
  MaxReworks = 1
  MaxOverlaps = 1
  MaxFaults = 1
INVARIANTS FreshIsBuilt ReportCoversRuns RunningCanSettle OneRunPerTenant
PROPERTIES TenantFreed
\* With the bounds used up and every stage approved nothing is left to do.
CHECK_DEADLOCK FALSE
