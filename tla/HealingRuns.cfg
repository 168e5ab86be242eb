\* Two runs, one kept: every order of two starts, two threads and one decision.
SPECIFICATION Spec
CONSTANTS
  Clients = {c1, c2}
  Defects = {d1}
  Keep = 1
  MaxIterations = 1
  MaxRuns = 2
  MaxDecisions = 1
  MaxFaults = 1
  MaxCrashes = 0
INVARIANTS AloneUnlessByHand
PROPERTIES SweepIsCareful
