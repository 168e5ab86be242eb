\* Two runs of the daily goal in two rounds, two callers, a cancel, a failure, a restart.
SPECIFICATION FairSpec
CONSTANTS
  Callers = {watch, page}
  Plan <- Daily
  MaxRuns = 2
  MaxCancels = 1
  MaxFaults = 1
  MaxCrashes = 1
INVARIANTS OneConductor StopAsked SucceededMeansDone
PROPERTIES RunsEnd
