CONSTANTS
  DayLength = 3
  WeekLength = 2
  Domains = {d1, d2}
  Settings <- MixedSettings
  Retries = 1
  PostponeLimit = 370
  MaxClock = 6
  MaxRequests = 1
  MaxFaults = 1
  MaxCrashes = 1
SPECIFICATION FairSpec
INVARIANTS NextRunAllowed
PROPERTIES RunsApart DueIsHandled
