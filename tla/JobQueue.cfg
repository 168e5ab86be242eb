CONSTANTS
  Clients = {c1, c2}
  Sites = {s1}
  MaxJobs = 3
  Seconds = {1, 2}
  MaxStarts = 3
  MaxFailures = 1
  MaxRestarts = 1
SPECIFICATION FairQueueSpec
INVARIANTS UnfinishedCrowdedOut NoticeOnceAtTheEnd
PROPERTIES OverlapIsOvertaking SiteOpens
CHECK_DEADLOCK FALSE
