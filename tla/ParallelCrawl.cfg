CONSTANTS
  home = home
  a = a
  b = b
  c = c
  d = d
  NoTask = NoTask
  Base = home
  Urls <- DiamondUrls
  Links <- DiamondLinks
  Allowed <- DiamondAllowed
  Workers = {w1, w2}
  Depth = 2
  MaxPages = 3
SPECIFICATION FairSpec
INVARIANTS PageBudget NoPageTwice LastCheckpointComplete
PROPERTIES ImplementsTraversal Terminates
CHECK_DEADLOCK FALSE
