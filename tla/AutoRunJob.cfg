CONSTANTS
  DesignGates = 2
  MaxReleases = 1
  MaxConfirms = 1
SPECIFICATION FairSpec
INVARIANTS NoOrphanProcess GatesAccountedFor
PROPERTIES TerminalUnlessOverlapped RunEnds
CHECK_DEADLOCK FALSE
