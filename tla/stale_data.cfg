SPECIFICATION FairSpec
CONSTANTS
  N = 2
  Reports <- AllReports
  None = None
  MaxFaults = 0
PROPERTIES StaleTriggersExit
