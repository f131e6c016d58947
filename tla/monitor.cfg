SPECIFICATION FairSpec
CONSTANTS
  N = 2
  Reports <- AllReports
  None = None
  MaxFaults = 2
INVARIANTS TypeOK HandledInOrder ActsOnStored LatestFresh
PROPERTIES UrgentKeepsExiting
