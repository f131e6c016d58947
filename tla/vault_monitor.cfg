SPECIFICATION FairSpec
CONSTANTS
  N = 2
  VaultStates <- States
  Baseline <- BaselineState
  BaselinePrice = 30000
  Scale = 100
  WarnBPS = 100
  UrgentBPS = 500
  IdleWarn = 20
  IdleUrgent = 10
  ChangeSeverity = "URGENT"
  None = None
  MaxBlocks = 3
  MaxOutages = 2
INVARIANTS TypeOK LastingDangerReported AlarmsHaveCause
PROPERTY DangerKeepsBeingReported
