SPECIFICATION Spec
CONSTANTS
  N = 1
  VaultStates <- Deposits
  Baseline <- BaselineState
  BaselinePrice = 30000
  Scale = 100
  WarnBPS = 100
  UrgentBPS = 500
  IdleWarn = 20
  IdleUrgent = 10
  ChangeSeverity = "URGENT"
  None = None
  MaxBlocks = 2
  MaxOutages = 0
INVARIANT PriceAlarmIsReal
