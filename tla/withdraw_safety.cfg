SPECIFICATION Spec
CONSTANTS
  BumpBPS = 1250
  MaxFeeCap = 1300
  MaxTipCap = 1400
  MaxShares = 2
  Prices = {1000, 1250}
  Allowed <- Kinds
  MaxDisturbances = 2
  Callers = {c1, c2}
  None = None
  ReplacementTimeout = 1
  GasPrices = {1000}
  TipCaps = {0, 100, 1200}
SYMMETRY Symmetry
INVARIANTS TypeOK SingleActiveNonce FeesWithinCaps AuditTrail
PROPERTIES ReplacementDiscipline ImplementsExit
