SPECIFICATION Spec
CONSTANTS
  BumpBPS = 1250
  MaxFeeCap = 300
  MaxTipCap = 120
  GasPrices <- GasPriceRange
  TipCaps <- TipCapRange
INVARIANTS EscalationWithinCaps OutbidsBelowCaps NeverStuckOnValidate
PROPERTIES EscalationMonotone
