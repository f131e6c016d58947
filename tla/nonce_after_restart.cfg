SPECIFICATION Spec
CONSTANTS
  BumpBPS = 1250
  MaxFeeCap = 2000
  MaxTipCap = 200
  MaxShares = 1
  Prices = {1000, 1300}
  Allowed = {"crash"}
  MaxDisturbances = 1
  Callers = {c1}
  None = None
  ReplacementTimeout = 1
  GasPrices = {1000}
  TipCaps = {100}
INVARIANT OneLiveNonce
