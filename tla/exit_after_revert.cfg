SPECIFICATION FairSpec
CONSTANTS
  BumpBPS = 1250
  MaxFeeCap = 2000
  MaxTipCap = 200
  MaxShares = 1
  Prices = {1000}
  Allowed = {"liquidity"}
  MaxDisturbances = 2
  Callers = {c1}
  None = None
  ReplacementTimeout = 1
  GasPrices = {1000}
  TipCaps = {100}
PROPERTY ExitsWhenPossible
