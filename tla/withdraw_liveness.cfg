SPECIFICATION FairSpec
CONSTANTS
  BumpBPS = 1250
  MaxFeeCap = 1300
  MaxTipCap = 200
  MaxShares = 2
  Prices = {1000, 1200}
  Allowed = {"rpc", "repo", "lag", "crash", "evict", "owner", "deposit", "liquidity", "price"}
  MaxDisturbances = 2
  Callers = {c1}
  None = None
  ReplacementTimeout = 1
  GasPrices = {1000}
  TipCaps = {100}
PROPERTIES ExitsUnlessStranded LockReleased
