SPECIFICATION BFairSpec
CONSTANTS
  User = u1
  Other = o1
  Users = {u1}
  Outsiders = {o1}
  Asked = {"loss_warn_bps"}
  Values = {2}
  Configs <- OneConfig
  TTL = 1
  None = None
  MaxFaults = 0
  Commands <- OnlyConfirm
  MaxUpdates = 1
  Watched <- OneModule
  Reports <- CalmOrUrgent
  Fallbacks = {f1}
PROPERTIES DangerAlwaysExits
