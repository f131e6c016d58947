SPECIFICATION BFairSpec
CONSTANTS
  User = u1
  Other = o1
  Users = {u1}
  Outsiders = {o1}
  Asked = {"loss_warn_bps"}
  Values = {2}
  Configs <- WrongAndRight
  TTL = 1
  None = None
  MaxFaults = 1
  Commands <- AllCommands
  MaxUpdates = 2
  Watched <- OneModule
  Reports <- OnlyUrgent
  Fallbacks = {f1}
INVARIANTS BTypeOK AcknowledgedIsDone HandlesClosed ValidatedStaysValid
PROPERTIES ImplementsThresholds LoopsComeBack DangerKeepsExiting UpdatesGetThrough
