SPECIFICATION LoopSpec
CONSTANTS
  NSlots = 3
  SeqSpace = 4
  Ops <- MCOps
  Args <- MCArgs
  ApsIds = {}
  ParamA = 5
  ParamTC = 7
  ParamKey = 8
  HostOps = {}
  UserDisconnects = FALSE
  HostLimit = 0
  Statuses <- QuietStatuses
  Unsolicited <- QuietStatuses
  Durations = {60, 1000}
  MaxCommandFails = 2
  QApsLen = 0
  WireLen = 2
INVARIANTS TypeOK CountersCount FewUnconfirmed SeqsUnique GivesUpInTime
PROPERTIES LeavesOnlyServed
