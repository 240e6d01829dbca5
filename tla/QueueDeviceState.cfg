SPECIFICATION Spec
CONSTANTS
  NSlots = 2
  SeqSpace = 3
  Ops <- MCOps
  Args <- MCArgs
  ApsIds = {}
  ParamA = 5
  ParamTC = 7
  ParamKey = 8
  HostOps = {"READ_PARAM"}
  UserDisconnects = TRUE
  HostLimit = 1
  Statuses <- QuietStatuses
  Unsolicited <- Never
  Durations = {1000}
  MaxCommandFails = 1
  QApsLen = 0
  WireLen = 1
INVARIANTS DeviceStateKnown
