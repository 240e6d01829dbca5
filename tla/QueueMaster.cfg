SPECIFICATION MasterSpec
CONSTANTS
  NSlots = 2
  SeqSpace = 3
  Ops <- MCOps
  Args <- MCArgs
  ApsIds = {1}
  ParamA = 5
  ParamTC = 7
  ParamKey = 8
  HostOps = {"READ_PARAM", "WRITE_PARAM", "NWK_LEAVE_REQ", "START_INTERPAN_MODE", "SEND_INTERPAN_REQ"}
  HostLimit = 1
  UserDisconnects = FALSE
  Statuses <- AllStatuses
  Unsolicited <- Never
  Durations = {1000}
  MaxCommandFails = 2
  QApsLen = 1
  WireLen = 1
INVARIANTS FetchedOnce OffIsEmpty DeviceStateKnown
PROPERTIES DroppedIsReported HostIsTold
