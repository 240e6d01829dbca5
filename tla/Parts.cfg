\* Components that share no state, safety.
SPECIFICATION PartsSpec
CONSTANTS
  \* NodeStore: a node with a row of its own and one in the JSON text
  DbNodes = {"a", "b"}
  Json = {"b"}
  Proxies = {"none", "p"}
  NoProxy = "none"
  NoPos <- MCNoPos
  MaxMoves = 2
  MaxErrors = 2
  MaxStarts = 2
  \* SerialLink: three bytes, two of which end a frame; two frames to send, one is bad
  RingSize = 2
  Chunk = 2
  BufSize = 1
  TxSlots = 2
  CounterSpace = 4
  MaxBytes = 3
  FrameEnds = {1, 3}
  Frames = {1, 2}
  Bad = {1}
  MaxOpens = 1
  \* Framing
  Layout <- MCLayout
  Ack = 0
  StatusCmd = 7
  Cmds <- MCCommands
  MaxData = 3
  BufferLen = 12
  Noise = {192, 219, 220, 0}
  MaxFrames = 2
  MaxFrameFaults = 2
  \* HttpClient
  Requests <- MCRequests
  Handlers = {"p", "q"}
  MaxRequests = 3
  \* Links: two routers and an end device
  Peers = {1, 2, 3}
  EndDevices = {3}
  Nobody = 0
  Bound <- MCBound
  MaxReports = 2
  MaxEvents = 2
  \* AutoConnect: two devices that answer
  Devices <- MCDevices
  Alive = {"a", "b"}
  AutoOn = TRUE
  WaitLong = 2
  WaitShort = 1
  PollEvery = 2
  MaxMail = 1
  MaxClicks = 1
  MaxFaults = 1
  \* NodeFetch: a node that listens, one that sleeps
  Order <- MCOrder
  RxOn = {"a"}
  De = {"a", "s"}
  EndNodes = {"s"}
  Maker115F = {"a"}
  AllEndpoints = 1
  Listed <- MCEndpoints
  Active <- MCEndpoints
  ReqId <- MCReqIds
  MaxApsRequestsZdp = 2
  MaxRetrys = 2
  PermitJoin = FALSE
  MaxFetchFaults = 2
  \* VfsModel: two nodes, pages of one entry
  VfsNodes = {"a", "b"}
  FirstNodes <- MCNodeList
  Page = 1
  MaxTries = 3
  MaxChanges = 1
  MaxVfsFaults = 1
INVARIANTS WholeFramesArrive FetchSafe HttpSafe LinksSafe VfsSafe LinkIntact StoreSafe WindowSafe
CHECK_DEADLOCK FALSE
