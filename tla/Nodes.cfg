SPECIFICATION NodesSpec
CONSTANTS
  Own = "own"
  Devices = {"a"}
  Nwks = {1, 2}
  InRest = {"a"}
  MaxRecvErrors = 2
  MaxRecvErrorsZombie = 3
  MaxMoves = 1
  MaxFaults = 1
  Coord = "c"
  Routers = {"r1", "r2"}
  Links <- AllLinks
  Ids = {1, 2, 3, 4, 5, 6}
  MaxHops = 3
  MinTxOk = 1
  MaxRouteErrors = 2
  MaxBestErrors = 3
  MaxRouteTtl = 1
  MaxTx = 1
  MaxUser = 1
INVARIANTS TableSafe RoutesSafe
CHECK_DEADLOCK FALSE
