SPECIFICATION ApsSpec
CONSTANTS
  c = c
  d = d
  e = e
  n1 = n1
  n2 = n2
  Ids = {c, d, e}
  Nodes = {n1, n2}
  Casts = {}
  Kinds = {"ZDP", "DEFAULT_RSP", "ZCL"}
  Zombies = {}
  Sleepy = {n1}
  Unseen = {}
  PermitJoin = FALSE
  Delays = {TRUE, FALSE}
  MaxApsRequests = 2
  MaxApsBusyRequests = 4
  QApsLen = 2
  AirLimit = 2
SYMMETRY Symmetry
VIEW View
INVARIANTS UniqueIds BusyPerNode
PROPERTIES ToldBeforeForgotten
