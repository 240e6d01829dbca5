SPECIFICATION Spec
CONSTANTS
  Ids = {a, b}
  a = a
  b = b
  Nodes = {n1}
  n1 = n1
  Casts = {}
  Kinds = {"ZDP"}
  Zombies = {}
  Sleepy = {}
  Unseen = {}
  PermitJoin = FALSE
  Delays = {FALSE}
  MaxApsRequests = 2
  MaxApsBusyRequests = 1
  QApsLen = 2
  AirLimit = 2
SYMMETRY Symmetry
PROPERTIES ClearedIsNotSent
