SPECIFICATION ApsSpec
CONSTANTS
  a = a
  b = b
  n1 = n1
  all = all
PROPERTIES BusyIsTold IdleIsSent BlockIsSent
