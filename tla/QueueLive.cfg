SPECIFICATION LiveSpec
CONSTANTS
  NSlots = 3
  SeqSpace = 4
  Ops = {"ANY"}
  Args = {0}
INVARIANTS OrderKept
PROPERTIES Served EverySendComes StatusIsAsked
CHECK_DEADLOCK FALSE
