SPECIFICATION NetSpec
CONSTANTS
  Reads <- MCReads
  Settable = {"CHANNEL_MASK"}
  DevValues <- MCDevValues
  UserValues <- MCUserValues
  Default <- MCDefault
  Correction <- MCCorrection
  NoMacs = {}
  KeySeq = 9
  CmdSlots = 5
  MaxEdits = 1
  MaxLosses = 1
  MaxOwn = 1
INVARIANTS NothingInvented
