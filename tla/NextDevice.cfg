SPECIFICATION MCSpec
CONSTANTS
  Devices <- MCDevices
  Alive = {"b"}
  AutoOn = TRUE
  WaitLong = 2
  WaitShort = 1
  PollEvery = 2
  MaxMail = 0
  MaxClicks = 0
  MaxFaults = 0
PROPERTIES NextIsTried
