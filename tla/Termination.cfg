CONSTANTS
  MayFail = FALSE
  MaxGenerations = 1
  MaxFlips = 2
  MaxInbox = 1
SPECIFICATION Spec
CHECK_DEADLOCK FALSE
PROPERTIES ResponsesReceived
