CONSTANTS
  Subscribers = {s1, s2}
  Payloads = {1, 2}
  MaxSignals = 2
SPECIFICATION FairSpec
CHECK_DEADLOCK FALSE
INVARIANTS TypeOK SignalsComplete
PROPERTIES EventuallyDelivered
