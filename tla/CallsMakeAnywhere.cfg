CONSTANTS
  Calls = {c1, c2}
  None = none
  Loop = loop
  Callers = {loop, app}
  Cancellers = {loop}
  Destroyers = {loop, app}
  MaxReplies = 2
SPECIFICATION FairSpec
CHECK_DEADLOCK FALSE
INVARIANTS Ownership
PROPERTIES NoHandlerAfterCancel EventuallyAnswered
