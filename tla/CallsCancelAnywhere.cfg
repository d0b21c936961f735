CONSTANTS
  Calls = {c1, c2, c3}
  None = none
  Loop = loop
  Callers = {loop}
  Cancellers = {loop, app}
  Destroyers = {loop}
  MaxReplies = 2
SPECIFICATION Spec
CHECK_DEADLOCK FALSE
SYMMETRY CallSymmetry
INVARIANTS Ownership BusContextLive OneReplyOnce FinishedNotTracked
PROPERTIES NoHandlerAfterDestroy
