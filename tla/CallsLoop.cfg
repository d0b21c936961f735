CONSTANTS
  Calls = {c1, c2}
  None = none
  Loop = loop
  Callers = {loop}
  Cancellers = {loop}
  Destroyers = {loop}
  MaxReplies = 2
SPECIFICATION Spec
CHECK_DEADLOCK FALSE
INVARIANTS TypeOK FrameContextLive
PROPERTIES ImplementsContract
