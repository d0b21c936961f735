CONSTANTS
  Points = {p1, p2}
  Methods = {m1, m2}
  Requests = {r1, r2}
  Loop = loop
  Registrars = {loop, app}
  Shared = FALSE
  SelfDelete = FALSE
  MayFail = TRUE
  None = None
SPECIFICATION FairSpec
CHECK_DEADLOCK FALSE
INVARIANTS TypeOK RouteToLive 
PROPERTIES ImplementsDirectory EventuallyAnswered
