CONSTANTS
  Subs = {s1, s2}
  Payloads = {p1, p2}
  Empty = empty
  None = none
  Loop = loop
  Adders = {loop}
  Posters = {app}
  Deduplicate = TRUE
  FailingReplies = {s1}
  MaxPosts = 3
SPECIFICATION FairSpec
CHECK_DEADLOCK FALSE
INVARIANTS TypeOK LeavingIsNoticed Converged
PROPERTIES EventuallyRemoved EventuallySent ImplementsTopic
