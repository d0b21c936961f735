CONSTANTS
  Subs = {s1}
  Payloads = {p1, p2}
  Empty = empty
  None = none
  Loop = loop
  Adders = {loop}
  Posters = {loop, app}
  Deduplicate = TRUE
  FailingReplies = {}
  MaxPosts = 3
SPECIFICATION Spec
CHECK_DEADLOCK FALSE
SYMMETRY Symmetry
INVARIANTS Converged
