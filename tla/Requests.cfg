CONSTANTS
  Loop = loop
  Workers = {w1, w2, w3}
  MaxReplies = 3
SPECIFICATION FairSpec
CHECK_DEADLOCK FALSE
INVARIANTS TypeOK NoSilence OneReplyUnlessDeferred StockOnlyIfSilent
PROPERTIES EventuallyReplied
