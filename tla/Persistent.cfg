CONSTANTS
  MayFail = TRUE
  MaxGenerations = 3
  MaxFlips = 5
  MaxInbox = 2
SPECIFICATION FairSpec
CHECK_DEADLOCK FALSE
INVARIANTS TypeOK OneCallOpen HandlerMatchesCall StatusContextLive
PROPERTIES EventuallyResubscribed
