CONSTANTS
  Names <- BothNames
  Requests <- BothRequests
  PvLists <- ManyLists
  Tests = {t1}
  CacheMode = TRUE
  ConnectTimeout = 1
  DeadTimeout = 1
  InactiveTimeout = 2
  DisconnectTimeout = 2
  ReconnectInhibit = 1
  MaxAge = 2
  MaxLeaked = 1
SPECIFICATION Spec
INVARIANTS TypeOK CountersMatch ListsFollowState ParkedTestsAreWaitedFor VcFollowsPv
  NoActivationWhileConnecting StateFollowsChannel
PROPERTIES ImplementsDirectory VcLives
