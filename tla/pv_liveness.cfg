CONSTANTS
  Names <- OneName
  Requests <- OneRequests
  PvLists <- FewLists
  Tests = {t1, t2}
  CacheMode = FALSE
  ConnectTimeout = 1
  DeadTimeout = 1
  InactiveTimeout = 2
  DisconnectTimeout = 2
  ReconnectInhibit = 1
  MaxAge = 2
  MaxLeaked = 1
SPECIFICATION FairSpec
PROPERTIES ParkedTestsAnswered UnconnectedForgotten
