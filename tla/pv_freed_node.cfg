CONSTANTS
  Names <- OneName
  Requests <- OneRequests
  PvLists <- FewLists
  Tests = {t1}
  CacheMode = TRUE
  ConnectTimeout = 1
  DeadTimeout = 2
  InactiveTimeout = 3
  DisconnectTimeout = 3
  ReconnectInhibit = 1
  MaxAge = 3
  MaxLeaked = 0
SPECIFICATION Spec
INVARIANT NoFreedNode
