SPECIFICATION FairSpec
CONSTANTS
  Iocs = {a}
  m = m
  g = g
  HB = HB
  Names = {g}
  Lists <- BareLists
  Heartbeat = HB
  Gateway = gw
  Searchable = {g}
  NoIoc = NoIoc
INVARIANTS
  TypeOK
  HeartbeatWatched
  MonitoredNamesKnown
  SearchesArePending
PROPERTIES
  PendingEnds
  RunningIocServed
