SPECIFICATION Spec
CONSTANTS
  Iocs = {a, b}
  m = m
  g = g
  HB = HB
  Names = {m}
  Lists <- MovingLists
  Heartbeat = HB
  Gateway = gw
  Searchable = {}
  NoIoc = NoIoc
INVARIANTS
  ListsMatchTable
  StatusFollowsHeartbeat
SYMMETRY Symmetry
