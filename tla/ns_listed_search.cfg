SPECIFICATION Spec
CONSTANTS
  Iocs = {a}
  m = m
  g = g
  HB = HB
  Names = {m}
  Lists <- GoodLists
  Heartbeat = HB
  Gateway = gw
  Searchable = {m}
  NoIoc = NoIoc
INVARIANT
  ListsMatchTable
