SPECIFICATION Spec
CONSTANTS
  Reads = {r1, r2}
  Writes = {w1, w2, w3}
  NotifyWrites = {w1, w2, w3}
  CacheMode = FALSE
  StringPv = FALSE
  MaxSimlWriteIO = 1
  MaxVcs = 2
  Faults = {"issue", "size", "reply", "monitor", "put", "access", "leave"}
INVARIANTS ReadsHaveData
SYMMETRY Symmetry
