SPECIFICATION FairSpec
CONSTANTS
  Reads = {r1, r2}
  Writes = {w1, w2, w3}
  NotifyWrites = {w1, w2, w3}
  CacheMode = TRUE
  StringPv = FALSE
  MaxSimlWriteIO = 1
  MaxVcs = 3
  Faults = {"issue", "reply", "put"}
INVARIANTS TypeOK QueuedReadsAreAwaited WritesFollowVc WritesLimited NoVcNothingOwed AlhDataKept WriterIsThere
PROPERTIES ReadsAnswered WritesAnswered ImplementsLife
