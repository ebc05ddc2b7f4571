SPECIFICATION Spec
CONSTANTS
  r1 = r1
  r2 = r2
  w1 = w1
  w2 = w2
  k1 = k1
  h1 = h1
  h2 = h2
  NoWorker = NoWorker
  NoJob = NoJob
  NoKey = NoKey
  NoBatch = NoBatch
  JobId = {r1, r2}
  Worker = {w1, w2}
  Key = {k1}
  Single = {h1, h2}
  Batcher = {}
  MaxAttempts = 2
  MaxStalls = 1
  MaxRuns = 1
  Retention = 1
  MaxCrashes = 0
  Faults = {"db", "redis", "storage", "ack", "stall"}
SYMMETRY Symmetry
INVARIANTS
  TypeOK
  OnePendingPerKey
  NoDeadLink
  FailedIsFinal
PROPERTIES
  SettledForGood
