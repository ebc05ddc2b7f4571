SPECIFICATION FairSpec
CONSTANTS
  r1 = r1
  r2 = r2
  w1 = w1
  k1 = k1
  h1 = h1
  b1 = b1
  NoWorker = NoWorker
  NoJob = NoJob
  NoKey = NoKey
  NoBatch = NoBatch
  JobId = {r1, r2}
  Worker = {w1}
  Key = {k1}
  Single = {h1}
  Batcher = {b1}
  MaxAttempts = 2
  MaxStalls = 1
  MaxRuns = 1
  Retention = 1
  MaxCrashes = 1
  Faults = {"redis", "storage", "crash"}
PROPERTIES
  KeyIsFreed
