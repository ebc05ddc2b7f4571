SPECIFICATION Spec
CONSTANTS
  c1 = c1
  c2 = c2
  w1 = w1
  w2 = w2
  h1 = h1
  h2 = h2
  NoWorker = NoWorker
  NoJob = NoJob
  Chunk = {c1, c2}
  JobId = {c1, c2}
  Worker = {w1, w2}
  Confirmer = {h1, h2}
  Canceller = {h2}
  MaxAttempts = 2
  MaxStalls = 1
  MaxRuns = 2
  MaxCrashes = 1
  Faults = {"db", "redis", "stall", "crash"}
SYMMETRY Symmetry
INVARIANTS
  TypeOK
  CounterIsExact
  GateSeesWholeRun
PROPERTIES
  ImplementsBatch
CHECK_DEADLOCK FALSE
