SPECIFICATION PipelineFairSpec
CONSTANTS
  c1 = c1
  c2 = c2
  w1 = w1
  w2 = w2
  h1 = h1
  x1 = x1
  NoWorker = NoWorker
  NoJob = NoJob
  topic = topic
  rec = rec
  Chunk = {c1, c2}
  JobId = {c1, c2, topic, rec}
  TopicJob = topic
  RecJob = rec
  Worker = {w1, w2}
  Confirmer = {h1}
  Canceller = {x1}
  MaxAttempts = 2
  MaxStalls = 1
  MaxRuns = 2
  MaxCrashes = 1
  Faults = {"db", "redis", "crash", "void"}
INVARIANTS
  PipelineTypeOK
  

  
  
CHECK_DEADLOCK FALSE
