\* The DB queue alone: two starts, a cancel, two workers, any one fault.
SPECIFICATION FairJobsSpec
CONSTANTS
  QueueMode = "db"
  Lines = {l1}
  Specs = {a}
  Envs = {e1}
  Saves = {}
  Starts = {t1, t2}
  Consumers = {}
  Workers = {w1, w2}
  BatchSize = 1
  MaxAttempts = 2
  MaxGen = 1
  MaxFaults = 1
  FaultKinds = {"server", "worker", "enqueue", "fail", "claim", "lease"}
  None = None
INVARIANTS
  QueuedLineHasLiveJob
PROPERTIES
  AwaitedLineSettles
\* No request may be left and no job in the queue.
CHECK_DEADLOCK FALSE
