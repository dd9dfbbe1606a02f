\* Both queues at once: a save, a start, a cancel, a consumer of each queue; no fault.
SPECIFICATION JobsSpec
CONSTANTS
  QueueMode = "dual"
  Lines = {l1}
  Specs = {a, b}
  Envs = {e1}
  Saves = {s1}
  Starts = {t1}
  Consumers = {c1}
  Workers = {w1}
  BatchSize = 1
  MaxAttempts = 1
  MaxGen = 1
  MaxFaults = 0
  FaultKinds = {}
  None = None
INVARIANTS
  JobsTypeOK
  QueuedLineHasLiveJob
  DoneMatchesRevision
\* No request may be left and no job in the queue.
CHECK_DEADLOCK FALSE
