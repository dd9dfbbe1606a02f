\* One calculation of two lines; a retry is enough.
SPECIFICATION Spec
CONSTANTS
  QueueMode = "rabbit"
  Lines = {l1, l2}
  Specs = {a}
  Envs = {e1}
  Saves = {}
  Starts = {t1}
  Consumers = {c1}
  BatchSize = 1
  MaxAttempts = 2
  MaxGen = 0
  MaxFaults = 0
  FaultKinds = {}
  None = None
SYMMETRY Interchangeable
INVARIANTS
  DoneReportHasNoQueuedLine
\* No request may be left and no message in flight.
CHECK_DEADLOCK FALSE
