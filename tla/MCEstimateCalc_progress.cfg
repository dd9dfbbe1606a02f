\* Two lines in two batches, one fault; no symmetry because of the liveness properties.
SPECIFICATION FairSpec
CONSTANTS
  QueueMode = "rabbit"
  Lines = {l1, l2}
  Specs = {a}
  Envs = {e1}
  Saves = {}
  Starts = {t1}
  Consumers = {c1}
  BatchSize = 1
  MaxAttempts = 2
  MaxGen = 1
  MaxFaults = 1
  FaultKinds = {"server", "worker", "connection", "confirm", "mark", "lookup", "enqueue"}
  None = None
PROPERTIES
  QueuedLineSettles
  StartMarkIsReleased
\* No request may be left and no message in flight.
CHECK_DEADLOCK FALSE
