\* Writers cross without a fault (a save, two starts, a cancel, two consumers), or two faults of any
\* kind but "lookup" happen beside a save, a start, a cancel and a consumer.
SPECIFICATION Spec
CONSTRAINT CalmOrAlone
CONSTANTS
  QueueMode = "rabbit"
  Lines = {l1}
  Specs = {a, b}
  Envs = {e1}
  Saves = {s1}
  Starts = {t1, t2}
  Consumers = {c1, c2}
  BatchSize = 1
  MaxAttempts = 2
  MaxGen = 1
  MaxFaults = 2
  FaultKinds = {"server", "worker", "connection", "confirm", "mark", "fail", "nack", "enqueue", "replay"}
  None = None
SYMMETRY Interchangeable
INVARIANTS TypeOK DoneMatchesRevision QueuedLineIsCarried QueuedLineHasNoReceipt
\* No request may be left and no message in flight.
CHECK_DEADLOCK FALSE
