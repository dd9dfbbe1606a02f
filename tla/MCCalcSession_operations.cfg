\* Everything that waits for the listener: saves, starts, restarts, text mode; one request fails.
CONSTANTS
  NLines = 1
  ClientBatch = 1
  Listeners = {k1, k2, k3}
  Gestures = {"calculate", "recalculate", "save", "text"}
  MaxGestures = 2
  PromptStatus = TRUE
  Verdicts = {"done"}
  FaultKinds = {"start", "put"}
  MaxFaults = 1
  None = None
SPECIFICATION FairSpec
PROPERTY OperationsEnd
CHECK_DEADLOCK FALSE
