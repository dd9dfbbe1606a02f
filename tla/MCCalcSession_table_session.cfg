\* Calculate, switch views, sections and modes while batches arrive; one batch or status request fails.
CONSTANTS
  NLines = 2
  ClientBatch = 1
  Listeners = {k1, k2, k3}
  Gestures = {"calculate", "text", "render", "away"}
  MaxGestures = 3
  PromptStatus = TRUE
  Verdicts = {"done", "failed"}
  FaultKinds = {"batch", "status"}
  MaxFaults = 1
  None = None
SPECIFICATION Spec
INVARIANTS TypeOK OneListener SaveStopsListening NotStranded
PROPERTY BatchesStayInTheirCalculation
CHECK_DEADLOCK FALSE
