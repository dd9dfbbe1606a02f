\* Two changes of district or FGIS set around a calculation of one line.
CONSTANTS
  NLines = 1
  ClientBatch = 1
  Listeners = {k1, k2}
  Gestures = {"calculate", "context"}
  MaxGestures = 3
  PromptStatus = TRUE
  Verdicts = {"done"}
  FaultKinds = {}
  MaxFaults = 0
  None = None
SPECIFICATION Spec
INVARIANTS FreshPrices ContextSaved
CHECK_DEADLOCK FALSE
