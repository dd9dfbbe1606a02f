\* An estimate with results: a line of its text is removed and the table is shown.
CONSTANTS
  Parts = {"text"}
  Codes = {"a", "b"}
  Volumes = {1, 2}
  Opened <- Reopened
  TextEdits = {"remove"}
  MaxLines = 2
  MaxEdits = 1
  MaxSwitches = 1
  Cases = {"results"}
  None = None
  OpenedLines <- SmallAndLarge
  Threshold = 2
  Chunk = 1
  Window = 1
  MaxRounds = 2
  Doings = {"edit", "scroll", "header", "render", "leave"}
  MaxDoings = 2
  MaxFailures = 1
  Drafts = {"d1", "d2"}
  Norms = {"n"}
  OwnPositions = {"p"}
  Most = 2
  MaxTouches = 4
  MaxMisses = 1
SPECIFICATION Spec
INVARIANTS TableIsStored
\* The user may do nothing more.
CHECK_DEADLOCK FALSE
