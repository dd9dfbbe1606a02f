\* The text and the table of an estimate with equal lines; the rows of the table, with one save
\* that fails; positions added to two estimates from the base.
CONSTANTS
  Parts = {"text", "body", "buffer"}
  Codes = {"a", "b"}
  Volumes = {1, 2}
  Opened <- FewLines
  TextEdits = {"remove", "swap", "volume", "add"}
  MaxLines = 3
  MaxEdits = 2
  MaxSwitches = 3
  Cases = {"twins"}
  None = None
  OpenedLines <- SmallAndLarge
  Threshold = 2
  Chunk = 1
  Window = 1
  MaxRounds = 2
  Doings = {"edit", "scroll", "header", "render", "leave"}
  MaxDoings = 2
  MaxFailures = 1
  Drafts = {"d1", "d2"}
  Norms = {"n"}
  OwnPositions = {"p"}
  Most = 2
  MaxTouches = 4
  MaxMisses = 1
SPECIFICATION Spec
INVARIANTS TextTypeOK TableIsStored DistinctRowsAreRight RowsAreDrawnOnce RowsSayWhatLinesSay SteppersTellTheLists
PROPERTIES BufferMovesItsItems
\* The user may do nothing more.
CHECK_DEADLOCK FALSE
