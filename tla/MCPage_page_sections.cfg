\* Two pages and one licence for each subsection; base panels with late or lost answers; two
\* gestures in the tree.
CONSTANTS
  Parts = {"seats", "panels", "tree"}
  Accounts = {"u1", "u2"}
  Pages = {"p1", "p2"}
  Owners <- LoggedIn
  PriceSets = {"f1", "f2"}
  Available <- OneSeatEach
  SeatTTL = 1
  MaxMoves = 3
  Accidents = {"nap", "lost", "overtake", "reload"}
  MaxAccidents = 1
  Supplements <- TwoSupplements
  Stored <- MaybeObsolete
  Words = {"w"}
  NoWord = "none"
  Hits <- HitsPerSet
  PageLimit = 1
  MaxClicks = 4
  Troubles = {"late", "lost"}
  MaxTroubles = 1
  Nothing = Nothing
  Constructions = {"c"}
  Objects = {"o1", "o2"}
  Estimates = {"e1", "e2"}
  Above <- TwoObjects
  Trees <- OneOrTwoEstimates
  Gestures = {"look", "add", "create", "delete", "recalculate", "clear"}
  MaxTasks = 2
  MaxSummaries = 2
  Mishaps = {}
  Unread = Unread
SPECIFICATION Spec
INVARIANTS LicenseTypeOK ViewersHaveSeats TreeIsOfTheSupplement PricesAreOfTheSet QuietTreeIsTheServers
PROPERTIES SessionsAreLeases RecalculationsShowTheirResults
\* The user may do nothing more.
CHECK_DEADLOCK FALSE
