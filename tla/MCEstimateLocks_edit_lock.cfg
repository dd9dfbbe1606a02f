\* Two users open, save and close one estimate, and open it again; one accident.
CONSTANTS
  Users = {u1, u2}
  TTL = 1
  MaxGestures = 3
  FaultKinds = {"sleep", "admin", "reload", "overtake", "detail"}
  MaxFaults = 1
  None = None
SPECIFICATION Spec
INVARIANTS TypeOK EditorsHoldTheLock SavesSeeTheLatest LosersLeave
PROPERTY IsLease
CONSTRAINT Interesting
SYMMETRY Symmetry
