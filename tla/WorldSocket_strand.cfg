\* The pace rises in the middle of a frame.
SPECIFICATION Spec
CONSTANTS
  None = None
  Rank = {0, 2}
  Window = 1
  SettlingWindows = 2
  MaxTransfers = 1
  Length = {2, 3}
  Pace = {1, 2}
  AttemptLimit = 1
  MaxRequests = 2
  MaxDrops = 0
  MaxPaces = 1
INVARIANTS NoStrandedTransfer
CHECK_DEADLOCK FALSE
