\* As WorldSocket.cfg; what is kept beside its questions. Two requests, one failure of the socket, one change of pace; a reassembler of one slot.
SPECIFICATION FairSpec
CONSTANTS
  None = None
  Rank = {0, 2}
  Window = 1
  SettlingWindows = 2
  MaxTransfers = 1
  Length = {2, 3}
  Pace = {1, 2}
  AttemptLimit = 1
  MaxRequests = 2
  MaxDrops = 1
  MaxPaces = 1
INVARIANTS FragmentsFit
PROPERTIES TimersKeepToTheirTime
CHECK_DEADLOCK FALSE
