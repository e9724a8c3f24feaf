\* One player joins twice; the observer's socket is lost once.
SPECIFICATION FairSpec
CONSTANTS
  alice = alice
  olga = olga
  s1 = s1
  s2 = s2
  s3 = s3
  None = None
  Player = {alice}
  Observer = olga
  Socket = {s1, s2, s3}
  Walk <- MCWalk
  MaxRecords = 1
  MaxConnections = 2
  MaxPoses = 3
  MaxDrops = 1
INVARIANTS AttachmentsHaveOneSocket ViewFollowsStream NoTrackSpansAGap
PROPERTIES EveryoneIsSeen
CHECK_DEADLOCK FALSE
