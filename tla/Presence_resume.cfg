\* A player whose session closes while its presence socket lives on joins again.
SPECIFICATION Spec
CONSTANTS
  alice = alice
  olga = olga
  s1 = s1
  s2 = s2
  s3 = s3
  None = None
  Player = {alice}
  Observer = olga
  Socket = {s1, s2, s3}
  Walk <- MCWalk
  MaxRecords = 1
  MaxConnections = 2
  MaxPoses = 3
  MaxDrops = 1
PROPERTY ResumesWhereItLeft
CHECK_DEADLOCK FALSE
