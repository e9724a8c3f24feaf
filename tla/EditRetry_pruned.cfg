SPECIFICATION RetrySpec
CONSTANTS
  p1 = p1
  v1 = v1
  c1 = c1
  Stone = Stone
  Air = Air
  None = None
  Player = {p1}
  Session = {s1, s2}
  OpId <- MCOpId
  MaxOp = 4
  Intent = {i1, i2}
  Window = 2
  AttemptLimit = 1
  Material = {Stone}
  Voxel <- MCVoxel
  Chunk = {c1}
  Column = {0}
  Region = {0}
  Generated <- MCGenerated
  SpawnOverride <- MCSpawnOverride
  Protected = {}
  RegionOf <- MCRegionOf
  ColumnOf <- MCColumnOf
  Affected <- MCAffected
  Action <- MCAction
  Retained = 1
INVARIANT
  StaleAnswersProveAbsence
