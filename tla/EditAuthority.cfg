SPECIFICATION FairSpec
CONSTANTS
  p1 = p1
  p2 = p2
  s1 = s1
  s2 = s2
  w1 = w1
  w2 = w2
  Stone = Stone
  Air = Air
  None = None
  Free = Free
  Player = {p1, p2}
  Session = {s1, s2}
  OpId = {1, 2}
  Worker = {w1, w2}
  Material = {Stone}
  Voxel <- MCVoxel
  Chunk <- MCChunk
  Column <- MCColumn
  Region <- MCRegion
  Generated <- MCGenerated
  SpawnOverride <- MCSpawnOverride
  Protected <- MCProtected
  RegionOf <- MCRegionOf
  ColumnOf <- MCColumnOf
  Affected <- MCAffected
  Sampled <- MCSampled
  Action <- OverlapActions
  Sends <- AroundOneHole
  Retained = 1
INVARIANTS
  AtMostOnce
  MemoryMatchesDatabase
  ProductKeyIdentifiesContent
PROPERTY
  RefinesLedger EveryApplyFinishes
