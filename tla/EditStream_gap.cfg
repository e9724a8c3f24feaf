\* The queue is emptied between the failed reservation and the flag.
SPECIFICATION FairSpec
CONSTANTS
  e1 = e1
  e2 = e2
  core = core
  home = home
  Nobody = Nobody
  Editor = {e1, e2}
  Voxel = {core}
  Chunk = {home}
  Volumes = {{core}}
  Sampled <- OneChunk
  Affected <- OneChunkAffected
  QueueCapacity = 1
  MaxRevision = 4
  MaxBreaks = 0
CHECK_DEADLOCK FALSE
PROPERTIES OverflowIsResynced
