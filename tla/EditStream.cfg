\* Edits of others and of the client, overflows and a lost connection while a
\* chunk loads.
SPECIFICATION FairSpec
CONSTANTS
  e1 = e1
  e2 = e2
  core = core
  home = home
  Nobody = Nobody
  Editor = {e1, e2}
  Voxel = {core}
  Chunk = {home}
  Volumes = {{core}}
  Sampled <- OneChunk
  Affected <- OneChunkAffected
  QueueCapacity = 1
  MaxRevision = 4
  MaxBreaks = 1
CHECK_DEADLOCK FALSE
INVARIANTS NeverBehindWhatItWasTold NoSilentGap
PROPERTIES ChunksLoad
