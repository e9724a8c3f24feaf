\* An edit while the client is away.
SPECIFICATION FairSpec
CONSTANTS
  e1 = e1
  e2 = e2
  core = core
  home = home
  Nobody = Nobody
  Editor = {e1, e2}
  Voxel = {core}
  Chunk = {home}
  Volumes = {{core}}
  Sampled <- OneChunk
  Affected <- OneChunkAffected
  QueueCapacity = 1
  MaxRevision = 3
  MaxBreaks = 1
CHECK_DEADLOCK FALSE
INVARIANTS ReconnectResumes
