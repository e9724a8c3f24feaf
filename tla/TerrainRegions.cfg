\* A coverage root and an exact region, one region fitting the cache when both
\* are edited.
SPECIFICATION FairSpec
CONSTANTS
  c1 = c1
  c2 = c2
  surface = surface
  volume = volume
  leaf = leaf
  edge = edge
  block = block
  west = west
  east = east
  l1 = l1
  l2 = l2
  l3 = l3
  None = None
  Caller = {c1, c2}
  Root = {surface, volume}
  Coverage = {surface}
  Page = {leaf, edge, block}
  PagesOf <- MCPagesOf
  Column = {west, east}
  Footprint <- MCFootprint
  RootColumns <- MCRootColumns
  Edit = {{west}}
  Size <- MCSize
  CacheBytes = 2
  RegionWorkers = 1
  Attempts = 2
  Lock = {l1, l2, l3}
  MaxCommits = 2
  MaxFailures = 1
  Asks <- MCAsks
  Impatient = {c1}
INVARIANTS ResourcesAreAccounted RegionsAreSnapshots NobodyIsDetached
PROPERTIES AnswersAreFresh EveryCallReturns
