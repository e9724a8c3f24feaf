SPECIFICATION FairTerrainSpec
CONSTANTS
  MaxLevel = 2
  Columns = 2
  Incoherent <- NoPages
  Unproven <- NoPages
  Views <- OneView
  MaxResident = 14
  GroupsPerFrame = 1
  Edited <- NoPages
  MaxMoves = 0
  MaxEdits = 0
  Nothing = Nothing
PROPERTIES
  RefinementSettles
