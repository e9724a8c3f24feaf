SPECIFICATION FairTerrainSpec
CONSTANTS
  MaxLevel = 2
  Columns = 2
  Incoherent <- NoPages
  Unproven <- OneUnproven
  Views <- ThreeViews
  MaxResident = 12
  GroupsPerFrame = 2
  Edited <- OneLeaf
  MaxMoves = 2
  MaxEdits = 1
  Nothing = Nothing
INVARIANTS
  CutNeverTrips
  ProofsAreCurrent
  OwnersStayResident
  SelectionIsStable
PROPERTIES
  ViewIsCompleted
