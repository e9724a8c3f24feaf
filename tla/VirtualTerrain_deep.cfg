SPECIFICATION FairTerrainSpec
CONSTANTS
  MaxLevel = 3
  Columns = 2
  Incoherent <- NoPages
  Unproven <- OneUnproven
  Views <- DeepViews
  MaxResident = 30
  GroupsPerFrame = 2
  Edited <- NoPages
  MaxMoves = 1
  MaxEdits = 0
  Nothing = Nothing
INVARIANTS
  CutNeverTrips
  ProofsAreCurrent
  OwnersStayResident
  SelectionIsStable
PROPERTIES
  ViewIsCompleted
  RefinementSettles
