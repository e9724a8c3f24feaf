SPECIFICATION Spec
CONSTANTS
  Chunk <- KeptChunk
  FocusPoint <- KeptFocus
  Interests <- MCInterests
  LoadRadius = 0
  RetentionMargin = 2
  MaxTracked = 2
  Budget = 2
  Cuts <- KeptCuts
  Page <- KeptPage
  PagesOf <- KeptPagesOf
  MaxEvents = 3
  None = None
INVARIANT ShownIfWanted
CHECK_DEADLOCK FALSE
