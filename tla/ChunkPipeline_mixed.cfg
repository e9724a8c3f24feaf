SPECIFICATION Spec
CONSTANTS
  Chunk <- MCChunk
  FocusPoint <- MCFocus
  Interests <- MCInterests
  LoadRadius = 0
  RetentionMargin = 2
  MaxTracked = 2
  Budget = 1
  Cuts <- MCCuts
  Page <- MCPage
  PagesOf <- MCPagesOf
  MaxEvents = 2
  None = None
INVARIANT ShownIfHeldBack
CHECK_DEADLOCK FALSE
