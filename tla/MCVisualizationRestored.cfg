SPECIFICATION BrowseSpec
CONSTANTS
  Requests <- MCRequests
  Regenerate <- MCRegenerate
  Detect <- MCDetect
  Opcodes <- MCOpcodes
  DeletedFiles = TRUE
  MAX_SOURCE_ROWS = 5
  MAX_EXPANDED_RANGES = 3
  CONTEXT = 1
  CONTEXT_STEP = 2
  CHILD_PAGE = 2
  NODE_LIMIT = 5
  MaxClicks = 3
INVARIANT UnitsKeepTheirText
CHECK_DEADLOCK FALSE
