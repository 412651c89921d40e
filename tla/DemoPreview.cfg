CONSTANTS
  MaxTasks = 2
  Tagging = TRUE
  MaxRetries = 1
  MaxFaults = 2
  None = None
SPECIFICATION PreviewSpec
INVARIANTS OneAtATime TagsMatchPreview
PROPERTY RowSettles
CHECK_DEADLOCK FALSE
