CONSTANTS
  Slug = {s1}
  Stored = {}
  MaxCalls = 2
  MaxEdits = 1
  MaxMounts = 1
  None = None
SPECIFICATION Spec
CHECK_DEADLOCK FALSE
PROPERTY
  SavesSettle
