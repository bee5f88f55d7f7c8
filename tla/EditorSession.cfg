CONSTANTS
  Slug = {s1, s2}
  Stored = {s1}
  MaxCalls = 3
  MaxEdits = 1
  MaxMounts = 2
  None = None
SPECIFICATION Spec
CHECK_DEADLOCK FALSE
INVARIANTS
  TypeOK
  CleanMeansStored
  SavedMeansStored
PROPERTIES
  OthersUntouched
  TypedTextStays
  SavesSettleOrStall
