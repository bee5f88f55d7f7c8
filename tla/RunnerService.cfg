CONSTANTS
  Post = {p1, p2}
  Secret = {bundle, axiom}
  MaxInstances = 1
  Attempts = 2
  MaxReads = 2
  MaxCrashes = 1
SPECIFICATION Spec
CHECK_DEADLOCK FALSE
INVARIANTS
  TypeOK
  NothingLeftBehind
  SharedRead
PROPERTIES
  InstancesEnd
