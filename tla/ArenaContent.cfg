CONSTANTS
  w1 = w1
  w2 = w2
  b1 = b1
  b2 = b2
  b3 = b3
  stray = stray
  Channel = {w1, w2, o, stray}
  Wanted = {w1, w2}
  Block = {b1, b2, b3, stray}
  Stray = {stray}
  Per = 1
  Concurrency = 2
  Retries = 1
  Start <- StartLists
  MaxLength = 4
  MaxEdits = 1
  None = None
SPECIFICATION Spec
CHECK_DEADLOCK FALSE
INVARIANTS
  TypeOK
  FoundIsFirst
  BlocksWhole
  ReadsStopAtMatch
PROPERTIES
  RequestEnds
