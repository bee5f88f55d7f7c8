CONSTANTS
  Request = {r1, r2, r3}
  Browser = {b1}
  Account = {a1, a2}
  Owns <- OneVisitor
  Consumer = {c1}
  BatchSize = 2
  MaxRetries = 1
  None = None
  b1 = b1
  a1 = a1
  a2 = a2
SPECIFICATION Spec
SYMMETRY RequestSymmetry
CHECK_DEADLOCK FALSE
INVARIANTS
  TypeOK
  LaterSignsRefused
  AlertedIsSigned
  SessionsAreSpent
  AnswerMatchesRow
