CONSTANTS
  Message = {m1, bad, log}
  Unhandled = {log}
  Refused = {bad}
  Consumer = {c1, c2}
  BatchSize = 2
  MaxRetries = 3
SPECIFICATION Spec
INVARIANTS
  TypeOK
  AlertsBounded
PROPERTIES
  CarriesOut
  EveryMessageSettles
