CONSTANTS
  Request = {r1, r2}
  SeedDoc = {d1}
  SeedCategory = {c1}
  SeedMedia = {}
  Slug = {s1, summary}
  Reserved = {summary}
  CategorySlug = {g1}
  Text = {t1, t2}
  MaxRevisions = 2
  None = None
  s1 = s1
  summary = summary
  t1 = t1
  t2 = t2
  c1 = c1
  m1 = m1
  Operations <- DocOperations
  Inputs <- DocInputs
  Kinds = {"post"}
SPECIFICATION Spec
SYMMETRY RequestSymmetry
INVARIANTS
  EveryWriteSnapshotted
