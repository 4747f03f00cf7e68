SPECIFICATION Spec
CONSTANTS
  g1 = g1
  g2 = g2
  c1 = c1
  m1 = m1
  m2 = m2
  k1 = k1
  w1 = w1
  w2 = w2
  Codes <- MCCodes
  Generators = {g1, g2}
  Carriers = {c1}
  Manifests = {m1}
  Checks = {}
  Expiries = {1}
  Seed <- LinkingSeed
  Addressed = {g1, c1, m1}
  MaxTime = 0
  Lookahead = 0
  MaxVersion <- UpTo2
  Workers = {w1, w2}
  Absent = Absent
  Idle = Idle
SYMMETRY WorkerSymmetry
INVARIANTS TypeOK SubmittedPartiesWereVetted
PROPERTIES GeneratorsFollowTheService CarriersFollowTheService UnfitPartiesHoldBack
