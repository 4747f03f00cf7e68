SPECIFICATION Spec
CONSTANTS
  g1 = g1
  g2 = g2
  c1 = c1
  m1 = m1
  m2 = m2
  k1 = k1
  w1 = w1
  w2 = w2
  Codes <- MCCodes
  Generators = {g1}
  Carriers = {c1}
  Manifests = {m1, m2}
  Checks = {k1}
  Expiries = {1, 2}
  Seed <- DecidingSeed
  Addressed = {m1, k1}
  MaxTime = 1
  Lookahead = 0
  MaxVersion <- DispatchOne
  Workers = {w1, w2}
  Absent = Absent
  Idle = Idle
SYMMETRY WorkerSymmetry
INVARIANTS PassedManifestsWereSubmitted
PROPERTIES ManifestsFollowTheService ChecksFollowTheService OrphansStayUndecided UnfitPartiesHoldBack
