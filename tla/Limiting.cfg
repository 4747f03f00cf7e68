SPECIFICATION Spec
CONSTANTS
  k1 = k1
  k2 = k2
  w1 = w1
  w2 = w2
  Idle = Idle
  Untracked = Untracked
  Keys = {k1, k2}
  Workers = {w1, w2}
  Limit = 1
  CleanupSize = 1
  Ttl = 2
  Retries = 1
  MaxMinute = 2
  MaxRequests = 4
SYMMETRY MCSymmetry
INVARIANTS TypeOK LimitPerBackend BucketsBounded
CHECK_DEADLOCK FALSE
