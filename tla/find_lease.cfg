SPECIFICATION Spec
CONSTANTS
  Workers = {w1, w2}
  DedupeKeys = {k1}
  MaxAttempts = 3
  Lease = 1
  MaxFaults = 0
INVARIANTS LeaseExclusive
