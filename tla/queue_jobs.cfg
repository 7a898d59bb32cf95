SPECIFICATION FairSpec
CONSTANTS
  Workers = {w1, w2}
  DedupeKeys = {k1, k2}
  MaxAttempts = 2
  Lease = 1
  MaxFaults = 1
INVARIANTS QueueTypeOK ClaimsNumbered AttemptsBounded
PROPERTIES ImplementsAttempts Settles
