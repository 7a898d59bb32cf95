SPECIFICATION FairSpec
CONSTANTS
  a = a other = other twin = twin k1 = k1 k2 = k2
  st1 = st1 st2 = st2 st3 = st3 s1 = s1 i1 = i1 i2 = i2
  Calls = {a, other, twin}
  Keys = {k1, k2}
  Students = {st1, st2, st3}
  Slots = {s1}
  RequestIds = {i1, i2}
  Request <- MCRequest
  Sizes = {2, 3}
  InitialCapacity <- MCTwoSeats
  InitialReserved <- MCOneReserved
  MaxAttempts = 2
  MaxCommits = 1
  MaxExpired = 1
  MaxFaults = 1
  None = None
INVARIANTS ContentionTypeOK CountsAgree OncePerKey ReconcileDrift
PROPERTIES ImplementsDesk ServesRegister Answered
