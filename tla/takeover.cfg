SPECIFICATION WorkerSpec
CONSTANTS
  s1 = s1 s2 = s2 st1 = st1 st2 = st2 st3 = st3 young = young g1 = g1 op = op
  co1 = co1 co2 = co2 c1 = c1 c2 = c2 k1 = k1 k2 = k2 k3 = k3 k4 = k4
  Slots = {s2}
  Students = {st1, st2}
  Guardians = {g1}
  Operators = {op}
  Coaches = {co1}
  Closures = {c2}
  Keys = {k1, k2}
  SlotWindow <- MCSlotWindow
  ClosureWindow <- MCClosureWindow
  Authorizations <- MCAuthorizations
  Eligible <- MCEligible
  Capacities = {2}
  InitialReserved <- MCNoneReserved
  HoldDuration = 2
  CheckInLead = 3
  MaxBookings = 2
  MaxEntries = 4
  Moments <- MCMoment
  FractionDigits = 0
  Base = 2
  w1 = w1 w2 = w2
  Runners = {w1, w2}
  None = None
  BatchLimit = 1
  MaxAttempts = 2
  MaxFaults = 1
SYMMETRY WorkerSymmetry
VIEW WorkerView
INVARIANTS CompensationTypeOK DrainedWhenDone CompensationAttempts
PROPERTIES ImplementsAttempts
CHECK_DEADLOCK FALSE
