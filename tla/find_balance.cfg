SPECIFICATION Spec
CONSTANTS
  s1 = s1 s2 = s2 st1 = st1 st2 = st2 st3 = st3 young = young g1 = g1 op = op
  co1 = co1 co2 = co2 c1 = c1 c2 = c2 k1 = k1 k2 = k2 k3 = k3 k4 = k4
  Slots = {s1}
  Students = {st1, st2, st3}
  Guardians = {g1}
  Operators = {op}
  Coaches = {co1}
  Closures = {}
  Keys = {k1, k2, k3, k4}
  SlotWindow <- MCSlotWindow
  ClosureWindow <- MCClosureWindow
  Authorizations <- MCAuthorizations
  Eligible <- MCEligible
  Capacities = {1, 2}
  InitialReserved <- MCNoneReserved
  HoldDuration = 2
  CheckInLead = 1
  MaxBookings = 2
  MaxEntries = 5
  Moments <- MCMoment
  FractionDigits = 0
  Base = 2
SYMMETRY Symmetry
VIEW WithoutKeys
INVARIANTS RunningBalance
CHECK_DEADLOCK FALSE
