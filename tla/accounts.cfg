SPECIFICATION FairSpec
CONSTANTS
  p1 = p1 p2 = p2 e1 = e1 e2 = e2 e3 = e3
  FractionDigits = 1
  Base = 2
  Processes = {p1, p2}
  Emails = {e1, e2, e3}
  Configured <- MCConfigured
  Provisioned <- MCProvisioned
  Windows <- MCWindows
  SessionTTL = 1
  Hour = 2
  MaxAttempts = 2
  MaxSessions = 1
  Moments <- MCMoments
  MaxFaults = 1
INVARIANTS AccountsTypeOK ReadyWhenUp AccountsFitLedger
PROPERTIES RefusedForGood ComesUp GetsSwept
CHECK_DEADLOCK FALSE
