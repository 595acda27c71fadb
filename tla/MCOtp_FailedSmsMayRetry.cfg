SPECIFICATION Spec
CONSTANTS
  Phones = {p1}
  Codes = {c1, c2, c3}
  Requests = {r1, r2}
  Nobody = Nobody
  MaxPerHour = 2
  MaxAttempts = 2
  OtpTTL = 2
  Hour = 2
  Production = TRUE
  MaxTries = 3
  MaxTime = 2
SYMMETRY Symmetry
CHECK_DEADLOCK FALSE
INVARIANT FailedSmsMayRetry
