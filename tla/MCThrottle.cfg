SPECIFICATION Spec
CONSTANTS
  Requests = {r1, r2}
  Routes = {"otp", "report"}
  Limit <- MCLimit
  Duration <- MCDuration
  MaxPassed = 4
  MaxTime = 3
SYMMETRY Symmetry
INVARIANTS TypeOK LimitUnlessRaced RefusedAtLimitOnly
CHECK_DEADLOCK FALSE
