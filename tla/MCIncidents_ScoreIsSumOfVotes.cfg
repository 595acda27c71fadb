SPECIFICATION Spec
CONSTANTS
  Reports = {i1, i2}
  Voters = {u1, u2}
  Requests = {r1, r2}
  NoReport = NoReport
  ReportTTL = 0
  MaxTime = 1
SYMMETRY Symmetry
INVARIANT ScoreIsSumOfVotes
