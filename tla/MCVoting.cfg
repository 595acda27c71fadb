SPECIFICATION Spec
CONSTANTS
  Users = {u1, u2}
  Emails = {e1}
  Phones = {p1, p2}
  Devices = {d1}
  Requests = {r1}
  Null = Null
  Reports = {i1}
  NoReport = NoReport
  ReportTTL = 0
  MaxTime = 1
  VoteRequests = {v1}
SYMMETRY Symmetry
INVARIANTS TypeOK VotesAreEarned ScoreCountsPhones
