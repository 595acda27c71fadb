SPECIFICATION FairSpec
CONSTANTS
  Reports = {i1}
  Voters = {u1, u2}
  Requests = {r1, r2}
  NoReport = NoReport
  ReportTTL = 0
  MaxTime = 2
INVARIANTS TypeOK ScoreIsSumUnlessDirty ScoreWithinVotes
PROPERTIES ExpiredIsFinal ImplementsScoreBoard OverdueExpires
