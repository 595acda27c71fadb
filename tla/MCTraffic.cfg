SPECIFICATION Spec
CONSTANTS
  Segments = {s1, s2}
  Samples <- MCSamples
  Workers = {w1, w2}
  Hour = 2
  TrendHours = 1
  MaxReadings = 2
  MaxTime = 3
SYMMETRY Symmetry
INVARIANTS TypeOK OnTimeIsCounted SeenStaysCounted DonutPartitions
PROPERTY SnapshotNeverGoesBack
