SPECIFICATION FairSpec
CONSTANTS
  Sockets = {c1}
  Geohashes <- MCGeohashes
  Group <- MCGroup
  Tile <- MCTile
  Capacity = 1
  Null = Null
  MaxUpdates = 2
INVARIANTS TypeOK TilesMatchGroups ClosedLeavesNothing SentWhatIsOwed
PROPERTY QueuedIsSent
CHECK_DEADLOCK FALSE
