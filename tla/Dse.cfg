CONSTANTS
  Reports = 3
  Pace = 1
  UnlockWait = 5
  SaveDelay = 1
  PollStart = 2
  PollStep = 1
  RefetchAt = 8
SPECIFICATION FairSpec
INVARIANTS
  TypeOK
PROPERTIES
  SnapshotComplete
  QuietEdgeBecomesReady
  SaveIsReplayed
