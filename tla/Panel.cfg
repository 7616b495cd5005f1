CONSTANTS
  HoldSamples = 2
  ClickWindow = 2
  MaxTouches = 3
  MaxMisses = 1
  Retry = 1
  HostBodies <- MCHostBodies
SPECIFICATION Spec
INVARIANTS
  TypeOK
  ActionIsWhatWasRead
  SplitsNeedMissedReads
  ModeSurvivesPowerCut
PROPERTIES
  SavesEnd
  ModeChangesByDoubleClick
