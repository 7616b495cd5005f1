CONSTANTS
  Capacity = 2
  MaxWrites = 7
SPECIFICATION FairSpec
INVARIANTS
  TypeOK
  NoLostWakeup
PROPERTIES
  SentInOrderOnOwnLink
  QueuedIsSent
