CONSTANTS
  Addrs = {a1, a2}
  NoAddr = noAddr
  MaxKeys = 1
SPECIFICATION FairSpec
PROPERTIES
  RemovalPersists
  UnwantedLinkEnds
