CONSTANTS
  Addrs = {a1, a2, a3}
  NoAddr = noAddr
  MaxKeys = 2
SYMMETRY AddrSymmetry
SPECIFICATION Spec
INVARIANTS
  TypeOK
  NoStaleLink
  UnownedLinkIsClosing
  ReachableWhenIdle
  InquiryLedHonest
  FlashCoversBlacklist
PROPERTIES
  BlockedPageNeedsInquiry
