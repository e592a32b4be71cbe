SPECIFICATION Spec
CONSTANTS
  h1 = h1
  h2 = h2
  p1 = p1
  p2 = p2
  Hubs = {h1}
  Passes = {p1, p2}
  MaxBlock = 1
  MaxTxs = 2
  TxCount <- OneThenTwo
  ConfigBlocks <- Genesis
  LifecycleTxs <- NoTxs
  CountedTxs <- MiddleTxs
  BootMode = "ALL"
  NoOfBlocks = 0
  MaxDbFaults = 1
  MaxPeerFaults = 0
  MaxCrashes = 1
SYMMETRY Symmetry
CHECK_DEADLOCK FALSE
INVARIANTS
  TypeOK
  NoDuplicateRows
  BlocksAreComplete
  CountersFollowRows
  AnnouncedOnce
PROPERTIES
  ImplementsLedgerCopy
