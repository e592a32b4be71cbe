SPECIFICATION Spec
CONSTANTS
  h1 = h1
  h2 = h2
  p1 = p1
  p2 = p2
  Hubs = {h1}
  Passes = {p1, p2}
  MaxBlock = 1
  MaxTxs = 1
  TxCount <- OneEach
  ConfigBlocks <- Genesis
  LifecycleTxs <- NoTxs
  CountedTxs <- MiddleTxs
  BootMode = "ALL"
  NoOfBlocks = 0
  MaxDbFaults = 0
  MaxPeerFaults = 0
  MaxCrashes = 0
CHECK_DEADLOCK FALSE
INVARIANTS
  NoOverlappingSync
