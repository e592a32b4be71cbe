SPECIFICATION FairSpec
CONSTANTS
  h1 = h1
  h2 = h2
  p1 = p1
  p2 = p2
  Hubs = {h1, h2}
  Passes = {p1}
  MaxBlock = 2
  MaxTxs = 1
  TxCount <- OneEach
  ConfigBlocks <- Genesis
  LifecycleTxs <- LastTx
  CountedTxs <- MiddleTxs
  BootMode = "CUSTOM"
  NoOfBlocks = 2
  MaxDbFaults = 0
  MaxPeerFaults = 1
  MaxCrashes = 0
CHECK_DEADLOCK FALSE
PROPERTIES
  WantedBlocksAreCopied
