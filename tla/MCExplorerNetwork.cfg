SPECIFICATION Spec
CONSTANTS
  c1 = c1
  c2 = c2
  orderer = orderer
  host = host
  cc = cc
  t1 = t1
  NoItem = NoItem
  NoChannel = NoChannel
  Nobody = Nobody
  NoRow = NoRow
  Channels = {c1, c2}
  Nodes = {orderer}
  Chaincodes = {cc}
  Orderers = {orderer}
  HostOf <- HostOfOrderer
  Home <- NobodyHome
  Timers = {t1}
  MaxBlocks <- TwoBlocksOnFirst
  MaxEra = 1
  MaxFaults = 1
  MaxStarts = 2
  MaxSize = 3
  MaxTrouble = 2
CHECK_DEADLOCK FALSE
INVARIANTS
  TypeOK
  OneNetworkPerChannel
  CountersBounded
PROPERTIES
  CountersOnlyGrow
  MembersAreRecorded
