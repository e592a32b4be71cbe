SPECIFICATION Spec
CONSTANTS
  o1 = o1
  o2 = o2
  p1 = p1
  p2 = p2
  r1 = r1
  NoOrg = NoOrg
  Recent = Recent
  NoKey = NoKey
  Missing = Missing
  c1 = c1
  c2 = c2
  k1 = k1
  u1 = u1
  Root = Root
  Dummy = Dummy
  NoList = NoList
  ThisChannel = ThisChannel
  MaxBlock = 2
  TxCount <- CountOfTxs
  Time <- Timestamps
  Creator <- Creators
  Invocations <- Invoked
  Orgs = {o1, o2}
  Nodes = {p1, p2, r1}
  Orderers = {r1}
  OrgOf <- Mspid
  Elsewhere <- OtherChannel
  Day = 2
  Period = 2
  MaxTime = 4
  Watched <- AskedAbout
  Unit = 2
  Size = 2
  RangeLimit = 3
  Typed <- Windows
  Keys <- Wanted
  Calls = {c1, c2}
  MaxSearches = 2
  Viewed <- Linked
  Contracts = {k1}
  MaxClicks = 2
  Names = {Root, u1}
  Admins = {Root}
  Posts = {c1, c2}
  MaxPosts = 2
  Latest = 2
  MaxReports = 1
  MaxEvents <- TwoEvents
SYMMETRY Symmetry
CHECK_DEADLOCK FALSE
INVARIANTS
  TypeOK
  NothingSkipped
  AnswersAreTrue
  PanelsAreCurrent
