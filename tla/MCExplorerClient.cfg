SPECIFICATION Spec
CONSTANTS
  c1 = c1
  c2 = c2
  q1 = q1
  Channels = {c1, c2}
  First = c1
  Searches = {q1}
  Recent = Recent
  PagesOf <- TwoPagesThenOne
  NoChannel = NoChannel
  MaxActs = 2
CHECK_DEADLOCK FALSE
INVARIANTS
  TypeOK
  AlwaysRefreshed
  ChangesSettle
PROPERTIES
  DialogCloses
  ListFollowsPager
