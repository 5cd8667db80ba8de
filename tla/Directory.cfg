SPECIFICATION Spec
CONSTANTS
  t1 = t1
  t2 = t2
  t3 = t3
  k1 = k1
  k2 = k2
  n1 = n1
  n2 = n2
  NoConn = NoConn
  Threads = {t1, t2}
  Connections = {k1, k2}
  Names = {n1, n2}
  Workload <- SomeRequests
  MaxRows = 2
  MaxDbFails = 1
SYMMETRY Interchangeable
INVARIANTS
  TypeOK
  ToldOwnId
  CreatorOwnsGroup
  GroupsHaveCreators
  ListsComplete
CHECK_DEADLOCK FALSE
