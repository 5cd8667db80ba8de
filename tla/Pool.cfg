SPECIFICATION FairSpec
CONSTANTS
  t1 = t1
  t2 = t2
  t3 = t3
  t4 = t4
  k1 = k1
  k2 = k2
  k3 = k3
  Main = Main
  NoConn = NoConn
  Threads = {t1, t2, t3}
  Connections = {k1, k2, k3}
  MayClose = TRUE
INVARIANTS
  TypeOK
  SemaphoreCounts
  ExclusiveUse
  NoWaitWhenEnough
PROPERTIES
  WaiterServed
CHECK_DEADLOCK FALSE
