SPECIFICATION FairSpec
CONSTANTS
  l1 = l1
  l2 = l2
  r1 = r1
  m1 = m1
  m2 = m2
  o1 = o1
  p1 = p1
  NoMsg = NoMsg
  Logins = {l1, l2}
  Regs = {r1}
  Commands = {m1, m2}
  Loginouts = {o1}
  Pushes = {p1}
  Size <- Sizes
  BufferSize = 2
INVARIANTS
  MessagesInOrder
  ServerOutlivesJoins
  LostOnlyBehindAnother
PROPERTIES
  WaitEnds
CHECK_DEADLOCK FALSE
