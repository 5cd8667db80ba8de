SPECIFICATION FairSpec
CONSTANTS
  u1 = u1
  u2 = u2
  u3 = u3
  s1 = s1
  s2 = s2
  c1 = c1
  c2 = c2
  c3 = c3
  right = right
  wrong = wrong
  m1 = m1
  m2 = m2
  NoConn = NoConn
  NoUser = NoUser
  NoMsg = NoMsg
  Servers = {s1}
  Users = {u1, u2}
  DefaultId = u1
  Conns = {c1, c2}
  Host <- OneServer
  Messages = {m1}
  Chats = {}
  Posts = {m1}
  Members = {u1, u2}
  Accounts <- OneEach
  Passwords = {right}
  Password <- OnePassword
  MaxDbFails = 0
  MaxCmds = 1
  Workload = {"loginout", "disconnect"}
  SerialLogins = TRUE
PROPERTIES
  HandlersFinish
  VanishedClientFreesAccount
