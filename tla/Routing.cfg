SPECIFICATION Spec
CONSTANTS
  u1 = u1
  u2 = u2
  u3 = u3
  s1 = s1
  s2 = s2
  c1 = c1
  c2 = c2
  c3 = c3
  right = right
  wrong = wrong
  m1 = m1
  m2 = m2
  NoConn = NoConn
  NoUser = NoUser
  NoMsg = NoMsg
  Servers = {s1, s2}
  Users = {u1, u2}
  DefaultId = u1
  Conns = {c1, c2}
  Host <- TwoServers
  Messages = {m1}
  Chats = {m1}
  Posts = {}
  Members = {}
  Accounts <- Shared
  Passwords = {right, wrong}
  Password <- OnePassword
  MaxDbFails = 1
  MaxCmds = 1
  Workload = {"disconnect"}
  SerialLogins = FALSE
INVARIANTS
  TypeOK
  

  
