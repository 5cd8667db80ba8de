SPECIFICATION LifeSpec
CONSTANTS
  u1 = u1
  u2 = u2
  s1 = s1
  s2 = s2
  c1 = c1
  c2 = c2
  right = right
  NoConn = NoConn
  NoUser = NoUser
  NoMsg = NoMsg
  Servers = {s1, s2}
  Users = {u1, u2}
  DefaultId = u1
  Conns = {c1, c2}
  Host <- TwoServers
  Messages = {}
  Chats = {}
  Posts = {}
  Members = {}
  Accounts <- Roaming
  Passwords = {right}
  Password <- OnePassword
  MaxDbFails = 1
  MaxCmds = 1
  MaxDeaths = 1
  Workload = {"disconnect"}
  SerialLogins = FALSE
INVARIANTS
  SessionsSurvive
  PresenceExplained
