SPECIFICATION FairSpec
CONSTANTS
  u1 = u1
  u2 = u2
  u3 = u3
  NoUser = NoUser
  Users = {u1, u2}
  Has <- Lists
  QueueLimit = 2
INVARIANTS
  AnswersAreOwn
  CommandsFromSession
  StartUpLeavesNothing

  
CHECK_DEADLOCK FALSE
