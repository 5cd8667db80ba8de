--------------------------- MODULE Directory_proofs ---------------------------
(***************************************************************************)
(* For any number of threads, connections, names and rows, any workload    *)
(* and any number of failing statements: a generated id goes to the request*)
(* that caused it, the lists of a login answer miss nothing, and a group   *)
(* without a creator is one whose second statement failed.                 *)
(*                                                                         *)
(* A handler touches its own locals only, the insert id of a connection    *)
(* nobody else has, and tables to which it only adds (Local, Grows).  So   *)
(* what holds of a thread (Own) survives the steps of the others, and each *)
(* action is looked at for its own thread alone.                           *)
(***************************************************************************)
EXTENDS Directory, FiniteSetTheorems, TLAPS

LoginPcs == {"friends", "groups", "users", "loginAck"}

(* What the handler is doing, and whether it has a connection.             *)
Frame(t) ==
    /\ pc[t] = "insert" => req[t].verb \in {"reg", "createGroup", "addFriend"}
    /\ pc[t] = "insertId" => req[t].verb \in {"reg", "createGroup"}
    /\ pc[t] = "addGroup" => req[t].verb \in {"addGroup", "createGroup"}
    /\ pc[t] = "answer" => req[t].verb = "reg"
    /\ pc[t] \in LoginPcs => req[t].verb = "login"
    /\ conn[t] # NoConn <=> pc[t] \in {"insertId", "users"}

(* The row that MySQL numbered id was made for the request of t.           *)
Made(t, id) ==
    /\ req[t].verb = "reg" => [id |-> id, name |-> req[t].name] \in user
    /\ req[t].verb = "createGroup" => [id |-> id, user |-> req[t].user] \in allgroup

Numbered(t) ==
    /\ pc[t] = "insertId" => Made(t, insertId[conn[t]])
    /\ pc[t] \in {"answer", "addGroup"} => Made(t, newId[t])

(* What a login has read so far.                                           *)
Gathered(t) ==
    /\ pc[t] \notin LoginPcs => lists[t] = EmptyLists
    /\ pc[t] \in LoginPcs =>
        /\ req[t].user \in Registered
        /\ lists[t].before.friends \subseteq FriendsOf(req[t].user)
        /\ lists[t].before.groups \subseteq GroupsOf(req[t].user)
        /\ lists[t].groups \subseteq GroupsOf(req[t].user)
        /\ pc[t] # "friends" /\ NoId \notin lists[t].failed
              => lists[t].before.friends \subseteq lists[t].friends
        /\ pc[t] \in {"users", "loginAck"} /\ NoId \notin lists[t].failed
              => lists[t].before.groups \subseteq lists[t].groups
        /\ pc[t] \in {"friends", "groups"} => lists[t].groups = {}
        /\ pc[t] # "users" => lists[t].todo = {}
        /\ \A g \in lists[t].groups :
              g \in lists[t].todo \cup lists[t].failed \/ <<g, req[t].user>> \in lists[t].users

Own(t) == Frame(t) /\ Numbered(t) /\ Gathered(t)

Exclusive ==
    \A s, t \in Threads : conn[s] # NoConn /\ conn[s] = conn[t] => s = t

IInv ==
    /\ TypeOK
    /\ Exclusive
    /\ \A t \in Threads : Own(t)
    /\ ToldOwnId
    /\ CreatorOwnsGroup

-----------------------------------------------------------------------------
(* What a step of thread t leaves alone.                                   *)

Local(t) ==
    \A s \in Threads \ {t} :
        /\ pc'[s] = pc[s] /\ req'[s] = req[s] /\ newId'[s] = newId[s]
        /\ conn'[s] = conn[s] /\ lists'[s] = lists[s]
        /\ conn[s] # NoConn => insertId'[conn[s]] = insertId[conn[s]]

Grows ==
    /\ user \subseteq user'
    /\ friend \subseteq friend'
    /\ allgroup \subseteq allgroup'
    /\ groupuser \subseteq groupuser'

LEMMA StepLocal ==
  ASSUME TypeOK, NEW t \in Threads, Step(t)
  PROVE  Local(t) /\ Grows
<1> USE DEF TypeOK, Goto, Return, Local, Grows, tables, Free, Fails, Reads
<1>1. ASSUME NEW r \in Workload, Receive(t, r) PROVE Local(t) /\ Grows
  BY <1>1 DEF Receive
<1>2. CASE InsertUser(t)
  BY <1>2 DEF InsertUser, InsertRow
<1>3. CASE InsertGroup(t)
  BY <1>3 DEF InsertGroup, InsertRow
<1>4. CASE InsertFails(t)
  BY <1>4 DEF InsertFails
<1>5. CASE ReadInsertId(t)
  BY <1>5 DEF ReadInsertId
<1>6. CASE AnswerReg(t)
  BY <1>6 DEF AnswerReg
<1>7. CASE InsertFriend(t)
  BY <1>7 DEF InsertFriend
<1>8. CASE InsertMember(t)
  BY <1>8 DEF InsertMember
<1>9. CASE MemberFails(t)
  BY <1>9 DEF MemberFails
<1>10. CASE QueryFriends(t)
  BY <1>10 DEF QueryFriends
<1>11. CASE QueryGroups(t)
  BY <1>11 DEF QueryGroups
<1>12. CASE QueryGroupUsers(t)
  BY <1>12 DEF QueryGroupUsers
<1>13. CASE GroupsRead(t)
  BY <1>13 DEF GroupsRead
<1>14. CASE AnswerLogin(t)
  BY <1>14 DEF AnswerLogin
<1> QED
  BY <1>1, <1>2, <1>3, <1>4, <1>5, <1>6, <1>7, <1>8, <1>9, <1>10, <1>11, <1>12, <1>13, <1>14
  DEF Step

-----------------------------------------------------------------------------
(* Types.                                                                  *)

LEMMA RequestFields ==
  ASSUME TypeOK, NEW t \in Threads
  PROVE  /\ req[t].verb = "reg" => req[t].name \in Names
         /\ req[t].verb \in {"createGroup", "addGroup", "addFriend", "login"}
               => req[t].user \in Ids
         /\ req[t].verb = "addGroup" => req[t].group \in Ids
         /\ req[t].verb = "addFriend" => req[t].friend \in Ids
BY DEF TypeOK, Requests, NoRequest

LEMMA QueriesTyped ==
  ASSUME TypeOK, NEW u
  PROVE  /\ Registered \subseteq Ids
         /\ FriendsOf(u) \subseteq Ids
         /\ GroupsOf(u) \subseteq Ids
         /\ UsersOf(u) \subseteq Ids
BY DEF TypeOK, Registered, FriendsOf, GroupsOf, UsersOf

LEMMA EmptyListsTyped == EmptyLists \in Lists
BY DEF EmptyLists, Lists

LEMMA ListsUpdated ==
  ASSUME NEW l \in Lists, NEW S \in SUBSET Ids, NEW T \in SUBSET Ids,
         NEW P \in SUBSET (Ids \X Ids), NEW F \in SUBSET (Ids \cup {NoId})
  PROVE  /\ [l EXCEPT !.before = [friends |-> S, groups |-> T]] \in Lists
         /\ [l EXCEPT !.friends = S] \in Lists
         /\ [l EXCEPT !.groups = S, !.todo = T] \in Lists
         /\ [l EXCEPT !.failed = F] \in Lists
         /\ [l EXCEPT !.users = P, !.todo = S] \in Lists
         /\ [l EXCEPT !.failed = F, !.todo = S] \in Lists
<1>1. [l EXCEPT !.before = [friends |-> S, groups |-> T]] \in Lists
  BY DEF Lists
<1>2. [l EXCEPT !.friends = S] \in Lists
  BY DEF Lists
<1>3. [l EXCEPT !.groups = S, !.todo = T] \in Lists
  BY DEF Lists
<1>4. [l EXCEPT !.failed = F] \in Lists
  BY DEF Lists
<1>5. [l EXCEPT !.users = P, !.todo = S] \in Lists
  BY DEF Lists
<1>6. [l EXCEPT !.failed = F, !.todo = S] \in Lists
  BY DEF Lists
<1> QED
  BY <1>1, <1>2, <1>3, <1>4, <1>5, <1>6

(* What of TypeOK is about neither a place in a handler nor a login.       *)
Rest ==
    /\ user \subseteq [id : Ids, name : Names]
    /\ friend \subseteq Ids \X Ids
    /\ allgroup \subseteq [id : Ids, user : Ids]
    /\ groupuser \subseteq [group : Ids, user : Ids, role : {"creator", "normal"}]
    /\ insertId \in [Connections -> Ids \cup {NoId}]
    /\ req \in [Threads -> Requests \cup {NoRequest}]
    /\ newId \in [Threads -> Ids \cup {NoId}]
    /\ conn \in [Threads -> Connections \cup {NoConn}]
    /\ told \subseteq [name : Names, id : Ids]

LEMMA StepTyped ==
  ASSUME DirectoryAssumption, TypeOK, NEW t \in Threads, Frame(t), Numbered(t), Step(t)
  PROVE  TypeOK'
<1>o. Rest
  BY DEF Rest, TypeOK
<1>e. EmptyLists \in Lists
  BY EmptyListsTyped
<1>l. lists \in [Threads -> Lists] /\ lists[t] \in Lists
  BY DEF TypeOK
<1>q. /\ Registered \subseteq Ids
      /\ \A u : FriendsOf(u) \subseteq Ids /\ GroupsOf(u) \subseteq Ids /\ UsersOf(u) \subseteq Ids
  BY QueriesTyped
<1>r. lists' = [lists EXCEPT ![t] = EmptyLists] => lists' \in [Threads -> Lists]
  BY <1>e, <1>l
<1>u. UNCHANGED lists => lists' \in [Threads -> Lists]
  BY <1>l
<1>n. NoId \in Ids \cup {NoId} /\ {} \in SUBSET Ids /\ {NoId} \in SUBSET (Ids \cup {NoId})
  OBVIOUS
<1>f. /\ req[t].verb = "reg" => req[t].name \in Names
      /\ req[t].verb \in {"createGroup", "addGroup", "addFriend", "login"}
            => req[t].user \in Ids
      /\ req[t].verb = "addGroup" => req[t].group \in Ids
      /\ req[t].verb = "addFriend" => req[t].friend \in Ids
  BY RequestFields
<1>0. dbFails' \in 0 .. MaxDbFails
  <2>1. dbFails' = dbFails \/ (dbFails < MaxDbFails /\ dbFails' = dbFails + 1)
    BY DEF Step, Receive, InsertUser, InsertGroup, InsertRow, InsertFails, ReadInsertId, AnswerReg,
           InsertFriend, InsertMember, MemberFails, QueryFriends, QueryGroups, QueryGroupUsers,
           GroupsRead, AnswerLogin, Fails
  <2> QED
    BY <2>1 DEF TypeOK, DirectoryAssumption
<1>p. pc' \in [Threads -> {"idle", "insert", "insertId", "addGroup", "answer",
                           "friends", "groups", "users", "loginAck"}]
  <2>1. pc' = pc \/ \E there \in {"idle", "insert", "insertId", "addGroup", "answer",
                                  "friends", "groups", "users", "loginAck"} : Goto(t, there)
    <3>1. ASSUME NEW r \in Workload, Receive(t, r)
          PROVE  Goto(t, "addGroup") \/ Goto(t, "friends") \/ Goto(t, "insert")
      BY <3>1, Zenon DEF Receive
    <3> QED
      BY <3>1 DEF Step, InsertUser, InsertGroup, InsertRow, InsertFails, ReadInsertId, AnswerReg,
             InsertFriend, InsertMember, MemberFails, QueryFriends, QueryGroups, QueryGroupUsers,
             GroupsRead, AnswerLogin, Return
  <2> QED
    BY <2>1 DEF TypeOK, Goto
<1> SUFFICES Rest' /\ lists' \in [Threads -> Lists]
  BY <1>0, <1>p DEF TypeOK, Rest
<1>1. ASSUME NEW r \in Workload, Receive(t, r) PROVE Rest' /\ lists' \in [Threads -> Lists]
  <2>1. r \in Requests
    BY DEF DirectoryAssumption
  <2>2. Rest'
    BY <1>o, <1>1, <2>1 DEF Receive, Rest, tables
  <2>3. [lists[t] EXCEPT !.before = [friends |-> FriendsOf(r.user), groups |-> GroupsOf(r.user)]]
          \in Lists
    BY <1>l, <1>q, <1>n, ListsUpdated
  <2>4. lists' \in [Threads -> Lists]
    BY <1>1, <1>l, <2>3, Zenon DEF Receive
  <2> QED
    BY <2>2, <2>4
<1>2. CASE InsertUser(t)
  <2>1. PICK k \in Free : InsertRow(t, k, NextId(user))
    BY <1>2 DEF InsertUser
  <2>2. k \in Connections /\ NextId(user) \in Ids
    BY <2>1 DEF Free, InsertRow
  <2>3. [id |-> NextId(user), name |-> req[t].name] \in [id : Ids, name : Names]
    BY <1>2, <1>f, <2>2 DEF InsertUser
  <2> QED
    BY <1>o, <1>2, <1>u, <2>1, <2>2, <2>3 DEF InsertUser, InsertRow, Rest
<1>3. CASE InsertGroup(t)
  <2>1. PICK k \in Free : InsertRow(t, k, NextId(allgroup))
    BY <1>3 DEF InsertGroup
  <2>2. k \in Connections /\ NextId(allgroup) \in Ids
    BY <2>1 DEF Free, InsertRow
  <2>3. [id |-> NextId(allgroup), user |-> req[t].user] \in [id : Ids, user : Ids]
    BY <1>3, <1>f, <2>2 DEF InsertGroup
  <2> QED
    BY <1>o, <1>3, <1>u, <2>1, <2>2, <2>3 DEF InsertGroup, InsertRow, Rest
<1>4. CASE InsertFails(t)
  BY <1>o, <1>4, <1>r DEF InsertFails, Rest, Return, tables
<1>5. CASE ReadInsertId(t)
  BY <1>o, <1>5, <1>u DEF ReadInsertId, Frame, Rest, tables
<1>6. CASE AnswerReg(t)
  <2>1. [id |-> newId[t], name |-> req[t].name] \in user
    BY <1>6 DEF AnswerReg, Frame, Numbered, Made
  <2>2. newId[t] \in Ids
    BY <2>1 DEF TypeOK
  <2>3. [name |-> req[t].name, id |-> newId[t]] \in [name : Names, id : Ids]
    BY <1>6, <1>f, <2>2 DEF AnswerReg, Frame
  <2> QED
    BY <1>o, <1>6, <1>r, <2>3 DEF AnswerReg, Rest, Return, tables
<1>7. CASE InsertFriend(t)
  <2>1. <<req[t].user, req[t].friend>> \in Ids \X Ids
    BY <1>7, <1>f DEF InsertFriend
  <2> QED
    BY <1>o, <1>7, <1>r, <2>1 DEF InsertFriend, Rest, Return, Free
<1>8. CASE InsertMember(t)
  <2>1. Row(t) \in [group : Ids, user : Ids, role : {"creator", "normal"}]
    <3>1. CASE req[t].verb = "addGroup"
      BY <1>f, <3>1 DEF Row
    <3>2. CASE req[t].verb = "createGroup"
      <4>1. [id |-> newId[t], user |-> req[t].user] \in allgroup
        BY <1>8, <3>2 DEF InsertMember, Numbered, Made
      <4>2. newId[t] \in Ids
        BY <4>1 DEF TypeOK
      <4> QED
        BY <1>f, <3>2, <4>2 DEF Row
    <3> QED
      BY <1>8, <3>1, <3>2 DEF InsertMember, Frame
  <2> QED
    BY <1>o, <1>8, <1>r, <2>1 DEF InsertMember, Rest, Return, Free
<1>9. CASE MemberFails(t)
  BY <1>o, <1>9, <1>r DEF MemberFails, Rest, Return, tables
<1>10. CASE QueryFriends(t)
  <2>1. /\ [lists[t] EXCEPT !.friends = FriendsOf(req[t].user)] \in Lists
        /\ [lists[t] EXCEPT !.failed = {NoId}] \in Lists
    BY <1>l, <1>q, <1>n, ListsUpdated
  <2>2. lists' \in [Threads -> Lists]
    BY <1>10, <1>l, <2>1, Zenon DEF QueryFriends
  <2>3. Rest'
    BY <1>o, <1>10 DEF QueryFriends, Reads, Rest, Free, tables
  <2> QED
    BY <2>2, <2>3
<1>11. CASE QueryGroups(t)
  <2>1. /\ [lists[t] EXCEPT !.groups = GroupsOf(req[t].user), !.todo = GroupsOf(req[t].user)]
              \in Lists
        /\ [lists[t] EXCEPT !.failed = {NoId}] \in Lists
    BY <1>l, <1>q, <1>n, ListsUpdated
  <2>2. lists' \in [Threads -> Lists]
    BY <1>11, <1>l, <2>1 DEF QueryGroups
  <2>3. Rest'
    BY <1>o, <1>11 DEF QueryGroups, Reads, Rest, Free, tables
  <2> QED
    BY <2>2, <2>3
<1>12. CASE QueryGroupUsers(t)
  <2>1. lists' \in [Threads -> Lists]
    <3>1. PICK g \in lists[t].todo :
             \/ lists' = [lists EXCEPT ![t].users = @ \cup {g} \X UsersOf(g), ![t].todo = @ \ {g}]
             \/ lists' = [lists EXCEPT ![t].failed = @ \cup {g}, ![t].todo = @ \ {g}]
      BY <1>12 DEF QueryGroupUsers
    <3>2. /\ g \in Ids
          /\ lists[t].users \cup {g} \X UsersOf(g) \in SUBSET (Ids \X Ids)
          /\ lists[t].failed \cup {g} \in SUBSET (Ids \cup {NoId})
          /\ lists[t].todo \ {g} \in SUBSET Ids
      BY <1>l, <1>q DEF Lists
    <3>3. /\ [lists[t] EXCEPT !.users = lists[t].users \cup {g} \X UsersOf(g),
                              !.todo = lists[t].todo \ {g}] \in Lists
          /\ [lists[t] EXCEPT !.failed = lists[t].failed \cup {g},
                              !.todo = lists[t].todo \ {g}] \in Lists
      BY <1>l, <1>n, <3>2, ListsUpdated
    <3> QED
      BY <1>l, <3>1, <3>3
  <2>2. Rest'
    BY <1>o, <1>12 DEF QueryGroupUsers, Reads, Rest, tables
  <2> QED
    BY <2>1, <2>2
<1>13. CASE GroupsRead(t)
  BY <1>o, <1>13, <1>u DEF GroupsRead, Reads, Rest, tables
<1>14. CASE AnswerLogin(t)
  BY <1>o, <1>14, <1>r DEF AnswerLogin, Rest, Return, tables
<1> QED
  BY <1>1, <1>2, <1>3, <1>4, <1>5, <1>6, <1>7, <1>8, <1>9, <1>10, <1>11, <1>12, <1>13, <1>14 DEF Step

-----------------------------------------------------------------------------
(* What holds of one handler, whoever steps.                               *)

LEMMA OthersKeep ==
  ASSUME TypeOK, NEW t \in Threads, Step(t), NEW s \in Threads \ {t}, Own(s)
  PROVE  Own(s)'
<1>1. Local(t) /\ Grows
  BY StepLocal
<1>2. /\ pc'[s] = pc[s] /\ req'[s] = req[s] /\ newId'[s] = newId[s]
      /\ conn'[s] = conn[s] /\ lists'[s] = lists[s]
      /\ conn[s] # NoConn => insertId'[conn[s]] = insertId[conn[s]]
  BY <1>1 DEF Local
<1>3. Frame(s)'
  BY <1>2 DEF Own, Frame
<1>4. Numbered(s)'
  BY <1>1, <1>2 DEF Own, Frame, Numbered, Made, Grows
<1>5. Gathered(s)'
  <2>1. /\ FriendsOf(req[s].user) \subseteq FriendsOf(req[s].user)'
        /\ GroupsOf(req[s].user) \subseteq GroupsOf(req[s].user)'
        /\ Registered \subseteq Registered'
    BY <1>1, <1>2 DEF Grows, FriendsOf, GroupsOf, Registered
  <2> QED
    BY <1>2, <2>1 DEF Own, Gathered
<1> QED
  BY <1>3, <1>4, <1>5 DEF Own

LEMMA FrameStep ==
  ASSUME DirectoryAssumption, TypeOK, NEW t \in Threads, Frame(t), Step(t)
  PROVE  Frame(t)'
<1> USE DEF Goto, Return, Frame
<1>n. NoConn \notin Connections
  BY DEF DirectoryAssumption
<1>t. /\ pc \in [Threads -> {"idle", "insert", "insertId", "addGroup", "answer",
                             "friends", "groups", "users", "loginAck"}]
      /\ req \in [Threads -> Requests \cup {NoRequest}]
      /\ conn \in [Threads -> Connections \cup {NoConn}]
  BY DEF TypeOK
<1>1. ASSUME NEW r \in Workload, Receive(t, r) PROVE Frame(t)'
  <2>1. r.verb \in {"reg", "createGroup", "addGroup", "addFriend", "login"}
    BY DEF DirectoryAssumption, Requests
  <2>2. pc'[t] = (IF r.verb = "addGroup" THEN "addGroup"
                  ELSE IF r.verb = "login" THEN "friends" ELSE "insert")
    <3>1. CASE r.verb = "addGroup"
      BY <1>1, <1>t, <3>1 DEF Receive
    <3>2. CASE r.verb = "login"
      BY <1>1, <1>t, <3>2 DEF Receive
    <3>3. CASE r.verb \notin {"addGroup", "login"}
      BY <1>1, <1>t, <3>3 DEF Receive
    <3> QED
      BY <3>1, <3>2, <3>3
  <2>3. req'[t] = r /\ conn' = conn /\ pc[t] = "idle"
    BY <1>1, <1>t DEF Receive
  <2> QED
    BY <2>1, <2>2, <2>3 DEF LoginPcs
<1>2. CASE InsertUser(t)
  BY <1>2, <1>n, <1>t DEF InsertUser, InsertRow, Free, LoginPcs
<1>3. CASE InsertGroup(t)
  BY <1>3, <1>n, <1>t DEF InsertGroup, InsertRow, Free, LoginPcs
<1>4. CASE InsertFails(t)
  BY <1>4, <1>t DEF InsertFails, LoginPcs
<1>5. CASE ReadInsertId(t)
  BY <1>5, <1>t DEF ReadInsertId, LoginPcs
<1>6. CASE AnswerReg(t)
  BY <1>6, <1>t DEF AnswerReg, LoginPcs
<1>7. CASE InsertFriend(t)
  BY <1>7, <1>t DEF InsertFriend, LoginPcs
<1>8. CASE InsertMember(t)
  BY <1>8, <1>t DEF InsertMember, LoginPcs
<1>9. CASE MemberFails(t)
  BY <1>9, <1>t DEF MemberFails, LoginPcs
<1>10. CASE QueryFriends(t)
  BY <1>10, <1>t DEF QueryFriends, Reads, LoginPcs
<1>11. CASE QueryGroups(t)
  BY <1>11, <1>n, <1>t DEF QueryGroups, Reads, Free, LoginPcs
<1>12. CASE QueryGroupUsers(t)
  BY <1>12, <1>t DEF QueryGroupUsers, Reads
<1>13. CASE GroupsRead(t)
  BY <1>13, <1>t DEF GroupsRead, Reads, LoginPcs
<1>14. CASE AnswerLogin(t)
  BY <1>14, <1>t DEF AnswerLogin, LoginPcs
<1> QED
  BY <1>1, <1>2, <1>3, <1>4, <1>5, <1>6, <1>7, <1>8, <1>9, <1>10, <1>11, <1>12, <1>13, <1>14 DEF Step

LEMMA NumberedStep ==
  ASSUME DirectoryAssumption, TypeOK, NEW t \in Threads, Frame(t), Numbered(t), Step(t)
  PROVE  Numbered(t)'
<1> USE DEF Goto, Return
<1>t. /\ pc \in [Threads -> {"idle", "insert", "insertId", "addGroup", "answer",
                             "friends", "groups", "users", "loginAck"}]
      /\ req \in [Threads -> Requests \cup {NoRequest}]
      /\ newId \in [Threads -> Ids \cup {NoId}]
      /\ conn \in [Threads -> Connections \cup {NoConn}]
      /\ insertId \in [Connections -> Ids \cup {NoId}]
  BY DEF TypeOK
<1>1. ASSUME NEW r \in Workload, Receive(t, r) PROVE Numbered(t)'
  <2>1. /\ pc'[t] \notin {"insertId", "answer"}
        /\ pc'[t] = "addGroup" => r.verb = "addGroup"
    <3>1. CASE r.verb = "addGroup"
      BY <1>1, <1>t, <3>1 DEF Receive
    <3>2. CASE r.verb = "login"
      BY <1>1, <1>t, <3>2 DEF Receive
    <3>3. CASE r.verb \notin {"addGroup", "login"}
      BY <1>1, <1>t, <3>3 DEF Receive
    <3> QED
      BY <3>1, <3>2, <3>3
  <2>2. req'[t] = r
    BY <1>1, <1>t DEF Receive
  <2> QED
    BY <2>1, <2>2 DEF Numbered, Made
<1>2. CASE InsertUser(t)
  <2>1. PICK k \in Free : InsertRow(t, k, NextId(user))
    BY <1>2 DEF InsertUser
  <2>2. /\ pc'[t] = "insertId" /\ req'[t] = req[t] /\ req[t].verb = "reg"
        /\ insertId'[conn'[t]] = NextId(user)
    BY <1>2, <1>t, <2>1 DEF InsertUser, InsertRow, Free
  <2> QED
    BY <1>2, <2>2 DEF InsertUser, Numbered, Made
<1>3. CASE InsertGroup(t)
  <2>1. PICK k \in Free : InsertRow(t, k, NextId(allgroup))
    BY <1>3 DEF InsertGroup
  <2>2. /\ pc'[t] = "insertId" /\ req'[t] = req[t] /\ req[t].verb = "createGroup"
        /\ insertId'[conn'[t]] = NextId(allgroup)
    BY <1>3, <1>t, <2>1 DEF InsertGroup, InsertRow, Free
  <2> QED
    BY <1>3, <2>2 DEF InsertGroup, Numbered, Made
<1>4. CASE InsertFails(t)
  BY <1>4, <1>t DEF InsertFails, Numbered
<1>5. CASE ReadInsertId(t)
  BY <1>5, <1>t DEF ReadInsertId, tables, Numbered, Made
<1>6. CASE AnswerReg(t)
  BY <1>6, <1>t DEF AnswerReg, Numbered
<1>7. CASE InsertFriend(t)
  BY <1>7, <1>t DEF InsertFriend, Numbered
<1>8. CASE InsertMember(t)
  BY <1>8, <1>t DEF InsertMember, Numbered
<1>9. CASE MemberFails(t)
  BY <1>9, <1>t DEF MemberFails, Numbered
<1>10. CASE QueryFriends(t)
  BY <1>10, <1>t DEF QueryFriends, Numbered
<1>11. CASE QueryGroups(t)
  BY <1>11, <1>t DEF QueryGroups, Numbered
<1>12. CASE QueryGroupUsers(t)
  BY <1>12, <1>t DEF QueryGroupUsers, Numbered
<1>13. CASE GroupsRead(t)
  BY <1>13, <1>t DEF GroupsRead, Numbered
<1>14. CASE AnswerLogin(t)
  BY <1>14, <1>t DEF AnswerLogin, Numbered
<1> QED
  BY <1>1, <1>2, <1>3, <1>4, <1>5, <1>6, <1>7, <1>8, <1>9, <1>10, <1>11, <1>12, <1>13, <1>14 DEF Step

LEMMA GatheredStep ==
  ASSUME DirectoryAssumption, TypeOK, NEW t \in Threads, Frame(t), Gathered(t), Step(t)
  PROVE  Gathered(t)'
<1> USE DEF Goto, Return
<1>t. /\ pc \in [Threads -> {"idle", "insert", "insertId", "addGroup", "answer",
                             "friends", "groups", "users", "loginAck"}]
      /\ req \in [Threads -> Requests \cup {NoRequest}]
      /\ lists \in [Threads -> Lists]
  BY DEF TypeOK
<1>l. lists[t] \in Lists
  BY <1>t
<1>0. ASSUME pc'[t] \notin LoginPcs, lists'[t] = EmptyLists PROVE Gathered(t)'
  BY <1>0 DEF Gathered, EmptyLists
<1>a. ASSUME pc[t] \notin LoginPcs PROVE lists[t] = EmptyLists
  BY <1>a DEF Gathered
<1>1. ASSUME NEW r \in Workload, Receive(t, r) PROVE Gathered(t)'
  <2>1. pc[t] = "idle" /\ lists[t] = EmptyLists
    BY <1>1, <1>a DEF Receive, LoginPcs
  <2>2. CASE r.verb = "login"
    <3>1. /\ pc'[t] = "friends" /\ req'[t] = r /\ UNCHANGED tables
          /\ lists'[t] = [lists[t] EXCEPT !.before = [friends |-> FriendsOf(r.user),
                                                      groups |-> GroupsOf(r.user)]]
          /\ r.user \in Registered
      BY <1>1, <1>t, <2>2 DEF Receive
    <3>2. /\ lists'[t].before.friends = FriendsOf(r.user)
          /\ lists'[t].before.groups = GroupsOf(r.user)
          /\ lists'[t].groups = {} /\ lists'[t].todo = {}
      BY <2>1, <3>1 DEF EmptyLists
    <3>3. /\ FriendsOf(r.user) = FriendsOf(req[t].user)'
          /\ GroupsOf(r.user) = GroupsOf(req[t].user)'
          /\ Registered = Registered'
      BY <3>1 DEF FriendsOf, GroupsOf, Registered, tables
    <3> QED
      BY <3>1, <3>2, <3>3 DEF Gathered, LoginPcs
  <2>3. CASE r.verb # "login"
    <3>1. pc'[t] \notin LoginPcs
      <4>1. CASE r.verb = "addGroup"
        BY <1>1, <1>t, <4>1 DEF Receive, LoginPcs
      <4>2. CASE r.verb # "addGroup"
        BY <1>1, <1>t, <2>3, <4>2 DEF Receive, LoginPcs
      <4> QED
        BY <4>1, <4>2
    <3>2. lists'[t] = EmptyLists
      BY <1>1, <2>1, <2>3 DEF Receive
    <3> QED
      BY <1>0, <3>1, <3>2
  <2> QED
    BY <2>2, <2>3
<1>2. CASE InsertUser(t)
  BY <1>2, <1>0, <1>a, <1>t DEF InsertUser, InsertRow, LoginPcs
<1>3. CASE InsertGroup(t)
  BY <1>3, <1>0, <1>a, <1>t DEF InsertGroup, InsertRow, LoginPcs
<1>4. CASE InsertFails(t)
  BY <1>4, <1>0, <1>t DEF InsertFails, LoginPcs
<1>5. CASE ReadInsertId(t)
  BY <1>5, <1>0, <1>a, <1>t DEF ReadInsertId, LoginPcs
<1>6. CASE AnswerReg(t)
  BY <1>6, <1>0, <1>t DEF AnswerReg, LoginPcs
<1>7. CASE InsertFriend(t)
  BY <1>7, <1>0, <1>t DEF InsertFriend, LoginPcs
<1>8. CASE InsertMember(t)
  BY <1>8, <1>0, <1>t DEF InsertMember, LoginPcs
<1>9. CASE MemberFails(t)
  BY <1>9, <1>0, <1>t DEF MemberFails, LoginPcs
<1>14. CASE AnswerLogin(t)
  BY <1>14, <1>0, <1>t DEF AnswerLogin, LoginPcs
<1> DEFINE Kept == /\ req'[t] = req[t]
                   /\ Registered' = Registered
                   /\ FriendsOf(req[t].user)' = FriendsOf(req[t].user)
                   /\ GroupsOf(req[t].user)' = GroupsOf(req[t].user)
<1>k. ASSUME Reads(t) PROVE Kept
  BY <1>k DEF Reads, tables, Registered, FriendsOf, GroupsOf
<1>10. CASE QueryFriends(t)
  <2>1. pc[t] = "friends" /\ pc'[t] = "groups" /\ Kept
    BY <1>10, <1>t, <1>k DEF QueryFriends
  <2>2. \/ lists'[t] = [lists[t] EXCEPT !.friends = FriendsOf(req[t].user)]
        \/ lists'[t] = [lists[t] EXCEPT !.failed = {NoId}]
    BY <1>10, <1>t DEF QueryFriends
  <2>3. CASE lists'[t] = [lists[t] EXCEPT !.friends = FriendsOf(req[t].user)]
    <3>1. /\ lists'[t].before = lists[t].before /\ lists'[t].friends = FriendsOf(req[t].user)
          /\ lists'[t].groups = lists[t].groups /\ lists'[t].todo = lists[t].todo
      BY <1>l, <2>3 DEF Lists
    <3> QED
      BY <2>1, <3>1 DEF Gathered, LoginPcs
  <2>4. CASE lists'[t] = [lists[t] EXCEPT !.failed = {NoId}]
    <3>1. /\ lists'[t].before = lists[t].before /\ lists'[t].failed = {NoId}
          /\ lists'[t].groups = lists[t].groups /\ lists'[t].todo = lists[t].todo
      BY <1>l, <2>4 DEF Lists
    <3> QED
      BY <2>1, <3>1 DEF Gathered, LoginPcs
  <2> QED
    BY <2>2, <2>3, <2>4
<1>11. CASE QueryGroups(t)
  <2>1. pc[t] = "groups" /\ Kept
    BY <1>11, <1>t, <1>k DEF QueryGroups
  <2>2. \/ /\ lists'[t] = [lists[t] EXCEPT !.groups = GroupsOf(req[t].user),
                                           !.todo = GroupsOf(req[t].user)]
           /\ pc'[t] = "users"
        \/ /\ lists'[t] = [lists[t] EXCEPT !.failed = {NoId}]
           /\ pc'[t] = "loginAck"
    BY <1>11, <1>t DEF QueryGroups
  <2>3. CASE /\ lists'[t] = [lists[t] EXCEPT !.groups = GroupsOf(req[t].user),
                                             !.todo = GroupsOf(req[t].user)]
             /\ pc'[t] = "users"
    <3>1. /\ lists'[t].before = lists[t].before /\ lists'[t].friends = lists[t].friends
          /\ lists'[t].failed = lists[t].failed
          /\ lists'[t].groups = GroupsOf(req[t].user) /\ lists'[t].todo = GroupsOf(req[t].user)
      BY <1>l, <2>3 DEF Lists
    <3> QED
      BY <2>1, <2>3, <3>1 DEF Gathered, LoginPcs
  <2>4. CASE lists'[t] = [lists[t] EXCEPT !.failed = {NoId}] /\ pc'[t] = "loginAck"
    <3>1. /\ lists'[t].before = lists[t].before /\ lists'[t].failed = {NoId}
          /\ lists'[t].groups = lists[t].groups /\ lists'[t].todo = lists[t].todo
      BY <1>l, <2>4 DEF Lists
    <3> QED
      BY <2>1, <2>4, <3>1 DEF Gathered, LoginPcs
  <2> QED
    BY <2>2, <2>3, <2>4
<1>12. CASE QueryGroupUsers(t)
  <2>1. pc[t] = "users" /\ pc'[t] = "users" /\ Kept
    BY <1>12, <1>k DEF QueryGroupUsers
  <2>2. PICK g \in lists[t].todo :
           \/ lists' = [lists EXCEPT ![t].users = @ \cup {g} \X UsersOf(g), ![t].todo = @ \ {g}]
           \/ lists' = [lists EXCEPT ![t].failed = @ \cup {g}, ![t].todo = @ \ {g}]
    BY <1>12 DEF QueryGroupUsers
  <2>3. CASE lists' = [lists EXCEPT ![t].users = @ \cup {g} \X UsersOf(g), ![t].todo = @ \ {g}]
    <3>1. lists'[t] = [lists[t] EXCEPT !.users = lists[t].users \cup {g} \X UsersOf(g),
                                       !.todo = lists[t].todo \ {g}]
      BY <1>t, <2>3
    <3>2. /\ lists'[t].before = lists[t].before /\ lists'[t].friends = lists[t].friends
          /\ lists'[t].failed = lists[t].failed /\ lists'[t].groups = lists[t].groups
          /\ lists'[t].todo = lists[t].todo \ {g}
          /\ lists'[t].users = lists[t].users \cup {g} \X UsersOf(g)
      BY <1>l, <3>1 DEF Lists
    <3>3. g \in lists[t].groups => req[t].user \in UsersOf(g)
      BY <2>1 DEF Gathered, LoginPcs, GroupsOf, UsersOf
    <3>4. \A h \in lists[t].groups :
             h \in lists'[t].todo \cup lists'[t].failed \/ <<h, req[t].user>> \in lists'[t].users
      BY <2>1, <3>2, <3>3 DEF Gathered, LoginPcs
    <3> QED
      BY <2>1, <3>2, <3>4 DEF Gathered, LoginPcs
  <2>4. CASE lists' = [lists EXCEPT ![t].failed = @ \cup {g}, ![t].todo = @ \ {g}]
    <3>1. lists'[t] = [lists[t] EXCEPT !.failed = lists[t].failed \cup {g},
                                       !.todo = lists[t].todo \ {g}]
      BY <1>t, <2>4
    <3>2. /\ lists'[t].before = lists[t].before /\ lists'[t].friends = lists[t].friends
          /\ lists'[t].failed = lists[t].failed \cup {g} /\ lists'[t].groups = lists[t].groups
          /\ lists'[t].todo = lists[t].todo \ {g} /\ lists'[t].users = lists[t].users
      BY <1>l, <3>1 DEF Lists
    <3> QED
      BY <2>1, <3>2 DEF Gathered, LoginPcs
  <2> QED
    BY <2>2, <2>3, <2>4
<1>13. CASE GroupsRead(t)
  <2>1. /\ pc[t] = "users" /\ pc'[t] = "loginAck" /\ Kept
        /\ lists' = lists /\ lists[t].todo = {}
    BY <1>13, <1>t, <1>k DEF GroupsRead
  <2> QED
    BY <2>1 DEF Gathered, LoginPcs
<1> QED
  BY <1>1, <1>2, <1>3, <1>4, <1>5, <1>6, <1>7, <1>8, <1>9, <1>10, <1>11, <1>12, <1>13, <1>14 DEF Step

-----------------------------------------------------------------------------
(* Connections have one holder.                                            *)

LEMMA ExclusiveStep ==
  ASSUME TypeOK, Exclusive, NEW t \in Threads, Step(t)
  PROVE  Exclusive'
<1>1. conn'[t] \in {conn[t], NoConn} \cup Free
  BY DEF TypeOK, Step, Receive, InsertUser, InsertGroup, InsertRow, InsertFails, ReadInsertId,
         AnswerReg, InsertFriend, InsertMember, MemberFails, QueryFriends, QueryGroups,
         QueryGroupUsers, GroupsRead, AnswerLogin
<1>2. \A s \in Threads \ {t} : conn'[s] = conn[s]
  BY StepLocal DEF Local
<1> QED
  BY <1>1, <1>2 DEF Exclusive, Free

LEMMA ToldStep ==
  ASSUME TypeOK, ToldOwnId, NEW t \in Threads, Own(t), Step(t)
  PROVE  ToldOwnId'
<1>1. user \subseteq user'
  BY StepLocal DEF Grows
<1>2. CASE AnswerReg(t)
  <2>1. [id |-> newId[t], name |-> req[t].name] \in user
    BY <1>2 DEF AnswerReg, Own, Frame, Numbered, Made
  <2>2. told' = told \cup {[name |-> req[t].name, id |-> newId[t]]} /\ user' = user
    BY <1>2 DEF AnswerReg, tables
  <2>3. [name |-> req[t].name, id |-> newId[t]]
          \in {[name |-> row.name, id |-> row.id] : row \in user}
    BY <2>1
  <2> QED
    BY <2>2, <2>3 DEF ToldOwnId
<1>3. CASE told' = told
  BY <1>1, <1>3 DEF ToldOwnId
<1> QED
  BY <1>2, <1>3
  DEF Step, Receive, InsertUser, InsertGroup, InsertRow, InsertFails, ReadInsertId,
      InsertFriend, InsertMember, MemberFails, QueryFriends, QueryGroups,
      QueryGroupUsers, GroupsRead, AnswerLogin, Reads

LEMMA CreatorStep ==
  ASSUME TypeOK, CreatorOwnsGroup, NEW t \in Threads, Own(t), Step(t)
  PROVE  CreatorOwnsGroup'
<1>1. allgroup \subseteq allgroup'
  BY StepLocal DEF Grows
<1>2. CASE InsertMember(t)
  <2>1. groupuser' = groupuser \cup {Row(t)} /\ allgroup' = allgroup
    BY <1>2 DEF InsertMember
  <2>2. Row(t).role = "creator" => [id |-> Row(t).group, user |-> Row(t).user] \in allgroup
    <3>1. CASE req[t].verb = "addGroup"
      BY <3>1 DEF Row
    <3>2. CASE req[t].verb = "createGroup"
      BY <1>2, <3>2 DEF Row, InsertMember, Own, Numbered, Made
    <3> QED
      BY <1>2, <3>1, <3>2 DEF InsertMember, Own, Frame
  <2> QED
    BY <2>1, <2>2 DEF CreatorOwnsGroup
<1>3. CASE groupuser' = groupuser
  BY <1>1, <1>3 DEF CreatorOwnsGroup
<1> QED
  BY <1>2, <1>3
  DEF Step, Receive, InsertUser, InsertGroup, InsertRow, InsertFails, ReadInsertId, AnswerReg,
      InsertFriend, MemberFails, QueryFriends, QueryGroups,
      QueryGroupUsers, GroupsRead, AnswerLogin, Reads, tables

-----------------------------------------------------------------------------
(* The invariant.                                                          *)

LEMMA InitInv ==
  ASSUME DirectoryAssumption, Init
  PROVE  IInv
<1>1. TypeOK
  BY EmptyListsTyped DEF DirectoryAssumption, Init, TypeOK
<1>2. Exclusive
  BY DEF Init, Exclusive
<1>3. \A t \in Threads : Own(t)
  BY DEF Init, Own, Frame, Numbered, Gathered, LoginPcs
<1>4. ToldOwnId /\ CreatorOwnsGroup
  BY DEF Init, ToldOwnId, CreatorOwnsGroup
<1> QED
  BY <1>1, <1>2, <1>3, <1>4 DEF IInv

LEMMA NextInv ==
  ASSUME DirectoryAssumption, IInv, [Next]_vars
  PROVE  IInv'
<1>1. CASE UNCHANGED vars
  BY <1>1 DEF IInv, vars, tables, TypeOK, Exclusive, Own, Frame, Numbered, Made, Gathered,
         FriendsOf, GroupsOf, Registered, ToldOwnId, CreatorOwnsGroup
<1>2. ASSUME NEW t \in Threads, Step(t) PROVE IInv'
  <2>1. TypeOK /\ Exclusive /\ ToldOwnId /\ CreatorOwnsGroup /\ \A s \in Threads : Own(s)
    BY DEF IInv
  <2>2. TypeOK'
    BY <1>2, <2>1, StepTyped DEF Own
  <2>3. Exclusive'
    BY <1>2, <2>1, ExclusiveStep
  <2>4. Own(t)'
    BY <1>2, <2>1, FrameStep, NumberedStep, GatheredStep DEF Own
  <2>5. \A s \in Threads \ {t} : Own(s)'
    BY <1>2, <2>1, OthersKeep
  <2>6. ToldOwnId' /\ CreatorOwnsGroup'
    BY <1>2, <2>1, ToldStep, CreatorStep
  <2> QED
    BY <2>2, <2>3, <2>4, <2>5, <2>6 DEF IInv
<1> QED
  BY <1>1, <1>2 DEF Next

LEMMA Invariance == Spec => []IInv
BY InitInv, NextInv, DirectoryAssumption, PTL DEF Spec

(* Tables, handlers and answers have their types; also Row(t), though its  *)
(* group is a number that MySQL was asked for one statement later.         *)
THEOREM TypeCorrect == Spec => []TypeOK
<1>1. IInv => TypeOK
  BY DEF IInv
<1> QED
  BY <1>1, Invariance, PTL

(* The id that the answer to reg names is the id of the row with that name *)
(* (chatservice.cpp, reg; usermodel.cpp, insert).                          *)
THEOREM RegistrationTellsOwnId == Spec => []ToldOwnId
<1>1. IInv => ToldOwnId
  BY DEF IInv
<1> QED
  BY <1>1, Invariance, PTL

(* createGroup enters its caller as the creator of the caller's own group. *)
THEOREM GroupGetsItsCreator == Spec => []CreatorOwnsGroup
<1>1. IInv => CreatorOwnsGroup
  BY DEF IInv
<1> QED
  BY <1>1, Invariance, PTL

(* The lists of a login answer, read by statements that see different      *)
(* states of the tables, miss nothing there was when the request came.     *)
THEOREM LoginListsComplete == Spec => []ListsComplete
<1>1. IInv => ListsComplete
  BY DEF IInv, Own, Gathered, LoginPcs, ListsComplete
<1> QED
  BY <1>1, Invariance, PTL

-----------------------------------------------------------------------------
(* Groups without a creator.  A group has none when it is made; what does  *)
(* not grow is the set of those that nobody is about to give one.          *)

(* The createGroup on thread t is to enter the creator of group g.         *)
MakesFor(t, g) ==
    /\ req[t].verb = "createGroup"
    /\ \/ pc[t] = "insertId" /\ g = [id |-> insertId[conn[t]], user |-> req[t].user]
       \/ pc[t] = "addGroup" /\ g = [id |-> newId[t], user |-> req[t].user]

Orphans == {g \in allgroup : ~HasCreator(g) /\ \A t \in Threads : ~MakesFor(t, g)}

OrphanInv == IsFiniteSet(allgroup) /\ Cardinality(Orphans) <= dbFails

(* A handler's group is not taken from it by the step of another.          *)
LEMMA MakesForKept ==
  ASSUME NEW t \in Threads, Local(t), NEW s \in Threads \ {t}, Frame(s), NEW g
  PROVE  MakesFor(s, g)' <=> MakesFor(s, g)
<1>1. pc'[s] = pc[s] /\ req'[s] = req[s] /\ newId'[s] = newId[s] /\ conn'[s] = conn[s]
  BY DEF Local
<1>2. CASE pc[s] = "insertId"
  <2>1. insertId'[conn[s]] = insertId[conn[s]]
    BY <1>2 DEF Local, Frame
  <2> QED BY <1>1, <1>2, <2>1 DEF MakesFor
<1>3. CASE pc[s] # "insertId"
  BY <1>1, <1>3 DEF MakesFor
<1> QED BY <1>2, <1>3

(* A group is orphaned by a step only if it was being made by that step's  *)
(* own thread, which then no longer does.                                  *)
LEMMA OrphanedBy ==
  ASSUME NEW t \in Threads, Local(t), Grows, \A s \in Threads : Frame(s),
         NEW g \in Orphans', g \in allgroup, g \notin Orphans
  PROVE  MakesFor(t, g) /\ ~MakesFor(t, g)' /\ ~HasCreator(g)'
<1>1. g \in allgroup' /\ ~HasCreator(g)' /\ \A s \in Threads : ~MakesFor(s, g)'
  BY DEF Orphans
<1>2. ~HasCreator(g)
  BY <1>1 DEF Grows, HasCreator
<1>3. \E s \in Threads : MakesFor(s, g)
  BY <1>2 DEF Orphans
<1> QED BY <1>1, <1>3, MakesForKept

(* Only the failure of the second statement leaves a group without one.    *)
LEMMA OrphanStep ==
  ASSUME TypeOK, \A s \in Threads : Frame(s), NEW t \in Threads, Step(t)
  PROVE  \/ Orphans' \subseteq Orphans /\ dbFails' >= dbFails
         \/ /\ dbFails' = dbFails + 1
            /\ \E g : Orphans' \subseteq Orphans \cup {g}
<1>0. Local(t) /\ Grows /\ Frame(t)
  BY StepLocal
<1>n. dbFails \in Nat /\ (dbFails' = dbFails \/ dbFails' = dbFails + 1)
  <2>1. dbFails \in Nat
    BY DirectoryAssumption DEF TypeOK
  <2> QED
    BY <2>1 DEF Step, Receive, InsertUser, InsertGroup, InsertRow, InsertFails, ReadInsertId,
           AnswerReg, InsertFriend, InsertMember, MemberFails, QueryFriends, QueryGroups,
           QueryGroupUsers, GroupsRead, AnswerLogin, Fails
<1>m. dbFails' >= dbFails
  BY <1>n
<1>1. CASE InsertGroup(t)
  <2>1. PICK k \in Free : InsertRow(t, k, NextId(allgroup))
    BY <1>1 DEF InsertGroup
  <2>0. PICK new : new = [id |-> NextId(allgroup), user |-> req[t].user]
    OBVIOUS
  <2>2. allgroup' = allgroup \cup {new} /\ req[t].verb = "createGroup" /\ pc[t] = "insert"
    BY <1>1, <2>0 DEF InsertGroup
  <2>3. /\ pc'[t] = "insertId" /\ conn'[t] = k /\ insertId'[k] = NextId(allgroup)
        /\ req' = req
    BY <2>1 DEF InsertRow, Goto, TypeOK, Free
  <2>4. MakesFor(t, new)'
    BY <2>0, <2>2, <2>3 DEF MakesFor
  <2>5. \A g : ~MakesFor(t, g)
    BY <2>2 DEF MakesFor
  <2>6. Orphans' \subseteq Orphans
    <3> SUFFICES ASSUME NEW g \in Orphans' PROVE g \in Orphans
      OBVIOUS
    <3>1. g # new
      BY <2>4 DEF Orphans
    <3>2. g \in allgroup
      BY <2>2, <3>1 DEF Orphans
    <3> QED BY <1>0, <2>5, <3>2, OrphanedBy
  <2> QED BY <1>m, <2>6
<1>2. CASE MemberFails(t)
  <2>1. dbFails' = dbFails + 1 /\ allgroup' = allgroup /\ pc[t] = "addGroup"
    BY <1>2 DEF MemberFails, Fails, tables
  <2>2. \A g : MakesFor(t, g) => g = [id |-> newId[t], user |-> req[t].user]
    BY <2>1 DEF MakesFor
  <2>3. Orphans' \subseteq Orphans \cup {[id |-> newId[t], user |-> req[t].user]}
    <3> SUFFICES ASSUME NEW g \in Orphans', g \notin Orphans
                 PROVE  g = [id |-> newId[t], user |-> req[t].user]
      OBVIOUS
    <3>1. g \in allgroup
      BY <2>1 DEF Orphans
    <3> QED BY <1>0, <2>2, <3>1, OrphanedBy
  <2> QED BY <2>1, <2>3
<1>3. CASE ~InsertGroup(t) /\ ~MemberFails(t)
  <2>1. allgroup' = allgroup
    BY <1>3 DEF Step, Receive, InsertUser, InsertFails, ReadInsertId, AnswerReg, InsertFriend,
       InsertMember, QueryFriends, QueryGroups, QueryGroupUsers, GroupsRead, AnswerLogin,
       Reads, tables
  <2>2. ASSUME NEW g, MakesFor(t, g) PROVE MakesFor(t, g)' \/ HasCreator(g)'
    <3>1. CASE pc[t] = "insertId"
      <4>1. ReadInsertId(t)
        BY <3>1 DEF Step, Receive, InsertUser, InsertGroup, InsertFails, ReadInsertId, AnswerReg,
           InsertFriend, InsertMember, MemberFails, QueryFriends, QueryGroups, QueryGroupUsers,
           GroupsRead, AnswerLogin
      <4>2. /\ req[t].verb = "createGroup"
            /\ g = [id |-> insertId[conn[t]], user |-> req[t].user]
        BY <2>2, <3>1 DEF MakesFor
      <4>3. /\ pc'[t] = "addGroup" /\ newId'[t] = insertId[conn[t]] /\ req' = req
        BY <4>1, <4>2 DEF ReadInsertId, Goto, TypeOK
      <4> QED BY <4>2, <4>3 DEF MakesFor
    <3>2. CASE pc[t] = "addGroup"
      <4>1. InsertMember(t)
        BY <1>3, <3>2 DEF Step, Receive, InsertUser, InsertGroup, InsertFails, ReadInsertId,
           AnswerReg, InsertFriend, InsertMember, MemberFails, QueryFriends, QueryGroups,
           QueryGroupUsers, GroupsRead, AnswerLogin
      <4>2. req[t].verb = "createGroup" /\ g.id = newId[t]
        BY <2>2, <3>2 DEF MakesFor
      <4>3. Row(t) \in groupuser' /\ Row(t).group = g.id /\ Row(t).role = "creator"
        BY <4>1, <4>2 DEF InsertMember, Row
      <4> QED BY <4>3 DEF HasCreator
    <3> QED BY <2>2, <3>1, <3>2 DEF MakesFor
  <2>3. Orphans' \subseteq Orphans
    <3> SUFFICES ASSUME NEW g \in Orphans', g \notin Orphans PROVE FALSE
      OBVIOUS
    <3>1. g \in allgroup
      BY <2>1 DEF Orphans
    <3> QED BY <1>0, <2>2, <3>1, OrphanedBy
  <2> QED BY <1>m, <2>3
<1> QED BY <1>1, <1>2, <1>3

LEMMA OrphanKept ==
  ASSUME IInv, OrphanInv, [Next]_vars
  PROVE  OrphanInv'
<1>1. CASE UNCHANGED vars
  BY <1>1 DEF vars, tables, OrphanInv, Orphans, HasCreator, MakesFor
<1>2. ASSUME NEW t \in Threads, Step(t) PROVE OrphanInv'
  <2>1. TypeOK /\ \A s \in Threads : Frame(s)
    BY DEF IInv, Own
  <2>2. IsFiniteSet(allgroup')
    <3>1. allgroup' = allgroup \/ \E g : allgroup' = allgroup \cup {g}
      BY <1>2 DEF Step, Receive, InsertUser, InsertGroup, InsertFails, ReadInsertId, AnswerReg,
         InsertFriend, InsertMember, MemberFails, QueryFriends, QueryGroups, QueryGroupUsers,
         GroupsRead, AnswerLogin, Reads, tables
    <3> QED BY <3>1, FS_AddElement DEF OrphanInv
  <2>3. IsFiniteSet(Orphans) /\ Cardinality(Orphans) \in Nat
    BY FS_Subset, FS_CardinalityType DEF OrphanInv, Orphans
  <2>4. IsFiniteSet(Orphans') /\ Cardinality(Orphans') \in Nat
    <3>1. Orphans' \subseteq allgroup'
      BY DEF Orphans
    <3> QED BY <2>2, <3>1, FS_Subset, FS_CardinalityType
  <2>5. dbFails \in Nat /\ dbFails' \in Nat /\ Cardinality(Orphans) <= dbFails
    <3>1. TypeOK'
      BY <1>2, NextInv, DirectoryAssumption DEF Next, IInv
    <3> QED BY <2>1, <3>1, DirectoryAssumption DEF TypeOK, OrphanInv
  <2>6. CASE Orphans' \subseteq Orphans /\ dbFails' >= dbFails
    <3>1. Cardinality(Orphans') <= Cardinality(Orphans)
      BY <2>3, <2>6, FS_Subset
    <3> QED BY <2>2, <2>3, <2>4, <2>5, <2>6, <3>1 DEF OrphanInv
  <2>7. ASSUME NEW g, dbFails' = dbFails + 1, Orphans' \subseteq Orphans \cup {g}
        PROVE  OrphanInv'
    <3>1. /\ IsFiniteSet(Orphans \cup {g})
          /\ Cardinality(Orphans \cup {g}) \in {Cardinality(Orphans), Cardinality(Orphans) + 1}
      BY <2>3, FS_AddElement
    <3>2. Cardinality(Orphans') <= Cardinality(Orphans \cup {g})
      BY <2>7, <3>1, FS_Subset
    <3> QED BY <2>2, <2>3, <2>4, <2>5, <2>7, <3>1, <3>2 DEF OrphanInv
  <2> QED BY <1>2, <2>1, <2>6, <2>7, OrphanStep
<1> QED BY <1>1, <1>2 DEF Next

LEMMA OrphanInvariance == Spec => []OrphanInv
<1>1. Init => OrphanInv
  <2> SUFFICES ASSUME Init PROVE OrphanInv
    OBVIOUS
  <2>1. allgroup = {} /\ Orphans = {} /\ dbFails = 0
    BY DEF Init, Orphans
  <2> QED BY <2>1, FS_EmptySet DEF OrphanInv
<1>2. IInv /\ OrphanInv /\ [Next]_vars => OrphanInv'
  BY OrphanKept
<1> QED
  BY <1>1, <1>2, Invariance, PTL DEF Spec

(* createGroup runs two statements, and others make groups in between: all *)
(* the same, when no request is being handled, at most as many groups are  *)
(* without a creator as statements have failed.                            *)
THEOREM FailuresBoundOrphans == Spec => []GroupsHaveCreators
<1>1. IInv /\ OrphanInv => GroupsHaveCreators
  <2> SUFFICES ASSUME IInv, OrphanInv, \A t \in Threads : pc[t] = "idle"
               PROVE  Cardinality({g \in allgroup : ~HasCreator(g)}) <= dbFails
    BY DEF GroupsHaveCreators
  <2>1. \A t \in Threads, g \in allgroup : ~MakesFor(t, g)
    BY DEF MakesFor
  <2>2. Orphans = {g \in allgroup : ~HasCreator(g)}
    BY <2>1 DEF Orphans
  <2> QED BY <2>2 DEF OrphanInv
<1> QED
  BY <1>1, Invariance, OrphanInvariance, PTL
=============================================================================
