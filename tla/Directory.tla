------------------------------- MODULE Directory -------------------------------
(***************************************************************************)
(* Registration, friends and group membership: ChatService::reg,           *)
(* addFriend, createGroup, addGroup and the lists in the answer to a login,*)
(* over the tables user, friend, allgroup and groupuser (usermodel.cpp,    *)
(* friendmodel.cpp, groupmodel.cpp).  No row is ever deleted.              *)
(*                                                                         *)
(* A handler runs on an IO thread and takes a pooled connection for every  *)
(* statement; SqlConnPool!ExclusiveUse says that nobody else has it then.  *)
(* MySQL numbers new rows itself, and remembers the last number of each    *)
(* connection for mysql_insert_id, which the handler asks for later.       *)
(***************************************************************************)
EXTENDS Naturals, FiniteSets

CONSTANTS
    Threads,        \* IO threads
    Connections,    \* pooled MySQL connections
    Names,          \* names a client may register
    Workload,       \* the requests clients make, each any number of times
    MaxRows,        \* bound on the rows of user and of allgroup
    MaxDbFails,     \* bound on the number of failing statements
    NoConn

VARIABLES
    user,       \* rows of user: id and name
    friend,     \* rows of friend: <<userid, friendid>>
    allgroup,   \* rows of allgroup: id, and for whom it was made
    groupuser,  \* rows of groupuser: group, user and role
    insertId,   \* what mysql_insert_id would return on each connection
    dbFails,    \* failing statements so far
    pc,         \* where the handler of each thread is
    req,        \* its request
    newId,      \* the id its object got from mysql_insert_id
    conn,       \* the connection its SqlConnRAII holds
    told,       \* successful answers to reg
    lists       \* what a login has read for its answer

tables == <<user, friend, allgroup, groupuser>>
vars == <<tables, insertId, dbFails, pc, req, newId, conn, told, lists>>

Ids == 1 .. MaxRows
NoId == 0

Requests ==
    [verb : {"reg"}, name : Names]
        \cup [verb : {"createGroup"}, user : Ids]
        \cup [verb : {"addGroup"}, user : Ids, group : Ids]
        \cup [verb : {"addFriend"}, user : Ids, friend : Ids]
        \cup [verb : {"login"}, user : Ids]

NoRequest == [verb |-> "none"]

(* friends and groups of the answer; for each group so far its users; the  *)
(* friends and groups there were when the request came, and the groups for *)
(* whose users, or 0 for whose list, a statement failed.                   *)
Lists == [friends : SUBSET Ids, groups : SUBSET Ids, users : SUBSET (Ids \X Ids),
          todo : SUBSET Ids, before : [friends : SUBSET Ids, groups : SUBSET Ids],
          failed : SUBSET (Ids \cup {NoId})]

ASSUME DirectoryAssumption ==
    /\ MaxRows \in Nat \ {0}
    /\ MaxDbFails \in Nat
    /\ NoConn \notin Connections
    /\ Workload \subseteq Requests

TypeOK ==
    /\ user \subseteq [id : Ids, name : Names]
    /\ friend \subseteq Ids \X Ids
    /\ allgroup \subseteq [id : Ids, user : Ids]
    /\ groupuser \subseteq [group : Ids, user : Ids, role : {"creator", "normal"}]
    /\ insertId \in [Connections -> Ids \cup {NoId}]
    /\ dbFails \in 0 .. MaxDbFails
    /\ pc \in [Threads -> {"idle", "insert", "insertId", "addGroup", "answer",
                         "friends", "groups", "users", "loginAck"}]
    /\ req \in [Threads -> Requests \cup {NoRequest}]
    /\ newId \in [Threads -> Ids \cup {NoId}]
    /\ conn \in [Threads -> Connections \cup {NoConn}]
    /\ told \subseteq [name : Names, id : Ids]
    /\ lists \in [Threads -> Lists]

EmptyLists ==
    [friends |-> {}, groups |-> {}, users |-> {}, todo |-> {},
     before |-> [friends |-> {}, groups |-> {}], failed |-> {}]

Init ==
    /\ user = {} /\ friend = {} /\ allgroup = {} /\ groupuser = {}
    /\ insertId = [k \in Connections |-> NoId]
    /\ dbFails = 0
    /\ pc = [t \in Threads |-> "idle"]
    /\ req = [t \in Threads |-> NoRequest]
    /\ newId = [t \in Threads |-> NoId]
    /\ conn = [t \in Threads |-> NoConn]
    /\ told = {}
    /\ lists = [t \in Threads |-> EmptyLists]

-----------------------------------------------------------------------------
Goto(t, there) == pc' = [pc EXCEPT ![t] = there]

(* The handler returns.                                                    *)
Return(t) ==
    /\ Goto(t, "idle")
    /\ req' = [req EXCEPT ![t] = NoRequest]
    /\ newId' = [newId EXCEPT ![t] = NoId]
    /\ lists' = [lists EXCEPT ![t] = EmptyLists]

Registered == {row.id : row \in user}

(* select ... from user a inner join friend b on b.friendid = a.id         *)
FriendsOf(u) == {f \in Registered : <<u, f>> \in friend}

(* Mutant: the groups are those the user has made.                         *)
GroupsMadeBy(u) == {g.id : g \in {h \in allgroup : h.user = u}}

(* select ... from allgroup a inner join groupuser b on a.id = b.groupid   *)
GroupsOf(u) ==
    {row.group : row \in {r \in groupuser : r.user = u}} \cap {g.id : g \in allgroup}

(* select ... from user a inner join groupuser b on b.userid = a.id        *)
UsersOf(g) == {row.user : row \in {r \in groupuser : r.group = g}} \cap Registered

(* getHandler dispatches a message.  The client that sends it is logged in *)
(* (not for reg; login has checked its password at this point); numbers of *)
(* friends and groups are what somebody typed.                             *)
Receive(t, r) ==
    /\ pc[t] = "idle"
    /\ r.verb # "reg" => r.user \in Registered
    /\ req' = [req EXCEPT ![t] = r]
    /\ Goto(t, CASE r.verb = "addGroup" -> "addGroup"
                  [] r.verb = "login"    -> "friends"
                  [] OTHER               -> "insert")
    /\ lists' = IF r.verb = "login"
                THEN [lists EXCEPT ![t].before = [friends |-> FriendsOf(r.user),
                                                  groups |-> GroupsOf(r.user)]]
                ELSE lists
    /\ UNCHANGED <<tables, insertId, dbFails, newId, conn, told>>

-----------------------------------------------------------------------------
(* The statements.                                                         *)

(* Mutant: the connection is back in the pool while the handler uses it.   *)
FreeTooEarly == Connections

Free == Connections \ {conn[t] : t \in Threads}

(* The next AUTO_INCREMENT value of a table.                               *)
NextId(rows) == Cardinality(rows) + 1

(* No connection is free at the time, or mysql_query returns an error.     *)
Fails == dbFails < MaxDbFails /\ dbFails' = dbFails + 1

(* An INSERT of reg or createGroup goes well: the row is there, and the    *)
(* connection is kept for mysql_insert_id.                                 *)
InsertRow(t, k, id) ==
    /\ id \in Ids
    /\ insertId' = [insertId EXCEPT ![k] = id]
    /\ conn' = [conn EXCEPT ![t] = k]
    /\ Goto(t, "insertId")
    /\ UNCHANGED <<friend, groupuser, dbFails, req, newId, told, lists>>

InsertUser(t) ==
    /\ pc[t] = "insert" /\ req[t].verb = "reg"
    /\ \A row \in user : row.name # req[t].name
    /\ user' = user \cup {[id |-> NextId(user), name |-> req[t].name]}
    /\ \E k \in Free : InsertRow(t, k, NextId(user))
    /\ UNCHANGED allgroup

InsertGroup(t) ==
    /\ pc[t] = "insert" /\ req[t].verb = "createGroup"
    /\ allgroup' = allgroup \cup {[id |-> NextId(allgroup), user |-> req[t].user]}
    /\ \E k \in Free : InsertRow(t, k, NextId(allgroup))
    /\ UNCHANGED user

(* No connection, an error, or the name is taken: errno 1 for reg, nothing *)
(* at all for createGroup and addFriend.                                   *)
InsertFails(t) ==
    /\ pc[t] = "insert"
    /\ \/ Fails
       \/ /\ req[t].verb = "reg"
          /\ \E row \in user : row.name = req[t].name
          /\ UNCHANGED dbFails
    /\ Return(t)
    /\ UNCHANGED <<tables, insertId, conn, told>>

(* Mutant: createGroup returns without entering its creator.               *)
ReadInsertIdOnly(t) ==
    /\ pc[t] = "insertId"
    /\ newId' = [newId EXCEPT ![t] = insertId[conn[t]]]
    /\ conn' = [conn EXCEPT ![t] = NoConn]
    /\ Goto(t, IF req[t].verb = "reg" THEN "answer" ELSE "idle")
    /\ UNCHANGED <<tables, insertId, dbFails, req, told, lists>>

(* setId(mysql_insert_id(conn)); ~SqlConnRAII gives the connection back.   *)
ReadInsertId(t) ==
    /\ pc[t] = "insertId"
    /\ newId' = [newId EXCEPT ![t] = insertId[conn[t]]]
    /\ conn' = [conn EXCEPT ![t] = NoConn]
    /\ Goto(t, IF req[t].verb = "reg" THEN "answer" ELSE "addGroup")
    /\ UNCHANGED <<tables, insertId, dbFails, req, told, lists>>

(* The answer of reg tells the client its id.                              *)
AnswerReg(t) ==
    /\ pc[t] = "answer"
    /\ told' = told \cup {[name |-> req[t].name, id |-> newId[t]]}
    /\ Return(t)
    /\ UNCHANGED <<tables, insertId, dbFails, conn>>

InsertFriend(t) ==
    /\ pc[t] = "insert" /\ req[t].verb = "addFriend"
    /\ friend' = friend \cup {<<req[t].user, req[t].friend>>}
    /\ \E k \in Free : insertId' = [insertId EXCEPT ![k] = NoId]
    /\ Return(t)
    /\ UNCHANGED <<user, allgroup, groupuser, dbFails, conn, told>>

(* Mutant: createGroup passes on the id the group was constructed with.    *)
RowBeforeSetId(t) ==
    IF req[t].verb = "addGroup"
    THEN [group |-> req[t].group, user |-> req[t].user, role |-> "normal"]
    ELSE [group |-> NoId, user |-> req[t].user, role |-> "creator"]

(* GroupModel::addGroup is called by addGroup with the number the client   *)
(* typed, and by createGroup as its second statement.                      *)
Row(t) ==
    IF req[t].verb = "addGroup"
    THEN [group |-> req[t].group, user |-> req[t].user, role |-> "normal"]
    ELSE [group |-> newId[t], user |-> req[t].user, role |-> "creator"]

InsertMember(t) ==
    /\ pc[t] = "addGroup"
    /\ groupuser' = groupuser \cup {Row(t)}
    /\ \E k \in Free : insertId' = [insertId EXCEPT ![k] = NoId]
    /\ Return(t)
    /\ UNCHANGED <<user, friend, allgroup, dbFails, conn, told>>

MemberFails(t) ==
    /\ pc[t] = "addGroup"
    /\ Fails
    /\ Return(t)
    /\ UNCHANGED <<tables, insertId, conn, told>>

-----------------------------------------------------------------------------
(* The lists in the answer to a login.                                     *)

Reads(t) == UNCHANGED <<tables, req, newId, told>>

(* The answer of FriendModel::query, empty after a failure.                *)
QueryFriends(t) ==
    /\ pc[t] = "friends"
    /\ \/ /\ \E k \in Free : insertId' = [insertId EXCEPT ![k] = NoId]
          /\ lists' = [lists EXCEPT ![t].friends = FriendsOf(req[t].user)]
          /\ UNCHANGED dbFails
       \/ /\ Fails
          /\ lists' = [lists EXCEPT ![t].failed = {NoId}]
          /\ UNCHANGED insertId
    /\ Goto(t, "groups")
    /\ UNCHANGED conn
    /\ Reads(t)

(* GroupModel::queryGroups keeps its connection for all its statements.    *)
QueryGroups(t) ==
    /\ pc[t] = "groups"
    /\ \/ \E k \in Free :
             LET groups == GroupsOf(req[t].user)
             IN  /\ insertId' = [insertId EXCEPT ![k] = NoId]
                 /\ conn' = [conn EXCEPT ![t] = k]
                 /\ lists' = [lists EXCEPT ![t].groups = groups, ![t].todo = groups]
                 /\ Goto(t, "users")
                 /\ UNCHANGED dbFails
       \/ /\ Fails
          /\ lists' = [lists EXCEPT ![t].failed = {NoId}]
          /\ Goto(t, "loginAck")
          /\ UNCHANGED <<insertId, conn>>
    /\ Reads(t)

(* One statement per group; a group whose statement fails has no users.    *)
QueryGroupUsers(t) ==
    /\ pc[t] = "users"
    /\ \E g \in lists[t].todo :
          \/ /\ lists' = [lists EXCEPT ![t].users = @ \cup {g} \X UsersOf(g),
                                       ![t].todo = @ \ {g}]
             /\ UNCHANGED dbFails
          \/ /\ Fails
             /\ lists' = [lists EXCEPT ![t].failed = @ \cup {g}, ![t].todo = @ \ {g}]
    /\ UNCHANGED <<pc, conn, insertId>>
    /\ Reads(t)

(* ~SqlConnRAII at the end of queryGroups.                                 *)
GroupsRead(t) ==
    /\ pc[t] = "users"
    /\ lists[t].todo = {}
    /\ conn' = [conn EXCEPT ![t] = NoConn]
    /\ Goto(t, "loginAck")
    /\ UNCHANGED <<lists, insertId, dbFails>>
    /\ Reads(t)

AnswerLogin(t) ==
    /\ pc[t] = "loginAck"
    /\ Return(t)
    /\ UNCHANGED <<tables, insertId, dbFails, conn, told>>

Step(t) ==
    \/ \E r \in Workload : Receive(t, r)
    \/ InsertUser(t)
    \/ InsertGroup(t)
    \/ InsertFails(t)
    \/ ReadInsertId(t)
    \/ AnswerReg(t)
    \/ InsertFriend(t)
    \/ InsertMember(t)
    \/ MemberFails(t)
    \/ QueryFriends(t)
    \/ QueryGroups(t)
    \/ QueryGroupUsers(t)
    \/ GroupsRead(t)
    \/ AnswerLogin(t)

Next == \E t \in Threads : Step(t)

Spec == Init /\ [][Next]_vars

-----------------------------------------------------------------------------
(* The id a client is told at registration, and must type from then on, is *)
(* the id of the row with its name, however many register at a time.       *)
ToldOwnId == told \subseteq {[name |-> row.name, id |-> row.id] : row \in user}

(* Whoever is entered as the creator of a group is who asked for it, never *)
(* a client whose own group was made at the same moment.                   *)
CreatorOwnsGroup ==
    \A row \in groupuser :
        row.role = "creator" => [id |-> row.group, user |-> row.user] \in allgroup

(* createGroup stores the group and its creator in two statements.  When   *)
(* no request is being handled, every group has a creator among its        *)
(* members, but for one group per statement that failed.                   *)
HasCreator(g) == \E row \in groupuser : row.group = g.id /\ row.role = "creator"

GroupsHaveCreators ==
    (\A t \in Threads : pc[t] = "idle")
        => Cardinality({g \in allgroup : ~HasCreator(g)}) <= dbFails

(* The statements of one login see different states of the tables, while   *)
(* others join and make groups.  All the same, unless a statement failed,  *)
(* the answer has every friend and group there was when the request came,  *)
(* and each group in it, also one joined in between, lists the user as one *)
(* of its users.                                                           *)
ListsComplete ==
    \A t \in Threads :
        pc[t] = "loginAck" =>
            /\ NoId \in lists[t].failed
                  \/ /\ lists[t].before.friends \subseteq lists[t].friends
                     /\ lists[t].before.groups \subseteq lists[t].groups
            /\ \A g \in lists[t].groups :
                  g \in lists[t].failed \/ <<g, req[t].user>> \in lists[t].users
=============================================================================
