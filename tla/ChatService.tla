------------------------------ MODULE ChatService ------------------------------
(***************************************************************************)
(* The request handlers of class ChatService (src/src/server/              *)
(* chatservice.cpp) on every server of a cluster, over the shared Redis    *)
(* (RedisBus) and MySQL (UserStore).                                       *)
(*                                                                         *)
(* Each client connection is a process: muduo runs the handlers of one     *)
(* connection one after the other on one IO thread, and the connections of *)
(* a server on four threads, side by side.  A handler is a program counter *)
(* and its locals; a step of it is one Redis command, one SQL statement,   *)
(* or one section under _connMutex.  groupChat and the observer thread of  *)
(* the subscribe connection hold _connMutex over several steps.            *)
(***************************************************************************)
EXTENDS RedisBus, UserStore

CONSTANTS
    Conns,      \* TCP connections
    Host,       \* the server each connection is made to
    Chats,      \* texts sent to one user
    Posts,      \* texts sent to the group
    Members,    \* members of the group (table groupuser)
    Accounts,   \* <<connection, user>>: who tries to log in from where
    Workload,   \* which of "loginout", "disconnect" the clients also do
    SerialLogins, \* no two logins of one user overlap
    NoConn, NoUser, NoMsg

ASSUME ChatAssumption ==
    /\ Host \in [Conns -> Servers]
    /\ Messages = Chats \cup Posts
    /\ Members \subseteq Users
    /\ Accounts \subseteq Conns \X Users
    /\ SerialLogins \in BOOLEAN
    /\ {NoConn, "free", "observer"} \cap Conns = {}
    /\ NoUser \notin Users

VARIABLES
    connMap,    \* _userConnMap of each server
    lock,       \* owner of _connMutex of each server
    obs,        \* the message the observer of each server holds
    net,        \* "none", "up", "down" (peer gone), "closing" of a connection
    pc,         \* where the handler of a connection is
    who,        \* its user id
    msg,        \* its message
    todo,       \* groupChat: members not served yet
    vec,        \* login: the offline messages read
    sess,       \* the account the client is logged in as, as it was told
    out,        \* what was written to the client
    sent        \* texts used so far

locals == <<who, msg, todo, vec>>
serverVars == <<connMap, lock, obs>>
clientVars == <<net, sess, out, sent>>
vars == <<redisVars, storeVars, serverVars, clientVars, pc, locals>>

LoginPcs == {"insert", "subscribe", "setOnline", "getState", "addUser",
             "markOnline", "readOffline", "removeOffline", "ackLogin"}
LeavePcs == {"unsubscribe", "setOffline", "delUser"}
ChatPcs  == {"chatGetState", "chatPublish", "chatStore", "chatQuery",
             "chatSetOnline", "chatInsert", "chatSetOffline"}
GroupHoldPcs == {"groupNext", "groupGetState", "groupPublishReturn",
                 "groupStoreReturn", "groupQuery", "groupSetOnline",
                 "groupPublish", "groupSetOffline", "groupStore"}
Pcs == {"idle", "groupLock"} \cup LoginPcs \cup LeavePcs \cup ChatPcs
                             \cup GroupHoldPcs

Free == "free"
Observer == "observer"

ServerTypeOK ==
    /\ connMap \in [Servers -> [Users -> Conns \cup {NoConn}]]
    /\ lock \in [Servers -> Conns \cup {Free, Observer}]
    /\ obs \in [Servers -> Seq(Envelope)]

ClientTypeOK ==
    /\ net \in [Conns -> {"none", "up", "down", "closing"}]
    /\ sess \in [Conns -> Users \cup {NoUser}]
    /\ out \in [Conns -> Seq(Envelope)]
    /\ sent \subseteq Messages

HandlerTypeOK ==
    /\ pc \in [Conns -> Pcs]
    /\ who \in [Conns -> Users \cup {NoUser}]
    /\ msg \in [Conns -> Messages \cup {NoMsg}]
    /\ todo \in [Conns -> SUBSET Users]
    /\ vec \in [Conns -> Seq(Messages)]

TypeOK ==
    RedisTypeOK /\ StoreTypeOK /\ ServerTypeOK /\ ClientTypeOK /\ HandlerTypeOK

(* A server that has just been started, and no client yet.                 *)
ServiceInit ==
    /\ connMap = [s \in Servers |-> [u \in Users |-> NoConn]]
    /\ lock = [s \in Servers |-> Free]
    /\ obs = [s \in Servers |-> <<>>]
    /\ net = [c \in Conns |-> "none"]
    /\ pc = [c \in Conns |-> "idle"]
    /\ who = [c \in Conns |-> NoUser]
    /\ msg = [c \in Conns |-> NoMsg]
    /\ todo = [c \in Conns |-> {}]
    /\ vec = [c \in Conns |-> <<>>]
    /\ sess = [c \in Conns |-> NoUser]
    /\ out = [c \in Conns |-> <<>>]
    /\ sent = {}

Init == RedisInit /\ StoreInit /\ ServiceInit

-----------------------------------------------------------------------------
(* Moving a handler along.                                                 *)

From(c, here) == pc[c] = here
Goto(c, there) == pc' = [pc EXCEPT ![c] = there]

(* The handler returns: its locals go out of scope.                        *)
Return(c) ==
    /\ Goto(c, "idle")
    /\ who' = [who EXCEPT ![c] = NoUser]
    /\ msg' = [msg EXCEPT ![c] = NoMsg]
    /\ todo' = [todo EXCEPT ![c] = {}]
    /\ vec' = [vec EXCEPT ![c] = <<>>]

(* The next message in the connection's buffer is dispatched only when the *)
(* handler of the one before has returned.  Clients talk to the server     *)
(* while their connection is up.                                           *)
Receives(c) == net[c] = "up" /\ From(c, "idle")

Connection(c, u) == connMap[Host[c]][u]

(* Mutant: the map is used without taking _connMutex.                      *)
NeverLocked(s) == TRUE

Unlocked(s) == lock[s] = Free

(* conn->send: a connection whose peer is gone swallows the message.       *)
Send(c, envs) ==
    out' = IF net[c] = "up" THEN [out EXCEPT ![c] = @ \o envs] ELSE out

-----------------------------------------------------------------------------
(* The network: a connection is accepted, its peer goes away.              *)

Connect(c) ==
    /\ net[c] = "none"
    /\ net' = [net EXCEPT ![c] = "up"]
    /\ UNCHANGED <<redisVars, storeVars, serverVars, pc, locals, sess, out, sent>>

Disconnect(c) ==
    /\ "disconnect" \in Workload
    /\ net[c] = "up"
    /\ net' = [net EXCEPT ![c] = "down"]
    /\ UNCHANGED <<redisVars, storeVars, serverVars, pc, locals, sess, out, sent>>

-----------------------------------------------------------------------------
(* ChatService::login                                                      *)

(* The environment assumption SerialLogins: nobody is between the query of *)
(* the user row and its update for the same user.                          *)
LoginPending(u) ==
    \E d \in Conns : pc[d] \in {"insert", "subscribe", "setOnline"} /\ who[d] = u

(* Mutant: the state column is not looked at.                              *)
AcceptsAnyState(user, u, pwd) == user.id = u /\ user.pwd = pwd

Accepts(user, u, pwd) ==
    user.id = u /\ user.pwd = pwd /\ user.state # "online"

Login(c, u, pwd) ==
    /\ Receives(c)
    /\ sess[c] = NoUser
    /\ <<c, u>> \in Accounts
    /\ SerialLogins => ~LoginPending(u)
    /\ \E ok \in BOOLEAN :
          /\ QueryUser(ok)
          /\ IF Accepts(Query(u, ok), u, pwd)
             THEN Goto(c, "insert") /\ who' = [who EXCEPT ![c] = u]
             ELSE UNCHANGED <<pc, who>>
    /\ UNCHANGED <<redisVars, serverVars, clientVars, msg, todo, vec>>

(* map::insert leaves an existing entry alone.                             *)
LoginInsert(c) ==
    /\ From(c, "insert")
    /\ Unlocked(Host[c])
    /\ connMap' = IF Connection(c, who[c]) = NoConn
                  THEN [connMap EXCEPT ![Host[c]][who[c]] = c]
                  ELSE connMap
    /\ Goto(c, "subscribe")
    /\ UNCHANGED <<redisVars, storeVars, lock, obs, clientVars, locals>>

LoginSubscribe(c) ==
    /\ From(c, "subscribe")
    /\ Subscribe(Host[c], who[c])
    /\ Goto(c, "setOnline")
    /\ UNCHANGED <<storeVars, serverVars, clientVars, locals>>

LoginSetOnline(c) ==
    /\ From(c, "setOnline")
    /\ \E ok \in BOOLEAN : UpdateState(who[c], "online", ok)
    /\ Goto(c, "getState")
    /\ UNCHANGED <<redisVars, serverVars, clientVars, locals>>

LoginGetState(c) ==
    /\ From(c, "getState")
    /\ Goto(c, CASE GetState(who[c]) = "null"    -> "addUser"
                 [] GetState(who[c]) = "offline" -> "markOnline"
                 [] GetState(who[c]) = "online"  -> "readOffline")
    /\ UNCHANGED <<redisVars, storeVars, serverVars, clientVars, locals>>

LoginAddUser(c) ==
    /\ From(c, "addUser")
    /\ AddUser(who[c])
    /\ Goto(c, "readOffline")
    /\ UNCHANGED <<storeVars, serverVars, clientVars, locals>>

LoginMarkOnline(c) ==
    /\ From(c, "markOnline")
    /\ SetState(who[c], "online")
    /\ Goto(c, "readOffline")
    /\ UNCHANGED <<storeVars, serverVars, clientVars, locals>>

LoginReadOffline(c) ==
    /\ From(c, "readOffline")
    /\ \E ok \in BOOLEAN :
          /\ QueryOffline(ok)
          /\ vec' = [vec EXCEPT ![c] = OfflineRows(who[c], ok)]
    /\ Goto(c, IF vec'[c] = <<>> THEN "ackLogin" ELSE "removeOffline")
    /\ UNCHANGED <<redisVars, serverVars, clientVars, who, msg, todo>>

LoginRemoveOffline(c) ==
    /\ From(c, "removeOffline")
    /\ \E ok \in BOOLEAN : RemoveOffline(who[c], ok)
    /\ Goto(c, "ackLogin")
    /\ UNCHANGED <<redisVars, serverVars, clientVars, locals>>

(* The friend and group lists the answer also carries change nothing.      *)
LoginAck(c) ==
    /\ From(c, "ackLogin")
    /\ Send(c, [i \in DOMAIN vec[c] |-> Env(who[c], vec[c][i])])
    /\ sess' = [sess EXCEPT ![c] = who[c]]
    /\ Return(c)
    /\ UNCHANGED <<redisVars, storeVars, serverVars, net, sent>>

-----------------------------------------------------------------------------
(* ChatService::loginout and ChatService::clientCloseException: forget the *)
(* connection, then tell Redis and MySQL.                                  *)

(* Mutant: the entry stays in the map.                                     *)
EraseForgotten(s, u) == UNCHANGED connMap

Erase(s, u) == connMap' = [connMap EXCEPT ![s][u] = NoConn]

(* The client sends its own id and falls back to the login menu at once.   *)
Loginout(c) ==
    /\ "loginout" \in Workload
    /\ Receives(c)
    /\ sess[c] # NoUser
    /\ Unlocked(Host[c])
    /\ Erase(Host[c], sess[c])
    /\ who' = [who EXCEPT ![c] = sess[c]]
    /\ sess' = [sess EXCEPT ![c] = NoUser]
    /\ Goto(c, "unsubscribe")
    /\ UNCHANGED <<redisVars, storeVars, lock, obs, net, out, sent, msg, todo, vec>>

(* Mutant: the loop over the map compares the wrong thing.                 *)
NoEntryFound(c) == {}

(* Entries of the map that hold connection c.                              *)
EntriesOf(c) == {u \in Users : Connection(c, u) = c}

(* Mutant: user.setId is missing in the loop over the map.                 *)
ClosedUsersUnset(c) == {DefaultId}

(* Mutant: the id starts as no user's, and is not tested afterwards.       *)
ClosedUsersUntested(c) == IF EntriesOf(c) # {} THEN EntriesOf(c) ELSE {NoUser}

(* The id that is cleaned up: that of the entry found, else the id User    *)
(* user; was constructed with, which the test against -1 lets through.     *)
ClosedUsers(c) == IF EntriesOf(c) # {} THEN EntriesOf(c) ELSE {DefaultId}

ClientCloseException(c) ==
    /\ net[c] = "down"
    /\ From(c, "idle")
    /\ Unlocked(Host[c])
    /\ \E u \in ClosedUsers(c) :
          /\ who' = [who EXCEPT ![c] = u]
          /\ IF u \in EntriesOf(c) THEN Erase(Host[c], u) ELSE UNCHANGED connMap
    /\ net' = [net EXCEPT ![c] = "closing"]
    /\ sess' = [sess EXCEPT ![c] = NoUser]
    /\ Goto(c, "unsubscribe")
    /\ UNCHANGED <<redisVars, storeVars, lock, obs, out, sent, msg, todo, vec>>

(* Mutant: the server goes on listening to the user's channel.             *)
LeaveStaySubscribed(c) ==
    /\ From(c, "unsubscribe")
    /\ Goto(c, "setOffline")
    /\ UNCHANGED <<redisVars, storeVars, serverVars, clientVars, locals>>

LeaveUnsubscribe(c) ==
    /\ From(c, "unsubscribe")
    /\ Unsubscribe(Host[c], who[c])
    /\ Goto(c, "setOffline")
    /\ UNCHANGED <<storeVars, serverVars, clientVars, locals>>

(* Mutant: user.setState("online"), as login has it.                       *)
LeaveSetOnline(c) ==
    /\ From(c, "setOffline")
    /\ \E ok \in BOOLEAN : UpdateState(who[c], "online", ok)
    /\ Goto(c, "delUser")
    /\ UNCHANGED <<redisVars, serverVars, clientVars, locals>>

LeaveSetOffline(c) ==
    /\ From(c, "setOffline")
    /\ \E ok \in BOOLEAN : UpdateState(who[c], "offline", ok)
    /\ Goto(c, "delUser")
    /\ UNCHANGED <<redisVars, serverVars, clientVars, locals>>

LeaveDelUser(c) ==
    /\ From(c, "delUser")
    /\ DelUser(who[c])
    /\ Return(c)
    /\ net' = [net EXCEPT ![c] = IF @ = "closing" THEN "none" ELSE @]
    /\ UNCHANGED <<storeVars, serverVars, sess, out, sent>>

-----------------------------------------------------------------------------
(* ChatService::oneChat                                                    *)

(* A local addressee is served under the mutex and the handler returns.    *)
OneChat(c, u, m) ==
    /\ Receives(c)
    /\ sess[c] # NoUser
    /\ m \in Chats \ sent
    /\ Unlocked(Host[c])
    /\ sent' = sent \cup {m}
    /\ IF Connection(c, u) # NoConn
       THEN Send(Connection(c, u), <<Env(u, m)>>) /\ UNCHANGED <<pc, who, msg>>
       ELSE /\ Goto(c, "chatGetState")
            /\ who' = [who EXCEPT ![c] = u]
            /\ msg' = [msg EXCEPT ![c] = m]
            /\ UNCHANGED out
    /\ UNCHANGED <<redisVars, storeVars, serverVars, net, sess, todo, vec>>

ChatGetState(c) ==
    /\ From(c, "chatGetState")
    /\ Goto(c, CASE GetState(who[c]) = "online"  -> "chatPublish"
                 [] GetState(who[c]) = "offline" -> "chatStore"
                 [] GetState(who[c]) = "null"    -> "chatQuery")
    /\ UNCHANGED <<redisVars, storeVars, serverVars, clientVars, locals>>

(* Mutant: published on the channel of the sender.                         *)
ChatPublishToSelf(c) ==
    /\ From(c, "chatPublish")
    /\ Publish(sess[c], msg[c])
    /\ Return(c)
    /\ UNCHANGED <<storeVars, serverVars, clientVars>>

ChatPublish(c) ==
    /\ From(c, "chatPublish")
    /\ Publish(who[c], msg[c])
    /\ Return(c)
    /\ UNCHANGED <<storeVars, serverVars, clientVars>>

ChatStore(c) ==
    /\ From(c, "chatStore")
    /\ \E ok \in BOOLEAN : InsertOffline(who[c], msg[c], ok)
    /\ Return(c)
    /\ UNCHANGED <<redisVars, serverVars, clientVars>>

ChatQuery(c) ==
    /\ From(c, "chatQuery")
    /\ \E ok \in BOOLEAN :
          /\ QueryUser(ok)
          /\ Goto(c, IF Query(who[c], ok).state = "online" THEN "chatSetOnline"
                                                           ELSE "chatInsert")
    /\ UNCHANGED <<redisVars, serverVars, clientVars, locals>>

ChatSetOnline(c) ==
    /\ From(c, "chatSetOnline")
    /\ SetState(who[c], "online")
    /\ Goto(c, "chatPublish")
    /\ UNCHANGED <<storeVars, serverVars, clientVars, locals>>

ChatInsert(c) ==
    /\ From(c, "chatInsert")
    /\ \E ok \in BOOLEAN : InsertOffline(who[c], msg[c], ok)
    /\ Goto(c, "chatSetOffline")
    /\ UNCHANGED <<redisVars, serverVars, clientVars, locals>>

ChatSetOffline(c) ==
    /\ From(c, "chatSetOffline")
    /\ SetState(who[c], "offline")
    /\ Return(c)
    /\ UNCHANGED <<storeVars, serverVars, clientVars>>

-----------------------------------------------------------------------------
(* ChatService::groupChat: _connMutex is held from GroupLock to the return.*)

(* Mutant: a return that leaves the mutex locked.                          *)
ReleaseForgotten(s) == UNCHANGED lock

Release(s) == lock' = [lock EXCEPT ![s] = Free]

(* GroupModel::queryGroupsUsers: every member but the sender.              *)
GroupChat(c, m) ==
    /\ Receives(c)
    /\ sess[c] # NoUser
    /\ m \in Posts \ sent
    /\ sent' = sent \cup {m}
    /\ msg' = [msg EXCEPT ![c] = m]
    /\ \E ok \in BOOLEAN :
          /\ QueryUser(ok)
          /\ todo' = [todo EXCEPT ![c] = IF ok THEN Members \ {sess[c]} ELSE {}]
    /\ Goto(c, "groupLock")
    /\ UNCHANGED <<redisVars, serverVars, net, sess, out, who, vec>>

GroupLock(c) ==
    /\ From(c, "groupLock")
    /\ Unlocked(Host[c])
    /\ lock' = [lock EXCEPT ![Host[c]] = c]
    /\ Goto(c, "groupNext")
    /\ UNCHANGED <<redisVars, storeVars, connMap, obs, clientVars, locals>>

GroupNext(c) ==
    /\ From(c, "groupNext")
    /\ \E u \in todo[c] :
          /\ who' = [who EXCEPT ![c] = u]
          /\ todo' = [todo EXCEPT ![c] = @ \ {u}]
          /\ IF Connection(c, u) # NoConn
             THEN Send(Connection(c, u), <<Env(u, msg[c])>>) /\ UNCHANGED pc
             ELSE Goto(c, "groupGetState") /\ UNCHANGED out
    /\ UNCHANGED <<redisVars, storeVars, serverVars, net, sess, sent, msg, vec>>

GroupDone(c) ==
    /\ From(c, "groupNext")
    /\ todo[c] = {}
    /\ Release(Host[c])
    /\ Return(c)
    /\ UNCHANGED <<redisVars, storeVars, connMap, obs, clientVars>>

GroupGetState(c) ==
    /\ From(c, "groupGetState")
    /\ Goto(c, CASE GetState(who[c]) = "online"  -> "groupPublishReturn"
                 [] GetState(who[c]) = "offline" -> "groupStoreReturn"
                 [] GetState(who[c]) = "null"    -> "groupQuery")
    /\ UNCHANGED <<redisVars, storeVars, serverVars, clientVars, locals>>

(* A member with a presence key ends the handler, whoever is left in todo. *)
GroupPublishReturn(c) ==
    /\ From(c, "groupPublishReturn")
    /\ Publish(who[c], msg[c])
    /\ Release(Host[c])
    /\ Return(c)
    /\ UNCHANGED <<storeVars, connMap, obs, clientVars>>

GroupStoreReturn(c) ==
    /\ From(c, "groupStoreReturn")
    /\ \E ok \in BOOLEAN : InsertOffline(who[c], msg[c], ok)
    /\ Release(Host[c])
    /\ Return(c)
    /\ UNCHANGED <<redisVars, connMap, obs, clientVars>>

GroupQuery(c) ==
    /\ From(c, "groupQuery")
    /\ \E ok \in BOOLEAN :
          /\ QueryUser(ok)
          /\ Goto(c, IF Query(who[c], ok).state = "online" THEN "groupSetOnline"
                                                           ELSE "groupSetOffline")
    /\ UNCHANGED <<redisVars, serverVars, clientVars, locals>>

GroupSetState(c) ==
    /\ \/ /\ From(c, "groupSetOnline")
          /\ SetState(who[c], "online")
          /\ Goto(c, "groupPublish")
       \/ /\ From(c, "groupSetOffline")
          /\ SetState(who[c], "offline")
          /\ Goto(c, "groupStore")
    /\ UNCHANGED <<storeVars, serverVars, clientVars, locals>>

GroupPublish(c) ==
    /\ From(c, "groupPublish")
    /\ Publish(who[c], msg[c])
    /\ Goto(c, "groupNext")
    /\ UNCHANGED <<storeVars, serverVars, clientVars, locals>>

GroupStore(c) ==
    /\ From(c, "groupStore")
    /\ \E ok \in BOOLEAN : InsertOffline(who[c], msg[c], ok)
    /\ Goto(c, "groupNext")
    /\ UNCHANGED <<redisVars, serverVars, clientVars, locals>>

-----------------------------------------------------------------------------
(* ChatService::handleRedisSubscribeMessage, on the observer thread.       *)

ObserverDeliver(s) ==
    /\ obs[s] = <<>>
    /\ Unlocked(s)
    /\ Consume(s)
    /\ LET env == NextReply(s)
       IN  /\ connMap[s][env.to] # NoConn
           /\ Send(connMap[s][env.to], <<env>>)
    /\ UNCHANGED <<storeVars, serverVars, net, sess, sent, pc, locals>>

(* The user left in the meantime: store the message, mutex held.           *)
ObserverMiss(s) ==
    /\ obs[s] = <<>>
    /\ Unlocked(s)
    /\ Consume(s)
    /\ connMap[s][NextReply(s).to] = NoConn
    /\ obs' = [obs EXCEPT ![s] = <<NextReply(s)>>]
    /\ lock' = [lock EXCEPT ![s] = Observer]
    /\ UNCHANGED <<storeVars, connMap, clientVars, pc, locals>>

ObserverStore(s) ==
    /\ obs[s] # <<>>
    /\ \E ok \in BOOLEAN : InsertOffline(Head(obs[s]).to, Head(obs[s]).text, ok)
    /\ obs' = [obs EXCEPT ![s] = <<>>]
    /\ Release(s)
    /\ UNCHANGED <<redisVars, connMap, clientVars, pc, locals>>

-----------------------------------------------------------------------------
LoginStep(c) ==
    \/ LoginInsert(c)
    \/ LoginSubscribe(c)
    \/ LoginSetOnline(c)
    \/ LoginGetState(c)
    \/ LoginAddUser(c)
    \/ LoginMarkOnline(c)
    \/ LoginReadOffline(c)
    \/ LoginRemoveOffline(c)
    \/ LoginAck(c)

LeaveStep(c) ==
    \/ LeaveUnsubscribe(c)
    \/ LeaveSetOffline(c)
    \/ LeaveDelUser(c)

ChatStep(c) ==
    \/ ChatGetState(c)
    \/ ChatPublish(c)
    \/ ChatStore(c)
    \/ ChatQuery(c)
    \/ ChatSetOnline(c)
    \/ ChatInsert(c)
    \/ ChatSetOffline(c)

GroupStep(c) ==
    \/ GroupLock(c)
    \/ GroupNext(c)
    \/ GroupDone(c)
    \/ GroupGetState(c)
    \/ GroupPublishReturn(c)
    \/ GroupStoreReturn(c)
    \/ GroupQuery(c)
    \/ GroupSetState(c)
    \/ GroupPublish(c)
    \/ GroupStore(c)

HandlerStep(c) == LoginStep(c) \/ LeaveStep(c) \/ ChatStep(c) \/ GroupStep(c)

Request(c) ==
    \/ \E u \in Users, pwd \in Passwords : Login(c, u, pwd)
    \/ Loginout(c)
    \/ \E u \in Users, m \in Chats : OneChat(c, u, m)
    \/ \E m \in Posts : GroupChat(c, m)

ObserverStep(s) == ObserverDeliver(s) \/ ObserverMiss(s) \/ ObserverStore(s)

BusStep(s) == RedisExecute(s) /\ UNCHANGED <<storeVars, serverVars, clientVars, pc, locals>>

Next ==
    \/ \E c \in Conns :
          \/ Connect(c)
          \/ Disconnect(c)
          \/ Request(c)
          \/ ClientCloseException(c)
          \/ HandlerStep(c)
    \/ \E s \in Servers : ObserverStep(s) \/ BusStep(s)

Spec == Init /\ [][Next]_vars

(* The operating system runs every runnable thread, and Redis executes     *)
(* what it was sent: weak fairness.  A write to a full socket is retried   *)
(* while other threads compete for the space: strong fairness.  Requests,  *)
(* connects and disconnects are the clients' choice: none.                 *)
Fairness ==
    /\ \A c \in Conns :
          /\ WF_vars(HandlerStep(c) \/ ClientCloseException(c))
          /\ SF_vars(LoginSubscribe(c) \/ LeaveUnsubscribe(c))
    /\ \A s \in Servers :
          /\ WF_vars(ObserverStep(s))
          /\ WF_vars(BusStep(s))

FairSpec == Spec /\ Fairness
=============================================================================
