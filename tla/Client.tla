-------------------------------- MODULE Client --------------------------------
(***************************************************************************)
(* The chat client (src/src/client/main.cpp): the main thread shows the    *)
(* menus and sends requests, the detached receive thread reads answers and *)
(* chat messages.  They share g_currentUser and its two lists, the atomic  *)
(* g_isLoginSuccess and the semaphore rwsem.                               *)
(*                                                                         *)
(* The server is the environment: it answers the requests of its client in *)
(* order, as ChatService::login, reg and loginout do, and sends chat       *)
(* messages in between.  Every SSL_read is taken to return one message;    *)
(* Framing is about the others.  Before that, main opens a socket, connects*)
(* and sets TLS up (src/src/client/clientssl.cpp), each of which may fail, *)
(* and the connection may break at any time later.                         *)
(***************************************************************************)
EXTENDS Naturals, Sequences

CONSTANTS
    Users,      \* ids of the registered users
    Has,        \* for each list of an answer, the users for whom it has one
    QueueLimit, \* chat messages and commands under way
    NoUser

ListNames == {"friends", "groups"}

ASSUME ClientAssumption ==
    /\ Has \in [ListNames -> SUBSET Users]
    /\ QueueLimit \in Nat \ {0}
    /\ NoUser \notin Users

VARIABLES
    menu,       \* where the main thread is
    held,       \* what start-up has opened: "fd", "ctx", "ssl"
    wire,       \* the connection: "none", "up", "down"
    reader,     \* where the receive thread is
    resp,       \* the message the receive thread is working on
    flag,       \* g_isLoginSuccess
    rwsem,      \* value of the semaphore
    current,    \* id of g_currentUser
    lists,      \* whose entries the friend list and the group list hold
    toServer,   \* requests under way
    toClient,   \* answers and chat messages under way
    accounts    \* server: the accounts that are online on this connection

mainVars == <<menu, held>>
readerVars == <<reader, resp>>
sharedVars == <<flag, rwsem>>
userVars == <<current, lists>>
netVars == <<toServer, toClient, accounts, wire>>
vars == <<mainVars, readerVars, sharedVars, userVars, netVars>>

Waiting == {"waitLogin", "waitReg"}
StartPcs == {"socket", "connect", "newContext", "certificate", "newSSL",
             "handshake", "noSSL"}
Req(verb, id) == [verb |-> verb, id |-> id]
Resp(verb, ok, id) == [verb |-> verb, ok |-> ok, id |-> id]

Nothing == Resp("CHAT", FALSE, NoUser)

Init ==
    /\ menu = "socket"
    /\ held = {}
    /\ wire = "none"
    /\ reader = "none"
    /\ resp = Nothing
    /\ flag = FALSE
    /\ rwsem = 0
    /\ current = NoUser
    /\ lists = [l \in ListNames |-> NoUser]
    /\ toServer = <<>>
    /\ toClient = <<>>
    /\ accounts = {}

-----------------------------------------------------------------------------
(* Start-up: main and sync_initialize_ssl.                                 *)

Main(here, there) == menu = here /\ menu' = there

(* A call that opens something goes well, or what was opened before it is  *)
(* given back.                                                             *)
Opens(here, what, there) ==
    /\ Main(here, there)
    /\ held' = held \cup what
    /\ UNCHANGED <<readerVars, sharedVars, userVars, netVars>>

GivesBack(here, what, there) ==
    /\ Main(here, there)
    /\ held' = held \ what
    /\ UNCHANGED <<readerVars, sharedVars, userVars, netVars>>

CreateSocket == Opens("socket", {"fd"}, "connect") \/ GivesBack("socket", {}, "exit")

ConnectServer ==
    \/ /\ Main("connect", "newContext")
       /\ wire' = "up"
       /\ UNCHANGED <<held, readerVars, sharedVars, userVars, toServer, toClient, accounts>>
    \/ GivesBack("connect", {"fd"}, "exit")

NewContext == Opens("newContext", {"ctx"}, "certificate")
                 \/ GivesBack("newContext", {}, "noSSL")

(* The certificate and its key are read and compared.                      *)
UseCertificate == Opens("certificate", {}, "newSSL")
                     \/ GivesBack("certificate", {"ctx"}, "noSSL")

NewSSL == Opens("newSSL", {"ssl"}, "handshake") \/ GivesBack("newSSL", {"ctx"}, "noSSL")

(* Mutant: a failing handshake keeps the SSL object.                       *)
ConnectSSLLeaks ==
    GivesBack("handshake", {"ctx"}, "noSSL")

(* SSL_set_fd and SSL_connect.  Only now is there a receive thread.        *)
ConnectSSL ==
    \/ /\ Main("handshake", "menu")
       /\ held' = held \ {"ctx"}
       /\ reader' = "read"
       /\ UNCHANGED <<resp, sharedVars, userVars, netVars>>
    \/ GivesBack("handshake", {"ssl", "ctx"}, "noSSL")

NoSSL == GivesBack("noSSL", {"fd"}, "exit")

StartStep ==
    \/ CreateSocket
    \/ ConnectServer
    \/ NewContext
    \/ UseCertificate
    \/ NewSSL
    \/ ConnectSSL
    \/ NoSSL

-----------------------------------------------------------------------------
(* The main thread.                                                        *)

(* SSL_write on a broken connection returns an error or not; nothing       *)
(* arrives.                                                                *)
WriteSucceeds(ok) == ok \/ wire = "down"

Write(verb, id) ==
    /\ toServer' = IF wire = "up" THEN Append(toServer, Req(verb, id)) ELSE toServer
    /\ UNCHANGED <<toClient, accounts, wire>>

(* case 1 of the menu: write the request, then reset the flag, then wait;  *)
(* after an error, show the menu again.                                    *)
SendLogin(u) ==
    \E ok \in BOOLEAN :
        /\ WriteSucceeds(ok)
        /\ Main("menu", IF ok THEN "clearFlag" ELSE "menu")
        /\ Write("LOGIN_MSG", u)
        /\ UNCHANGED <<held, readerVars, sharedVars, userVars>>

ClearFlag ==
    /\ Main("clearFlag", "waitLogin")
    /\ flag' = FALSE
    /\ UNCHANGED <<held, readerVars, rwsem, userVars, netVars>>

(* sem_wait                                                                *)
Wait(here, there) ==
    /\ Main(here, there)
    /\ rwsem > 0
    /\ rwsem' = rwsem - 1
    /\ UNCHANGED <<held, readerVars, flag, userVars, netVars>>

WaitLogin == Wait("waitLogin", "check")

CheckFlag ==
    /\ Main("check", IF flag THEN "chatting" ELSE "menu")
    /\ UNCHANGED <<held, readerVars, sharedVars, userVars, netVars>>

(* case 2 of the menu waits whether the request was written or not.        *)
SendReg ==
    /\ Main("menu", "waitReg")
    /\ Write("REG_MSG", NoUser)
    /\ UNCHANGED <<held, readerVars, sharedVars, userVars>>

WaitReg == Wait("waitReg", "menu")

(* case 3 of the menu                                                      *)
Quit ==
    /\ Main("menu", "exit")
    /\ held' = {}
    /\ UNCHANGED <<readerVars, sharedVars, userVars, netVars>>

(* chat, addfriend, creategroup, addgroup, groupchat of the chat menu.     *)
Command ==
    /\ Main("chatting", "chatting")
    /\ Len(toServer) < QueueLimit
    /\ Write("COMMAND", current)
    /\ UNCHANGED <<held, readerVars, sharedVars, userVars>>

(* loginout goes back to the first menu without an answer, unless it could *)
(* not be written.                                                         *)
Loginout ==
    \E ok \in BOOLEAN :
        /\ WriteSucceeds(ok)
        /\ Main("chatting", IF ok THEN "menu" ELSE "chatting")
        /\ Write("LOGINOUT_MSG", current)
        /\ UNCHANGED <<held, readerVars, sharedVars, userVars>>

MainMenu == Command \/ Loginout

-----------------------------------------------------------------------------
(* The receive thread.                                                     *)

Reader(here, there) ==
    /\ menu # "exit"
    /\ reader = here
    /\ reader' = there

(* Mutant: a login answer wakes the main thread before it is worked on.    *)
ReadPostsFirst ==
    /\ toClient # <<>>
    /\ resp' = Head(toClient)
    /\ toClient' = Tail(toClient)
    /\ Reader("read", CASE resp'.verb = "CHAT"          -> "read"
                        [] resp'.verb = "REG_MSG_ACK"   -> "post"
                        [] resp'.verb = "LOGIN_MSG_ACK" -> "setUser")
    /\ rwsem' = IF resp'.verb = "LOGIN_MSG_ACK" THEN rwsem + 1 ELSE rwsem
    /\ UNCHANGED <<mainVars, flag, userVars, toServer, accounts, wire>>

Read ==
    /\ toClient # <<>>
    /\ resp' = Head(toClient)
    /\ toClient' = Tail(toClient)
    /\ Reader("read", CASE resp'.verb = "CHAT"                       -> "read"
                        [] resp'.verb = "REG_MSG_ACK"                -> "post"
                        [] resp'.verb = "LOGIN_MSG_ACK" /\ ~resp'.ok -> "failed"
                        [] resp'.verb = "LOGIN_MSG_ACK" /\ resp'.ok  -> "setUser")
    /\ UNCHANGED <<mainVars, sharedVars, userVars, toServer, accounts, wire>>

(* Mutant: only -1 counts as the end of the connection.                    *)
ConnectionNotLost ==
    /\ wire = "down" /\ toClient = <<>>
    /\ Reader("read", "read")
    /\ UNCHANGED <<mainVars, resp, sharedVars, userVars, netVars>>

(* SSL_read returns 0 or -1: the receive thread ends the process.          *)
ConnectionLost ==
    /\ wire = "down" /\ toClient = <<>>
    /\ Reader("read", "read")
    /\ menu' = "exit"
    /\ held' = held \ {"ssl"}
    /\ UNCHANGED <<resp, sharedVars, userVars, netVars>>

(* doLoginResponse                                                         *)
LoginFailed ==
    /\ Reader("failed", "post")
    /\ flag' = FALSE
    /\ UNCHANGED <<mainVars, resp, rwsem, userVars, netVars>>

(* Mutant: g_currentUser keeps the id of the login before.                 *)
SetUserForgotten ==
    /\ Reader("setUser", "friends")
    /\ current' = IF current = NoUser THEN resp.id ELSE current
    /\ UNCHANGED <<mainVars, resp, sharedVars, lists, netVars>>

SetUser ==
    /\ Reader("setUser", "friends")
    /\ current' = resp.id
    /\ UNCHANGED <<mainVars, resp, sharedVars, lists, netVars>>

(* A list is cleared and filled only when the answer contains it.          *)
FillList(l) ==
    lists' = IF resp.id \in Has[l] THEN [lists EXCEPT ![l] = resp.id] ELSE lists

SetFriends ==
    /\ Reader("friends", "groups")
    /\ FillList("friends")
    /\ UNCHANGED <<mainVars, resp, sharedVars, current, netVars>>

SetGroups ==
    /\ Reader("groups", "show")
    /\ FillList("groups")
    /\ UNCHANGED <<mainVars, resp, sharedVars, current, netVars>>

ShowCurrentUserData ==
    /\ Reader("show", "setFlag")
    /\ UNCHANGED <<mainVars, resp, sharedVars, userVars, netVars>>

SetFlag ==
    /\ Reader("setFlag", "post")
    /\ flag' = TRUE
    /\ UNCHANGED <<mainVars, resp, rwsem, userVars, netVars>>

(* sem_post                                                                *)
Post ==
    /\ Reader("post", "read")
    /\ rwsem' = rwsem + 1
    /\ UNCHANGED <<mainVars, resp, flag, userVars, netVars>>

-----------------------------------------------------------------------------
(* The server.                                                             *)

(* Answers go behind what was sent before.  An account that is online is   *)
(* refused, another one may be (its password is wrong, or it is in use on  *)
(* another connection).                                                    *)
ServerHandles ==
    /\ toServer # <<>>
    /\ toServer' = Tail(toServer)
    /\ LET req == Head(toServer)
           answer(verb, ok) == toClient' = Append(toClient, Resp(verb, ok, req.id))
       IN  \/ /\ req.verb = "LOGIN_MSG"
              /\ req.id \notin accounts
              /\ accounts' = accounts \cup {req.id}
              /\ answer("LOGIN_MSG_ACK", TRUE)
           \/ /\ req.verb = "LOGIN_MSG"
              /\ answer("LOGIN_MSG_ACK", FALSE)
              /\ UNCHANGED accounts
           \/ /\ req.verb = "REG_MSG"
              /\ \E ok \in BOOLEAN : answer("REG_MSG_ACK", ok)
              /\ UNCHANGED accounts
           \/ /\ req.verb = "LOGINOUT_MSG"
              /\ accounts' = accounts \ {req.id}
              /\ UNCHANGED toClient
           \/ /\ req.verb = "COMMAND"
              /\ UNCHANGED <<toClient, accounts>>
    /\ UNCHANGED <<wire, mainVars, readerVars, sharedVars, userVars>>

(* oneChat, groupChat and the observer send to whoever is in the map.      *)
ServerSendsChat ==
    /\ accounts # {}
    /\ Len(toClient) < QueueLimit
    /\ \E u \in accounts : toClient' = Append(toClient, Resp("CHAT", TRUE, u))
    /\ UNCHANGED <<mainVars, readerVars, sharedVars, userVars, toServer, accounts, wire>>

(* The server dies or the network does: requests are lost, answers under   *)
(* way from some point on, and clientCloseException frees the accounts.    *)
Break ==
    /\ wire = "up"
    /\ wire' = "down"
    /\ toServer' = <<>>
    /\ \E n \in 0 .. Len(toClient) : toClient' = SubSeq(toClient, 1, n)
    /\ accounts' = {}
    /\ UNCHANGED <<mainVars, readerVars, sharedVars, userVars>>

-----------------------------------------------------------------------------
MainStep ==
    \/ \E u \in Users : SendLogin(u)
    \/ ClearFlag
    \/ WaitLogin
    \/ CheckFlag
    \/ SendReg
    \/ WaitReg
    \/ Quit
    \/ MainMenu

ReaderStep ==
    \/ Read
    \/ ConnectionLost
    \/ LoginFailed
    \/ SetUser
    \/ SetFriends
    \/ SetGroups
    \/ ShowCurrentUserData
    \/ SetFlag
    \/ Post

Next == StartStep \/ MainStep \/ ReaderStep \/ ServerHandles \/ ServerSendsChat \/ Break

Spec == Init /\ [][Next]_vars

(* Both threads run, and the server handles what it is sent.  Nobody has   *)
(* to choose from a menu.                                                  *)
Fairness ==
    /\ WF_vars(ClearFlag \/ WaitLogin \/ CheckFlag \/ WaitReg)
    /\ WF_vars(ReaderStep)
    /\ WF_vars(ServerHandles)

FairSpec == Spec /\ Fairness

-----------------------------------------------------------------------------
(* The receive thread is not in the middle of an answer.                   *)
ReaderIdle == reader = "read"

(* Every way out of start-up gives back what it has opened, and a client   *)
(* that got through it holds its socket and its SSL object only, until it  *)
(* ends.                                                                   *)
StartUpLeavesNothing ==
    /\ menu = "exit" /\ reader = "none" => held = {}
    /\ menu \notin StartPcs \cup {"exit"} => held = {"fd", "ssl"}

(* sem_wait returns for the answer to the request it waits for, and only   *)
(* when the receive thread is through with it: outside, no answer is under *)
(* way, so the main thread never sees half a login, nor somebody else's    *)
(* wake-up left over in rwsem.                                             *)
AnswersAreOwn ==
    menu \in {"menu", "check", "chatting"} =>
        /\ ReaderIdle
        /\ rwsem = 0
        /\ \A i \in DOMAIN toClient : toClient[i].verb = "CHAT"
        /\ \A i \in DOMAIN toServer : toServer[i].verb \in {"COMMAND", "LOGINOUT_MSG"}

(* The id that commands carry is taken from g_currentUser, which the other *)
(* thread sets.  It is an account the server has let in on this very       *)
(* connection and has not been told to log out before.                     *)
CommandsFromSession ==
    \A i \in DOMAIN toServer :
        toServer[i].verb \in {"COMMAND", "LOGINOUT_MSG"} =>
            /\ toServer[i].id \in accounts
            /\ \A j \in 1 .. i - 1 :
                  toServer[j].verb = "LOGINOUT_MSG" => toServer[j].id # toServer[i].id

(* No menu choice hangs for ever, though registration waits for an answer  *)
(* to a request it may not have been able to write: then the receive       *)
(* thread finds the connection gone and ends the client.                   *)
AnswersArrive == menu \in Waiting ~> menu \notin Waiting
=============================================================================
