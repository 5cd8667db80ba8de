----------------------------- MODULE Client_proofs -----------------------------
(***************************************************************************)
(* The two threads of the client take turns, proved for any users, any     *)
(* number of chat messages and commands under way, and a connection that   *)
(* may break at any moment.                                                *)
(*                                                                         *)
(* A login or a registration goes round: asked by the main thread,         *)
(* answered by the server, worked on by the receive thread, announced by   *)
(* rwsem.  Turn says that there is one at most, and at which of the four   *)
(* places.  From that, CommandsFromSession follows with what each place    *)
(* owes to the next (Vouched).                                             *)
(***************************************************************************)
EXTENDS Client, SequenceTheorems, TLAPS

Ids == Users \cup {NoUser}
Questions == {"LOGIN_MSG", "REG_MSG"}
BusyPcs == {"failed", "setUser", "friends", "groups", "show", "setFlag", "post"}
AwayPcs == {"clearFlag", "waitLogin", "waitReg", "exit"}

Requests == [verb : Questions \cup {"LOGINOUT_MSG", "COMMAND"}, id : Ids]
Replies == [verb : {"LOGIN_MSG_ACK", "REG_MSG_ACK", "CHAT"}, ok : BOOLEAN, id : Ids]

Types ==
    /\ menu \in StartPcs \cup AwayPcs \cup {"menu", "check", "chatting"}
    /\ wire \in {"none", "up", "down"}
    /\ reader \in BusyPcs \cup {"none", "read"}
    /\ resp \in Replies
    /\ flag \in BOOLEAN
    /\ rwsem \in Nat
    /\ current \in Ids
    /\ accounts \subseteq Ids
    /\ toServer \in Seq(Requests)
    /\ toClient \in Seq(Replies)

-----------------------------------------------------------------------------
(* What start-up holds at each of its steps.                               *)
HeldAt ==
    /\ menu = "socket" => held = {}
    /\ menu \in {"connect", "newContext", "noSSL"} => held = {"fd"}
    /\ menu \in {"certificate", "newSSL"} => held = {"fd", "ctx"}
    /\ menu = "handshake" => held = {"fd", "ctx", "ssl"}
    /\ menu \in StartPcs => reader = "none"
    /\ menu \notin StartPcs \cup {"exit"} => reader # "none"
    /\ StartUpLeavesNothing

(* Where the one question is.                                              *)
Busy == reader \in BusyPcs
NoneAsked == \A i \in DOMAIN toServer : toServer[i].verb \notin Questions
LastAsked ==
    \A i \in DOMAIN toServer : toServer[i].verb \in Questions => i = Len(toServer)
NoAnswer == \A i \in DOMAIN toClient : toClient[i].verb = "CHAT"
OneAnswer ==
    \A i, j \in DOMAIN toClient :
        toClient[i].verb # "CHAT" /\ toClient[j].verb # "CHAT" => i = j

Idle == NoneAsked /\ NoAnswer /\ ~Busy /\ rwsem = 0
Asking == menu \in AwayPcs /\ LastAsked /\ NoAnswer /\ ~Busy /\ rwsem = 0
Answering == menu \in AwayPcs /\ toServer = <<>> /\ OneAnswer /\ ~Busy /\ rwsem = 0
Working == menu \in AwayPcs /\ toServer = <<>> /\ NoAnswer /\ Busy /\ rwsem = 0
Woken == menu \in AwayPcs /\ toServer = <<>> /\ NoAnswer /\ ~Busy /\ rwsem = 1

Turn ==
    /\ Idle \/ Asking \/ Answering \/ Working \/ Woken
    /\ wire # "up" => toServer = <<>>
    /\ menu = "check" => toServer = <<>>

(* While the connection is up, an account that an answer, the receive      *)
(* thread or the flag speaks of is online on it.                           *)
LoggedOut(u) ==
    \E i \in DOMAIN toServer : toServer[i].verb = "LOGINOUT_MSG" /\ toServer[i].id = u

Vouched ==
    wire = "up" =>
        /\ \A i \in DOMAIN toClient :
              toClient[i].verb = "LOGIN_MSG_ACK" /\ toClient[i].ok => toClient[i].id \in accounts
        /\ reader = "setUser" => resp.id \in accounts
        /\ reader \in {"friends", "groups", "show", "setFlag"} => current \in accounts
        /\ menu \in {"waitLogin", "check"} /\ flag => current \in accounts /\ toServer = <<>>
        /\ menu = "chatting" => current \in accounts /\ ~LoggedOut(current)

Inv == Types /\ HeldAt /\ Turn /\ Vouched /\ CommandsFromSession

-----------------------------------------------------------------------------
(* Queues.                                                                 *)

LEMMA Appended ==
  ASSUME NEW S, NEW s \in Seq(S), NEW e \in S
  PROVE  /\ Append(s, e) \in Seq(S)
         /\ DOMAIN s = 1 .. Len(s) /\ Len(s) \in Nat
         /\ DOMAIN Append(s, e) = 1 .. Len(s) + 1
         /\ Len(Append(s, e)) = Len(s) + 1
         /\ \A i \in DOMAIN s : Append(s, e)[i] = s[i]
         /\ Append(s, e)[Len(s) + 1] = e
BY AppendProperties, LenProperties

LEMMA Behead ==
  ASSUME NEW S, NEW s \in Seq(S), s # <<>>
  PROVE  /\ Head(s) = s[1] /\ s[1] \in S
         /\ Tail(s) \in Seq(S)
         /\ Len(s) \in Nat \ {0}
         /\ DOMAIN s = 1 .. Len(s)
         /\ DOMAIN Tail(s) = 1 .. Len(s) - 1
         /\ Len(Tail(s)) = Len(s) - 1
         /\ \A i \in DOMAIN Tail(s) : i + 1 \in DOMAIN s /\ Tail(s)[i] = s[i + 1]
<1>1. Len(s) \in Nat \ {0} /\ DOMAIN s = 1 .. Len(s)
  BY EmptySeq, LenProperties
<1>2. Head(s) = s[1] /\ s[1] \in S
  BY <1>1, ElementOfSeq
<1>3. /\ Tail(s) \in Seq(S)
      /\ Len(Tail(s)) = Len(s) - 1
      /\ \A i \in 1 .. Len(Tail(s)) : Tail(s)[i] = s[i + 1]
  BY HeadTailProperties
<1>4. DOMAIN Tail(s) = 1 .. Len(s) - 1
  BY <1>3, LenProperties
<1> QED BY <1>1, <1>2, <1>3, <1>4

LEMMA Shortened ==
  ASSUME NEW S, NEW s \in Seq(S), NEW n \in 0 .. Len(s)
  PROVE  /\ SubSeq(s, 1, n) \in Seq(S)
         /\ DOMAIN SubSeq(s, 1, n) = 1 .. n
         /\ \A i \in 1 .. n : i \in DOMAIN s /\ SubSeq(s, 1, n)[i] = s[i]
<1>1. Len(s) \in Nat /\ DOMAIN s = 1 .. Len(s)
  BY LenProperties
<1>2. \A i \in 1 .. n : i \in DOMAIN s /\ s[i] \in S
  BY <1>1, ElementOfSeq
<1>3. /\ SubSeq(s, 1, n) \in Seq(S)
      /\ Len(SubSeq(s, 1, n)) = IF 1 <= n THEN n - 1 + 1 ELSE 0
      /\ \A i \in 1 .. n - 1 + 1 : SubSeq(s, 1, n)[i] = s[1 + i - 1]
  BY <1>1, <1>2, SubSeqProperties
<1>4. Len(SubSeq(s, 1, n)) = n
  BY <1>1, <1>3
<1>5. DOMAIN SubSeq(s, 1, n) = 1 .. n
  BY <1>3, <1>4, LenProperties
<1>6. \A i \in 1 .. n : SubSeq(s, 1, n)[i] = s[i]
  BY <1>1, <1>3
<1> QED BY <1>2, <1>3, <1>5, <1>6

-----------------------------------------------------------------------------
(* Start-up, and the steps of the main thread that write nothing.          *)

LEMMA StartKeeps ==
  ASSUME Inv, StartStep
  PROVE  Inv'
<1>1. /\ UNCHANGED <<resp, sharedVars, userVars, toServer, toClient, accounts>>
      /\ menu \in StartPcs /\ menu' \in StartPcs \cup {"menu", "exit"}
      /\ wire' \in {wire, "up"}
      /\ reader' = reader \/ (menu' = "menu" /\ reader' = "read")
  BY DEF StartStep, CreateSocket, ConnectServer, NewContext, UseCertificate, NewSSL, ConnectSSL,
         NoSSL, Opens, GivesBack, Main, StartPcs, readerVars, netVars, userVars
<1>2. Types'
  BY <1>1 DEF Inv, Types, AwayPcs, sharedVars, userVars
<1>3. HeldAt'
  BY DEF Inv, HeldAt, StartUpLeavesNothing, StartStep, CreateSocket, ConnectServer, NewContext,
         UseCertificate, NewSSL, ConnectSSL, NoSSL, Opens, GivesBack, Main, StartPcs, readerVars
<1>4. Idle
  BY <1>1 DEF Inv, Turn, Asking, Answering, Working, Woken, AwayPcs, StartPcs
<1>5. Turn'
  BY <1>1, <1>4 DEF Inv, Turn, Idle, NoneAsked, NoAnswer, Busy, BusyPcs, StartPcs, sharedVars
<1>6. Vouched'
  BY <1>1, <1>4, <1>5 DEF Inv, HeldAt, Vouched, Idle, NoAnswer, Turn, StartPcs
<1>7. CommandsFromSession'
  BY <1>1 DEF Inv, CommandsFromSession
<1> QED BY <1>2, <1>3, <1>5, <1>6, <1>7 DEF Inv

(* A step of the main thread beyond start-up, with the queues left alone.  *)
LEMMA QuietMainKeeps ==
  ASSUME Inv, ClearFlag \/ WaitLogin \/ CheckFlag \/ WaitReg \/ Quit
  PROVE  Inv'
<1>1. /\ UNCHANGED <<readerVars, userVars, netVars>>
      /\ menu \notin StartPcs /\ menu' \in AwayPcs \cup {"menu", "check", "chatting"}
      /\ flag' \in {flag, FALSE}
  BY DEF ClearFlag, WaitLogin, CheckFlag, WaitReg, Quit, Wait, Main, StartPcs, AwayPcs, sharedVars
<1>2. rwsem' = rwsem \/ (rwsem > 0 /\ rwsem' = rwsem - 1)
  BY DEF ClearFlag, WaitLogin, CheckFlag, WaitReg, Quit, Wait, sharedVars
<1>3. Types'
  <2>1. rwsem' \in Nat
    BY <1>2 DEF Inv, Types
  <2>2. flag' \in BOOLEAN
    BY <1>1 DEF Inv, Types
  <2>3. menu' \in StartPcs \cup AwayPcs \cup {"menu", "check", "chatting"}
    BY <1>1
  <2> QED BY <1>1, <2>1, <2>2, <2>3 DEF Inv, Types, readerVars, userVars, netVars
<1>4. HeldAt'
  BY <1>1 DEF Inv, HeldAt, StartUpLeavesNothing, ClearFlag, WaitLogin, CheckFlag, WaitReg, Quit, Wait,
              Main, StartPcs, AwayPcs, readerVars
<1>5. Turn'
  <2>1. CASE ClearFlag
    BY <2>1 DEF Inv, Turn, Idle, Asking, Answering, Working, Woken, NoneAsked, LastAsked, NoAnswer,
                OneAnswer, Busy, AwayPcs, ClearFlag, Main, readerVars, netVars
  <2>2. CASE WaitLogin \/ WaitReg
    <3>1. Woken
      BY <2>2 DEF Inv, Turn, Idle, Asking, Answering, Working, WaitLogin, WaitReg, Wait
    <3>2. toServer' = <<>> /\ NoAnswer' /\ ~Busy' /\ rwsem' = 0
      BY <1>1, <2>2, <3>1 DEF Woken, NoAnswer, Busy, WaitLogin, WaitReg, Wait, readerVars, netVars
    <3>3. NoneAsked'
      BY <3>2 DEF NoneAsked
    <3> QED BY <3>2, <3>3 DEF Turn, Idle
  <2>3. CASE CheckFlag \/ Quit
    <3>1. Idle
      BY <2>3 DEF Inv, Turn, Asking, Answering, Working, Woken, AwayPcs, CheckFlag, Quit, Main
    <3>2. Idle' /\ menu' # "check" /\ UNCHANGED <<wire, toServer>>
      BY <1>1, <2>3, <3>1 DEF Idle, NoneAsked, NoAnswer, Busy, CheckFlag, Quit, Main, sharedVars,
                              readerVars, netVars
    <3> QED BY <3>2 DEF Inv, Turn
  <2> QED BY <2>1, <2>2, <2>3
<1>6. Vouched'
  <2>1. CASE ClearFlag
    BY <2>1 DEF Inv, Vouched, LoggedOut, ClearFlag, Main, readerVars, userVars, netVars
  <2>2. CASE WaitLogin \/ WaitReg
    BY <2>2 DEF Inv, Vouched, LoggedOut, WaitLogin, WaitReg, Wait, Main, readerVars, userVars, netVars
  <2>3. CASE CheckFlag
    BY <2>3 DEF Inv, Turn, Vouched, LoggedOut, CheckFlag, Main, sharedVars, readerVars, userVars, netVars
  <2>4. CASE Quit
    BY <2>4 DEF Inv, Vouched, LoggedOut, Quit, Main, sharedVars, readerVars, userVars, netVars
  <2> QED BY <2>1, <2>2, <2>3, <2>4
<1>7. CommandsFromSession'
  BY <1>1 DEF Inv, CommandsFromSession, netVars
<1> QED BY <1>3, <1>4, <1>5, <1>6, <1>7 DEF Inv

-----------------------------------------------------------------------------
(* The steps that write a request.                                         *)

LEMMA Written ==
  ASSUME Types, NEW verb \in Questions \cup {"LOGINOUT_MSG", "COMMAND"}, NEW id \in Ids,
         Write(verb, id)
  PROVE  /\ toServer' \in Seq(Requests)
         /\ wire # "up" => toServer' = toServer
         /\ wire = "up" =>
               /\ Len(toServer) \in Nat /\ Len(toServer') = Len(toServer) + 1
               /\ DOMAIN toServer = 1 .. Len(toServer)
               /\ DOMAIN toServer' = 1 .. Len(toServer) + 1
               /\ \A i \in DOMAIN toServer : toServer'[i] = toServer[i]
               /\ toServer'[Len(toServer) + 1].verb = verb
               /\ toServer'[Len(toServer) + 1].id = id
         /\ UNCHANGED <<toClient, accounts, wire>>
<1>1. Req(verb, id) \in Requests /\ Req(verb, id).verb = verb /\ Req(verb, id).id = id
  BY DEF Req, Requests
<1>2. toServer \in Seq(Requests)
  BY DEF Types
<1>3. CASE wire = "up"
  <2>1. toServer' = Append(toServer, Req(verb, id))
    BY <1>3 DEF Write
  <2> QED BY <1>1, <1>2, <1>3, <2>1, Appended DEF Write
<1>4. CASE wire # "up"
  BY <1>2, <1>4 DEF Write
<1> QED BY <1>3, <1>4

(* Outside, nothing is asked, answered or announced.                       *)
LEMMA AtMenus ==
  ASSUME Turn, menu \notin AwayPcs
  PROVE  Idle
BY DEF Turn, Asking, Answering, Working, Woken

LEMMA AskKeeps ==
  ASSUME Inv, SendReg \/ \E u \in Users : SendLogin(u)
  PROVE  Inv'
<1>1. /\ menu = "menu" /\ menu' \in {"menu", "clearFlag", "waitReg"}
      /\ menu' = "menu" => wire = "down"
      /\ UNCHANGED <<held, readerVars, sharedVars, userVars>>
  BY DEF SendReg, SendLogin, WriteSucceeds, Main
<1>2. PICK verb \in Questions, id \in Ids : Write(verb, id)
  BY DEF SendReg, SendLogin, Questions, Ids
<1>3. Idle
  BY <1>1, AtMenus DEF Inv, AwayPcs
<1>w. /\ toServer' \in Seq(Requests)
      /\ wire # "up" => toServer' = toServer
      /\ wire = "up" =>
            /\ Len(toServer) \in Nat /\ Len(toServer') = Len(toServer) + 1
            /\ DOMAIN toServer = 1 .. Len(toServer)
            /\ DOMAIN toServer' = 1 .. Len(toServer) + 1
            /\ \A i \in DOMAIN toServer : toServer'[i] = toServer[i]
            /\ toServer'[Len(toServer) + 1].verb = verb
            /\ toServer'[Len(toServer) + 1].id = id
      /\ UNCHANGED <<toClient, accounts, wire>>
  BY <1>2, Written DEF Inv
<1>4. Types'
  BY <1>1, <1>w DEF Inv, Types, AwayPcs, readerVars, sharedVars, userVars
<1>5. HeldAt'
  BY <1>1 DEF Inv, HeldAt, StartUpLeavesNothing, StartPcs, readerVars
<1>6. Turn'
  <2>1. NoAnswer' /\ ~Busy' /\ rwsem' = 0
    BY <1>1, <1>3, <1>w DEF Idle, NoAnswer, Busy, readerVars, sharedVars
  <2>2. CASE wire = "up"
    <3>1. LastAsked'
      BY <1>3, <1>w, <2>2 DEF Idle, NoneAsked, LastAsked
    <3> QED BY <1>1, <1>w, <2>1, <2>2, <3>1 DEF Turn, Asking, AwayPcs
  <2>3. CASE wire # "up"
    BY <1>1, <1>3, <1>w, <2>1, <2>3 DEF Inv, Turn, Idle, NoneAsked
  <2> QED BY <2>2, <2>3
<1>7. Vouched'
  BY <1>1, <1>3, <1>w DEF Inv, Vouched, Idle, NoAnswer, Busy, BusyPcs, readerVars, sharedVars, userVars
<1>8. CommandsFromSession'
  <2>1. CASE wire = "up"
    BY <1>w, <2>1 DEF Inv, CommandsFromSession, Questions
  <2>2. CASE wire # "up"
    BY <1>w, <2>2 DEF Inv, CommandsFromSession
  <2> QED BY <2>1, <2>2
<1> QED BY <1>4, <1>5, <1>6, <1>7, <1>8 DEF Inv

LEMMA TellKeeps ==
  ASSUME Inv, Command \/ Loginout
  PROVE  Inv'
<1>1. /\ menu = "chatting" /\ menu' \in {"menu", "chatting"}
      /\ UNCHANGED <<held, readerVars, sharedVars, userVars>>
  BY DEF Command, Loginout, Main
<1>2. PICK verb \in {"LOGINOUT_MSG", "COMMAND"} :
         /\ Write(verb, current)
         /\ menu' = "chatting" /\ wire = "up" => verb = "COMMAND"
  BY DEF Command, Loginout, WriteSucceeds, Main
<1>3. Idle
  BY <1>1, AtMenus DEF Inv, AwayPcs
<1>w. /\ toServer' \in Seq(Requests)
      /\ wire # "up" => toServer' = toServer
      /\ wire = "up" =>
            /\ Len(toServer) \in Nat /\ Len(toServer') = Len(toServer) + 1
            /\ DOMAIN toServer = 1 .. Len(toServer)
            /\ DOMAIN toServer' = 1 .. Len(toServer) + 1
            /\ \A i \in DOMAIN toServer : toServer'[i] = toServer[i]
            /\ toServer'[Len(toServer) + 1].verb = verb
            /\ toServer'[Len(toServer) + 1].id = current
      /\ UNCHANGED <<toClient, accounts, wire>>
  BY <1>2, Written DEF Inv, Types
<1>4. Types'
  BY <1>1, <1>w DEF Inv, Types, readerVars, sharedVars, userVars
<1>5. HeldAt'
  BY <1>1 DEF Inv, HeldAt, StartUpLeavesNothing, StartPcs, readerVars
<1>6. Turn'
  <2>1. NoAnswer' /\ ~Busy' /\ rwsem' = 0
    BY <1>1, <1>3, <1>w DEF Idle, NoAnswer, Busy, readerVars, sharedVars
  <2>2. CASE wire = "up"
    <3>1. NoneAsked'
      BY <1>3, <1>w, <2>2 DEF Idle, NoneAsked, Questions
    <3> QED BY <1>1, <1>w, <2>1, <2>2, <3>1 DEF Turn, Idle
  <2>3. CASE wire # "up"
    BY <1>1, <1>3, <1>w, <2>1, <2>3 DEF Inv, Turn, Idle, NoneAsked
  <2> QED BY <2>2, <2>3
<1>7. Vouched'
  <2> SUFFICES ASSUME wire' = "up"
               PROVE  Vouched'
    BY DEF Vouched
  <2>1. NoAnswer' /\ ~Busy'
    BY <1>1, <1>3, <1>w DEF Idle, NoAnswer, Busy, readerVars
  <2>2. menu' = "chatting" => current' \in accounts' /\ ~LoggedOut(current)'
    BY <1>1, <1>2, <1>w DEF Inv, Vouched, LoggedOut, userVars
  <2> QED BY <1>1, <2>1, <2>2 DEF Vouched, NoAnswer, Busy, BusyPcs
<1>8. CommandsFromSession'
  <2>1. CASE wire = "up"
    BY <1>1, <1>w, <2>1 DEF Inv, Vouched, LoggedOut, CommandsFromSession
  <2>2. CASE wire # "up"
    BY <1>w, <2>2 DEF Inv, CommandsFromSession
  <2> QED BY <2>1, <2>2
<1> QED BY <1>4, <1>5, <1>6, <1>7, <1>8 DEF Inv

-----------------------------------------------------------------------------
(* The receive thread.                                                     *)

LEMMA ReadKeeps ==
  ASSUME Inv, Read
  PROVE  Inv'
<1>1. /\ toClient # <<>> /\ toClient \in Seq(Replies)
      /\ resp' = Head(toClient) /\ toClient' = Tail(toClient)
      /\ menu # "exit" /\ reader = "read"
      /\ UNCHANGED <<mainVars, sharedVars, userVars, toServer, accounts, wire>>
  BY DEF Inv, Types, Read, Reader
<1>2. /\ resp' = toClient[1] /\ resp' \in Replies
      /\ toClient' \in Seq(Replies)
      /\ DOMAIN toClient = 1 .. Len(toClient) /\ Len(toClient) \in Nat \ {0}
      /\ DOMAIN toClient' = 1 .. Len(toClient) - 1
      /\ \A i \in DOMAIN toClient' : i + 1 \in DOMAIN toClient /\ toClient'[i] = toClient[i + 1]
  BY <1>1, Behead
<1>3. /\ resp'.verb = "CHAT" => reader' = "read"
      /\ resp'.verb = "REG_MSG_ACK" => reader' = "post"
      /\ resp'.verb = "LOGIN_MSG_ACK" /\ ~resp'.ok => reader' = "failed"
      /\ resp'.verb = "LOGIN_MSG_ACK" /\ resp'.ok => reader' = "setUser"
  BY DEF Read, Reader
<1>4. resp'.verb \in {"LOGIN_MSG_ACK", "REG_MSG_ACK", "CHAT"} /\ resp'.ok \in BOOLEAN
  BY <1>2 DEF Replies
<1>5. reader' \in {"read", "post", "failed", "setUser"} /\ (reader' = "read" <=> resp'.verb = "CHAT")
  BY <1>3, <1>4
<1>6. Types'
  BY <1>1, <1>2, <1>5 DEF Inv, Types, BusyPcs, mainVars, sharedVars, userVars
<1>7. HeldAt'
  BY <1>1, <1>5 DEF Inv, HeldAt, StartUpLeavesNothing, mainVars
<1>8. Turn'
  <2>0. /\ NoAnswer => NoAnswer' /\ resp'.verb = "CHAT"
        /\ OneAnswer => OneAnswer'
        /\ OneAnswer /\ resp'.verb # "CHAT" => NoAnswer'
    <3>1. 1 \in DOMAIN toClient
      BY <1>2
    <3>2. NoAnswer => NoAnswer' /\ resp'.verb = "CHAT"
      BY <1>2, <3>1 DEF NoAnswer
    <3>3. OneAnswer => OneAnswer'
      BY <1>2 DEF OneAnswer
    <3>4. OneAnswer /\ resp'.verb # "CHAT" => NoAnswer'
      BY <1>2, <3>1 DEF OneAnswer, NoAnswer
    <3> QED BY <3>2, <3>3, <3>4
  <2>1. Busy' <=> resp'.verb # "CHAT"
    BY <1>5 DEF Busy, BusyPcs
  <2>2. CASE Idle \/ Asking \/ Woken
    BY <1>1, <2>0, <2>1, <2>2 DEF Inv, Turn, Idle, Asking, Woken, NoneAsked, LastAsked, mainVars, sharedVars
  <2>3. CASE Answering
    BY <1>1, <2>0, <2>1, <2>3 DEF Inv, Turn, Answering, Working, mainVars, sharedVars
  <2>4. ~Working
    BY <1>1 DEF Working, Busy, BusyPcs
  <2> QED BY <2>2, <2>3, <2>4 DEF Inv, Turn
<1>9. Vouched'
  <2> SUFFICES ASSUME wire' = "up"
               PROVE  Vouched'
    BY DEF Vouched
  <2>1. wire = "up" /\ 1 \in DOMAIN toClient
    BY <1>1, <1>2
  <2>2. reader' = "setUser" => resp'.id \in accounts'
    BY <1>1, <1>2, <1>3, <1>4, <2>1 DEF Inv, Vouched
  <2>3. \A i \in DOMAIN toClient' :
           toClient'[i].verb = "LOGIN_MSG_ACK" /\ toClient'[i].ok => toClient'[i].id \in accounts'
    BY <1>1, <1>2, <2>1 DEF Inv, Vouched
  <2>4. /\ menu' \in {"waitLogin", "check"} /\ flag' => current' \in accounts' /\ toServer' = <<>>
        /\ menu' = "chatting" => current' \in accounts' /\ ~LoggedOut(current)'
    BY <1>1, <2>1 DEF Inv, Vouched, LoggedOut, mainVars, sharedVars, userVars
  <2> QED BY <1>5, <2>2, <2>3, <2>4 DEF Vouched
<1>10. CommandsFromSession'
  BY <1>1 DEF Inv, CommandsFromSession
<1> QED BY <1>6, <1>7, <1>8, <1>9, <1>10 DEF Inv

LEMMA LostKeeps ==
  ASSUME Inv, ConnectionLost
  PROVE  Inv'
<1>1. /\ wire = "down" /\ menu' = "exit" /\ held' = held \ {"ssl"} /\ reader = "read" /\ reader' = "read"
      /\ UNCHANGED <<resp, sharedVars, userVars, netVars>>
  BY DEF ConnectionLost, Reader
<1>2. Types'
  BY <1>1 DEF Inv, Types, AwayPcs, sharedVars, userVars, netVars
<1>3. HeldAt'
  BY <1>1 DEF HeldAt, StartUpLeavesNothing, StartPcs
<1>4. Turn'
  BY <1>1 DEF Inv, Turn, Idle, Asking, Answering, Working, Woken, NoneAsked, LastAsked, NoAnswer,
              OneAnswer, Busy, AwayPcs, sharedVars, netVars
<1>5. Vouched' /\ CommandsFromSession'
  BY <1>1 DEF Inv, Vouched, CommandsFromSession, netVars
<1> QED BY <1>2, <1>3, <1>4, <1>5 DEF Inv

(* The steps of the receive thread inside an answer.                       *)
WorkStep ==
    \/ LoginFailed
    \/ SetUser
    \/ SetFriends
    \/ SetGroups
    \/ ShowCurrentUserData
    \/ SetFlag
    \/ Post

LEMMA WorkKeeps ==
  ASSUME Inv, WorkStep
  PROVE  Inv'
<1>1. /\ UNCHANGED <<mainVars, resp, netVars>>
      /\ reader \in BusyPcs /\ reader' \in (BusyPcs \ {"failed", "setUser"}) \cup {"read"}
      /\ reader' = "read" <=> Post
      /\ rwsem' = IF Post THEN rwsem + 1 ELSE rwsem
      /\ current' = IF SetUser THEN resp.id ELSE current
      /\ flag' \in {flag, TRUE, FALSE}
  BY DEF WorkStep, LoginFailed, SetUser, SetFriends, SetGroups, ShowCurrentUserData, SetFlag, Post,
         Reader, BusyPcs, sharedVars, userVars
<1>2. Working
  BY <1>1 DEF Inv, Turn, Idle, Asking, Answering, Woken, Busy
<1>3. resp.id \in Ids
  BY DEF Inv, Types, Replies
<1>4. Types'
  <2>1. rwsem' \in Nat
    BY <1>1 DEF Inv, Types
  <2>2. flag' \in BOOLEAN /\ current' \in Ids
    BY <1>1, <1>3 DEF Inv, Types
  <2>3. reader' \in BusyPcs \cup {"none", "read"}
    BY <1>1
  <2> QED BY <1>1, <2>1, <2>2, <2>3 DEF Inv, Types, mainVars, netVars
<1>5. HeldAt'
  BY <1>1 DEF Inv, HeldAt, StartUpLeavesNothing, BusyPcs, mainVars
<1>6. Turn'
  BY <1>1, <1>2 DEF Inv, Turn, Working, Woken, NoAnswer, Busy, BusyPcs, mainVars, netVars
<1>7. Vouched'
  <2> SUFFICES ASSUME wire' = "up"
               PROVE  Vouched'
    BY DEF Vouched
  <2>1. wire = "up" /\ menu' # "chatting" /\ toServer' = <<>>
    BY <1>1, <1>2 DEF Working, AwayPcs, mainVars, netVars
  <2>2. reader \in {"setUser"} => resp.id \in accounts
    BY <2>1 DEF Inv, Vouched
  <2>3. reader \in {"friends", "groups", "show", "setFlag"} => current \in accounts
    BY <2>1 DEF Inv, Vouched
  <2>4. reader' \in {"friends", "groups", "show", "setFlag"} => current' \in accounts'
    BY <1>1, <2>2, <2>3 DEF WorkStep, LoginFailed, SetUser, SetFriends, SetGroups,
                            ShowCurrentUserData, SetFlag, Post, Reader, netVars
  <2>5. menu' \in {"waitLogin", "check"} /\ flag' => current' \in accounts'
    BY <1>1, <2>1, <2>2, <2>3 DEF Inv, Vouched, WorkStep, LoginFailed, SetUser, SetFriends, SetGroups,
                            ShowCurrentUserData, SetFlag, Post, Reader, mainVars, sharedVars, netVars
  <2>6. \A i \in DOMAIN toClient' :
           toClient'[i].verb = "LOGIN_MSG_ACK" /\ toClient'[i].ok => toClient'[i].id \in accounts'
    BY <1>1, <2>1 DEF Inv, Vouched, netVars
  <2> QED BY <1>1, <2>1, <2>4, <2>5, <2>6 DEF Vouched
<1>8. CommandsFromSession'
  BY <1>1 DEF Inv, CommandsFromSession, netVars
<1> QED BY <1>4, <1>5, <1>6, <1>7, <1>8 DEF Inv

-----------------------------------------------------------------------------
(* The server and the network.                                             *)

LEMMA HandleKeeps ==
  ASSUME Inv, ServerHandles
  PROVE  Inv'
<1> DEFINE req == Head(toServer)
<1>1. /\ toServer # <<>> /\ toServer \in Seq(Requests)
      /\ toServer' = Tail(toServer)
      /\ UNCHANGED <<wire, mainVars, readerVars, sharedVars, userVars>>
  BY DEF Inv, Types, ServerHandles
<1>2. /\ req = toServer[1] /\ req \in Requests /\ 1 \in DOMAIN toServer
      /\ toServer' \in Seq(Requests)
      /\ DOMAIN toServer = 1 .. Len(toServer) /\ Len(toServer) \in Nat \ {0}
      /\ Len(toServer') = Len(toServer) - 1
      /\ DOMAIN toServer' = 1 .. Len(toServer) - 1
      /\ \A i \in DOMAIN toServer' : i + 1 \in DOMAIN toServer /\ toServer'[i] = toServer[i + 1]
  BY <1>1, Behead
<1>3. wire = "up"
  BY <1>1 DEF Inv, Turn
<1>4. HeldAt'
  BY <1>1 DEF Inv, HeldAt, StartUpLeavesNothing, mainVars, readerVars
<1>5. CASE req.verb \in Questions
  <2>1. PICK verb \in {"LOGIN_MSG_ACK", "REG_MSG_ACK"}, ok \in BOOLEAN :
           /\ toClient' = Append(toClient, Resp(verb, ok, req.id))
           /\ verb = "LOGIN_MSG_ACK" /\ ok => req.id \in accounts'
           /\ accounts' \in {accounts, accounts \cup {req.id}}
    BY <1>5 DEF ServerHandles, Questions
  <2>2. Asking
    BY <1>1, <1>2, <1>5 DEF Inv, Turn, Idle, Answering, Working, Woken, NoneAsked
  <2>3. Len(toServer) = 1
    BY <1>2, <1>5, <2>2 DEF Asking, LastAsked
  <2>4. toServer' = <<>>
    BY <1>2, <2>3, EmptySeq
  <2>5. Resp(verb, ok, req.id) \in Replies
    BY <1>2 DEF Resp, Replies, Requests
  <2>6. /\ toClient' \in Seq(Replies)
        /\ DOMAIN toClient = 1 .. Len(toClient) /\ Len(toClient) \in Nat
        /\ DOMAIN toClient' = 1 .. Len(toClient) + 1
        /\ \A i \in DOMAIN toClient : toClient'[i] = toClient[i]
        /\ toClient'[Len(toClient) + 1] = Resp(verb, ok, req.id)
    BY <2>1, <2>5, Appended DEF Inv, Types
  <2>7. Types'
    <3>1. accounts' \subseteq Ids
      BY <1>2, <2>1 DEF Inv, Types, Requests
    <3> QED BY <1>1, <1>2, <2>6, <3>1 DEF Inv, Types, mainVars, readerVars, sharedVars, userVars
  <2>8. Turn'
    <3>1. OneAnswer'
      BY <2>2, <2>6 DEF Asking, NoAnswer, OneAnswer
    <3>2. Answering'
      BY <1>1, <2>2, <2>4, <3>1 DEF Asking, Answering, Busy, mainVars, readerVars, sharedVars
    <3> QED BY <2>4, <3>2 DEF Turn
  <2>9. Vouched'
    <3>1. \A i \in DOMAIN toClient' :
             toClient'[i].verb = "LOGIN_MSG_ACK" /\ toClient'[i].ok => toClient'[i].id \in accounts'
      BY <2>1, <2>2, <2>6 DEF Asking, NoAnswer, Resp
    <3>2. accounts \subseteq accounts' /\ ~LoggedOut(current)'
      BY <2>1, <2>4 DEF LoggedOut
    <3> QED BY <1>1, <1>3, <2>4, <3>1, <3>2 DEF Inv, Vouched, mainVars, readerVars, sharedVars, userVars
  <2>10. CommandsFromSession'
    BY <2>4 DEF CommandsFromSession
  <2> QED BY <1>4, <2>7, <2>8, <2>9, <2>10 DEF Inv
<1>6. CASE req.verb \in {"LOGINOUT_MSG", "COMMAND"}
  <2>1. /\ toClient' = toClient
        /\ accounts' = IF req.verb = "LOGINOUT_MSG" THEN accounts \ {req.id} ELSE accounts
    BY <1>6 DEF ServerHandles
  <2>2. Types'
    BY <1>1, <1>2, <2>1 DEF Inv, Types, mainVars, readerVars, sharedVars, userVars
  <2>3. Idle \/ Asking
    BY <1>1 DEF Inv, Turn, Answering, Working, Woken
  <2>4. (NoneAsked => NoneAsked') /\ (LastAsked => LastAsked')
    BY <1>2 DEF NoneAsked, LastAsked
  <2>5. Turn'
    <3>1. Idle' \/ Asking'
      BY <1>1, <2>1, <2>3, <2>4 DEF Idle, Asking, NoAnswer, Busy, mainVars, readerVars, sharedVars
    <3> QED BY <1>1, <1>3, <3>1 DEF Inv, Turn, mainVars
  <2>6. Vouched'
    <3>1. NoAnswer' /\ ~Busy'
      BY <1>1, <2>1, <2>3 DEF Idle, Asking, NoAnswer, Busy, readerVars
    <3>2. ~(menu' \in {"waitLogin", "check"} /\ flag')
      BY <1>1, <1>3 DEF Inv, Vouched, mainVars, sharedVars
    <3>3. menu' = "chatting" => current' \in accounts' /\ ~LoggedOut(current)'
      BY <1>1, <1>2, <1>3, <2>1 DEF Inv, Vouched, LoggedOut, mainVars, userVars
    <3> QED BY <3>1, <3>2, <3>3 DEF Vouched, NoAnswer, Busy, BusyPcs
  <2>7. CommandsFromSession'
    <3> SUFFICES ASSUME NEW i \in DOMAIN toServer',
                        toServer'[i].verb \in {"COMMAND", "LOGINOUT_MSG"}
                 PROVE  /\ toServer'[i].id \in accounts'
                        /\ \A j \in 1 .. i - 1 :
                              toServer'[j].verb = "LOGINOUT_MSG" => toServer'[j].id # toServer'[i].id
      BY DEF CommandsFromSession
    <3>1. i \in Nat \ {0} /\ i + 1 \in DOMAIN toServer /\ toServer'[i] = toServer[i + 1]
      BY <1>2
    <3>2. toServer[i + 1].id \in accounts
      BY <3>1 DEF Inv, CommandsFromSession
    <3>3. \A j \in 1 .. i :
             toServer[j].verb = "LOGINOUT_MSG" => toServer[j].id # toServer[i + 1].id
      BY <3>1 DEF Inv, CommandsFromSession
    <3>4. req.verb = "LOGINOUT_MSG" => req.id # toServer[i + 1].id
      BY <1>2, <3>1, <3>3
    <3>5. \A j \in 1 .. i - 1 : j + 1 \in 1 .. i /\ toServer'[j] = toServer[j + 1]
      BY <1>2, <3>1
    <3> QED BY <2>1, <3>1, <3>2, <3>3, <3>4, <3>5
  <2> QED BY <1>4, <2>2, <2>5, <2>6, <2>7 DEF Inv
<1>7. req.verb \in Questions \cup {"LOGINOUT_MSG", "COMMAND"}
  BY <1>2 DEF Requests
<1> QED BY <1>5, <1>6, <1>7

LEMMA ChatKeeps ==
  ASSUME Inv, ServerSendsChat
  PROVE  Inv'
<1>1. UNCHANGED <<mainVars, readerVars, sharedVars, userVars, toServer, accounts, wire>>
  BY DEF ServerSendsChat
<1>2. PICK u \in accounts : toClient' = Append(toClient, Resp("CHAT", TRUE, u))
  BY DEF ServerSendsChat
<1>3. Resp("CHAT", TRUE, u) \in Replies
  BY DEF Inv, Types, Resp, Replies
<1>4. /\ toClient' \in Seq(Replies)
      /\ DOMAIN toClient = 1 .. Len(toClient) /\ Len(toClient) \in Nat
      /\ DOMAIN toClient' = 1 .. Len(toClient) + 1
      /\ \A i \in DOMAIN toClient : toClient'[i] = toClient[i]
      /\ toClient'[Len(toClient) + 1].verb = "CHAT"
  BY <1>2, <1>3, Appended DEF Inv, Types, Resp
<1>5. Types'
  BY <1>1, <1>4 DEF Inv, Types, mainVars, readerVars, sharedVars, userVars
<1>6. HeldAt' /\ CommandsFromSession'
  BY <1>1 DEF Inv, HeldAt, StartUpLeavesNothing, CommandsFromSession, mainVars, readerVars
<1>7. (NoAnswer => NoAnswer') /\ (OneAnswer => OneAnswer')
  BY <1>4 DEF NoAnswer, OneAnswer
<1>8. Turn'
  BY <1>1, <1>7 DEF Inv, Turn, Idle, Asking, Answering, Working, Woken, NoneAsked, LastAsked, Busy,
                    mainVars, readerVars, sharedVars
<1>9. Vouched'
  <2>1. wire' = "up" =>
           \A i \in DOMAIN toClient' :
              toClient'[i].verb = "LOGIN_MSG_ACK" /\ toClient'[i].ok => toClient'[i].id \in accounts'
    BY <1>1, <1>4 DEF Inv, Vouched
  <2> QED BY <1>1, <2>1 DEF Inv, Vouched, LoggedOut, mainVars, readerVars, sharedVars, userVars
<1> QED BY <1>5, <1>6, <1>8, <1>9 DEF Inv

LEMMA BreakKeeps ==
  ASSUME Inv, Break
  PROVE  Inv'
<1>1. /\ wire' = "down" /\ toServer' = <<>> /\ accounts' = {}
      /\ UNCHANGED <<mainVars, readerVars, sharedVars, userVars>>
  BY DEF Break
<1>2. PICK n \in 0 .. Len(toClient) : toClient' = SubSeq(toClient, 1, n)
  BY DEF Break
<1>3. /\ toClient' \in Seq(Replies)
      /\ DOMAIN toClient' = 1 .. n
      /\ \A i \in 1 .. n : i \in DOMAIN toClient /\ toClient'[i] = toClient[i]
  BY <1>2, Shortened DEF Inv, Types
<1>4. Types'
  BY <1>1, <1>3, EmptySeq DEF Inv, Types, mainVars, readerVars, sharedVars, userVars
<1>5. HeldAt'
  BY <1>1 DEF Inv, HeldAt, StartUpLeavesNothing, mainVars, readerVars
<1>6. (NoAnswer => NoAnswer') /\ (OneAnswer => OneAnswer')
  BY <1>3 DEF NoAnswer, OneAnswer
<1>7. NoneAsked' /\ LastAsked' /\ CommandsFromSession'
  BY <1>1 DEF NoneAsked, LastAsked, CommandsFromSession
<1>8. Turn'
  BY <1>1, <1>6, <1>7 DEF Inv, Turn, Idle, Asking, Answering, Working, Woken, Busy,
                          mainVars, readerVars, sharedVars
<1>9. Vouched'
  BY <1>1 DEF Vouched
<1> QED BY <1>4, <1>5, <1>7, <1>8, <1>9 DEF Inv

-----------------------------------------------------------------------------
LEMMA InvHolds == Spec => []Inv
<1>1. Init => Inv
  <2> SUFFICES ASSUME Init
               PROVE  Inv
    OBVIOUS
  <2>1. Types
    BY EmptySeq DEF Init, Types, Nothing, Resp, Replies, Ids, StartPcs
  <2>2. HeldAt
    BY DEF Init, HeldAt, StartUpLeavesNothing, StartPcs
  <2>3. Turn
    BY DEF Init, Turn, Idle, NoneAsked, NoAnswer, Busy, BusyPcs
  <2>4. Vouched /\ CommandsFromSession
    BY DEF Init, Vouched, CommandsFromSession
  <2> QED BY <2>1, <2>2, <2>3, <2>4 DEF Inv
<1>2. Inv /\ [Next]_vars => Inv'
  <2> SUFFICES ASSUME Inv, [Next]_vars
               PROVE  Inv'
    OBVIOUS
  <2>1. CASE StartStep
    BY <2>1, StartKeeps
  <2>2. CASE MainStep
    <3>1. \/ SendReg \/ \E u \in Users : SendLogin(u)
          \/ ClearFlag \/ WaitLogin \/ CheckFlag \/ WaitReg \/ Quit
          \/ Command \/ Loginout
      BY <2>2 DEF MainStep, MainMenu
    <3> QED BY <3>1, AskKeeps, QuietMainKeeps, TellKeeps
  <2>3. CASE ReaderStep
    <3>1. Read \/ ConnectionLost \/ WorkStep
      BY <2>3 DEF ReaderStep, WorkStep
    <3> QED BY <3>1, ReadKeeps, LostKeeps, WorkKeeps
  <2>4. CASE ServerHandles \/ ServerSendsChat \/ Break
    BY <2>4, HandleKeeps, ChatKeeps, BreakKeeps
  <2>5. CASE UNCHANGED vars
    BY <2>5 DEF Inv, Types, HeldAt, StartUpLeavesNothing, Turn, Idle, Asking, Answering, Working, Woken,
                NoneAsked, LastAsked, NoAnswer, OneAnswer, Busy, Vouched, LoggedOut, CommandsFromSession,
                vars, mainVars, readerVars, sharedVars, userVars, netVars
  <2> QED BY <2>1, <2>2, <2>3, <2>4, <2>5 DEF Next
<1> QED BY <1>1, <1>2, PTL DEF Spec

(* At the menus no answer is under way and no wake-up is left over in      *)
(* rwsem, for any number of logins and registrations: main and             *)
(* readTaskHandler never work on g_currentUser at the same time.           *)
THEOREM TurnsTheorem == Spec => []AnswersAreOwn
<1>1. Inv => AnswersAreOwn
  <2> SUFFICES ASSUME Inv, menu \in {"menu", "check", "chatting"}
               PROVE  /\ ReaderIdle
                      /\ rwsem = 0
                      /\ \A i \in DOMAIN toClient : toClient[i].verb = "CHAT"
                      /\ \A i \in DOMAIN toServer : toServer[i].verb \in {"COMMAND", "LOGINOUT_MSG"}
    BY DEF AnswersAreOwn
  <2>1. Idle
    BY AtMenus DEF Inv, AwayPcs
  <2>2. ReaderIdle
    BY <2>1 DEF Inv, Types, HeldAt, Idle, Busy, StartPcs, ReaderIdle
  <2>3. \A i \in DOMAIN toServer : toServer[i] \in Requests
    BY LenProperties, ElementOfSeq DEF Inv, Types
  <2>4. \A i \in DOMAIN toServer : toServer[i].verb \in {"COMMAND", "LOGINOUT_MSG"}
    BY <2>1, <2>3 DEF Idle, NoneAsked, Requests
  <2> QED BY <2>1, <2>2, <2>4 DEF Idle, NoAnswer
<1> QED BY <1>1, InvHolds, PTL

(* Commands of the chat menu carry an account that is online on this       *)
(* connection, although the other thread sets g_currentUser and the flag   *)
(* is reset after the request has been written.                            *)
THEOREM CommandsTheorem == Spec => []CommandsFromSession
<1>1. Inv => CommandsFromSession
  BY DEF Inv
<1> QED BY <1>1, InvHolds, PTL

(* No way out of main and sync_initialize_ssl keeps the socket, the        *)
(* context or the SSL object of a start-up that failed.                    *)
THEOREM StartUpTheorem == Spec => []StartUpLeavesNothing
<1>1. Inv => StartUpLeavesNothing
  BY DEF Inv, HeldAt
<1> QED BY <1>1, InvHolds, PTL
=============================================================================
