--------------------------- MODULE ChatService_proofs ---------------------------
(***************************************************************************)
(* Proofs about the handlers, for every cluster, workload and number of    *)
(* failing statements: types, and who a connection stands for - no map     *)
(* entry is stale, and no message goes to the wrong client; in the second  *)
(* half, the row of the user table as a lock on the account.               *)
(***************************************************************************)
EXTENDS ChatProperties, SequenceTheorems, TLAPS

(* At every point where a handler uses its user id or its message, it has  *)
(* one.                                                                    *)
Frames ==
    \A c \in Conns :
        /\ pc[c] \in LoginPcs \cup LeavePcs \cup ChatPcs
                     \cup (GroupHoldPcs \ {"groupNext"}) => who[c] \in Users
        /\ pc[c] \in ChatPcs \cup GroupHoldPcs \cup {"groupLock"} => msg[c] \in Messages

TypeInv == TypeOK /\ Frames

-----------------------------------------------------------------------------
(* What each operation of RedisBus and UserStore does to its types.        *)

LEMMA SetStateType ==
  ASSUME RedisTypeOK, NEW u \in Users, NEW st \in KeyState, SetState(u, st)
  PROVE  RedisTypeOK'
BY DEF RedisTypeOK, SetState

LEMMA WriteType ==
  ASSUME RedisTypeOK, NEW s \in Servers, NEW u \in Users,
         Subscribe(s, u) \/ Unsubscribe(s, u)
  PROVE  RedisTypeOK'
<1>1. PICK verb \in {"SUBSCRIBE", "UNSUBSCRIBE"} : Write(s, verb, u)
  BY DEF Subscribe, Unsubscribe
<1>2. [verb |-> verb, channel |-> u] \in Command
  BY DEF Command
<1>3. Append(cmds[s], [verb |-> verb, channel |-> u]) \in Seq(Command)
  BY <1>2, AppendProperties DEF RedisTypeOK
<1> QED BY <1>1, <1>3 DEF Write, RedisTypeOK

LEMMA PublishType ==
  ASSUME RedisTypeOK, NEW u \in Users, NEW m \in Messages, Publish(u, m)
  PROVE  RedisTypeOK'
<1>1. Env(u, m) \in Envelope
  BY DEF Env, Envelope
<1>2. \A s \in Servers : Append(inbox[s], Env(u, m)) \in Seq(Envelope)
  BY <1>1, AppendProperties DEF RedisTypeOK
<1> QED BY <1>2 DEF Publish, RedisTypeOK

LEMMA ExecuteType ==
  ASSUME RedisTypeOK, NEW s \in Servers, RedisExecute(s)
  PROVE  RedisTypeOK'
<1>1. cmds[s] \in Seq(Command) /\ cmds[s] # <<>>
  BY DEF RedisTypeOK, RedisExecute
<1>2. Head(cmds[s]) \in Command /\ Tail(cmds[s]) \in Seq(Command)
  BY <1>1, HeadTailProperties
<1>3. Head(cmds[s]).channel \in Users
  BY <1>2 DEF Command
<1> QED BY <1>2, <1>3 DEF RedisExecute, RedisTypeOK

LEMMA ConsumeType ==
  ASSUME RedisTypeOK, NEW s \in Servers, Consume(s)
  PROVE  RedisTypeOK' /\ NextReply(s) \in Envelope
<1>1. inbox[s] \in Seq(Envelope) /\ inbox[s] # <<>>
  BY DEF RedisTypeOK, Consume
<1>2. Head(inbox[s]) \in Envelope /\ Tail(inbox[s]) \in Seq(Envelope)
  BY <1>1, HeadTailProperties
<1> QED BY <1>2 DEF Consume, RedisTypeOK, NextReply

LEMMA DbCallType ==
  ASSUME StoreTypeOK, NEW ok \in BOOLEAN, DbCall(ok)
  PROVE  dbFails' \in 0 .. MaxDbFails
<1>1. MaxDbFails \in Nat
  BY StoreAssumption
<1>2. dbFails' = dbFails \/ (dbFails < MaxDbFails /\ dbFails' = dbFails + 1)
  BY DEF DbCall
<1>3. dbFails \in 0 .. MaxDbFails
  BY DEF StoreTypeOK
<1> QED BY <1>1, <1>2, <1>3

LEMMA StoreReadType ==
  ASSUME StoreTypeOK, NEW ok \in BOOLEAN, QueryUser(ok) \/ QueryOffline(ok)
  PROVE  StoreTypeOK'
<1>1. dbFails' \in 0 .. MaxDbFails
  BY DbCallType DEF QueryUser, QueryOffline
<1> QED BY <1>1 DEF StoreTypeOK, QueryUser, QueryOffline

LEMMA UpdateStateType ==
  ASSUME StoreTypeOK, NEW ok \in BOOLEAN, NEW u \in Users, NEW st \in DbState,
         UpdateState(u, st, ok)
  PROVE  StoreTypeOK'
<1>1. dbFails' \in 0 .. MaxDbFails
  BY DbCallType DEF UpdateState
<1> QED BY <1>1 DEF StoreTypeOK, UpdateState

LEMMA InsertOfflineType ==
  ASSUME StoreTypeOK, NEW ok \in BOOLEAN, NEW u \in Users, NEW m \in Messages,
         InsertOffline(u, m, ok)
  PROVE  StoreTypeOK'
<1>1. dbFails' \in 0 .. MaxDbFails
  BY DbCallType DEF InsertOffline
<1>2. Append(offlineMsg[u], m) \in Seq(Messages)
  BY AppendProperties DEF StoreTypeOK
<1> QED BY <1>1, <1>2 DEF StoreTypeOK, InsertOffline

LEMMA RemoveOfflineType ==
  ASSUME StoreTypeOK, NEW ok \in BOOLEAN, NEW u \in Users, RemoveOffline(u, ok)
  PROVE  StoreTypeOK'
<1>1. dbFails' \in 0 .. MaxDbFails
  BY DbCallType DEF RemoveOffline
<1>2. <<>> \in Seq(Messages)
  BY EmptySeq
<1> QED BY <1>1, <1>2 DEF StoreTypeOK, RemoveOffline

LEMMA SendType ==
  ASSUME ClientTypeOK, NEW c \in Conns, NEW envs \in Seq(Envelope), Send(c, envs)
  PROVE  out' \in [Conns -> Seq(Envelope)]
BY DEF ClientTypeOK, Send

LEMMA InitTypes == Init => TypeInv
<1> SUFFICES ASSUME Init PROVE TypeInv
  OBVIOUS
<1> USE DEF Init, ServiceInit
<1>1. RedisTypeOK
  BY EmptySeq DEF RedisInit, RedisTypeOK, KeyState
<1>2. StoreTypeOK
  <2>1. MaxDbFails \in Nat
    BY StoreAssumption
  <2> QED BY <2>1, EmptySeq DEF StoreInit, StoreTypeOK, DbState
<1>3. ServerTypeOK /\ ClientTypeOK
  BY EmptySeq DEF ServerTypeOK, ClientTypeOK
<1>4. HandlerTypeOK /\ Frames
  BY EmptySeq DEF HandlerTypeOK, Frames, Pcs, LoginPcs, LeavePcs, ChatPcs, GroupHoldPcs
<1> QED BY <1>1, <1>2, <1>3, <1>4 DEF TypeInv, TypeOK

-----------------------------------------------------------------------------
(* What a step leaves alone keeps its type; what moves a handler keeps its *)
(* frame.                                                                  *)

LEMMA Same ==
  /\ RedisTypeOK /\ UNCHANGED redisVars => RedisTypeOK'
  /\ StoreTypeOK /\ UNCHANGED storeVars => StoreTypeOK'
  /\ ServerTypeOK /\ UNCHANGED serverVars => ServerTypeOK'
  /\ ClientTypeOK /\ UNCHANGED clientVars => ClientTypeOK'
BY DEF redisVars, storeVars, serverVars, clientVars, RedisTypeOK, StoreTypeOK, ServerTypeOK, ClientTypeOK

NeedsUser == LoginPcs \cup LeavePcs \cup ChatPcs \cup (GroupHoldPcs \ {"groupNext"})
NeedsMsg == ChatPcs \cup GroupHoldPcs \cup {"groupLock"}

LEMMA FrameGoto ==
  ASSUME HandlerTypeOK, Frames, NEW c \in Conns, NEW there \in Pcs, Goto(c, there),
         who' = who, msg' = msg,
         todo' \in [Conns -> SUBSET Users], vec' \in [Conns -> Seq(Messages)],
         there \in NeedsUser => who[c] \in Users,
         there \in NeedsMsg => msg[c] \in Messages
  PROVE  HandlerTypeOK' /\ Frames'
<1>1. HandlerTypeOK'
  BY DEF HandlerTypeOK, Goto
<1>2. Frames'
  <2> SUFFICES ASSUME NEW d \in Conns
               PROVE  /\ pc'[d] \in NeedsUser => who'[d] \in Users
                      /\ pc'[d] \in NeedsMsg => msg'[d] \in Messages
    BY DEF Frames, NeedsUser, NeedsMsg
  <2>1. CASE d = c BY <2>1 DEF HandlerTypeOK, Goto
  <2>2. CASE d # c BY <2>2 DEF HandlerTypeOK, Goto, Frames, NeedsUser, NeedsMsg
  <2> QED BY <2>1, <2>2
<1> QED BY <1>1, <1>2

LEMMA FrameReturn ==
  ASSUME HandlerTypeOK, Frames, NEW c \in Conns, Return(c)
  PROVE  HandlerTypeOK' /\ Frames'
<1>1. "idle" \in Pcs /\ "idle" \notin NeedsUser /\ "idle" \notin NeedsMsg
  BY DEF Pcs, NeedsUser, NeedsMsg, LoginPcs, LeavePcs, ChatPcs, GroupHoldPcs
<1>2. HandlerTypeOK'
  BY <1>1, EmptySeq DEF HandlerTypeOK, Goto, Return
<1>3. Frames'
  <2> SUFFICES ASSUME NEW d \in Conns
               PROVE  /\ pc'[d] \in NeedsUser => who'[d] \in Users
                      /\ pc'[d] \in NeedsMsg => msg'[d] \in Messages
    BY DEF Frames, NeedsUser, NeedsMsg
  <2>1. CASE d = c BY <2>1, <1>1 DEF HandlerTypeOK, Goto, Return
  <2>2. CASE d # c BY <2>2 DEF HandlerTypeOK, Goto, Return, Frames, NeedsUser, NeedsMsg
  <2> QED BY <2>1, <2>2
<1> QED BY <1>2, <1>3

LEMMA FrameAt ==
  ASSUME Frames, NEW c \in Conns
  PROVE  /\ pc[c] \in NeedsUser => who[c] \in Users
         /\ pc[c] \in NeedsMsg => msg[c] \in Messages
BY DEF Frames, NeedsUser, NeedsMsg

-----------------------------------------------------------------------------
(* One lemma per handler.                                                  *)

LEMMA LoginTypes ==
  ASSUME TypeInv, NEW c \in Conns, LoginStep(c)
  PROVE  TypeInv'
<1> USE ChatAssumption DEF TypeInv, TypeOK, From
<1> USE DEF Pcs, NeedsUser, NeedsMsg, LoginPcs, LeavePcs, ChatPcs, GroupHoldPcs
<1>0. Host[c] \in Servers
  OBVIOUS
<1>1. pc[c] \in LoginPcs => who[c] \in Users
  BY FrameAt
<1>a. todo \in [Conns -> SUBSET Users] /\ vec \in [Conns -> Seq(Messages)]
  BY DEF HandlerTypeOK
<1>2. CASE LoginInsert(c)
  <2>1. ServerTypeOK'
    BY <1>0, <1>1, <1>2 DEF LoginInsert, ServerTypeOK
  <2>2. HandlerTypeOK' /\ Frames'
    BY <1>1, <1>2, <1>a, FrameGoto DEF LoginInsert, locals
  <2> QED BY <1>2, <2>1, <2>2, Same DEF LoginInsert
<1>3. CASE LoginSubscribe(c)
  <2>1. RedisTypeOK'
    BY <1>0, <1>1, <1>3, WriteType DEF LoginSubscribe
  <2>2. HandlerTypeOK' /\ Frames'
    BY <1>1, <1>3, <1>a, FrameGoto DEF LoginSubscribe, locals
  <2> QED BY <1>3, <2>1, <2>2, Same DEF LoginSubscribe
<1>4. CASE LoginSetOnline(c)
  <2>1. StoreTypeOK'
    BY <1>1, <1>4, UpdateStateType DEF LoginSetOnline, DbState
  <2>2. HandlerTypeOK' /\ Frames'
    BY <1>1, <1>4, <1>a, FrameGoto DEF LoginSetOnline, locals
  <2> QED BY <1>4, <2>1, <2>2, Same DEF LoginSetOnline
<1>5. CASE LoginGetState(c)
  <2>1. PICK there \in {"addUser", "markOnline", "readOffline"} : Goto(c, there)
    <3>1. key[who[c]] \in KeyState
      BY <1>1, <1>5 DEF LoginGetState, RedisTypeOK
    <3> QED BY <3>1, <1>5 DEF LoginGetState, GetState, KeyState, Goto
  <2>2. HandlerTypeOK' /\ Frames'
    BY <2>1, <1>1, <1>5, <1>a, FrameGoto DEF LoginGetState, locals
  <2> QED BY <1>5, <2>2, Same DEF LoginGetState
<1>6. CASE LoginAddUser(c) \/ LoginMarkOnline(c)
  <2>1. RedisTypeOK'
    BY <1>1, <1>6, SetStateType DEF LoginAddUser, LoginMarkOnline, AddUser, KeyState
  <2>2. HandlerTypeOK' /\ Frames'
    BY <1>1, <1>6, <1>a, FrameGoto DEF LoginAddUser, LoginMarkOnline, locals
  <2> QED BY <1>6, <2>1, <2>2, Same DEF LoginAddUser, LoginMarkOnline
<1>7. CASE LoginReadOffline(c)
  <2>1. PICK ok \in BOOLEAN :
           QueryOffline(ok) /\ vec' = [vec EXCEPT ![c] = OfflineRows(who[c], ok)]
    BY <1>7 DEF LoginReadOffline
  <2>2. StoreTypeOK'
    BY <2>1, StoreReadType
  <2>3. OfflineRows(who[c], ok) \in Seq(Messages)
    BY <1>1, <1>7, EmptySeq DEF OfflineRows, StoreTypeOK, LoginReadOffline
  <2>4. vec' \in [Conns -> Seq(Messages)]
    BY <2>1, <2>3, <1>a
  <2>5. PICK there \in {"ackLogin", "removeOffline"} : Goto(c, there)
    BY <1>7 DEF LoginReadOffline, Goto
  <2>6. HandlerTypeOK' /\ Frames'
    BY <2>4, <2>5, <1>1, <1>7, <1>a, FrameGoto DEF LoginReadOffline
  <2> QED BY <1>7, <2>2, <2>6, Same DEF LoginReadOffline
<1>8. CASE LoginRemoveOffline(c)
  <2>1. StoreTypeOK'
    BY <1>1, <1>8, RemoveOfflineType DEF LoginRemoveOffline
  <2>2. HandlerTypeOK' /\ Frames'
    BY <1>1, <1>8, <1>a, FrameGoto DEF LoginRemoveOffline, locals
  <2> QED BY <1>8, <2>1, <2>2, Same DEF LoginRemoveOffline
<1>9. CASE LoginAck(c)
  <2>1. [i \in DOMAIN vec[c] |-> Env(who[c], vec[c][i])] \in Seq(Envelope)
    <3>1. vec[c] \in Seq(Messages) /\ who[c] \in Users
      BY <1>1, <1>9, <1>a DEF LoginAck
    <3>2. /\ Len(vec[c]) \in Nat
          /\ DOMAIN vec[c] = 1 .. Len(vec[c])
          /\ \A i \in 1 .. Len(vec[c]) : vec[c][i] \in Messages
      BY <3>1, LenProperties, ElementOfSeq
    <3>3. [i \in 1 .. Len(vec[c]) |-> Env(who[c], vec[c][i])]
             \in [1 .. Len(vec[c]) -> Envelope]
      BY <3>1, <3>2 DEF Env, Envelope
    <3> QED BY <3>2, <3>3, SMT
  <2>2. ClientTypeOK'
    BY <2>1, <1>1, <1>9, SendType DEF LoginAck, ClientTypeOK
  <2>3. HandlerTypeOK' /\ Frames'
    BY <1>9, FrameReturn DEF LoginAck
  <2> QED BY <1>9, <2>2, <2>3, Same DEF LoginAck
<1> QED BY <1>2, <1>3, <1>4, <1>5, <1>6, <1>7, <1>8, <1>9 DEF LoginStep

LEMMA LeaveTypes ==
  ASSUME TypeInv, NEW c \in Conns, LeaveStep(c)
  PROVE  TypeInv'
<1> USE ChatAssumption DEF TypeInv, TypeOK, From
<1> USE DEF Pcs, NeedsUser, NeedsMsg, LoginPcs, LeavePcs, ChatPcs, GroupHoldPcs
<1>1. who[c] \in Users /\ Host[c] \in Servers
  BY FrameAt DEF LeaveStep, LeaveUnsubscribe, LeaveSetOffline, LeaveDelUser
<1>a. todo \in [Conns -> SUBSET Users] /\ vec \in [Conns -> Seq(Messages)]
  BY DEF HandlerTypeOK
<1>2. CASE LeaveUnsubscribe(c)
  <2>1. RedisTypeOK'
    BY <1>1, <1>2, WriteType DEF LeaveUnsubscribe
  <2>2. HandlerTypeOK' /\ Frames'
    BY <1>1, <1>2, <1>a, FrameGoto DEF LeaveUnsubscribe, locals
  <2> QED BY <1>2, <2>1, <2>2, Same DEF LeaveUnsubscribe
<1>3. CASE LeaveSetOffline(c)
  <2>1. StoreTypeOK'
    BY <1>1, <1>3, UpdateStateType DEF LeaveSetOffline, DbState
  <2>2. HandlerTypeOK' /\ Frames'
    BY <1>1, <1>3, <1>a, FrameGoto DEF LeaveSetOffline, locals
  <2> QED BY <1>3, <2>1, <2>2, Same DEF LeaveSetOffline
<1>4. CASE LeaveDelUser(c)
  <2>1. RedisTypeOK'
    BY <1>1, <1>4, SetStateType DEF LeaveDelUser, DelUser, KeyState
  <2>2. HandlerTypeOK' /\ Frames'
    BY <1>4, FrameReturn DEF LeaveDelUser
  <2>3. ClientTypeOK'
    BY <1>4 DEF LeaveDelUser, ClientTypeOK
  <2> QED BY <1>4, <2>1, <2>2, <2>3, Same DEF LeaveDelUser
<1> QED BY <1>2, <1>3, <1>4 DEF LeaveStep

LEMMA ChatTypes ==
  ASSUME TypeInv, NEW c \in Conns, ChatStep(c)
  PROVE  TypeInv'
<1> USE ChatAssumption DEF TypeInv, TypeOK, From
<1> USE DEF Pcs, NeedsUser, NeedsMsg, LoginPcs, LeavePcs, ChatPcs, GroupHoldPcs
<1>1. who[c] \in Users /\ msg[c] \in Messages
  BY FrameAt DEF ChatStep, ChatGetState, ChatPublish, ChatStore, ChatQuery, ChatSetOnline,
     ChatInsert, ChatSetOffline
<1>a. todo \in [Conns -> SUBSET Users] /\ vec \in [Conns -> Seq(Messages)]
  BY DEF HandlerTypeOK
<1>2. CASE ChatGetState(c)
  <2>1. PICK there \in {"chatPublish", "chatStore", "chatQuery"} : Goto(c, there)
    <3>1. key[who[c]] \in KeyState
      BY <1>1 DEF RedisTypeOK
    <3> QED BY <3>1, <1>2 DEF ChatGetState, GetState, KeyState, Goto
  <2>2. HandlerTypeOK' /\ Frames'
    BY <2>1, <1>1, <1>2, <1>a, FrameGoto DEF ChatGetState, locals
  <2> QED BY <1>2, <2>2, Same DEF ChatGetState
<1>3. CASE ChatPublish(c)
  BY <1>1, <1>3, PublishType, FrameReturn, Same DEF ChatPublish
<1>4. CASE ChatStore(c)
  <2>1. StoreTypeOK'
    BY <1>1, <1>4, InsertOfflineType DEF ChatStore
  <2> QED BY <2>1, <1>4, FrameReturn, Same DEF ChatStore
<1>5. CASE ChatQuery(c)
  <2>1. StoreTypeOK'
    BY <1>5, StoreReadType DEF ChatQuery
  <2>2. PICK there \in {"chatSetOnline", "chatInsert"} : Goto(c, there)
    BY <1>5 DEF ChatQuery, Goto
  <2>3. HandlerTypeOK' /\ Frames'
    BY <2>2, <1>1, <1>5, <1>a, FrameGoto DEF ChatQuery, locals
  <2> QED BY <1>5, <2>1, <2>3, Same DEF ChatQuery
<1>6. CASE ChatSetOnline(c)
  <2>1. RedisTypeOK'
    BY <1>1, <1>6, SetStateType DEF ChatSetOnline, KeyState
  <2>2. HandlerTypeOK' /\ Frames'
    BY <1>1, <1>6, <1>a, FrameGoto DEF ChatSetOnline, locals
  <2> QED BY <1>6, <2>1, <2>2, Same DEF ChatSetOnline
<1>7. CASE ChatInsert(c)
  <2>1. StoreTypeOK'
    BY <1>1, <1>7, InsertOfflineType DEF ChatInsert
  <2>2. HandlerTypeOK' /\ Frames'
    BY <1>1, <1>7, <1>a, FrameGoto DEF ChatInsert, locals
  <2> QED BY <1>7, <2>1, <2>2, Same DEF ChatInsert
<1>8. CASE ChatSetOffline(c)
  <2>1. RedisTypeOK'
    BY <1>1, <1>8, SetStateType DEF ChatSetOffline, KeyState
  <2> QED BY <2>1, <1>8, FrameReturn, Same DEF ChatSetOffline
<1> QED BY <1>2, <1>3, <1>4, <1>5, <1>6, <1>7, <1>8 DEF ChatStep

(* A single message, wrapped for Send.                                     *)
LEMMA Wrapped ==
  ASSUME NEW u \in Users, NEW m \in Messages
  PROVE  <<Env(u, m)>> \in Seq(Envelope)
BY DEF Env, Envelope

LEMMA ReleaseType ==
  ASSUME ServerTypeOK, NEW s \in Servers, Release(s), connMap' = connMap,
         obs' \in [Servers -> Seq(Envelope)]
  PROVE  ServerTypeOK'
BY DEF ServerTypeOK, Release

LEMMA GroupTypes ==
  ASSUME TypeInv, NEW c \in Conns, GroupStep(c)
  PROVE  TypeInv'
<1> USE ChatAssumption DEF TypeInv, TypeOK, From
<1> USE DEF Pcs, NeedsUser, NeedsMsg, LoginPcs, LeavePcs, ChatPcs, GroupHoldPcs
<1>0. Host[c] \in Servers
  OBVIOUS
<1>1. msg[c] \in Messages /\ (pc[c] \notin {"groupLock", "groupNext"} => who[c] \in Users)
  BY FrameAt DEF GroupStep, GroupLock, GroupNext, GroupDone, GroupGetState,
     GroupPublishReturn, GroupStoreReturn, GroupQuery, GroupSetState, GroupPublish, GroupStore
<1>a. todo \in [Conns -> SUBSET Users] /\ vec \in [Conns -> Seq(Messages)]
      /\ obs \in [Servers -> Seq(Envelope)]
  BY DEF HandlerTypeOK, ServerTypeOK
<1>2. CASE GroupLock(c)
  <2>1. ServerTypeOK'
    BY <1>0, <1>2 DEF GroupLock, ServerTypeOK
  <2>2. HandlerTypeOK' /\ Frames'
    BY <1>1, <1>2, <1>a, FrameGoto DEF GroupLock, locals
  <2> QED BY <1>2, <2>1, <2>2, Same DEF GroupLock
<1>3. CASE GroupNext(c)
  <2>1. PICK u \in todo[c] :
          /\ who' = [who EXCEPT ![c] = u]
          /\ todo' = [todo EXCEPT ![c] = @ \ {u}]
          /\ IF Connection(c, u) # NoConn
             THEN Send(Connection(c, u), <<Env(u, msg[c])>>) /\ UNCHANGED pc
             ELSE Goto(c, "groupGetState") /\ UNCHANGED out
    BY <1>3 DEF GroupNext
  <2>2. u \in Users
    BY <1>a
  <2>3. ClientTypeOK'
    <3>1. CASE Connection(c, u) # NoConn
      <4>1. Connection(c, u) \in Conns
        BY <3>1, <2>2, <1>0 DEF Connection, ServerTypeOK
      <4>2. out' \in [Conns -> Seq(Envelope)]
        BY <4>1, <3>1, <2>1, <2>2, <1>1, SendType, Wrapped
      <4> QED BY <4>2, <1>3 DEF GroupNext, ClientTypeOK
    <3>2. CASE Connection(c, u) = NoConn
      BY <3>2, <2>1, <1>3 DEF GroupNext, ClientTypeOK
    <3> QED BY <3>1, <3>2
  <2>4. HandlerTypeOK'
    BY <2>1, <2>2, <1>3 DEF GroupNext, HandlerTypeOK, Goto
  <2>5. Frames'
    <3> SUFFICES ASSUME NEW d \in Conns
                 PROVE  /\ pc'[d] \in NeedsUser => who'[d] \in Users
                        /\ pc'[d] \in NeedsMsg => msg'[d] \in Messages
      BY DEF Frames
    <3>1. CASE d = c
      BY <3>1, <2>1, <2>2, <1>1, <1>3 DEF GroupNext, HandlerTypeOK
    <3>2. CASE d # c
      <4>1. pc'[d] = pc[d] /\ who'[d] = who[d] /\ msg' = msg
        BY <3>2, <2>1, <1>3 DEF GroupNext, HandlerTypeOK, Goto
      <4> QED BY <4>1, FrameAt
    <3> QED BY <3>1, <3>2
  <2> QED BY <1>3, <2>3, <2>4, <2>5, Same DEF GroupNext
<1>4. CASE GroupDone(c)
  <2>1. ServerTypeOK'
    BY <1>0, <1>4, <1>a, ReleaseType DEF GroupDone
  <2> QED BY <2>1, <1>4, FrameReturn, Same DEF GroupDone
<1>5. CASE GroupGetState(c)
  <2>1. PICK there \in {"groupPublishReturn", "groupStoreReturn", "groupQuery"} : Goto(c, there)
    <3>1. key[who[c]] \in KeyState
      BY <1>1, <1>5 DEF RedisTypeOK, GroupGetState
    <3> QED BY <3>1, <1>5 DEF GroupGetState, GetState, KeyState, Goto
  <2>2. HandlerTypeOK' /\ Frames'
    BY <2>1, <1>1, <1>5, <1>a, FrameGoto DEF GroupGetState, locals
  <2> QED BY <1>5, <2>2, Same DEF GroupGetState
<1>6. CASE GroupPublishReturn(c)
  <2>1. ServerTypeOK'
    BY <1>0, <1>6, <1>a, ReleaseType DEF GroupPublishReturn
  <2>2. RedisTypeOK'
    BY <1>1, <1>6, PublishType DEF GroupPublishReturn
  <2> QED BY <2>1, <2>2, <1>6, FrameReturn, Same DEF GroupPublishReturn
<1>7. CASE GroupStoreReturn(c)
  <2>1. ServerTypeOK'
    BY <1>0, <1>7, <1>a, ReleaseType DEF GroupStoreReturn
  <2>2. StoreTypeOK'
    BY <1>1, <1>7, InsertOfflineType DEF GroupStoreReturn
  <2> QED BY <2>1, <2>2, <1>7, FrameReturn, Same DEF GroupStoreReturn
<1>8. CASE GroupQuery(c)
  <2>1. StoreTypeOK'
    BY <1>8, StoreReadType DEF GroupQuery
  <2>2. PICK there \in {"groupSetOnline", "groupSetOffline"} : Goto(c, there)
    BY <1>8 DEF GroupQuery, Goto
  <2>3. HandlerTypeOK' /\ Frames'
    BY <2>2, <1>1, <1>8, <1>a, FrameGoto DEF GroupQuery, locals
  <2> QED BY <1>8, <2>1, <2>3, Same DEF GroupQuery
<1>9. CASE GroupSetState(c)
  <2>1. RedisTypeOK'
    BY <1>1, <1>9, SetStateType DEF GroupSetState, KeyState
  <2>2. HandlerTypeOK' /\ Frames'
    BY <1>1, <1>9, <1>a, FrameGoto DEF GroupSetState, locals
  <2> QED BY <1>9, <2>1, <2>2, Same DEF GroupSetState
<1>10. CASE GroupPublish(c)
  <2>1. RedisTypeOK'
    BY <1>1, <1>10, PublishType DEF GroupPublish
  <2>2. HandlerTypeOK' /\ Frames'
    BY <1>1, <1>10, <1>a, FrameGoto DEF GroupPublish, locals
  <2> QED BY <1>10, <2>1, <2>2, Same DEF GroupPublish
<1>11. CASE GroupStore(c)
  <2>1. StoreTypeOK'
    BY <1>1, <1>11, InsertOfflineType DEF GroupStore
  <2>2. HandlerTypeOK' /\ Frames'
    BY <1>1, <1>11, <1>a, FrameGoto DEF GroupStore, locals
  <2> QED BY <1>11, <2>1, <2>2, Same DEF GroupStore
<1> QED
  BY <1>2, <1>3, <1>4, <1>5, <1>6, <1>7, <1>8, <1>9, <1>10, <1>11 DEF GroupStep

LEMMA ObserverTypes ==
  ASSUME TypeInv, NEW s \in Servers, ObserverStep(s)
  PROVE  TypeInv'
<1> USE DEF TypeInv, TypeOK
<1>1. CASE ObserverDeliver(s)
  <2>1. RedisTypeOK' /\ NextReply(s) \in Envelope
    BY <1>1, ConsumeType DEF ObserverDeliver
  <2>2. connMap[s][NextReply(s).to] \in Conns
    BY <2>1, <1>1 DEF ObserverDeliver, ServerTypeOK, Envelope
  <2>3. <<NextReply(s)>> \in Seq(Envelope)
    BY <2>1
  <2>4. out' \in [Conns -> Seq(Envelope)]
    BY <2>2, <2>3, <1>1, SendType DEF ObserverDeliver
  <2>5. ClientTypeOK'
    BY <2>4, <1>1 DEF ObserverDeliver, ClientTypeOK
  <2>6. HandlerTypeOK' /\ Frames'
    BY <1>1 DEF ObserverDeliver, HandlerTypeOK, Frames, locals
  <2> QED BY <2>1, <2>5, <2>6, <1>1, Same DEF ObserverDeliver
<1>2. CASE ObserverMiss(s)
  <2>1. RedisTypeOK' /\ NextReply(s) \in Envelope
    BY <1>2, ConsumeType DEF ObserverMiss
  <2>2. <<NextReply(s)>> \in Seq(Envelope)
    BY <2>1
  <2>3. ServerTypeOK'
    BY <2>2, <1>2 DEF ObserverMiss, ServerTypeOK
  <2>4. HandlerTypeOK' /\ Frames'
    BY <1>2 DEF ObserverMiss, HandlerTypeOK, Frames, locals
  <2> QED BY <2>1, <2>3, <2>4, <1>2, Same DEF ObserverMiss
<1>3. CASE ObserverStore(s)
  <2>1. Head(obs[s]) \in Envelope
    <3>1. obs[s] \in Seq(Envelope) /\ obs[s] # <<>>
      BY <1>3 DEF ObserverStore, ServerTypeOK
    <3> QED BY <3>1, HeadTailProperties
  <2>2. StoreTypeOK'
    BY <2>1, <1>3, InsertOfflineType DEF ObserverStore, Envelope
  <2>3. obs' \in [Servers -> Seq(Envelope)]
    BY <1>3, EmptySeq DEF ObserverStore, ServerTypeOK
  <2>4. ServerTypeOK'
    BY <2>3, <1>3, ReleaseType DEF ObserverStore
  <2>5. HandlerTypeOK' /\ Frames'
    BY <1>3 DEF ObserverStore, HandlerTypeOK, Frames, locals
  <2> QED BY <2>2, <2>4, <2>5, <1>3, Same DEF ObserverStore
<1> QED BY <1>1, <1>2, <1>3 DEF ObserverStep

(* A request that starts a handler: its frame is set as it leaves "idle".  *)
LEMMA FrameStart ==
  ASSUME HandlerTypeOK, Frames, NEW c \in Conns, NEW there \in Pcs, Goto(c, there),
         who' \in [Conns -> Users \cup {NoUser}],
         msg' \in [Conns -> Messages \cup {NoMsg}],
         todo' \in [Conns -> SUBSET Users], vec' = vec,
         \A d \in Conns \ {c} : who'[d] = who[d] /\ msg'[d] = msg[d],
         there \in NeedsUser => who'[c] \in Users,
         there \in NeedsMsg => msg'[c] \in Messages
  PROVE  HandlerTypeOK' /\ Frames'
<1>1. HandlerTypeOK'
  BY DEF HandlerTypeOK, Goto
<1>2. Frames'
  <2> SUFFICES ASSUME NEW d \in Conns
               PROVE  /\ pc'[d] \in NeedsUser => who'[d] \in Users
                      /\ pc'[d] \in NeedsMsg => msg'[d] \in Messages
    BY DEF Frames, NeedsUser, NeedsMsg
  <2>1. CASE d = c BY <2>1 DEF HandlerTypeOK, Goto
  <2>2. CASE d # c
    <3>1. pc'[d] = pc[d] /\ who'[d] = who[d] /\ msg'[d] = msg[d]
      BY <2>2 DEF HandlerTypeOK, Goto
    <3> QED BY <3>1, FrameAt
  <2> QED BY <2>1, <2>2
<1> QED BY <1>1, <1>2

LEMMA RequestTypes ==
  ASSUME TypeInv, NEW c \in Conns, Request(c)
  PROVE  TypeInv'
<1> USE ChatAssumption DEF TypeInv, TypeOK, From, Receives
<1> USE DEF Pcs, NeedsUser, NeedsMsg, LoginPcs, LeavePcs, ChatPcs, GroupHoldPcs
<1>0. Host[c] \in Servers
  OBVIOUS
<1>a. /\ who \in [Conns -> Users \cup {NoUser}] /\ msg \in [Conns -> Messages \cup {NoMsg}]
      /\ todo \in [Conns -> SUBSET Users] /\ vec \in [Conns -> Seq(Messages)]
  BY DEF HandlerTypeOK
<1>1. ASSUME NEW u \in Users, NEW pwd \in Passwords, Login(c, u, pwd)
      PROVE  TypeInv'
  <2>1. StoreTypeOK'
    BY <1>1, StoreReadType DEF Login
  <2>2. CASE Goto(c, "insert") /\ who' = [who EXCEPT ![c] = u]
    <3>1. HandlerTypeOK' /\ Frames'
      BY <2>2, <1>1, <1>a, FrameStart DEF Login
    <3> QED BY <2>1, <3>1, <1>1, Same DEF Login
  <2>3. CASE UNCHANGED <<pc, who>>
    <3>1. HandlerTypeOK' /\ Frames'
      BY <2>3, <1>1 DEF Login, HandlerTypeOK, Frames
    <3> QED BY <2>1, <3>1, <1>1, Same DEF Login
  <2> QED BY <2>2, <2>3, <1>1 DEF Login
<1>2. CASE Loginout(c)
  <2>1. sess[c] \in Users
    BY <1>2 DEF Loginout, ClientTypeOK
  <2>2. ServerTypeOK'
    BY <2>1, <1>0, <1>2 DEF Loginout, ServerTypeOK, Erase
  <2>3. ClientTypeOK'
    BY <1>2 DEF Loginout, ClientTypeOK
  <2>4. HandlerTypeOK' /\ Frames'
    BY <2>1, <1>2, <1>a, FrameStart DEF Loginout
  <2> QED BY <2>2, <2>3, <2>4, <1>2, Same DEF Loginout
<1>3. ASSUME NEW u \in Users, NEW m \in Chats, OneChat(c, u, m)
      PROVE  TypeInv'
  <2>1. m \in Messages /\ sent' \subseteq Messages
    BY <1>3 DEF OneChat, ClientTypeOK
  <2>2. CASE Connection(c, u) # NoConn
    <3>1. Connection(c, u) \in Conns
      BY <2>2, <1>0 DEF Connection, ServerTypeOK
    <3>2. out' \in [Conns -> Seq(Envelope)]
      BY <3>1, <2>1, <2>2, <1>3, SendType, Wrapped DEF OneChat
    <3>3. ClientTypeOK'
      BY <3>2, <2>1, <1>3 DEF OneChat, ClientTypeOK
    <3>4. HandlerTypeOK' /\ Frames'
      BY <2>2, <1>3 DEF OneChat, HandlerTypeOK, Frames
    <3> QED BY <3>3, <3>4, <1>3, Same DEF OneChat
  <2>3. CASE Connection(c, u) = NoConn
    <3>1. ClientTypeOK'
      BY <2>1, <2>3, <1>3 DEF OneChat, ClientTypeOK
    <3>2. HandlerTypeOK' /\ Frames'
      <4>1. /\ Goto(c, "chatGetState")
            /\ who' = [who EXCEPT ![c] = u] /\ msg' = [msg EXCEPT ![c] = m]
            /\ todo' = todo /\ vec' = vec
        BY <2>3, <1>3 DEF OneChat
      <4>2. /\ who' \in [Conns -> Users \cup {NoUser}] /\ who'[c] = u
            /\ msg' \in [Conns -> Messages \cup {NoMsg}] /\ msg'[c] = m
            /\ \A d \in Conns \ {c} : who'[d] = who[d] /\ msg'[d] = msg[d]
        BY <4>1, <2>1, <1>a
      <4> QED BY <4>1, <4>2, <2>1, <1>a, FrameStart
    <3> QED BY <3>1, <3>2, <1>3, Same DEF OneChat
  <2> QED BY <2>2, <2>3
<1>4. ASSUME NEW m \in Posts, GroupChat(c, m)
      PROVE  TypeInv'
  <2>1. StoreTypeOK'
    BY <1>4, StoreReadType DEF GroupChat
  <2>2. m \in Messages /\ sent' \subseteq Messages
    BY <1>4 DEF GroupChat, ClientTypeOK
  <2>3. ClientTypeOK'
    BY <2>2, <1>4 DEF GroupChat, ClientTypeOK
  <2>4. todo' \in [Conns -> SUBSET Users]
    BY <1>4, <1>a DEF GroupChat
  <2>5. HandlerTypeOK' /\ Frames'
    BY <2>2, <2>4, <1>4, <1>a, FrameStart DEF GroupChat
  <2> QED BY <2>1, <2>3, <2>5, <1>4, Same DEF GroupChat
<1> QED BY <1>1, <1>2, <1>3, <1>4 DEF Request

LEMMA NetworkTypes ==
  ASSUME TypeInv, NEW c \in Conns, Connect(c) \/ Disconnect(c) \/ ClientCloseException(c)
  PROVE  TypeInv'
<1> USE ChatAssumption DEF TypeInv, TypeOK
<1>1. CASE Connect(c) \/ Disconnect(c)
  <2>1. ClientTypeOK'
    BY <1>1 DEF Connect, Disconnect, ClientTypeOK
  <2>2. HandlerTypeOK' /\ Frames'
    BY <1>1 DEF Connect, Disconnect, HandlerTypeOK, Frames, locals
  <2> QED BY <2>1, <2>2, <1>1, Same DEF Connect, Disconnect
<1>2. CASE ClientCloseException(c)
  <2>1. PICK u \in ClosedUsers(c) :
          /\ who' = [who EXCEPT ![c] = u]
          /\ IF u \in EntriesOf(c) THEN Erase(Host[c], u) ELSE UNCHANGED connMap
    BY <1>2 DEF ClientCloseException
  <2>2. u \in Users /\ Host[c] \in Servers
    BY DefaultIdAssumption DEF ClosedUsers, EntriesOf
  <2>3. ServerTypeOK'
    <3>1. lock' = lock /\ obs' = obs
      BY <1>2 DEF ClientCloseException
    <3>2. CASE u \in EntriesOf(c)
      <4>1. connMap' = [connMap EXCEPT ![Host[c]][u] = NoConn]
        BY <3>2, <2>1 DEF Erase
      <4> QED BY <4>1, <3>1, <2>2 DEF ServerTypeOK
    <3>3. CASE u \notin EntriesOf(c)
      <4>1. connMap' = connMap
        BY <3>3, <2>1
      <4> QED BY <4>1, <3>1 DEF ServerTypeOK
    <3> QED BY <3>2, <3>3
  <2>4. ClientTypeOK'
    BY <1>2 DEF ClientCloseException, ClientTypeOK
  <2>5. HandlerTypeOK' /\ Frames'
    <3>1. "unsubscribe" \in Pcs /\ "unsubscribe" \notin NeedsMsg
      BY DEF Pcs, NeedsMsg, LoginPcs, LeavePcs, ChatPcs, GroupHoldPcs
    <3>2. who' \in [Conns -> Users \cup {NoUser}] /\ msg' = msg /\ todo' = todo /\ vec' = vec
      BY <2>1, <2>2, <1>2 DEF ClientCloseException, HandlerTypeOK
    <3> QED BY <3>1, <3>2, <2>1, <2>2, <1>2, FrameStart DEF ClientCloseException, HandlerTypeOK
  <2> QED BY <2>3, <2>4, <2>5, <1>2, Same DEF ClientCloseException
<1> QED BY <1>1, <1>2

LEMMA StepTypes == TypeInv /\ [Next]_vars => TypeInv'
<1> SUFFICES ASSUME TypeInv, [Next]_vars PROVE TypeInv'
  OBVIOUS
<1>1. ASSUME NEW c \in Conns, HandlerStep(c) PROVE TypeInv'
  BY <1>1, LoginTypes, LeaveTypes, ChatTypes, GroupTypes DEF HandlerStep
<1>2. ASSUME NEW s \in Servers, BusStep(s) PROVE TypeInv'
  <2>1. RedisTypeOK'
    BY <1>2, ExecuteType DEF BusStep, TypeInv, TypeOK
  <2>2. HandlerTypeOK' /\ Frames'
    BY <1>2 DEF BusStep, TypeInv, TypeOK, HandlerTypeOK, Frames, locals
  <2> QED BY <2>1, <2>2, <1>2, Same DEF BusStep, TypeInv, TypeOK
<1>3. CASE UNCHANGED vars
  <2>1. HandlerTypeOK' /\ Frames'
    BY <1>3 DEF vars, TypeInv, TypeOK, HandlerTypeOK, Frames, locals
  <2> QED BY <2>1, <1>3, Same DEF vars, TypeInv, TypeOK
<1> QED
  BY <1>1, <1>2, <1>3, RequestTypes, NetworkTypes, ObserverTypes DEF Next

LEMMA TypeInvariance == Spec => []TypeInv
BY InitTypes, StepTypes, PTL DEF Spec

(* Every variable keeps its type, and a handler that uses its user id or   *)
(* message has one, whatever the cluster, the workload and the failures.   *)
THEOREM ChatTypeOK == Spec => []TypeOK
<1>1. TypeInv => TypeOK
  BY DEF TypeInv
<1> QED BY <1>1, TypeInvariance, PTL

-----------------------------------------------------------------------------
(* Sessions.                                                               *)

SessionPcs == LoginPcs \cup LeavePcs

(* A connection is in login or on its way out only without a session, and  *)
(* it is nobody's once it is closed.                                       *)
SessionShape ==
    \A c \in Conns :
        /\ pc[c] \in SessionPcs => sess[c] = NoUser
        /\ net[c] = "none" => sess[c] = NoUser /\ pc[c] = "idle"
        /\ net[c] = "closing" => pc[c] \in LeavePcs

EntryInv == TypeInv /\ SessionShape /\ EntryBelongsToSession

-----------------------------------------------------------------------------
(* Steps that leave sessions alone.                                        *)

(* Only connection c moves.                                                *)
Moves(c) ==
    \A d \in Conns \ {c} :
        pc'[d] = pc[d] /\ who'[d] = who[d] /\ sess'[d] = sess[d] /\ net'[d] = net[d]

(* c sends messages: its handler is in none of the session handlers before *)
(* or after the step.                                                      *)
Neutral(c) ==
    /\ Moves(c)
    /\ pc[c] \notin SessionPcs /\ pc'[c] \notin SessionPcs
    /\ net[c] # "none"
    /\ sess' = sess /\ net' = net
    /\ connMap' = connMap /\ dbState' = dbState

(* No connection's session or handler changes.                             *)
Unmoved ==
    /\ pc' = pc /\ who' = who /\ sess' = sess
    /\ connMap' = connMap /\ dbState' = dbState


LEMMA ChatNeutral ==
  ASSUME EntryInv, NEW c \in Conns, ChatStep(c)
  PROVE  Neutral(c)
<1> USE DEF EntryInv, TypeInv, TypeOK, HandlerTypeOK, SessionShape, From, Goto, Return, locals,
           SessionPcs, LoginPcs, LeavePcs, ChatPcs, storeVars, serverVars, clientVars
<1>1. CASE ChatGetState(c)
  <2>1. pc'[c] \in ChatPcs
    <3>1. key[who[c]] \in KeyState
      BY <1>1, FrameAt DEF ChatGetState, RedisTypeOK, NeedsUser
    <3> QED BY <3>1, <1>1 DEF ChatGetState, GetState, KeyState
  <2> QED BY <2>1, <1>1 DEF ChatGetState, Neutral, Moves
<1>2. CASE ChatPublish(c) BY <1>2 DEF ChatPublish, Neutral, Moves
<1>3. CASE ChatStore(c)
  <2>1. dbState' = dbState BY <1>3 DEF ChatStore, InsertOffline
  <2> QED BY <2>1, <1>3 DEF ChatStore, Neutral, Moves
<1>4. CASE ChatQuery(c)
  <2>1. dbState' = dbState BY <1>4 DEF ChatQuery, QueryUser
  <2> QED BY <2>1, <1>4 DEF ChatQuery, Neutral, Moves
<1>5. CASE ChatSetOnline(c) BY <1>5 DEF ChatSetOnline, Neutral, Moves
<1>6. CASE ChatInsert(c)
  <2>1. dbState' = dbState BY <1>6 DEF ChatInsert, InsertOffline
  <2> QED BY <2>1, <1>6 DEF ChatInsert, Neutral, Moves
<1>7. CASE ChatSetOffline(c) BY <1>7 DEF ChatSetOffline, Neutral, Moves
<1> QED BY <1>1, <1>2, <1>3, <1>4, <1>5, <1>6, <1>7 DEF ChatStep

LEMMA GroupNeutral ==
  ASSUME EntryInv, NEW c \in Conns, GroupStep(c)
  PROVE  Neutral(c)
<1> USE DEF EntryInv, TypeInv, TypeOK, HandlerTypeOK, SessionShape, From, Goto, Return, locals,
           SessionPcs, LoginPcs, LeavePcs, GroupHoldPcs, storeVars, serverVars, clientVars
<1>1. CASE GroupGetState(c)
  <2>1. pc'[c] \in GroupHoldPcs
    <3>1. key[who[c]] \in KeyState
      BY <1>1, FrameAt DEF GroupGetState, RedisTypeOK, NeedsUser
    <3> QED BY <3>1, <1>1 DEF GroupGetState, GetState, KeyState
  <2> QED BY <2>1, <1>1 DEF GroupGetState, Neutral, Moves
<1>2. CASE GroupLock(c) BY <1>2 DEF GroupLock, Neutral, Moves
<1>3. CASE GroupNext(c) BY <1>3 DEF GroupNext, Neutral, Moves
<1>4. CASE GroupDone(c) BY <1>4 DEF GroupDone, Neutral, Moves
<1>5. CASE GroupPublishReturn(c) BY <1>5 DEF GroupPublishReturn, Neutral, Moves
<1>6. CASE GroupStoreReturn(c)
  <2>1. dbState' = dbState BY <1>6 DEF GroupStoreReturn, InsertOffline
  <2> QED BY <2>1, <1>6 DEF GroupStoreReturn, Neutral, Moves
<1>7. CASE GroupQuery(c)
  <2>1. dbState' = dbState BY <1>7 DEF GroupQuery, QueryUser
  <2> QED BY <2>1, <1>7 DEF GroupQuery, Neutral, Moves
<1>8. CASE GroupSetState(c) BY <1>8 DEF GroupSetState, Neutral, Moves
<1>9. CASE GroupPublish(c) BY <1>9 DEF GroupPublish, Neutral, Moves
<1>10. CASE GroupStore(c)
  <2>1. dbState' = dbState BY <1>10 DEF GroupStore, InsertOffline
  <2> QED BY <2>1, <1>10 DEF GroupStore, Neutral, Moves
<1> QED BY <1>1, <1>2, <1>3, <1>4, <1>5, <1>6, <1>7, <1>8, <1>9, <1>10 DEF GroupStep

LEMMA SendNeutral ==
  ASSUME EntryInv, NEW c \in Conns,
         \/ \E u \in Users, m \in Chats : OneChat(c, u, m)
         \/ \E m \in Posts : GroupChat(c, m)
  PROVE  Neutral(c)
<1> USE DEF EntryInv, TypeInv, TypeOK, HandlerTypeOK, From, Goto, Receives,
           SessionPcs, LoginPcs, LeavePcs, storeVars, serverVars
<1>1. ASSUME NEW u \in Users, NEW m \in Chats, OneChat(c, u, m) PROVE Neutral(c)
  <2>1. CASE Connection(c, u) # NoConn BY <2>1, <1>1 DEF OneChat, Neutral, Moves
  <2>2. CASE Connection(c, u) = NoConn BY <2>2, <1>1 DEF OneChat, Neutral, Moves
  <2> QED BY <2>1, <2>2
<1>2. ASSUME NEW m \in Posts, GroupChat(c, m) PROVE Neutral(c)
  <2>1. dbState' = dbState BY <1>2 DEF GroupChat, QueryUser
  <2> QED BY <2>1, <1>2 DEF GroupChat, Neutral, Moves
<1> QED BY <1>1, <1>2

LEMMA OthersUnmoved ==
  ASSUME NEW s \in Servers, ObserverStep(s) \/ BusStep(s)
  PROVE  Unmoved /\ net' = net
<1> USE DEF Unmoved, locals, storeVars, serverVars, clientVars
<1>1. CASE ObserverDeliver(s) BY <1>1 DEF ObserverDeliver
<1>2. CASE ObserverMiss(s) BY <1>2 DEF ObserverMiss
<1>3. CASE ObserverStore(s) BY <1>3 DEF ObserverStore, InsertOffline
<1>4. CASE BusStep(s) BY <1>4 DEF BusStep
<1> QED BY <1>1, <1>2, <1>3, <1>4 DEF ObserverStep

-----------------------------------------------------------------------------
(* EntryInv is inductive.                                                  *)

LEMMA EntryOf ==
  ASSUME EntryInv, NEW s \in Servers, NEW u \in Users, connMap[s][u] # NoConn
  PROVE  /\ connMap[s][u] \in Conns
         /\ Host[connMap[s][u]] = s
         /\ net[connMap[s][u]] # "none"
         /\ Entered(connMap[s][u], u)
BY DEF EntryInv, EntryBelongsToSession, TypeInv, TypeOK, ServerTypeOK

LEMMA EntryNeutral ==
  ASSUME EntryInv, NEW c \in Conns, Neutral(c)
  PROVE  SessionShape' /\ EntryBelongsToSession'
<1>1. SessionShape'
  BY DEF EntryInv, SessionShape, Neutral, Moves, SessionPcs
<1>2. \A d \in Conns, u \in Users : Entered(d, u) => Entered(d, u)'
  BY DEF Entered, Neutral, Moves, SessionPcs
<1>3. EntryBelongsToSession'
  BY <1>2, EntryOf DEF EntryBelongsToSession, Neutral
<1> QED BY <1>1, <1>3

LEMMA EntryUnmoved ==
  ASSUME EntryInv, Unmoved,
         \/ net' = net
         \/ \E c \in Conns : Connect(c) \/ Disconnect(c)
  PROVE  SessionShape' /\ EntryBelongsToSession'
<1>1. \A d \in Conns : /\ net[d] # "none" => net'[d] # "none"
                       /\ net'[d] = "none" => net[d] = "none"
                       /\ net'[d] = "closing" => net[d] = "closing"
  BY DEF Connect, Disconnect, EntryInv, TypeInv, TypeOK, ClientTypeOK
<1>2. SessionShape'
  BY <1>1 DEF EntryInv, SessionShape, Unmoved
<1>3. \A d \in Conns, u \in Users : Entered(d, u)' <=> Entered(d, u)
  BY DEF Entered, Unmoved
<1>4. EntryBelongsToSession'
  BY <1>1, <1>3, EntryOf DEF EntryBelongsToSession, Unmoved
<1> QED BY <1>2, <1>4

LEMMA EntryByConn ==
  ASSUME TypeInv',
         \A s \in Servers, u \in Users, d \in Conns :
            connMap'[s][u] = d => Host[d] = s /\ net'[d] # "none" /\ Entered(d, u)'
  PROVE  EntryBelongsToSession'
<1>1. connMap' \in [Servers -> [Users -> Conns \cup {NoConn}]]
  BY DEF TypeInv, TypeOK, ServerTypeOK
<1>2. ASSUME NEW s \in Servers, NEW u \in Users, connMap'[s][u] # NoConn
      PROVE  connMap'[s][u] \in Conns
  BY <1>1, <1>2
<1> QED BY <1>2 DEF EntryBelongsToSession, Entered

(* Where a login step leads, and what it changes besides.                  *)
LEMMA LoginMoves ==
  ASSUME EntryInv, NEW c \in Conns, LoginStep(c)
  PROVE  /\ Moves(c) /\ net' = net
         /\ pc[c] \in LoginPcs /\ sess[c] = NoUser /\ who[c] \in Users
         /\ \/ pc'[c] \in LoginPcs \ {"insert"} /\ who'[c] = who[c] /\ sess' = sess
            \/ pc[c] = "ackLogin" /\ pc'[c] = "idle" /\ sess'[c] = who[c] /\ who'[c] = NoUser
<1> USE DEF EntryInv, TypeInv, TypeOK, HandlerTypeOK, ClientTypeOK, From, Goto, locals,
            clientVars, serverVars
<1>1. pc[c] \in LoginPcs
  BY DEF LoginStep, LoginInsert, LoginSubscribe, LoginSetOnline, LoginGetState, LoginAddUser,
     LoginMarkOnline, LoginReadOffline, LoginRemoveOffline, LoginAck, LoginPcs
<1>2. sess[c] = NoUser /\ who[c] \in Users
  BY <1>1, FrameAt DEF SessionShape, SessionPcs, NeedsUser
<1>3. Moves(c) /\ net' = net
  <2>1. CASE LoginInsert(c) BY <2>1 DEF LoginInsert, Moves
  <2>2. CASE LoginSubscribe(c) BY <2>2 DEF LoginSubscribe, Moves
  <2>3. CASE LoginSetOnline(c) BY <2>3 DEF LoginSetOnline, Moves
  <2>4. CASE LoginGetState(c) BY <2>4 DEF LoginGetState, Moves
  <2>5. CASE LoginAddUser(c) \/ LoginMarkOnline(c)
    BY <2>5 DEF LoginAddUser, LoginMarkOnline, Moves
  <2>6. CASE LoginReadOffline(c) BY <2>6 DEF LoginReadOffline, Moves
  <2>7. CASE LoginRemoveOffline(c) BY <2>7 DEF LoginRemoveOffline, Moves
  <2>8. CASE LoginAck(c) BY <2>8 DEF LoginAck, Return, Moves
  <2> QED BY <2>1, <2>2, <2>3, <2>4, <2>5, <2>6, <2>7, <2>8 DEF LoginStep
<1>4. \/ pc'[c] \in LoginPcs \ {"insert"} /\ who'[c] = who[c] /\ sess' = sess
      \/ pc[c] = "ackLogin" /\ pc'[c] = "idle" /\ sess'[c] = who[c] /\ who'[c] = NoUser
  <2>1. CASE LoginInsert(c) BY <2>1 DEF LoginInsert, LoginPcs
  <2>2. CASE LoginSubscribe(c) BY <2>2 DEF LoginSubscribe, LoginPcs
  <2>3. CASE LoginSetOnline(c) BY <2>3 DEF LoginSetOnline, LoginPcs
  <2>4. CASE LoginGetState(c)
    <3>1. key[who[c]] \in KeyState
      BY <1>2 DEF RedisTypeOK
    <3> QED BY <3>1, <2>4 DEF LoginGetState, LoginPcs, GetState, KeyState
  <2>5. CASE LoginAddUser(c) \/ LoginMarkOnline(c)
    BY <2>5 DEF LoginAddUser, LoginMarkOnline, LoginPcs
  <2>6. CASE LoginReadOffline(c) BY <2>6 DEF LoginReadOffline, LoginPcs
  <2>7. CASE LoginRemoveOffline(c) BY <2>7 DEF LoginRemoveOffline, LoginPcs
  <2>8. CASE LoginAck(c) BY <2>8 DEF LoginAck, Return
  <2> QED BY <2>1, <2>2, <2>3, <2>4, <2>5, <2>6, <2>7, <2>8 DEF LoginStep
<1> QED BY <1>1, <1>2, <1>3, <1>4

(* Login moves through its program counters with the same user id.         *)
LEMMA EntryLogin ==
  ASSUME EntryInv, TypeInv', NEW c \in Conns, LoginStep(c)
  PROVE  SessionShape' /\ EntryBelongsToSession'
<1> USE DEF EntryInv, TypeInv, TypeOK, HandlerTypeOK, ClientTypeOK, From, Goto, locals,
            clientVars, serverVars
<1>0. /\ pc[c] \in LoginPcs /\ sess[c] = NoUser /\ net[c] # "none" /\ net[c] # "closing"
      /\ who[c] \in Users /\ Host[c] \in Servers
  <2>1. pc[c] \in LoginPcs
    BY DEF LoginStep, LoginInsert, LoginSubscribe, LoginSetOnline, LoginGetState, LoginAddUser,
       LoginMarkOnline, LoginReadOffline, LoginRemoveOffline, LoginAck, LoginPcs
  <2>2. pc[c] # "idle" /\ pc[c] \notin LeavePcs
    BY <2>1 DEF LoginPcs, LeavePcs
  <2> QED BY <2>1, <2>2, FrameAt, ChatAssumption DEF SessionShape, SessionPcs, NeedsUser
<1>1. Moves(c) /\ net' = net
  BY LoginMoves
<1>2. \/ /\ pc'[c] \in LoginPcs \ {"insert"} /\ who'[c] = who[c] /\ sess' = sess
      \/ /\ pc[c] = "ackLogin" /\ pc'[c] = "idle" /\ sess'[c] = who[c]
  BY LoginMoves
<1>3. SessionShape'
  BY <1>0, <1>1, <1>2 DEF SessionShape, Moves, SessionPcs, LoginPcs, LeavePcs
<1>4. \A d \in Conns, u \in Users : Entered(d, u) => Entered(d, u)'
  <2> SUFFICES ASSUME NEW d \in Conns, NEW u \in Users, Entered(d, u)
               PROVE  Entered(d, u)'
    OBVIOUS
  <2>1. CASE d # c BY <2>1, <1>1 DEF Entered, Moves
  <2>2. CASE d = c
    <3>1. u # NoUser
      BY ChatAssumption
    <3> QED BY <3>1, <2>2, <1>0, <1>2 DEF Entered
  <2> QED BY <2>1, <2>2
<1>5. \/ connMap' = connMap
      \/ LoginInsert(c) /\ connMap' = [connMap EXCEPT ![Host[c]][who[c]] = c]
  <2>1. CASE LoginInsert(c) BY <2>1 DEF LoginInsert
  <2>2. CASE LoginSubscribe(c) BY <2>2 DEF LoginSubscribe
  <2>3. CASE LoginSetOnline(c) BY <2>3 DEF LoginSetOnline
  <2>4. CASE LoginGetState(c) BY <2>4 DEF LoginGetState
  <2>5. CASE LoginAddUser(c) \/ LoginMarkOnline(c)
    BY <2>5 DEF LoginAddUser, LoginMarkOnline
  <2>6. CASE LoginReadOffline(c) BY <2>6 DEF LoginReadOffline
  <2>7. CASE LoginRemoveOffline(c) BY <2>7 DEF LoginRemoveOffline
  <2>8. CASE LoginAck(c) BY <2>8 DEF LoginAck
  <2> QED BY <2>1, <2>2, <2>3, <2>4, <2>5, <2>6, <2>7, <2>8 DEF LoginStep
<1>6. CASE connMap' = connMap
  <2>1. EntryBelongsToSession'
    BY <1>1, <1>4, <1>6, EntryOf DEF EntryBelongsToSession
  <2> QED BY <2>1, <1>3
<1>7. CASE LoginInsert(c) /\ connMap' = [connMap EXCEPT ![Host[c]][who[c]] = c]
  <2>1. pc'[c] = "subscribe" /\ who'[c] = who[c]
    BY <1>7, <1>0 DEF LoginInsert
  <2>2. ASSUME NEW s \in Servers, NEW u \in Users, NEW d \in Conns, connMap'[s][u] = d
        PROVE  Host[d] = s /\ net'[d] # "none" /\ Entered(d, u)'
    <3>1. CASE s = Host[c] /\ u = who[c]
      <4>1. d = c
        BY <3>1, <2>2, <1>7, <1>0 DEF ServerTypeOK
      <4>2. Entered(c, u)'
        BY <2>1, <3>1 DEF Entered, LoginPcs
      <4> QED BY <4>1, <4>2, <3>1, <1>0, <1>1
    <3>2. CASE ~(s = Host[c] /\ u = who[c])
      <4>1. connMap[s][u] = d
        BY <3>2, <2>2, <1>7, <1>0 DEF ServerTypeOK
      <4>2. connMap[s][u] # NoConn
        BY <4>1, ChatAssumption
      <4> QED BY <4>1, <4>2, <1>1, <1>4, EntryOf
    <3> QED BY <3>1, <3>2
  <2>3. EntryBelongsToSession'
    BY <2>2, EntryByConn
  <2> QED BY <2>3, <1>3
<1> QED BY <1>5, <1>6, <1>7

(* A connection without a session that is not in login has no entry.       *)
LEMMA NoEntries ==
  ASSUME EntryInv, NEW c \in Conns, sess[c] = NoUser, pc[c] \notin LoginPcs \ {"insert"},
         NEW s \in Servers, NEW u \in Users
  PROVE  connMap[s][u] # c
<1>1. ~ Entered(c, u)
  BY ChatAssumption DEF Entered
<1>2. c # NoConn
  BY ChatAssumption
<1> QED BY <1>1, <1>2, EntryOf

LEMMA EntryDropped ==
  ASSUME EntryInv, TypeInv', NEW c \in Conns, Moves(c),
         \A s \in Servers, u \in Users : connMap'[s][u] \in {connMap[s][u], NoConn} \ {c}
  PROVE  EntryBelongsToSession'
<1>1. ASSUME NEW s \in Servers, NEW u \in Users, NEW d \in Conns, connMap'[s][u] = d
      PROVE  Host[d] = s /\ net'[d] # "none" /\ Entered(d, u)'
  <2>1. d # NoConn
    BY ChatAssumption
  <2>2. connMap[s][u] = d /\ d # c
    BY <1>1, <2>1
  <2>3. Host[d] = s /\ net[d] # "none" /\ Entered(d, u)
    BY <2>1, <2>2, EntryOf
  <2> QED BY <2>2, <2>3 DEF Moves, Entered
<1> QED BY <1>1, EntryByConn

LEMMA EntryLeave ==
  ASSUME EntryInv, TypeInv', NEW c \in Conns, LeaveStep(c)
  PROVE  SessionShape' /\ EntryBelongsToSession'
<1> USE DEF EntryInv, TypeInv, TypeOK, HandlerTypeOK, ClientTypeOK, From, Goto, Return, locals,
            clientVars, serverVars
<1>1. pc[c] \in LeavePcs /\ pc[c] # "idle" /\ pc[c] \notin LoginPcs
  BY DEF LeaveStep, LeaveUnsubscribe, LeaveSetOffline, LeaveDelUser, LeavePcs, LoginPcs
<1>2. sess[c] = NoUser /\ net[c] # "none"
  BY <1>1 DEF SessionShape, SessionPcs
<1>3. Moves(c) /\ sess' = sess /\ connMap' = connMap
  <2>1. CASE LeaveUnsubscribe(c) BY <2>1 DEF LeaveUnsubscribe, Moves
  <2>2. CASE LeaveSetOffline(c) BY <2>2 DEF LeaveSetOffline, Moves
  <2>3. CASE LeaveDelUser(c) BY <2>3 DEF LeaveDelUser, Moves
  <2> QED BY <2>1, <2>2, <2>3 DEF LeaveStep
<1>4. \/ pc'[c] \in LeavePcs /\ net' = net
      \/ pc'[c] = "idle" /\ net'[c] # "closing"
  <2>1. CASE LeaveUnsubscribe(c) BY <2>1 DEF LeaveUnsubscribe, LeavePcs
  <2>2. CASE LeaveSetOffline(c) BY <2>2 DEF LeaveSetOffline, LeavePcs
  <2>3. CASE LeaveDelUser(c) BY <2>3 DEF LeaveDelUser
  <2> QED BY <2>1, <2>2, <2>3 DEF LeaveStep
<1>5. SessionShape'
  BY <1>2, <1>3, <1>4 DEF SessionShape, Moves
<1>6. \A s \in Servers, u \in Users : connMap'[s][u] \in {connMap[s][u], NoConn} \ {c}
  BY <1>1, <1>2, <1>3, NoEntries
<1>7. EntryBelongsToSession'
  BY <1>3, <1>6, EntryDropped
<1> QED BY <1>5, <1>7

LEMMA EntryRequest ==
  ASSUME EntryInv, TypeInv', NEW c \in Conns, Request(c)
  PROVE  SessionShape' /\ EntryBelongsToSession'
<1> USE DEF EntryInv, TypeInv, TypeOK, HandlerTypeOK, ClientTypeOK, From, Goto, Receives
<1>1. ASSUME NEW u \in Users, NEW pwd \in Passwords, Login(c, u, pwd)
      PROVE  SessionShape' /\ EntryBelongsToSession'
  <2>1. dbState' = dbState /\ sess' = sess /\ net' = net /\ connMap' = connMap
    BY <1>1 DEF Login, QueryUser, clientVars, serverVars
  <2>2. CASE UNCHANGED <<pc, who>>
    BY <2>1, <2>2, EntryUnmoved DEF Unmoved
  <2>3. CASE Goto(c, "insert") /\ who' = [who EXCEPT ![c] = u]
    <3>1. /\ Moves(c) /\ pc'[c] = "insert"
          /\ pc[c] = "idle" /\ sess[c] = NoUser /\ net[c] = "up"
      BY <2>1, <2>3, <1>1 DEF Login, Moves
    <3>2. SessionShape'
      BY <2>1, <3>1 DEF SessionShape, Moves
    <3>3. pc[c] \notin LoginPcs
      BY <3>1 DEF LoginPcs
    <3>4. \A s \in Servers, v \in Users : connMap'[s][v] \in {connMap[s][v], NoConn} \ {c}
      BY <2>1, <3>1, <3>3, NoEntries
    <3>5. EntryBelongsToSession'
      BY <3>1, <3>4, EntryDropped
    <3> QED BY <3>2, <3>5
  <2> QED BY <2>2, <2>3, <1>1 DEF Login
<1>2. CASE Loginout(c)
  <2>1. /\ Moves(c) /\ pc'[c] = "unsubscribe" /\ sess'[c] = NoUser /\ net' = net
        /\ pc[c] = "idle" /\ net[c] = "up"
        /\ connMap' = [connMap EXCEPT ![Host[c]][sess[c]] = NoConn]
    BY <1>2 DEF Loginout, Erase, Moves
  <2>2. SessionShape'
    BY <2>1 DEF SessionShape, Moves, SessionPcs, LeavePcs
  <2>3. ASSUME NEW s \in Servers, NEW u \in Users
        PROVE  connMap'[s][u] \in {connMap[s][u], NoConn} \ {c}
    <3>1. c # NoConn /\ pc[c] \notin LoginPcs
      BY <2>1, ChatAssumption DEF LoginPcs
    <3>2. CASE connMap[s][u] = c
      <4>1. s = Host[c] /\ u = sess[c]
        BY <3>1, <3>2, EntryOf DEF Entered
      <4>2. connMap'[s][u] = NoConn
        BY <2>1, <4>1 DEF ServerTypeOK
      <4> QED BY <3>1, <4>2
    <3>3. CASE connMap[s][u] # c
      BY <2>1, <3>1, <3>3 DEF ServerTypeOK
    <3> QED BY <3>2, <3>3
  <2>4. EntryBelongsToSession'
    BY <2>1, <2>3, EntryDropped
  <2> QED BY <2>2, <2>4
<1>3. CASE \/ \E u \in Users, m \in Chats : OneChat(c, u, m)
           \/ \E m \in Posts : GroupChat(c, m)
  BY <1>3, SendNeutral, EntryNeutral
<1> QED BY <1>1, <1>2, <1>3 DEF Request

(* The close callback finds every entry of its connection, since there is  *)
(* only the one of the session.                                            *)
LEMMA EntryClose ==
  ASSUME EntryInv, TypeInv', NEW c \in Conns, ClientCloseException(c)
  PROVE  SessionShape' /\ EntryBelongsToSession'
<1> USE DEF EntryInv, TypeInv, TypeOK, HandlerTypeOK, ClientTypeOK, From, Goto
<1>1. /\ Moves(c) /\ pc'[c] = "unsubscribe" /\ sess'[c] = NoUser /\ net'[c] = "closing"
      /\ pc[c] = "idle"
  BY DEF ClientCloseException, Moves
<1>2. SessionShape'
  BY <1>1 DEF SessionShape, Moves, SessionPcs, LeavePcs
<1>3. PICK v \in ClosedUsers(c) :
         IF v \in EntriesOf(c) THEN Erase(Host[c], v) ELSE UNCHANGED connMap
  BY DEF ClientCloseException
<1>4. c # NoConn /\ pc[c] \notin LoginPcs /\ Host[c] \in Servers
  BY <1>1, ChatAssumption DEF LoginPcs
<1>5. ASSUME NEW s \in Servers, NEW u \in Users, connMap[s][u] = c
      PROVE  s = Host[c] /\ u = v /\ v \in EntriesOf(c)
  <2>1. s = Host[c] /\ u = sess[c]
    BY <1>4, <1>5, EntryOf DEF Entered
  <2>2. u \in EntriesOf(c)
    BY <1>5, <2>1 DEF EntriesOf, Connection
  <2>3. v \in EntriesOf(c)
    BY <2>2 DEF ClosedUsers
  <2>4. v \in Users /\ connMap[Host[c]][v] = c
    BY <2>3 DEF EntriesOf, Connection
  <2>5. v = sess[c]
    BY <1>4, <2>4, EntryOf DEF Entered
  <2> QED BY <2>1, <2>3, <2>5
<1>6. ASSUME NEW s \in Servers, NEW u \in Users
      PROVE  connMap'[s][u] \in {connMap[s][u], NoConn} \ {c}
  <2>1. CASE connMap[s][u] = c
    <3>1. connMap' = [connMap EXCEPT ![s][u] = NoConn]
      BY <1>3, <1>5, <2>1 DEF Erase
    <3> QED BY <3>1, <1>4 DEF ServerTypeOK
  <2>2. CASE connMap[s][u] # c
    <3>1. CASE v \in EntriesOf(c)
      <4>1. connMap' = [connMap EXCEPT ![Host[c]][v] = NoConn]
        BY <1>3, <3>1 DEF Erase
      <4> QED BY <4>1, <2>2, <1>4 DEF ServerTypeOK
    <3>2. CASE v \notin EntriesOf(c)
      BY <1>3, <2>2, <3>2
    <3> QED BY <3>1, <3>2
  <2> QED BY <2>1, <2>2
<1>7. EntryBelongsToSession'
  BY <1>1, <1>6, EntryDropped
<1> QED BY <1>2, <1>7

LEMMA StepEntry == EntryInv /\ [Next]_vars => EntryInv'
<1> SUFFICES ASSUME EntryInv, [Next]_vars PROVE EntryInv'
  OBVIOUS
<1>1. TypeInv'
  BY StepTypes DEF EntryInv
<1>2. ASSUME NEW c \in Conns, HandlerStep(c)
      PROVE  SessionShape' /\ EntryBelongsToSession'
  <2>1. CASE LoginStep(c) BY <2>1, <1>1, EntryLogin
  <2>2. CASE LeaveStep(c) BY <2>2, <1>1, EntryLeave
  <2>3. CASE ChatStep(c) BY <2>3, ChatNeutral, EntryNeutral
  <2>4. CASE GroupStep(c) BY <2>4, GroupNeutral, EntryNeutral
  <2> QED BY <2>1, <2>2, <2>3, <2>4, <1>2 DEF HandlerStep
<1>3. ASSUME NEW c \in Conns, Connect(c) \/ Disconnect(c)
      PROVE  SessionShape' /\ EntryBelongsToSession'
  <2>1. Unmoved
    BY <1>3 DEF Unmoved, Connect, Disconnect, locals, storeVars, serverVars
  <2> QED BY <2>1, <1>3, EntryUnmoved
<1>4. ASSUME NEW s \in Servers, ObserverStep(s) \/ BusStep(s)
      PROVE  SessionShape' /\ EntryBelongsToSession'
  BY <1>4, OthersUnmoved, EntryUnmoved
<1>5. CASE UNCHANGED vars
  <2>1. Unmoved /\ net' = net
    BY <1>5 DEF vars, Unmoved, locals, storeVars, serverVars, clientVars
  <2> QED BY <2>1, <1>1, EntryUnmoved DEF EntryInv
<1>6. SessionShape' /\ EntryBelongsToSession'
  BY <1>1, <1>2, <1>3, <1>4, <1>5, EntryRequest, EntryClose DEF Next, EntryInv
<1> QED BY <1>1, <1>6 DEF EntryInv

LEMMA InitEntry == Init => EntryInv
<1> SUFFICES ASSUME Init PROVE EntryInv
  OBVIOUS
<1>1. TypeInv BY InitTypes
<1>2. SessionShape BY DEF Init, ServiceInit, SessionShape, SessionPcs, LoginPcs, LeavePcs
<1>3. EntryBelongsToSession BY DEF Init, ServiceInit, EntryBelongsToSession
<1> QED BY <1>1, <1>2, <1>3 DEF EntryInv

LEMMA EntryInvariance == Spec => []EntryInv
BY InitEntry, StepEntry, PTL DEF Spec

(* No entry of any server's map outlives its session or names a connection *)
(* of another server, whichever logins, logouts and closes overlap and     *)
(* whichever statements fail.                                              *)
THEOREM EntryTheorem == Spec => []EntryBelongsToSession
<1>1. EntryInv => EntryBelongsToSession
  BY DEF EntryInv
<1> QED BY <1>1, EntryInvariance, PTL

-----------------------------------------------------------------------------
(* Who gets what is sent.                                                  *)

(* What a step adds to what client c was sent is for whom c stands.        *)
Addressed ==
    \A c \in Conns :
        \A i \in (Len(out[c]) + 1) .. Len(out'[c]) : Entered(c, out'[c][i].to)

LEMMA NothingSent ==
  ASSUME EntryInv, out' = out
  PROVE  Addressed
<1>1. \A c \in Conns : Len(out[c]) \in Nat
  BY LenProperties DEF EntryInv, TypeInv, TypeOK, ClientTypeOK
<1> QED BY <1>1 DEF Addressed

LEMMA SentTo ==
  ASSUME EntryInv, NEW d \in Conns, NEW u \in Users, NEW envs \in Seq(Envelope),
         Send(d, envs), Entered(d, u), \A j \in 1 .. Len(envs) : envs[j].to = u
  PROVE  Addressed
<1>0. \A c \in Conns : out[c] \in Seq(Envelope) /\ Len(out[c]) \in Nat
  BY LenProperties DEF EntryInv, TypeInv, TypeOK, ClientTypeOK
<1> SUFFICES ASSUME NEW c \in Conns, NEW i \in (Len(out[c]) + 1) .. Len(out'[c])
             PROVE  Entered(c, out'[c][i].to)
  BY DEF Addressed
<1>1. out' = [out EXCEPT ![d] = @ \o envs]
  <2>1. out' = out => FALSE
    BY <1>0
  <2> QED BY <2>1 DEF Send
<1>2. c = d
  <2>1. CASE c # d
    <3>1. out'[c] = out[c]
      BY <2>1, <1>1 DEF EntryInv, TypeInv, TypeOK, ClientTypeOK
    <3> QED BY <3>1, <1>0
  <2> QED BY <2>1
<1>3. out'[c] = out[c] \o envs
  BY <1>1, <1>2 DEF EntryInv, TypeInv, TypeOK, ClientTypeOK
<1>4. /\ Len(out'[c]) = Len(out[c]) + Len(envs)
      /\ out'[c][i] = envs[i - Len(out[c])]
      /\ i - Len(out[c]) \in 1 .. Len(envs)
  BY <1>0, <1>3, ConcatProperties, LenProperties
<1> QED BY <1>2, <1>4

LEMMA SentOne ==
  ASSUME EntryInv, NEW s \in Servers, NEW u \in Users, NEW m \in Messages,
         connMap[s][u] # NoConn, Send(connMap[s][u], <<Env(u, m)>>)
  PROVE  Addressed
<1>1. <<Env(u, m)>> \in Seq(Envelope)
  BY Wrapped
<1>2. \A j \in 1 .. Len(<<Env(u, m)>>) : <<Env(u, m)>>[j].to = u
  BY DEF Env
<1> QED BY <1>1, <1>2, EntryOf, SentTo

LEMMA StepAddressed == EntryInv /\ [Next]_vars => Addressed
<1> SUFFICES ASSUME EntryInv, [Next]_vars PROVE Addressed
  OBVIOUS
<1> USE DEF clientVars
<1>0. \A c \in Conns : Host[c] \in Servers
  BY ChatAssumption
<1>t. TypeInv
  BY DEF EntryInv
<1>1. ASSUME NEW c \in Conns, LoginStep(c) PROVE Addressed
  <2>1. CASE LoginAck(c)
    <3> DEFINE envs == [i \in DOMAIN vec[c] |-> Env(who[c], vec[c][i])]
    <3>1. who[c] \in Users /\ vec[c] \in Seq(Messages) /\ Entered(c, who[c])
      BY <1>t, <2>1, FrameAt
      DEF LoginAck, From, TypeInv, TypeOK, HandlerTypeOK, Entered, NeedsUser, LoginPcs
    <3>2. /\ Len(vec[c]) \in Nat /\ DOMAIN vec[c] = 1 .. Len(vec[c])
          /\ \A i \in 1 .. Len(vec[c]) : vec[c][i] \in Messages
      BY <3>1, LenProperties, ElementOfSeq
    <3>3. envs \in [1 .. Len(vec[c]) -> Envelope]
      BY <3>1, <3>2 DEF Env, Envelope
    <3>4. envs \in Seq(Envelope)
      BY <3>2, <3>3, SMT
    <3>5. \A j \in 1 .. Len(envs) : envs[j].to = who[c]
      BY <3>2, <3>4, LenProperties DEF Env
    <3>6. Send(c, envs)
      BY <2>1 DEF LoginAck
    <3> HIDE DEF envs
    <3> QED BY <3>1, <3>4, <3>5, <3>6, SentTo
  <2>2. CASE ~ LoginAck(c)
    <3>1. out' = out
      BY <1>1, <2>2 DEF LoginStep, LoginInsert, LoginSubscribe, LoginSetOnline, LoginGetState,
         LoginAddUser, LoginMarkOnline, LoginReadOffline, LoginRemoveOffline
    <3> QED BY <3>1, NothingSent
  <2> QED BY <2>1, <2>2
<1>2. ASSUME NEW c \in Conns, LeaveStep(c) \/ ChatStep(c) PROVE Addressed
  <2>1. out' = out
    BY <1>2 DEF LeaveStep, LeaveUnsubscribe, LeaveSetOffline, LeaveDelUser, ChatStep,
       ChatGetState, ChatPublish, ChatStore, ChatQuery, ChatSetOnline, ChatInsert, ChatSetOffline
  <2> QED BY <2>1, NothingSent
<1>3. ASSUME NEW c \in Conns, GroupStep(c) PROVE Addressed
  <2>1. CASE GroupNext(c)
    <3>1. PICK u \in todo[c] :
             IF Connection(c, u) # NoConn
             THEN Send(Connection(c, u), <<Env(u, msg[c])>>)
             ELSE UNCHANGED out
      BY <2>1 DEF GroupNext
    <3>2. u \in Users /\ msg[c] \in Messages
      BY <1>t, <2>1, FrameAt
      DEF GroupNext, From, TypeInv, TypeOK, HandlerTypeOK, NeedsMsg, GroupHoldPcs
    <3> QED BY <3>1, <3>2, <1>0, SentOne, NothingSent DEF Connection
  <2>2. CASE ~ GroupNext(c)
    <3>1. out' = out
      BY <1>3, <2>2 DEF GroupStep, GroupLock, GroupDone, GroupGetState, GroupPublishReturn,
         GroupStoreReturn, GroupQuery, GroupSetState, GroupPublish, GroupStore
    <3> QED BY <3>1, NothingSent
  <2> QED BY <2>1, <2>2
<1>4. ASSUME NEW c \in Conns, Request(c) PROVE Addressed
  <2>1. ASSUME NEW u \in Users, NEW m \in Chats, OneChat(c, u, m) PROVE Addressed
    <3>1. m \in Messages
      BY ChatAssumption
    <3> QED BY <2>1, <3>1, <1>0, SentOne, NothingSent DEF OneChat, Connection
  <2>2. ASSUME ~ \E u \in Users, m \in Chats : OneChat(c, u, m) PROVE Addressed
    <3>1. out' = out
      BY <1>4, <2>2 DEF Request, Login, Loginout, GroupChat
    <3> QED BY <3>1, NothingSent
  <2> QED BY <2>1, <2>2
<1>5. ASSUME NEW c \in Conns, Connect(c) \/ Disconnect(c) \/ ClientCloseException(c)
      PROVE  Addressed
  <2>1. out' = out
    BY <1>5 DEF Connect, Disconnect, ClientCloseException
  <2> QED BY <2>1, NothingSent
<1>6. ASSUME NEW s \in Servers, ObserverStep(s) PROVE Addressed
  <2>1. CASE ObserverDeliver(s)
    <3>1. NextReply(s) \in Envelope
      BY <1>t, <2>1, ConsumeType DEF ObserverDeliver, TypeInv, TypeOK
    <3>2. PICK u \in Users, m \in Messages : NextReply(s) = Env(u, m)
      BY <3>1 DEF Envelope, Env
    <3>3. NextReply(s).to = u
      BY <3>2 DEF Env
    <3> QED BY <2>1, <3>2, <3>3, SentOne DEF ObserverDeliver
  <2>2. CASE ~ ObserverDeliver(s)
    <3>1. out' = out
      BY <1>6, <2>2 DEF ObserverStep, ObserverMiss, ObserverStore
    <3> QED BY <3>1, NothingSent
  <2> QED BY <2>1, <2>2
<1>7. ASSUME NEW s \in Servers, BusStep(s) PROVE Addressed
  BY <1>7, NothingSent DEF BusStep
<1>8. CASE UNCHANGED vars
  BY <1>8, NothingSent DEF vars
<1> QED
  BY <1>1, <1>2, <1>3, <1>4, <1>5, <1>6, <1>7, <1>8 DEF Next, HandlerStep

(* Nothing a handler or observer writes reaches another account's client,  *)
(* although entries are read and used by threads that did not make them.   *)
THEOREM MisdeliveryTheorem == Spec => NoMisdelivery
<1>1. Spec => [][Addressed]_vars
  <2>1. EntryInv /\ [Next]_vars => [Addressed]_vars
    BY StepAddressed
  <2> QED BY <2>1, EntryInvariance, PTL DEF Spec
<1> QED BY <1>1 DEF NoMisdelivery, Addressed

-----------------------------------------------------------------------------
(***************************************************************************)
(* The row of the user table as a lock on the account, proved for every    *)
(* cluster and workload whose logins of one account do not overlap and     *)
(* whose statements succeed (Serial): what login's check of the state is   *)
(* meant for.  From it, that messages for a user go where the user is.     *)
(* And, without that assumption, that the mutex protects the map.          *)
(*                                                                         *)
(* Seen from the lock, a step lets a connection in (Lets), takes the row   *)
(* (Takes), gives it back (Gives), or does nothing (Keeps).                *)
(***************************************************************************)

(* The assumption on the environment under which the row works as a lock.  *)
Serial == SerialLogins /\ MaxDbFails = 0

(* Whoever is entered is who the server's map says: the way out finds the  *)
(* entry, and with it the id whose row it must reset.                      *)
EntryThere ==
    \A c \in Conns, u \in Regular : Entered(c, u) => Connection(c, u) = c

LockInv == EntryInv /\ OneSession /\ OnlineRowHasOwner /\ EntryThere

(* What these say of one user.                                             *)
Sole(u) == \A c, d \in Conns : Claims(c, u) /\ Claims(d, u) => c = d

Found(u) == \A c \in Conns : Entered(c, u) => Connection(c, u) = c

-----------------------------------------------------------------------------
KeepsFor(u) ==
    /\ dbState'[u] = dbState[u]
    /\ \A d \in Conns : /\ Claims(d, u)' <=> Claims(d, u)
                        /\ Holds(d, u)' <=> Holds(d, u)

Keeps == \A u \in Regular : KeepsFor(u)

Lets(c, u) ==
    /\ \A d \in Conns : ~Claims(d, u)
    /\ \A d \in Conns, v \in Regular :
          /\ Claims(d, v)' <=> Claims(d, v) \/ (d = c /\ v = u)
          /\ Holds(d, v)' <=> Holds(d, v)
          /\ dbState'[v] = dbState[v]

Takes(c, u) ==
    /\ Claims(c, u) /\ ~Holds(c, u)
    /\ \A d \in Conns, v \in Regular :
          /\ Claims(d, v)' <=> Claims(d, v)
          /\ Holds(d, v)' <=> Holds(d, v) \/ (d = c /\ v = u)
          /\ dbState'[v] = IF v = u THEN "online" ELSE dbState[v]

Gives(c, u) ==
    /\ Holds(c, u)
    /\ \A d \in Conns, v \in Regular :
          /\ Claims(d, v)' <=> Claims(d, v) /\ ~(d = c /\ v = u)
          /\ Holds(d, v)' <=> Holds(d, v) /\ ~(d = c /\ v = u)
          /\ dbState'[v] = IF v = u THEN "offline" ELSE dbState[v]

LockStep ==
    \/ Keeps
    \/ \E c \in Conns, u \in Regular : Lets(c, u) \/ Takes(c, u) \/ Gives(c, u)

LEMMA HoldsClaims ==
  ASSUME NEW c, NEW u
  PROVE  Holds(c, u) => Claims(c, u)
BY DEF Claims

LEMMA RegularUser ==
  ASSUME NEW u \in Regular
  PROVE  u \in Users /\ u # NoUser /\ u # DefaultId
BY ChatAssumption DEF Regular

(* A connection that does not move stands where it stood.                  *)
LEMMA StandsStill ==
  ASSUME NEW d \in Conns, NEW u \in Users,
         pc'[d] = pc[d], who'[d] = who[d], sess'[d] = sess[d]
  PROVE  /\ Claims(d, u)' <=> Claims(d, u)
         /\ Holds(d, u)' <=> Holds(d, u)
         /\ Entered(d, u)' <=> Entered(d, u)
<1>1. Holds(d, u)' <=> Holds(d, u)
  BY DEF Holds
<1>2. Entered(d, u)' <=> Entered(d, u)
  BY DEF Entered
<1> QED BY <1>1, <1>2 DEF Claims

LEMMA KeepsIfOneDoes ==
  ASSUME NEW c \in Conns, Moves(c),
         \A u \in Regular : /\ Claims(c, u)' <=> Claims(c, u)
                            /\ Holds(c, u)' <=> Holds(c, u)
                            /\ dbState'[u] = dbState[u]
  PROVE  Keeps
<1> SUFFICES ASSUME NEW d \in Conns, NEW u \in Regular
             PROVE  /\ Claims(d, u)' <=> Claims(d, u)
                    /\ Holds(d, u)' <=> Holds(d, u)
  BY DEF Keeps, KeepsFor
<1>1. CASE d # c
  <2>1. pc'[d] = pc[d] /\ who'[d] = who[d] /\ sess'[d] = sess[d]
    BY <1>1 DEF Moves
  <2> QED BY <2>1, StandsStill, RegularUser
<1> QED BY <1>1

LEMMA StatementsSucceed ==
  ASSUME Serial, StoreTypeOK, NEW ok \in BOOLEAN, DbCall(ok)
  PROVE  ok = TRUE
<1>1. dbFails = 0 /\ MaxDbFails = 0
  BY DEF Serial, StoreTypeOK
<1> QED BY <1>1 DEF DbCall

-----------------------------------------------------------------------------
(* What each handler does to the lock.                                     *)

LEMMA NeutralKeeps ==
  ASSUME EntryInv, NEW c \in Conns, Neutral(c)
  PROVE  Keeps /\ \A u \in Regular : Entered(c, u)' <=> Entered(c, u)
<1>1. /\ pc[c] \notin SessionPcs /\ pc'[c] \notin SessionPcs /\ Moves(c)
      /\ sess' = sess /\ dbState' = dbState
  BY DEF Neutral
<1>2. ASSUME NEW u \in Regular
      PROVE  /\ Holds(c, u)' <=> sess[c] = u
             /\ Holds(c, u) <=> sess[c] = u
             /\ Claims(c, u)' <=> sess[c] = u
             /\ Claims(c, u) <=> sess[c] = u
             /\ Entered(c, u)' <=> sess[c] = u
             /\ Entered(c, u) <=> sess[c] = u
  BY <1>1 DEF Holds, Claims, Entered, SessionPcs, LoginPcs, LeavePcs
<1>3. Keeps
  BY <1>1, <1>2, KeepsIfOneDoes
<1> QED BY <1>2, <1>3

LEMMA UnmovedKeeps ==
  ASSUME Unmoved
  PROVE  Keeps /\ \A d \in Conns, u \in Regular : Entered(d, u)' <=> Entered(d, u)
<1> SUFFICES ASSUME NEW d \in Conns, NEW u \in Regular
             PROVE  /\ Claims(d, u)' <=> Claims(d, u)
                    /\ Holds(d, u)' <=> Holds(d, u)
                    /\ Entered(d, u)' <=> Entered(d, u)
  BY DEF Keeps, KeepsFor, Unmoved
<1> QED BY StandsStill, RegularUser DEF Unmoved
(* The request of a login is refused, or admits c.                         *)
Refuses(c) == Unmoved /\ net' = net

Admits(c, u) ==
    /\ Moves(c) /\ dbState' = dbState /\ sess' = sess /\ connMap' = connMap
    /\ pc[c] = "idle" /\ sess[c] = NoUser
    /\ pc'[c] = "insert" /\ who'[c] = u

LEMMA LoginAdmits ==
  ASSUME EntryInv, NEW c \in Conns, NEW u \in Users, NEW pwd \in Passwords,
         Login(c, u, pwd)
  PROVE  \/ Refuses(c)
         \/ Admits(c, u) /\ (u \in Regular => dbState[u] # "online")
<1> USE DEF EntryInv, TypeInv, TypeOK, HandlerTypeOK, ClientTypeOK
<1>1. /\ dbState' = dbState /\ sess' = sess /\ connMap' = connMap
      /\ pc[c] = "idle" /\ sess[c] = NoUser
  BY DEF Login, Receives, From, QueryUser, clientVars, serverVars
<1>n. net' = net
  BY DEF Login, clientVars
<1>2. PICK ok \in BOOLEAN :
         /\ QueryUser(ok)
         /\ IF Accepts(Query(u, ok), u, pwd)
            THEN Goto(c, "insert") /\ who' = [who EXCEPT ![c] = u]
            ELSE UNCHANGED <<pc, who>>
  BY DEF Login
<1>3. CASE UNCHANGED <<pc, who>>
  BY <1>1, <1>n, <1>3 DEF Refuses, Unmoved
<1>4. CASE /\ Goto(c, "insert") /\ who' = [who EXCEPT ![c] = u]
           /\ Accepts(Query(u, ok), u, pwd)
  <2>1. Moves(c) /\ pc'[c] = "insert" /\ who'[c] = u
    BY <1>1, <1>n, <1>4 DEF Moves, Goto
  <2>2. ASSUME u \in Regular PROVE dbState[u] # "online"
    <3>1. ok = TRUE
      BY <1>4, <2>2, RegularUser DEF Accepts, Query, DefaultUser
    <3> QED BY <1>4, <3>1 DEF Accepts, Query
  <2> QED BY <1>1, <2>1, <2>2 DEF Admits
<1> QED BY <1>2, <1>3, <1>4

LEMMA AdmitsClaims ==
  ASSUME EntryInv, NEW c \in Conns, NEW u \in Users, Admits(c, u)
  PROVE  \A d \in Conns, v \in Regular :
            /\ Claims(d, v)' <=> Claims(d, v) \/ (d = c /\ v = u)
            /\ Holds(d, v)' <=> Holds(d, v)
            /\ Entered(d, v)' <=> Entered(d, v)
            /\ dbState'[v] = dbState[v]
<1>1. ASSUME NEW v \in Regular
      PROVE  /\ ~Claims(c, v) /\ ~Holds(c, v) /\ ~Entered(c, v)
             /\ ~Holds(c, v)' /\ ~Entered(c, v)'
             /\ Claims(c, v)' <=> v = u
  BY RegularUser DEF Admits, Claims, Holds, Entered, LoginPcs
<1>2. ASSUME NEW d \in Conns \ {c}, NEW v \in Regular
      PROVE  /\ Claims(d, v)' <=> Claims(d, v)
             /\ Holds(d, v)' <=> Holds(d, v)
             /\ Entered(d, v)' <=> Entered(d, v)
  BY StandsStill, RegularUser DEF Admits, Moves
<1> QED BY <1>1, <1>2 DEF Admits

LEMMA LoginLets ==
  ASSUME Serial, LockInv, NEW c \in Conns, NEW u \in Users, NEW pwd \in Passwords,
         Login(c, u, pwd)
  PROVE  Keeps \/ \E v \in Regular : Lets(c, v)
<1> USE DEF LockInv, EntryInv, TypeInv, TypeOK, HandlerTypeOK, ClientTypeOK
<1>1. \/ Refuses(c)
      \/ u \in Regular /\ ~LoginPending(u) /\ dbState[u] # "online" /\ Admits(c, u)
      \/ u \notin Regular /\ Admits(c, u)
  <2>1. ~LoginPending(u)
    BY DEF Login, Serial
  <2> QED BY <2>1, LoginAdmits
<1>2. CASE Refuses(c)
  BY <1>2, UnmovedKeeps DEF Refuses
<1>3. CASE /\ u \in Regular /\ ~LoginPending(u) /\ dbState[u] # "online"
           /\ Admits(c, u)
  <2>1. \A d \in Conns : ~Claims(d, u)
    <3>1. \A d \in Conns : ~Holds(d, u)
      BY <1>3 DEF OnlineRowHasOwner
    <3> QED BY <1>3, <3>1 DEF Claims, LoginPending
  <2>2. Lets(c, u)
    BY <1>3, <2>1, AdmitsClaims DEF Lets
  <2> QED BY <1>3, <2>2
<1>4. CASE u \notin Regular /\ Admits(c, u)
  BY <1>4, AdmitsClaims DEF Keeps, KeepsFor
<1> QED BY <1>1, <1>2, <1>3, <1>4

(* Login's other steps do nothing to the lock.                             *)
LEMMA LoginKeeps ==
  ASSUME EntryInv, NEW c \in Conns, LoginStep(c), ~LoginSetOnline(c)
  PROVE  Keeps /\ pc[c] # "setOnline"
<1> USE DEF EntryInv, TypeInv, TypeOK
<1>1. /\ Moves(c) /\ pc[c] \in LoginPcs /\ sess[c] = NoUser /\ who[c] \in Users
      /\ \/ pc'[c] \in LoginPcs \ {"insert"} /\ who'[c] = who[c] /\ sess' = sess
         \/ pc[c] = "ackLogin" /\ pc'[c] = "idle" /\ sess'[c] = who[c] /\ who'[c] = NoUser
  BY LoginMoves
<1>2. ASSUME NEW v \in Regular
      PROVE  Claims(c, v)' <=> Claims(c, v)
  BY <1>1, RegularUser DEF Claims, Holds, LoginPcs, LeavePcs
<1>3. dbState' = dbState /\ pc[c] # "setOnline"
  <2>1. CASE LoginInsert(c) BY <2>1 DEF LoginInsert, storeVars, From
  <2>2. CASE LoginSubscribe(c) BY <2>2 DEF LoginSubscribe, storeVars, From
  <2>4. CASE LoginGetState(c) BY <2>4 DEF LoginGetState, storeVars, From
  <2>5. CASE LoginAddUser(c) \/ LoginMarkOnline(c)
    BY <2>5 DEF LoginAddUser, LoginMarkOnline, storeVars, From
  <2>6. CASE LoginReadOffline(c) BY <2>6 DEF LoginReadOffline, QueryOffline, From
  <2>7. CASE LoginRemoveOffline(c) BY <2>7 DEF LoginRemoveOffline, RemoveOffline, From
  <2>8. CASE LoginAck(c) BY <2>8 DEF LoginAck, storeVars, From
  <2> QED BY <2>1, <2>2, <2>4, <2>5, <2>6, <2>7, <2>8 DEF LoginStep
<1>4. pc[c] \in {"insert", "subscribe"} <=> pc'[c] \in {"subscribe", "setOnline"}
  <2>1. CASE LoginInsert(c) BY <2>1 DEF LoginInsert, From, Goto, HandlerTypeOK
  <2>2. CASE LoginSubscribe(c) BY <2>2 DEF LoginSubscribe, From, Goto, HandlerTypeOK
  <2>4. CASE LoginGetState(c)
    <3>1. key[who[c]] \in KeyState
      BY <1>1 DEF RedisTypeOK
    <3> QED BY <3>1, <2>4 DEF LoginGetState, GetState, KeyState, From, Goto, HandlerTypeOK
  <2>5. CASE LoginAddUser(c) \/ LoginMarkOnline(c)
    BY <2>5 DEF LoginAddUser, LoginMarkOnline, From, Goto, HandlerTypeOK
  <2>6. CASE LoginReadOffline(c) BY <2>6 DEF LoginReadOffline, From, Goto, HandlerTypeOK
  <2>7. CASE LoginRemoveOffline(c) BY <2>7 DEF LoginRemoveOffline, From, Goto, HandlerTypeOK
  <2>8. CASE LoginAck(c) BY <2>8 DEF LoginAck, Return, From, Goto, HandlerTypeOK
  <2> QED BY <2>1, <2>2, <2>4, <2>5, <2>6, <2>7, <2>8 DEF LoginStep
<1>5. ASSUME NEW v \in Regular
      PROVE  Holds(c, v)' <=> Holds(c, v)
  BY <1>1, <1>3, <1>4, RegularUser DEF Holds, LoginPcs
<1> QED BY <1>1, <1>2, <1>3, <1>5, KeepsIfOneDoes

(* The UPDATE of login: from here on c holds the account, even if the      *)
(* statement has failed.                                                   *)
LEMMA SetOnlineHolds ==
  ASSUME EntryInv, NEW c \in Conns, LoginSetOnline(c)
  PROVE  /\ Moves(c) /\ pc[c] = "setOnline" /\ pc'[c] = "getState"
         /\ who[c] \in Users /\ who'[c] = who[c] /\ sess' = sess
         /\ \A v \in Regular : (Claims(c, v) <=> v = who[c]) /\ ~Holds(c, v)
         /\ \A d \in Conns, v \in Regular :
               /\ Claims(d, v)' <=> Claims(d, v)
               /\ Holds(d, v)' <=> Holds(d, v) \/ (d = c /\ v = who[c])
<1> USE DEF EntryInv, TypeInv, TypeOK
<1>1. /\ Moves(c) /\ sess[c] = NoUser /\ who[c] \in Users
  BY LoginMoves DEF LoginStep
<1>2. pc[c] = "setOnline" /\ pc'[c] = "getState" /\ who'[c] = who[c] /\ sess' = sess
  BY DEF LoginSetOnline, From, Goto, HandlerTypeOK, locals, clientVars
<1>3. ASSUME NEW v \in Regular
      PROVE  /\ Claims(c, v) <=> v = who[c]
             /\ ~Holds(c, v)
             /\ Holds(c, v)' <=> v = who[c]
             /\ Claims(c, v)' <=> v = who[c]
  BY <1>1, <1>2, RegularUser DEF Holds, Claims, LoginPcs
<1>4. ASSUME NEW d \in Conns \ {c}, NEW v \in Regular
      PROVE  /\ Claims(d, v)' <=> Claims(d, v)
             /\ Holds(d, v)' <=> Holds(d, v)
  BY <1>1, StandsStill, RegularUser DEF Moves
<1> QED BY <1>1, <1>2, <1>3, <1>4

LEMMA LoginTakes ==
  ASSUME Serial, LockInv, NEW c \in Conns, LoginStep(c)
  PROVE  Keeps \/ \E u \in Regular : Takes(c, u)
<1> USE DEF LockInv, EntryInv, TypeInv, TypeOK
<1>1. CASE LoginSetOnline(c)
  <2>1. PICK ok \in BOOLEAN : UpdateState(who[c], "online", ok)
    BY <1>1 DEF LoginSetOnline
  <2>2. ok = TRUE
    BY <2>1, StatementsSucceed DEF UpdateState
  <2>3. \A v \in Regular : dbState'[v] = IF v = who[c] THEN "online" ELSE dbState[v]
    BY <2>1, <2>2, RegularUser DEF UpdateState, StoreTypeOK
  <2>4. CASE who[c] \in Regular
    <3>1. Takes(c, who[c])
      BY <1>1, <2>3, <2>4, SetOnlineHolds DEF Takes
    <3> QED BY <2>4, <3>1
  <2>5. CASE who[c] \notin Regular
    BY <1>1, <2>3, <2>5, SetOnlineHolds DEF Keeps, KeepsFor
  <2> QED BY <2>4, <2>5
<1>2. CASE ~LoginSetOnline(c)
  BY <1>2, LoginKeeps
<1> QED BY <1>1, <1>2

(* Where a step of the way out leads, and what it changes besides.         *)
LEMMA LeaveMoves ==
  ASSUME EntryInv, NEW c \in Conns, LeaveStep(c)
  PROVE  /\ Moves(c) /\ sess' = sess /\ connMap' = connMap
         /\ pc[c] \in LeavePcs /\ sess[c] = NoUser /\ who[c] \in Users
         /\ \/ LeaveUnsubscribe(c) /\ pc[c] = "unsubscribe" /\ pc'[c] = "setOffline"
               /\ who' = who /\ dbState' = dbState
            \/ LeaveSetOffline(c) /\ pc[c] = "setOffline" /\ pc'[c] = "delUser" /\ who' = who
            \/ LeaveDelUser(c) /\ pc[c] = "delUser" /\ pc'[c] = "idle" /\ dbState' = dbState
<1> USE DEF EntryInv, TypeInv, TypeOK, HandlerTypeOK
<1>1. pc[c] \in LeavePcs
  BY DEF LeaveStep, LeaveUnsubscribe, LeaveSetOffline, LeaveDelUser, LeavePcs, From
<1>2. sess[c] = NoUser /\ who[c] \in Users
  BY <1>1, FrameAt DEF SessionShape, SessionPcs, NeedsUser
<1>3. CASE LeaveUnsubscribe(c)
  BY <1>1, <1>2, <1>3
     DEF LeaveUnsubscribe, Moves, From, Goto, locals, clientVars, serverVars, storeVars
<1>4. CASE LeaveSetOffline(c)
  BY <1>1, <1>2, <1>4 DEF LeaveSetOffline, Moves, From, Goto, locals, clientVars, serverVars
<1>5. CASE LeaveDelUser(c)
  BY <1>1, <1>2, <1>5
     DEF LeaveDelUser, Moves, From, Goto, Return, serverVars, storeVars, ClientTypeOK
<1> QED BY <1>3, <1>4, <1>5 DEF LeaveStep

LEMMA LeaveKeeps ==
  ASSUME EntryInv, NEW c \in Conns, LeaveStep(c), ~LeaveSetOffline(c)
  PROVE  Keeps
<1>1. ASSUME NEW v \in Regular
      PROVE  /\ Claims(c, v)' <=> Claims(c, v)
             /\ Holds(c, v)' <=> Holds(c, v)
             /\ dbState'[v] = dbState[v]
  BY LeaveMoves, RegularUser DEF Claims, Holds, LoginPcs
<1> QED BY <1>1, LeaveMoves, KeepsIfOneDoes

(* The UPDATE of the way out: from here on c no longer holds the account,  *)
(* even if the statement has failed.                                       *)
LEMMA SetOfflineHolds ==
  ASSUME EntryInv, NEW c \in Conns, LeaveSetOffline(c)
  PROVE  /\ \A v \in Regular : Holds(c, v) <=> v = who[c]
         /\ \A d \in Conns, v \in Regular :
               /\ Claims(d, v)' <=> Claims(d, v) /\ ~(d = c /\ v = who[c])
               /\ Holds(d, v)' <=> Holds(d, v) /\ ~(d = c /\ v = who[c])
<1>1. LeaveStep(c)
  BY DEF LeaveStep
<1>2. pc[c] = "setOffline" /\ pc'[c] = "delUser" /\ sess' = sess /\ sess[c] = NoUser
  BY <1>1, LeaveMoves DEF LeaveSetOffline, From
<1>3. ASSUME NEW v \in Regular
      PROVE  /\ Claims(c, v) <=> v = who[c]
             /\ Holds(c, v) <=> v = who[c]
             /\ ~Claims(c, v)' /\ ~Holds(c, v)'
  BY <1>2, RegularUser DEF Claims, Holds, LoginPcs
<1>4. ASSUME NEW d \in Conns \ {c}, NEW v \in Regular
      PROVE  /\ Claims(d, v)' <=> Claims(d, v)
             /\ Holds(d, v)' <=> Holds(d, v)
  BY <1>1, LeaveMoves, StandsStill, RegularUser DEF Moves
<1> QED BY <1>3, <1>4

LEMMA LeaveGives ==
  ASSUME Serial, LockInv, NEW c \in Conns, LeaveStep(c)
  PROVE  Keeps \/ \E u \in Regular : Gives(c, u)
<1> USE DEF LockInv, EntryInv, TypeInv, TypeOK
<1>1. CASE LeaveSetOffline(c)
  <2>1. PICK ok \in BOOLEAN : UpdateState(who[c], "offline", ok)
    BY <1>1 DEF LeaveSetOffline
  <2>2. ok = TRUE
    BY <2>1, StatementsSucceed DEF UpdateState
  <2>3. \A v \in Regular : dbState'[v] = IF v = who[c] THEN "offline" ELSE dbState[v]
    BY <2>1, <2>2, RegularUser DEF UpdateState, StoreTypeOK
  <2>4. CASE who[c] \in Regular
    <3>1. Gives(c, who[c])
      BY <1>1, <2>3, <2>4, SetOfflineHolds DEF Gives
    <3> QED BY <2>4, <3>1
  <2>5. CASE who[c] \notin Regular
    BY <1>1, <2>3, <2>5, SetOfflineHolds DEF Keeps, KeepsFor
  <2> QED BY <2>4, <2>5
<1>2. CASE ~LeaveSetOffline(c)
  BY <1>2, LeaveKeeps
<1> QED BY <1>1, <1>2

(* The way out begins: c goes on standing for u, but its entry is gone.    *)
LEMMA OutKeeps ==
  ASSUME EntryInv, NEW u \in Regular, NEW c \in Conns, Moves(c), pc[c] = "idle",
         pc'[c] = "unsubscribe", sess'[c] = NoUser, dbState' = dbState,
         who'[c] = u <=> sess[c] = u
  PROVE  KeepsFor(u)
<1>1. /\ Claims(c, u)' <=> Claims(c, u)
      /\ Holds(c, u)' <=> Holds(c, u)
  BY RegularUser DEF Claims, Holds, LoginPcs
<1>2. ASSUME NEW d \in Conns \ {c}
      PROVE  /\ Claims(d, u)' <=> Claims(d, u)
             /\ Holds(d, u)' <=> Holds(d, u)
  BY StandsStill, RegularUser DEF Moves
<1> QED BY <1>1, <1>2 DEF KeepsFor

LEMMA LogoutMoves ==
  ASSUME EntryInv, NEW c \in Conns, Loginout(c)
  PROVE  /\ Moves(c) /\ pc[c] = "idle" /\ pc'[c] = "unsubscribe" /\ sess'[c] = NoUser
         /\ who'[c] = sess[c] /\ dbState' = dbState
         /\ \A s \in Servers, v \in Regular :
               connMap'[s][v] # connMap[s][v] => v = sess[c]
<1> USE DEF EntryInv, TypeInv, TypeOK, HandlerTypeOK, ClientTypeOK
<1>1. /\ Moves(c) /\ pc[c] = "idle" /\ pc'[c] = "unsubscribe" /\ sess'[c] = NoUser
      /\ who'[c] = sess[c] /\ dbState' = dbState
      /\ connMap' = [connMap EXCEPT ![Host[c]][sess[c]] = NoConn]
  BY DEF Loginout, Receives, From, Goto, Erase, Moves, storeVars
<1>2. ASSUME NEW s \in Servers, NEW v \in Regular, connMap'[s][v] # connMap[s][v]
      PROVE  v = sess[c]
  BY <1>1, <1>2, RegularUser DEF ServerTypeOK
<1> QED BY <1>1, <1>2

(* The close callback cleans up for whoever its connection's entry names:  *)
(* for nobody else, and for its own user when the entry is there.          *)
LEMMA CloseMoves ==
  ASSUME EntryInv, NEW c \in Conns, ClientCloseException(c)
  PROVE  /\ Moves(c) /\ pc[c] = "idle" /\ pc'[c] = "unsubscribe" /\ sess'[c] = NoUser
         /\ dbState' = dbState
         /\ \A u \in Regular : who'[c] = u => sess[c] = u
         /\ \A u \in Regular : sess[c] = u /\ Connection(c, u) = c => who'[c] = u
         /\ \A s \in Servers, u \in Regular :
               connMap'[s][u] # connMap[s][u] => u = sess[c]
<1> USE DEF EntryInv, TypeInv, TypeOK, HandlerTypeOK, ClientTypeOK
<1>1. /\ Moves(c) /\ pc[c] = "idle" /\ pc'[c] = "unsubscribe" /\ sess'[c] = NoUser
      /\ dbState' = dbState
  BY DEF ClientCloseException, From, Goto, Moves, storeVars
<1>2. PICK v \in ClosedUsers(c) :
         /\ who' = [who EXCEPT ![c] = v]
         /\ IF v \in EntriesOf(c) THEN Erase(Host[c], v) ELSE UNCHANGED connMap
  BY DEF ClientCloseException
<1>3. who'[c] = v
  BY <1>2
<1>4. \A u \in EntriesOf(c) : u = sess[c]
  <2> SUFFICES ASSUME NEW u \in EntriesOf(c) PROVE u = sess[c]
    OBVIOUS
  <2>1. u \in Users /\ connMap[Host[c]][u] = c /\ c # NoConn /\ Host[c] \in Servers
    BY ChatAssumption DEF EntriesOf, Connection
  <2>2. Entered(c, u)
    BY <2>1, EntryOf
  <2> QED BY <1>1, <2>2 DEF Entered, LoginPcs
<1>5. ASSUME NEW u \in Regular, sess[c] = u, Connection(c, u) = c PROVE v = u
  <2>1. u \in EntriesOf(c)
    BY <1>5, RegularUser DEF EntriesOf
  <2> QED BY <1>2, <1>4, <1>5, <2>1 DEF ClosedUsers
<1>6. ASSUME v \in Regular PROVE v = sess[c]
  BY <1>2, <1>4, <1>6, RegularUser DEF ClosedUsers
<1>7. ASSUME NEW s \in Servers, NEW u \in Regular, connMap'[s][u] # connMap[s][u]
      PROVE  u = sess[c]
  <2>1. v \in EntriesOf(c) /\ connMap' = [connMap EXCEPT ![Host[c]][v] = NoConn]
    BY <1>2, <1>7 DEF Erase
  <2>2. u = v
    BY <1>7, <2>1, RegularUser DEF ServerTypeOK
  <2> QED BY <1>4, <2>1, <2>2
<1> QED BY <1>1, <1>3, <1>5, <1>6, <1>7

LEMMA LogoutKeeps ==
  ASSUME EntryInv, NEW c \in Conns, Loginout(c)
  PROVE  Keeps
BY LogoutMoves, OutKeeps DEF Keeps

LEMMA CloseKeeps ==
  ASSUME EntryInv, NEW u \in Regular, Found(u), NEW c \in Conns, ClientCloseException(c)
  PROVE  KeepsFor(u)
<1>1. sess[c] = u => Connection(c, u) = c
  BY DEF Found, Entered
<1> QED BY <1>1, CloseMoves, OutKeeps

-----------------------------------------------------------------------------
(* Whoever is entered is found, as long as nobody else is let in.          *)

LEMMA NeutralFinds ==
  ASSUME EntryInv, NEW u \in Regular, Found(u), NEW c \in Conns, Neutral(c)
  PROVE  Found(u)'
<1>1. Moves(c) /\ connMap' = connMap /\ (Entered(c, u)' <=> Entered(c, u))
  BY NeutralKeeps DEF Neutral
<1>2. \A d \in Conns \ {c} : Entered(d, u)' <=> Entered(d, u)
  BY <1>1, StandsStill, RegularUser DEF Moves
<1> QED BY <1>1, <1>2 DEF Found, Connection

LEMMA UnmovedFinds ==
  ASSUME NEW u \in Regular, Found(u), Unmoved
  PROVE  Found(u)'
BY UnmovedKeeps DEF Unmoved, Found, Connection

LEMMA LoginFinds ==
  ASSUME EntryInv, NEW u \in Regular, Sole(u), Found(u), NEW c \in Conns, LoginStep(c)
  PROVE  Found(u)'
<1> USE DEF EntryInv, TypeInv, TypeOK
<1>0. /\ Moves(c) /\ pc[c] \in LoginPcs /\ sess[c] = NoUser /\ who[c] \in Users
      /\ \/ pc'[c] \in LoginPcs \ {"insert"} /\ who'[c] = who[c] /\ sess' = sess
         \/ pc[c] = "ackLogin" /\ pc'[c] = "idle" /\ sess'[c] = who[c] /\ who'[c] = NoUser
  BY LoginMoves
<1>1. ASSUME NEW d \in Conns \ {c}
      PROVE  Entered(d, u)' <=> Entered(d, u)
  BY <1>0, StandsStill, RegularUser DEF Moves
<1>2. CASE LoginInsert(c)
  <2>1. /\ pc[c] = "insert"
        /\ connMap' = IF Connection(c, who[c]) = NoConn
                      THEN [connMap EXCEPT ![Host[c]][who[c]] = c]
                      ELSE connMap
    BY <1>2 DEF LoginInsert, From
  <2>2. ASSUME Entered(c, u)' PROVE u = who[c]
    BY <1>0, <2>1, <2>2, RegularUser DEF Entered
  <2>3. ASSUME u = who[c] PROVE Connection(c, u) = NoConn
    <3> SUFFICES ASSUME Connection(c, u) # NoConn PROVE FALSE
      OBVIOUS
    <3>1. Connection(c, u) \in Conns /\ Entered(Connection(c, u), u)
      BY RegularUser, EntryOf, ChatAssumption DEF Connection
    <3>2. Claims(Connection(c, u), u)
      BY <3>1 DEF Entered, Claims, Holds
    <3>3. Claims(c, u)
      BY <2>1, <2>3 DEF Claims
    <3>4. Connection(c, u) = c
      BY <3>1, <3>2, <3>3 DEF Sole
    <3>5. ~Entered(c, u)
      BY <1>0, <2>1, ChatAssumption, RegularUser DEF Entered
    <3> QED BY <3>1, <3>4, <3>5
  <2>4. ASSUME Entered(c, u)' PROVE connMap'[Host[c]][u] = c
    BY <1>0, <2>1, <2>2, <2>3, <2>4, ChatAssumption DEF ServerTypeOK
  <2>5. ASSUME NEW d \in Conns \ {c}, Entered(d, u)'
        PROVE  connMap'[Host[d]][u] = d
    <3>1. connMap[Host[d]][u] = d /\ d # NoConn
      BY <1>1, <2>5, ChatAssumption DEF Found, Connection
    <3>2. CASE Host[d] = Host[c] /\ u = who[c]
      BY <2>1, <3>1, <3>2 DEF Connection
    <3>3. CASE ~(Host[d] = Host[c] /\ u = who[c])
      BY <1>0, <2>1, <3>1, <3>3, RegularUser, ChatAssumption DEF ServerTypeOK
    <3> QED BY <3>2, <3>3
  <2> QED BY <2>4, <2>5 DEF Found, Connection
<1>3. CASE ~LoginInsert(c)
  <2>1. connMap' = connMap /\ pc[c] # "insert"
    BY <1>3 DEF LoginStep, LoginSubscribe, LoginSetOnline, LoginGetState, LoginAddUser,
       LoginMarkOnline, LoginReadOffline, LoginRemoveOffline, LoginAck, From, serverVars
  <2>2. Entered(c, u)' => Entered(c, u)
    BY <1>0, <2>1, RegularUser DEF Entered, LoginPcs
  <2> QED BY <1>1, <2>1, <2>2 DEF Found, Connection
<1> QED BY <1>2, <1>3

LEMMA LeaveFinds ==
  ASSUME EntryInv, NEW u \in Regular, Found(u), NEW c \in Conns, LeaveStep(c)
  PROVE  Found(u)'
<1>1. ASSUME NEW d \in Conns \ {c}
      PROVE  Entered(d, u)' <=> Entered(d, u)
  BY LeaveMoves, StandsStill, RegularUser DEF Moves
<1>2. ~Entered(c, u)'
  BY LeaveMoves, RegularUser DEF Entered, LoginPcs
<1> QED BY <1>1, <1>2, LeaveMoves DEF Found, Connection

LEMMA OutFinds ==
  ASSUME EntryInv, NEW u \in Regular, Sole(u), Found(u),
         NEW c \in Conns, Moves(c), pc'[c] = "unsubscribe", sess'[c] = NoUser,
         \A s \in Servers : connMap'[s][u] # connMap[s][u] => u = sess[c]
  PROVE  Found(u)'
<1>1. ~Entered(c, u)'
  BY RegularUser DEF Entered, LoginPcs
<1>2. ASSUME NEW d \in Conns \ {c}, Entered(d, u)'
      PROVE  Connection(d, u)' = d
  <2>1. Entered(d, u)
    BY <1>2, StandsStill, RegularUser DEF Moves
  <2>2. connMap[Host[d]][u] = d /\ Claims(d, u) /\ Host[d] \in Servers
    BY <2>1, ChatAssumption DEF Found, Connection, Entered, Claims, Holds
  <2>3. u # sess[c]
    <3> SUFFICES ASSUME u = sess[c] PROVE FALSE
      OBVIOUS
    <3>1. Claims(c, u)
      BY DEF Claims, Holds
    <3> QED BY <2>2, <3>1 DEF Sole
  <2> QED BY <2>2, <2>3 DEF Connection
<1> QED BY <1>1, <1>2 DEF Found

LEMMA StepFinds ==
  ASSUME EntryInv, NEW u \in Regular, Sole(u), Found(u), [Next]_vars
  PROVE  Found(u)'
<1>1. ASSUME NEW c \in Conns, HandlerStep(c) PROVE Found(u)'
  <2>1. CASE LoginStep(c) BY <2>1, LoginFinds
  <2>2. CASE LeaveStep(c) BY <2>2, LeaveFinds
  <2>3. CASE ChatStep(c) BY <2>3, NeutralFinds, ChatNeutral
  <2>4. CASE GroupStep(c) BY <2>4, NeutralFinds, GroupNeutral
  <2> QED BY <1>1, <2>1, <2>2, <2>3, <2>4 DEF HandlerStep
<1>2. ASSUME NEW c \in Conns, Request(c) PROVE Found(u)'
  <2>1. ASSUME NEW v \in Users, NEW pwd \in Passwords, Login(c, v, pwd)
        PROVE  Found(u)'
    <3>1. CASE Refuses(c) BY <3>1, UnmovedFinds DEF Refuses
    <3>2. CASE Admits(c, v)
      <4>1. connMap' = connMap
        BY <3>2 DEF Admits
      <4>2. \A d \in Conns : Entered(d, u)' <=> Entered(d, u)
        BY <3>2, AdmitsClaims
      <4> QED BY <4>1, <4>2 DEF Found, Connection
    <3> QED BY <2>1, <3>1, <3>2, LoginAdmits
  <2>2. CASE Loginout(c) BY <2>2, LogoutMoves, OutFinds
  <2>3. CASE \/ \E v \in Users, m \in Chats : OneChat(c, v, m)
             \/ \E m \in Posts : GroupChat(c, m)
    BY <2>3, NeutralFinds, SendNeutral
  <2> QED BY <1>2, <2>1, <2>2, <2>3 DEF Request
<1>3. ASSUME NEW c \in Conns, ClientCloseException(c) PROVE Found(u)'
  BY <1>3, CloseMoves, OutFinds
<1>4. ASSUME NEW c \in Conns, Connect(c) \/ Disconnect(c) PROVE Found(u)'
  <2>1. Unmoved
    BY <1>4 DEF Unmoved, Connect, Disconnect, locals, storeVars, serverVars
  <2> QED BY <2>1, UnmovedFinds
<1>5. ASSUME NEW s \in Servers, ObserverStep(s) \/ BusStep(s) PROVE Found(u)'
  BY <1>5, OthersUnmoved, UnmovedFinds
<1>6. CASE UNCHANGED vars
  <2>1. Unmoved
    BY <1>6 DEF vars, Unmoved, locals, storeVars, serverVars, clientVars
  <2> QED BY <2>1, UnmovedFinds
<1> QED BY <1>1, <1>2, <1>3, <1>4, <1>5, <1>6 DEF Next

-----------------------------------------------------------------------------
(* All steps together.                                                     *)

LEMMA EveryStep ==
  ASSUME Serial, LockInv, [Next]_vars
  PROVE  LockStep
<1> USE DEF LockInv
<1>1. ASSUME NEW c \in Conns, Neutral(c) PROVE Keeps
  BY <1>1, NeutralKeeps
<1>2. ASSUME Unmoved PROVE Keeps
  BY <1>2, UnmovedKeeps
<1>3. ASSUME NEW c \in Conns, HandlerStep(c) PROVE LockStep
  <2>1. CASE LoginStep(c) BY <2>1, LoginTakes DEF LockStep
  <2>2. CASE LeaveStep(c) BY <2>2, LeaveGives DEF LockStep
  <2>3. CASE ChatStep(c) BY <2>3, <1>1, ChatNeutral DEF LockStep
  <2>4. CASE GroupStep(c) BY <2>4, <1>1, GroupNeutral DEF LockStep
  <2> QED BY <1>3, <2>1, <2>2, <2>3, <2>4 DEF HandlerStep
<1>4. ASSUME NEW c \in Conns, Request(c) PROVE LockStep
  <2>1. ASSUME NEW u \in Users, NEW pwd \in Passwords, Login(c, u, pwd)
        PROVE  LockStep
    BY <2>1, LoginLets DEF LockStep
  <2>2. CASE Loginout(c) BY <2>2, LogoutKeeps DEF LockStep
  <2>3. CASE \/ \E u \in Users, m \in Chats : OneChat(c, u, m)
             \/ \E m \in Posts : GroupChat(c, m)
    BY <2>3, <1>1, SendNeutral DEF LockStep
  <2> QED BY <1>4, <2>1, <2>2, <2>3 DEF Request
<1>5. ASSUME NEW c \in Conns, ClientCloseException(c) PROVE LockStep
  <2>1. \A u \in Regular : Found(u)
    BY DEF EntryThere, Found
  <2>2. Keeps
    BY <1>5, <2>1, CloseKeeps DEF Keeps
  <2> QED BY <2>2 DEF LockStep
<1>6. ASSUME NEW c \in Conns, Connect(c) \/ Disconnect(c) PROVE LockStep
  <2>1. Unmoved
    BY <1>6 DEF Unmoved, Connect, Disconnect, locals, storeVars, serverVars
  <2> QED BY <2>1, <1>2 DEF LockStep
<1>7. ASSUME NEW s \in Servers, ObserverStep(s) \/ BusStep(s) PROVE LockStep
  BY <1>7, <1>2, OthersUnmoved DEF LockStep
<1>8. CASE UNCHANGED vars
  <2>1. Unmoved
    BY <1>8 DEF vars, Unmoved, locals, storeVars, serverVars, clientVars
  <2> QED BY <2>1, <1>2 DEF LockStep
<1> QED BY <1>3, <1>4, <1>5, <1>6, <1>7, <1>8 DEF Next

(* Every step leaves every entry where its connection finds it.            *)
LEMMA EveryEntry ==
  ASSUME LockInv, [Next]_vars
  PROVE  EntryThere'
<1>1. \A u \in Regular : Sole(u) /\ Found(u)
  BY DEF LockInv, OneSession, EntryThere, Sole, Found
<1>2. \A u \in Regular : Found(u)'
  BY <1>1, StepFinds DEF LockInv
<1> QED BY <1>2 DEF EntryThere, Found

LEMMA LockKept ==
  ASSUME OneSession, OnlineRowHasOwner, LockStep
  PROVE  OneSession' /\ OnlineRowHasOwner'
<1>1. CASE Keeps
  <2>1. OneSession'
    BY <1>1 DEF Keeps, KeepsFor, OneSession
  <2>2. OnlineRowHasOwner'
    BY <1>1 DEF Keeps, KeepsFor, OnlineRowHasOwner
  <2> QED BY <2>1, <2>2
<1>2. ASSUME NEW c \in Conns, NEW u \in Regular, Lets(c, u)
      PROVE  OneSession' /\ OnlineRowHasOwner'
  BY <1>2 DEF Lets, OneSession, OnlineRowHasOwner
<1>3. ASSUME NEW c \in Conns, NEW u \in Regular, Takes(c, u)
      PROVE  OneSession' /\ OnlineRowHasOwner'
  BY <1>3 DEF Takes, OneSession, OnlineRowHasOwner
<1>4. ASSUME NEW c \in Conns, NEW u \in Regular, Gives(c, u)
      PROVE  OneSession' /\ OnlineRowHasOwner'
  <2>1. \A d \in Conns : Holds(d, u) => d = c
    BY <1>4, HoldsClaims DEF Gives, OneSession
  <2> QED BY <1>4, <2>1 DEF Gives, OneSession, OnlineRowHasOwner
<1> QED BY <1>1, <1>2, <1>3, <1>4 DEF LockStep
LEMMA InitLock == Init => LockInv
<1> SUFFICES ASSUME Init PROVE LockInv
  OBVIOUS
<1>1. EntryInv
  BY InitEntry
<1>2. \A c \in Conns, u \in Regular : ~Claims(c, u) /\ ~Holds(c, u) /\ ~Entered(c, u)
  BY RegularUser DEF Init, ServiceInit, Claims, Holds, Entered, LoginPcs
<1>3. \A u \in Regular : dbState[u] = "offline"
  BY RegularUser DEF Init, StoreInit
<1>4. OneSession /\ OnlineRowHasOwner /\ EntryThere
  BY <1>2, <1>3 DEF OneSession, OnlineRowHasOwner, EntryThere
<1> QED BY <1>1, <1>4 DEF LockInv

LEMMA StepLock ==
  ASSUME Serial
  PROVE  LockInv /\ [Next]_vars => LockInv' /\ LockStep
BY StepEntry, EveryStep, EveryEntry, LockKept DEF LockInv

LEMMA LockInvariance ==
  ASSUME Serial
  PROVE  Spec => []LockInv
<1>1. LockInv /\ [Next]_vars => LockInv'
  BY StepLock
<1> QED BY <1>1, InitLock, PTL DEF Spec

(* The whole cluster lets one connection at a time in as a user.           *)
THEOREM OneSessionTheorem ==
  ASSUME Serial
  PROVE  Spec => []OneSession
<1>1. LockInv => OneSession
  BY DEF LockInv
<1> QED BY <1>1, LockInvariance, PTL

(* A row is "online" exactly while a connection is there that will reset   *)
(* it, however its client goes away.                                       *)
THEOREM OnlineRowTheorem ==
  ASSUME Serial
  PROVE  Spec => []OnlineRowHasOwner
<1>1. LockInv => OnlineRowHasOwner
  BY DEF LockInv
<1> QED BY <1>1, LockInvariance, PTL

-----------------------------------------------------------------------------
(* The refinement.                                                         *)

holderBar == [u \in Regular |-> HolderOf(u)]

LEMMA HolderIs ==
  ASSUME OneSession, NEW u \in Regular
  PROVE  /\ \A c \in Conns : HolderOf(u) = c <=> Holds(c, u)
         /\ HolderOf(u) \in Conns \cup {NoConn}
<1>1. CASE \E c \in Conns : Holds(c, u)
  <2>1. PICK c \in Conns : Holds(c, u)
    BY <1>1
  <2>2. \A d \in Conns : Holds(d, u) => d = c
    BY <2>1, HoldsClaims DEF OneSession
  <2>3. HolderOf(u) = c
    BY <2>1, <2>2 DEF HolderOf
  <2> QED BY <2>1, <2>2, <2>3
<1>2. CASE ~ \E c \in Conns : Holds(c, u)
  BY <1>2, ChatAssumption DEF HolderOf
<1> QED BY <1>1, <1>2

LEMMA HolderNext ==
  ASSUME OneSession', NEW u \in Regular
  PROVE  /\ \A c \in Conns : HolderOf(u)' = c <=> Holds(c, u)'
         /\ HolderOf(u)' \in Conns \cup {NoConn}
<1>1. CASE \E c \in Conns : Holds(c, u)'
  <2>1. PICK c \in Conns : Holds(c, u)'
    BY <1>1
  <2>2. \A d \in Conns : Holds(d, u)' => d = c
    BY <2>1 DEF OneSession, Claims
  <2>3. HolderOf(u)' = c
    BY <2>1, <2>2 DEF HolderOf
  <2> QED BY <2>1, <2>2, <2>3
<1>2. CASE ~ \E c \in Conns : Holds(c, u)'
  BY <1>2, ChatAssumption DEF HolderOf
<1> QED BY <1>1, <1>2

LEMMA SameHolder ==
  ASSUME OneSession, OneSession', NEW u \in Regular,
         \A c \in Conns : Holds(c, u)' <=> Holds(c, u)
  PROVE  HolderOf(u)' = HolderOf(u)
<1>1. /\ \A c \in Conns : HolderOf(u) = c <=> Holds(c, u)
      /\ HolderOf(u) \in Conns \cup {NoConn}
  BY HolderIs
<1>2. /\ \A c \in Conns : HolderOf(u)' = c <=> Holds(c, u)'
      /\ HolderOf(u)' \in Conns \cup {NoConn}
  BY HolderNext
<1> QED BY <1>1, <1>2

(* A step of the handlers is a step of the lock, or changes no holder.     *)
LEMMA LockRefines ==
  ASSUME OneSession, OneSession', LockStep
  PROVE  [AccountLock!LockNext]_holderBar
<1>1. CASE Keeps
  <2>1. \A u \in Regular : HolderOf(u)' = HolderOf(u)
    BY <1>1, SameHolder DEF Keeps, KeepsFor
  <2> QED BY <2>1 DEF holderBar
<1>2. ASSUME NEW c \in Conns, NEW u \in Regular, Lets(c, u)
      PROVE  UNCHANGED holderBar
  <2>1. \A v \in Regular : HolderOf(v)' = HolderOf(v)
    BY <1>2, SameHolder DEF Lets
  <2> QED BY <2>1 DEF holderBar
<1>3. ASSUME NEW c \in Conns, NEW u \in Regular, Takes(c, u)
      PROVE  AccountLock!Acquire(u, c)
  <2>1. \A v \in Regular \ {u} : HolderOf(v)' = HolderOf(v)
    BY <1>3, SameHolder DEF Takes
  <2>2. HolderOf(u) = NoConn
    <3>1. \A d \in Conns : ~Holds(d, u)
      BY <1>3, HoldsClaims DEF Takes, OneSession
    <3> QED BY <3>1, HolderIs
  <2>3. HolderOf(u)' = c
    BY <1>3, HolderNext DEF Takes
  <2>4. holderBar' = [holderBar EXCEPT ![u] = c]
    BY <2>1, <2>3 DEF holderBar
  <2> QED BY <2>2, <2>4 DEF AccountLock!Acquire, holderBar
<1>4. ASSUME NEW c \in Conns, NEW u \in Regular, Gives(c, u)
      PROVE  AccountLock!GiveUp(u)
  <2>1. \A v \in Regular \ {u} : HolderOf(v)' = HolderOf(v)
    BY <1>4, SameHolder DEF Gives
  <2>2. HolderOf(u) = c /\ c # NoConn
    BY <1>4, HolderIs, ChatAssumption DEF Gives
  <2>3. HolderOf(u)' = NoConn
    <3>1. \A d \in Conns : ~Holds(d, u)'
      BY <1>4, HoldsClaims DEF Gives, OneSession
    <3> QED BY <3>1, HolderNext
  <2>4. holderBar' = [holderBar EXCEPT ![u] = NoConn]
    BY <2>1, <2>3 DEF holderBar
  <2> QED BY <2>2, <2>4 DEF AccountLock!GiveUp, holderBar
<1> QED BY <1>1, <1>2, <1>3, <1>4 DEF LockStep, AccountLock!LockNext, holderBar

LEMMA InitRefines ==
  ASSUME Init
  PROVE  AccountLock!LockInit
<1>1. \A u \in Regular, c \in Conns : ~Holds(c, u)
  BY RegularUser DEF Init, ServiceInit, Holds, LoginPcs
<1>2. \A u \in Regular : HolderOf(u) = NoConn
  BY <1>1 DEF HolderOf
<1> QED BY <1>2 DEF AccountLock!LockInit

(* The handlers of all servers together implement one lock per account.    *)
THEOREM LockTheorem ==
  ASSUME Serial
  PROVE  Spec => ImplementsSessionLock
<1>1. LockInv /\ LockInv' /\ [Next]_vars => [AccountLock!LockNext]_holderBar
  <2> SUFFICES ASSUME LockInv, LockInv', [Next]_vars
               PROVE  [AccountLock!LockNext]_holderBar
    OBVIOUS
  <2>1. LockStep
    BY StepLock
  <2>2. OneSession /\ OneSession'
    BY DEF LockInv
  <2> QED BY <2>1, <2>2, LockRefines
<1>2. Init => AccountLock!LockInit
  BY InitRefines
<1>3. Spec => AccountLock!LockInit /\ [][AccountLock!LockNext]_holderBar
  BY <1>1, <1>2, LockInvariance, PTL DEF Spec
<1> QED BY <1>3, PTL DEF ImplementsSessionLock, AccountLock!LockSpec, holderBar

-----------------------------------------------------------------------------
(* The mutex.                                                              *)

LEMMA MapStep ==
  ASSUME TypeOK, [Next]_vars
  PROVE  \A s \in Servers : lock[s] # Free => UNCHANGED connMap[s]
<1> USE DEF TypeOK, ServerTypeOK, serverVars
<1> DEFINE Stable == \A s \in Servers : lock[s] # Free => UNCHANGED connMap[s]
<1>0. ASSUME connMap' = connMap PROVE Stable
  BY <1>0
<1>1. ASSUME NEW h \in Servers, Unlocked(h), NEW f, connMap' = [connMap EXCEPT ![h] = f]
      PROVE  Stable
  BY <1>1 DEF Unlocked
<1>2. ASSUME NEW c \in Conns, HandlerStep(c) PROVE Stable
  <2>1. CASE LoginInsert(c)
    <3>1. /\ Host[c] \in Servers /\ Unlocked(Host[c])
          /\ \/ connMap' = connMap
             \/ connMap' = [connMap EXCEPT ![Host[c]][who[c]] = c]
      BY <2>1, ChatAssumption DEF LoginInsert
    <3> QED BY <3>1, <1>0, <1>1
  <2>2. CASE ~LoginInsert(c)
    <3>1. CASE LoginStep(c)
      BY <2>2, <3>1 DEF LoginStep, LoginSubscribe, LoginSetOnline, LoginGetState, LoginAddUser,
         LoginMarkOnline, LoginReadOffline, LoginRemoveOffline, LoginAck
    <3>2. CASE LeaveStep(c)
      BY <3>2 DEF LeaveStep, LeaveUnsubscribe, LeaveSetOffline, LeaveDelUser
    <3>3. CASE ChatStep(c)
      BY <3>3 DEF ChatStep, ChatGetState, ChatPublish, ChatStore, ChatQuery, ChatSetOnline,
         ChatInsert, ChatSetOffline
    <3>4. CASE GroupStep(c)
      BY <3>4 DEF GroupStep, GroupLock, GroupNext, GroupDone, GroupGetState, GroupPublishReturn,
         GroupStoreReturn, GroupQuery, GroupSetState, GroupPublish, GroupStore
    <3> QED BY <1>2, <3>1, <3>2, <3>3, <3>4 DEF HandlerStep
  <2> QED BY <2>1, <2>2
<1>3. ASSUME NEW c \in Conns, Request(c) PROVE Stable
  <2>1. CASE Loginout(c)
    <3>1. /\ Host[c] \in Servers /\ Unlocked(Host[c])
          /\ connMap' = [connMap EXCEPT ![Host[c]][sess[c]] = NoConn]
      BY <2>1, ChatAssumption DEF Loginout, Erase
    <3> QED BY <3>1, <1>1
  <2>2. CASE ~Loginout(c)
    BY <1>3, <2>2 DEF Request, Login, OneChat, GroupChat
  <2> QED BY <2>1, <2>2
<1>4. ASSUME NEW c \in Conns, ClientCloseException(c) PROVE Stable
  <2>1. /\ Host[c] \in Servers /\ Unlocked(Host[c])
        /\ \/ connMap' = connMap
           \/ \E u : connMap' = [connMap EXCEPT ![Host[c]][u] = NoConn]
    BY <1>4, ChatAssumption DEF ClientCloseException, Erase
  <2> QED BY <2>1, <1>0, <1>1
<1>5. ASSUME NEW c \in Conns, Connect(c) \/ Disconnect(c) PROVE Stable
  BY <1>5 DEF Connect, Disconnect
<1>6. ASSUME NEW s \in Servers, ObserverStep(s) \/ BusStep(s) PROVE Stable
  BY <1>6 DEF ObserverStep, ObserverDeliver, ObserverMiss, ObserverStore, BusStep
<1>7. CASE UNCHANGED vars
  BY <1>7 DEF vars
<1> QED BY <1>2, <1>3, <1>4, <1>5, <1>6, <1>7 DEF Next

(* While groupChat walks over the members, Redis and MySQL calls included, *)
(* or the observer stores a message, no other handler changes that map.    *)
THEOREM MapTheorem == Spec => MapStableUnderLock
<1>1. TypeInv /\ [Next]_vars
        => [\A s \in Servers : lock[s] # Free => UNCHANGED connMap[s]]_vars
  BY MapStep DEF TypeInv
<1> QED BY <1>1, TypeInvariance, PTL DEF Spec, MapStableUnderLock

-----------------------------------------------------------------------------
(***************************************************************************)
(* Where messages for a user go, under the same assumption: the channels a *)
(* server listens to are those of the users connected to it.               *)
(*                                                                         *)
(* A server's subscriptions lag behind its handlers, since SUBSCRIBE and   *)
(* UNSUBSCRIBE are only written to a socket.  What the invariant is about  *)
(* is where the server will listen once Redis has executed what was        *)
(* written.                                                                *)
(***************************************************************************)
(* Connection c has subscribed its server for u, and not unsubscribed yet. *)
Subscribed(c, u) ==
    \/ sess[c] = u
    \/ who[c] = u /\ pc[c] \in LoginPcs \ {"insert", "subscribe"}
    \/ who[c] = u /\ pc[c] = "unsubscribe"

(* No command about u is in the socket of server s.                        *)
Silent(s, u) == \A i \in 1 .. Len(cmds[s]) : cmds[s][i].channel # u

(* The last command about u in that socket is a SUBSCRIBE.                 *)
OpensLast(s, u) ==
    \E i \in 1 .. Len(cmds[s]) :
        /\ cmds[s][i] = [verb |-> "SUBSCRIBE", channel |-> u]
        /\ \A j \in (i + 1) .. Len(cmds[s]) : cmds[s][j].channel # u

WillListen(s, u) == OpensLast(s, u) \/ (u \in subs[s] /\ Silent(s, u))

ChannelInv ==
    /\ \A s \in Servers : Len(cmds[s]) <= MaxCmds
    /\ \A s \in Servers, u \in Regular :
          WillListen(s, u) <=> \E c \in Conns : Host[c] = s /\ Subscribed(c, u)

-----------------------------------------------------------------------------
(* What the operations of RedisBus do to WillListen.                       *)

LEMMA SocketIs ==
  ASSUME RedisTypeOK, NEW s \in Servers
  PROVE  /\ cmds[s] \in Seq(Command) /\ Len(cmds[s]) \in Nat
         /\ \A i \in 1 .. Len(cmds[s]) : cmds[s][i] \in Command
<1>1. cmds[s] \in Seq(Command)
  BY DEF RedisTypeOK
<1> QED BY <1>1, LenProperties, ElementOfSeq

(* An untouched socket and set of channels.                                *)
LEMMA SocketStill ==
  ASSUME NEW t \in Servers, NEW v, cmds'[t] = cmds[t], v \in subs'[t] <=> v \in subs[t]
  PROVE  WillListen(t, v)' <=> WillListen(t, v)
BY DEF WillListen, OpensLast, Silent

LEMMA WriteListens ==
  ASSUME RedisTypeOK, NEW s \in Servers, NEW u \in Users, NEW verb, Write(s, verb, u),
         NEW t \in Servers, NEW v \in Users
  PROVE  WillListen(t, v)' <=> IF t = s /\ v = u THEN verb = "SUBSCRIBE" ELSE WillListen(t, v)
<1> DEFINE cmd == [verb |-> verb, channel |-> u]
           n == Len(cmds[s])
<1>1. /\ subs' = subs /\ cmds' = [cmds EXCEPT ![s] = Append(cmds[s], cmd)]
  BY DEF Write
<1>2. CASE t # s
  <2>1. cmds'[t] = cmds[t] /\ subs' = subs
    BY <1>1, <1>2 DEF RedisTypeOK
  <2> QED BY <2>1, <1>2, SocketStill
<1>3. CASE t = s
  <2>1. cmds'[s] = Append(cmds[s], cmd)
    BY <1>1 DEF RedisTypeOK
  <2>2. n \in Nat /\ cmds[s] \in Seq(Command)
    BY SocketIs
  <2>3. /\ Len(cmds'[s]) = n + 1
        /\ cmds'[s][n + 1] = cmd
        /\ \A i \in 1 .. n : cmds'[s][i] = cmds[s][i]
    BY <2>1, <2>2, SMT
  <2>4. cmd.channel = u
    OBVIOUS
  <2>5. CASE v = u
    <3>1. ~ Silent(s, v)'
      BY <2>2, <2>3, <2>4, <2>5 DEF Silent
    <3>2. ASSUME verb = "SUBSCRIBE" PROVE OpensLast(s, v)'
      <4>1. cmds'[s][n + 1] = [verb |-> "SUBSCRIBE", channel |-> v]
        BY <2>3, <2>5, <3>2
      <4>2. (n + 1) \in 1 .. (n + 1) /\ (n + 1 + 1) .. (n + 1) = {}
        BY <2>2
      <4> QED BY <4>1, <4>2, <2>3 DEF OpensLast
    <3>3. ASSUME OpensLast(s, v)' PROVE verb = "SUBSCRIBE"
      <4>1. PICK i \in 1 .. (n + 1) :
               /\ cmds'[s][i] = [verb |-> "SUBSCRIBE", channel |-> v]
               /\ \A j \in (i + 1) .. (n + 1) : cmds'[s][j].channel # v
        BY <3>3, <2>3 DEF OpensLast
      <4>2. ~ (n + 1 \in (i + 1) .. (n + 1))
        BY <4>1, <2>3, <2>4, <2>5
      <4>3. i = n + 1
        BY <4>2, <2>2
      <4>4. cmd.verb = "SUBSCRIBE"
        BY <4>1, <4>3, <2>3
      <4> QED BY <4>4
    <3> QED BY <1>3, <2>5, <3>1, <3>2, <3>3 DEF WillListen
  <2>6. CASE v # u
    <3>1. Silent(s, v)' <=> Silent(s, v)
      BY <2>2, <2>3, <2>4, <2>6 DEF Silent
    <3>2. ASSUME OpensLast(s, v) PROVE OpensLast(s, v)'
      <4>1. PICK i \in 1 .. n :
               /\ cmds[s][i] = [verb |-> "SUBSCRIBE", channel |-> v]
               /\ \A j \in (i + 1) .. n : cmds[s][j].channel # v
        BY <3>2 DEF OpensLast
      <4>2. i \in 1 .. (n + 1) /\ \A j \in (i + 1) .. (n + 1) : j \in (i + 1) .. n \/ j = n + 1
        BY <2>2
      <4>3. \A j \in (i + 1) .. n : j \in 1 .. n
        BY <2>2
      <4>4. \A j \in (i + 1) .. (n + 1) : cmds'[s][j].channel # v
        BY <4>1, <4>2, <4>3, <2>3, <2>4, <2>6
      <4> QED BY <4>1, <4>2, <4>4, <2>3 DEF OpensLast
    <3>3. ASSUME OpensLast(s, v)' PROVE OpensLast(s, v)
      <4>1. PICK i \in 1 .. (n + 1) :
               /\ cmds'[s][i] = [verb |-> "SUBSCRIBE", channel |-> v]
               /\ \A j \in (i + 1) .. (n + 1) : cmds'[s][j].channel # v
        BY <3>3, <2>3 DEF OpensLast
      <4>2. i # n + 1
        BY <4>1, <2>3, <2>4, <2>6
      <4>3. i \in 1 .. n /\ \A j \in (i + 1) .. n : j \in 1 .. n /\ j \in (i + 1) .. (n + 1)
        BY <2>2, <4>2
      <4> QED BY <4>1, <4>3, <2>3 DEF OpensLast
    <3> QED BY <1>1, <1>3, <2>6, <3>1, <3>2, <3>3 DEF WillListen
  <2> QED BY <2>5, <2>6
<1> QED BY <1>2, <1>3

LEMMA WriteFits ==
  ASSUME RedisTypeOK, \A t \in Servers : Len(cmds[t]) <= MaxCmds,
         NEW s \in Servers, NEW u \in Users, NEW verb, Write(s, verb, u)
  PROVE  \A t \in Servers : Len(cmds'[t]) <= MaxCmds
<1> SUFFICES ASSUME NEW t \in Servers PROVE Len(cmds'[t]) <= MaxCmds
  OBVIOUS
<1>1. MaxCmds \in Nat /\ Len(cmds[s]) \in Nat /\ Len(cmds[s]) < MaxCmds
      /\ cmds[s] \in Seq(Command)
  BY MaxCmdsAssumption, SocketIs DEF Write
<1>2. CASE t # s
  BY <1>2 DEF Write, RedisTypeOK
<1>3. CASE t = s
  <2>1. cmds'[s] = Append(cmds[s], [verb |-> verb, channel |-> u])
    BY DEF Write, RedisTypeOK
  <2>2. Len(cmds'[s]) = Len(cmds[s]) + 1
    BY <1>1, <2>1, SMT
  <2> QED BY <1>1, <1>3, <2>2
<1> QED BY <1>2, <1>3

(* What Redis executes changes what a server listens to, not what it will. *)
LEMMA ExecuteListens ==
  ASSUME RedisTypeOK, NEW s \in Servers, RedisExecute(s), NEW t \in Servers, NEW v \in Users
  PROVE  WillListen(t, v)' <=> WillListen(t, v)
<1> DEFINE n == Len(cmds[s])
           first == cmds[s][1]
<1>1. CASE t # s
  <2>1. cmds'[t] = cmds[t] /\ subs'[t] = subs[t]
    BY <1>1 DEF RedisTypeOK, RedisExecute
  <2> QED BY <2>1, SocketStill
<1>2. CASE t = s
  <2>1. n \in Nat /\ cmds[s] \in Seq(Command) /\ cmds[s] # <<>>
    BY SocketIs DEF RedisExecute
  <2>2. n >= 1 /\ Head(cmds[s]) = first
    BY <2>1, SMT
  <2>3. first \in Command
    BY <2>1, <2>2, SocketIs
  <2>4. /\ cmds'[s] = Tail(cmds[s])
        /\ subs'[s] = IF first.verb = "SUBSCRIBE" THEN subs[s] \cup {first.channel}
                                                  ELSE subs[s] \ {first.channel}
    BY <2>2 DEF RedisExecute, RedisTypeOK
  <2>5. /\ Len(cmds'[s]) = n - 1
        /\ \A i \in 1 .. (n - 1) : cmds'[s][i] = cmds[s][i + 1]
    BY <2>1, <2>4, SMT
  <2>6. /\ \A i \in 1 .. (n - 1) : i + 1 \in 1 .. n /\ i + 1 # 1
        /\ \A i \in 1 .. n : i = 1 \/ (i - 1 \in 1 .. (n - 1) /\ (i - 1) + 1 = i)
    BY <2>1, <2>2
  <2>7. Silent(s, v) <=> first.channel # v /\ Silent(s, v)'
    <3>1. 1 \in 1 .. n
      BY <2>1, <2>2
    <3>2. \A i \in 1 .. n : i # 1 => cmds[s][i] = cmds'[s][i - 1]
      BY <2>5, <2>6
    <3>3. ASSUME Silent(s, v) PROVE first.channel # v /\ Silent(s, v)'
      BY <3>1, <3>3, <2>5, <2>6 DEF Silent
    <3>4. ASSUME first.channel # v, Silent(s, v)' PROVE Silent(s, v)
      BY <3>2, <3>4, <2>5, <2>6 DEF Silent
    <3> QED BY <3>3, <3>4
  <2>8. ASSUME OpensLast(s, v)' PROVE OpensLast(s, v)
    <3>1. PICK i \in 1 .. (n - 1) :
             /\ cmds'[s][i] = [verb |-> "SUBSCRIBE", channel |-> v]
             /\ \A j \in (i + 1) .. (n - 1) : cmds'[s][j].channel # v
      BY <2>5, <2>8 DEF OpensLast
    <3>2. cmds[s][i + 1] = [verb |-> "SUBSCRIBE", channel |-> v] /\ i + 1 \in 1 .. n
      BY <2>5, <2>6, <3>1
    <3>3. ASSUME NEW j \in (i + 1 + 1) .. n PROVE cmds[s][j].channel # v
      <4>1. j - 1 \in (i + 1) .. (n - 1) /\ j - 1 \in 1 .. (n - 1) /\ (j - 1) + 1 = j
        BY <2>1, <3>1
      <4> QED BY <4>1, <3>1, <2>5
    <3> QED BY <3>2, <3>3 DEF OpensLast
  <2>9. ASSUME OpensLast(s, v)
        PROVE  OpensLast(s, v)' \/ (first.verb = "SUBSCRIBE" /\ first.channel = v /\ Silent(s, v)')
    <3>1. PICK i \in 1 .. n :
             /\ cmds[s][i] = [verb |-> "SUBSCRIBE", channel |-> v]
             /\ \A j \in (i + 1) .. n : cmds[s][j].channel # v
      BY <2>9 DEF OpensLast
    <3>2. CASE i = 1
      <4>1. \A j \in 1 .. (n - 1) : j + 1 \in (i + 1) .. n
        BY <2>1, <3>2
      <4>2. Silent(s, v)'
        BY <4>1, <3>1, <2>5 DEF Silent
      <4> QED BY <4>2, <3>1, <3>2
    <3>3. CASE i # 1
      <4>1. i - 1 \in 1 .. (n - 1) /\ cmds'[s][i - 1] = [verb |-> "SUBSCRIBE", channel |-> v]
        BY <3>1, <3>3, <2>5, <2>6
      <4>2. ASSUME NEW j \in ((i - 1) + 1) .. (n - 1) PROVE cmds'[s][j].channel # v
        <5>1. j \in 1 .. (n - 1) /\ j + 1 \in (i + 1) .. n
          BY <2>1, <3>1
        <5> QED BY <5>1, <3>1, <2>5
      <4>3. OpensLast(s, v)'
        BY <4>1, <4>2, <2>5 DEF OpensLast
      <4> QED BY <4>3
    <3> QED BY <3>2, <3>3
  <2>10. ASSUME first.verb = "SUBSCRIBE", first.channel = v, Silent(s, v)'
         PROVE  OpensLast(s, v)
    <3>1. first = [verb |-> "SUBSCRIBE", channel |-> v] /\ 1 \in 1 .. n
      BY <2>1, <2>2, <2>3, <2>10 DEF Command
    <3>2. ASSUME NEW j \in (1 + 1) .. n PROVE cmds[s][j].channel # v
      <4>1. j - 1 \in 1 .. (n - 1) /\ (j - 1) + 1 = j
        BY <2>1
      <4> QED BY <4>1, <2>5, <2>10 DEF Silent
    <3> QED BY <3>1, <3>2 DEF OpensLast
  <2>11. v \in subs'[s] <=> IF first.channel = v THEN first.verb = "SUBSCRIBE" ELSE v \in subs[s]
    BY <2>4
  <2> QED BY <1>2, <2>7, <2>8, <2>9, <2>10, <2>11 DEF WillListen
<1> QED BY <1>1, <1>2

LEMMA ExecuteFits ==
  ASSUME RedisTypeOK, \A t \in Servers : Len(cmds[t]) <= MaxCmds,
         NEW s \in Servers, RedisExecute(s)
  PROVE  \A t \in Servers : Len(cmds'[t]) <= MaxCmds
<1> SUFFICES ASSUME NEW t \in Servers PROVE Len(cmds'[t]) <= MaxCmds
  OBVIOUS
<1>1. MaxCmds \in Nat /\ Len(cmds[s]) \in Nat /\ Len(cmds[s]) <= MaxCmds
      /\ cmds[s] \in Seq(Command) /\ cmds[s] # <<>>
  BY MaxCmdsAssumption, SocketIs DEF RedisExecute
<1>2. CASE t # s
  BY <1>2 DEF RedisExecute, RedisTypeOK
<1>3. CASE t = s
  <2>1. cmds'[s] = Tail(cmds[s])
    BY DEF RedisExecute, RedisTypeOK
  <2>2. Len(cmds'[s]) = Len(cmds[s]) - 1
    BY <1>1, <2>1, SMT
  <2> QED BY <1>1, <1>3, <2>2
<1> QED BY <1>2, <1>3

-----------------------------------------------------------------------------
(* What each handler does to the subscriptions.                            *)

(* Nobody subscribes or unsubscribes.                                      *)
Subscribing == \A d \in Conns, u \in Regular : Subscribed(d, u)' <=> Subscribed(d, u)

SameChannels == subs' = subs /\ cmds' = cmds

LEMMA SubscribedStill ==
  ASSUME NEW c \in Conns, Moves(c),
         \A u \in Regular : Subscribed(c, u)' <=> Subscribed(c, u)
  PROVE  Subscribing
BY DEF Subscribing, Subscribed, Moves

LEMMA NeutralSubscribing ==
  ASSUME NEW c \in Conns, Neutral(c)
  PROVE  Subscribing
<1>1. \A u \in Regular : Subscribed(c, u)' <=> Subscribed(c, u)
  BY DEF Neutral, Subscribed, SessionPcs, LeavePcs, LoginPcs
<1> QED BY <1>1, SubscribedStill DEF Neutral

LEMMA ChatChannels ==
  ASSUME NEW c \in Conns, ChatStep(c)
  PROVE  SameChannels
<1> USE DEF SameChannels, redisVars
<1>1. CASE ChatGetState(c) BY <1>1 DEF ChatGetState
<1>2. CASE ChatPublish(c) BY <1>2 DEF ChatPublish, Publish
<1>3. CASE ChatStore(c) BY <1>3 DEF ChatStore
<1>4. CASE ChatQuery(c) BY <1>4 DEF ChatQuery
<1>5. CASE ChatSetOnline(c) BY <1>5 DEF ChatSetOnline, SetState
<1>6. CASE ChatInsert(c) BY <1>6 DEF ChatInsert
<1>7. CASE ChatSetOffline(c) BY <1>7 DEF ChatSetOffline, SetState
<1> QED BY <1>1, <1>2, <1>3, <1>4, <1>5, <1>6, <1>7 DEF ChatStep

LEMMA GroupChannels ==
  ASSUME NEW c \in Conns, GroupStep(c)
  PROVE  SameChannels
<1> USE DEF SameChannels, redisVars
<1>1. CASE GroupLock(c) BY <1>1 DEF GroupLock
<1>2. CASE GroupNext(c) BY <1>2 DEF GroupNext
<1>3. CASE GroupDone(c) BY <1>3 DEF GroupDone
<1>4. CASE GroupGetState(c) BY <1>4 DEF GroupGetState
<1>5. CASE GroupPublishReturn(c) BY <1>5 DEF GroupPublishReturn, Publish
<1>6. CASE GroupStoreReturn(c) BY <1>6 DEF GroupStoreReturn
<1>7. CASE GroupQuery(c) BY <1>7 DEF GroupQuery
<1>8. CASE GroupSetState(c) BY <1>8 DEF GroupSetState, SetState
<1>9. CASE GroupPublish(c) BY <1>9 DEF GroupPublish, Publish
<1>10. CASE GroupStore(c) BY <1>10 DEF GroupStore
<1> QED BY <1>1, <1>2, <1>3, <1>4, <1>5, <1>6, <1>7, <1>8, <1>9, <1>10 DEF GroupStep

LEMMA LoginChannels ==
  ASSUME EntryInv, NEW c \in Conns, LoginStep(c), ~LoginSubscribe(c)
  PROVE  SameChannels /\ Subscribing
<1> USE DEF EntryInv, TypeInv, TypeOK, HandlerTypeOK
<1>0. /\ Moves(c) /\ pc[c] \in LoginPcs /\ sess[c] = NoUser /\ who[c] \in Users
      /\ \/ pc'[c] \in LoginPcs \ {"insert"} /\ who'[c] = who[c] /\ sess' = sess
         \/ pc[c] = "ackLogin" /\ pc'[c] = "idle" /\ sess'[c] = who[c] /\ who'[c] = NoUser
  BY LoginMoves
<1>1. /\ SameChannels /\ pc[c] # "subscribe"
      /\ pc'[c] = "subscribe" => pc[c] = "insert"
      /\ pc[c] = "insert" => pc'[c] = "subscribe"
  <2> USE DEF SameChannels, redisVars, From, Goto
  <2>1. CASE LoginInsert(c) BY <2>1 DEF LoginInsert
  <2>2. CASE LoginSetOnline(c) BY <2>2 DEF LoginSetOnline
  <2>3. CASE LoginGetState(c)
    <3>1. key[who[c]] \in KeyState
      BY <1>0 DEF RedisTypeOK
    <3> QED BY <3>1, <2>3 DEF LoginGetState, GetState, KeyState
  <2>4. CASE LoginAddUser(c) \/ LoginMarkOnline(c)
    BY <2>4 DEF LoginAddUser, LoginMarkOnline, AddUser, SetState
  <2>5. CASE LoginReadOffline(c) BY <2>5 DEF LoginReadOffline
  <2>6. CASE LoginRemoveOffline(c) BY <2>6 DEF LoginRemoveOffline
  <2>7. CASE LoginAck(c) BY <2>7 DEF LoginAck, Return
  <2> QED BY <2>1, <2>2, <2>3, <2>4, <2>5, <2>6, <2>7 DEF LoginStep
<1>2. \A u \in Regular : Subscribed(c, u)' <=> Subscribed(c, u)
  BY <1>0, <1>1, RegularUser DEF Subscribed, LoginPcs
<1> QED BY <1>0, <1>1, <1>2, SubscribedStill

LEMMA LeaveChannels ==
  ASSUME EntryInv, NEW c \in Conns, LeaveStep(c), ~LeaveUnsubscribe(c)
  PROVE  SameChannels /\ Subscribing
<1> USE DEF EntryInv, TypeInv, TypeOK, HandlerTypeOK, From, Goto, locals, clientVars, redisVars
<1>1. /\ Moves(c) /\ sess' = sess /\ SameChannels
      /\ pc[c] \in {"setOffline", "delUser"} /\ pc'[c] \in {"delUser", "idle"}
  <2>1. CASE LeaveSetOffline(c) BY <2>1 DEF LeaveSetOffline, Moves, SameChannels
  <2>2. CASE LeaveDelUser(c)
    BY <2>2 DEF LeaveDelUser, Moves, SameChannels, Return, DelUser, SetState, ClientTypeOK
  <2> QED BY <2>1, <2>2 DEF LeaveStep
<1>2. \A u \in Regular : Subscribed(c, u)' <=> Subscribed(c, u)
  BY <1>1 DEF Subscribed, LoginPcs
<1> QED BY <1>1, <1>2, SubscribedStill

LEMMA RequestChannels ==
  ASSUME LockInv, NEW c \in Conns, Request(c) \/ ClientCloseException(c)
  PROVE  SameChannels /\ Subscribing
<1> USE DEF LockInv, EntryInv, TypeInv, TypeOK, HandlerTypeOK, ClientTypeOK, From, Goto,
            redisVars, SameChannels, clientVars
<1>1. SameChannels
  BY DEF Request, Login, Loginout, OneChat, GroupChat, ClientCloseException
<1>2. ASSUME Keeps, pc[c] = "idle", pc'[c] = "unsubscribe", sess'[c] = NoUser, Moves(c)
      PROVE  Subscribing
  <2>1. \A u \in Regular : /\ Subscribed(c, u) <=> Holds(c, u)
                           /\ Subscribed(c, u)' <=> Holds(c, u)'
    BY <1>2, RegularUser DEF Subscribed, Holds, LoginPcs
  <2> QED BY <1>2, <2>1, SubscribedStill DEF Keeps, KeepsFor
<1>3. CASE Loginout(c)
  <2>1. /\ Moves(c) /\ pc[c] = "idle" /\ pc'[c] = "unsubscribe" /\ sess'[c] = NoUser
    BY <1>3 DEF Loginout, Receives, Moves
  <2> QED BY <1>1, <1>2, <1>3, <2>1, LogoutKeeps
<1>4. CASE ClientCloseException(c)
  <2>1. /\ Moves(c) /\ pc[c] = "idle" /\ pc'[c] = "unsubscribe" /\ sess'[c] = NoUser
    BY <1>4 DEF ClientCloseException, Moves
  <2>2. \A u \in Regular : Found(u)
    BY DEF EntryThere, Found
  <2>3. Keeps
    BY <1>4, <2>2, CloseKeeps DEF Keeps
  <2> QED BY <1>1, <1>2, <2>1, <2>3
<1>5. ASSUME NEW u \in Users, NEW pwd \in Passwords, Login(c, u, pwd)
      PROVE  Subscribing
  <2>1. /\ Moves(c) /\ pc[c] = "idle" /\ sess[c] = NoUser /\ sess' = sess
        /\ pc'[c] \in {"idle", "insert"}
    BY <1>5 DEF Login, Receives, Moves
  <2>2. \A v \in Regular : Subscribed(c, v)' <=> Subscribed(c, v)
    BY <2>1, RegularUser DEF Subscribed, LoginPcs
  <2> QED BY <2>1, <2>2, SubscribedStill
<1>6. CASE \/ \E u \in Users, m \in Chats : OneChat(c, u, m)
           \/ \E m \in Posts : GroupChat(c, m)
  BY <1>1, <1>6, SendNeutral, NeutralSubscribing
<1> QED BY <1>1, <1>3, <1>4, <1>5, <1>6 DEF Request

(* Every step but these three leaves channels and subscribers alone.       *)
LEMMA StepChannels ==
  ASSUME LockInv, [Next]_vars
  PROVE  \/ SameChannels /\ Subscribing
         \/ \E s \in Servers : RedisExecute(s) /\ Subscribing
         \/ \E c \in Conns : LoginSubscribe(c) \/ LeaveUnsubscribe(c)
<1> USE DEF LockInv
<1>1. ASSUME Unmoved PROVE Subscribing
  BY <1>1 DEF Unmoved, Subscribing, Subscribed
<1>2. ASSUME NEW c \in Conns, HandlerStep(c), ~LoginSubscribe(c), ~LeaveUnsubscribe(c)
      PROVE  SameChannels /\ Subscribing
  <2>1. CASE ChatStep(c)
    BY <2>1, ChatChannels, ChatNeutral, NeutralSubscribing
  <2>2. CASE GroupStep(c)
    BY <2>2, GroupChannels, GroupNeutral, NeutralSubscribing
  <2> QED BY <1>2, <2>1, <2>2, LoginChannels, LeaveChannels DEF HandlerStep
<1>3. ASSUME NEW c \in Conns, Connect(c) \/ Disconnect(c)
      PROVE  SameChannels /\ Subscribing
  <2>1. Unmoved /\ SameChannels
    BY <1>3 DEF Unmoved, Connect, Disconnect, locals, storeVars, serverVars, redisVars, SameChannels
  <2> QED BY <2>1, <1>1
<1>4. ASSUME NEW s \in Servers, ObserverStep(s)
      PROVE  SameChannels /\ Subscribing
  <2>1. SameChannels
    BY <1>4 DEF ObserverStep, ObserverDeliver, ObserverMiss, ObserverStore, Consume, redisVars,
       SameChannels
  <2> QED BY <2>1, <1>1, <1>4, OthersUnmoved
<1>5. ASSUME NEW s \in Servers, BusStep(s)
      PROVE  RedisExecute(s) /\ Subscribing
  BY <1>1, <1>5, OthersUnmoved DEF BusStep
<1>6. CASE UNCHANGED vars
  <2>1. Unmoved /\ SameChannels
    BY <1>6 DEF vars, Unmoved, locals, storeVars, serverVars, clientVars, redisVars, SameChannels
  <2> QED BY <2>1, <1>1
<1> QED BY <1>2, <1>3, <1>4, <1>5, <1>6, RequestChannels DEF Next

-----------------------------------------------------------------------------
(* ChannelInv is inductive, given the lock.                                *)

LEMMA ChannelSubscribe ==
  ASSUME LockInv, ChannelInv, NEW c \in Conns, LoginSubscribe(c)
  PROVE  ChannelInv'
<1> USE DEF LockInv, EntryInv, TypeInv, TypeOK, HandlerTypeOK
<1>1. /\ pc[c] = "subscribe" /\ pc'[c] = "setOnline" /\ who' = who /\ sess' = sess
      /\ Moves(c) /\ who[c] \in Users /\ sess[c] = NoUser /\ Host[c] \in Servers
      /\ Write(Host[c], "SUBSCRIBE", who[c])
  <2>1. LoginStep(c)
    BY DEF LoginStep
  <2>2. Moves(c) /\ who[c] \in Users /\ sess[c] = NoUser
    BY <2>1, LoginMoves
  <2> QED BY <2>2, ChatAssumption DEF LoginSubscribe, Subscribe, From, Goto, locals, clientVars
<1>2. ASSUME NEW d \in Conns, NEW v \in Regular
      PROVE  Subscribed(d, v)' <=> Subscribed(d, v) \/ (d = c /\ v = who[c])
  BY <1>1, RegularUser DEF Subscribed, Moves, LoginPcs
<1>3. ASSUME NEW s \in Servers, NEW v \in Regular
      PROVE  WillListen(s, v)' <=> \E d \in Conns : Host[d] = s /\ Subscribed(d, v)'
  <2>1. WillListen(s, v) <=> \E d \in Conns : Host[d] = s /\ Subscribed(d, v)
    BY DEF ChannelInv
  <2>2. WillListen(s, v)' <=> (s = Host[c] /\ v = who[c]) \/ WillListen(s, v)
    BY <1>1, WriteListens, RegularUser
  <2> QED BY <1>2, <2>1, <2>2
<1>4. \A s \in Servers : Len(cmds'[s]) <= MaxCmds
  BY <1>1, WriteFits DEF ChannelInv
<1> QED BY <1>3, <1>4 DEF ChannelInv

(* The only subscriber for the user is the one that unsubscribes.          *)
LEMMA ChannelUnsubscribe ==
  ASSUME LockInv, ChannelInv, NEW c \in Conns, LeaveUnsubscribe(c)
  PROVE  ChannelInv'
<1> USE DEF LockInv, EntryInv, TypeInv, TypeOK, HandlerTypeOK
<1>1. /\ pc[c] = "unsubscribe" /\ pc'[c] = "setOffline" /\ who' = who /\ sess' = sess
      /\ Moves(c) /\ who[c] \in Users /\ sess[c] = NoUser /\ Host[c] \in Servers
      /\ Write(Host[c], "UNSUBSCRIBE", who[c])
  <2>1. pc[c] = "unsubscribe"
    BY DEF LeaveUnsubscribe, From
  <2>2. sess[c] = NoUser /\ who[c] \in Users
    BY <2>1, FrameAt DEF SessionShape, SessionPcs, NeedsUser, LeavePcs
  <2> QED BY <2>1, <2>2, ChatAssumption
         DEF LeaveUnsubscribe, Unsubscribe, Goto, locals, clientVars, Moves
<1>2. ASSUME NEW d \in Conns, NEW v \in Regular
      PROVE  Subscribed(d, v)' <=> Subscribed(d, v) /\ ~(d = c /\ v = who[c])
  BY <1>1, RegularUser DEF Subscribed, Moves, LoginPcs
<1>3. ASSUME NEW d \in Conns, who[c] \in Regular, Subscribed(d, who[c])
      PROVE  d = c
  <2>1. Claims(d, who[c]) /\ Claims(c, who[c])
    BY <1>1, <1>3 DEF Subscribed, Claims, Holds
  <2> QED BY <1>3, <2>1 DEF OneSession
<1>4. ASSUME NEW s \in Servers, NEW v \in Regular
      PROVE  WillListen(s, v)' <=> \E d \in Conns : Host[d] = s /\ Subscribed(d, v)'
  <2>1. WillListen(s, v) <=> \E d \in Conns : Host[d] = s /\ Subscribed(d, v)
    BY DEF ChannelInv
  <2>2. WillListen(s, v)' <=> ~(s = Host[c] /\ v = who[c]) /\ WillListen(s, v)
    BY <1>1, WriteListens, RegularUser
  <2> QED BY <1>2, <1>3, <2>1, <2>2
<1>5. \A s \in Servers : Len(cmds'[s]) <= MaxCmds
  BY <1>1, WriteFits DEF ChannelInv
<1> QED BY <1>4, <1>5 DEF ChannelInv

LEMMA ChannelStep ==
  ASSUME LockInv, ChannelInv, [Next]_vars
  PROVE  ChannelInv'
<1>0. RedisTypeOK
  BY DEF LockInv, EntryInv, TypeInv, TypeOK
<1>1. CASE SameChannels /\ Subscribing
  <2>1. ASSUME NEW s \in Servers, NEW v \in Regular
        PROVE  WillListen(s, v)' <=> WillListen(s, v)
    BY <1>1, SocketStill DEF SameChannels
  <2> QED BY <1>1, <2>1 DEF ChannelInv, SameChannels, Subscribing
<1>2. ASSUME NEW s \in Servers, RedisExecute(s), Subscribing PROVE ChannelInv'
  <2>1. ASSUME NEW t \in Servers, NEW v \in Regular
        PROVE  WillListen(t, v)' <=> WillListen(t, v)
    BY <1>0, <1>2, ExecuteListens, RegularUser
  <2>2. \A t \in Servers : Len(cmds'[t]) <= MaxCmds
    BY <1>0, <1>2, ExecuteFits DEF ChannelInv
  <2> QED BY <1>2, <2>1, <2>2 DEF ChannelInv, Subscribing
<1> QED BY <1>1, <1>2, StepChannels, ChannelSubscribe, ChannelUnsubscribe

LEMMA InitChannels == Init => ChannelInv
<1> SUFFICES ASSUME Init PROVE ChannelInv
  OBVIOUS
<1>1. ASSUME NEW s \in Servers
      PROVE  cmds[s] = <<>> /\ Len(cmds[s]) = 0 /\ 1 .. Len(cmds[s]) = {} /\ subs[s] = {}
  <2>1. cmds[s] = <<>> /\ subs[s] = {}
    BY DEF Init, RedisInit
  <2> QED BY <2>1, EmptySeq
<1>2. \A s \in Servers, u \in Regular : ~WillListen(s, u)
  BY <1>1 DEF WillListen, OpensLast
<1>3. \A c \in Conns, u \in Regular : ~Subscribed(c, u)
  BY RegularUser DEF Subscribed, Init, ServiceInit
<1> QED BY <1>1, <1>2, <1>3, MaxCmdsAssumption DEF ChannelInv

LEMMA ChannelInvariance ==
  ASSUME Serial
  PROVE  Spec => []ChannelInv
<1>1. LockInv /\ ChannelInv /\ [Next]_vars => ChannelInv'
  BY ChannelStep
<1> QED BY <1>1, InitChannels, LockInvariance, PTL DEF Spec

-----------------------------------------------------------------------------
LEMMA QuietRouting ==
  ASSUME LockInv, ChannelInv
  PROVE  RoutingAgrees
<1> USE DEF LockInv
<1> SUFFICES ASSUME NEW u \in Regular, Quiet(u)
             PROVE  /\ dbState[u] = "online" <=> \E s \in Servers : Connected(s, u)
                    /\ \A s \in Servers : u \in subs[s] <=> Connected(s, u)
  BY DEF RoutingAgrees
<1>1. \A c \in Conns : /\ Holds(c, u) <=> sess[c] = u
                       /\ Subscribed(c, u) <=> sess[c] = u
                       /\ Entered(c, u) <=> sess[c] = u
  BY DEF Quiet, Holds, Subscribed, Entered
<1>2. \A s \in Servers : Connected(s, u) <=> \E c \in Conns : Host[c] = s /\ sess[c] = u
  <2> SUFFICES ASSUME NEW s \in Servers
               PROVE  Connected(s, u) <=> \E c \in Conns : Host[c] = s /\ sess[c] = u
    OBVIOUS
  <2>1. ASSUME Connected(s, u) PROVE \E c \in Conns : Host[c] = s /\ sess[c] = u
    BY <1>1, <2>1, EntryOf, RegularUser DEF Connected
  <2>2. ASSUME NEW c \in Conns, Host[c] = s, sess[c] = u PROVE Connected(s, u)
    BY <1>1, <2>2, ChatAssumption DEF EntryThere, Connection, Connected
  <2> QED BY <2>1, <2>2
<1>3. dbState[u] = "online" <=> \E s \in Servers : Connected(s, u)
  BY <1>1, <1>2, ChatAssumption DEF OnlineRowHasOwner
<1>4. ASSUME NEW s \in Servers PROVE u \in subs[s] <=> Connected(s, u)
  <2>1. Silent(s, u)
    <3>1. Len(cmds[s]) \in Nat /\ Len(cmds[s]) <= MaxCmds /\ MaxCmds \in Nat
      BY SocketIs, MaxCmdsAssumption DEF ChannelInv, EntryInv, TypeInv, TypeOK
    <3> QED BY <3>1 DEF Silent, Quiet
  <2>2. WillListen(s, u) <=> u \in subs[s]
    BY <2>1 DEF WillListen, OpensLast, Silent
  <2> QED BY <1>1, <1>2, <2>2 DEF ChannelInv
<1> QED BY <1>3, <1>4

(* Once the handlers and commands about a user are done, the user table,   *)
(* the maps of the servers and the subscriptions in Redis agree on where   *)
(* that user is, however the connections came and went.                    *)
THEOREM RoutingTheorem ==
  ASSUME Serial
  PROVE  Spec => []RoutingAgrees
<1>1. LockInv /\ ChannelInv => RoutingAgrees
  BY QuietRouting
<1> QED BY <1>1, LockInvariance, ChannelInvariance, PTL
=============================================================================
