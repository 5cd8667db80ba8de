------------------------------ MODULE Life_proofs ------------------------------
(***************************************************************************)
(* What survives the end of processes, proved for every cluster, workload, *)
(* number of deaths and number of failing statements, with overlapping     *)
(* logins: for a user whom no fault has touched, the row is still a lock,  *)
(* and the presence key still that of somebody who will delete it.         *)
(*                                                                         *)
(* What ChatService_proofs says of a step and of one user is used here for *)
(* the users that are not in unguarded.                                    *)
(***************************************************************************)
EXTENDS ChatLife, ChatService_proofs

RowFits(u) == dbState[u] = "online" <=> u \in locked \/ \E c \in Conns : Holds(c, u)

Guarded(u) == Sole(u) /\ RowFits(u) /\ Found(u)

RowInv(u) ==
    /\ u \in locked => dbState[u] = "online"
    /\ u \notin unguarded => Guarded(u)

(* Connection c has written the key of u, or met it, and will delete it.   *)
KeyHeld(c, u) ==
    \/ sess[c] = u
    \/ who[c] = u /\ pc[c] \in {"readOffline", "removeOffline", "ackLogin"} \cup LeavePcs

KeyFits(u) == key[u] = "online" => u \in staleKeys \/ \E c \in Conns : KeyHeld(c, u)

(* The loop of reset on server s may pass by this connection.              *)
Spared(s, c) == Host[c] # s \/ pc[c] \in LeavePcs

LoopFits(s, u) ==
    sig[s] = "delUsers" /\ key[u] = "online" =>
        \/ u \in staleKeys \/ u \in ahead[s]
        \/ \E c \in Conns : KeyHeld(c, u) /\ Spared(s, c)

KeyInv(u) == u \notin unguarded => KeyFits(u) /\ \A s \in Servers : LoopFits(s, u)

SignalTypeOK ==
    /\ sig \in [Servers -> {"none", "resetState", "delUsers"}]
    /\ ahead \in [Servers -> SUBSET Users]

LifeInv ==
    /\ EntryInv /\ SignalTypeOK
    /\ \A u \in Regular : RowInv(u) /\ KeyInv(u)

-----------------------------------------------------------------------------
(* Rows, while the handlers run.                                           *)

LEMMA MovedIs ==
  ASSUME NEW c \in Conns, Moves(c), NEW here, NEW u
  PROVE  u \in Moved(here) <=> u = who[c] /\ pc[c] = here /\ pc'[c] # here
BY DEF Moved, Departs, Moves

LEMMA NobodyMoved ==
  ASSUME pc' = pc, NEW here, NEW u
  PROVE  u \notin Moved(here)
BY DEF Moved, Departs

LEMMA SettledRow ==
  ASSUME NEW u \in Regular, RowInv(u), ServiceStep,
         u \notin Moved("setOffline"), u \notin Moved("setOnline"),
         dbState'[u] = dbState[u],
         u \notin unguarded => KeepsFor(u) /\ Found(u)'
  PROVE  RowInv(u)'
<1>1. (u \in locked' <=> u \in locked) /\ (u \in unguarded => u \in unguarded')
  BY DEF ServiceStep
<1>2. ASSUME u \notin unguarded PROVE Guarded(u)'
  BY <1>1, <1>2 DEF RowInv, Guarded, RowFits, Sole, KeepsFor
<1> QED BY <1>1, <1>2 DEF RowInv

(* Overlapping logins are the only ones let in beside somebody else.       *)
LEMMA AdmittedRow ==
  ASSUME EntryInv, NEW u \in Regular, RowInv(u), ServiceStep, u \notin unguarded => Found(u)',
         NEW c \in Conns, NEW v \in Users, Admits(c, v), v \in Regular => dbState[v] # "online"
  PROVE  RowInv(u)'
<1>1. /\ dbState'[u] = dbState[u] /\ Moves(c) /\ pc[c] = "idle"
      /\ u \notin Moved("setOffline") /\ u \notin Moved("setOnline")
  BY MovedIs DEF Admits
<1>2. CASE u # v
  <2>1. KeepsFor(u)
    BY <1>1, <1>2, AdmitsClaims DEF KeepsFor
  <2> QED BY <1>1, <2>1, SettledRow
<1>3. CASE u = v /\ LoginPending(u)
  <2>1. u \in Overtaken
    BY <1>3, RegularUser DEF Admits, Overtaken
  <2>2. u \in unguarded' /\ (u \in locked' <=> u \in locked)
    BY <1>1, <2>1 DEF ServiceStep
  <2> QED BY <1>1, <2>2 DEF RowInv
<1>4. CASE u = v /\ ~LoginPending(u)
  <2>1. (u \in locked' <=> u \in locked) /\ (u \in unguarded => u \in unguarded')
    BY <1>1 DEF ServiceStep
  <2>2. ASSUME u \notin unguarded PROVE Guarded(u)'
    <3>1. Guarded(u)
      BY <2>2 DEF RowInv
    <3>2. \A d \in Conns : ~Holds(d, u)
      BY <1>4, <3>1 DEF Guarded, RowFits
    <3>3. \A d \in Conns : ~Claims(d, u)
      BY <1>4, <3>2 DEF Claims, LoginPending
    <3>4. \A d \in Conns : /\ Claims(d, u)' <=> d = c
                           /\ ~Holds(d, u)'
      BY <1>4, <3>2, <3>3, AdmitsClaims
    <3>5. Sole(u)'
      BY <3>4 DEF Sole
    <3>6. RowFits(u)'
      BY <1>1, <2>1, <3>1, <3>2, <3>4 DEF Guarded, RowFits
    <3> QED BY <2>2, <3>5, <3>6 DEF Guarded
  <2> QED BY <1>1, <2>1, <2>2 DEF RowInv
<1> QED BY <1>2, <1>3, <1>4

LEMMA FailedIs ==
  ASSUME StoreTypeOK, NEW ok \in BOOLEAN, DbCall(ok)
  PROVE  Failed <=> ~ok
<1>1. MaxDbFails \in Nat
  BY StoreAssumption
<1>2. dbFails \in Int
  BY <1>1 DEF StoreTypeOK
<1> QED BY <1>2 DEF DbCall, Failed

(* A login that could not write the row goes on without its protection.    *)
LEMMA OnlineRow ==
  ASSUME EntryInv, NEW u \in Regular, RowInv(u), ServiceStep, u \notin unguarded => Found(u)',
         NEW c \in Conns, LoginSetOnline(c)
  PROVE  RowInv(u)'
<1> USE DEF EntryInv, TypeInv, TypeOK
<1>1. PICK ok \in BOOLEAN : UpdateState(who[c], "online", ok)
  BY DEF LoginSetOnline
<1>2. dbState'[u] = IF ok /\ u = who[c] THEN "online" ELSE dbState[u]
  BY <1>1, RegularUser DEF UpdateState, StoreTypeOK
<1>3. Failed <=> ~ok
  BY <1>1, FailedIs DEF UpdateState
<1>4. /\ u \notin Moved("setOffline")
      /\ u \in Moved("setOnline") <=> u = who[c]
  BY SetOnlineHolds, MovedIs
<1>5. CASE u # who[c]
  <2>1. KeepsFor(u)
    BY <1>2, <1>5, SetOnlineHolds DEF KeepsFor
  <2> QED BY <1>2, <1>4, <1>5, <2>1, SettledRow
<1>6. CASE u = who[c] /\ ~ok
  <2>1. u \in unguarded' /\ (u \in locked' <=> u \in locked)
    BY <1>3, <1>4, <1>6 DEF ServiceStep
  <2> QED BY <1>2, <1>6, <2>1 DEF RowInv
<1>7. CASE u = who[c] /\ ok
  <2>1. u \notin locked' /\ (u \in unguarded => u \in unguarded')
    BY <1>3, <1>4, <1>7 DEF ServiceStep
  <2>2. Holds(c, u)' /\ \A d \in Conns : Claims(d, u)' <=> Claims(d, u)
    BY <1>7, SetOnlineHolds
  <2>3. ASSUME u \notin unguarded PROVE Guarded(u)'
    BY <1>2, <1>7, <2>2, <2>3 DEF RowInv, Guarded, Sole, RowFits
  <2> QED BY <2>1, <2>3 DEF RowInv
<1> QED BY <1>5, <1>6, <1>7

(* A logout that could not write the row leaves the account locked.        *)
LEMMA OfflineRow ==
  ASSUME EntryInv, NEW u \in Regular, RowInv(u), ServiceStep, u \notin unguarded => Found(u)',
         NEW c \in Conns, LeaveSetOffline(c)
  PROVE  RowInv(u)'
<1> USE DEF EntryInv, TypeInv, TypeOK
<1>1. PICK ok \in BOOLEAN : UpdateState(who[c], "offline", ok)
  BY DEF LeaveSetOffline
<1>2. dbState'[u] = IF ok /\ u = who[c] THEN "offline" ELSE dbState[u]
  BY <1>1, RegularUser DEF UpdateState, StoreTypeOK
<1>3. Failed <=> ~ok
  BY <1>1, FailedIs DEF UpdateState
<1>0. LeaveStep(c) /\ Moves(c) /\ pc[c] = "setOffline" /\ pc'[c] = "delUser"
  BY LeaveMoves DEF LeaveStep, LeaveSetOffline, From
<1>4. /\ u \notin Moved("setOnline")
      /\ u \in Moved("setOffline") <=> u = who[c]
  BY <1>0, MovedIs
<1>5. CASE u # who[c]
  <2>1. KeepsFor(u)
    BY <1>2, <1>5, SetOfflineHolds DEF KeepsFor
  <2> QED BY <1>2, <1>4, <1>5, <2>1, SettledRow
<1>6. CASE u = who[c]
  <2>1. /\ u \in unguarded => u \in unguarded'
        /\ u \in locked' <=> ~ok /\ (u \in locked \/ dbState[u] = "online")
    BY <1>3, <1>4, <1>6 DEF ServiceStep
  <2>2. /\ Holds(c, u)
        /\ \A d \in Conns : /\ Claims(d, u)' <=> Claims(d, u) /\ d # c
                            /\ Holds(d, u)' <=> Holds(d, u) /\ d # c
    BY <1>6, SetOfflineHolds
  <2>3. ASSUME u \notin unguarded PROVE Guarded(u)'
    <3>1. Guarded(u)
      BY <2>3 DEF RowInv
    <3>2. \A d \in Conns : ~Holds(d, u)'
      BY <2>2, <3>1, HoldsClaims DEF Guarded, Sole
    <3>3. Sole(u)'
      BY <2>2, <3>1 DEF Guarded, Sole
    <3>4. dbState[u] = "online"
      BY <2>2, <3>1 DEF Guarded, RowFits
    <3>5. RowFits(u)'
      BY <1>2, <1>6, <2>1, <3>2, <3>4 DEF RowFits
    <3> QED BY <2>3, <3>3, <3>5 DEF Guarded
  <2> QED BY <1>2, <1>6, <2>1, <2>3 DEF RowInv
<1> QED BY <1>5, <1>6

LEMMA ServiceRows ==
  ASSUME EntryInv, NEW u \in Regular, RowInv(u), ServiceStep
  PROVE  RowInv(u)'
<1>0. Next /\ (u \notin unguarded => Sole(u) /\ Found(u))
  BY DEF ServiceStep, RowInv, Guarded
<1>1. u \notin unguarded => Found(u)'
  BY <1>0, StepFinds
<1>2. ASSUME NEW c \in Conns, Moves(c), pc[c] # "setOnline", pc[c] # "setOffline",
             u \notin unguarded => KeepsFor(u), dbState'[u] = dbState[u]
      PROVE  RowInv(u)'
  BY <1>1, <1>2, MovedIs, SettledRow
<1>3. ASSUME NEW c \in Conns, Neutral(c) PROVE RowInv(u)'
  <2>1. Moves(c) /\ pc[c] \notin SessionPcs /\ dbState' = dbState
    BY <1>3 DEF Neutral
  <2>2. pc[c] # "setOnline" /\ pc[c] # "setOffline"
    BY <2>1 DEF SessionPcs, LoginPcs, LeavePcs
  <2>3. KeepsFor(u)
    BY <1>3, NeutralKeeps DEF Keeps
  <2> QED BY <1>2, <2>1, <2>2, <2>3
<1>4. ASSUME Unmoved PROVE RowInv(u)'
  <2>1. KeepsFor(u)
    BY <1>4, UnmovedKeeps DEF Keeps
  <2> QED BY <1>1, <1>4, <2>1, NobodyMoved, SettledRow DEF Unmoved
<1>5. ASSUME NEW c \in Conns, HandlerStep(c) PROVE RowInv(u)'
  <2>1. CASE LoginStep(c) /\ ~LoginSetOnline(c)
    <3>1. Keeps /\ pc[c] # "setOnline" /\ Moves(c) /\ pc[c] \in LoginPcs
      BY <2>1, LoginKeeps, LoginMoves
    <3>2. pc[c] # "setOffline" /\ KeepsFor(u) /\ dbState'[u] = dbState[u]
      BY <3>1 DEF LoginPcs, Keeps, KeepsFor
    <3> QED BY <1>2, <3>1, <3>2
  <2>2. CASE LoginSetOnline(c) BY <1>1, <2>2, OnlineRow
  <2>3. CASE LeaveStep(c) /\ ~LeaveSetOffline(c)
    <3>1. Keeps /\ Moves(c) /\ pc[c] \in {"unsubscribe", "delUser"}
      BY <2>3, LeaveKeeps, LeaveMoves
    <3>2. KeepsFor(u) /\ dbState'[u] = dbState[u]
      BY <3>1 DEF Keeps, KeepsFor
    <3> QED BY <1>2, <3>1, <3>2
  <2>4. CASE LeaveSetOffline(c) BY <1>1, <2>4, OfflineRow
  <2>5. CASE ChatStep(c) BY <2>5, <1>3, ChatNeutral
  <2>6. CASE GroupStep(c) BY <2>6, <1>3, GroupNeutral
  <2> QED BY <1>5, <2>1, <2>2, <2>3, <2>4, <2>5, <2>6 DEF HandlerStep
<1>6. ASSUME NEW c \in Conns, Request(c) PROVE RowInv(u)'
  <2>1. ASSUME NEW v \in Users, NEW pwd \in Passwords, Login(c, v, pwd)
        PROVE  RowInv(u)'
    <3>1. CASE Refuses(c) BY <3>1, <1>4 DEF Refuses
    <3>2. CASE Admits(c, v) /\ (v \in Regular => dbState[v] # "online")
      BY <1>1, <3>2, AdmittedRow
    <3> QED BY <2>1, <3>1, <3>2, LoginAdmits
  <2>2. CASE Loginout(c)
    <3>1. KeepsFor(u) /\ Moves(c) /\ pc[c] = "idle"
      BY <2>2, LogoutKeeps, LogoutMoves DEF Keeps
    <3> QED BY <1>2, <3>1 DEF KeepsFor
  <2>3. CASE \/ \E v \in Users, m \in Chats : OneChat(c, v, m)
             \/ \E m \in Posts : GroupChat(c, m)
    BY <2>3, <1>3, SendNeutral
  <2> QED BY <1>6, <2>1, <2>2, <2>3 DEF Request
<1>7. ASSUME NEW c \in Conns, ClientCloseException(c) PROVE RowInv(u)'
  <2>1. Moves(c) /\ pc[c] = "idle" /\ dbState' = dbState
    BY <1>7, CloseMoves
  <2>2. u \notin unguarded => KeepsFor(u)
    BY <1>0, <1>7, CloseKeeps
  <2> QED BY <1>2, <2>1, <2>2
<1>8. ASSUME NEW c \in Conns, Connect(c) \/ Disconnect(c) PROVE RowInv(u)'
  <2>1. Unmoved
    BY <1>8 DEF Unmoved, Connect, Disconnect, locals, storeVars, serverVars
  <2> QED BY <2>1, <1>4
<1>9. ASSUME NEW s \in Servers, ObserverStep(s) \/ BusStep(s) PROVE RowInv(u)'
  BY <1>9, <1>4, OthersUnmoved
<1> QED BY <1>0, <1>5, <1>6, <1>7, <1>8, <1>9 DEF Next

-----------------------------------------------------------------------------
(* Keys, while the handlers run.                                           *)

(* Unless the key is gone, it was there before, or is from a login that    *)
(* reset cannot miss, or is written down as stale; and who is to delete it *)
(* still is.                                                               *)
KeyMoves(u) ==
    \/ key'[u] # "online"
    \/ /\ \/ key[u] = "online"
          \/ u \in KeysOfNobody
          \/ \E c \in Conns : KeyHeld(c, u)' /\ sig[Host[c]] # "delUsers"
       /\ u \notin Moved("delUser")
       /\ \A d \in Conns : KeyHeld(d, u) =>
             KeyHeld(d, u)' /\ (pc[d] \in LeavePcs => pc'[d] \in LeavePcs)

LEMMA KeysFit ==
  ASSUME NEW u, ServiceStep, KeyMoves(u), KeyFits(u), \A s \in Servers : LoopFits(s, u)
  PROVE  KeyFits(u)' /\ \A s \in Servers : LoopFits(s, u)'
<1>1. /\ staleKeys' = (staleKeys \cup KeysOfNobody) \ Moved("delUser")
      /\ sig' = sig /\ ahead' = ahead
  BY DEF ServiceStep, signalVars
<1>2. CASE key'[u] # "online"
  BY <1>2 DEF KeyFits, LoopFits
<1>3. CASE key'[u] = "online"
  <2>1. /\ u \in staleKeys \cup KeysOfNobody => u \in staleKeys'
        /\ \A d \in Conns : KeyHeld(d, u) =>
             KeyHeld(d, u)' /\ (pc[d] \in LeavePcs => pc'[d] \in LeavePcs)
    BY <1>1, <1>3 DEF KeyMoves
  <2>2. CASE u \in KeysOfNobody
    BY <2>1, <2>2 DEF KeyFits, LoopFits
  <2>3. CASE key[u] = "online"
    <3>1. KeyFits(u)'
      BY <2>1, <2>3 DEF KeyFits
    <3>2. ASSUME NEW s \in Servers PROVE LoopFits(s, u)'
      <4>1. \A d \in Conns : KeyHeld(d, u) /\ Spared(s, d) => KeyHeld(d, u)' /\ Spared(s, d)'
        BY <2>1 DEF Spared
      <4> QED BY <1>1, <2>1, <2>3, <4>1 DEF LoopFits
    <3> QED BY <3>1, <3>2
  <2>4. ASSUME NEW c \in Conns, KeyHeld(c, u)', sig[Host[c]] # "delUsers"
        PROVE  KeyFits(u)' /\ \A s \in Servers : LoopFits(s, u)'
    <3>1. \A s \in Servers : sig'[s] = "delUsers" => Spared(s, c)'
      BY <1>1, <2>4 DEF Spared
    <3> QED BY <2>4, <3>1 DEF KeyFits, LoopFits
  <2> QED BY <1>3, <2>2, <2>3, <2>4 DEF KeyMoves
<1> QED BY <1>2, <1>3

LEMMA HeldStill ==
  ASSUME NEW d \in Conns, NEW u, pc'[d] = pc[d], who'[d] = who[d], sess'[d] = sess[d]
  PROVE  KeyHeld(d, u)' <=> KeyHeld(d, u)
BY DEF KeyHeld

(* A step of one connection that does not write the key.                   *)
LEMMA KeyLeftAlone ==
  ASSUME NEW u, NEW c \in Conns, Moves(c), pc[c] # "delUser",
         key'[u] = "online" => key[u] = "online" \/ u \in KeysOfNobody,
         KeyHeld(c, u) => KeyHeld(c, u)' /\ (pc[c] \in LeavePcs => pc'[c] \in LeavePcs)
  PROVE  KeyMoves(u)
<1>1. ASSUME NEW d \in Conns, KeyHeld(d, u)
      PROVE  KeyHeld(d, u)' /\ (pc[d] \in LeavePcs => pc'[d] \in LeavePcs)
  <2>1. CASE d # c
    BY <1>1, <2>1, HeldStill DEF Moves
  <2> QED BY <1>1, <2>1
<1>2. u \notin Moved("delUser")
  BY MovedIs
<1> QED BY <1>1, <1>2 DEF KeyMoves

LEMMA SenderKeys ==
  ASSUME EntryInv, NEW u \in Regular, NEW c \in Conns,
         \/ ChatStep(c) \/ GroupStep(c)
         \/ \E v \in Users, m \in Chats : OneChat(c, v, m)
         \/ \E m \in Posts : GroupChat(c, m)
  PROVE  KeyMoves(u)
<1> USE DEF EntryInv, TypeInv, TypeOK, RedisTypeOK, HandlerTypeOK, From, Goto
<1>0. Neutral(c)
  BY ChatNeutral, GroupNeutral, SendNeutral
<1>1. /\ pc[c] # "delUser" /\ Moves(c)
      /\ KeyHeld(c, u) => KeyHeld(c, u)' /\ (pc[c] \in LeavePcs => pc'[c] \in LeavePcs)
  BY <1>0 DEF Neutral, KeyHeld, SessionPcs, LoginPcs, LeavePcs
<1>2. ASSUME key' = key \/ \E v : SetState(v, "offline")
      PROVE  key'[u] = "online" => key[u] = "online"
  <2>1. CASE key' = key BY <2>1
  <2>2. ASSUME NEW v, SetState(v, "offline")
        PROVE  key'[u] = "online" => key[u] = "online"
    BY <2>2, RegularUser DEF SetState
  <2> QED BY <1>2, <2>1, <2>2
<1>3. ASSUME SetState(who[c], "online"),
             \/ pc[c] = "chatSetOnline" /\ pc'[c] = "chatPublish"
             \/ pc[c] = "groupSetOnline" /\ pc'[c] = "groupPublish"
      PROVE  key'[u] = "online" => key[u] = "online" \/ u \in KeysOfNobody
  <2>1. who[c] \in KeysOfNobody
    BY <1>3 DEF KeysOfNobody, Departs
  <2> QED BY <1>3, <2>1, RegularUser DEF SetState
<1>4. CASE ChatStep(c)
  <2>1. \/ key' = key \/ SetState(who[c], "offline")
        \/ /\ SetState(who[c], "online")
           /\ pc[c] = "chatSetOnline" /\ pc'[c] = "chatPublish"
    BY <1>4 DEF ChatStep, ChatGetState, ChatPublish, Publish, ChatStore, ChatQuery,
       ChatSetOnline, ChatInsert, ChatSetOffline, redisVars
  <2> QED BY <1>1, <1>2, <1>3, <2>1, KeyLeftAlone
<1>5. CASE GroupStep(c)
  <2>1. \/ key' = key \/ SetState(who[c], "offline")
        \/ /\ SetState(who[c], "online")
           /\ pc[c] = "groupSetOnline" /\ pc'[c] = "groupPublish"
    BY <1>5 DEF GroupStep, GroupLock, GroupNext, GroupDone, GroupGetState, GroupPublishReturn,
       Publish, GroupStoreReturn, GroupQuery, GroupSetState, GroupPublish, GroupStore, redisVars
  <2> QED BY <1>1, <1>2, <1>3, <2>1, KeyLeftAlone
<1>6. CASE \/ \E v \in Users, m \in Chats : OneChat(c, v, m)
           \/ \E m \in Posts : GroupChat(c, m)
  <2>1. key' = key
    BY <1>6 DEF OneChat, GroupChat, redisVars
  <2> QED BY <1>1, <2>1, KeyLeftAlone
<1> QED BY <1>4, <1>5, <1>6

LEMMA LoginKeys ==
  ASSUME EntryInv, NEW u \in Regular, NEW c \in Conns, LoginStep(c)
  PROVE  KeyMoves(u)
<1> USE DEF EntryInv, TypeInv, TypeOK, RedisTypeOK, HandlerTypeOK, From, Goto
<1>0. /\ Moves(c) /\ pc[c] \in LoginPcs /\ sess[c] = NoUser /\ who[c] \in Users
      /\ u # NoUser /\ u \in Users
  BY LoginMoves, RegularUser
<1>1. CASE LoginAddUser(c) \/ LoginMarkOnline(c)
  <2>1. /\ key' = [key EXCEPT ![who[c]] = "online"] /\ pc'[c] = "readOffline"
        /\ pc[c] \in {"addUser", "markOnline"} /\ who'[c] = who[c]
    BY <1>1 DEF LoginAddUser, LoginMarkOnline, AddUser, SetState, locals
  <2>2. ASSUME u # who[c] PROVE KeyMoves(u)
    BY <1>0, <2>1, <2>2, KeyLeftAlone DEF KeyHeld, LeavePcs
  <2>3. ASSUME u = who[c] PROVE KeyMoves(u)
    <3>1. KeyHeld(c, u)' /\ ~KeyHeld(c, u)
      BY <1>0, <2>1, <2>3 DEF KeyHeld, LeavePcs
    <3>2. sig[Host[c]] = "delUsers" => u \in KeysOfNobody
      BY <2>1, <2>3 DEF KeysOfNobody, Departs
    <3>3. u \notin Moved("delUser")
      BY <1>0, <2>1, MovedIs
    <3>4. \A d \in Conns : KeyHeld(d, u) =>
             KeyHeld(d, u)' /\ (pc[d] \in LeavePcs => pc'[d] \in LeavePcs)
      BY <1>0, <3>1, HeldStill DEF Moves
    <3> QED BY <3>1, <3>2, <3>3, <3>4 DEF KeyMoves
  <2> QED BY <2>2, <2>3
<1>2. CASE ~(LoginAddUser(c) \/ LoginMarkOnline(c))
  <2>1. key' = key
    BY <1>2 DEF LoginStep, LoginInsert, LoginSubscribe, Subscribe, Write, LoginSetOnline,
       LoginGetState, LoginReadOffline, LoginRemoveOffline, LoginAck, redisVars
  <2>2. pc[c] \in {"readOffline", "removeOffline"} /\ ~LoginAck(c)
           => pc'[c] \in {"removeOffline", "ackLogin"} /\ who'[c] = who[c]
    BY <1>2 DEF LoginStep, LoginInsert, LoginSubscribe, LoginSetOnline, LoginGetState,
       LoginReadOffline, LoginRemoveOffline, locals
  <2>3. LoginAck(c) => sess'[c] = who[c]
    BY <1>0 DEF LoginAck, ClientTypeOK
  <2>4. pc[c] = "ackLogin" => LoginAck(c)
    BY <1>2 DEF LoginStep, LoginInsert, LoginSubscribe, LoginSetOnline, LoginGetState,
       LoginReadOffline, LoginRemoveOffline
  <2>5. KeyHeld(c, u) => KeyHeld(c, u)' /\ pc[c] \notin LeavePcs
    BY <1>0, <2>2, <2>3, <2>4 DEF KeyHeld, LoginPcs, LeavePcs
  <2>6. pc[c] # "delUser"
    BY <1>0 DEF LoginPcs
  <2> QED BY <1>0, <2>1, <2>5, <2>6, KeyLeftAlone
<1> QED BY <1>1, <1>2

LEMMA LeaveKeys ==
  ASSUME EntryInv, NEW u \in Regular, NEW c \in Conns, LeaveStep(c)
  PROVE  KeyMoves(u)
<1> USE DEF EntryInv, TypeInv, TypeOK, RedisTypeOK, HandlerTypeOK
<1>0. /\ Moves(c) /\ sess[c] = NoUser /\ who[c] \in Users /\ sess' = sess
      /\ u # NoUser /\ u \in Users
  BY LeaveMoves, RegularUser
<1>1. CASE LeaveDelUser(c)
  <2>1. pc[c] = "delUser" /\ pc'[c] = "idle" /\ key' = [key EXCEPT ![who[c]] = "null"]
    BY <1>1 DEF LeaveDelUser, From, Goto, Return, DelUser, SetState
  <2>2. ASSUME u = who[c] PROVE KeyMoves(u)
    BY <1>0, <2>1, <2>2 DEF KeyMoves
  <2>3. ASSUME u # who[c] PROVE KeyMoves(u)
    <3>1. key'[u] = key[u] /\ u \notin Moved("delUser") /\ ~KeyHeld(c, u)
      BY <1>0, <2>1, <2>3, MovedIs DEF KeyHeld
    <3>2. \A d \in Conns : KeyHeld(d, u) =>
             KeyHeld(d, u)' /\ (pc[d] \in LeavePcs => pc'[d] \in LeavePcs)
      BY <1>0, <3>1, HeldStill DEF Moves
    <3> QED BY <3>1, <3>2 DEF KeyMoves
  <2> QED BY <2>2, <2>3
<1>2. CASE ~LeaveDelUser(c)
  <2>1. /\ key' = key /\ who' = who
        /\ pc[c] \in {"unsubscribe", "setOffline"} /\ pc'[c] \in {"setOffline", "delUser"}
    BY <1>2, LeaveMoves DEF LeaveUnsubscribe, LeaveSetOffline, Unsubscribe, Write, redisVars
  <2>2. KeyHeld(c, u) => KeyHeld(c, u)' /\ pc'[c] \in LeavePcs
    BY <1>0, <2>1 DEF KeyHeld, LeavePcs
  <2> QED BY <1>0, <2>1, <2>2, KeyLeftAlone
<1> QED BY <1>1, <1>2

LEMMA RequestKeys ==
  ASSUME EntryInv, NEW u \in Regular, Found(u), NEW c \in Conns,
         Request(c) \/ ClientCloseException(c)
  PROVE  KeyMoves(u)
<1> USE DEF EntryInv, TypeInv, TypeOK
<1>1. ASSUME key' = key, Moves(c), pc[c] = "idle", pc'[c] = "unsubscribe",
             sess[c] = u => who'[c] = u
      PROVE  KeyMoves(u)
  <2>1. KeyHeld(c, u) => KeyHeld(c, u)' /\ pc[c] \notin LeavePcs
    BY <1>1 DEF KeyHeld, LeavePcs
  <2> QED BY <1>1, <2>1, KeyLeftAlone
<1>2. CASE Loginout(c)
  <2>1. key' = key
    BY <1>2 DEF Loginout, redisVars
  <2> QED BY <1>1, <1>2, <2>1, LogoutMoves
<1>3. CASE ClientCloseException(c)
  <2>1. key' = key
    BY <1>3 DEF ClientCloseException, redisVars
  <2>2. sess[c] = u => Connection(c, u) = c
    BY DEF Found, Entered
  <2> QED BY <1>1, <1>3, <2>1, <2>2, CloseMoves
<1>4. ASSUME NEW v \in Users, NEW pwd \in Passwords, Login(c, v, pwd)
      PROVE  KeyMoves(u)
  <2>1. key' = key
    BY <1>4 DEF Login, redisVars
  <2>2. CASE Refuses(c)
    BY <2>1, <2>2, NobodyMoved, HeldStill DEF Refuses, Unmoved, KeyMoves
  <2>3. CASE Admits(c, v)
    <3>1. Moves(c) /\ pc[c] = "idle" /\ ~KeyHeld(c, u)
      BY <2>3, RegularUser DEF Admits, KeyHeld, LeavePcs
    <3> QED BY <2>1, <3>1, KeyLeftAlone
  <2> QED BY <1>4, <2>2, <2>3, LoginAdmits
<1>5. CASE \/ \E v \in Users, m \in Chats : OneChat(c, v, m)
           \/ \E m \in Posts : GroupChat(c, m)
  BY <1>5, SenderKeys
<1> QED BY <1>2, <1>3, <1>4, <1>5 DEF Request

LEMMA ServiceKeys ==
  ASSUME EntryInv, NEW u \in Regular, RowInv(u), KeyInv(u), ServiceStep
  PROVE  KeyInv(u)'
<1>0. Next /\ (u \in unguarded => u \in unguarded')
  BY DEF ServiceStep
<1> SUFFICES ASSUME u \notin unguarded PROVE KeyFits(u)' /\ \A s \in Servers : LoopFits(s, u)'
  BY <1>0 DEF KeyInv
<1>1. Found(u)
  BY DEF RowInv, Guarded
<1>2. ASSUME Unmoved, key' = key PROVE KeyMoves(u)
  BY <1>2, NobodyMoved, HeldStill DEF Unmoved, KeyMoves
<1>3. KeyMoves(u)
  <2>1. ASSUME NEW c \in Conns, HandlerStep(c) PROVE KeyMoves(u)
    BY <2>1, LoginKeys, LeaveKeys, SenderKeys DEF HandlerStep
  <2>2. ASSUME NEW c \in Conns, Request(c) \/ ClientCloseException(c) PROVE KeyMoves(u)
    BY <1>1, <2>2, RequestKeys
  <2>3. ASSUME NEW c \in Conns, Connect(c) \/ Disconnect(c) PROVE KeyMoves(u)
    <3>1. Unmoved /\ key' = key
      BY <2>3 DEF Unmoved, Connect, Disconnect, locals, redisVars, storeVars, serverVars
    <3> QED BY <1>2, <3>1
  <2>4. ASSUME NEW s \in Servers, ObserverStep(s) \/ BusStep(s) PROVE KeyMoves(u)
    <3>1. key' = key
      BY <2>4 DEF ObserverStep, ObserverDeliver, ObserverMiss, ObserverStore, BusStep, Consume,
         RedisExecute, redisVars
    <3> QED BY <1>2, <2>4, <3>1, OthersUnmoved
  <2> QED BY <1>0, <2>1, <2>2, <2>3, <2>4 DEF Next
<1> QED BY <1>3, KeysFit DEF KeyInv

-----------------------------------------------------------------------------
(* The end of a process.                                                   *)

LEMMA DeathWipes ==
  ASSUME NEW s \in Servers, Death(s), NEW d \in Conns, NEW u \in Users
  PROVE  /\ d \in On(s) => /\ pc'[d] = "idle" /\ net'[d] = "none"
                           /\ who'[d] = NoUser /\ sess'[d] = NoUser
                           /\ ~Claims(d, u)' /\ ~Entered(d, u)' /\ ~KeyHeld(d, u)'
         /\ d \notin On(s) => /\ pc'[d] = pc[d] /\ net'[d] = net[d]
                              /\ who'[d] = who[d] /\ sess'[d] = sess[d] /\ msg'[d] = msg[d]
                              /\ Claims(d, u)' <=> Claims(d, u)
                              /\ Holds(d, u)' <=> Holds(d, u)
                              /\ Entered(d, u)' <=> Entered(d, u)
                              /\ KeyHeld(d, u)' <=> KeyHeld(d, u)
<1>0. u # NoUser
  BY ChatAssumption
<1>1. ASSUME d \in On(s)
      PROVE  /\ pc'[d] = "idle" /\ net'[d] = "none"
             /\ who'[d] = NoUser /\ sess'[d] = NoUser
  BY <1>1 DEF Death, Wiped
<1>2. ASSUME d \notin On(s)
      PROVE  /\ pc'[d] = pc[d] /\ net'[d] = net[d]
             /\ who'[d] = who[d] /\ sess'[d] = sess[d] /\ msg'[d] = msg[d]
  BY <1>2 DEF Death, Wiped
<1>3. ASSUME d \in On(s)
      PROVE  ~Claims(d, u)' /\ ~Entered(d, u)' /\ ~KeyHeld(d, u)'
  BY <1>0, <1>1, <1>3 DEF Claims, Holds, Entered, KeyHeld
<1>4. ASSUME d \notin On(s)
      PROVE  /\ Claims(d, u)' <=> Claims(d, u)
             /\ Holds(d, u)' <=> Holds(d, u)
             /\ Entered(d, u)' <=> Entered(d, u)
             /\ KeyHeld(d, u)' <=> KeyHeld(d, u)
  BY <1>2, <1>4, StandsStill, HeldStill
<1> QED BY <1>1, <1>2, <1>3, <1>4

LEMMA DeathTypes ==
  ASSUME TypeInv, NEW s \in Servers, Death(s)
  PROVE  TypeInv'
<1> USE DEF TypeInv, TypeOK, Death
<1>1. RedisTypeOK'
  BY EmptySeq DEF RedisTypeOK
<1>2. StoreTypeOK'
  BY Same
<1>3. ServerTypeOK'
  BY EmptySeq DEF ServerTypeOK
<1>4. ClientTypeOK'
  BY DEF ClientTypeOK, Wiped
<1>5. HandlerTypeOK'
  BY EmptySeq DEF HandlerTypeOK, Wiped, Pcs
<1>6. Frames'
  <2> SUFFICES ASSUME NEW d \in Conns
               PROVE  /\ pc'[d] \in NeedsUser => who'[d] \in Users
                      /\ pc'[d] \in NeedsMsg => msg'[d] \in Messages
    BY DEF Frames, NeedsUser, NeedsMsg
  <2>1. CASE d \in On(s)
    BY <2>1, DeathWipes, DefaultIdAssumption DEF NeedsUser, NeedsMsg, LoginPcs, LeavePcs, ChatPcs, GroupHoldPcs
  <2>2. CASE d \notin On(s)
    BY <2>2, DeathWipes, DefaultIdAssumption DEF Frames, NeedsUser, NeedsMsg
  <2> QED BY <2>1, <2>2
<1> QED BY <1>1, <1>2, <1>3, <1>4, <1>5, <1>6

LEMMA DeathEntry ==
  ASSUME EntryInv, NEW s \in Servers, Death(s)
  PROVE  EntryInv'
<1>1. TypeInv'
  BY DeathTypes DEF EntryInv
<1>2. SessionShape'
  <2>1. ASSUME NEW d \in Conns
        PROVE  /\ pc'[d] \in SessionPcs => sess'[d] = NoUser
               /\ net'[d] = "none" => sess'[d] = NoUser /\ pc'[d] = "idle"
               /\ net'[d] = "closing" => pc'[d] \in LeavePcs
    BY DeathWipes, DefaultIdAssumption DEF EntryInv, SessionShape
  <2> QED BY <2>1 DEF SessionShape
<1>3. EntryBelongsToSession'
  <2> SUFFICES ASSUME NEW t \in Servers, NEW u \in Users, NEW d \in Conns, connMap'[t][u] = d
               PROVE  Host[d] = t /\ net'[d] # "none" /\ Entered(d, u)'
    BY <1>1, EntryByConn
  <2>1. d # NoConn
    BY ChatAssumption
  <2>2. t # s /\ connMap[t][u] = d
    BY <2>1 DEF Death, EntryInv, TypeInv, TypeOK, ServerTypeOK
  <2>3. Host[d] = t /\ net[d] # "none" /\ Entered(d, u)
    BY <2>1, <2>2, EntryOf
  <2>4. d \notin On(s)
    BY <2>2, <2>3 DEF On
  <2> QED BY <2>3, <2>4, DeathWipes
<1> QED BY <1>1, <1>2, <1>3 DEF EntryInv

LEMMA DeathRow ==
  ASSUME EntryInv, NEW u \in Regular, RowInv(u), NEW s \in Servers, Death(s)
  PROVE  RowInv(u)'
<1>0. /\ dbState' = dbState /\ u \in Users
      /\ u \in locked' <=> u \in locked \/ (u \in Orphans(s) /\ dbState[u] = "online")
      /\ u \in unguarded' <=> u \in unguarded /\ u \notin Orphans(s)
  BY RegularUser DEF Death, storeVars
<1>1. CASE u \in Orphans(s)
  <2>1. \A d \in Conns : ~Claims(d, u)'
    BY <1>0, <1>1, DeathWipes DEF Orphans
  <2>2. \A d \in Conns : ~Holds(d, u)' /\ ~Entered(d, u)'
    BY <2>1 DEF Claims, Holds, Entered, LoginPcs
  <2>3. Sole(u)' /\ Found(u)'
    BY <2>1, <2>2 DEF Sole, Found
  <2>4. u \in locked' <=> dbState[u] = "online"
    BY <1>0, <1>1 DEF RowInv
  <2>5. RowFits(u)'
    BY <1>0, <2>2, <2>4 DEF RowFits
  <2> QED BY <1>0, <2>3, <2>4, <2>5 DEF RowInv, Guarded
<1>2. CASE u \notin Orphans(s)
  <2>1. PICK e \in Conns \ On(s) : Claims(e, u)
    BY <1>0, <1>2 DEF Orphans
  <2>2. ASSUME Guarded(u) PROVE Guarded(u)'
    <3>1. \A d \in On(s) : ~Claims(d, u)
      BY <2>1, <2>2 DEF Guarded, Sole, On
    <3>2. \A d \in On(s) : ~Holds(d, u) /\ ~Holds(d, u)'
      BY <1>0, <3>1, DeathWipes DEF Claims, On
    <3>3. \A d \in Conns : /\ Claims(d, u)' <=> Claims(d, u)
                           /\ Holds(d, u)' <=> Holds(d, u)
      BY <1>0, <3>1, <3>2, DeathWipes
    <3>4. ASSUME NEW d \in Conns, Entered(d, u)' PROVE Connection(d, u)' = d
      <4>1. d \notin On(s)
        BY <1>0, <3>4, DeathWipes
      <4>2. Entered(d, u)
        BY <1>0, <3>4, <4>1, DeathWipes
      <4>3. Connection(d, u) = d
        BY <2>2, <4>2 DEF Guarded, Found
      <4>4. Host[d] \in Servers /\ Host[d] # s
        BY <4>1, ChatAssumption DEF On
      <4> QED BY <4>3, <4>4 DEF Connection, Death, EntryInv, TypeInv, TypeOK, ServerTypeOK
    <3>5. Sole(u)' /\ Found(u)'
      BY <2>2, <3>3, <3>4 DEF Guarded, Sole, Found
    <3>6. RowFits(u)'
      BY <1>0, <1>2, <2>2, <3>3 DEF Guarded, RowFits
    <3> QED BY <3>5, <3>6 DEF Guarded
  <2> QED BY <1>0, <1>2, <2>2 DEF RowInv
<1> QED BY <1>1, <1>2

(* What the two ends of a process have in common: they write down every    *)
(* key that loses whom it belonged to.                                     *)
LEMMA DeathKeys ==
  ASSUME EntryInv, SignalTypeOK, NEW u \in Regular, RowInv(u), KeyInv(u),
         NEW s \in Servers, Death(s),
         staleKeys \cup Abandoned(s) \subseteq staleKeys',
         \A d \in On(s) : who[d] = u /\ pc[d] \in LeavePcs => u \in staleKeys',
         u \notin unguarded /\ key[u] = "online" =>
            u \in staleKeys' \/ \E e \in Conns \ On(s) : KeyHeld(e, u)
  PROVE  KeyInv(u)'
<1>0. u \in Users /\ key' = key /\ (u \in unguarded' <=> u \in unguarded /\ u \notin Orphans(s))
  BY RegularUser DEF Death
<1> SUFFICES ASSUME u \notin unguarded', key[u] = "online", u \notin staleKeys'
             PROVE  /\ \E c \in Conns : KeyHeld(c, u)'
                    /\ \A t \in Servers : LoopFits(t, u)'
  BY <1>0 DEF KeyInv, KeyFits, LoopFits
<1>1. u \notin unguarded
  BY <1>0 DEF Abandoned
<1>2. PICK e \in Conns \ On(s) : KeyHeld(e, u)
  BY <1>1
<1>3. KeyHeld(e, u)'
  BY <1>0, <1>2, DeathWipes
<1>4. ASSUME NEW t \in Servers, sig'[t] = "delUsers", u \notin ahead'[t]
      PROVE  \E c \in Conns : KeyHeld(c, u)' /\ Spared(t, c)'
  <2>1. t # s /\ sig[t] = "delUsers" /\ u \notin ahead[t]
    BY <1>4 DEF Death, SignalTypeOK
  <2>2. PICK d \in Conns : KeyHeld(d, u) /\ Spared(t, d)
    BY <1>1, <2>1 DEF KeyInv, LoopFits
  <2>3. CASE d \notin On(s)
    <3>1. KeyHeld(d, u)' /\ Spared(t, d)'
      BY <1>0, <2>2, <2>3, DeathWipes DEF Spared
    <3> QED BY <3>1
  <2>4. CASE d \in On(s)
    <3>1. Claims(d, u)
      BY <2>2, <2>4 DEF KeyHeld, Claims, Holds, LoginPcs
    <3>2. ~Claims(e, u)
      BY <1>1, <2>4, <3>1 DEF RowInv, Guarded, Sole, On
    <3>3. pc[e] \in LeavePcs
      BY <1>2, <3>2 DEF KeyHeld, Claims, Holds, LoginPcs
    <3>4. Spared(t, e)'
      BY <1>0, <3>3, DeathWipes DEF Spared
    <3> QED BY <1>3, <3>4
  <2> QED BY <2>3, <2>4
<1> QED BY <1>3, <1>4 DEF LoopFits

LEMMA DeathSignals ==
  ASSUME SignalTypeOK, NEW s \in Servers, Death(s)
  PROVE  SignalTypeOK'
BY DEF SignalTypeOK, Death

LEMMA KeyHolder ==
  ASSUME EntryInv, NEW u \in Regular, NEW c \in Conns, KeyHeld(c, u)
  PROVE  /\ pc[c] \in LeavePcs => who[c] = u
         /\ pc[c] \notin LeavePcs => Entered(c, u)
         /\ Claims(c, u) \/ who[c] = u
<1>1. pc[c] \in LeavePcs => sess[c] = NoUser
  BY DEF EntryInv, SessionShape, SessionPcs
<1> QED BY <1>1, RegularUser DEF KeyHeld, Entered, Claims, Holds, LoginPcs

LEMMA CrashLife ==
  ASSUME LifeInv, NEW s \in Servers, Crash(s)
  PROVE  LifeInv'
<1> USE DEF LifeInv
<1>1. Death(s)
  BY DEF Crash
<1>2. ASSUME NEW u \in Regular PROVE KeyInv(u)'
  <2>1. u \in Users
    BY RegularUser
  <2>2. \A d \in On(s) : Claims(d, u) \/ who[d] = u => u \in staleKeys'
    BY <2>1 DEF Crash
  <2>3. \A d \in On(s) : KeyHeld(d, u) => u \in staleKeys'
    BY <2>2, KeyHolder DEF On
  <2>4. staleKeys \cup Abandoned(s) \subseteq staleKeys'
    BY DEF Crash
  <2>5. u \notin unguarded /\ key[u] = "online" =>
           u \in staleKeys' \/ \E e \in Conns \ On(s) : KeyHeld(e, u)
    BY <2>3, <2>4 DEF KeyInv, KeyFits
  <2> QED BY <1>1, <2>2, <2>4, <2>5, DeathKeys
<1> QED BY <1>1, <1>2, DeathEntry, DeathSignals, DeathRow

(* When the loop has been through the map, all that is left on the server  *)
(* is on its way out.                                                      *)
LEMMA ExitLife ==
  ASSUME LifeInv, NEW s \in Servers, Exit(s)
  PROVE  LifeInv'
<1> USE DEF LifeInv
<1>1. Death(s) /\ sig[s] = "delUsers" /\ ahead[s] = {}
  BY DEF Exit
<1>2. ASSUME NEW u \in Regular PROVE KeyInv(u)'
  <2>1. \A d \in On(s) : who[d] = u /\ pc[d] \in LeavePcs => u \in staleKeys'
    BY DEF Exit
  <2>2. \A d \in On(s) : KeyHeld(d, u) /\ Spared(s, d) => u \in staleKeys'
    BY <2>1, KeyHolder DEF On, Spared
  <2>3. staleKeys \cup Abandoned(s) \subseteq staleKeys'
    BY DEF Exit
  <2>4. u \notin unguarded /\ key[u] = "online" =>
           u \in staleKeys' \/ \E e \in Conns \ On(s) : KeyHeld(e, u)
    BY <1>1, <2>2, <2>3 DEF KeyInv, LoopFits
  <2> QED BY <1>1, <2>1, <2>3, <2>4, DeathKeys
<1> QED BY <1>1, <1>2, DeathEntry, DeathSignals, DeathRow

-----------------------------------------------------------------------------
(* Ctrl-C.                                                                 *)

(* Only the tables and keys change.                                        *)
Rests == UNCHANGED <<serverVars, clientVars, pc, locals>>

LEMMA RestingConns ==
  ASSUME Rests, NEW u
  PROVE  /\ \A d \in Conns : /\ Claims(d, u)' <=> Claims(d, u)
                             /\ Holds(d, u)' <=> Holds(d, u)
                             /\ Entered(d, u)' <=> Entered(d, u)
                             /\ KeyHeld(d, u)' <=> KeyHeld(d, u)
                             /\ Connection(d, u)' = Connection(d, u)
         /\ \A t \in Servers, d \in Conns : Spared(t, d)' <=> Spared(t, d)
         /\ Sole(u)' <=> Sole(u)
         /\ Found(u)' <=> Found(u)
<1>1. pc' = pc /\ who' = who /\ sess' = sess /\ connMap' = connMap
  BY DEF Rests, serverVars, clientVars, locals
<1>2. \A d \in Conns : /\ Claims(d, u)' <=> Claims(d, u)
                       /\ Holds(d, u)' <=> Holds(d, u)
                       /\ Entered(d, u)' <=> Entered(d, u)
                       /\ KeyHeld(d, u)' <=> KeyHeld(d, u)
                       /\ Connection(d, u)' = Connection(d, u)
  BY <1>1 DEF Claims, Holds, Entered, KeyHeld, Connection
<1> QED BY <1>1, <1>2 DEF Spared, Sole, Found

LEMMA RestingEntry ==
  ASSUME EntryInv, Rests, RedisTypeOK', StoreTypeOK'
  PROVE  EntryInv'
<1>1. /\ pc' = pc /\ who' = who /\ msg' = msg /\ todo' = todo /\ vec' = vec
      /\ sess' = sess /\ net' = net /\ connMap' = connMap
  BY DEF Rests, serverVars, clientVars, locals
<1>2. HandlerTypeOK' /\ Frames'
  BY <1>1 DEF EntryInv, TypeInv, TypeOK, HandlerTypeOK, Frames
<1>3. ServerTypeOK' /\ ClientTypeOK'
  BY Same DEF Rests, EntryInv, TypeInv, TypeOK
<1>4. SessionShape'
  BY <1>1 DEF EntryInv, SessionShape
<1>5. EntryBelongsToSession'
  BY <1>1 DEF EntryInv, EntryBelongsToSession, Entered
<1> QED BY <1>2, <1>3, <1>4, <1>5 DEF EntryInv, TypeInv, TypeOK

LEMMA RestingRow ==
  ASSUME Rests, NEW u \in Regular, RowInv(u), dbState' = dbState,
         locked' = locked, unguarded' = unguarded
  PROVE  RowInv(u)'
<1>1. RowFits(u)' <=> RowFits(u)
  BY RestingConns DEF RowFits
<1> QED BY <1>1, RestingConns DEF RowInv, Guarded

(* A key that belongs to somebody the loop can miss: it is in the map.     *)
LEMMA LoopMeets ==
  ASSUME EntryInv, NEW u \in Regular, NEW s \in Servers, Found(u), KeyFits(u), key[u] = "online"
  PROVE  \/ u \in staleKeys \/ Connected(s, u)
         \/ \E c \in Conns : KeyHeld(c, u) /\ Spared(s, c)
<1> SUFFICES ASSUME NEW c \in Conns, KeyHeld(c, u), ~Spared(s, c)
             PROVE  Connected(s, u)
  BY DEF KeyFits
<1>1. Connection(c, u) = c /\ Host[c] = s
  BY KeyHolder DEF Found, Spared
<1> QED BY <1>1, ChatAssumption DEF Connection, Connected

LEMMA InterruptLife ==
  ASSUME LifeInv, NEW s \in Servers, Interrupt(s)
  PROVE  LifeInv'
<1> USE DEF LifeInv
<1>1. /\ Rests /\ UNCHANGED <<redisVars, storeVars>> /\ ahead' = ahead
      /\ unguarded' = unguarded /\ locked' = locked /\ staleKeys' = staleKeys
      /\ sig' = [sig EXCEPT ![s] = "resetState"]
  BY DEF Interrupt, vars, Rests, faultVars
<1>2. EntryInv'
  BY <1>1, Same, RestingEntry DEF EntryInv, TypeInv, TypeOK
<1>3. SignalTypeOK'
  BY <1>1 DEF SignalTypeOK
<1>4. ASSUME NEW u \in Regular PROVE RowInv(u)' /\ KeyInv(u)'
  <2>1. RowInv(u)'
    BY <1>1, RestingRow DEF storeVars
  <2>2. key' = key
    BY <1>1 DEF redisVars
  <2>3. KeyFits(u)' <=> KeyFits(u)
    BY <1>1, <2>2, RestingConns DEF KeyFits
  <2>4. ASSUME NEW t \in Servers, LoopFits(t, u) PROVE LoopFits(t, u)'
    <3>1. sig'[t] = "delUsers" => sig[t] = "delUsers"
      BY <1>1 DEF SignalTypeOK
    <3> QED BY <1>1, <2>2, <2>4, <3>1, RestingConns DEF LoopFits
  <2> QED BY <1>1, <2>1, <2>3, <2>4 DEF KeyInv
<1> QED BY <1>2, <1>3, <1>4

LEMMA ResetStateLife ==
  ASSUME LifeInv, NEW s \in Servers, ResetState(s)
  PROVE  LifeInv'
<1> USE DEF LifeInv
<1>1. PICK ok \in BOOLEAN :
         /\ DbCall(ok)
         /\ dbState' = IF ok THEN [u \in Users |-> "offline"] ELSE dbState
         /\ locked' = IF ok THEN {} ELSE locked
         /\ unguarded' = IF ok THEN unguarded \cup {u \in Users : \E c \in Conns : Claims(c, u)}
                               ELSE unguarded
  BY DEF ResetState
<1>2. /\ Rests /\ UNCHANGED redisVars /\ offlineMsg' = offlineMsg /\ staleKeys' = staleKeys
      /\ sig' = [sig EXCEPT ![s] = "delUsers"]
      /\ ahead' = [ahead EXCEPT ![s] = {u \in Users : Connected(s, u)}]
  BY DEF ResetState, Rests
<1>3. EntryInv'
  <2>1. StoreTypeOK'
    <3>1. dbFails' \in 0 .. MaxDbFails
      BY <1>1, DbCallType DEF EntryInv, TypeInv, TypeOK
    <3> QED BY <1>1, <1>2, <3>1 DEF EntryInv, TypeInv, TypeOK, StoreTypeOK, DbState
  <2> QED BY <1>2, <2>1, Same, RestingEntry DEF EntryInv, TypeInv, TypeOK
<1>4. SignalTypeOK'
  BY <1>2 DEF SignalTypeOK
<1>5. ASSUME NEW u \in Regular PROVE RowInv(u)'
  <2>1. CASE ~ok
    BY <1>1, <1>2, <1>5, <2>1, RestingRow
  <2>2. CASE ok
    <3>1. u \in Users /\ locked' = {} /\ dbState'[u] = "offline"
      BY <1>1, <2>2, RegularUser
    <3>2. ASSUME u \notin unguarded' PROVE Guarded(u)'
      <4>1. u \notin unguarded /\ \A c \in Conns : ~Claims(c, u)
        BY <1>1, <2>2, <3>1, <3>2
      <4>2. \A c \in Conns : ~Holds(c, u)'
        BY <1>2, <4>1, RestingConns, HoldsClaims
      <4>3. RowFits(u)'
        BY <3>1, <4>2 DEF RowFits
      <4>4. Sole(u)' /\ Found(u)'
        BY <1>2, <4>1, RestingConns DEF RowInv, Guarded
      <4> QED BY <4>3, <4>4 DEF Guarded
    <3> QED BY <3>1, <3>2 DEF RowInv
  <2> QED BY <2>1, <2>2
<1>6. ASSUME NEW u \in Regular PROVE KeyInv(u)'
  <2> SUFFICES ASSUME u \notin unguarded
               PROVE  KeyFits(u)' /\ \A t \in Servers : LoopFits(t, u)'
    BY <1>1 DEF KeyInv
  <2>1. u \in Users /\ key' = key /\ KeyFits(u) /\ Found(u) /\ \A t \in Servers : LoopFits(t, u)
    BY <1>2, RegularUser DEF KeyInv, RowInv, Guarded, redisVars
  <2>2. KeyFits(u)'
    BY <1>2, <2>1, RestingConns DEF KeyFits
  <2>3. LoopFits(s, u)'
    <3>1. ASSUME key[u] = "online"
          PROVE  \/ u \in staleKeys \/ u \in ahead'[s]
                 \/ \E c \in Conns : KeyHeld(c, u) /\ Spared(s, c)
      <4>1. Connected(s, u) => u \in ahead'[s]
        BY <1>2, <2>1 DEF SignalTypeOK
      <4> QED BY <2>1, <3>1, <4>1, LoopMeets
    <3> QED BY <1>2, <2>1, <3>1, RestingConns DEF LoopFits
  <2>4. ASSUME NEW t \in Servers, t # s PROVE LoopFits(t, u)'
    <3>1. sig'[t] = sig[t] /\ ahead'[t] = ahead[t]
      BY <1>2, <2>4 DEF SignalTypeOK
    <3>2. LoopFits(t, u)
      BY <2>1
    <3> QED BY <1>2, <2>1, <3>1, <3>2, RestingConns DEF LoopFits
  <2> QED BY <2>2, <2>3, <2>4
<1> QED BY <1>3, <1>4, <1>5, <1>6

LEMMA ResetDelUserLife ==
  ASSUME LifeInv, NEW s \in Servers, ResetDelUser(s)
  PROVE  LifeInv'
<1> USE DEF LifeInv
<1>1. /\ Rests /\ UNCHANGED storeVars /\ sig' = sig
      /\ unguarded' = unguarded /\ locked' = locked
  BY DEF ResetDelUser, Rests
<1>2. PICK v \in Users :
         /\ ahead' = [ahead EXCEPT ![s] = @ \ {v}]
         /\ \/ DelUser(v) /\ staleKeys' = staleKeys \ {v}
            \/ ~Connected(s, v) /\ UNCHANGED <<redisVars, staleKeys>>
  BY DEF ResetDelUser, SignalTypeOK
<1>3. EntryInv'
  <2>1. CASE DelUser(v)
    <3>1. RedisTypeOK'
      BY <2>1, SetStateType DEF DelUser, KeyState, EntryInv, TypeInv, TypeOK
    <3> QED BY <1>1, <3>1, Same, RestingEntry DEF EntryInv, TypeInv, TypeOK
  <2>2. CASE UNCHANGED redisVars
    BY <1>1, <2>2, Same, RestingEntry DEF EntryInv, TypeInv, TypeOK
  <2> QED BY <1>2, <2>1, <2>2
<1>4. SignalTypeOK'
  BY <1>1, <1>2 DEF SignalTypeOK
<1>5. ASSUME NEW u \in Regular PROVE RowInv(u)'
  BY <1>1, <1>5, RestingRow DEF storeVars
<1>6. ASSUME NEW u \in Regular, u \notin unguarded
      PROVE  KeyFits(u)' /\ \A t \in Servers : LoopFits(t, u)'
  <2>0. KeyFits(u) /\ Found(u) /\ \A t \in Servers : LoopFits(t, u)
    BY <1>6 DEF KeyInv, RowInv, Guarded
  <2>1. CASE u # v
    <3>1. key'[u] = key[u] /\ (u \in staleKeys' <=> u \in staleKeys)
      <4>1. u \in Users
        BY RegularUser
      <4> QED BY <1>2, <2>1, <4>1
              DEF DelUser, SetState, redisVars, EntryInv, TypeInv, TypeOK, RedisTypeOK
    <3>4. \A t \in Servers : u \in ahead'[t] <=> u \in ahead[t]
      BY <1>2, <2>1 DEF SignalTypeOK
    <3>2. KeyFits(u)'
      BY <1>1, <2>0, <3>1, RestingConns DEF KeyFits
    <3>3. ASSUME NEW t \in Servers PROVE LoopFits(t, u)'
      <4>1. LoopFits(t, u)
        BY <2>0
      <4> QED BY <1>1, <3>1, <3>4, <4>1, RestingConns DEF LoopFits
    <3> QED BY <3>2, <3>3
  <2>2. CASE u = v /\ DelUser(v)
    <3>1. key'[u] = "null"
      BY <2>2 DEF DelUser, SetState, EntryInv, TypeInv, TypeOK, RedisTypeOK
    <3> QED BY <3>1 DEF KeyFits, LoopFits
  <2>3. CASE u = v /\ ~Connected(s, v) /\ UNCHANGED <<redisVars, staleKeys>>
    <3>1. key' = key /\ staleKeys' = staleKeys
      BY <2>3 DEF redisVars
    <3>2. KeyFits(u)'
      BY <1>1, <2>0, <3>1, RestingConns DEF KeyFits
    <3>3. LoopFits(s, u)'
      <4>1. key[u] = "online" =>
               u \in staleKeys \/ \E c \in Conns : KeyHeld(c, u) /\ Spared(s, c)
        BY <2>0, <2>3, LoopMeets
      <4> QED BY <1>1, <3>1, <4>1, RestingConns DEF LoopFits
    <3>4. ASSUME NEW t \in Servers, t # s PROVE LoopFits(t, u)'
      <4>1. ahead'[t] = ahead[t] /\ LoopFits(t, u)
        BY <1>2, <2>0, <3>4 DEF SignalTypeOK
      <4> QED BY <1>1, <3>1, <4>1, RestingConns DEF LoopFits
    <3> QED BY <3>2, <3>3, <3>4
  <2> QED BY <1>2, <2>1, <2>2, <2>3
<1> QED BY <1>1, <1>3, <1>4, <1>5, <1>6 DEF KeyInv

-----------------------------------------------------------------------------
LEMMA InitLife == LifeInit => LifeInv
<1> SUFFICES ASSUME LifeInit PROVE LifeInv
  OBVIOUS
<1> USE DEF LifeInit, ServiceInit
<1>1. TypeInv
  <2>1. RedisTypeOK
    BY EmptySeq DEF RedisTypeOK
  <2>2. StoreTypeOK
    <3>1. MaxDbFails \in Nat
      BY StoreAssumption
    <3> QED BY <3>1, EmptySeq DEF StoreTypeOK, DbState
  <2>3. ServerTypeOK /\ ClientTypeOK
    BY EmptySeq DEF ServerTypeOK, ClientTypeOK
  <2>4. HandlerTypeOK /\ Frames
    BY EmptySeq DEF HandlerTypeOK, Frames, Pcs, LoginPcs, LeavePcs, ChatPcs, GroupHoldPcs
  <2> QED BY <2>1, <2>2, <2>3, <2>4 DEF TypeInv, TypeOK
<1>2. SessionShape
  BY DEF SessionShape, SessionPcs, LoginPcs, LeavePcs
<1>3. EntryBelongsToSession
  BY DEF EntryBelongsToSession
<1>4. SignalTypeOK
  BY DEF SignalTypeOK
<1>5. ASSUME NEW u \in Regular PROVE RowInv(u) /\ KeyInv(u)
  <2>1. u \in Users /\ u # NoUser
    BY RegularUser
  <2>2. \A c \in Conns : ~Claims(c, u) /\ ~Holds(c, u) /\ ~Entered(c, u)
    BY <2>1 DEF Claims, Holds, Entered
  <2>3. dbState[u] = "online" <=> u \in locked
    BY <2>1
  <2>4. Guarded(u)
    BY <2>2, <2>3 DEF Guarded, Sole, RowFits, Found
  <2>5. KeyFits(u) /\ \A s \in Servers : LoopFits(s, u)
    BY <2>1 DEF KeyFits, LoopFits
  <2> QED BY <2>3, <2>4, <2>5 DEF RowInv, KeyInv
<1> QED BY <1>1, <1>2, <1>3, <1>4, <1>5 DEF LifeInv, EntryInv

LEMMA StepLife == LifeInv /\ [LifeNext]_lifeVars => LifeInv'
<1> SUFFICES ASSUME LifeInv, [LifeNext]_lifeVars PROVE LifeInv'
  OBVIOUS
<1>1. CASE ServiceStep
  <2>1. EntryInv'
    BY <1>1, StepEntry DEF LifeInv, ServiceStep
  <2>2. SignalTypeOK'
    BY <1>1 DEF LifeInv, SignalTypeOK, ServiceStep, signalVars
  <2>3. \A u \in Regular : RowInv(u)' /\ KeyInv(u)'
    BY <1>1, ServiceRows, ServiceKeys DEF LifeInv
  <2> QED BY <2>1, <2>2, <2>3 DEF LifeInv
<1>2. CASE UNCHANGED lifeVars
  <2>1. UNCHANGED vars /\ sig' = sig /\ ahead' = ahead /\ Rests /\ key' = key
        /\ dbState' = dbState
        /\ unguarded' = unguarded /\ locked' = locked /\ staleKeys' = staleKeys
    BY <1>2 DEF lifeVars, vars, redisVars, storeVars, signalVars, faultVars, Rests
  <2>2. EntryInv'
    BY <2>1, StepEntry DEF LifeInv
  <2>3. SignalTypeOK'
    BY <2>1 DEF LifeInv, SignalTypeOK
  <2>4. ASSUME NEW u \in Regular PROVE RowInv(u)' /\ KeyInv(u)'
    <3>1. RowInv(u)'
      BY <2>1, RestingRow DEF LifeInv
    <3>2. KeyFits(u)' <=> KeyFits(u)
      BY <2>1, RestingConns DEF KeyFits
    <3>3. \A t \in Servers : LoopFits(t, u)' <=> LoopFits(t, u)
      BY <2>1, RestingConns DEF LoopFits
    <3> QED BY <2>1, <3>1, <3>2, <3>3 DEF LifeInv, KeyInv
  <2> QED BY <2>2, <2>3, <2>4 DEF LifeInv
<1> QED
  BY <1>1, <1>2, CrashLife, ExitLife, InterruptLife, ResetStateLife, ResetDelUserLife DEF LifeNext

LEMMA LifeInvariance == LifeSpec => []LifeInv
BY InitLife, StepLife, PTL DEF LifeSpec

(* Whichever processes die or are interrupted at whatever step, and        *)
(* whichever statements fail and logins overlap: for every user none of    *)
(* this has taken the row away from, the row is still the lock on the      *)
(* account.                                                                *)
THEOREM SurvivalTheorem == LifeSpec => []SessionsSurvive
<1>1. LifeInv => SessionsSurvive
  BY DEF LifeInv, RowInv, Guarded, Sole, RowFits, SessionsSurvive
<1> QED BY <1>1, LifeInvariance, PTL

(* Nor does a key that says "online" lose whoever is to delete it, but by  *)
(* one of the faults that are written down: a reset on a quiet server      *)
(* leaves none.                                                            *)
THEOREM PresenceTheorem == LifeSpec => []PresenceExplained
<1>1. LifeInv => PresenceExplained
  <2> SUFFICES ASSUME LifeInv, NEW u \in Regular \ unguarded, key[u] = "online"
               PROVE  u \in staleKeys \/ Present(u)
    BY DEF PresenceExplained
  <2>1. u \in staleKeys \/ \E c \in Conns : KeyHeld(c, u)
    BY DEF LifeInv, KeyInv, KeyFits
  <2>2. ASSUME NEW c \in Conns, KeyHeld(c, u) PROVE Present(u)
    BY <2>2 DEF KeyHeld, Present, Claims, Holds, LoginPcs, LeavePcs
  <2> QED BY <2>1, <2>2
<1> QED BY <1>1, LifeInvariance, PTL

(* An ended process leaves no entry of its own, on any server, and what    *)
(* is restarted in its place makes none for connections that are gone.     *)
THEOREM EntriesSurvive == LifeSpec => []EntryBelongsToSession
<1>1. LifeInv => EntryBelongsToSession
  BY DEF LifeInv, EntryInv
<1> QED BY <1>1, LifeInvariance, PTL

LEMMA LifeAddressed == LifeInv /\ [LifeNext]_lifeVars => [Addressed]_vars
<1> SUFFICES ASSUME LifeInv, [LifeNext]_lifeVars PROVE Addressed
  OBVIOUS
<1>1. EntryInv
  BY DEF LifeInv
<1>2. CASE ServiceStep
  BY <1>1, <1>2, StepAddressed DEF ServiceStep
<1>3. CASE ~ServiceStep
  <2>1. out' = out
    BY <1>3 DEF LifeNext, Crash, Exit, Death, Interrupt, ResetState, ResetDelUser, lifeVars, vars,
       clientVars
  <2> QED BY <1>1, <2>1, NothingSent
<1> QED BY <1>2, <1>3

(* Nor do deaths and resets, in the middle of whatever handlers, send a    *)
(* message to the wrong client.                                            *)
THEOREM MisdeliverySurvives == LifeSpec => NoMisdelivery
<1>1. LifeSpec => [][Addressed]_vars
  BY LifeAddressed, LifeInvariance, PTL DEF LifeSpec
<1> QED BY <1>1 DEF NoMisdelivery, Addressed
=============================================================================
