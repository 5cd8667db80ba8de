------------------------------- MODULE ChatLife -------------------------------
(***************************************************************************)
(* Server processes that end and are started again, under ChatService.     *)
(*                                                                         *)
(* A process ends in two ways.  An uncaught exception (chatserver.cpp      *)
(* parses whatever arrives without a try) or a kill takes its memory, its  *)
(* connections and its Redis subscriptions at once; rows, keys and offline *)
(* messages stay.  Ctrl-C first runs ChatService::reset on the main thread *)
(* while the IO threads go on (src/src/server/main.cpp): it sets every     *)
(* online row of the cluster to offline and deletes the keys of the users  *)
(* in its own map, without _connMutex.  A new process needs no action: it  *)
(* starts with the empty state a death leaves.                             *)
(*                                                                         *)
(* Three history variables name the users for whom a fault, and nothing    *)
(* else, excuses a row or a key that does not fit.                         *)
(***************************************************************************)
EXTENDS ChatProperties

CONSTANT
    MaxDeaths   \* bound on the processes that end

ASSUME MaxDeathsAssumption == MaxDeaths \in Nat

VARIABLES
    sig,        \* where the handler of SIGINT is on each server
    ahead,      \* entries of the map its loop has not reached yet
    deaths,     \* processes that have ended or been interrupted
    unguarded,  \* users in use although their row does not say so
    locked,     \* users whose row was left at "online" by a fault
    staleKeys   \* users whose key was left at "online" by a fault

signalVars == <<sig, ahead, deaths>>
faultVars == <<unguarded, locked, staleKeys>>
lifeVars == <<vars, signalVars, faultVars>>

(* The cluster may have seen deaths before: rows and keys are as they left *)
(* them.                                                                   *)
LifeInit ==
    /\ ServiceInit
    /\ locked \in SUBSET Regular
    /\ staleKeys \in SUBSET locked
    /\ unguarded = {}
    /\ dbState = [u \in Users |-> IF u \in locked THEN "online" ELSE "offline"]
    /\ offlineMsg = [u \in Users |-> <<>>]
    /\ dbFails = 0
    /\ key \in [Users -> KeyState]
    /\ staleKeys = {u \in Users : key[u] = "online"}
    /\ subs = [s \in Servers |-> {}]
    /\ cmds = [s \in Servers |-> <<>>]
    /\ inbox = [s \in Servers |-> <<>>]
    /\ sig = [s \in Servers |-> "none"]
    /\ ahead = [s \in Servers |-> {}]
    /\ deaths = 0

-----------------------------------------------------------------------------
(* Steps of ChatService, with what they excuse.                            *)

Departs(c, here) == pc[c] = here /\ pc'[c] # here

(* Users for whom connection c leaves pc here, in a given way.             *)
Moved(here) == {who[c] : c \in {d \in Conns : Departs(d, here)}}

Failed == dbFails' # dbFails

(* Accepted while another login of the user had yet to write the row.      *)
Overtaken ==
    {u \in Users : LoginPending(u)
                   /\ \E c \in Conns : pc[c] # "insert" /\ pc'[c] = "insert" /\ who'[c] = u}

(* Keys written by a login behind the back of reset's loop, or by a sender *)
(* that trusts a row it read before.                                       *)
KeysOfNobody ==
    {who[c] : c \in {d \in Conns :
        \/ sig[Host[d]] = "delUsers" /\ (Departs(d, "addUser") \/ Departs(d, "markOnline"))
        \/ Departs(d, "chatSetOnline")
        \/ Departs(d, "groupSetOnline")}}

ServiceStep ==
    /\ Next
    /\ unguarded' = unguarded \cup Overtaken
                              \cup (IF Failed THEN Moved("setOnline") ELSE {})
    /\ locked' = IF Failed
                 THEN locked \cup {u \in Moved("setOffline") : dbState[u] = "online"}
                 ELSE locked \ (Moved("setOffline") \cup Moved("setOnline"))
    /\ staleKeys' = (staleKeys \cup KeysOfNobody) \ Moved("delUser")
    /\ UNCHANGED signalVars

-----------------------------------------------------------------------------
(* The end of a process.                                                   *)

On(s) == {c \in Conns : Host[c] = s}

Wiped(f, s, default) == [c \in Conns |-> IF c \in On(s) THEN default ELSE f[c]]

(* Users nobody claims but on server s.                                    *)
Orphans(s) == {u \in Users : \A c \in Conns \ On(s) : ~Claims(c, u)}

(* Those of them whom nothing guarded any more, and whose key is there:    *)
(* the fault that took the guard away has left it.                         *)
Abandoned(s) == {u \in unguarded \cap Orphans(s) : key[u] = "online"}

Death(s) ==
    /\ connMap' = [connMap EXCEPT ![s] = [u \in Users |-> NoConn]]
    /\ lock' = [lock EXCEPT ![s] = Free]
    /\ obs' = [obs EXCEPT ![s] = <<>>]
    /\ subs' = [subs EXCEPT ![s] = {}]
    /\ cmds' = [cmds EXCEPT ![s] = <<>>]
    /\ inbox' = [inbox EXCEPT ![s] = <<>>]
    /\ net' = Wiped(net, s, "none")
    /\ pc' = Wiped(pc, s, "idle")
    /\ who' = Wiped(who, s, NoUser)
    /\ msg' = Wiped(msg, s, NoMsg)
    /\ todo' = Wiped(todo, s, {})
    /\ vec' = Wiped(vec, s, <<>>)
    /\ sess' = Wiped(sess, s, NoUser)
    /\ sig' = [sig EXCEPT ![s] = "none"]
    /\ ahead' = [ahead EXCEPT ![s] = {}]
    /\ locked' = locked \cup {u \in Orphans(s) : dbState[u] = "online"}
    /\ unguarded' = unguarded \ Orphans(s)
    /\ UNCHANGED <<key, storeVars, out, sent>>

(* A kill, or an exception that leaves onMessage.                          *)
Crash(s) ==
    /\ deaths < MaxDeaths
    /\ Death(s)
    /\ deaths' = deaths + 1
    /\ staleKeys' = staleKeys \cup Abandoned(s)
          \cup {u \in Users : \E c \in On(s) : Claims(c, u) \/ who[c] = u}

-----------------------------------------------------------------------------
(* Ctrl-C: resetHandler and ChatService::reset.                            *)

Interrupt(s) ==
    /\ deaths < MaxDeaths
    /\ deaths' = deaths + 1
    /\ sig[s] = "none"
    /\ sig' = [sig EXCEPT ![s] = "resetState"]
    /\ UNCHANGED <<vars, ahead, faultVars>>

(* Mutant: the UPDATE is limited to the users of the server's own map.     *)
ResetOwnUsers(s) ==
    /\ sig[s] = "resetState"
    /\ DbCall(TRUE)
    /\ dbState' = [u \in Users |-> IF Connected(s, u) THEN "offline" ELSE dbState[u]]
    /\ locked' = {}
    /\ unguarded' = unguarded \cup {u \in Users : \E c \in Conns : Claims(c, u)}
    /\ sig' = [sig EXCEPT ![s] = "delUsers"]
    /\ ahead' = [ahead EXCEPT ![s] = {u \in Users : Connected(s, u)}]
    /\ UNCHANGED <<redisVars, offlineMsg, serverVars, clientVars, pc, locals, deaths, staleKeys>>

(* UserModel::resetState, for users of every server.                       *)
ResetState(s) ==
    /\ sig[s] = "resetState"
    /\ \E ok \in BOOLEAN :
          /\ DbCall(ok)
          /\ dbState' = IF ok THEN [u \in Users |-> "offline"] ELSE dbState
          /\ locked' = IF ok THEN {} ELSE locked
          /\ unguarded' = IF ok THEN unguarded \cup {u \in Users : \E c \in Conns : Claims(c, u)}
                                ELSE unguarded
    /\ sig' = [sig EXCEPT ![s] = "delUsers"]
    /\ ahead' = [ahead EXCEPT ![s] = {u \in Users : Connected(s, u)}]
    /\ UNCHANGED <<redisVars, offlineMsg, serverVars, clientVars, pc, locals, deaths, staleKeys>>

(* Mutant: the loop over the map forgets to call del_user.                 *)
ResetWithoutDelUser(s) ==
    /\ sig[s] = "delUsers"
    /\ \E u \in ahead[s] : ahead' = [ahead EXCEPT ![s] = @ \ {u}]
    /\ UNCHANGED <<vars, sig, deaths, faultVars>>

(* The loop takes no mutex: an entry erased in the meantime may or may not *)
(* be met, one that was inserted may be met too.                           *)
ResetDelUser(s) ==
    /\ sig[s] = "delUsers"
    /\ \/ \E u \in ahead[s] \cup {v \in Users : Connected(s, v)} :
             /\ DelUser(u)
             /\ ahead' = [ahead EXCEPT ![s] = @ \ {u}]
             /\ staleKeys' = staleKeys \ {u}
       \/ \E u \in ahead[s] :
             /\ ~Connected(s, u)
             /\ ahead' = [ahead EXCEPT ![s] = @ \ {u}]
             /\ UNCHANGED <<redisVars, staleKeys>>
    /\ UNCHANGED <<storeVars, serverVars, clientVars, pc, locals, sig, deaths, unguarded, locked>>

(* exit(0), whatever the IO threads are doing.                             *)
Exit(s) ==
    /\ sig[s] = "delUsers"
    /\ ahead[s] = {}
    /\ Death(s)
    /\ staleKeys' = staleKeys \cup Abandoned(s)
          \cup {who[c] : c \in {d \in On(s) : pc[d] \in LeavePcs}}
    /\ UNCHANGED deaths

LifeNext ==
    \/ ServiceStep
    \/ \E s \in Servers :
          \/ Crash(s)
          \/ Interrupt(s)
          \/ ResetState(s)
          \/ ResetDelUser(s)
          \/ Exit(s)

LifeSpec == LifeInit /\ [][LifeNext]_lifeVars

-----------------------------------------------------------------------------
(* Whatever dies or fails at whatever step, one connection at most is let  *)
(* in as a user, and the row is "online" exactly while one is, except for  *)
(* users whose row reset or a failed update of login took away under them, *)
(* or who logged in twice at once (unguarded), and for users whose server  *)
(* died or whose logout could not write the row (locked: nobody can log in *)
(* as them until some server is interrupted).                              *)
SessionsSurvive ==
    \A u \in Regular \ unguarded :
        /\ \A c, d \in Conns : Claims(c, u) /\ Claims(d, u) => c = d
        /\ dbState[u] = "online" <=> u \in locked \/ \E c \in Conns : Holds(c, u)

(* Handler or session of u: somebody will still delete the key.            *)
Present(u) == \E c \in Conns : Claims(c, u) \/ (who[c] = u /\ pc[c] = "delUser")

(* A key that says "online" belongs to a user who is there, or was left by *)
(* a crash, by an exit in the middle of a logout or login, or by a sender  *)
(* that acted on an old row.  Ctrl-C on a quiet server leaves none.        *)
PresenceExplained ==
    \A u \in Regular \ unguarded :
        key[u] = "online" => u \in staleKeys \/ Present(u)
=============================================================================
