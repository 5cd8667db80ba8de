------------------------------- MODULE UserStore -------------------------------
(***************************************************************************)
(* The tables of the MySQL database that decide who may log in and what an *)
(* absent user still has to read: user.state (usermodel.cpp) and           *)
(* offlinemessage (offlinemessagemodel.cpp).                               *)
(*                                                                         *)
(* Every method takes a pooled connection and runs one statement: it is    *)
(* one atomic step, and it may fail (no connection, or mysql_query # 0).   *)
(* A failure is only logged: the caller goes on as if the statement had    *)
(* matched nothing.  MaxDbFails bounds the failures of a behaviour.        *)
(***************************************************************************)
EXTENDS Envelopes, Sequences, Naturals

CONSTANTS
    Passwords,      \* passwords a client may type
    Password,       \* the stored password of each user
    MaxDbFails      \* bound on the number of failing statements

ASSUME StoreAssumption ==
    /\ Password \in [Users -> Passwords]
    /\ "" \notin Passwords
    /\ MaxDbFails \in Nat

VARIABLES
    dbState,        \* the state column of the user table
    offlineMsg,     \* the rows of offlinemessage of each user, oldest first
    dbFails         \* failing statements so far

storeVars == <<dbState, offlineMsg, dbFails>>

DbState == {"online", "offline"}

StoreTypeOK ==
    /\ dbState \in [Users -> DbState]
    /\ offlineMsg \in [Users -> Seq(Messages)]
    /\ dbFails \in 0 .. MaxDbFails

StoreInit ==
    /\ dbState = [u \in Users |-> "offline"]
    /\ offlineMsg = [u \in Users |-> <<>>]
    /\ dbFails = 0

-----------------------------------------------------------------------------
(* A statement succeeds, or fails while the bound allows it.               *)
DbCall(ok) ==
    \/ ok /\ UNCHANGED dbFails
    \/ ~ok /\ dbFails < MaxDbFails /\ dbFails' = dbFails + 1

(* User user;  the constructor's defaults, which a failed query returns.   *)
DefaultUser == [id |-> DefaultId, pwd |-> "", state |-> "offline"]

(* UserModel::query                                                        *)
Query(u, ok) ==
    IF ok THEN [id |-> u, pwd |-> Password[u], state |-> dbState[u]]
          ELSE DefaultUser

QueryUser(ok) == DbCall(ok) /\ UNCHANGED <<dbState, offlineMsg>>

(* Mutant: an UPDATE that lost its WHERE clause.                           *)
UpdateEveryState(u, state, ok) ==
    /\ DbCall(ok)
    /\ dbState' = IF ok THEN [v \in Users |-> state] ELSE dbState
    /\ UNCHANGED offlineMsg

(* UserModel::updateState                                                  *)
UpdateState(u, state, ok) ==
    /\ DbCall(ok)
    /\ dbState' = IF ok THEN [dbState EXCEPT ![u] = state] ELSE dbState
    /\ UNCHANGED offlineMsg

(* OfflineMsgModel::insert                                                 *)
InsertOffline(u, m, ok) ==
    /\ DbCall(ok)
    /\ offlineMsg' = IF ok THEN [offlineMsg EXCEPT ![u] = Append(@, m)]
                           ELSE offlineMsg
    /\ UNCHANGED dbState

(* OfflineMsgModel::query                                                  *)
OfflineRows(u, ok) == IF ok THEN offlineMsg[u] ELSE <<>>

QueryOffline(ok) == DbCall(ok) /\ UNCHANGED <<dbState, offlineMsg>>

(* Mutant: a DELETE that matches nothing.                                  *)
RemoveNothing(u, ok) == DbCall(ok) /\ UNCHANGED <<dbState, offlineMsg>>

(* OfflineMsgModel::remove deletes every row of the user, whatever was     *)
(* read before.                                                            *)
RemoveOffline(u, ok) ==
    /\ DbCall(ok)
    /\ offlineMsg' = IF ok THEN [offlineMsg EXCEPT ![u] = <<>>] ELSE offlineMsg
    /\ UNCHANGED dbState
=============================================================================
