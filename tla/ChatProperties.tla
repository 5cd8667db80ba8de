---------------------------- MODULE ChatProperties ----------------------------
(***************************************************************************)
(* What ChatService is meant to guarantee, and what its comments claim.    *)
(***************************************************************************)
EXTENDS ChatService, FiniteSets

-----------------------------------------------------------------------------
(* Sessions.                                                               *)

(* Connection c has been entered for user u: after the insert of login,    *)
(* until loginout or the close callback erases the entry.                  *)
Entered(c, u) ==
    \/ sess[c] = u
    \/ who[c] = u /\ pc[c] \in LoginPcs \ {"insert"}

(* A map entry names a live connection of the same server whose client is  *)
(* that user: handlers call it->second->send on what the map holds, long   *)
(* after login and from other threads, and nothing else keeps a closed or  *)
(* reused connection from receiving somebody's messages.                   *)
EntryBelongsToSession ==
    \A s \in Servers, u \in Users :
        LET c == connMap[s][u]
        IN  c # NoConn => Host[c] = s /\ net[c] # "none" /\ Entered(c, u)

(* Whatever handler or observer writes to a client, the message is         *)
(* addressed to the account that client is using.                          *)
NoMisdelivery ==
    [][\A c \in Conns :
          \A i \in (Len(out[c]) + 1) .. Len(out'[c]) : Entered(c, out'[c][i].to)]_vars

(* The session of u that connection c must end: from the moment the row is *)
(* "online" until it is "offline" again.                                   *)
Holds(c, u) ==
    \/ sess[c] = u
    \/ who[c] = u /\ pc[c] \in LoginPcs \ {"insert", "subscribe", "setOnline"}
    \/ who[c] = u /\ pc[c] \in {"unsubscribe", "setOffline"}

(* From the check of the row: c has been let in as u, or still is.         *)
Claims(c, u) ==
    \/ Holds(c, u)
    \/ who[c] = u /\ pc[c] \in {"insert", "subscribe", "setOnline"}

(* The id of a default-constructed User is knocked about by every close of *)
(* a connection without a session; all promises are about the others.      *)
Regular == Users \ {DefaultId}

(* One connection per account in the whole cluster, although each server   *)
(* knows only its own connections: the row in MySQL is the lock.           *)
OneSession ==
    \A u \in Regular, c, d \in Conns : Claims(c, u) /\ Claims(d, u) => c = d

(* A row says "online" exactly while some connection is there to reset it: *)
(* no account stays locked after its client has left, none looks free      *)
(* while it is in use.                                                     *)
OnlineRowHasOwner ==
    \A u \in Regular : dbState[u] = "online" <=> \E c \in Conns : Holds(c, u)

(* The abstract lock that the check of the row is meant to implement.      *)
HolderOf(u) ==
    IF \E c \in Conns : Holds(c, u) THEN CHOOSE c \in Conns : Holds(c, u)
                                    ELSE NoConn

AccountLock == INSTANCE SessionLock WITH
                 Accts <- Regular,
                 holder <- [u \in Regular |-> HolderOf(u)]

(* The handlers implement that lock.                                       *)
ImplementsSessionLock == AccountLock!LockSpec

-----------------------------------------------------------------------------
(* Presence.                                                               *)

(* No handler or queued command is about user u.                           *)
Quiet(u) ==
    /\ \A c \in Conns : who[c] # u /\ u \notin todo[c]
    /\ \A s \in Servers, i \in 1 .. MaxCmds :
          i <= Len(cmds[s]) => cmds[s][i].channel # u

Connected(s, u) == connMap[s][u] # NoConn

(* When nothing about a user is in progress, the user table, the map and   *)
(* the subscriptions tell the same story, on whichever server it is.       *)
RoutingAgrees ==
    \A u \in Regular : Quiet(u) =>
        /\ dbState[u] = "online" <=> \E s \in Servers : Connected(s, u)
        /\ \A s \in Servers : u \in subs[s] <=> Connected(s, u)

(* While groupChat walks over the members, or the observer stores a        *)
(* message, no login, loginout or close changes the map under it.          *)
MapStableUnderLock ==
    [][\A s \in Servers : lock[s] # Free => UNCHANGED connMap[s]]_vars

-----------------------------------------------------------------------------
(* Messages.                                                               *)

Positions(x, seq) == {i \in DOMAIN seq : seq[i] = x}

InHandPcs ==
    (ChatPcs \ {"chatSetOffline"}) \cup (GroupHoldPcs \ {"groupNext"})

(* Everywhere message m to user u is kept.  What login has read counts     *)
(* once the rows are deleted.                                              *)
Places(m, u) ==
    (UNION {{<<"client", c, i>> : i \in Positions(Env(u, m), out[c])} : c \in Conns})
    \cup {<<"offline", i>> : i \in Positions(m, offlineMsg[u])}
    \cup (UNION {{<<"bus", s, i>> : i \in Positions(Env(u, m), inbox[s])} : s \in Servers})
    \cup (UNION {{<<"observer", s, i>> : i \in Positions(Env(u, m), obs[s])} : s \in Servers})
    \cup (UNION {{<<"login", c, i>> : i \in Positions(m, vec[c])} :
                   c \in {d \in Conns : pc[d] = "ackLogin" /\ who[d] = u}})
    \cup {<<"handler", c>> : c \in {d \in Conns :
            msg[d] = m /\ (u \in todo[d] \/ (who[d] = u /\ pc[d] \in InHandPcs))}}

(* With a single server a message is in one place at most, whatever logins,*)
(* logouts and senders interleave: nobody gets it twice.                   *)
AtMostOneCopy ==
    \A m \in Messages, u \in Regular : Cardinality(Places(m, u)) <= 1

(* README.md: offline messages are stored.  A message sent to one user is  *)
(* always somewhere, until it has reached its client.                      *)
NotLost ==
    \A m \in Chats \cap sent : \E u \in Users : Places(m, u) # {}

-----------------------------------------------------------------------------
(* Progress.                                                               *)

(* Every handler returns: no IO thread is stuck behind the mutex or the    *)
(* subscribe socket.                                                       *)
HandlersFinish == \A c \in Conns : pc[c] # "idle" ~> pc[c] = "idle"

(* A client that vanishes frees its account.                               *)
VanishedClientFreesAccount ==
    \A c \in Conns, u \in Regular :
        net[c] = "down" /\ sess[c] = u ~> dbState[u] = "offline"

(* User u can be reached from anywhere in the cluster.                     *)
Settled(u) ==
    /\ key[u] = "online"
    /\ dbState[u] = "online"
    /\ \E s \in Servers : /\ Connected(s, u)
                          /\ sess[connMap[s][u]] = u
                          /\ u \in subs[s]

(* Some sender has already found u offline.                                *)
Outdated(u) ==
    \E d \in Conns : who[d] = u /\ pc[d] \in {"chatInsert", "chatSetOffline", "groupSetOffline"}

Received(u, m) ==
    \E c \in Conns : \E i \in DOMAIN out[c] : out[c][i] = Env(u, m)

(* Across servers, a message whose sender asks Redis for a settled user    *)
(* arrives, as long as users stay: login in parts, other senders and the   *)
(* hand-over between sender, channel, observer and map included.           *)
SettledDelivery ==
    \A u \in Regular, m \in Messages :
        /\ \E c \in Conns : /\ pc[c] \in {"chatGetState", "groupGetState"}
                            /\ who[c] = u
                            /\ msg[c] = m
        /\ Settled(u)
        /\ ~Outdated(u)
        ~> Received(u, m)
=============================================================================
