------------------------------- MODULE RedisBus -------------------------------
(***************************************************************************)
(* Redis as the chat cluster uses it (src/src/server/redis/redis.cpp): one *)
(* presence key per user, read and written over _data_context, and the     *)
(* publish/subscribe channels, one per user id, that carry messages from   *)
(* one chat server to another.                                             *)
(*                                                                         *)
(* A command on _data_context or _publish_context waits for its reply, so  *)
(* it is one atomic step.  SUBSCRIBE and UNSUBSCRIBE are only written to   *)
(* the socket of _subcribe_context: the Redis server executes them later,  *)
(* in the order they were written (RedisExecute).                          *)
(***************************************************************************)
EXTENDS Envelopes, Sequences, Naturals

CONSTANT
    MaxCmds     \* unexecuted commands the subscribe socket holds

ASSUME MaxCmdsAssumption == MaxCmds \in Nat \ {0}

VARIABLES
    key,        \* presence key of each user, "null" when the key is absent
    subs,       \* channels each server's subscribe connection listens to
    cmds,       \* per server, commands written but not yet executed
    inbox       \* per server, published messages its observer has not read

redisVars == <<key, subs, cmds, inbox>>

KeyState == {"null", "online", "offline"}
Command  == [verb : {"SUBSCRIBE", "UNSUBSCRIBE"}, channel : Users]

RedisTypeOK ==
    /\ key \in [Users -> KeyState]
    /\ subs \in [Servers -> SUBSET Users]
    /\ cmds \in [Servers -> Seq(Command)]
    /\ inbox \in [Servers -> Seq(Envelope)]

(* A chat with an offline user leaves the key at "offline" until that user *)
(* next logs out, so a cluster may start with such keys.                   *)
RedisInit ==
    /\ key \in [Users -> {"null", "offline"}]
    /\ subs = [s \in Servers |-> {}]
    /\ cmds = [s \in Servers |-> <<>>]
    /\ inbox = [s \in Servers |-> <<>>]

-----------------------------------------------------------------------------
(* The operations of class Redis, as the caller on server s sees them.     *)

(* GET: an absent key (reply of length 0) is reported as "null".           *)
GetState(u) == key[u]

SetState(u, state) ==
    /\ key' = [key EXCEPT ![u] = state]
    /\ UNCHANGED <<subs, cmds, inbox>>

AddUser(u) == SetState(u, "online")

DelUser(u) == SetState(u, "null")

(* redisBufferWrite loops until the command is in the socket: it waits     *)
(* while MaxCmds commands are unread.                                      *)
Write(s, verb, u) ==
    /\ Len(cmds[s]) < MaxCmds
    /\ cmds' = [cmds EXCEPT ![s] = Append(@, [verb |-> verb, channel |-> u])]
    /\ UNCHANGED <<key, subs, inbox>>

Subscribe(s, u) == Write(s, "SUBSCRIBE", u)

Unsubscribe(s, u) == Write(s, "UNSUBSCRIBE", u)

(* PUBLISH hands a copy to every server listening to the channel at that   *)
(* moment, and to nobody else.                                             *)
Publish(u, m) ==
    /\ inbox' = [s \in Servers |-> IF u \in subs[s]
                                  THEN Append(inbox[s], Env(u, m))
                                  ELSE inbox[s]]
    /\ UNCHANGED <<key, subs, cmds>>

(* The Redis server executes the oldest command of server s's subscribe    *)
(* connection.                                                             *)
RedisExecute(s) ==
    /\ cmds[s] # <<>>
    /\ LET cmd == Head(cmds[s])
       IN  subs' = [subs EXCEPT ![s] = IF cmd.verb = "SUBSCRIBE"
                                       THEN @ \cup {cmd.channel}
                                       ELSE @ \ {cmd.channel}]
    /\ cmds' = [cmds EXCEPT ![s] = Tail(@)]
    /\ UNCHANGED <<key, inbox>>

(* redisGetReply on the observer thread of server s takes the next message.*)
NextReply(s) == Head(inbox[s])

Consume(s) ==
    /\ inbox[s] # <<>>
    /\ inbox' = [inbox EXCEPT ![s] = Tail(@)]
    /\ UNCHANGED <<key, subs, cmds>>
=============================================================================
