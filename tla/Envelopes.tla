------------------------- MODULE Envelopes -------------------------
(***************************************************************************)
(* What the chat servers of a deployment write to one another and to their *)
(* clients, and the names it is made of: the server processes, the users   *)
(* and the texts.                                                          *)
(***************************************************************************)
CONSTANTS
    Servers,    \* the chat server processes
    Users,      \* ids of the registered users (also Redis keys and channels)
    Messages,   \* message texts; no two requests carry the same one
    DefaultId   \* the id of a default-constructed User (user.hpp: 1)

ASSUME DefaultIdAssumption == DefaultId \in Users

(* What travels on a Redis channel or to a client: a text and the user it  *)
(* is addressed to.                                                        *)
Envelope == [to : Users, text : Messages]
Env(u, m) == [to |-> u, text |-> m]
====
