------------------------------ MODULE MCChatLife ------------------------------
(***************************************************************************)
(* An instance of ChatLife for TLC.                                        *)
(***************************************************************************)
EXTENDS ChatLife

CONSTANTS u1, u2, s1, s2, c1, c2, right

TwoServers == [c \in Conns |-> IF c = c2 THEN s2 ELSE s1]

OnePassword == [u \in Users |-> right]

(* Both connections log in with the same account.                          *)
Roaming == Conns \X {u2}
=============================================================================
