----------------------------- MODULE MCChatService -----------------------------
(***************************************************************************)
(* Instances of ChatService for TLC.                                       *)
(***************************************************************************)
EXTENDS ChatProperties, TLC

CONSTANTS u1, u2, u3, s1, s2, c1, c2, c3, right, wrong, m1, m2

(* Placements of the connections.                                          *)
OneServer  == [c \in Conns |-> s1]
TwoServers == [c \in Conns |-> IF c = c2 THEN s2 ELSE s1]

OnePassword == [u \in Users |-> right]

(* Who logs in where.                                                      *)
OneEach     == {<<c1, u1>>, <<c2, u2>>, <<c3, u3>>} \cap (Conns \X Users)
Shared      == {<<c1, u1>>, <<c1, u2>>, <<c2, u2>>}
Sender      == {<<c1, u1>>}
TwoSenders  == {<<c1, u1>>, <<c2, u2>>, <<c3, u1>>}
Roaming     == Conns \X {u2}
=============================================================================
