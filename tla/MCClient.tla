------------------------------- MODULE MCClient -------------------------------
(***************************************************************************)
(* Instances of Client for TLC.                                            *)
(***************************************************************************)
EXTENDS Client, TLC

CONSTANTS u1, u2, u3

(* u1 has friends and a group, u2 a group, u3 neither.                     *)
Lists == [l \in ListNames |-> IF l = "friends" THEN {u1} ELSE {u1, u2} \cap Users]
=============================================================================
