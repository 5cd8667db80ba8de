------------------------------ MODULE MCFraming ------------------------------
(***************************************************************************)
(* An instance of Framing for TLC: two pieces to a request or an answer,   *)
(* but one answer is as long as three, and a buffer holds two.             *)
(***************************************************************************)
EXTENDS Framing

CONSTANTS l1, l2, r1, m1, m2, o1, p1

Sizes == [m \in Texts |-> IF m = l2 THEN 3 ELSE 2]
=============================================================================
