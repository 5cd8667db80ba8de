------------------------------ MODULE MCDirectory ------------------------------
(***************************************************************************)
(* Instances of Directory for TLC.                                         *)
(***************************************************************************)
EXTENDS Directory, TLC

CONSTANTS t1, t2, t3, k1, k2, n1, n2

(* Everybody registers and makes groups, the second user joins what may or *)
(* may not exist yet, the first befriends the second, and both log in.     *)
SomeRequests ==
    [verb : {"reg"}, name : Names]
        \cup [verb : {"createGroup"}, user : Ids]
        \cup {[verb |-> "addGroup", user |-> 2, group |-> 1],
              [verb |-> "addFriend", user |-> 1, friend |-> 2],
              [verb |-> "login", user |-> 1],
              [verb |-> "login", user |-> 2]}

(* Threads, connections and names are interchangeable.                     *)
Interchangeable ==
    Permutations(Threads) \cup Permutations(Connections) \cup Permutations(Names)
=============================================================================
