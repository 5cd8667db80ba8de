------------------------------ MODULE SessionLock ------------------------------
(***************************************************************************)
(* What the login check promises ("this account is using, input another"): *)
(* an account is a lock.  It is taken only when nobody has it, and given   *)
(* up by whoever has it; it never passes straight from one connection to   *)
(* another.                                                                *)
(***************************************************************************)
CONSTANTS Accts, Conns, NoConn

VARIABLE holder     \* the connection each account is in use on, or NoConn

LockInit == holder = [u \in Accts |-> NoConn]

Acquire(u, c) ==
    /\ holder[u] = NoConn
    /\ holder' = [holder EXCEPT ![u] = c]

GiveUp(u) ==
    /\ holder[u] # NoConn
    /\ holder' = [holder EXCEPT ![u] = NoConn]

LockNext == \E u \in Accts : GiveUp(u) \/ \E c \in Conns : Acquire(u, c)

LockSpec == LockInit /\ [][LockNext]_holder
=============================================================================
