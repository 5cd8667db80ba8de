------------------------------ MODULE SqlConnPool ------------------------------
(***************************************************************************)
(* The MySQL connection pool (src/src/server/db/sqlconnpool.cpp) and its   *)
(* RAII wrapper (sqlconnRAII.h), used by the IO threads and the observer   *)
(* thread of one server.                                                   *)
(*                                                                         *)
(* GetConn reads connQue_.empty() without the mutex: while another thread  *)
(* is inside it, the read may see the queue as it was or as it will be.    *)
(* ClosePool runs from the destructor of the static pool, when exit(0) is  *)
(* called on SIGINT and the other threads are still at work.               *)
(***************************************************************************)
EXTENDS Naturals, Sequences, FiniteSets

CONSTANTS
    Threads,        \* threads that run SQL statements
    Connections,    \* the connections Init tries to open (connSize of them)
    Main,           \* the main thread, which only ever closes the pool
    NoConn,         \* nullptr
    MayClose        \* whether the process is told to exit

ASSUME PoolAssumption ==
    /\ IsFiniteSet(Threads)
    /\ IsFiniteSet(Connections)
    /\ NoConn \notin Connections
    /\ Main \notin Threads
    /\ "free" \notin Threads \cup {Main}
    /\ MayClose \in BOOLEAN

VARIABLES
    connQue_,   \* idle connections, in the order they will be handed out
    semId_,     \* value of the semaphore
    mtx_,       \* owner of the mutex, or "free"
    pc,         \* where each thread is
    held        \* the connection each thread was given, or NoConn

vars == <<connQue_, semId_, mtx_, pc, held>>

Free == "free"

ThreadPcs == {"idle", "wait", "getLock", "pop", "using", "push", "post"}
MainPcs == {"running", "closing", "closed"}

TypeOK ==
    /\ connQue_ \in Seq(Connections)
    /\ semId_ \in Nat
    /\ mtx_ \in Threads \cup {Main, Free}
    /\ pc \in [Threads \cup {Main} -> ThreadPcs \cup MainPcs]
    /\ pc[Main] \in MainPcs
    /\ \A t \in Threads : pc[t] \in ThreadPcs
    /\ held \in [Threads -> Connections \cup {NoConn}]

Queued == {connQue_[i] : i \in DOMAIN connQue_}

(* Sequences without repetition over a set of connections.                 *)
Orders(S) == {q \in [1 .. Cardinality(S) -> S] : \A i, j \in DOMAIN q : q[i] = q[j] => i = j}

(* SqlConnPool::Init runs before any other thread: some of the connections *)
(* open, and the semaphore counts those.                                   *)
Init ==
    /\ \E opened \in SUBSET Connections :
          /\ connQue_ \in Orders(opened)
          /\ semId_ = Cardinality(opened)
    /\ mtx_ = Free
    /\ pc = [t \in Threads \cup {Main} |-> IF t = Main THEN "running" ELSE "idle"]
    /\ held = [t \in Threads |-> NoConn]

Step(t, here, there) == pc[t] = here /\ pc' = [pc EXCEPT ![t] = there]

Acquire(t) == mtx_ = Free /\ mtx_' = t

-----------------------------------------------------------------------------
(* SqlConnPool::GetConn                                                    *)

(* What an unlocked connQue_.empty() may return.                           *)
SeesEmpty == {connQue_ = <<>>} \cup (IF mtx_ = Free THEN {} ELSE BOOLEAN)

(* "SqlConnPool busy!": the caller gets nullptr and gives up.              *)
GetBusy(t) ==
    /\ pc[t] = "idle"
    /\ TRUE \in SeesEmpty
    /\ UNCHANGED vars

GetTry(t) ==
    /\ FALSE \in SeesEmpty
    /\ Step(t, "idle", "wait")
    /\ UNCHANGED <<connQue_, semId_, mtx_, held>>

(* Mutant: sem_trywait, its result ignored.                                *)
SemWaitUnchecked(t) ==
    /\ Step(t, "wait", "getLock")
    /\ semId_' = semId_ - 1
    /\ UNCHANGED <<connQue_, mtx_, held>>

SemWait(t) ==
    /\ Step(t, "wait", "getLock")
    /\ semId_ > 0
    /\ semId_' = semId_ - 1
    /\ UNCHANGED <<connQue_, mtx_, held>>

GetLock(t) ==
    /\ Step(t, "getLock", "pop")
    /\ Acquire(t)
    /\ UNCHANGED <<connQue_, semId_, held>>

(* Mutant: front() without pop().                                          *)
PopNothing(t) ==
    /\ Step(t, "pop", "using")
    /\ connQue_ # <<>>
    /\ held' = [held EXCEPT ![t] = Head(connQue_)]
    /\ mtx_' = Free
    /\ UNCHANGED <<connQue_, semId_>>

(* front() and pop() of an empty queue are undefined: whatever connection  *)
(* the slot still holds may come out.                                      *)
Pop(t) ==
    /\ Step(t, "pop", "using")
    /\ IF connQue_ # <<>>
       THEN held' = [held EXCEPT ![t] = Head(connQue_)] /\ connQue_' = Tail(connQue_)
       ELSE \E conn \in Connections : held' = [held EXCEPT ![t] = conn] /\ UNCHANGED connQue_
    /\ mtx_' = Free
    /\ UNCHANGED semId_

-----------------------------------------------------------------------------
(* SqlConnPool::FreeConn, called by ~SqlConnRAII when the statement is done*)

FreeLock(t) ==
    /\ Step(t, "using", "push")
    /\ Acquire(t)
    /\ UNCHANGED <<connQue_, semId_, held>>

Push(t) ==
    /\ Step(t, "push", "post")
    /\ connQue_' = Append(connQue_, held[t])
    /\ held' = [held EXCEPT ![t] = NoConn]
    /\ UNCHANGED <<semId_, mtx_>>

(* Mutant: sem_post is forgotten.                                          *)
PostNothing(t) ==
    /\ Step(t, "post", "idle")
    /\ mtx_' = Free
    /\ UNCHANGED <<connQue_, semId_, held>>

(* Mutant: the mutex stays locked.                                         *)
PostLocked(t) ==
    /\ Step(t, "post", "idle")
    /\ semId_' = semId_ + 1
    /\ UNCHANGED <<connQue_, mtx_, held>>

Post(t) ==
    /\ Step(t, "post", "idle")
    /\ semId_' = semId_ + 1
    /\ mtx_' = Free
    /\ UNCHANGED <<connQue_, held>>

-----------------------------------------------------------------------------
(* SqlConnPool::ClosePool empties the queue; the semaphore keeps its value.*)

CloseLock ==
    /\ MayClose
    /\ Step(Main, "running", "closing")
    /\ Acquire(Main)
    /\ UNCHANGED <<connQue_, semId_, held>>

CloseAll ==
    /\ Step(Main, "closing", "closed")
    /\ connQue_' = <<>>
    /\ mtx_' = Free
    /\ UNCHANGED <<semId_, held>>

GetConn(t) == GetBusy(t) \/ GetTry(t) \/ SemWait(t) \/ GetLock(t) \/ Pop(t)
FreeConn(t) == FreeLock(t) \/ Push(t) \/ Post(t)
ClosePool == CloseLock \/ CloseAll

Next == (\E t \in Threads : GetConn(t) \/ FreeConn(t)) \/ ClosePool

Spec == Init /\ [][Next]_vars

(* Threads keep running (weak fairness), statements end, and neither the   *)
(* semaphore nor the mutex passes a waiting thread over for ever (strong   *)
(* fairness).  Nobody has to ask for a connection.                         *)
Fairness ==
    \A t \in Threads :
        /\ SF_vars(SemWait(t) \/ GetLock(t) \/ FreeLock(t))
        /\ WF_vars(Pop(t) \/ Push(t) \/ Post(t))

FairSpec == Spec /\ Fairness

-----------------------------------------------------------------------------
(* Threads that are let through by the semaphore and have not popped yet,  *)
(* and the one that has pushed and not yet posted.                         *)
Reserved == {t \in Threads : pc[t] \in {"getLock", "pop"}}
Unposted == {t \in Threads : pc[t] = "post"}

(* The pool has not begun to close.                                        *)
Running == pc[Main] = "running"

(* Comment of Init: the value of the semaphore is the number of available  *)
(* resources.  Exactly: what is queued is counted, reserved or about to be *)
(* posted, so that no let-through thread ever finds the queue empty.       *)
Counted ==
    Len(connQue_) = semId_ + Cardinality(Reserved) + Cardinality(Unposted)

SemaphoreCounts == Running => Counted

(* A connection is used by one thread at a time: never queued while it is  *)
(* held, never twice in the queue, never held twice.  Two threads on one   *)
(* MYSQL handle would mix up their results.                                *)
Unshared ==
    /\ \A t \in Threads : held[t] # NoConn => held[t] \notin Queued
    /\ \A t, r \in Threads : held[t] # NoConn /\ held[t] = held[r] => t = r
    /\ \A i, j \in DOMAIN connQue_ : connQue_[i] = connQue_[j] => i = j

ExclusiveUse == Running => Unshared

(* main.cpp opens 10 connections for 4 IO threads and the observer: with a *)
(* connection for every thread, nobody who asks for one is made to wait.   *)
Open == Len(connQue_) + Cardinality({t \in Threads : held[t] # NoConn})

NoWaitWhenEnough ==
    Running /\ Open >= Cardinality(Threads)
        => \A t \in Threads : pc[t] = "wait" => semId_ > 0

(* The stale look at empty() makes a thread wait for the semaphore, maybe  *)
(* for long, but not for ever: others give their connections back, unless  *)
(* the pool is closed.                                                     *)
WaiterServed == \A t \in Threads : pc[t] = "wait" ~> pc[t] = "using" \/ ~Running
=============================================================================
