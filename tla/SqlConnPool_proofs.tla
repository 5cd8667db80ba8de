-------------------------- MODULE SqlConnPool_proofs --------------------------
(***************************************************************************)
(* For any number of threads and connections: until the pool is closed the *)
(* semaphore counts the queue, no let-through thread finds it empty, and   *)
(* no connection is shared.                                                *)
(***************************************************************************)
EXTENDS SqlConnPool, FiniteSetTheorems, SequenceTheorems, TLAPS

(* The mutex is owned by whoever is between its acquisition and release.   *)
Mutex ==
    /\ \A t \in Threads : mtx_ = t <=> pc[t] \in {"pop", "push", "post"}
    /\ mtx_ = Main <=> pc[Main] = "closing"

(* A connection is held from the pop to the push.                          *)
HeldWhileUsed ==
    \A t \in Threads : held[t] # NoConn <=> pc[t] \in {"using", "push"}

(* The two together are what keeps Pop away from an empty queue: a thread  *)
(* at "pop" is itself in Reserved.                                         *)
IInv ==
    /\ TypeOK
    /\ Mutex
    /\ HeldWhileUsed
    /\ pc[Main] = "running" => Counted /\ Unshared

-----------------------------------------------------------------------------
(* Sizes of the sets of threads that the invariant counts.                 *)

LEMMA Enter ==
  ASSUME NEW S, IsFiniteSet(S), NEW x, x \notin S
  PROVE  Cardinality(S \cup {x}) = Cardinality(S) + 1
BY FS_AddElement

LEMMA Leave ==
  ASSUME NEW S, IsFiniteSet(S), NEW x \in S
  PROVE  Cardinality(S \ {x}) = Cardinality(S) - 1
BY FS_RemoveElement

LEMMA Disjoint ==
  ASSUME NEW S, IsFiniteSet(S), NEW T, IsFiniteSet(T), S \cap T = {}
  PROVE  /\ IsFiniteSet(S \cup T)
         /\ Cardinality(S \cup T) = Cardinality(S) + Cardinality(T)
<1>1. /\ IsFiniteSet(S \cup T)
      /\ Cardinality(S \cup T) = Cardinality(S) + Cardinality(T) - Cardinality(S \cap T)
  BY FS_Union
<1>2. Cardinality(S \cap T) = 0
  BY FS_EmptySet
<1>3. Cardinality(S) \in Nat /\ Cardinality(T) \in Nat
  BY FS_CardinalityType
<1> QED BY <1>1, <1>2, <1>3

LEMMA ThreadSets ==
  /\ IsFiniteSet(Reserved) /\ Cardinality(Reserved) \in Nat
  /\ IsFiniteSet(Unposted) /\ Cardinality(Unposted) \in Nat
<1>1. Reserved \subseteq Threads /\ Unposted \subseteq Threads
  BY DEF Reserved, Unposted
<1>2. IsFiniteSet(Reserved) /\ IsFiniteSet(Unposted)
  BY <1>1, FS_Subset, PoolAssumption
<1> QED
  BY <1>2, FS_CardinalityType

-----------------------------------------------------------------------------
LEMMA InitInv == Init => IInv
<1> SUFFICES ASSUME Init PROVE IInv
  OBVIOUS
<1> USE PoolAssumption
<1>1. PICK opened \in SUBSET Connections :
         connQue_ \in Orders(opened) /\ semId_ = Cardinality(opened)
  BY DEF Init
<1>2. IsFiniteSet(opened) /\ Cardinality(opened) \in Nat
  BY <1>1, FS_Subset, FS_CardinalityType
<1>3. connQue_ \in Seq(Connections) /\ Len(connQue_) = Cardinality(opened)
  <2>1. connQue_ \in [1 .. Cardinality(opened) -> opened]
    BY <1>1 DEF Orders
  <2>2. connQue_ \in Seq(opened) /\ Len(connQue_) = Cardinality(opened)
    BY <2>1, <1>2, SMT
  <2> QED
    BY <2>2, <2>1, <1>2, SMT
<1>4. TypeOK
  BY <1>1, <1>2, <1>3 DEF Init, TypeOK, ThreadPcs, MainPcs, Free
<1>5. Mutex /\ HeldWhileUsed
  BY DEF Init, Mutex, HeldWhileUsed, Free
<1>6. Counted
  <2>1. Reserved = {} /\ Unposted = {}
    BY DEF Init, Reserved, Unposted
  <2> QED
    BY <2>1, <1>1, <1>2, <1>3, FS_EmptySet DEF Counted
<1>7. Unshared
  BY <1>1 DEF Init, Unshared, Orders
<1> QED
  BY <1>4, <1>5, <1>6, <1>7 DEF IInv

-----------------------------------------------------------------------------
(* The parts of the invariant that do not count anything.                  *)
LEMMA TypeAndMutex == IInv /\ [Next]_vars => TypeOK' /\ Mutex' /\ HeldWhileUsed'
<1> SUFFICES ASSUME IInv, [Next]_vars PROVE TypeOK' /\ Mutex' /\ HeldWhileUsed'
  OBVIOUS
<1> USE PoolAssumption
    DEF IInv, TypeOK, Mutex, HeldWhileUsed, ThreadPcs, MainPcs, Step, Acquire, Free
<1>1. ASSUME NEW t \in Threads, GetConn(t) PROVE TypeOK' /\ Mutex' /\ HeldWhileUsed'
  <2>1. CASE GetBusy(t) BY <2>1 DEF GetBusy, vars
  <2>2. CASE GetTry(t) BY <2>2 DEF GetTry
  <2>3. CASE SemWait(t) BY <2>3 DEF SemWait
  <2>4. CASE GetLock(t) BY <2>4 DEF GetLock
  <2>5. CASE Pop(t)
    <3>1. connQue_' \in Seq(Connections)
      <4>1. connQue_ # <<>> => Tail(connQue_) \in Seq(Connections)
        BY HeadTailProperties
      <4> QED BY <4>1, <2>5 DEF Pop
    <3>2. PICK conn \in Connections : held' = [held EXCEPT ![t] = conn]
      <4>1. connQue_ # <<>> => Head(connQue_) \in Connections
        BY HeadTailProperties
      <4>2. CASE connQue_ # <<>>
        BY <4>1, <4>2, <2>5 DEF Pop
      <4>3. CASE connQue_ = <<>>
        BY <4>3, <2>5 DEF Pop
      <4> QED BY <4>2, <4>3
    <3>3. /\ pc[t] = "pop" /\ pc' = [pc EXCEPT ![t] = "using"]
          /\ mtx_' = Free /\ semId_' = semId_
      BY <2>5 DEF Pop
    <3>4. TypeOK' BY <3>1, <3>2, <3>3
    <3>5. Mutex' BY <3>3
    <3>6. HeldWhileUsed' BY <3>2, <3>3
    <3> QED BY <3>4, <3>5, <3>6
  <2> QED BY <1>1, <2>1, <2>2, <2>3, <2>4, <2>5 DEF GetConn
<1>2. ASSUME NEW t \in Threads, FreeConn(t) PROVE TypeOK' /\ Mutex' /\ HeldWhileUsed'
  <2>1. CASE FreeLock(t) BY <2>1 DEF FreeLock
  <2>2. CASE Push(t)
    <3>1. held[t] \in Connections
      BY <2>2 DEF Push
    <3>2. connQue_' \in Seq(Connections)
      BY <3>1, <2>2, AppendProperties DEF Push
    <3> QED BY <3>2, <2>2 DEF Push
  <2>3. CASE Post(t) BY <2>3 DEF Post
  <2> QED BY <1>2, <2>1, <2>2, <2>3 DEF FreeConn
<1>3. CASE CloseLock BY <1>3 DEF CloseLock
<1>4. CASE CloseAll
  <2>1. connQue_' \in Seq(Connections)
    BY <1>4, EmptySeq DEF CloseAll
  <2> QED BY <2>1, <1>4 DEF CloseAll
<1>5. CASE UNCHANGED vars BY <1>5 DEF vars
<1> QED BY <1>1, <1>2, <1>3, <1>4, <1>5 DEF Next, ClosePool

(* SemWait trades a unit of the semaphore for a reservation, Pop a         *)
(* reservation for the head of the queue, Push a new tail for a debt that  *)
(* Post pays; the other steps move no thread in or out of the count.       *)
LEMMA CountKept ==
  ASSUME IInv, Next, pc'[Main] = "running"
  PROVE  Counted'
<1> USE PoolAssumption
<1>0. pc[Main] = "running" /\ Counted /\ Unshared /\ TypeOK /\ Mutex
  BY DEF IInv, TypeOK, Next, GetConn, FreeConn, ClosePool, GetBusy, GetTry, SemWait,
         GetLock, Pop, FreeLock, Push, Post, CloseLock, CloseAll, Step, vars
<1>1. /\ IsFiniteSet(Reserved) /\ Cardinality(Reserved) \in Nat
      /\ IsFiniteSet(Unposted) /\ Cardinality(Unposted) \in Nat
  BY ThreadSets
<1>2. Len(connQue_) \in Nat /\ semId_ \in Nat
  BY <1>0, LenProperties DEF TypeOK
<1>3. Len(connQue_) = semId_ + Cardinality(Reserved) + Cardinality(Unposted)
  BY <1>0 DEF Counted
<1>4. ASSUME NEW t \in Threads, GetConn(t) \/ FreeConn(t)
      PROVE  Counted'
  <2>1. CASE GetBusy(t)
    BY <2>1, <1>3 DEF GetBusy, vars, Counted, Reserved, Unposted
  <2>2. CASE GetTry(t) \/ GetLock(t) \/ FreeLock(t)
    <3>1. Reserved' = Reserved /\ Unposted' = Unposted
      BY <2>2, <1>0 DEF TypeOK, GetTry, GetLock, FreeLock, Step, Reserved, Unposted
    <3> QED BY <3>1, <2>2, <1>3 DEF GetTry, GetLock, FreeLock, Counted
  <2>3. CASE SemWait(t)
    <3>1. t \notin Reserved /\ Reserved' = Reserved \cup {t} /\ Unposted' = Unposted
      BY <2>3, <1>0 DEF TypeOK, SemWait, Step, Reserved, Unposted
    <3>2. Cardinality(Reserved') = Cardinality(Reserved) + 1
      BY <3>1, <1>1, Enter
    <3>3. connQue_' = connQue_ /\ semId_' = semId_ - 1
      BY <2>3 DEF SemWait
    <3> QED BY <3>1, <3>2, <3>3, <1>1, <1>2, <1>3 DEF Counted
  <2>4. CASE Pop(t)
    <3>1. t \in Reserved /\ Reserved' = Reserved \ {t} /\ Unposted' = Unposted
      BY <2>4, <1>0 DEF TypeOK, Pop, Step, Reserved, Unposted
    <3>2. Cardinality(Reserved') = Cardinality(Reserved) - 1
      BY <3>1, <1>1, Leave
    <3>3. Cardinality(Reserved) > 0
      BY <3>1, <1>1, FS_EmptySet
    <3>4. Len(connQue_) > 0
      BY <3>3, <1>1, <1>2, <1>3
    <3>5. connQue_ # <<>>
      BY <3>4, EmptySeq
    <3>6. semId_' = semId_ /\ connQue_' = Tail(connQue_)
      BY <3>5, <2>4 DEF Pop
    <3>7. Len(connQue_') = Len(connQue_) - 1
      BY <3>5, <3>6, <1>0, HeadTailProperties DEF TypeOK
    <3> QED BY <3>1, <3>2, <3>6, <3>7, <1>1, <1>2, <1>3 DEF Counted
  <2>5. CASE Push(t)
    <3>1. t \notin Unposted /\ Unposted' = Unposted \cup {t} /\ Reserved' = Reserved
      BY <2>5, <1>0 DEF TypeOK, Push, Step, Reserved, Unposted
    <3>2. Cardinality(Unposted') = Cardinality(Unposted) + 1
      BY <3>1, <1>1, Enter
    <3>3. held[t] \in Connections
      BY <2>5 DEF IInv, TypeOK, HeldWhileUsed, Push, Step
    <3>4. Len(connQue_') = Len(connQue_) + 1 /\ semId_' = semId_
      BY <3>3, <2>5, <1>0, AppendProperties DEF Push, TypeOK
    <3> QED BY <3>1, <3>2, <3>4, <1>1, <1>2, <1>3 DEF Counted
  <2>6. CASE Post(t)
    <3>1. t \in Unposted /\ Unposted' = Unposted \ {t} /\ Reserved' = Reserved
      BY <2>6, <1>0 DEF TypeOK, Post, Step, Reserved, Unposted
    <3>2. Cardinality(Unposted') = Cardinality(Unposted) - 1
      BY <3>1, <1>1, Leave
    <3>3. connQue_' = connQue_ /\ semId_' = semId_ + 1
      BY <2>6 DEF Post
    <3> QED BY <3>1, <3>2, <3>3, <1>1, <1>2, <1>3 DEF Counted
  <2> QED
    BY <1>4, <2>1, <2>2, <2>3, <2>4, <2>5, <2>6 DEF GetConn, FreeConn
<1>5. ~ClosePool
  BY <1>0 DEF ClosePool, CloseLock, CloseAll, Step, TypeOK
<1> QED BY <1>4, <1>5 DEF Next

(* Where each connection is: Pop moves the head of the queue, which occurs *)
(* nowhere else, to one thread; Push moves it back.                        *)
LEMMA UseKept ==
  ASSUME IInv, Next, pc'[Main] = "running"
  PROVE  Unshared'
<1> USE PoolAssumption
<1>0. pc[Main] = "running" /\ Counted /\ Unshared /\ TypeOK /\ Mutex
  BY DEF IInv, TypeOK, Next, GetConn, FreeConn, ClosePool, GetBusy, GetTry, SemWait,
         GetLock, Pop, FreeLock, Push, Post, CloseLock, CloseAll, Step, vars
<1>1. /\ Len(connQue_) \in Nat
      /\ DOMAIN connQue_ = 1 .. Len(connQue_)
      /\ \A i \in 1 .. Len(connQue_) : connQue_[i] \in Connections
  BY <1>0, LenProperties, ElementOfSeq DEF TypeOK
<1>2. ASSUME NEW t \in Threads, GetConn(t) \/ FreeConn(t)
      PROVE  Unshared'
  <2>1. CASE UNCHANGED <<connQue_, held>>
    BY <2>1, <1>0 DEF Unshared, Queued
  <2>2. CASE Pop(t)
    <3>1. t \in Reserved
      BY <2>2 DEF Pop, Step, Reserved
    <3>2. Cardinality(Reserved) > 0
      BY <3>1, ThreadSets, FS_EmptySet
    <3>3. connQue_ # <<>>
      BY <3>2, <1>0, <1>1, ThreadSets, EmptySeq DEF Counted, TypeOK
    <3>4. connQue_' = Tail(connQue_) /\ held' = [held EXCEPT ![t] = Head(connQue_)]
      BY <3>3, <2>2 DEF Pop
    <3>5. /\ Len(connQue_') = Len(connQue_) - 1
          /\ DOMAIN connQue_' = 1 .. (Len(connQue_) - 1)
          /\ \A i \in DOMAIN connQue_' : connQue_'[i] = connQue_[i + 1]
      BY <3>3, <3>4, <1>0, HeadTailProperties, LenProperties DEF TypeOK
    <3>6. Head(connQue_) = connQue_[1] /\ 1 \in DOMAIN connQue_
      BY <3>3, <1>0, <1>1, EmptySeq DEF TypeOK
    <3>7. \A i \in DOMAIN connQue_' : connQue_'[i] # Head(connQue_)
      BY <3>5, <3>6, <1>0, <1>1 DEF Unshared
    <3>8. \A r \in Threads : held'[r] # NoConn => held'[r] \notin Queued'
      <4> SUFFICES ASSUME NEW r \in Threads, held'[r] # NoConn,
                          NEW i \in DOMAIN connQue_'
                   PROVE  connQue_'[i] # held'[r]
        BY DEF Queued
      <4>1. CASE r = t BY <4>1, <3>4, <3>7, <1>0 DEF TypeOK
      <4>2. CASE r # t
        <5>1. held[r] = held'[r] /\ held[r] \notin Queued
          BY <4>2, <3>4, <1>0 DEF TypeOK, Unshared
        <5>2. connQue_'[i] \in Queued
          BY <3>5, <1>1 DEF Queued
        <5> QED BY <5>1, <5>2
      <4> QED BY <4>1, <4>2
    <3>9. \A r, q \in Threads : held'[r] # NoConn /\ held'[r] = held'[q] => r = q
      <4>1. \A r \in Threads : held[r] # NoConn => held[r] # Head(connQue_)
        BY <3>6, <1>0 DEF Unshared, Queued
      <4> QED BY <4>1, <3>4, <1>0 DEF TypeOK, Unshared
    <3>10. \A i, j \in DOMAIN connQue_' : connQue_'[i] = connQue_'[j] => i = j
      BY <3>5, <1>0, <1>1 DEF Unshared
    <3> QED BY <3>8, <3>9, <3>10 DEF Unshared
  <2>3. CASE Push(t)
    <3>1. held[t] \in Connections /\ held[t] # NoConn
      BY <2>3 DEF IInv, TypeOK, HeldWhileUsed, Push, Step
    <3>2. /\ connQue_' = Append(connQue_, held[t])
          /\ held' = [held EXCEPT ![t] = NoConn]
      BY <2>3 DEF Push
    <3>3. /\ DOMAIN connQue_' = 1 .. (Len(connQue_) + 1)
          /\ \A i \in 1 .. Len(connQue_) : connQue_'[i] = connQue_[i]
          /\ connQue_'[Len(connQue_) + 1] = held[t]
      BY <3>1, <3>2, <1>0, AppendProperties, LenProperties DEF TypeOK
    <3>4. \A i \in 1 .. Len(connQue_) : connQue_[i] # held[t]
      BY <3>1, <1>0, <1>1 DEF Unshared, Queued
    <3>5. \A r \in Threads : held'[r] # NoConn => held'[r] \notin Queued'
      <4> SUFFICES ASSUME NEW r \in Threads, held'[r] # NoConn,
                          NEW i \in 1 .. (Len(connQue_) + 1)
                   PROVE  connQue_'[i] # held'[r]
        BY <3>3 DEF Queued
      <4>1. r # t /\ held'[r] = held[r]
        BY <3>2, <1>0 DEF TypeOK
      <4>2. held[r] # held[t] /\ held[r] \notin Queued
        BY <4>1, <1>0 DEF Unshared
      <4>3. CASE i = Len(connQue_) + 1 BY <4>1, <4>2, <4>3, <3>3
      <4>4. CASE i \in 1 .. Len(connQue_)
        BY <4>1, <4>2, <4>4, <3>3, <1>1 DEF Queued
      <4> QED BY <4>3, <4>4, <1>1
    <3>6. \A r, q \in Threads : held'[r] # NoConn /\ held'[r] = held'[q] => r = q
      BY <3>2, <1>0 DEF TypeOK, Unshared
    <3>7. \A i, j \in DOMAIN connQue_' : connQue_'[i] = connQue_'[j] => i = j
      <4> SUFFICES ASSUME NEW i \in 1 .. (Len(connQue_) + 1),
                          NEW j \in 1 .. (Len(connQue_) + 1),
                          connQue_'[i] = connQue_'[j]
                   PROVE  i = j
        BY <3>3
      <4>1. CASE i \in 1 .. Len(connQue_) /\ j \in 1 .. Len(connQue_)
        BY <4>1, <3>3, <1>0, <1>1 DEF Unshared
      <4>2. CASE i = Len(connQue_) + 1 \/ j = Len(connQue_) + 1
        BY <4>2, <3>3, <3>4, <1>1
      <4> QED BY <4>1, <4>2, <1>1
    <3> QED BY <3>5, <3>6, <3>7 DEF Unshared
  <2> QED
    BY <1>2, <2>1, <2>2, <2>3 DEF GetConn, FreeConn, GetBusy, GetTry, SemWait, GetLock,
       FreeLock, Post, vars
<1>3. ~ClosePool
  BY <1>0 DEF ClosePool, CloseLock, CloseAll, Step, TypeOK
<1> QED BY <1>2, <1>3 DEF Next

-----------------------------------------------------------------------------
LEMMA StepInv == IInv /\ [Next]_vars => IInv'
<1> SUFFICES ASSUME IInv, [Next]_vars PROVE IInv'
  OBVIOUS
<1>1. TypeOK' /\ Mutex' /\ HeldWhileUsed'
  BY TypeAndMutex
<1>2. CASE UNCHANGED vars
  BY <1>2, <1>1 DEF IInv, vars, Counted, Reserved, Unposted, Unshared, Queued
<1>3. CASE Next
  BY <1>1, <1>3, CountKept, UseKept DEF IInv
<1> QED BY <1>2, <1>3

LEMMA Invariance == Spec => []IInv
BY InitInv, StepInv, PTL DEF Spec

(* The pool keeps its types: sem_wait never takes the count below zero,    *)
(* and what a thread holds is a connection of the pool or nullptr.         *)
THEOREM PoolTypes == Spec => []TypeOK
<1>1. IInv => TypeOK
  BY DEF IInv
<1> QED BY <1>1, Invariance, PTL

(* As long as ClosePool has not started, the semaphore accounts for every  *)
(* idle connection, however many threads are in GetConn and FreeConn.      *)
THEOREM PoolSemaphore == Spec => []SemaphoreCounts
<1>1. IInv => SemaphoreCounts
  BY DEF IInv, SemaphoreCounts, Running
<1> QED BY <1>1, Invariance, PTL

(* As long as ClosePool has not started, no two threads work on the same   *)
(* MYSQL handle and no handle in use can be handed out.                    *)
THEOREM PoolExclusive == Spec => []ExclusiveUse
<1>1. IInv => ExclusiveUse
  BY DEF IInv, ExclusiveUse, Running
<1> QED BY <1>1, Invariance, PTL

(* With a connection for every thread, as main.cpp sets the pool up, the   *)
(* semaphore never makes a thread wait.                                    *)
THEOREM PoolNoWait == Spec => []NoWaitWhenEnough
<1>1. IInv => NoWaitWhenEnough
  <2> SUFFICES ASSUME IInv, pc[Main] = "running", Open >= Cardinality(Threads),
                      NEW t \in Threads, pc[t] = "wait"
               PROVE  semId_ > 0
    BY DEF NoWaitWhenEnough, Running
  <2> DEFINE H == {r \in Threads : held[r] # NoConn}
             Busy == (H \cup Reserved) \cup Unposted
  <2>1. H \subseteq Threads /\ IsFiniteSet(H) /\ Cardinality(H) \in Nat
    BY PoolAssumption, FS_Subset, FS_CardinalityType
  <2>2. H \cap Reserved = {} /\ (H \cup Reserved) \cap Unposted = {}
    BY DEF IInv, HeldWhileUsed, Reserved, Unposted
  <2>3. /\ IsFiniteSet(H \cup Reserved)
        /\ Cardinality(H \cup Reserved) = Cardinality(H) + Cardinality(Reserved)
    BY <2>1, <2>2, ThreadSets, Disjoint
  <2>4. Cardinality(Busy) = Cardinality(H) + Cardinality(Reserved) + Cardinality(Unposted)
    BY <2>1, <2>2, <2>3, ThreadSets, Disjoint
  <2>5. Busy \subseteq Threads \ {t}
    BY DEF IInv, HeldWhileUsed, Reserved, Unposted
  <2>6. /\ IsFiniteSet(Threads \ {t})
        /\ Cardinality(Threads \ {t}) = Cardinality(Threads) - 1
    BY PoolAssumption, FS_RemoveElement
  <2>7. Cardinality(Busy) <= Cardinality(Threads) - 1
    BY <2>5, <2>6, FS_Subset
  <2>8. Cardinality(Threads) \in Nat /\ semId_ \in Nat /\ Len(connQue_) \in Nat
    BY PoolAssumption, FS_CardinalityType, LenProperties DEF IInv, TypeOK
  <2>9. Len(connQue_) = semId_ + Cardinality(Reserved) + Cardinality(Unposted)
    BY DEF IInv, Counted
  <2> QED
    BY <2>1, <2>4, <2>7, <2>8, <2>9, ThreadSets DEF Open
<1> QED BY <1>1, Invariance, PTL
=============================================================================
