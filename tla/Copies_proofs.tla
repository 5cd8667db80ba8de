----------------------------- MODULE Copies_proofs -----------------------------
(***************************************************************************)
(* That a message is in one place at a time, proved for every workload of  *)
(* one server whose logins of one account do not overlap and whose         *)
(* statements succeed: however logins, logouts, senders and the observer   *)
(* thread interleave, nobody gets a message twice.                         *)
(*                                                                         *)
(* A place is a spot <<k, x, i>>: its kind, who has it, and the position   *)
(* there.  A step hands a message on from one spot to another (Hop), moves *)
(* it within its queue, loses it, or puts it where it was nowhere before.  *)
(***************************************************************************)
EXTENDS ChatService_proofs, FiniteSetTheorems

(* The cluster is one server.                                              *)
SingleServer == \A s, t \in Servers : s = t

(* The handler of c still has to pass m on to u.                           *)
InHand(c, m, u) == msg[c] = m /\ (u \in todo[c] \/ (who[c] = u /\ pc[c] \in InHandPcs))

At(m, u, k, x, i) ==
    \/ k = "client" /\ x \in Conns /\ i \in Positions(Env(u, m), out[x])
    \/ k = "offline" /\ x = u /\ i \in Positions(m, offlineMsg[u])
    \/ k = "bus" /\ x \in Servers /\ i \in Positions(Env(u, m), inbox[x])
    \/ k = "observer" /\ x \in Servers /\ i \in Positions(Env(u, m), obs[x])
    \/ /\ k = "login" /\ x \in Conns /\ pc[x] = "ackLogin" /\ who[x] = u
       /\ i \in Positions(m, vec[x])
    \/ k = "handler" /\ x \in Conns /\ i = 0 /\ InHand(x, m, u)

Nowhere(m, u) == \A k, x, i : ~At(m, u, k, x, i)

Alone(m, u) ==
    \A k, x, i, l, y, j :
        At(m, u, k, x, i) /\ At(m, u, l, y, j) => k = l /\ x = y /\ i = j

(* What is left to do when a handler runs: nobody twice.                   *)
ShapeOf(c) ==
    /\ pc[c] \in {"idle"} \cup SessionPcs \cup ChatPcs => todo[c] = {}
    /\ pc[c] \in GroupHoldPcs \ {"groupNext"} => who[c] \notin todo[c]

HandlerShape == \A c \in Conns : ShapeOf(c)

(* What a login has read is still what its DELETE is going to remove       *)
(* first; behind it may be more.                                           *)
ReadIsStored ==
    \A c \in Conns :
        pc[c] = "removeOffline" /\ who[c] \in Regular =>
            /\ Len(vec[c]) <= Len(offlineMsg[who[c]])
            /\ \A i \in 1 .. Len(vec[c]) : vec[c][i] = offlineMsg[who[c]][i]

CopyInv ==
    /\ HandlerShape
    /\ ReadIsStored
    /\ \A m \in Messages, u \in Regular :
          Alone(m, u) /\ (m \notin sent => Nowhere(m, u))

-----------------------------------------------------------------------------
(* Positions in sequences.                                                 *)

LEMMA PositionsIn ==
  ASSUME NEW S, NEW q \in Seq(S), NEW x
  PROVE  \A i : i \in Positions(x, q) <=> i \in 1 .. Len(q) /\ q[i] = x
<1>1. DOMAIN q = 1 .. Len(q)
  BY LenProperties
<1> QED BY <1>1 DEF Positions

LEMMA PositionsAppend ==
  ASSUME NEW S, NEW q \in Seq(S), NEW e \in S, NEW x
  PROVE  \A i : i \in Positions(x, Append(q, e))
                   => i \in Positions(x, q) \/ (i = Len(q) + 1 /\ x = e)
<1>1. Append(q, e) \in Seq(S) /\ Len(q) \in Nat
  BY AppendProperties, LenProperties
<1>2. Len(Append(q, e)) = Len(q) + 1
  BY AppendProperties
<1>3. \A i \in 1 .. (Len(q) + 1) : Append(q, e)[i] = IF i = Len(q) + 1 THEN e ELSE q[i]
  BY SMT
<1>4. \A i \in 1 .. (Len(q) + 1) : i = Len(q) + 1 \/ i \in 1 .. Len(q)
  BY <1>1
<1>5. \A i : i \in Positions(x, Append(q, e))
               <=> i \in 1 .. Len(Append(q, e)) /\ Append(q, e)[i] = x
  BY <1>1, PositionsIn
<1>6. \A i : i \in Positions(x, q) <=> i \in 1 .. Len(q) /\ q[i] = x
  BY PositionsIn
<1> QED BY <1>2, <1>3, <1>4, <1>5, <1>6

LEMMA PositionsHead ==
  ASSUME NEW S, NEW q \in Seq(S), q # <<>>
  PROVE  1 \in Positions(Head(q), q)
<1>1. Len(q) \in Nat /\ Len(q) >= 1 /\ Head(q) = q[1]
  BY SMT
<1>2. 1 \in 1 .. Len(q)
  BY <1>1
<1> QED BY <1>1, <1>2, PositionsIn

LEMMA PositionsTail ==
  ASSUME NEW S, NEW q \in Seq(S), q # <<>>, NEW x
  PROVE  \A i : i \in Positions(x, Tail(q)) => i \in Nat \ {0} /\ i + 1 \in Positions(x, q)
<1>1. Len(q) \in Nat /\ Len(q) >= 1
  BY SMT
<1>2. /\ Tail(q) \in Seq(S) /\ Len(Tail(q)) = Len(q) - 1
      /\ \A i \in 1 .. (Len(q) - 1) : Tail(q)[i] = q[i + 1]
  BY SMT
<1>3. \A i \in 1 .. (Len(q) - 1) : i \in Nat \ {0} /\ i + 1 \in 1 .. Len(q)
  BY <1>1
<1>4. \A i : i \in Positions(x, Tail(q)) <=> i \in 1 .. Len(Tail(q)) /\ Tail(q)[i] = x
  <2>1. Tail(q) \in Seq(S)
    BY <1>2
  <2> HIDE <1>1, <1>2, <1>3
  <2> QED BY <2>1, PositionsIn, Zenon
<1>5. \A i : i \in Positions(x, q) <=> i \in 1 .. Len(q) /\ q[i] = x
  BY PositionsIn
<1> QED BY <1>2, <1>3, <1>4, <1>5

LEMMA PositionsConcat ==
  ASSUME NEW S, NEW q \in Seq(S), NEW r \in Seq(S), NEW x
  PROVE  \A i : i \in Positions(x, q \o r)
                   => i \in Positions(x, q) \/ (i \in Int /\ i - Len(q) \in Positions(x, r))
<1>1. Len(q) \in Nat /\ Len(r) \in Nat
  BY LenProperties
<1>2. /\ q \o r \in Seq(S) /\ Len(q \o r) = Len(q) + Len(r)
      /\ \A i \in 1 .. (Len(q) + Len(r)) :
            (q \o r)[i] = IF i <= Len(q) THEN q[i] ELSE r[i - Len(q)]
  BY ConcatProperties
<1>3. \A i \in 1 .. (Len(q) + Len(r)) :
         i \in Int /\ (IF i <= Len(q) THEN i \in 1 .. Len(q) ELSE i - Len(q) \in 1 .. Len(r))
  BY <1>1
<1>4. \A i : i \in Positions(x, q \o r) <=> i \in 1 .. Len(q \o r) /\ (q \o r)[i] = x
  BY <1>2, PositionsIn
<1>5. \A i : /\ i \in Positions(x, q) <=> i \in 1 .. Len(q) /\ q[i] = x
             /\ i \in Positions(x, r) <=> i \in 1 .. Len(r) /\ r[i] = x
  BY PositionsIn
<1>6. SUFFICES ASSUME NEW i \in Positions(x, q \o r)
               PROVE  i \in Positions(x, q) \/ (i \in Int /\ i - Len(q) \in Positions(x, r))
  OBVIOUS
<1>7. i \in 1 .. (Len(q) + Len(r)) /\ (q \o r)[i] = x
  BY <1>2, <1>4
<1>8. CASE i <= Len(q)
  <2>1. i \in 1 .. Len(q) /\ q[i] = x
    BY <1>2, <1>3, <1>7, <1>8
  <2> QED BY <1>5, <2>1
<1>9. CASE ~(i <= Len(q))
  BY <1>2, <1>3, <1>5, <1>7, <1>9
<1> QED BY <1>8, <1>9

LEMMA PositionsOne ==
  ASSUME NEW S, NEW e \in S, NEW x
  PROVE  \A i : i \in Positions(x, <<e>>) => i = 1 /\ x = e
<1>1. <<e>> \in Seq(S) /\ Len(<<e>>) = 1 /\ <<e>>[1] = e
  OBVIOUS
<1>2. \A i \in 1 .. 1 : i = 1
  OBVIOUS
<1> QED BY <1>1, <1>2, PositionsIn

LEMMA PositionsNone == \A x : Positions(x, <<>>) = {}
<1>1. <<>> \in Seq({}) /\ Len(<<>>) = 0
  BY EmptySeq
<1>2. \A x, i : i \in Positions(x, <<>>) <=> i \in 1 .. 0 /\ <<>>[i] = x
  BY <1>1, PositionsIn
<1> QED BY <1>2

LEMMA EnvIs ==
  ASSUME NEW u, NEW m, NEW v, NEW n, Env(u, m) = Env(v, n)
  PROVE  u = v /\ m = n
BY DEF Env

-----------------------------------------------------------------------------
(* What a step may do to the spots of one message for one user.            *)

(* Nothing arrives anywhere.                                               *)
NoNew(m, u) == \A k, x, i : At(m, u, k, x, i)' => At(m, u, k, x, i)

(* The spot <<k0, x0, i0>> is left for <<l, y, j>>.                        *)
HopTo(m, u, k0, x0, i0, l, y, j) ==
    /\ At(m, u, k0, x0, i0)
    /\ \A k, x, i : At(m, u, k, x, i)' =>
          \/ k = l /\ x = y /\ i = j
          \/ At(m, u, k, x, i) /\ ~(k = k0 /\ x = x0 /\ i = i0)

Hop(m, u) == \E k0, x0, i0, l, y, j : HopTo(m, u, k0, x0, i0, l, y, j)

(* A message that was nowhere arrives at <<l, y, j>>.                      *)
FirstAt(m, u, l, y, j) ==
    /\ Nowhere(m, u) /\ m \in sent'
    /\ \A k, x, i : At(m, u, k, x, i)' => k = l /\ x = y /\ i = j

First(m, u) == \E l, y, j : FirstAt(m, u, l, y, j)

(* The oldest entry of a queue is gone, and the others have moved up.      *)
ShiftAt(m, u, s) ==
    \A k, x, i : At(m, u, k, x, i)' =>
        IF k = "bus" /\ x = s THEN i \in Nat /\ At(m, u, k, x, i + 1) ELSE At(m, u, k, x, i)

Shift(m, u) == \E s : ShiftAt(m, u, s)

(* What c has been given by its login moves from one kind of place to      *)
(* another; position i becomes position i + n.                             *)
PourTo(m, u, k0, x0, l, y, n) ==
    /\ n \in Nat
    /\ \A k, x, i : At(m, u, k, x, i)' =>
          \/ At(m, u, k, x, i) /\ ~(k = k0 /\ x = x0)
          \/ k = l /\ x = y /\ i \in Int /\ At(m, u, k0, x0, i - n)

Pour(m, u) == \E k0, x0, l, y, n : PourTo(m, u, k0, x0, l, y, n)

CopyStep(m, u) == NoNew(m, u) \/ Hop(m, u) \/ First(m, u) \/ Shift(m, u) \/ Pour(m, u)

(* Whatever it does, one copy stays one copy.                              *)
LEMMA AloneKept ==
  ASSUME NEW m, NEW u, CopyStep(m, u), Alone(m, u)
  PROVE  /\ Alone(m, u)'
         /\ Nowhere(m, u) /\ m \notin sent' => Nowhere(m, u)'
<1>1. CASE NoNew(m, u)
  BY <1>1 DEF NoNew, Alone, Nowhere
<1>2. CASE Hop(m, u)
  <2>0. PICK k0, x0, i0, l, y, j : HopTo(m, u, k0, x0, i0, l, y, j)
    BY <1>2 DEF Hop
  <2>1. /\ At(m, u, k0, x0, i0)
        /\ \A k, x, i : At(m, u, k, x, i)' =>
              \/ k = l /\ x = y /\ i = j
              \/ At(m, u, k, x, i) /\ ~(k = k0 /\ x = x0 /\ i = i0)
    BY <2>0 DEF HopTo
  <2>2. \A k, x, i : At(m, u, k, x, i)' => k = l /\ x = y /\ i = j
    BY <2>1 DEF Alone
  <2> QED BY <2>1, <2>2 DEF Alone, Nowhere
<1>3. CASE First(m, u)
  BY <1>3 DEF First, FirstAt, Alone
<1>4. CASE Shift(m, u)
  <2>0. PICK s : ShiftAt(m, u, s)
    BY <1>4 DEF Shift
  <2>1. \A k, x, i : At(m, u, k, x, i)' =>
           IF k = "bus" /\ x = s THEN i \in Nat /\ At(m, u, k, x, i + 1) ELSE At(m, u, k, x, i)
    BY <2>0 DEF ShiftAt
  <2>2. Nowhere(m, u) => Nowhere(m, u)'
    BY <2>1 DEF Nowhere
  <2>3. Alone(m, u)'
    <3> SUFFICES ASSUME NEW k, NEW x, NEW i, NEW l, NEW y, NEW j,
                        At(m, u, k, x, i)', At(m, u, l, y, j)'
                 PROVE  k = l /\ x = y /\ i = j
      BY DEF Alone
    <3>1. CASE ~(k = "bus" /\ x = s) /\ ~(l = "bus" /\ y = s)
      BY <2>1, <3>1 DEF Alone
    <3>2. CASE (k = "bus" /\ x = s) /\ ~(l = "bus" /\ y = s)
      BY <2>1, <3>2 DEF Alone
    <3>3. CASE ~(k = "bus" /\ x = s) /\ (l = "bus" /\ y = s)
      BY <2>1, <3>3 DEF Alone
    <3>4. CASE (k = "bus" /\ x = s) /\ (l = "bus" /\ y = s)
      <4>1. i \in Nat /\ j \in Nat /\ At(m, u, k, x, i + 1) /\ At(m, u, l, y, j + 1)
        BY <2>1, <3>4
      <4>2. i + 1 = j + 1
        BY <4>1 DEF Alone
      <4>3. i = j
        BY <4>1, <4>2
      <4> QED BY <3>4, <4>3
    <3> QED BY <3>1, <3>2, <3>3, <3>4
  <2> QED BY <2>2, <2>3
<1>5. CASE Pour(m, u)
  <2>1. PICK k0, x0, l0, y0, n : PourTo(m, u, k0, x0, l0, y0, n)
    BY <1>5 DEF Pour
  <2>2. /\ n \in Nat
        /\ \A k, x, i : At(m, u, k, x, i)' =>
              \/ At(m, u, k, x, i) /\ ~(k = k0 /\ x = x0)
              \/ k = l0 /\ x = y0 /\ i \in Int /\ At(m, u, k0, x0, i - n)
    BY <2>1 DEF PourTo
  <2>3. Nowhere(m, u) => Nowhere(m, u)'
    BY <2>2 DEF Nowhere
  <2>4. Alone(m, u)'
    <3> SUFFICES ASSUME NEW k, NEW x, NEW i, NEW l, NEW y, NEW j,
                        At(m, u, k, x, i)', At(m, u, l, y, j)'
                 PROVE  k = l /\ x = y /\ i = j
      BY DEF Alone
    <3>1. CASE At(m, u, k, x, i) /\ ~(k = k0 /\ x = x0)
      <4>1. ~ At(m, u, k0, x0, j - n)
        BY <3>1 DEF Alone
      <4>2. At(m, u, l, y, j)
        BY <2>2, <4>1
      <4> QED BY <3>1, <4>2 DEF Alone
    <3>2. CASE k = l0 /\ x = y0 /\ i \in Int /\ At(m, u, k0, x0, i - n)
      <4>1. l = l0 /\ y = y0 /\ j \in Int /\ At(m, u, k0, x0, j - n)
        <5>1. ~ (At(m, u, l, y, j) /\ ~(l = k0 /\ y = x0))
          BY <3>2 DEF Alone
        <5> QED BY <2>2, <5>1
      <4>2. i - n = j - n
        BY <3>2, <4>1 DEF Alone
      <4>3. n \in Nat
        BY <2>2
      <4>4. i = j
        BY <3>2, <4>1, <4>2, <4>3
      <4> QED BY <3>2, <4>1, <4>4
    <3> QED BY <2>2, <3>1, <3>2
  <2> QED BY <2>3, <2>4
<1> QED BY <1>1, <1>2, <1>3, <1>4, <1>5 DEF CopyStep

-----------------------------------------------------------------------------
(* What the operations do to the spots outside the handlers.               *)

Vessels == {"client", "offline", "bus", "observer"}

(* A single spot is new there, and it holds m0 for u0.                     *)
ArrivesAt(m0, u0, l, y, j) ==
    \A m \in Messages, u \in Users, k \in Vessels : \A x, i :
        At(m, u, k, x, i)' => \/ At(m, u, k, x, i)
                              \/ m = m0 /\ u = u0 /\ k = l /\ x = y /\ i = j

Arrives(m0, u0) == \E l, y, j : ArrivesAt(m0, u0, l, y, j)

LEMMA PublishArrives ==
  ASSUME SingleServer, RedisTypeOK, NEW m0 \in Messages, NEW u0 \in Users, Publish(u0, m0),
         out' = out, offlineMsg' = offlineMsg, obs' = obs, NEW s \in Servers
  PROVE  Arrives(m0, u0)
<1>1. ASSUME NEW m \in Messages, NEW u \in Users, NEW k \in Vessels, NEW x, NEW i,
             At(m, u, k, x, i)'
      PROVE  \/ At(m, u, k, x, i)
             \/ m = m0 /\ u = u0 /\ k = "bus" /\ x = s /\ i = Len(inbox[s]) + 1
  <2>1. CASE k # "bus"
    BY <1>1, <2>1 DEF At, Vessels
  <2>2. CASE k = "bus"
    <3>1. x \in Servers /\ i \in Positions(Env(u, m), inbox'[x])
      BY <1>1, <2>2 DEF At
    <3>2. x = s /\ inbox[s] \in Seq(Envelope)
      BY <3>1 DEF SingleServer, RedisTypeOK
    <3>3. inbox'[s] = Append(inbox[s], Env(u0, m0)) \/ inbox'[s] = inbox[s]
      BY DEF Publish
    <3>4. Env(u0, m0) \in Envelope
      BY DEF Env, Envelope
    <3>5. i \in Positions(Env(u, m), inbox[s])
             \/ (i = Len(inbox[s]) + 1 /\ Env(u, m) = Env(u0, m0))
      BY <3>1, <3>2, <3>3, <3>4, PositionsAppend
    <3> QED BY <2>2, <3>2, <3>5, EnvIs DEF At
  <2> QED BY <2>1, <2>2
<1>2. ArrivesAt(m0, u0, "bus", s, Len(inbox[s]) + 1)
  BY <1>1 DEF ArrivesAt
<1> QED BY <1>2 DEF Arrives

LEMMA StoreSpots ==
  ASSUME StoreTypeOK, NEW m0 \in Messages, NEW u0 \in Users, NEW ok \in BOOLEAN,
         InsertOffline(u0, m0, ok), NEW m, NEW u \in Users, NEW x, NEW i,
         At(m, u, "offline", x, i)'
  PROVE  \/ At(m, u, "offline", x, i)
         \/ m = m0 /\ u = u0 /\ x = u0 /\ i = Len(offlineMsg[u0]) + 1
<1>1. x = u /\ i \in Positions(m, offlineMsg'[u]) /\ offlineMsg[u] \in Seq(Messages)
  BY DEF At, StoreTypeOK
<1>2. \/ offlineMsg'[u] = offlineMsg[u]
      \/ u = u0 /\ offlineMsg'[u] = Append(offlineMsg[u], m0)
  BY DEF InsertOffline, StoreTypeOK
<1>3. i \in Positions(m, offlineMsg[u])
         \/ (u = u0 /\ i = Len(offlineMsg[u]) + 1 /\ m = m0)
  BY <1>1, <1>2, PositionsAppend
<1> QED BY <1>1, <1>3 DEF At

LEMMA StoreArrives ==
  ASSUME StoreTypeOK, NEW m0 \in Messages, NEW u0 \in Users, NEW ok \in BOOLEAN,
         InsertOffline(u0, m0, ok), out' = out, inbox' = inbox, obs' = obs
  PROVE  Arrives(m0, u0)
<1>1. ASSUME NEW m \in Messages, NEW u \in Users, NEW k \in Vessels, NEW x, NEW i,
             At(m, u, k, x, i)'
      PROVE  \/ At(m, u, k, x, i)
             \/ m = m0 /\ u = u0 /\ k = "offline" /\ x = u0 /\ i = Len(offlineMsg[u0]) + 1
  <2>1. CASE k # "offline"
    BY <1>1, <2>1 DEF At, Vessels
  <2>2. CASE k = "offline"
    BY <1>1, <2>2, StoreSpots
  <2> QED BY <2>1, <2>2
<1>2. ArrivesAt(m0, u0, "offline", u0, Len(offlineMsg[u0]) + 1)
  BY <1>1 DEF ArrivesAt
<1> QED BY <1>2 DEF Arrives

LEMMA SendSpots ==
  ASSUME ClientTypeOK, NEW e \in Envelope, NEW d \in Conns, Send(d, <<e>>),
         NEW m, NEW u, NEW x, NEW i, At(m, u, "client", x, i)'
  PROVE  \/ At(m, u, "client", x, i)
         \/ Env(u, m) = e /\ x = d /\ i = Len(out[d]) + 1
<1>1. x \in Conns /\ i \in Positions(Env(u, m), out'[x]) /\ out[x] \in Seq(Envelope)
  BY DEF At, ClientTypeOK
<1>2. out'[x] = out[x] \/ (x = d /\ out'[x] = out[x] \o <<e>>)
  BY <1>1 DEF Send, ClientTypeOK
<1>3. <<e>> \in Seq(Envelope)
  OBVIOUS
<1>4. CASE x = d /\ out'[x] = out[x] \o <<e>>
  <2>1. i \in Positions(Env(u, m), out[x])
           \/ (i \in Int /\ i - Len(out[x]) \in Positions(Env(u, m), <<e>>))
    BY <1>1, <1>3, <1>4, PositionsConcat
  <2>2. i \in Positions(Env(u, m), out[x])
           \/ (i \in Int /\ i - Len(out[x]) = 1 /\ Env(u, m) = e)
    BY <2>1, PositionsOne
  <2>3. Len(out[x]) \in Nat
    BY <1>1, LenProperties
  <2>4. i \in Int /\ i - Len(out[x]) = 1 => i = Len(out[x]) + 1
    BY <2>3
  <2> QED BY <1>1, <1>4, <2>2, <2>4 DEF At
<1> QED BY <1>1, <1>2, <1>4 DEF At

LEMMA SendArrives ==
  ASSUME ClientTypeOK, NEW m0 \in Messages, NEW u0 \in Users, NEW d \in Conns,
         Send(d, <<Env(u0, m0)>>), offlineMsg' = offlineMsg, inbox' = inbox, obs' = obs
  PROVE  Arrives(m0, u0)
<1>0. Env(u0, m0) \in Envelope
  BY DEF Env, Envelope
<1>1. ASSUME NEW m \in Messages, NEW u \in Users, NEW k \in Vessels, NEW x, NEW i,
             At(m, u, k, x, i)'
      PROVE  \/ At(m, u, k, x, i)
             \/ m = m0 /\ u = u0 /\ k = "client" /\ x = d /\ i = Len(out[d]) + 1
  <2>1. CASE k # "client"
    BY <1>1, <2>1 DEF At, Vessels
  <2>2. CASE k = "client"
    BY <1>0, <1>1, <2>2, SendSpots, EnvIs
  <2> QED BY <2>1, <2>2
<1>2. ArrivesAt(m0, u0, "client", d, Len(out[d]) + 1)
  BY <1>1 DEF ArrivesAt
<1> QED BY <1>2 DEF Arrives

-----------------------------------------------------------------------------
(* What a handler does, and with it to the spots.                          *)

(* The locals of the other handlers stay.                                  *)
Elsewhere(c) ==
    \A d \in Conns \ {c} :
        /\ pc'[d] = pc[d] /\ who'[d] = who[d] /\ msg'[d] = msg[d]
        /\ todo'[d] = todo[d] /\ vec'[d] = vec[d]

LEMMA SpotsElsewhere ==
  ASSUME NEW c \in Conns, Elsewhere(c), NEW m, NEW u, NEW x, NEW i, x # c
  PROVE  /\ At(m, u, "login", x, i)' <=> At(m, u, "login", x, i)
         /\ At(m, u, "handler", x, i)' <=> At(m, u, "handler", x, i)
<1>1. At(m, u, "login", x, i)' <=> At(m, u, "login", x, i)
  BY DEF At, Elsewhere
<1>2. At(m, u, "handler", x, i)' <=> At(m, u, "handler", x, i)
  BY DEF At, Elsewhere, InHand
<1> QED BY <1>1, <1>2

(* c has nothing to hand over to a client that has just logged in.         *)
NoLogin(c) == pc'[c] = "ackLogin" => vec'[c] = <<>>

LEMMA SpotsOf ==
  ASSUME NEW c \in Conns, Elsewhere(c), NoLogin(c), NEW m, NEW u, NEW k, NEW x, NEW i,
         At(m, u, k, x, i)', k \notin Vessels
  PROVE  \/ At(m, u, k, x, i)
         \/ k = "handler" /\ x = c /\ i = 0 /\ InHand(c, m, u)'
<1>1. k \in {"login", "handler"}
  BY DEF At, Vessels
<1>2. CASE x # c
  BY <1>1, <1>2, SpotsElsewhere
<1>3. CASE x = c /\ k = "handler"
  BY <1>3 DEF At
<1>4. CASE x = c /\ k = "login"
  BY <1>4, PositionsNone DEF At, NoLogin
<1> QED BY <1>1, <1>2, <1>3, <1>4

UnchangedVessels == out' = out /\ offlineMsg' = offlineMsg /\ inbox' = inbox /\ obs' = obs

LEMMA VesselSpots ==
  ASSUME UnchangedVessels, NEW m, NEW u, NEW k \in Vessels, NEW x, NEW i
  PROVE  At(m, u, k, x, i)' <=> At(m, u, k, x, i)
BY DEF UnchangedVessels, Vessels, At

(* The handler goes on, or is done, and passes nothing on.                 *)
LEMMA GoesOn ==
  ASSUME NEW c \in Conns, Elsewhere(c), NoLogin(c), UnchangedVessels,
         NEW m, NEW u, InHand(c, m, u)' => InHand(c, m, u)
  PROVE  CopyStep(m, u)
<1>1. ASSUME NEW k, NEW x, NEW i, At(m, u, k, x, i)' PROVE At(m, u, k, x, i)
  <2>1. CASE k \in Vessels BY <1>1, <2>1, VesselSpots
  <2>2. CASE k \notin Vessels
    <3>1. CASE k = "handler" /\ x = c /\ i = 0 /\ InHand(c, m, u)'
      BY <3>1 DEF At
    <3> QED BY <1>1, <2>2, <3>1, SpotsOf
  <2> QED BY <2>1, <2>2
<1> QED BY <1>1 DEF NoNew, CopyStep

(* The handler passes on to u0 the message m0 it had in hand.              *)
LEMMA HandsOn ==
  ASSUME NEW c \in Conns, Elsewhere(c), NoLogin(c), NEW m0, NEW u0, Arrives(m0, u0),
         InHand(c, m0, u0), NEW m \in Messages, NEW u \in Users,
         InHand(c, m, u)' => InHand(c, m, u) /\ ~(m = m0 /\ u = u0)
  PROVE  CopyStep(m, u)
<1>0. PICK l, y, j : ArrivesAt(m0, u0, l, y, j)
  BY DEF Arrives
<1>1. \A k \in Vessels : \A x, i :
         At(m, u, k, x, i)' => \/ At(m, u, k, x, i)
                               \/ m = m0 /\ u = u0 /\ k = l /\ x = y /\ i = j
  BY <1>0 DEF ArrivesAt
<1>2. ASSUME NEW k, NEW x, NEW i, At(m, u, k, x, i)', k \notin Vessels
      PROVE  At(m, u, k, x, i) /\ ~(m = m0 /\ u = u0 /\ k = "handler" /\ x = c)
  <2>1. CASE k = "handler" /\ x = c
    <3>1. InHand(c, m, u)' /\ i = 0
      BY <1>2, <2>1 DEF At
    <3> QED BY <2>1, <3>1 DEF At
  <2>2. CASE ~(k = "handler" /\ x = c)
    BY <1>2, <2>2, SpotsOf
  <2> QED BY <2>1, <2>2
<1>3. CASE m = m0 /\ u = u0
  <2>1. At(m, u, "handler", c, 0)
    BY <1>3 DEF At
  <2>2. \A k, x, i : At(m, u, k, x, i)' =>
           \/ k = l /\ x = y /\ i = j
           \/ At(m, u, k, x, i) /\ ~(k = "handler" /\ x = c /\ i = 0)
    BY <1>1, <1>2, <1>3 DEF Vessels
  <2>3. HopTo(m, u, "handler", c, 0, l, y, j)
    BY <2>1, <2>2 DEF HopTo
  <2> QED BY <2>3 DEF Hop, CopyStep
<1>4. CASE ~(m = m0 /\ u = u0)
  <2>1. \A k, x, i : At(m, u, k, x, i)' => At(m, u, k, x, i)
    BY <1>1, <1>2, <1>4
  <2> QED BY <2>1 DEF NoNew, CopyStep
<1> QED BY <1>3, <1>4

-----------------------------------------------------------------------------
(* Which steps pass nothing on.                                            *)

Onward(c) ==
    /\ Elsewhere(c) /\ NoLogin(c) /\ UnchangedVessels
    /\ \A m, u : InHand(c, m, u)' => InHand(c, m, u)

LEMMA ReturnsOnward ==
  ASSUME HandlerTypeOK, NEW c \in Conns, Return(c), UnchangedVessels
  PROVE  Onward(c)
<1> USE DEF HandlerTypeOK, Return, Goto
<1>1. Elsewhere(c) /\ NoLogin(c)
  BY DEF Elsewhere, NoLogin
<1>2. \A m, u : ~InHand(c, m, u)'
  BY DEF InHand, InHandPcs, ChatPcs, GroupHoldPcs
<1> QED BY <1>1, <1>2 DEF Onward

LEMMA GoesOnward ==
  ASSUME HandlerTypeOK, NEW c \in Conns, NEW there, Goto(c, there), UnchangedVessels,
         msg' = msg, todo' = todo,
         \A d \in Conns \ {c} : who'[d] = who[d] /\ vec'[d] = vec[d],
         there = "ackLogin" => vec'[c] = <<>>,
         there \in InHandPcs => pc[c] \in InHandPcs /\ who'[c] = who[c]
  PROVE  Onward(c)
<1> USE DEF HandlerTypeOK, Goto
<1>0. pc'[c] = there /\ \A d \in Conns \ {c} : pc'[d] = pc[d]
  OBVIOUS
<1>1. Elsewhere(c) /\ NoLogin(c)
  BY <1>0 DEF Elsewhere, NoLogin
<1>2. \A m, u : InHand(c, m, u)' => InHand(c, m, u)
  BY <1>0 DEF InHand
<1> QED BY <1>1, <1>2 DEF Onward

LEMMA LoginOnward ==
  ASSUME TypeInv, NEW c \in Conns, LoginStep(c), ~LoginRemoveOffline(c), ~LoginAck(c)
  PROVE  Onward(c)
<1> USE DEF UnchangedVessels, redisVars, storeVars, serverVars, clientVars, locals
<1>0. HandlerTypeOK
  BY DEF TypeInv, TypeOK
<1>n. /\ {"subscribe", "setOnline", "getState", "addUser", "markOnline", "readOffline",
          "removeOffline", "ackLogin"} \cap InHandPcs = {}
      /\ "ackLogin" \notin {"subscribe", "setOnline", "getState", "addUser", "markOnline",
          "readOffline", "removeOffline"}
  BY DEF InHandPcs, ChatPcs, GroupHoldPcs
<1>1. CASE LoginInsert(c)
  BY <1>0, <1>n, <1>1, GoesOnward DEF LoginInsert
<1>2. CASE LoginSubscribe(c)
  BY <1>0, <1>n, <1>2, GoesOnward DEF LoginSubscribe, Subscribe, Write
<1>3. CASE LoginSetOnline(c)
  BY <1>0, <1>n, <1>3, GoesOnward DEF LoginSetOnline, UpdateState
<1>4. CASE LoginGetState(c)
  <2>1. PICK there \in {"addUser", "markOnline", "readOffline"} : Goto(c, there)
    <3>1. key[who[c]] \in KeyState
      <4>1. who[c] \in Users
        BY <1>4, FrameAt DEF LoginGetState, From, TypeInv, NeedsUser, LoginPcs
      <4> QED BY <4>1 DEF TypeInv, TypeOK, RedisTypeOK
    <3> QED BY <3>1, <1>4 DEF LoginGetState, GetState, KeyState
  <2> QED BY <1>0, <1>n, <1>4, <2>1, GoesOnward DEF LoginGetState
<1>5. CASE LoginAddUser(c) \/ LoginMarkOnline(c)
  BY <1>0, <1>n, <1>5, GoesOnward DEF LoginAddUser, LoginMarkOnline, AddUser, SetState
<1>6. CASE LoginReadOffline(c)
  <2>1. PICK there \in {"ackLogin", "removeOffline"} :
           Goto(c, there) /\ (there = "ackLogin" => vec'[c] = <<>>)
    BY <1>6 DEF LoginReadOffline
  <2>2. \A d \in Conns \ {c} : vec'[d] = vec[d]
    BY <1>0, <1>6 DEF LoginReadOffline, HandlerTypeOK
  <2>3. UnchangedVessels /\ msg' = msg /\ todo' = todo /\ who' = who
    BY <1>6 DEF LoginReadOffline, QueryOffline
  <2> QED BY <1>0, <1>n, <2>1, <2>2, <2>3, GoesOnward
<1> QED BY <1>1, <1>2, <1>3, <1>4, <1>5, <1>6 DEF LoginStep

LEMMA LeaveOnward ==
  ASSUME TypeOK, NEW c \in Conns, LeaveStep(c)
  PROVE  Onward(c)
<1> USE DEF UnchangedVessels, redisVars, storeVars, serverVars, clientVars, locals
<1>0. HandlerTypeOK
  BY DEF TypeOK
<1>n. {"setOffline", "delUser"} \cap InHandPcs = {}
  BY DEF InHandPcs, ChatPcs, GroupHoldPcs
<1>1. CASE LeaveUnsubscribe(c)
  BY <1>0, <1>n, <1>1, GoesOnward DEF LeaveUnsubscribe, Unsubscribe, Write
<1>2. CASE LeaveSetOffline(c)
  BY <1>0, <1>n, <1>2, GoesOnward DEF LeaveSetOffline, UpdateState
<1>3. CASE LeaveDelUser(c)
  BY <1>0, <1>3, ReturnsOnward DEF LeaveDelUser, DelUser, SetState
<1> QED BY <1>1, <1>2, <1>3 DEF LeaveStep

LEMMA SessionOnward ==
  ASSUME TypeOK, NEW c \in Conns,
         \/ \E u \in Users, pwd \in Passwords : Login(c, u, pwd)
         \/ Loginout(c) \/ ClientCloseException(c)
  PROVE  Onward(c)
<1> USE DEF UnchangedVessels, redisVars, storeVars, serverVars, clientVars, locals
<1>0. HandlerTypeOK
  BY DEF TypeOK
<1>n. {"insert", "unsubscribe"} \cap InHandPcs = {}
  BY DEF InHandPcs, ChatPcs, GroupHoldPcs
<1>s. ASSUME UnchangedVessels, UNCHANGED <<pc, locals>>, pc[c] # "ackLogin" \/ vec[c] = <<>>
      PROVE  Onward(c)
  <2>1. Elsewhere(c) /\ NoLogin(c)
    BY <1>s DEF Elsewhere, NoLogin
  <2>2. \A m, u : InHand(c, m, u)' => InHand(c, m, u)
    BY <1>s DEF InHand
  <2> QED BY <1>s, <2>1, <2>2 DEF Onward
<1>1. ASSUME NEW u \in Users, NEW pwd \in Passwords, Login(c, u, pwd)
      PROVE  Onward(c)
  <2>1. \/ Goto(c, "insert") /\ who' = [who EXCEPT ![c] = u]
        \/ UNCHANGED <<pc, who>>
    BY <1>1 DEF Login
  <2>2. UnchangedVessels /\ msg' = msg /\ todo' = todo /\ vec' = vec /\ pc[c] = "idle"
    BY <1>1 DEF Login, QueryUser, Receives, From
  <2> QED BY <1>0, <1>n, <1>s, <2>1, <2>2, GoesOnward DEF HandlerTypeOK
<1>2. CASE Loginout(c)
  BY <1>0, <1>n, <1>2, GoesOnward DEF Loginout, HandlerTypeOK
<1>3. CASE ClientCloseException(c)
  BY <1>0, <1>n, <1>3, GoesOnward DEF ClientCloseException, HandlerTypeOK
<1> QED BY <1>1, <1>2, <1>3

LEMMA ChatOnward ==
  ASSUME TypeInv, NEW c \in Conns,
         ChatGetState(c) \/ ChatQuery(c) \/ ChatSetOnline(c) \/ ChatSetOffline(c)
  PROVE  Onward(c)
<1> USE DEF UnchangedVessels, redisVars, storeVars, serverVars, clientVars, locals
<1>0. HandlerTypeOK
  BY DEF TypeInv, TypeOK
<1>n. /\ {"chatGetState", "chatPublish", "chatStore", "chatQuery", "chatSetOnline",
          "chatInsert"} \subseteq InHandPcs
      /\ "ackLogin" \notin InHandPcs
  BY DEF InHandPcs, ChatPcs, GroupHoldPcs
<1>1. CASE ChatGetState(c)
  <2>1. PICK there \in {"chatPublish", "chatStore", "chatQuery"} : Goto(c, there)
    <3>1. key[who[c]] \in KeyState
      <4>1. who[c] \in Users
        BY <1>1, FrameAt DEF ChatGetState, From, TypeInv, NeedsUser, ChatPcs
      <4> QED BY <4>1 DEF TypeInv, TypeOK, RedisTypeOK
    <3> QED BY <3>1, <1>1 DEF ChatGetState, GetState, KeyState
  <2> QED BY <1>0, <1>n, <1>1, <2>1, GoesOnward DEF ChatGetState, From
<1>2. CASE ChatQuery(c)
  <2>1. PICK there \in {"chatSetOnline", "chatInsert"} : Goto(c, there)
    BY <1>2 DEF ChatQuery
  <2>2. UnchangedVessels /\ UNCHANGED locals /\ pc[c] = "chatQuery"
    BY <1>2 DEF ChatQuery, QueryUser, From
  <2> QED BY <1>0, <1>n, <2>1, <2>2, GoesOnward
<1>3. CASE ChatSetOnline(c)
  BY <1>0, <1>n, <1>3, GoesOnward DEF ChatSetOnline, SetState, From
<1>4. CASE ChatSetOffline(c)
  BY <1>0, <1>4, ReturnsOnward DEF ChatSetOffline, SetState
<1> QED BY <1>1, <1>2, <1>3, <1>4

LEMMA GroupOnward ==
  ASSUME TypeInv, NEW c \in Conns,
         GroupLock(c) \/ GroupDone(c) \/ GroupGetState(c) \/ GroupQuery(c) \/ GroupSetState(c)
  PROVE  Onward(c)
<1> USE DEF UnchangedVessels, redisVars, storeVars, serverVars, clientVars, locals
<1>0. HandlerTypeOK
  BY DEF TypeInv, TypeOK
<1>n. /\ {"groupGetState", "groupPublishReturn", "groupStoreReturn", "groupQuery",
          "groupSetOnline", "groupPublish", "groupSetOffline", "groupStore"} \subseteq InHandPcs
      /\ "ackLogin" \notin InHandPcs /\ "groupNext" \notin InHandPcs
  BY DEF InHandPcs, ChatPcs, GroupHoldPcs
<1>1. CASE GroupLock(c)
  BY <1>0, <1>n, <1>1, GoesOnward DEF GroupLock
<1>2. CASE GroupDone(c)
  BY <1>0, <1>2, ReturnsOnward DEF GroupDone
<1>3. CASE GroupGetState(c)
  <2>1. PICK there \in {"groupPublishReturn", "groupStoreReturn", "groupQuery"} : Goto(c, there)
    <3>1. key[who[c]] \in KeyState
      <4>1. who[c] \in Users
        BY <1>3, FrameAt DEF GroupGetState, From, TypeInv, NeedsUser, GroupHoldPcs
      <4> QED BY <4>1 DEF TypeInv, TypeOK, RedisTypeOK
    <3> QED BY <3>1, <1>3 DEF GroupGetState, GetState, KeyState
  <2> QED BY <1>0, <1>n, <1>3, <2>1, GoesOnward DEF GroupGetState, From
<1>4. CASE GroupQuery(c)
  <2>1. PICK there \in {"groupSetOnline", "groupSetOffline"} : Goto(c, there)
    BY <1>4 DEF GroupQuery
  <2>2. UnchangedVessels /\ UNCHANGED locals /\ pc[c] = "groupQuery"
    BY <1>4 DEF GroupQuery, QueryUser, From
  <2> QED BY <1>0, <1>n, <2>1, <2>2, GoesOnward
<1>5. CASE GroupSetState(c)
  <2>1. PICK here \in {"groupSetOnline", "groupSetOffline"},
             there \in {"groupPublish", "groupStore"} : pc[c] = here /\ Goto(c, there)
    BY <1>5 DEF GroupSetState, From
  <2>2. UnchangedVessels /\ UNCHANGED locals
    BY <1>5 DEF GroupSetState, SetState
  <2> QED BY <1>0, <1>n, <2>1, <2>2, GoesOnward
<1> QED BY <1>1, <1>2, <1>3, <1>4, <1>5

LEMMA StillCopies ==
  ASSUME UnchangedVessels, UNCHANGED <<pc, locals>>, NEW m, NEW u
  PROVE  CopyStep(m, u)
<1>1. ASSUME NEW k, NEW x, NEW i, At(m, u, k, x, i)' PROVE At(m, u, k, x, i)
  BY <1>1 DEF At, InHand, UnchangedVessels, locals
<1> QED BY <1>1 DEF NoNew, CopyStep

-----------------------------------------------------------------------------
(* Which steps pass the message in hand on.                                *)

(* The handler of c hands m0 over to u0 and has nothing more for u0.       *)
Over(c, m0, u0) ==
    /\ Elsewhere(c) /\ NoLogin(c) /\ InHand(c, m0, u0) /\ Arrives(m0, u0)
    /\ m0 \in Messages /\ u0 \in Users
    /\ \A m, u : InHand(c, m, u)' => InHand(c, m, u) /\ u # u0

(* ... and is then in groupNext, in chatSetOffline, or has returned.       *)
LEMMA PassesOver ==
  ASSUME HandlerTypeOK, HandlerShape, NEW c \in Conns, pc[c] \in InHandPcs,
         msg[c] \in Messages, who[c] \in Users, Arrives(msg[c], who[c]),
         \/ Return(c)
         \/ /\ UNCHANGED locals
            /\ pc[c] = "chatInsert" /\ Goto(c, "chatSetOffline")
         \/ /\ UNCHANGED locals
            /\ pc[c] \in {"groupPublish", "groupStore"} /\ Goto(c, "groupNext")
  PROVE  Over(c, msg[c], who[c])
<1> USE DEF HandlerTypeOK, Goto, Return, locals
<1>1. Elsewhere(c) /\ NoLogin(c)
  BY DEF Elsewhere, NoLogin
<1>2. InHand(c, msg[c], who[c])
  BY DEF InHand
<1>3. CASE Return(c)
  <2>1. \A m, u : ~InHand(c, m, u)'
    BY <1>3 DEF InHand, InHandPcs, ChatPcs, GroupHoldPcs
  <2> QED BY <1>1, <1>2, <2>1 DEF Over
<1>4. CASE ~Return(c)
  <2>1. /\ pc'[c] \in {"groupNext", "chatSetOffline"} /\ UNCHANGED locals
        /\ pc[c] \in {"chatInsert", "groupPublish", "groupStore"}
    BY <1>4
  <2>2. pc'[c] \notin InHandPcs
    BY <2>1 DEF InHandPcs, ChatPcs, GroupHoldPcs
  <2>3. who[c] \notin todo[c]
    BY <2>1 DEF HandlerShape, ShapeOf, ChatPcs, GroupHoldPcs
  <2>4. \A m, u : InHand(c, m, u)' => InHand(c, m, u) /\ u # who[c]
    BY <2>1, <2>2, <2>3 DEF InHand
  <2> QED BY <1>1, <1>2, <2>4 DEF Over
<1> QED BY <1>3, <1>4

LEMMA ChatOver ==
  ASSUME Serial, SingleServer, TypeInv, HandlerShape, NEW c \in Conns,
         ChatPublish(c) \/ ChatStore(c) \/ ChatInsert(c)
  PROVE  Over(c, msg[c], who[c])
<1> USE DEF TypeInv, TypeOK, redisVars, storeVars, serverVars, clientVars
<1>1. pc[c] \in {"chatPublish", "chatStore", "chatInsert"}
  BY DEF ChatPublish, ChatStore, ChatInsert, From
<1>2. pc[c] \in InHandPcs /\ pc[c] \in NeedsUser /\ pc[c] \in NeedsMsg
  BY <1>1 DEF InHandPcs, ChatPcs, GroupHoldPcs, NeedsUser, NeedsMsg
<1>3. msg[c] \in Messages /\ who[c] \in Users
  BY <1>2, FrameAt
<1>4. Arrives(msg[c], who[c])
  <2>1. CASE ChatPublish(c)
    BY <1>3, <2>1, PublishArrives, ChatAssumption DEF ChatPublish
  <2>2. CASE ChatStore(c)
    <3>1. PICK ok \in BOOLEAN : InsertOffline(who[c], msg[c], ok)
      BY <2>2 DEF ChatStore
    <3>2. out' = out /\ inbox' = inbox /\ obs' = obs
      BY <2>2 DEF ChatStore
    <3> QED BY <1>3, <3>1, <3>2, StoreArrives
  <2>3. CASE ChatInsert(c)
    <3>1. PICK ok \in BOOLEAN : InsertOffline(who[c], msg[c], ok)
      BY <2>3 DEF ChatInsert
    <3>2. out' = out /\ inbox' = inbox /\ obs' = obs
      BY <2>3 DEF ChatInsert
    <3> QED BY <1>3, <3>1, <3>2, StoreArrives
  <2> QED BY <2>1, <2>2, <2>3
<1>5. Return(c) \/ (UNCHANGED locals /\ pc[c] = "chatInsert" /\ Goto(c, "chatSetOffline"))
  BY DEF ChatPublish, ChatStore, ChatInsert, From
<1> QED BY <1>2, <1>3, <1>4, <1>5, PassesOver

LEMMA GroupOver ==
  ASSUME Serial, SingleServer, TypeInv, HandlerShape, NEW c \in Conns,
         \/ GroupPublishReturn(c) \/ GroupStoreReturn(c)
         \/ GroupPublish(c) \/ GroupStore(c)
  PROVE  Over(c, msg[c], who[c])
<1> USE DEF TypeInv, TypeOK, redisVars, storeVars, serverVars, clientVars
<1>1. pc[c] \in {"groupPublishReturn", "groupStoreReturn", "groupPublish", "groupStore"}
  BY DEF GroupPublishReturn, GroupStoreReturn, GroupPublish, GroupStore, From
<1>2. pc[c] \in InHandPcs /\ pc[c] \in NeedsUser /\ pc[c] \in NeedsMsg
  BY <1>1 DEF InHandPcs, GroupHoldPcs, NeedsUser, NeedsMsg
<1>3. msg[c] \in Messages /\ who[c] \in Users
  BY <1>2, FrameAt
<1>4. Arrives(msg[c], who[c])
  <2>1. CASE GroupPublishReturn(c) \/ GroupPublish(c)
    <3>1. Publish(who[c], msg[c]) /\ out' = out /\ offlineMsg' = offlineMsg /\ obs' = obs
      BY <2>1 DEF GroupPublishReturn, GroupPublish
    <3> QED BY <1>3, <3>1, PublishArrives, ChatAssumption
  <2>2. CASE GroupStoreReturn(c) \/ GroupStore(c)
    <3>1. PICK ok \in BOOLEAN : InsertOffline(who[c], msg[c], ok)
      BY <2>2 DEF GroupStoreReturn, GroupStore
    <3>2. out' = out /\ inbox' = inbox /\ obs' = obs
      BY <2>2 DEF GroupStoreReturn, GroupStore
    <3> QED BY <1>3, <3>1, <3>2, StoreArrives
  <2> QED BY <2>1, <2>2
<1>5. \/ Return(c)
      \/ /\ UNCHANGED locals
         /\ pc[c] \in {"groupPublish", "groupStore"} /\ Goto(c, "groupNext")
  BY DEF GroupPublishReturn, GroupStoreReturn, GroupPublish, GroupStore, From
<1> QED BY <1>2, <1>3, <1>4, <1>5, PassesOver

(* The next member is served here, or looked for elsewhere.                *)
LEMMA NextOver ==
  ASSUME EntryInv, NEW c \in Conns, GroupNext(c)
  PROVE  Onward(c) \/ \E u \in Users : Over(c, msg[c], u)
<1> USE DEF EntryInv, TypeInv, TypeOK, HandlerTypeOK
<1>1. PICK u \in todo[c] :
         /\ who' = [who EXCEPT ![c] = u]
         /\ todo' = [todo EXCEPT ![c] = @ \ {u}]
         /\ IF Connection(c, u) # NoConn
            THEN Send(Connection(c, u), <<Env(u, msg[c])>>) /\ UNCHANGED pc
            ELSE Goto(c, "groupGetState") /\ UNCHANGED out
  BY DEF GroupNext
<1>2. /\ pc[c] = "groupNext" /\ msg' = msg /\ vec' = vec
      /\ offlineMsg' = offlineMsg /\ inbox' = inbox /\ obs' = obs
  BY DEF GroupNext, From, redisVars, storeVars, serverVars
<1>3. u \in Users /\ msg[c] \in Messages
  BY <1>2, FrameAt DEF NeedsMsg, GroupHoldPcs
<1>4. InHand(c, msg[c], u)
  BY DEF InHand
<1>5. CASE Connection(c, u) # NoConn
  <2>1. Elsewhere(c) /\ NoLogin(c)
    BY <1>1, <1>2, <1>5 DEF Elsewhere, NoLogin
  <2>2. \A m, v : InHand(c, m, v)' => InHand(c, m, v) /\ v # u
    BY <1>1, <1>2, <1>5 DEF InHand, InHandPcs, ChatPcs, GroupHoldPcs
  <2>3. Connection(c, u) \in Conns
    BY <1>3, <1>5, EntryOf, ChatAssumption DEF Connection
  <2>4. Arrives(msg[c], u)
    BY <1>1, <1>2, <1>3, <1>5, <2>3, SendArrives
  <2> QED BY <1>3, <1>4, <2>1, <2>2, <2>4 DEF Over
<1>6. CASE Connection(c, u) = NoConn
  <2>1. Elsewhere(c) /\ NoLogin(c) /\ UnchangedVessels
    BY <1>1, <1>2, <1>6 DEF Elsewhere, NoLogin, UnchangedVessels, Goto
  <2>2. \A m, v : InHand(c, m, v)' => InHand(c, m, v)
    BY <1>1, <1>2, <1>6 DEF InHand
  <2> QED BY <2>1, <2>2 DEF Onward
<1> QED BY <1>5, <1>6

LEMMA OnwardCopies ==
  ASSUME NEW c \in Conns, Onward(c), NEW m, NEW u
  PROVE  CopyStep(m, u)
BY GoesOn DEF Onward

LEMMA OverCopies ==
  ASSUME NEW c \in Conns, NEW m0, NEW u0, Over(c, m0, u0), NEW m \in Messages, NEW u \in Users
  PROVE  CopyStep(m, u)
BY HandsOn DEF Over

-----------------------------------------------------------------------------
(* A message is sent: it was nowhere before.                               *)

NewAt(m, u, m0, l, y, j) ==
    \A k, x, i : At(m, u, k, x, i)' => \/ At(m, u, k, x, i)
                                       \/ m = m0 /\ k = l /\ x = y /\ i = j

LEMMA NewMessage ==
  ASSUME NEW m0, NEW m, NEW u, m0 \in sent', m = m0 => Nowhere(m, u),
         NEW l, NEW y, NEW j, NewAt(m, u, m0, l, y, j)
  PROVE  CopyStep(m, u)
<1> USE DEF NewAt
<1>1. CASE m = m0
  <2>1. \A k, x, i : At(m, u, k, x, i)' => k = l /\ x = y /\ i = j
    BY <1>1 DEF Nowhere
  <2>2. FirstAt(m, u, l, y, j)
    BY <1>1, <2>1 DEF FirstAt
  <2> QED BY <2>2 DEF First, CopyStep
<1>2. CASE m # m0
  BY <1>2 DEF NoNew, CopyStep
<1> QED BY <1>1, <1>2

(* The handler starts with it.                                             *)
LEMMA TakesUp ==
  ASSUME NEW c \in Conns, Elsewhere(c), NoLogin(c), UnchangedVessels, msg'[c] \in sent',
         NEW m, NEW u, m = msg'[c] => Nowhere(m, u)
  PROVE  CopyStep(m, u)
<1>1. ASSUME NEW k, NEW x, NEW i, At(m, u, k, x, i)'
      PROVE  \/ At(m, u, k, x, i)
             \/ m = msg'[c] /\ k = "handler" /\ x = c /\ i = 0
  <2>1. CASE k \in Vessels BY <1>1, <2>1, VesselSpots
  <2>2. CASE k \notin Vessels
    <3>1. InHand(c, m, u)' => m = msg'[c]
      BY DEF InHand
    <3> QED BY <1>1, <2>2, <3>1, SpotsOf
  <2> QED BY <2>1, <2>2
<1>2. PICK m0 : m0 = msg'[c]
  OBVIOUS
<1>3. NewAt(m, u, m0, "handler", c, 0)
  BY <1>1, <1>2 DEF NewAt
<1> QED BY <1>2, <1>3, NewMessage

LEMMA OneChatCopies ==
  ASSUME EntryInv, NEW c \in Conns, NEW v \in Users, NEW m0 \in Chats, OneChat(c, v, m0),
         NEW m \in Messages, NEW u \in Users, m \notin sent => Nowhere(m, u)
  PROVE  CopyStep(m, u)
<1> USE DEF EntryInv, TypeInv, TypeOK, redisVars, storeVars, serverVars
<1>1. /\ pc[c] = "idle" /\ m0 \notin sent /\ m0 \in sent' /\ m0 \in Messages
      /\ todo' = todo /\ vec' = vec
      /\ offlineMsg' = offlineMsg /\ inbox' = inbox /\ obs' = obs
  BY ChatAssumption DEF OneChat, Receives, From
<1>2. CASE Connection(c, v) # NoConn
  <2>1. Connection(c, v) \in Conns
    BY <1>2, EntryOf, ChatAssumption DEF Connection
  <2>2. Send(Connection(c, v), <<Env(v, m0)>>) /\ UNCHANGED <<pc, who, msg>>
    BY <1>2 DEF OneChat
  <2>3. Arrives(m0, v)
    BY <1>1, <2>1, <2>2, SendArrives
  <2>4. PICK l, y, j : ArrivesAt(m0, v, l, y, j)
    BY <2>3 DEF Arrives
  <2>5. ASSUME NEW k, NEW x, NEW i, At(m, u, k, x, i)'
        PROVE  \/ At(m, u, k, x, i)
               \/ m = m0 /\ k = l /\ x = y /\ i = j
    <3>1. CASE k \in Vessels
      BY <2>4, <2>5, <3>1 DEF ArrivesAt
    <3>2. CASE k \notin Vessels
      BY <1>1, <2>2, <2>5, <3>2 DEF At, InHand, Vessels
    <3> QED BY <3>1, <3>2
  <2>6. NewAt(m, u, m0, l, y, j)
    BY <2>5 DEF NewAt
  <2> QED BY <1>1, <2>6, NewMessage
<1>3. CASE Connection(c, v) = NoConn
  <2>1. /\ Goto(c, "chatGetState") /\ who' = [who EXCEPT ![c] = v]
        /\ msg' = [msg EXCEPT ![c] = m0] /\ out' = out
    BY <1>3 DEF OneChat
  <2>2. Elsewhere(c) /\ NoLogin(c) /\ UnchangedVessels /\ msg'[c] = m0
    BY <1>1, <2>1 DEF Elsewhere, NoLogin, UnchangedVessels, Goto, HandlerTypeOK
  <2> QED BY <1>1, <2>2, TakesUp
<1> QED BY <1>2, <1>3

LEMMA GroupChatCopies ==
  ASSUME EntryInv, NEW c \in Conns, NEW m0 \in Posts, GroupChat(c, m0),
         NEW m \in Messages, NEW u \in Users, m \notin sent => Nowhere(m, u)
  PROVE  CopyStep(m, u)
<1> USE DEF EntryInv, TypeInv, TypeOK, redisVars, storeVars, serverVars
<1>1. /\ m0 \notin sent /\ m0 \in sent' /\ vec' = vec /\ who' = who /\ out' = out
      /\ offlineMsg' = offlineMsg /\ inbox' = inbox /\ obs' = obs
      /\ Goto(c, "groupLock") /\ msg' = [msg EXCEPT ![c] = m0]
  BY DEF GroupChat, QueryUser
<1>2. \A d \in Conns \ {c} : todo'[d] = todo[d]
  BY DEF GroupChat, HandlerTypeOK
<1>3. Elsewhere(c) /\ NoLogin(c) /\ UnchangedVessels /\ msg'[c] = m0
  BY <1>1, <1>2 DEF Elsewhere, NoLogin, UnchangedVessels, Goto, HandlerTypeOK
<1> QED BY <1>1, <1>3, TakesUp

-----------------------------------------------------------------------------
(* The observer thread.                                                    *)

(* The oldest reply is taken from the channel; it goes to <<l, y, j>>.     *)
LEMMA ObserverPasses ==
  ASSUME RedisTypeOK, NEW s \in Servers, Consume(s), UNCHANGED <<pc, locals>>,
         NEW m, NEW u, Alone(m, u), NEW l, NEW y, NEW j,
         \A k \in Vessels \ {"bus"} : \A x, i :
            At(m, u, k, x, i)' => \/ At(m, u, k, x, i)
                                  \/ NextReply(s) = Env(u, m) /\ k = l /\ x = y /\ i = j
  PROVE  CopyStep(m, u)
<1>1. ASSUME NEW k, NEW x, NEW i, At(m, u, k, x, i)', k \notin Vessels
      PROVE  At(m, u, k, x, i)
  BY <1>1 DEF At, InHand, Vessels, locals
<1>2. ASSUME NEW x, NEW i, At(m, u, "bus", x, i)', x # s
      PROVE  At(m, u, "bus", x, i)
  BY <1>2 DEF At, Consume, RedisTypeOK
<1>3. inbox[s] \in Seq(Envelope) /\ inbox[s] # <<>> /\ inbox'[s] = Tail(inbox[s])
  BY DEF Consume, RedisTypeOK
<1>4. ASSUME NEW i, At(m, u, "bus", s, i)'
      PROVE  i \in Nat \ {0} /\ At(m, u, "bus", s, i + 1)
  <2>1. i \in Positions(Env(u, m), Tail(inbox[s]))
    BY <1>3, <1>4 DEF At
  <2>2. i \in Nat \ {0} /\ i + 1 \in Positions(Env(u, m), inbox[s])
    BY <1>3, <2>1, PositionsTail
  <2> QED BY <2>2 DEF At
<1>5. CASE NextReply(s) = Env(u, m)
  <2>1. At(m, u, "bus", s, 1)
    <3>1. 1 \in Positions(Head(inbox[s]), inbox[s])
      BY <1>3, PositionsHead
    <3> QED BY <1>5, <3>1 DEF At, NextReply
  <2>2. \A i : ~At(m, u, "bus", s, i)'
    <3> SUFFICES ASSUME NEW i, At(m, u, "bus", s, i)' PROVE FALSE
      OBVIOUS
    <3>1. i \in Nat \ {0} /\ At(m, u, "bus", s, i + 1)
      BY <1>4
    <3>2. i + 1 = 1
      BY <2>1, <3>1 DEF Alone
    <3> QED BY <3>1, <3>2
  <2>3. \A k, x, i : At(m, u, k, x, i)' =>
           \/ k = l /\ x = y /\ i = j
           \/ At(m, u, k, x, i) /\ ~(k = "bus" /\ x = s /\ i = 1)
    <3> SUFFICES ASSUME NEW k, NEW x, NEW i, At(m, u, k, x, i)'
                 PROVE  \/ k = l /\ x = y /\ i = j
                        \/ At(m, u, k, x, i) /\ ~(k = "bus" /\ x = s /\ i = 1)
      OBVIOUS
    <3>1. CASE k = "bus"
      BY <1>2, <2>2, <3>1
    <3>2. CASE k # "bus"
      BY <1>1, <3>2
    <3> QED BY <3>1, <3>2
  <2>4. HopTo(m, u, "bus", s, 1, l, y, j)
    BY <2>1, <2>3 DEF HopTo
  <2> QED BY <2>4 DEF Hop, CopyStep
<1>6. CASE NextReply(s) # Env(u, m)
  <2>1. ASSUME NEW k, NEW x, NEW i, At(m, u, k, x, i)'
        PROVE  IF k = "bus" /\ x = s THEN i \in Nat /\ At(m, u, k, x, i + 1)
                                    ELSE At(m, u, k, x, i)
    <3>1. CASE k = "bus" /\ x = s
      BY <1>4, <2>1, <3>1
    <3>2. CASE k = "bus" /\ x # s
      BY <1>2, <2>1, <3>2
    <3>3. CASE k # "bus"
      BY <1>1, <1>6, <2>1, <3>3
    <3> QED BY <3>1, <3>2, <3>3
  <2>2. ShiftAt(m, u, s)
    BY <2>1 DEF ShiftAt
  <2> QED BY <2>2 DEF Shift, CopyStep
<1> QED BY <1>5, <1>6

LEMMA DeliverCopies ==
  ASSUME EntryInv, NEW s \in Servers, ObserverDeliver(s), NEW m, NEW u, Alone(m, u)
  PROVE  CopyStep(m, u)
<1> USE DEF EntryInv, TypeInv, TypeOK
<1>1. /\ Consume(s) /\ UNCHANGED <<pc, locals>> /\ offlineMsg' = offlineMsg /\ obs' = obs
      /\ connMap[s][NextReply(s).to] # NoConn
      /\ Send(connMap[s][NextReply(s).to], <<NextReply(s)>>)
  BY DEF ObserverDeliver, storeVars, serverVars
<1>2. NextReply(s) \in Envelope
  BY <1>1, ConsumeType
<1>3. PICK d : d = connMap[s][NextReply(s).to]
  OBVIOUS
<1>4. d \in Conns
  BY <1>1, <1>2, <1>3, EntryOf DEF Envelope
<1>5. ASSUME NEW k \in Vessels \ {"bus"}, NEW x, NEW i, At(m, u, k, x, i)'
      PROVE  \/ At(m, u, k, x, i)
             \/ /\ NextReply(s) = Env(u, m)
                /\ k = "client" /\ x = d /\ i = Len(out[d]) + 1
  <2>1. CASE k = "client"
    BY <1>1, <1>2, <1>3, <1>4, <1>5, <2>1, SendSpots
  <2>2. CASE k # "client"
    BY <1>1, <1>5, <2>2 DEF At, Vessels
  <2> QED BY <2>1, <2>2
<1>6. PICK l, j : l = "client" /\ j = Len(out[d]) + 1
  OBVIOUS
<1> QED BY <1>1, <1>5, <1>6, ObserverPasses

LEMMA MissCopies ==
  ASSUME EntryInv, NEW s \in Servers, ObserverMiss(s), NEW m, NEW u, Alone(m, u)
  PROVE  CopyStep(m, u)
<1> USE DEF EntryInv, TypeInv, TypeOK
<1>1. /\ Consume(s) /\ UNCHANGED <<pc, locals>> /\ offlineMsg' = offlineMsg /\ out' = out
      /\ obs' = [obs EXCEPT ![s] = <<NextReply(s)>>]
  BY DEF ObserverMiss, storeVars, clientVars
<1>2. NextReply(s) \in Envelope
  BY <1>1, ConsumeType
<1>3. ASSUME NEW k \in Vessels \ {"bus"}, NEW x, NEW i, At(m, u, k, x, i)'
      PROVE  \/ At(m, u, k, x, i)
             \/ NextReply(s) = Env(u, m) /\ k = "observer" /\ x = s /\ i = 1
  <2>1. CASE k = "observer" /\ x = s
    <3>1. i \in Positions(Env(u, m), <<NextReply(s)>>)
      BY <1>1, <1>3, <2>1 DEF At, ServerTypeOK
    <3> QED BY <1>2, <2>1, <3>1, PositionsOne
  <2>2. CASE ~(k = "observer" /\ x = s)
    BY <1>1, <1>3, <2>2 DEF At, Vessels, ServerTypeOK
  <2> QED BY <2>1, <2>2
<1>4. PICK l, j : l = "observer" /\ j = 1
  OBVIOUS
<1> QED BY <1>1, <1>3, <1>4, ObserverPasses

LEMMA ObserverStoreCopies ==
  ASSUME EntryInv, NEW s \in Servers, ObserverStore(s), NEW m \in Messages, NEW u \in Users
  PROVE  CopyStep(m, u)
<1> USE DEF EntryInv, TypeInv, TypeOK
<1>1. /\ UNCHANGED <<pc, locals>> /\ inbox' = inbox /\ out' = out
      /\ obs[s] # <<>> /\ obs' = [obs EXCEPT ![s] = <<>>]
  BY DEF ObserverStore, redisVars, clientVars
<1>2. PICK e \in Envelope : e = Head(obs[s])
  <2>1. obs[s] \in Seq(Envelope)
    BY DEF ServerTypeOK
  <2>2. Head(obs[s]) \in Envelope
    BY <1>1, <2>1, SMT
  <2> QED BY <2>2
<1>3. e.to \in Users /\ e.text \in Messages /\ e = Env(e.to, e.text)
  BY DEF Envelope, Env
<1>4. PICK ok \in BOOLEAN : InsertOffline(e.to, e.text, ok)
  BY <1>2 DEF ObserverStore
<1>5. ASSUME NEW k, NEW x, NEW i, At(m, u, k, x, i)'
      PROVE  /\ ~(k = "observer" /\ x = s)
             /\ \/ At(m, u, k, x, i)
                \/ /\ m = e.text /\ u = e.to
                   /\ k = "offline" /\ x = e.to /\ i = Len(offlineMsg[e.to]) + 1
  <2>1. ~(k = "observer" /\ x = s)
    BY <1>1, <1>5, PositionsNone DEF At, ServerTypeOK
  <2>2. CASE k = "offline"
    BY <1>3, <1>4, <1>5, <2>1, <2>2, StoreSpots
  <2>3. CASE k # "offline"
    BY <1>1, <1>5, <2>1, <2>3 DEF At, InHand, locals, ServerTypeOK
  <2> QED BY <2>2, <2>3
<1>6. CASE m = e.text /\ u = e.to
  <2>1. At(m, u, "observer", s, 1)
    <3>1. obs[s] \in Seq(Envelope)
      BY DEF ServerTypeOK
    <3>2. 1 \in Positions(Head(obs[s]), obs[s])
      BY <1>1, <3>1, PositionsHead
    <3> QED BY <1>2, <1>3, <1>6, <3>2 DEF At
  <2>2. HopTo(m, u, "observer", s, 1, "offline", e.to, Len(offlineMsg[e.to]) + 1)
    BY <1>5, <2>1 DEF HopTo
  <2> QED BY <2>2 DEF Hop, CopyStep
<1>7. CASE ~(m = e.text /\ u = e.to)
  BY <1>5, <1>7 DEF NoNew, CopyStep
<1> QED BY <1>6, <1>7

-----------------------------------------------------------------------------
(* Login takes the rows and hands them to the client.                      *)

LEMMA RemoveCopies ==
  ASSUME Serial, TypeInv, ReadIsStored, NEW c \in Conns, LoginRemoveOffline(c),
         NEW m, NEW u \in Regular
  PROVE  CopyStep(m, u)
<1> USE DEF TypeInv, TypeOK, HandlerTypeOK
<1>1. /\ pc[c] = "removeOffline" /\ Goto(c, "ackLogin") /\ UNCHANGED locals
      /\ inbox' = inbox /\ out' = out /\ obs' = obs
  BY DEF LoginRemoveOffline, From, redisVars, serverVars, clientVars
<1>2. offlineMsg' = [offlineMsg EXCEPT ![who[c]] = <<>>]
  <2>1. PICK ok \in BOOLEAN : RemoveOffline(who[c], ok)
    BY DEF LoginRemoveOffline
  <2>2. ok = TRUE
    BY <2>1, StatementsSucceed DEF RemoveOffline
  <2> QED BY <2>1, <2>2 DEF RemoveOffline
<1>3. pc'[c] = "ackLogin" /\ Elsewhere(c)
  BY <1>1 DEF Goto, Elsewhere, locals
<1>4. u \in Users /\ offlineMsg[u] \in Seq(Messages) /\ vec[c] \in Seq(Messages)
  BY RegularUser DEF StoreTypeOK
<1>5. ASSUME NEW k, NEW x, NEW i, At(m, u, k, x, i)', k = "offline"
      PROVE  At(m, u, k, x, i) /\ who[c] # u
  BY <1>2, <1>4, <1>5, PositionsNone DEF At, StoreTypeOK
<1>6. ASSUME NEW k, NEW x, NEW i, At(m, u, k, x, i)', k # "offline", ~(k = "login" /\ x = c)
      PROVE  At(m, u, k, x, i)
  <2>1. CASE k \in Vessels
    BY <1>1, <1>6, <2>1 DEF At, Vessels
  <2>2. CASE x # c /\ k \notin Vessels
    <3>1. k \in {"login", "handler"}
      BY <1>6, <2>2 DEF At, Vessels
    <3> QED BY <1>3, <1>6, <2>2, <3>1, SpotsElsewhere
  <2>3. CASE x = c /\ k \notin Vessels
    <3>1. k = "handler" /\ i = 0 /\ InHand(c, m, u)'
      BY <1>6, <2>3 DEF At, Vessels
    <3>2. InHand(c, m, u)
      BY <1>1, <1>3, <3>1 DEF InHand, InHandPcs, ChatPcs, GroupHoldPcs, locals
    <3> QED BY <2>3, <3>1, <3>2 DEF At
  <2> QED BY <2>1, <2>2, <2>3
<1>7. ASSUME NEW i, At(m, u, "login", c, i)'
      PROVE  who[c] = u /\ i \in Int /\ At(m, u, "offline", u, i - 0)
  <2>1. who[c] = u /\ i \in Positions(m, vec[c])
    BY <1>1, <1>7 DEF At, locals
  <2>2. i \in 1 .. Len(vec[c]) /\ vec[c][i] = m
    BY <1>4, <2>1, PositionsIn
  <2>3. /\ Len(vec[c]) <= Len(offlineMsg[u])
        /\ \A j \in 1 .. Len(vec[c]) : vec[c][j] = offlineMsg[u][j]
    BY <1>1, <2>1 DEF ReadIsStored
  <2>4. Len(vec[c]) \in Nat /\ Len(offlineMsg[u]) \in Nat
    BY <1>4, LenProperties
  <2>5. i \in 1 .. Len(offlineMsg[u]) /\ offlineMsg[u][i] = m
    BY <2>2, <2>3, <2>4
  <2>6. i \in Positions(m, offlineMsg[u])
    BY <1>4, <2>5, PositionsIn
  <2>7. i \in Int /\ i - 0 = i
    BY <2>5
  <2> QED BY <2>1, <2>6, <2>7 DEF At
<1>8. CASE who[c] = u
  <2>1. ASSUME NEW k, NEW x, NEW i, At(m, u, k, x, i)'
        PROVE  \/ At(m, u, k, x, i) /\ ~(k = "offline" /\ x = u)
               \/ k = "login" /\ x = c /\ i \in Int /\ At(m, u, "offline", u, i - 0)
    <3>1. CASE k = "offline"
      BY <1>5, <1>8, <2>1, <3>1
    <3>2. CASE k = "login" /\ x = c
      BY <1>7, <2>1, <3>2
    <3>3. CASE k # "offline" /\ ~(k = "login" /\ x = c)
      BY <1>6, <2>1, <3>3
    <3> QED BY <3>1, <3>2, <3>3
  <2>2. PourTo(m, u, "offline", u, "login", c, 0)
    BY <2>1 DEF PourTo
  <2> QED BY <2>2 DEF Pour, CopyStep
<1>9. CASE who[c] # u
  <2>1. ASSUME NEW k, NEW x, NEW i, At(m, u, k, x, i)'
        PROVE  At(m, u, k, x, i)
    BY <1>5, <1>6, <1>7, <1>9, <2>1
  <2> QED BY <2>1 DEF NoNew, CopyStep
<1> QED BY <1>8, <1>9

LEMMA AckCopies ==
  ASSUME TypeInv, NEW c \in Conns, LoginAck(c), NEW m, NEW u \in Users
  PROVE  CopyStep(m, u)
<1> USE DEF TypeInv, TypeOK, HandlerTypeOK
<1>1. /\ pc[c] = "ackLogin" /\ Return(c) /\ inbox' = inbox /\ offlineMsg' = offlineMsg
      /\ obs' = obs
  BY DEF LoginAck, From, redisVars, serverVars, storeVars
<1>2. /\ Elsewhere(c) /\ pc'[c] = "idle" /\ NoLogin(c)
      /\ ~InHand(c, m, u)'
  BY <1>1 DEF Elsewhere, NoLogin, InHand, Return, Goto, InHandPcs, ChatPcs, GroupHoldPcs
<1>3. PICK envs : envs = [i \in DOMAIN vec[c] |-> Env(who[c], vec[c][i])]
  OBVIOUS
<1>4. who[c] \in Users /\ vec[c] \in Seq(Messages)
  BY <1>1, FrameAt DEF NeedsUser, LoginPcs
<1>5. /\ Len(vec[c]) \in Nat /\ DOMAIN vec[c] = 1 .. Len(vec[c])
      /\ \A i \in 1 .. Len(vec[c]) : vec[c][i] \in Messages
  BY <1>4, LenProperties, ElementOfSeq
<1>6. envs \in [1 .. Len(vec[c]) -> Envelope]
  BY <1>3, <1>4, <1>5 DEF Env, Envelope
<1>7. envs \in Seq(Envelope)
  BY <1>5, <1>6, SeqDef
<1>8. ASSUME NEW i, i \in Positions(Env(u, m), envs)
      PROVE  At(m, u, "login", c, i)
  <2>1. i \in DOMAIN envs /\ envs[i] = Env(u, m)
    BY <1>8 DEF Positions
  <2>2. i \in DOMAIN vec[c] /\ Env(who[c], vec[c][i]) = Env(u, m)
    BY <1>3, <2>1
  <2>3. who[c] = u /\ i \in Positions(m, vec[c])
    BY <2>2, EnvIs DEF Positions
  <2> QED BY <1>1, <2>3 DEF At
<1>9. Len(out[c]) \in Nat
  BY DEF ClientTypeOK
<1>10. ASSUME NEW k, NEW x, NEW i, At(m, u, k, x, i)'
       PROVE  \/ At(m, u, k, x, i) /\ ~(k = "login" /\ x = c)
              \/ /\ k = "client" /\ x = c /\ i \in Int
                 /\ At(m, u, "login", c, i - Len(out[c]))
  <2>1. CASE k = "client"
    <3>1. x \in Conns /\ i \in Positions(Env(u, m), out'[x]) /\ out[x] \in Seq(Envelope)
      BY <1>10, <2>1 DEF At, ClientTypeOK
    <3>2. out'[x] = out[x] \/ (x = c /\ out'[x] = out[x] \o envs)
      BY <1>3, <3>1 DEF LoginAck, Send, ClientTypeOK
    <3>3. CASE out'[x] = out[x]
      BY <2>1, <3>1, <3>3 DEF At
    <3>4. CASE x = c /\ out'[x] = out[x] \o envs
      <4>1. i \in Positions(Env(u, m), out[x])
               \/ (i \in Int /\ i - Len(out[x]) \in Positions(Env(u, m), envs))
        BY <1>7, <3>1, <3>4, PositionsConcat
      <4> QED BY <1>8, <2>1, <3>1, <3>4, <4>1 DEF At
    <3> QED BY <3>2, <3>3, <3>4
  <2>2. CASE k \in Vessels /\ k # "client"
    BY <1>1, <1>10, <2>2 DEF At, Vessels
  <2>3. CASE k \notin Vessels
    <3>1. At(m, u, k, x, i)
      BY <1>2, <1>10, <2>3, SpotsOf
    <3>2. ~(k = "login" /\ x = c)
      BY <1>2, <1>10 DEF At
    <3> QED BY <3>1, <3>2
  <2> QED BY <2>1, <2>2, <2>3
<1>11. PourTo(m, u, "login", c, "client", c, Len(out[c]))
  BY <1>9, <1>10 DEF PourTo
<1> QED BY <1>11 DEF Pour, CopyStep

-----------------------------------------------------------------------------
(* The shape of the handlers, and what a login has read.                   *)

(* Rows are only added.                                                    *)
Grows ==
    \A u \in Users : \/ offlineMsg'[u] = offlineMsg[u]
                     \/ \E m \in Messages : offlineMsg'[u] = Append(offlineMsg[u], m)

Tidy(c) == Elsewhere(c) /\ ShapeOf(c)' /\ pc'[c] # "removeOffline" /\ Grows

LEMMA InsertGrows ==
  ASSUME StoreTypeOK, NEW u \in Users, NEW m \in Messages, NEW ok \in BOOLEAN,
         InsertOffline(u, m, ok)
  PROVE  Grows
BY DEF InsertOffline, Grows, StoreTypeOK

LEMMA ReturnsTidy ==
  ASSUME HandlerTypeOK, NEW c \in Conns, Return(c), Grows
  PROVE  Tidy(c)
<1> USE DEF HandlerTypeOK, Return, Goto
<1>1. Elsewhere(c) /\ pc'[c] = "idle" /\ todo'[c] = {}
  BY DEF Elsewhere
<1>2. ShapeOf(c)'
  BY <1>1 DEF ShapeOf, GroupHoldPcs
<1> QED BY <1>1, <1>2 DEF Tidy

LEMMA GoesTidy ==
  ASSUME HandlerTypeOK, HandlerShape, NEW c \in Conns, NEW there, Goto(c, there), Grows,
         msg' = msg \/ \E m : msg' = [msg EXCEPT ![c] = m],
         todo' = todo, there # "removeOffline",
         \A d \in Conns \ {c} : who'[d] = who[d] /\ vec'[d] = vec[d],
         \/ pc[c] \in {"idle"} \cup SessionPcs \cup ChatPcs
         \/ there = "groupNext"
         \/ /\ pc[c] \in GroupHoldPcs \ {"groupNext"} /\ there \in GroupHoldPcs \ {"groupNext"}
            /\ who'[c] = who[c]
  PROVE  Tidy(c)
<1> USE DEF HandlerTypeOK, Goto
<1>1. Elsewhere(c) /\ pc'[c] = there /\ todo'[c] = todo[c]
  BY DEF Elsewhere
<1>2. ShapeOf(c)
  BY DEF HandlerShape
<1>3. CASE pc[c] \in {"idle"} \cup SessionPcs \cup ChatPcs
  <2>1. todo'[c] = {}
    BY <1>1, <1>2, <1>3 DEF ShapeOf
  <2> QED BY <1>1, <2>1 DEF Tidy, ShapeOf
<1>4. CASE there = "groupNext"
  <2>1. ShapeOf(c)'
    BY <1>1, <1>4 DEF ShapeOf, SessionPcs, LoginPcs, LeavePcs, ChatPcs
  <2> QED BY <1>1, <2>1 DEF Tidy
<1>5. CASE /\ pc[c] \in GroupHoldPcs \ {"groupNext"} /\ there \in GroupHoldPcs \ {"groupNext"}
           /\ who'[c] = who[c]
  <2>1. who'[c] \notin todo'[c]
    BY <1>1, <1>2, <1>5 DEF ShapeOf
  <2>2. there \notin {"idle"} \cup SessionPcs \cup ChatPcs
    BY <1>5 DEF GroupHoldPcs, SessionPcs, LoginPcs, LeavePcs, ChatPcs
  <2>3. ShapeOf(c)'
    BY <1>1, <2>1, <2>2 DEF ShapeOf
  <2> QED BY <1>1, <2>3 DEF Tidy
<1> QED BY <1>3, <1>4, <1>5

LEMMA LoginTidy ==
  ASSUME TypeInv, HandlerShape, NEW c \in Conns, LoginStep(c),
         ~LoginReadOffline(c), ~LoginRemoveOffline(c)
  PROVE  Tidy(c)
<1> USE DEF storeVars, locals
<1>0. HandlerTypeOK /\ (offlineMsg' = offlineMsg => Grows)
  BY DEF TypeInv, TypeOK, Grows
<1>n. {"insert", "subscribe", "setOnline", "getState", "addUser", "markOnline"} \subseteq SessionPcs
  BY DEF SessionPcs, LoginPcs
<1>1. CASE LoginInsert(c)
  BY <1>0, <1>n, <1>1, GoesTidy DEF LoginInsert, From
<1>2. CASE LoginSubscribe(c)
  BY <1>0, <1>n, <1>2, GoesTidy DEF LoginSubscribe, From
<1>3. CASE LoginSetOnline(c)
  BY <1>0, <1>n, <1>3, GoesTidy DEF LoginSetOnline, UpdateState, From
<1>4. CASE LoginGetState(c)
  <2>1. PICK there \in {"addUser", "markOnline", "readOffline"} : Goto(c, there)
    <3>1. key[who[c]] \in KeyState
      <4>1. who[c] \in Users
        BY <1>4, FrameAt DEF LoginGetState, From, TypeInv, NeedsUser, LoginPcs
      <4> QED BY <4>1 DEF TypeInv, TypeOK, RedisTypeOK
    <3> QED BY <3>1, <1>4 DEF LoginGetState, GetState, KeyState
  <2> QED BY <1>0, <1>n, <1>4, <2>1, GoesTidy DEF LoginGetState, From
<1>5. CASE LoginAddUser(c) \/ LoginMarkOnline(c)
  BY <1>0, <1>n, <1>5, GoesTidy DEF LoginAddUser, LoginMarkOnline, From
<1>6. CASE LoginAck(c)
  BY <1>0, <1>6, ReturnsTidy DEF LoginAck
<1> QED BY <1>1, <1>2, <1>3, <1>4, <1>5, <1>6 DEF LoginStep

LEMMA LeaveTidy ==
  ASSUME TypeInv, HandlerShape, NEW c \in Conns, LeaveStep(c)
  PROVE  Tidy(c)
<1> USE DEF storeVars, locals
<1>0. HandlerTypeOK /\ (offlineMsg' = offlineMsg => Grows)
  BY DEF TypeInv, TypeOK, Grows
<1>n. {"unsubscribe", "setOffline"} \subseteq SessionPcs
  BY DEF SessionPcs, LeavePcs
<1>1. CASE LeaveUnsubscribe(c)
  BY <1>0, <1>n, <1>1, GoesTidy DEF LeaveUnsubscribe, From
<1>2. CASE LeaveSetOffline(c)
  BY <1>0, <1>n, <1>2, GoesTidy DEF LeaveSetOffline, UpdateState, From
<1>3. CASE LeaveDelUser(c)
  BY <1>0, <1>3, ReturnsTidy DEF LeaveDelUser
<1> QED BY <1>1, <1>2, <1>3 DEF LeaveStep

LEMMA ChatTidy ==
  ASSUME TypeInv, HandlerShape, NEW c \in Conns, ChatStep(c)
  PROVE  Tidy(c)
<1> USE DEF storeVars, locals
<1>0. HandlerTypeOK /\ StoreTypeOK /\ (offlineMsg' = offlineMsg => Grows)
  BY DEF TypeInv, TypeOK, Grows
<1>1. /\ pc[c] \in ChatPcs
      /\ who[c] \in Users /\ msg[c] \in Messages
  <2>1. pc[c] \in ChatPcs
    BY DEF ChatStep, ChatGetState, ChatPublish, ChatStore, ChatQuery, ChatSetOnline, ChatInsert,
           ChatSetOffline, From, ChatPcs
  <2> QED BY <2>1, FrameAt DEF TypeInv, NeedsUser, NeedsMsg
<1>2. CASE ChatGetState(c)
  <2>1. PICK there \in {"chatPublish", "chatStore", "chatQuery"} : Goto(c, there)
    <3>1. key[who[c]] \in KeyState
      BY <1>1 DEF TypeInv, TypeOK, RedisTypeOK
    <3> QED BY <3>1, <1>2 DEF ChatGetState, GetState, KeyState
  <2> QED BY <1>0, <1>1, <1>2, <2>1, GoesTidy DEF ChatGetState
<1>3. CASE ChatPublish(c)
  BY <1>0, <1>3, ReturnsTidy DEF ChatPublish
<1>4. CASE ChatStore(c)
  <2>1. Grows /\ Return(c)
    BY <1>0, <1>1, <1>4, InsertGrows DEF ChatStore
  <2> QED BY <1>0, <2>1, ReturnsTidy
<1>5. CASE ChatQuery(c)
  <2>1. PICK there \in {"chatSetOnline", "chatInsert"} : Goto(c, there)
    BY <1>5 DEF ChatQuery
  <2>2. Grows /\ UNCHANGED locals
    BY <1>0, <1>5 DEF ChatQuery, QueryUser
  <2> QED BY <1>0, <1>1, <2>1, <2>2, GoesTidy
<1>6. CASE ChatSetOnline(c)
  BY <1>0, <1>1, <1>6, GoesTidy DEF ChatSetOnline
<1>7. CASE ChatInsert(c)
  <2>1. Grows /\ Goto(c, "chatSetOffline") /\ UNCHANGED locals
    BY <1>0, <1>1, <1>7, InsertGrows DEF ChatInsert
  <2> QED BY <1>0, <1>1, <2>1, GoesTidy
<1>8. CASE ChatSetOffline(c)
  BY <1>0, <1>8, ReturnsTidy DEF ChatSetOffline
<1> QED BY <1>2, <1>3, <1>4, <1>5, <1>6, <1>7, <1>8 DEF ChatStep

LEMMA GroupTidy ==
  ASSUME TypeInv, HandlerShape, NEW c \in Conns, GroupStep(c)
  PROVE  Tidy(c)
<1> USE DEF storeVars, locals
<1>0. HandlerTypeOK /\ StoreTypeOK /\ (offlineMsg' = offlineMsg => Grows)
  BY DEF TypeInv, TypeOK, Grows
<1>h. {"groupGetState", "groupPublishReturn", "groupStoreReturn", "groupQuery", "groupSetOnline",
       "groupPublish", "groupSetOffline", "groupStore"} = GroupHoldPcs \ {"groupNext"}
  BY DEF GroupHoldPcs
<1>w. ASSUME pc[c] \in GroupHoldPcs \ {"groupNext"} PROVE who[c] \in Users /\ msg[c] \in Messages
  BY <1>w, FrameAt DEF TypeInv, NeedsUser, NeedsMsg
<1>1. CASE GroupLock(c)
  BY <1>0, <1>1, GoesTidy DEF GroupLock
<1>2. CASE GroupNext(c)
  <2>1. PICK u \in todo[c] :
           /\ who' = [who EXCEPT ![c] = u]
           /\ todo' = [todo EXCEPT ![c] = @ \ {u}]
           /\ pc' = pc \/ Goto(c, "groupGetState")
    BY <1>2 DEF GroupNext
  <2>2. pc[c] = "groupNext" /\ msg' = msg /\ vec' = vec /\ Grows
    BY <1>0, <1>2 DEF GroupNext, From
  <2>3. Elsewhere(c) /\ pc'[c] \in {"groupNext", "groupGetState"} /\ who'[c] \notin todo'[c]
    BY <1>0, <2>1, <2>2 DEF Elsewhere, HandlerTypeOK, Goto
  <2>4. ShapeOf(c)'
    BY <2>3 DEF ShapeOf, SessionPcs, LoginPcs, LeavePcs, ChatPcs
  <2> QED BY <2>2, <2>3, <2>4 DEF Tidy
<1>3. CASE GroupDone(c)
  BY <1>0, <1>3, ReturnsTidy DEF GroupDone
<1>4. CASE GroupGetState(c)
  <2>0. pc[c] \in GroupHoldPcs \ {"groupNext"}
    BY <1>h, <1>4 DEF GroupGetState, From
  <2>1. PICK there \in {"groupPublishReturn", "groupStoreReturn", "groupQuery"} : Goto(c, there)
    <3>1. key[who[c]] \in KeyState
      BY <1>w, <2>0 DEF TypeInv, TypeOK, RedisTypeOK
    <3> QED BY <3>1, <1>4 DEF GroupGetState, GetState, KeyState
  <2> QED BY <1>0, <1>h, <1>4, <2>0, <2>1, GoesTidy DEF GroupGetState
<1>5. CASE GroupPublishReturn(c)
  BY <1>0, <1>5, ReturnsTidy DEF GroupPublishReturn
<1>6. CASE GroupStoreReturn(c)
  <2>1. Return(c) /\ Grows
    BY <1>0, <1>h, <1>w, <1>6, InsertGrows DEF GroupStoreReturn, From
  <2> QED BY <1>0, <2>1, ReturnsTidy
<1>7. CASE GroupQuery(c)
  <2>1. PICK there \in {"groupSetOnline", "groupSetOffline"} : Goto(c, there)
    BY <1>7 DEF GroupQuery
  <2>2. Grows /\ UNCHANGED locals /\ pc[c] = "groupQuery"
    BY <1>0, <1>7 DEF GroupQuery, QueryUser, From
  <2> QED BY <1>0, <1>h, <2>1, <2>2, GoesTidy
<1>8. CASE GroupSetState(c)
  <2>1. PICK here \in {"groupSetOnline", "groupSetOffline"},
             there \in {"groupPublish", "groupStore"} : pc[c] = here /\ Goto(c, there)
    BY <1>8 DEF GroupSetState, From
  <2>2. Grows /\ UNCHANGED locals
    BY <1>0, <1>8 DEF GroupSetState
  <2> QED BY <1>0, <1>h, <2>1, <2>2, GoesTidy
<1>9. CASE GroupPublish(c)
  BY <1>0, <1>9, GoesTidy DEF GroupPublish
<1>10. CASE GroupStore(c)
  <2>1. Goto(c, "groupNext") /\ Grows /\ UNCHANGED locals
    BY <1>0, <1>h, <1>w, <1>10, InsertGrows DEF GroupStore, From
  <2> QED BY <1>0, <2>1, GoesTidy
<1> QED BY <1>1, <1>2, <1>3, <1>4, <1>5, <1>6, <1>7, <1>8, <1>9, <1>10 DEF GroupStep

LEMMA RequestTidy ==
  ASSUME TypeInv, HandlerShape, NEW c \in Conns, Request(c) \/ ClientCloseException(c)
  PROVE  Tidy(c)
<1> USE DEF storeVars, locals
<1>0. HandlerTypeOK /\ (offlineMsg' = offlineMsg => Grows)
  BY DEF TypeInv, TypeOK, Grows
<1>s. ASSUME UNCHANGED <<pc, locals>>, pc[c] = "idle", Grows PROVE Tidy(c)
  <2>1. ShapeOf(c)
    BY DEF HandlerShape
  <2> QED BY <1>s, <2>1 DEF Tidy, Elsewhere, ShapeOf
<1>1. ASSUME NEW u \in Users, NEW pwd \in Passwords, Login(c, u, pwd)
      PROVE  Tidy(c)
  <2>1. \/ Goto(c, "insert") /\ who' = [who EXCEPT ![c] = u]
        \/ UNCHANGED <<pc, who>>
    BY <1>1 DEF Login
  <2>2. /\ msg' = msg /\ todo' = todo /\ vec' = vec /\ pc[c] = "idle" /\ Grows
    BY <1>0, <1>1 DEF Login, QueryUser, Receives, From
  <2> QED BY <1>0, <1>s, <2>1, <2>2, GoesTidy DEF HandlerTypeOK
<1>2. CASE Loginout(c)
  BY <1>0, <1>2, GoesTidy DEF Loginout, Receives, From, HandlerTypeOK
<1>3. CASE ClientCloseException(c)
  BY <1>0, <1>3, GoesTidy DEF ClientCloseException, From, HandlerTypeOK
<1>4. ASSUME NEW u \in Users, NEW m \in Chats, OneChat(c, u, m)
      PROVE  Tidy(c)
  <2>1. \/ UNCHANGED <<pc, who, msg>>
        \/ /\ Goto(c, "chatGetState") /\ who' = [who EXCEPT ![c] = u]
           /\ msg' = [msg EXCEPT ![c] = m]
    BY <1>4 DEF OneChat
  <2>2. /\ todo' = todo /\ vec' = vec /\ pc[c] = "idle" /\ Grows
    BY <1>0, <1>4 DEF OneChat, Receives, From
  <2> QED BY <1>0, <1>s, <2>1, <2>2, GoesTidy DEF HandlerTypeOK
<1>5. ASSUME NEW m \in Posts, GroupChat(c, m)
      PROVE  Tidy(c)
  <2>1. /\ Goto(c, "groupLock") /\ msg' = [msg EXCEPT ![c] = m] /\ who' = who /\ vec' = vec
        /\ Grows
    BY <1>0, <1>5 DEF GroupChat, QueryUser
  <2>2. \A d \in Conns \ {c} : todo'[d] = todo[d]
    BY <1>0, <1>5 DEF GroupChat, HandlerTypeOK
  <2>3. Elsewhere(c) /\ pc'[c] = "groupLock"
    BY <1>0, <2>1, <2>2 DEF Elsewhere, HandlerTypeOK, Goto
  <2>4. ShapeOf(c)'
    BY <2>3 DEF ShapeOf, SessionPcs, LoginPcs, LeavePcs, ChatPcs, GroupHoldPcs
  <2> QED BY <2>1, <2>3, <2>4 DEF Tidy
<1> QED BY <1>1, <1>2, <1>3, <1>4, <1>5 DEF Request

(* The steps that are no handler's.                                        *)
Apart == UNCHANGED <<pc, locals>> /\ Grows

LEMMA OthersApart ==
  ASSUME TypeInv, NEW s \in Servers, ObserverStep(s) \/ BusStep(s)
  PROVE  Apart
<1>1. CASE ObserverDeliver(s) \/ ObserverMiss(s) \/ BusStep(s)
  BY <1>1 DEF ObserverDeliver, ObserverMiss, BusStep, storeVars, Apart, Grows
<1>2. CASE ObserverStore(s)
  <2>1. Head(obs[s]) \in Envelope
    <3>1. obs[s] \in Seq(Envelope) /\ obs[s] # <<>>
      BY <1>2 DEF ObserverStore, TypeInv, TypeOK, ServerTypeOK
    <3> QED BY <3>1, SMT
  <2>2. Head(obs[s]).to \in Users /\ Head(obs[s]).text \in Messages
    BY <2>1 DEF Envelope
  <2> QED BY <1>2, <2>2, InsertGrows DEF ObserverStore, Apart, TypeInv, TypeOK
<1> QED BY <1>1, <1>2 DEF ObserverStep

LEMMA RowsGrown ==
  ASSUME StoreTypeOK, NEW u \in Users, NEW q \in Seq(Messages),
         \/ offlineMsg'[u] = offlineMsg[u]
         \/ \E m \in Messages : offlineMsg'[u] = Append(offlineMsg[u], m),
         Len(q) <= Len(offlineMsg[u]),
         \A i \in 1 .. Len(q) : q[i] = offlineMsg[u][i]
  PROVE  /\ Len(q) <= Len(offlineMsg'[u])
         /\ \A i \in 1 .. Len(q) : q[i] = offlineMsg'[u][i]
<1>1. offlineMsg[u] \in Seq(Messages) /\ Len(offlineMsg[u]) \in Nat /\ Len(q) \in Nat
  BY LenProperties DEF StoreTypeOK
<1>2. ASSUME NEW m \in Messages, offlineMsg'[u] = Append(offlineMsg[u], m)
      PROVE  /\ Len(offlineMsg'[u]) = Len(offlineMsg[u]) + 1
             /\ \A i \in 1 .. Len(offlineMsg[u]) : offlineMsg'[u][i] = offlineMsg[u][i]
  BY <1>1, <1>2, AppendProperties
<1>3. \A i \in 1 .. Len(q) : i \in 1 .. Len(offlineMsg[u])
  BY <1>1
<1> QED BY <1>1, <1>2, <1>3

LEMMA StoredGrown ==
  ASSUME TypeInv, ReadIsStored, Grows, NEW d \in Conns,
         pc[d] = "removeOffline", who[d] \in Regular, who'[d] = who[d], vec'[d] = vec[d]
  PROVE  /\ Len(vec'[d]) <= Len(offlineMsg'[who'[d]])
         /\ \A i \in 1 .. Len(vec'[d]) : vec'[d][i] = offlineMsg'[who'[d]][i]
<1>1. PICK u \in Regular : u = who[d]
  OBVIOUS
<1>2. PICK q \in Seq(Messages) : q = vec[d]
  BY DEF TypeInv, TypeOK, HandlerTypeOK
<1>3. /\ u \in Users /\ Len(q) <= Len(offlineMsg[u])
      /\ \A i \in 1 .. Len(q) : q[i] = offlineMsg[u][i]
  BY <1>1, <1>2, RegularUser DEF ReadIsStored
<1>4. \/ offlineMsg'[u] = offlineMsg[u]
      \/ \E m \in Messages : offlineMsg'[u] = Append(offlineMsg[u], m)
  BY <1>3 DEF Grows
<1>5. /\ Len(q) <= Len(offlineMsg'[u])
      /\ \A i \in 1 .. Len(q) : q[i] = offlineMsg'[u][i]
  BY <1>3, <1>4, RowsGrown DEF TypeInv, TypeOK
<1> QED BY <1>1, <1>2, <1>5

LEMMA TidyShape ==
  ASSUME TypeInv, HandlerShape, ReadIsStored, NEW c \in Conns, Tidy(c)
  PROVE  HandlerShape' /\ ReadIsStored'
<1>1. HandlerShape'
  BY DEF HandlerShape, ShapeOf, Tidy, Elsewhere
<1>2. ReadIsStored'
  <2> SUFFICES ASSUME NEW d \in Conns, pc'[d] = "removeOffline", who'[d] \in Regular
               PROVE  /\ Len(vec'[d]) <= Len(offlineMsg'[who'[d]])
                      /\ \A i \in 1 .. Len(vec'[d]) : vec'[d][i] = offlineMsg'[who'[d]][i]
    BY DEF ReadIsStored
  <2>1. pc[d] = "removeOffline" /\ who'[d] = who[d] /\ vec'[d] = vec[d]
    BY DEF Tidy, Elsewhere
  <2> QED BY <2>1, StoredGrown DEF Tidy
<1> QED BY <1>1, <1>2

LEMMA ApartShape ==
  ASSUME TypeInv, HandlerShape, ReadIsStored, Apart
  PROVE  HandlerShape' /\ ReadIsStored'
<1>1. HandlerShape'
  BY DEF HandlerShape, ShapeOf, Apart, locals
<1>2. ReadIsStored'
  <2> SUFFICES ASSUME NEW d \in Conns, pc'[d] = "removeOffline", who'[d] \in Regular
               PROVE  /\ Len(vec'[d]) <= Len(offlineMsg'[who'[d]])
                      /\ \A i \in 1 .. Len(vec'[d]) : vec'[d][i] = offlineMsg'[who'[d]][i]
    BY DEF ReadIsStored
  <2>1. pc[d] = "removeOffline" /\ who'[d] = who[d] /\ vec'[d] = vec[d]
    BY DEF Apart, locals
  <2> QED BY <2>1, StoredGrown DEF Apart
<1> QED BY <1>1, <1>2

(* The query puts the rows and the copy of them together.                  *)
LEMMA ReadShape ==
  ASSUME TypeInv, HandlerShape, ReadIsStored, NEW c \in Conns, LoginReadOffline(c)
  PROVE  HandlerShape' /\ ReadIsStored'
<1> USE DEF TypeInv, TypeOK, HandlerTypeOK
<1>1. /\ pc[c] = "readOffline" /\ who' = who /\ todo' = todo /\ msg' = msg
      /\ offlineMsg' = offlineMsg
      /\ vec'[c] = offlineMsg[who[c]] \/ vec'[c] = <<>>
      /\ pc'[c] \in {"ackLogin", "removeOffline"}
      /\ pc'[c] = "removeOffline" => vec'[c] # <<>>
      /\ \A d \in Conns \ {c} : pc'[d] = pc[d] /\ vec'[d] = vec[d]
  BY DEF LoginReadOffline, QueryOffline, OfflineRows, From, Goto
<1>2. ShapeOf(c)'
  <2>1. todo[c] = {}
    BY <1>1 DEF HandlerShape, ShapeOf, SessionPcs, LoginPcs
  <2> QED BY <1>1, <2>1 DEF ShapeOf
<1>3. HandlerShape'
  BY <1>1, <1>2 DEF HandlerShape, ShapeOf
<1>4. ReadIsStored'
  <2> SUFFICES ASSUME NEW d \in Conns, pc'[d] = "removeOffline", who'[d] \in Regular
               PROVE  /\ Len(vec'[d]) <= Len(offlineMsg'[who'[d]])
                      /\ \A i \in 1 .. Len(vec'[d]) : vec'[d][i] = offlineMsg'[who'[d]][i]
    BY DEF ReadIsStored
  <2>1. CASE d = c
    <3>1. vec'[c] = offlineMsg'[who'[c]]
      BY <1>1, <2>1
    <3>2. PICK q : q = offlineMsg[who[c]]
      OBVIOUS
    <3>3. q \in Seq(Messages)
      BY <1>1, <2>1, <3>2, RegularUser DEF StoreTypeOK
    <3>4. Len(q) <= Len(q)
      BY <3>3, LenProperties
    <3> QED BY <1>1, <2>1, <3>1, <3>2, <3>4
  <2>2. CASE d # c
    BY <1>1, <2>2 DEF ReadIsStored
  <2> QED BY <2>1, <2>2
<1> QED BY <1>3, <1>4

(* No other login of that user can be waiting to do the same.              *)
LEMMA RemoveShape ==
  ASSUME TypeInv, OneSession, HandlerShape, ReadIsStored, NEW c \in Conns, LoginRemoveOffline(c)
  PROVE  HandlerShape' /\ ReadIsStored'
<1> USE DEF TypeInv, TypeOK, HandlerTypeOK
<1>1. /\ pc[c] = "removeOffline" /\ UNCHANGED locals /\ pc'[c] = "ackLogin"
      /\ \A d \in Conns \ {c} : pc'[d] = pc[d]
      /\ \A u \in Users \ {who[c]} : offlineMsg'[u] = offlineMsg[u]
  BY DEF LoginRemoveOffline, RemoveOffline, From, Goto, StoreTypeOK
<1>2. ShapeOf(c)'
  <2>1. todo[c] = {}
    BY <1>1 DEF HandlerShape, ShapeOf, SessionPcs, LoginPcs
  <2> QED BY <1>1, <2>1 DEF ShapeOf, locals, GroupHoldPcs
<1>3. HandlerShape'
  BY <1>1, <1>2 DEF HandlerShape, ShapeOf, locals
<1>4. ReadIsStored'
  <2> SUFFICES ASSUME NEW d \in Conns, pc'[d] = "removeOffline", who'[d] \in Regular
               PROVE  /\ Len(vec'[d]) <= Len(offlineMsg'[who'[d]])
                      /\ \A i \in 1 .. Len(vec'[d]) : vec'[d][i] = offlineMsg'[who'[d]][i]
    BY DEF ReadIsStored
  <2>1. d # c /\ pc[d] = "removeOffline" /\ who[d] \in Regular /\ who'[d] = who[d] /\ vec' = vec
    BY <1>1 DEF locals
  <2>2. who[d] # who[c]
    <3> SUFFICES ASSUME who[d] = who[c] PROVE FALSE
      OBVIOUS
    <3>1. Claims(d, who[d]) /\ Claims(c, who[d])
      BY <1>1, <2>1 DEF Claims, Holds, LoginPcs
    <3> QED BY <2>1, <3>1 DEF OneSession
  <2>3. offlineMsg'[who[d]] = offlineMsg[who[d]]
    BY <1>1, <2>1, <2>2, RegularUser
  <2> QED BY <2>1, <2>3 DEF ReadIsStored
<1> QED BY <1>3, <1>4

-----------------------------------------------------------------------------
(* CopyInv is inductive, given the lock.                                   *)

LEMMA StepShape ==
  ASSUME LockInv, HandlerShape, ReadIsStored, [Next]_vars
  PROVE  HandlerShape' /\ ReadIsStored'
<1>0. TypeInv /\ OneSession
  BY DEF LockInv, EntryInv
<1>1. ASSUME NEW c \in Conns, Request(c) \/ ClientCloseException(c) PROVE Tidy(c)
  BY <1>0, <1>1, RequestTidy
<1>2. ASSUME NEW c \in Conns, HandlerStep(c), ~LoginReadOffline(c), ~LoginRemoveOffline(c)
      PROVE  Tidy(c)
  BY <1>0, <1>2, LoginTidy, LeaveTidy, ChatTidy, GroupTidy DEF HandlerStep
<1>3. ASSUME NEW c \in Conns, Connect(c) \/ Disconnect(c) PROVE Apart
  BY <1>3 DEF Connect, Disconnect, Apart, Grows, storeVars
<1>4. CASE UNCHANGED vars
  <2>1. Apart
    BY <1>4 DEF vars, storeVars, Apart, Grows
  <2> QED BY <1>0, <2>1, ApartShape
<1>5. ASSUME NEW c \in Conns, Tidy(c) PROVE HandlerShape' /\ ReadIsStored'
  BY <1>0, <1>5, TidyShape
<1>6. ASSUME NEW c \in Conns, LoginReadOffline(c) \/ LoginRemoveOffline(c)
      PROVE  HandlerShape' /\ ReadIsStored'
  BY <1>0, <1>6, ReadShape, RemoveShape
<1> QED BY <1>0, <1>1, <1>2, <1>3, <1>4, <1>5, <1>6, OthersApart, ApartShape DEF Next

LEMMA StepCopies ==
  ASSUME Serial, SingleServer, LockInv, HandlerShape, ReadIsStored, [Next]_vars,
         NEW m \in Messages, NEW u \in Regular, Alone(m, u), m \notin sent => Nowhere(m, u)
  PROVE  CopyStep(m, u)
<1>0. EntryInv /\ TypeInv /\ TypeOK /\ u \in Users
  BY RegularUser DEF LockInv, EntryInv, TypeInv
<1>1. ASSUME NEW c \in Conns, LoginStep(c) PROVE CopyStep(m, u)
  BY <1>0, <1>1, LoginOnward, OnwardCopies, RemoveCopies, AckCopies
<1>2. ASSUME NEW c \in Conns, LeaveStep(c) PROVE CopyStep(m, u)
  BY <1>0, <1>2, LeaveOnward, OnwardCopies
<1>3. ASSUME NEW c \in Conns, ChatStep(c) PROVE CopyStep(m, u)
  <2>1. CASE ChatPublish(c) \/ ChatStore(c) \/ ChatInsert(c)
    <3>1. Over(c, msg[c], who[c])
      BY <1>0, <2>1, ChatOver
    <3>2. PICK m0, u0 : m0 = msg[c] /\ u0 = who[c]
      OBVIOUS
    <3> QED BY <1>0, <3>1, <3>2, OverCopies
  <2>2. CASE ChatGetState(c) \/ ChatQuery(c) \/ ChatSetOnline(c) \/ ChatSetOffline(c)
    BY <1>0, <2>2, ChatOnward, OnwardCopies
  <2> QED BY <1>3, <2>1, <2>2 DEF ChatStep
<1>4. ASSUME NEW c \in Conns, GroupStep(c) PROVE CopyStep(m, u)
  <2>1. CASE GroupPublishReturn(c) \/ GroupStoreReturn(c) \/ GroupPublish(c) \/ GroupStore(c)
    <3>1. Over(c, msg[c], who[c])
      BY <1>0, <2>1, GroupOver
    <3>2. PICK m0, u0 : m0 = msg[c] /\ u0 = who[c]
      OBVIOUS
    <3> QED BY <1>0, <3>1, <3>2, OverCopies
  <2>2. CASE GroupNext(c)
    <3>1. CASE Onward(c)
      BY <1>0, <3>1, OnwardCopies
    <3>2. ASSUME NEW v \in Users, Over(c, msg[c], v) PROVE CopyStep(m, u)
      <4>1. PICK m0 : m0 = msg[c]
        OBVIOUS
      <4> QED BY <1>0, <3>2, <4>1, OverCopies
    <3> QED BY <1>0, <2>2, <3>1, <3>2, NextOver
  <2>3. CASE GroupLock(c) \/ GroupDone(c) \/ GroupGetState(c) \/ GroupQuery(c) \/ GroupSetState(c)
    BY <1>0, <2>3, GroupOnward, OnwardCopies
  <2> QED BY <1>4, <2>1, <2>2, <2>3 DEF GroupStep
<1>5. ASSUME NEW c \in Conns, Request(c) \/ ClientCloseException(c) PROVE CopyStep(m, u)
  <2>1. CASE \/ \E v \in Users, pwd \in Passwords : Login(c, v, pwd)
             \/ Loginout(c) \/ ClientCloseException(c)
    BY <1>0, <2>1, SessionOnward, OnwardCopies
  <2>2. ASSUME NEW v \in Users, NEW m0 \in Chats, OneChat(c, v, m0) PROVE CopyStep(m, u)
    BY <1>0, <2>2, OneChatCopies
  <2>3. ASSUME NEW m0 \in Posts, GroupChat(c, m0) PROVE CopyStep(m, u)
    BY <1>0, <2>3, GroupChatCopies
  <2> QED BY <1>5, <2>1, <2>2, <2>3 DEF Request
<1>6. ASSUME NEW s \in Servers, ObserverStep(s) PROVE CopyStep(m, u)
  BY <1>0, <1>6, DeliverCopies, MissCopies, ObserverStoreCopies DEF ObserverStep
<1>7. ASSUME UnchangedVessels, UNCHANGED <<pc, locals>> PROVE CopyStep(m, u)
  BY <1>7, StillCopies
<1>8. ASSUME NEW s \in Servers, BusStep(s) PROVE CopyStep(m, u)
  BY <1>7, <1>8 DEF BusStep, RedisExecute, UnchangedVessels, storeVars, serverVars, clientVars
<1>9. ASSUME NEW c \in Conns, Connect(c) \/ Disconnect(c) PROVE CopyStep(m, u)
  BY <1>7, <1>9 DEF Connect, Disconnect, UnchangedVessels, redisVars, storeVars, serverVars
<1>10. CASE UNCHANGED vars
  BY <1>7, <1>10 DEF vars, UnchangedVessels, redisVars, storeVars, serverVars, clientVars
<1> QED BY <1>1, <1>2, <1>3, <1>4, <1>5, <1>6, <1>8, <1>9, <1>10 DEF Next, HandlerStep

(* What has been sent stays sent.                                          *)
LEMMA SentGrows ==
  ASSUME [Next]_vars
  PROVE  sent \subseteq sent'
<1> USE DEF clientVars
<1>1. ASSUME NEW c \in Conns, LoginStep(c) PROVE sent \subseteq sent'
  BY <1>1 DEF LoginStep, LoginInsert, LoginSubscribe, LoginSetOnline, LoginGetState, LoginAddUser,
     LoginMarkOnline, LoginReadOffline, LoginRemoveOffline, LoginAck
<1>2. ASSUME NEW c \in Conns, LeaveStep(c) PROVE sent \subseteq sent'
  BY <1>2 DEF LeaveStep, LeaveUnsubscribe, LeaveSetOffline, LeaveDelUser
<1>3. ASSUME NEW c \in Conns, ChatStep(c) PROVE sent \subseteq sent'
  BY <1>3 DEF ChatStep, ChatGetState, ChatPublish, ChatStore, ChatQuery, ChatSetOnline, ChatInsert,
     ChatSetOffline
<1>4. ASSUME NEW c \in Conns, GroupStep(c) PROVE sent \subseteq sent'
  BY <1>4 DEF GroupStep, GroupLock, GroupNext, GroupDone, GroupGetState, GroupPublishReturn,
     GroupStoreReturn, GroupQuery, GroupSetState, GroupPublish, GroupStore
<1>5. ASSUME NEW c \in Conns,
             Request(c) \/ ClientCloseException(c) \/ Connect(c) \/ Disconnect(c)
      PROVE  sent \subseteq sent'
  BY <1>5 DEF Request, Login, Loginout, OneChat, GroupChat, ClientCloseException, Connect, Disconnect
<1>6. ASSUME NEW s \in Servers, ObserverStep(s) \/ BusStep(s) PROVE sent \subseteq sent'
  BY <1>6 DEF ObserverStep, ObserverDeliver, ObserverMiss, ObserverStore, BusStep
<1>7. CASE UNCHANGED vars
  BY <1>7 DEF vars
<1> QED BY <1>1, <1>2, <1>3, <1>4, <1>5, <1>6, <1>7 DEF Next, HandlerStep

LEMMA CopyInvStep ==
  ASSUME Serial, SingleServer, LockInv, CopyInv, [Next]_vars
  PROVE  CopyInv'
<1>1. HandlerShape' /\ ReadIsStored'
  BY StepShape DEF CopyInv
<1>2. ASSUME NEW m \in Messages, NEW u \in Regular
      PROVE  Alone(m, u)' /\ (m \notin sent' => Nowhere(m, u)')
  <2>1. Alone(m, u) /\ (m \notin sent => Nowhere(m, u))
    BY DEF CopyInv
  <2>2. CopyStep(m, u)
    BY <2>1, StepCopies DEF CopyInv
  <2> QED BY <2>1, <2>2, AloneKept, SentGrows
<1> QED BY <1>1, <1>2 DEF CopyInv

LEMMA InitCopies == Init => CopyInv
<1> SUFFICES ASSUME Init PROVE CopyInv
  OBVIOUS
<1> USE DEF Init, RedisInit, StoreInit, ServiceInit
<1>1. HandlerShape /\ ReadIsStored
  BY DEF HandlerShape, ShapeOf, ReadIsStored, GroupHoldPcs
<1>2. ASSUME NEW m \in Messages, NEW u \in Regular
      PROVE  Alone(m, u) /\ Nowhere(m, u)
  <2>1. ASSUME NEW k, NEW x, NEW i PROVE ~At(m, u, k, x, i)
    BY PositionsNone, RegularUser DEF At, InHand, InHandPcs, ChatPcs, GroupHoldPcs
  <2> QED BY <2>1 DEF Alone, Nowhere
<1> QED BY <1>1, <1>2 DEF CopyInv

LEMMA CopyInvariance ==
  ASSUME Serial, SingleServer
  PROVE  Spec => []CopyInv
<1>1. LockInv /\ CopyInv /\ [Next]_vars => CopyInv'
  BY CopyInvStep
<1> QED BY <1>1, InitCopies, LockInvariance, PTL DEF Spec

-----------------------------------------------------------------------------
(* How a place is written in Places.                                       *)
Written(u, k, x, i) ==
    IF k = "offline" THEN <<k, i>> ELSE IF k = "handler" THEN <<k, x>> ELSE <<k, x, i>>

LEMMA PlaceIsSpot ==
  ASSUME NEW m, NEW u, NEW p \in Places(m, u)
  PROVE  \E k, x, i : At(m, u, k, x, i) /\ p = Written(u, k, x, i)
<1>1. ASSUME NEW c \in Conns, NEW i \in Positions(Env(u, m), out[c]), p = <<"client", c, i>>
      PROVE  At(m, u, "client", c, i) /\ p = Written(u, "client", c, i)
  BY <1>1 DEF At, Written
<1>2. ASSUME NEW i \in Positions(m, offlineMsg[u]), p = <<"offline", i>>
      PROVE  At(m, u, "offline", u, i) /\ p = Written(u, "offline", u, i)
  BY <1>2 DEF At, Written
<1>3. ASSUME NEW s \in Servers, NEW i \in Positions(Env(u, m), inbox[s]), p = <<"bus", s, i>>
      PROVE  At(m, u, "bus", s, i) /\ p = Written(u, "bus", s, i)
  BY <1>3 DEF At, Written
<1>4. ASSUME NEW s \in Servers, NEW i \in Positions(Env(u, m), obs[s]), p = <<"observer", s, i>>
      PROVE  At(m, u, "observer", s, i) /\ p = Written(u, "observer", s, i)
  BY <1>4 DEF At, Written
<1>5. ASSUME NEW c \in Conns, pc[c] = "ackLogin" /\ who[c] = u,
             NEW i \in Positions(m, vec[c]), p = <<"login", c, i>>
      PROVE  At(m, u, "login", c, i) /\ p = Written(u, "login", c, i)
  BY <1>5 DEF At, Written
<1>6. ASSUME NEW c \in Conns, InHand(c, m, u), p = <<"handler", c>>
      PROVE  At(m, u, "handler", c, 0) /\ p = Written(u, "handler", c, 0)
  BY <1>6 DEF At, Written
<1>7. \/ \E c \in Conns : \E i \in Positions(Env(u, m), out[c]) : p = <<"client", c, i>>
      \/ \E i \in Positions(m, offlineMsg[u]) : p = <<"offline", i>>
      \/ \E s \in Servers : \E i \in Positions(Env(u, m), inbox[s]) : p = <<"bus", s, i>>
      \/ \E s \in Servers : \E i \in Positions(Env(u, m), obs[s]) : p = <<"observer", s, i>>
      \/ \E c \in Conns : /\ pc[c] = "ackLogin" /\ who[c] = u
                          /\ \E i \in Positions(m, vec[c]) : p = <<"login", c, i>>
      \/ \E c \in Conns : InHand(c, m, u) /\ p = <<"handler", c>>
  <2> DEFINE
    C == UNION {{<<"client", c, i>> : i \in Positions(Env(u, m), out[c])} : c \in Conns}
    O == {<<"offline", i>> : i \in Positions(m, offlineMsg[u])}
    B == UNION {{<<"bus", s, i>> : i \in Positions(Env(u, m), inbox[s])} : s \in Servers}
    R == UNION {{<<"observer", s, i>> : i \in Positions(Env(u, m), obs[s])} : s \in Servers}
    L == UNION {{<<"login", c, i>> : i \in Positions(m, vec[c])} :
                  c \in {d \in Conns : pc[d] = "ackLogin" /\ who[d] = u}}
    H == {<<"handler", c>> : c \in {d \in Conns :
            msg[d] = m /\ (u \in todo[d] \/ (who[d] = u /\ pc[d] \in InHandPcs))}}
  <2>1. p \in C => \E c \in Conns : \E i \in Positions(Env(u, m), out[c]) : p = <<"client", c, i>>
    BY Zenon
  <2>2. p \in O => \E i \in Positions(m, offlineMsg[u]) : p = <<"offline", i>>
    BY Zenon
  <2>3. p \in B => \E s \in Servers : \E i \in Positions(Env(u, m), inbox[s]) : p = <<"bus", s, i>>
    BY Zenon
  <2>4. p \in R => \E s \in Servers : \E i \in Positions(Env(u, m), obs[s]) : p = <<"observer", s, i>>
    BY Zenon
  <2>5. p \in L => \E c \in Conns : /\ pc[c] = "ackLogin" /\ who[c] = u
                                   /\ \E i \in Positions(m, vec[c]) : p = <<"login", c, i>>
    BY Zenon
  <2>6. p \in H => \E c \in Conns : InHand(c, m, u) /\ p = <<"handler", c>>
    BY Zenon DEF InHand
  <2>7. Places(m, u) = C \cup O \cup B \cup R \cup L \cup H
    BY DEF Places
  <2> HIDE DEF C, O, B, R, L, H
  <2>8. p \in C \/ p \in O \/ p \in B \/ p \in R \/ p \in L \/ p \in H
    BY <2>7
  <2> QED BY <2>1, <2>2, <2>3, <2>4, <2>5, <2>6, <2>8
<1> QED BY <1>1, <1>2, <1>3, <1>4, <1>5, <1>6, <1>7

LEMMA OnePlace ==
  ASSUME NEW m, NEW u, Alone(m, u)
  PROVE  Cardinality(Places(m, u)) <= 1
<1>1. ASSUME NEW p \in Places(m, u), NEW q \in Places(m, u) PROVE p = q
  <2>1. PICK k, x, i : At(m, u, k, x, i) /\ p = Written(u, k, x, i)
    BY PlaceIsSpot
  <2>2. PICK l, y, j : At(m, u, l, y, j) /\ q = Written(u, l, y, j)
    BY PlaceIsSpot
  <2> QED BY <2>1, <2>2 DEF Alone
<1>2. CASE Places(m, u) = {}
  <2>1. Cardinality(Places(m, u)) = 0
    BY <1>2, FS_EmptySet
  <2> QED BY <2>1
<1>3. CASE Places(m, u) # {}
  <2>1. PICK p : p \in Places(m, u)
    BY <1>3
  <2>2. Places(m, u) = {p}
    BY <1>1, <2>1
  <2>3. Cardinality(Places(m, u)) = 1
    BY <2>2, FS_Singleton
  <2> QED BY <2>3
<1> QED BY <1>2, <1>3

(* Whatever logins, logouts, senders and the observer thread of the server *)
(* interleave, a message for a user is never in two places, and so is      *)
(* never read twice: neither in two queues, nor stored and delivered.      *)
THEOREM CopiesTheorem ==
  ASSUME Serial, SingleServer
  PROVE  Spec => []AtMostOneCopy
<1>1. CopyInv => AtMostOneCopy
  BY OnePlace DEF CopyInv, AtMostOneCopy
<1> QED BY <1>1, CopyInvariance, PTL

=============================================================================
