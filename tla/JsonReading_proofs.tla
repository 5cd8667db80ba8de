--------------------------- MODULE JsonReading_proofs ---------------------------
(***************************************************************************)
(* What json::parse knows of what it has built, proved for every text.     *)
(*                                                                         *)
(* First, that the pointers json_sax_dom_parser keeps into the growing     *)
(* value follow the stack of open brackets that parser keeps.  It begins   *)
(* with what it means to go down a path and to change what is there.  Then *)
(* come chains: paths along which every container is the newest in the one *)
(* above, as in what is being parsed.  A chain is made longer, shorter, or *)
(* filled at its end; so do the calls of the builder, and so the parser.   *)
(*                                                                         *)
(* Second, that the lexer and the serializer agree on what UTF-8 is.  The  *)
(* serializer's automaton goes byte by byte; what it waits for is told in  *)
(* the lexer's words, and what the lexer encodes it takes.  So the lexer   *)
(* is in order after every byte in every mode, the builder's tree is clean *)
(* (it lies in a set of values, closed under children, whose texts all     *)
(* decode), and a string that is still open is known byte by byte.         *)
(***************************************************************************)
EXTENDS JsonReading, SequenceTheorems, WellFoundedInduction, TLAPS

(* A set of numbers that has 0 and the successor of each of its members    *)
(* has them all.                                                           *)
LEMMA Induction ==
  ASSUME NEW T, 0 \in T, \A n \in Nat : n \in T => n + 1 \in T
  PROVE  \A n \in Nat : n \in T
<1> DEFINE R == {ss \in Nat \X Nat : ss[1] < ss[2]}
           Out == {n \in Nat : n \notin T}
<1>1. IsWellFoundedOn(R, Nat)
  BY NatLessThanWellFounded, Zenon DEF OpToRel
<1>2. \A x, y \in Nat : x < y => <<x, y>> \in R
  OBVIOUS
<1> HIDE DEF R
<1>3. SUFFICES ASSUME Out # {} PROVE FALSE
  OBVIOUS
<1>4. PICK x \in Out : \A y \in Out : ~(<<y, x>> \in R)
  BY <1>1, <1>3, WFMin
<1>5. x \in Nat /\ x # 0 /\ x \notin T
  OBVIOUS
<1>6. x - 1 \in Nat /\ x - 1 < x
  BY <1>5
<1>7. x - 1 \in T
  BY <1>2, <1>4, <1>5, <1>6
<1>8. (x - 1) + 1 \in T
  BY <1>6, <1>7
<1> QED
  BY <1>5, <1>8

-----------------------------------------------------------------------------
(* The values on the first m steps of a path.                              *)
IsWalk(f, v, path, m) ==
    f = [n \in 0 .. m |-> IF n = 0 THEN v ELSE Content(f[n - 1])[path[n][2]]]

LEMMA WalkExists ==
  ASSUME NEW v, NEW path
  PROVE  \A m \in Nat : \E f : IsWalk(f, v, path, m)
<1> DEFINE T == {m \in Nat : \E f : IsWalk(f, v, path, m)}
<1>1. 0 \in T
  <2> DEFINE f == [n \in 0 .. 0 |-> v]
  <2>1. IsWalk(f, v, path, 0)
    BY DEF IsWalk
  <2> QED
    BY <2>1
<1>2. ASSUME NEW m \in Nat, m \in T
      PROVE  m + 1 \in T
  <2>1. PICK f : IsWalk(f, v, path, m)
    BY <1>2
  <2> DEFINE g == [n \in 0 .. m + 1 |->
                      IF n = m + 1 THEN Content(f[m])[path[m + 1][2]] ELSE f[n]]
  <2>2. \A n \in 0 .. m : f[n] = IF n = 0 THEN v ELSE Content(f[n - 1])[path[n][2]]
    BY <2>1 DEF IsWalk
  <2>3. \A n \in 0 .. m : g[n] = f[n]
    OBVIOUS
  <2>4. g[m + 1] = Content(g[m])[path[m + 1][2]]
    BY <2>3
  <2>5. ASSUME NEW n \in 0 .. m + 1
        PROVE  g[n] = IF n = 0 THEN v ELSE Content(g[n - 1])[path[n][2]]
    <3>1. CASE n = m + 1
      BY <2>4, <3>1
    <3>2. CASE n # m + 1
      <4>1. n \in 0 .. m /\ (n = 0 \/ n - 1 \in 0 .. m)
        BY <3>2
      <4> QED
        BY <4>1, <2>2, <2>3
    <3> QED
      BY <3>1, <3>2
  <2>6. g = [n \in 0 .. m + 1 |-> g[n]]
    OBVIOUS
  <2> HIDE DEF g
  <2>7. IsWalk(g, v, path, m + 1)
    BY <2>5, <2>6 DEF IsWalk
  <2> QED
    BY <2>7
<1> HIDE DEF T
<1>3. \A m \in Nat : m \in T
  BY <1>1, <1>2, Induction
<1> QED
  BY <1>3 DEF T

LEMMA WalksAgree ==
  ASSUME NEW v, NEW p, NEW q, NEW k \in Nat, NEW l \in Nat, k <= l,
         NEW f, NEW g, IsWalk(f, v, p, k), IsWalk(g, v, q, l), \A n \in 1 .. k : p[n] = q[n]
  PROVE  \A n \in 0 .. k : f[n] = g[n]
<1> DEFINE T == {n \in Nat : n <= k => f[n] = g[n]}
<1>1. \A n \in 0 .. k : /\ f[n] = IF n = 0 THEN v ELSE Content(f[n - 1])[p[n][2]]
                        /\ g[n] = IF n = 0 THEN v ELSE Content(g[n - 1])[q[n][2]]
  BY DEF IsWalk
<1>2. 0 \in T
  BY <1>1
<1>3. ASSUME NEW n \in Nat, n \in T
      PROVE  n + 1 \in T
  <2>1. CASE n + 1 <= k
    <3>1. f[n] = g[n]
      BY <1>3, <2>1
    <3>2. n + 1 \in 0 .. k /\ n + 1 \in 1 .. k /\ n + 1 # 0 /\ (n + 1) - 1 = n
      BY <2>1
    <3>3. f[n + 1] = Content(f[n])[p[n + 1][2]] /\ g[n + 1] = Content(g[n])[q[n + 1][2]]
      BY <1>1, <3>2
    <3> QED
      BY <3>1, <3>2, <3>3
  <2>2. CASE ~(n + 1 <= k)
    BY <2>2
  <2> QED
    BY <2>1, <2>2
<1> HIDE DEF T
<1>4. \A n \in Nat : n \in T
  BY <1>2, <1>3, Induction
<1> QED
  BY <1>4 DEF T

LEMMA AtWalk ==
  ASSUME NEW v, NEW path, Len(path) \in Nat
  PROVE  \E f : IsWalk(f, v, path, Len(path)) /\ At(v, path) = f[Len(path)]
<1> DEFINE below == CHOOSE f : IsWalk(f, v, path, Len(path))
<1>1. IsWalk(below, v, path, Len(path))
  BY WalkExists
<1>2. At(v, path) = below[Len(path)]
  BY DEF At, IsWalk
<1> QED
  BY <1>1, <1>2

(* The definition of At as a recursion along the path.                     *)
LEMMA AtEmpty ==
  ASSUME NEW v
  PROVE  At(v, <<>>) = v
<1>1. PICK f : IsWalk(f, v, <<>>, 0) /\ At(v, <<>>) = f[0]
  BY AtWalk
<1> QED
  BY <1>1 DEF IsWalk

LEMMA AppendFacts ==
  ASSUME NEW S, NEW s \in Seq(S), NEW x
  PROVE  /\ Append(s, x) \in Seq(S \cup {x}) /\ Len(Append(s, x)) = Len(s) + 1
         /\ DOMAIN Append(s, x) = 1 .. Len(s) + 1
         /\ Append(s, x)[Len(s) + 1] = x /\ \A i \in 1 .. Len(s) : Append(s, x)[i] = s[i]
<1>1. s \in Seq(S \cup {x}) /\ x \in S \cup {x}
  BY SeqMonotonic
<1> QED
  BY <1>1, AppendProperties

LEMMA AtLonger ==
  ASSUME NEW v, NEW p, NEW q, NEW m \in Nat, Len(p) = m, Len(q) = m + 1,
         \A n \in 1 .. m : p[n] = q[n]
  PROVE  At(v, q) = Content(At(v, p))[q[m + 1][2]]
<1>1. PICK f : IsWalk(f, v, p, m) /\ At(v, p) = f[m]
  BY AtWalk
<1>2. PICK g : IsWalk(g, v, q, m + 1) /\ At(v, q) = g[m + 1]
  <2>1. m + 1 \in Nat
    OBVIOUS
  <2> QED
    BY <2>1, AtWalk
<1>3. m <= m + 1 /\ m + 1 \in Nat
  OBVIOUS
<1>4. \A n \in 0 .. m : f[n] = g[n]
  BY <1>1, <1>2, <1>3, WalksAgree
<1>5. g[m + 1] = Content(g[m])[q[m + 1][2]]
  BY <1>2 DEF IsWalk
<1> QED
  BY <1>1, <1>2, <1>4, <1>5

LEMMA AtAppend ==
  ASSUME NEW v, NEW S, NEW path \in Seq(S), NEW k
  PROVE  At(v, Append(path, k)) = Content(At(v, path))[k[2]]
<1> DEFINE long == Append(path, k)
           m == Len(path)
<1>1. /\ m \in Nat /\ Len(long) = m + 1 /\ long[m + 1] = k
      /\ \A n \in 1 .. m : path[n] = long[n]
  BY AppendFacts
<1> HIDE DEF long
<1>2. At(v, long) = Content(At(v, path))[long[m + 1][2]]
  BY <1>1, AtLonger
<1> QED
  BY <1>1, <1>2 DEF long

-----------------------------------------------------------------------------
(* What Put builds, from the end of the path to the root.                  *)
IsChange(f, v, path, new, first) ==
    f = [n \in first .. Len(path) |->
            IF n = Len(path) THEN new
            ELSE <<Type(At(v, SubSeq(path, 1, n))),
                   [Content(At(v, SubSeq(path, 1, n))) EXCEPT ![path[n + 1][2]] = f[n + 1]]>>]

LEMMA ChangeExists ==
  ASSUME NEW v, NEW path, Len(path) \in Nat, NEW new
  PROVE  \E f : IsChange(f, v, path, new, 0)
<1> DEFINE L == Len(path)
           Node(n, w) == <<Type(At(v, SubSeq(path, 1, n))),
                           [Content(At(v, SubSeq(path, 1, n))) EXCEPT ![path[n + 1][2]] = w]>>
           T == {m \in Nat : m <= L => \E f : IsChange(f, v, path, new, L - m)}
<1> HIDE DEF Node
<1>1. 0 \in T
  <2> DEFINE f == [n \in L .. L |-> new]
  <2>1. IsChange(f, v, path, new, L)
    BY DEF IsChange
  <2> QED
    BY <2>1
<1>2. ASSUME NEW m \in Nat, m \in T
      PROVE  m + 1 \in T
  <2>1. SUFFICES ASSUME m + 1 <= L
                 PROVE  \E f : IsChange(f, v, path, new, L - (m + 1))
    OBVIOUS
  <2>2. PICK f : IsChange(f, v, path, new, L - m)
    BY <1>2, <2>1
  <2> DEFINE k == L - (m + 1)
             g == [n \in k .. L |-> IF n = k THEN Node(k, f[k + 1]) ELSE f[n]]
  <2>3. k \in Nat /\ k < L /\ L - m = k + 1
    BY <2>1
  <2> HIDE DEF k
  <2>4. \A n \in k + 1 .. L : f[n] = IF n = L THEN new ELSE Node(n, f[n + 1])
    BY <2>2, <2>3 DEF IsChange, Node
  <2>5. \A n \in k + 1 .. L : g[n] = f[n]
    BY <2>3
  <2>6. g[k] = Node(k, f[k + 1]) /\ f[k + 1] = g[k + 1]
    BY <2>3, <2>5
  <2>7. ASSUME NEW n \in k .. L
        PROVE  g[n] = IF n = L THEN new ELSE Node(n, g[n + 1])
    <3>1. CASE n = k
      BY <2>3, <2>6, <3>1
    <3>2. CASE n # k
      <4>1. n \in k + 1 .. L /\ (n = L \/ n + 1 \in k + 1 .. L)
        BY <2>3, <3>2
      <4>2. g[n] = f[n] /\ (n = L \/ g[n + 1] = f[n + 1])
        BY <2>5, <4>1
      <4> QED
        BY <2>4, <4>1, <4>2
    <3> QED
      BY <3>1, <3>2
  <2>8. g = [n \in k .. L |-> g[n]]
    OBVIOUS
  <2> HIDE DEF g
  <2>9. IsChange(g, v, path, new, k)
    BY <2>7, <2>8 DEF IsChange, Node
  <2> QED
    BY <2>9 DEF k
<1> HIDE DEF T
<1>3. \A m \in Nat : m \in T
  BY <1>1, <1>2, Induction
<1>4. L \in T
  BY <1>3
<1>5. L - L = 0
  OBVIOUS
<1> QED
  BY <1>4, <1>5 DEF T

LEMMA PutChange ==
  ASSUME NEW v, NEW path, Len(path) \in Nat, NEW new
  PROVE  \E f : IsChange(f, v, path, new, 0) /\ Put(v, path, new) = f[0]
<1> DEFINE changed == CHOOSE f : IsChange(f, v, path, new, 0)
<1>1. IsChange(changed, v, path, new, 0)
  BY ChangeExists
<1>2. Put(v, path, new) = changed[0]
  BY DEF Put, IsChange
<1> QED
  BY <1>1, <1>2

(* The steps of a path lead from a member to a member.                     *)
Leads(v, path) ==
    \A n \in 0 .. Len(path) - 1 : path[n + 1][2] \in DOMAIN Content(At(v, SubSeq(path, 1, n)))

(* After Put the path leads to what was put there, and what lies on the    *)
(* way to it has changed in one place.                                     *)
LEMMA AtPut ==
  ASSUME NEW v, NEW S, NEW path \in Seq(S), NEW new, Leads(v, path)
  PROVE  LET w == Put(v, path, new)
             pre(n) == SubSeq(path, 1, n)
         IN  /\ At(w, path) = new
             /\ \A n \in 0 .. Len(path) - 1 :
                   At(w, pre(n)) = <<Type(At(v, pre(n))),
                       [Content(At(v, pre(n))) EXCEPT ![path[n + 1][2]] = At(w, pre(n + 1))]>>
<1> DEFINE L == Len(path)
           w == Put(v, path, new)
           pre(n) == SubSeq(path, 1, n)
           old(n) == At(v, pre(n))
<1>1. L \in Nat /\ pre(0) = <<>> /\ pre(L) = path
  BY SubSeqEmpty, SubSeqFull
<1>2. \A n \in 0 .. L - 1 : pre(n) \in Seq(S) /\ pre(n + 1) = Append(pre(n), path[n + 1])
  <2> TAKE n \in 0 .. L - 1
  <2>1. n \in Nat /\ n + 1 \in 1 .. L
    BY <1>1
  <2> QED
    BY <2>1
<1>3. PICK f : IsChange(f, v, path, new, 0) /\ w = f[0]
  BY <1>1, PutChange
<1> HIDE DEF w, pre
<1>4. /\ f[L] = new
      /\ \A n \in 0 .. L - 1 : f[n] = <<Type(old(n)), [Content(old(n)) EXCEPT ![path[n + 1][2]] = f[n + 1]]>>
  <2>1. \A n \in 0 .. L : f[n] = IF n = L THEN new
           ELSE <<Type(old(n)), [Content(old(n)) EXCEPT ![path[n + 1][2]] = f[n + 1]]>>
    BY <1>3 DEF IsChange, pre
  <2>2. L \in 0 .. L /\ \A n \in 0 .. L - 1 : n \in 0 .. L /\ n # L
    BY <1>1
  <2> HIDE DEF old, L
  <2> QED
    BY <2>1, <2>2
<1> DEFINE T == {n \in Nat : n <= L => At(w, pre(n)) = f[n]}
<1>5. 0 \in T
  BY <1>1, <1>3, AtEmpty
<1>6. ASSUME NEW n \in Nat, n \in T
      PROVE  n + 1 \in T
  <2>1. SUFFICES ASSUME n + 1 <= L PROVE At(w, pre(n + 1)) = f[n + 1]
    OBVIOUS
  <2>2. n \in 0 .. L - 1 /\ At(w, pre(n)) = f[n]
    BY <1>1, <1>6, <2>1
  <2> DEFINE k == path[n + 1][2]
             c == Content(old(n))
  <2>3. At(w, pre(n + 1)) = Content(f[n])[k]
    <3>1. pre(n) \in Seq(S) /\ pre(n + 1) = Append(pre(n), path[n + 1])
      BY <1>2, <2>2
    <3>2. At(w, Append(pre(n), path[n + 1])) = Content(At(w, pre(n)))[path[n + 1][2]]
      BY <3>1, AtAppend
    <3> QED
      BY <2>2, <3>1, <3>2
  <2>4. k \in DOMAIN c
    BY <2>2 DEF Leads, pre
  <2>5. f[n] = <<Type(old(n)), [c EXCEPT ![k] = f[n + 1]]>>
    BY <1>4, <2>2
  <2> HIDE DEF k, c, old
  <2>6. Content(f[n]) = [c EXCEPT ![k] = f[n + 1]]
    BY <2>5 DEF Content
  <2>7. Content(f[n])[k] = f[n + 1]
    BY <2>4, <2>6
  <2> QED
    BY <2>3, <2>7
<1> HIDE DEF T
<1>7. \A n \in Nat : n \in T
  BY <1>5, <1>6, Induction
<1>8. \A n \in 0 .. L : At(w, pre(n)) = f[n]
  BY <1>1, <1>7 DEF T
<1>9. At(w, path) = new
  BY <1>1, <1>4, <1>8
<1>10. ASSUME NEW n \in 0 .. L - 1
       PROVE  At(w, pre(n)) = <<Type(old(n)), [Content(old(n)) EXCEPT ![path[n + 1][2]] = At(w, pre(n + 1))]>>
  <2>1. n \in 0 .. L /\ n + 1 \in 0 .. L
    BY <1>1
  <2>2. At(w, pre(n)) = f[n] /\ At(w, pre(n + 1)) = f[n + 1]
    BY <1>8, <2>1
  <2> QED
    BY <1>4, <2>2
<1> QED
  BY <1>9, <1>10 DEF w, pre
-----------------------------------------------------------------------------
(* A path is a sequence, and so are the elements of an array.              *)
IsSeq(s) == s \in Seq({s[i] : i \in DOMAIN s})

(* A container as its bracket says.                                        *)
Proper(v, array) ==
    IF array THEN Type(v) = "array" /\ IsSeq(Content(v)) ELSE Type(v) = "object"

(* The step to the last element of an array, or to a member.               *)
IsNewest(k, v, array) ==
    IF array THEN Content(v) # <<>> /\ k = Element(Len(Content(v)))
    ELSE \E n \in DOMAIN Content(v) : k = Member(n)

(* Along the path lie the containers of the brackets, each the newest in   *)
(* the one before.                                                         *)
Chain(root, path, brackets) ==
    \A n \in 0 .. Len(path) :
        /\ Proper(At(root, SubSeq(path, 1, n)), brackets[n + 1])
        /\ n < Len(path) => IsNewest(path[n + 1], At(root, SubSeq(path, 1, n)), brackets[n + 1])

(* The pointers to what lies on a path.                                    *)
RefsOf(path) == [i \in 1 .. Len(path) + 1 |-> SubSeq(path, 1, i - 1)]

IsDom(dom) == dom = [root |-> dom.root, refs |-> dom.refs, element |-> dom.element]

DomOK(dom, brackets) ==
    /\ IsDom(dom)
    /\ brackets = <<>> => dom.refs = <<>>
    /\ brackets # <<>> =>
          LET path == Last(dom.refs)
          IN  /\ IsSeq(path) /\ Len(path) + 1 = Len(brackets)
              /\ dom.refs = RefsOf(path)
              /\ Chain(dom.root, path, brackets)

(* The member the next value goes to.                                      *)
ElementOK(dom) ==
    \E n \in DOMAIN Content(Holder(dom)) : dom.element = Append(Last(dom.refs), Member(n))

(* The open brackets of a parser that waits.                               *)
Stack(at, states) ==
    IF at \in {"first_key", "first_separator", "first_element"}
    THEN Append(states, at = "first_element") ELSE states

(* What it has built, and what it knows of the innermost container.        *)
Waiting(at, states, dom) ==
    /\ DomOK(dom, Stack(at, states))
    /\ at \in {"after", "key", "separator"} => states # <<>>
    /\ at \in {"key", "separator"} => ~Last(states)
    /\ /\ at \in {"value", "separator", "first_separator"}
       /\ Stack(at, states) # <<>> /\ ~Last(Stack(at, states))
       => ElementOK(dom)

IsParser(p) ==
    p = [lexer |-> p.lexer, at |-> p.at, states |-> p.states, dom |-> p.dom, error |-> p.error]

Waits == {"value", "first_element", "first_key", "first_separator", "after", "key", "separator", "end"}

ParserInv(p) ==
    /\ IsParser(p)
    /\ p.at \in Waits \cup {"accepted", "error"}
    /\ p.states \in Seq(BOOLEAN)
    /\ p.at \in Waits => Waiting(p.at, p.states, p.dom)

ReadingInv == ParserInv(parser)

-----------------------------------------------------------------------------
LEMMA SeqIsSeq ==
  ASSUME NEW S, NEW s \in Seq(S)
  PROVE  IsSeq(s)
<1>1. Len(s) \in Nat /\ s \in [1 .. Len(s) -> S] /\ DOMAIN s = 1 .. Len(s)
  BY LenProperties
<1> DEFINE R == {s[i] : i \in DOMAIN s}
<1>2. s \in [1 .. Len(s) -> R]
  BY <1>1
<1>3. s \in Seq(R)
  BY <1>1, <1>2, SeqDef
<1> QED
  BY <1>3 DEF IsSeq

LEMMA IsSeqFacts ==
  ASSUME NEW s, IsSeq(s)
  PROVE  \E S : s \in Seq(S)
BY DEF IsSeq

LEMMA IsSeqAppend ==
  ASSUME NEW s, IsSeq(s), NEW x
  PROVE  IsSeq(Append(s, x)) /\ Len(Append(s, x)) = Len(s) + 1 /\ Append(s, x) # <<>>
         /\ Append(s, x)[Len(s) + 1] = x /\ Len(s) \in Nat
<1>1. PICK S : s \in Seq(S)
  BY IsSeqFacts
<1>2. Append(s, x) \in Seq(S \cup {x}) /\ Len(Append(s, x)) = Len(s) + 1 /\ Append(s, x)[Len(s) + 1] = x
  BY <1>1, AppendFacts
<1>3. Len(s) \in Nat
  BY <1>1
<1>4. Append(s, x) # <<>>
  BY <1>2, <1>3
<1> QED
  BY <1>2, <1>3, <1>4, SeqIsSeq

(* What one change inside a container leaves as it was.                    *)
SameShape(v, w) ==
    /\ Type(w) = Type(v) /\ DOMAIN Content(w) = DOMAIN Content(v)
    /\ IsSeq(Content(v)) => /\ IsSeq(Content(w)) /\ Len(Content(w)) = Len(Content(v))
                            /\ Content(v) # <<>> => Content(w) # <<>>

LEMMA ExceptShape ==
  ASSUME NEW v, NEW k \in DOMAIN Content(v), NEW x,
         NEW w, w = <<Type(v), [Content(v) EXCEPT ![k] = x]>>
  PROVE  SameShape(v, w)
<1> DEFINE c == Content(v)
<1>1. Type(w) = Type(v) /\ Content(w) = [c EXCEPT ![k] = x]
  BY DEF Type, Content
<1>2. DOMAIN Content(w) = DOMAIN c
  BY <1>1
<1>3. ASSUME IsSeq(c)
      PROVE  IsSeq(Content(w)) /\ Len(Content(w)) = Len(c) /\ (c # <<>> => Content(w) # <<>>)
  <2> DEFINE R == {c[i] : i \in DOMAIN c}
             all == R \cup {x}
  <2> HIDE DEF c
  <2>1. c \in Seq(R)
    BY <1>3 DEF IsSeq
  <2> HIDE DEF R
  <2>2. c \in Seq(all) /\ x \in all
    BY <2>1, SeqMonotonic
  <2>3. k \in 1 .. Len(c) /\ Len(c) \in Nat
    BY <2>1 DEF c
  <2>4. Content(w) \in Seq(all) /\ Len(Content(w)) = Len(c)
    <3> HIDE DEF all
    <3>1. [c EXCEPT ![k] = x] \in Seq(all) /\ Len([c EXCEPT ![k] = x]) = Len(c)
      BY <2>2, <2>3, ExceptSeq
    <3> QED
      BY <1>1, <3>1, Zenon
  <2>5. Content(w) # <<>>
    BY <2>3, <2>4
  <2> QED
    BY <2>4, <2>5, SeqIsSeq
<1> QED
  BY <1>1, <1>2, <1>3 DEF SameShape

LEMMA ShapeKeeps ==
  ASSUME NEW v, NEW w, SameShape(v, w), NEW array \in BOOLEAN
  PROVE  /\ Proper(v, array) => Proper(w, array)
         /\ \A k : Proper(v, array) /\ IsNewest(k, v, array) => IsNewest(k, w, array)
BY DEF SameShape, Proper, IsNewest

LEMMA PutThere ==
  ASSUME NEW v, NEW S, NEW path \in Seq(S), Leads(v, path), NEW new
  PROVE  At(Put(v, path, new), path) = new
BY AtPut

(* Along a path to which something is put, every container keeps its shape.*)
LEMMA PutKeeps ==
  ASSUME NEW v, NEW S, NEW path \in Seq(S), NEW new, Leads(v, path)
  PROVE  \A n \in 0 .. Len(path) - 1 :
            SameShape(At(v, SubSeq(path, 1, n)), At(Put(v, path, new), SubSeq(path, 1, n)))
<1> TAKE n \in 0 .. Len(path) - 1
<1> DEFINE w == Put(v, path, new)
           old == At(v, SubSeq(path, 1, n))
           k == path[n + 1][2]
           x == At(w, SubSeq(path, 1, n + 1))
<1>1. At(w, SubSeq(path, 1, n)) = <<Type(old), [Content(old) EXCEPT ![k] = x]>>
  BY AtPut
<1>2. k \in DOMAIN Content(old)
  BY DEF Leads
<1> HIDE DEF w, old, k, x
<1>3. SameShape(old, At(w, SubSeq(path, 1, n)))
  BY <1>1, <1>2, ExceptShape
<1> QED
  BY <1>3 DEF w, old

(* The newest of a container is in it.                                     *)
LEMMA NewestIn ==
  ASSUME NEW k, NEW v, NEW array \in BOOLEAN, Proper(v, array), IsNewest(k, v, array)
  PROVE  k[2] \in DOMAIN Content(v)
<1>1. CASE array
  <2>1. IsSeq(Content(v)) /\ Content(v) # <<>> /\ k[2] = Len(Content(v))
    BY <1>1 DEF Proper, IsNewest, Element
  <2>2. PICK S : Content(v) \in Seq(S)
    BY <2>1, IsSeqFacts
  <2>3. Len(Content(v)) \in 1 .. Len(Content(v)) /\ DOMAIN Content(v) = 1 .. Len(Content(v))
    BY <2>1, <2>2, EmptySeq, LenProperties
  <2> QED
    BY <2>1, <2>3
<1>2. CASE ~array
  BY <1>2 DEF IsNewest, Member
<1> QED
  BY <1>1, <1>2

LEMMA ChainLeads ==
  ASSUME NEW root, NEW S, NEW path \in Seq(S), NEW brackets \in Seq(BOOLEAN),
         Len(path) + 1 = Len(brackets), Chain(root, path, brackets)
  PROVE  Leads(root, path)
<1>1. SUFFICES ASSUME NEW n \in 0 .. Len(path) - 1
               PROVE  path[n + 1][2] \in DOMAIN Content(At(root, SubSeq(path, 1, n)))
  BY DEF Leads
<1>2. Len(path) \in Nat /\ n \in 0 .. Len(path) /\ n < Len(path) /\ n + 1 \in 1 .. Len(brackets)
  OBVIOUS
<1>3. brackets[n + 1] \in BOOLEAN
  BY <1>2
<1>4. /\ Proper(At(root, SubSeq(path, 1, n)), brackets[n + 1])
      /\ IsNewest(path[n + 1], At(root, SubSeq(path, 1, n)), brackets[n + 1])
  BY <1>2 DEF Chain
<1> QED
  BY <1>3, <1>4, NewestIn

(* A container is exchanged for one of the same kind.                      *)
LEMMA ChainPut ==
  ASSUME NEW root, NEW S, NEW path \in Seq(S), NEW brackets \in Seq(BOOLEAN),
         Len(path) + 1 = Len(brackets), Chain(root, path, brackets),
         NEW new, Proper(new, Last(brackets))
  PROVE  Chain(Put(root, path, new), path, brackets)
<1> DEFINE w == Put(root, path, new)
           pre(n) == SubSeq(path, 1, n)
           L == Len(path)
<1>1. SUFFICES ASSUME NEW n \in 0 .. L
               PROVE  /\ Proper(At(w, pre(n)), brackets[n + 1])
                      /\ n < L => IsNewest(path[n + 1], At(w, pre(n)), brackets[n + 1])
  BY DEF Chain
<1>2. L \in Nat /\ Len(brackets) = L + 1
  OBVIOUS
<1>3. Leads(root, path)
  BY ChainLeads
<1>4. CASE n = L
  <2> HIDE DEF w
  <2>3. pre(L) = path
    BY SubSeqFull
  <2>4. At(w, path) = new
    BY <1>3, AtPut DEF w
  <2>1. At(w, pre(n)) = new
    BY <2>3, <2>4, <1>4
  <2>2. brackets[n + 1] = Last(brackets)
    BY <1>2, <1>4 DEF Last
  <2> QED
    BY <1>4, <2>1, <2>2
<1>5. CASE n # L
  <2> HIDE DEF L
  <2>1. n \in 0 .. L - 1 /\ n < L /\ n + 1 \in 1 .. Len(brackets)
    BY <1>2, <1>5
  <2> USE DEF L
  <2>2. brackets[n + 1] \in BOOLEAN
    BY <2>1
  <2>3. SameShape(At(root, pre(n)), At(w, pre(n)))
    BY <1>3, <2>1, PutKeeps
  <2>4. Proper(At(root, pre(n)), brackets[n + 1]) /\ IsNewest(path[n + 1], At(root, pre(n)), brackets[n + 1])
    BY <2>1 DEF Chain
  <2> HIDE DEF w, pre
  <2> QED
    BY <2>2, <2>3, <2>4, ShapeKeeps
<1> QED
  BY <1>4, <1>5

LEMMA PrefixOfAppend ==
  ASSUME NEW S, NEW path \in Seq(S), NEW k, NEW n \in 0 .. Len(path)
  PROVE  SubSeq(Append(path, k), 1, n) = SubSeq(path, 1, n)
<1> DEFINE long == Append(path, k)
           all == S \cup {k}
<1>1. long \in Seq(all) /\ Len(long) = Len(path) + 1 /\ \A i \in 1 .. Len(path) : long[i] = path[i]
  BY AppendFacts
<1>2. path \in Seq(all) /\ Len(path) \in Nat
  BY SeqMonotonic
<1> HIDE DEF long, all
<1> QED
  BY <1>1, <1>2

(* A path with one more step.                                              *)
OneFurther(path, long, k) ==
    /\ Len(long) = Len(path) + 1 /\ long[Len(path) + 1] = k
    /\ \A i \in 1 .. Len(path) : long[i] = path[i]
    /\ \A n \in 0 .. Len(path) : SubSeq(long, 1, n) = SubSeq(path, 1, n)

LEMMA AppendFurther ==
  ASSUME NEW S, NEW path \in Seq(S), NEW k, NEW long, long = Append(path, k)
  PROVE  long \in Seq(S \cup {k}) /\ OneFurther(path, long, k)
<1>1. \A n \in 0 .. Len(path) : SubSeq(Append(path, k), 1, n) = SubSeq(path, 1, n)
  BY PrefixOfAppend
<1>2. /\ Append(path, k) \in Seq(S \cup {k}) /\ Len(Append(path, k)) = Len(path) + 1
      /\ Append(path, k)[Len(path) + 1] = k /\ \A i \in 1 .. Len(path) : Append(path, k)[i] = path[i]
  BY AppendFacts
<1> QED
  BY <1>1, <1>2, Zenon DEF OneFurther

(* Something is put into the innermost container, which is an object.      *)
LEMMA ChainFill ==
  ASSUME NEW root, NEW S, NEW path \in Seq(S), NEW brackets \in Seq(BOOLEAN),
         Len(path) + 1 = Len(brackets), Chain(root, path, brackets), ~Last(brackets),
         NEW name \in DOMAIN Content(At(root, path)), NEW new,
         NEW T, NEW long \in Seq(T), OneFurther(path, long, Member(name)), NEW w, w = Put(root, long, new)
  PROVE  /\ Chain(w, path, brackets)
         /\ Leads(root, long)
         /\ IsNewest(Member(name), At(w, path), FALSE)
<1> DEFINE k == Member(name)
           L == Len(path)
           pre(n) == SubSeq(path, 1, n)
<1>1. /\ Len(long) = L + 1 /\ long[L + 1] = k
      /\ \A i \in 1 .. L : long[i] = path[i]
  BY DEF OneFurther
<1>2. L \in Nat /\ Len(brackets) = L + 1 /\ k[2] = name
  BY DEF Member
<1>10. pre(L) = path
  BY SubSeqFull
<1>3. \A n \in 0 .. L : SubSeq(long, 1, n) = pre(n)
  BY DEF OneFurther
<1>4. Leads(root, path)
  BY ChainLeads
<1> HIDE DEF k
<1>5. Leads(root, long)
  <2>1. ASSUME NEW n \in 0 .. L
        PROVE  long[n + 1][2] \in DOMAIN Content(At(root, pre(n)))
    <3>1. CASE n = L
      BY <1>1, <1>2, <1>10, <3>1
    <3>2. CASE n # L
      <4> HIDE DEF L
      <4>1. n \in 0 .. L - 1 /\ n + 1 \in 1 .. L
        BY <1>2, <3>2
      <4>2. path[n + 1][2] \in DOMAIN Content(At(root, pre(n)))
        BY <1>4, <4>1 DEF Leads, L
      <4> QED
        BY <1>1, <4>1, <4>2
    <3> QED
      BY <3>1, <3>2
  <2>2. Len(long) - 1 = L
    BY <1>1, <1>2
  <2> HIDE DEF L, pre
  <2>3. \A n \in 0 .. L : long[n + 1][2] \in DOMAIN Content(At(root, SubSeq(long, 1, n)))
    BY <2>1, <1>3
  <2> QED
    BY <2>2, <2>3 DEF Leads
<1>6. \A n \in 0 .. L : SameShape(At(root, pre(n)), At(w, pre(n)))
  <2>1. Len(long) - 1 = L
    BY <1>1, <1>2
  <2> HIDE DEF L, pre
  <2>2. \A n \in 0 .. L : SameShape(At(root, SubSeq(long, 1, n)), At(w, SubSeq(long, 1, n)))
    BY <1>1, <1>5, <2>1, PutKeeps
  <2> QED
    BY <1>3, <2>2
<1> HIDE DEF pre
<1>8. Chain(w, path, brackets)
  <2>1. SUFFICES ASSUME NEW n \in 0 .. L
                 PROVE  /\ Proper(At(w, pre(n)), brackets[n + 1])
                        /\ n < L => IsNewest(path[n + 1], At(w, pre(n)), brackets[n + 1])
    BY DEF Chain, pre
  <2>2. brackets[n + 1] \in BOOLEAN
    BY <1>2
  <2>3. Proper(At(root, pre(n)), brackets[n + 1])
        /\ (n < L => IsNewest(path[n + 1], At(root, pre(n)), brackets[n + 1]))
    BY DEF Chain, pre
  <2> QED
    BY <1>6, <2>2, <2>3, ShapeKeeps
<1>9. IsNewest(k, At(w, path), FALSE)
  <2>1. SameShape(At(root, path), At(w, path))
    BY <1>2, <1>6, <1>10
  <2> QED
    BY <2>1 DEF SameShape, IsNewest, k
<1> QED
  BY <1>5, <1>8, <1>9 DEF k

(* One step further, and one step back.                                    *)
LEMMA ChainExtend ==
  ASSUME NEW root, NEW S, NEW path \in Seq(S), NEW brackets \in Seq(BOOLEAN),
         Len(path) + 1 = Len(brackets), Chain(root, path, brackets),
         NEW k, IsNewest(k, At(root, path), Last(brackets)),
         NEW array \in BOOLEAN, Proper(At(root, Append(path, k)), array)
  PROVE  Chain(root, Append(path, k), Append(brackets, array))
<1> DEFINE long == Append(path, k)
           more == Append(brackets, array)
           L == Len(path)
<1>1. /\ long \in Seq(S \cup {k}) /\ Len(long) = L + 1 /\ long[L + 1] = k
      /\ \A i \in 1 .. L : long[i] = path[i]
  BY AppendFacts
<1>2. /\ Len(brackets) = L + 1 /\ L \in Nat /\ more[L + 2] = array
      /\ \A i \in 1 .. L + 1 : more[i] = brackets[i]
  OBVIOUS
<1>3. \A n \in 0 .. L : SubSeq(long, 1, n) = SubSeq(path, 1, n)
  BY PrefixOfAppend
<1>4. SubSeq(long, 1, L + 1) = long /\ SubSeq(path, 1, L) = path
  BY <1>1, SubSeqFull
<1> HIDE DEF long, more
<1>5. SUFFICES ASSUME NEW n \in 0 .. L + 1
               PROVE  /\ Proper(At(root, SubSeq(long, 1, n)), more[n + 1])
                      /\ n < L + 1 => IsNewest(long[n + 1], At(root, SubSeq(long, 1, n)), more[n + 1])
  BY <1>1 DEF Chain, long, more
<1>6. CASE n = L + 1
  <2>1. more[n + 1] = array /\ SubSeq(long, 1, n) = long
    BY <1>2, <1>4, <1>6
  <2>2. ~(n < L + 1)
    BY <1>2, <1>6
  <2> QED
    BY <2>1, <2>2 DEF long
<1>7. CASE n = L
  <2>1. more[n + 1] = Last(brackets) /\ SubSeq(long, 1, n) = path /\ long[n + 1] = k
        /\ more[n + 1] = brackets[n + 1] /\ SubSeq(path, 1, n) = path
    BY <1>1, <1>2, <1>3, <1>4, <1>7 DEF Last
  <2>3. n \in 0 .. Len(path)
    BY <1>2, <1>7
  <2>4. Proper(At(root, SubSeq(path, 1, n)), brackets[n + 1])
    BY <2>3 DEF Chain
  <2>2. Proper(At(root, path), brackets[n + 1])
    BY <2>1, <2>4
  <2> QED
    BY <2>1, <2>2
<1>8. CASE n \in 0 .. L - 1
  <2>1. more[n + 1] = brackets[n + 1] /\ SubSeq(long, 1, n) = SubSeq(path, 1, n) /\ long[n + 1] = path[n + 1]
        /\ n < L /\ n \in 0 .. L
    BY <1>1, <1>2, <1>3, <1>8
  <2> QED
    BY <2>1 DEF Chain
<1> QED
  BY <1>2, <1>6, <1>7, <1>8

LEMMA ChainShorten ==
  ASSUME NEW root, NEW S, NEW path \in Seq(S), NEW brackets \in Seq(BOOLEAN),
         Len(path) + 1 = Len(brackets), Chain(root, path, brackets), path # <<>>
  PROVE  Chain(root, Front(path), Front(brackets))
<1> DEFINE L == Len(path) - 1
           short == Front(path)
           fewer == Front(brackets)
<1>1. /\ L \in Nat /\ Len(path) = L + 1 /\ Len(brackets) = L + 2
      /\ short = SubSeq(path, 1, L) /\ fewer = SubSeq(brackets, 1, L + 1)
  BY EmptySeq DEF Front
<1>2. /\ short \in Seq(S) /\ Len(short) = L /\ \A i \in 1 .. L : short[i] = path[i]
      /\ \A i \in 1 .. L + 1 : fewer[i] = brackets[i]
  BY <1>1
<1>3. ASSUME NEW n \in 0 .. L
      PROVE  SubSeq(short, 1, n) = SubSeq(path, 1, n)
  BY <1>1, <1>2
<1> HIDE DEF short, fewer
<1>4. SUFFICES ASSUME NEW n \in 0 .. L
               PROVE  /\ Proper(At(root, SubSeq(short, 1, n)), fewer[n + 1])
                      /\ n < L => IsNewest(short[n + 1], At(root, SubSeq(short, 1, n)), fewer[n + 1])
  BY <1>2 DEF Chain, short, fewer
<1>5. n \in 0 .. Len(path) /\ n < Len(path) /\ fewer[n + 1] = brackets[n + 1] /\ (n < L => short[n + 1] = path[n + 1])
  BY <1>1, <1>2
<1> QED
  BY <1>3, <1>5 DEF Chain

-----------------------------------------------------------------------------
(* The pointers to what lies on a path.                                    *)
LEMMA RefsFacts ==
  ASSUME NEW S, NEW path \in Seq(S)
  PROVE  /\ RefsOf(path) \in Seq(Seq(S)) /\ Len(RefsOf(path)) = Len(path) + 1
         /\ Len(path) \in Nat /\ RefsOf(path) # <<>> /\ Last(RefsOf(path)) = path
<1> DEFINE L == Len(path)
<1>1. L \in Nat
  OBVIOUS
<1>2. \A i \in 1 .. L + 1 : SubSeq(path, 1, i - 1) \in Seq(S)
  <2> TAKE i \in 1 .. L + 1
  <2>1. i - 1 \in 0 .. L
    BY <1>1
  <2> QED
    BY <2>1
<1>3. RefsOf(path) \in [1 .. L + 1 -> Seq(S)]
  BY <1>2 DEF RefsOf
<1>4. RefsOf(path) \in Seq(Seq(S)) /\ Len(RefsOf(path)) = L + 1
  <2>1. L + 1 \in Nat
    BY <1>1
  <2>2. RefsOf(path) \in Seq(Seq(S))
    BY <1>3, <2>1, SeqDef
  <2>3. DOMAIN RefsOf(path) = 1 .. L + 1
    BY <1>3
  <2> QED
    BY <2>1, <2>2, <2>3, LenProperties
<1>5. RefsOf(path) # <<>>
  BY <1>1, <1>4
<1>6. RefsOf(path)[L + 1] = path
  <2>1. L + 1 \in 1 .. L + 1 /\ (L + 1) - 1 = L
    BY <1>1
  <2>2. RefsOf(path)[L + 1] = SubSeq(path, 1, L)
    BY <2>1 DEF RefsOf
  <2> QED
    BY <2>2, SubSeqFull
<1> QED
  BY <1>1, <1>4, <1>5, <1>6 DEF Last

LEMMA RefsAppend ==
  ASSUME NEW S, NEW path \in Seq(S), NEW k
  PROVE  Append(RefsOf(path), Append(path, k)) = RefsOf(Append(path, k))
<1> DEFINE long == Append(path, k)
           all == S \cup {k}
           refs == RefsOf(path)
           L == Len(path)
<1>1. long \in Seq(all) /\ Len(long) = L + 1 /\ path \in Seq(all) /\ L \in Nat
  BY AppendFacts, SeqMonotonic
<1>2. \A n \in 0 .. L : SubSeq(long, 1, n) = SubSeq(path, 1, n)
  BY PrefixOfAppend
<1>3. SubSeq(long, 1, L + 1) = long
  BY <1>1, SubSeqFull
<1> HIDE DEF long, all
<1>4. refs \in Seq(Seq(all)) /\ Len(refs) = L + 1
  BY <1>1, RefsFacts
<1>5. RefsOf(long) \in Seq(Seq(all)) /\ Len(RefsOf(long)) = L + 2
  BY <1>1, RefsFacts
<1>6. \A i \in 1 .. L + 1 : refs[i] = SubSeq(path, 1, i - 1)
  BY DEF RefsOf
<1>7. \A i \in 1 .. L + 2 : RefsOf(long)[i] = SubSeq(long, 1, i - 1)
  <2>1. Len(long) + 1 = L + 2
    BY <1>1
  <2> HIDE DEF L
  <2> QED
    BY <2>1 DEF RefsOf
<1> HIDE DEF refs, L
<1>8. /\ Append(refs, long) \in Seq(Seq(all)) /\ Len(Append(refs, long)) = L + 2
      /\ Append(refs, long)[L + 2] = long /\ \A i \in 1 .. L + 1 : Append(refs, long)[i] = refs[i]
  <2>1. long \in Seq(all)
    BY <1>1
  <2>2. /\ Append(refs, long) \in Seq(Seq(all)) /\ Len(Append(refs, long)) = Len(refs) + 1
        /\ Append(refs, long)[Len(refs) + 1] = long /\ \A i \in 1 .. Len(refs) : Append(refs, long)[i] = refs[i]
    BY <1>4, <2>1, AppendProperties
  <2>3. (L + 1) + 1 = L + 2
    BY <1>1
  <2> QED
    BY <1>4, <2>2, <2>3
<1>9. ASSUME NEW i \in 1 .. L + 2
      PROVE  Append(refs, long)[i] = RefsOf(long)[i]
  <2>1. CASE i = L + 2
    <3>1. i - 1 = L + 1
      BY <1>1, <2>1
    <3> QED
      BY <1>3, <1>7, <1>8, <2>1, <3>1
  <2>2. CASE i # L + 2
    <3>1. i \in 1 .. L + 1 /\ i - 1 \in 0 .. L
      BY <1>1, <2>2
    <3> QED
      BY <1>2, <1>6, <1>7, <1>8, <3>1
  <2> QED
    BY <2>1, <2>2
<1> QED
  BY <1>5, <1>8, <1>9, SeqEqual DEF refs, long

LEMMA RefsFront ==
  ASSUME NEW S, NEW path \in Seq(S), path # <<>>
  PROVE  Front(RefsOf(path)) = RefsOf(Front(path))
<1> DEFINE L == Len(path) - 1
           short == Front(path)
<1>1. /\ L \in Nat /\ Len(path) = L + 1 /\ short = SubSeq(path, 1, L)
      /\ short \in Seq(S) /\ Len(short) = L
  <2>1. Len(path) \in Nat \ {0}
    BY EmptySeq
  <2>2. L \in Nat /\ Len(path) = L + 1
    BY <2>1
  <2>3. short = SubSeq(path, 1, L)
    BY DEF Front
  <2> QED
    BY <2>2, <2>3
<1>2. ASSUME NEW n \in 0 .. L
      PROVE  SubSeq(short, 1, n) = SubSeq(path, 1, n)
  BY <1>1
<1> DEFINE refs == RefsOf(path)
<1>3. refs \in Seq(Seq(S)) /\ Len(refs) = L + 2
  BY <1>1, RefsFacts
<1>4. \A i \in 1 .. L + 2 : refs[i] = SubSeq(path, 1, i - 1)
  <2>1. Len(path) + 1 = L + 2
    BY <1>1
  <2> HIDE DEF L
  <2> QED
    BY <2>1 DEF RefsOf
<1> HIDE DEF short, refs, L
<1>5. \A i \in 1 .. L + 1 : RefsOf(short)[i] = SubSeq(short, 1, i - 1)
  BY <1>1 DEF RefsOf
<1>6. RefsOf(short) \in Seq(Seq(S)) /\ Len(RefsOf(short)) = L + 1
  BY <1>1, RefsFacts
<1>7. Front(refs) = SubSeq(refs, 1, L + 1)
  BY <1>1, <1>3 DEF Front
<1>8. /\ Front(refs) \in Seq(Seq(S)) /\ Len(Front(refs)) = L + 1
      /\ \A i \in 1 .. L + 1 : Front(refs)[i] = refs[i]
  BY <1>1, <1>3, <1>7
<1>9. ASSUME NEW i \in 1 .. L + 1
      PROVE  Front(refs)[i] = RefsOf(short)[i]
  <2>1. i - 1 \in 0 .. L /\ i \in 1 .. L + 2
    BY <1>1
  <2> QED
    BY <1>2, <1>4, <1>5, <1>8, <2>1
<1> QED
  BY <1>6, <1>8, <1>9, SeqEqual DEF refs, short

-----------------------------------------------------------------------------
(* The builder.                                                            *)
LEMMA DomPath ==
  ASSUME NEW dom, NEW brackets \in Seq(BOOLEAN), DomOK(dom, brackets), brackets # <<>>
  PROVE  \E S, path : /\ path \in Seq(S) /\ Len(path) + 1 = Len(brackets) /\ Len(path) \in Nat
                      /\ Last(dom.refs) = path /\ dom.refs = RefsOf(path) /\ dom.refs # <<>>
                      /\ Chain(dom.root, path, brackets) /\ Holder(dom) = At(dom.root, path)
                      /\ Proper(Holder(dom), Last(brackets)) /\ Last(brackets) \in BOOLEAN
<1> DEFINE path == Last(dom.refs)
<1>1. IsSeq(path) /\ Len(path) + 1 = Len(brackets) /\ dom.refs = RefsOf(path) /\ Chain(dom.root, path, brackets)
  BY DEF DomOK
<1> HIDE DEF path
<1>2. PICK S : path \in Seq(S)
  BY <1>1, IsSeqFacts
<1>3. Len(path) \in Nat /\ RefsOf(path) # <<>>
  BY <1>2, RefsFacts
<1>4. Holder(dom) = At(dom.root, path)
  BY DEF Holder, path
<1>5. Proper(At(dom.root, path), Last(brackets))
  <2>1. SubSeq(path, 1, Len(path)) = path /\ Len(path) \in 0 .. Len(path)
    BY <1>2, <1>3, SubSeqFull
  <2>2. Proper(At(dom.root, SubSeq(path, 1, Len(path))), brackets[Len(path) + 1])
    BY <1>1, <2>1 DEF Chain
  <2> QED
    BY <1>1, <2>1, <2>2 DEF Last
<1>6. Last(brackets) \in BOOLEAN
  <2>1. Len(brackets) \in 1 .. Len(brackets)
    BY <1>1, <1>3
  <2> QED
    BY <2>1 DEF Last
<1> QED
  BY <1>1, <1>2, <1>3, <1>4, <1>5, <1>6 DEF path

LEMMA DomMade ==
  ASSUME NEW dom, IsDom(dom), NEW S, NEW path \in Seq(S), NEW brackets \in Seq(BOOLEAN),
         Len(path) + 1 = Len(brackets), dom.refs = RefsOf(path), Chain(dom.root, path, brackets)
  PROVE  DomOK(dom, brackets) /\ Last(dom.refs) = path
<1>1. Last(dom.refs) = path /\ Len(path) \in Nat
  BY RefsFacts
<1>2. brackets # <<>>
  BY <1>1
<1>3. IsSeq(path)
  BY SeqIsSeq
<1> QED
  BY <1>1, <1>2, <1>3 DEF DomOK

LEMMA HandleRecord ==
  ASSUME NEW dom, IsDom(dom), NEW v
  PROVE  LET made(root) == [root |-> root, refs |-> dom.refs, element |-> dom.element]
             elements == Append(Content(Holder(dom)), v)
         IN  HandleValue(dom, v) =
                IF dom.refs = <<>> THEN <<made(v), <<>> >>
                ELSE IF Type(Holder(dom)) = "array"
                THEN <<made(Put(dom.root, Last(dom.refs), Array(elements))),
                       Append(Last(dom.refs), Element(Len(elements)))>>
                ELSE <<made(Put(dom.root, dom.element, v)), dom.element>>
<1>1. dom = [root |-> dom.root, refs |-> dom.refs, element |-> dom.element]
  BY DEF IsDom
<1>2. ASSUME NEW x
      PROVE  [dom EXCEPT !.root = x] = [root |-> x, refs |-> dom.refs, element |-> dom.element]
  BY <1>1
<1> QED
  BY <1>2, Zenon DEF HandleValue

LEMMA StartRecord ==
  ASSUME NEW dom, NEW v, NEW root, NEW ref,
         HandleValue(dom, v) = <<[root |-> root, refs |-> dom.refs, element |-> dom.element], ref>>
  PROVE  StartContainer(dom, v) = [root |-> root, refs |-> Append(dom.refs, ref), element |-> dom.element]
<1> DEFINE d == [root |-> root, refs |-> dom.refs, element |-> dom.element]
           placed == HandleValue(dom, v)
<1>1. placed[1] = d /\ placed[2] = ref
  OBVIOUS
<1>2. \A f, e, g : [[root |-> root, refs |-> f, element |-> e] EXCEPT !.refs = g]
                     = [root |-> root, refs |-> g, element |-> e]
  OBVIOUS
<1>4. [d EXCEPT !.refs = Append(@, ref)] = [root |-> root, refs |-> Append(dom.refs, ref), element |-> dom.element]
  <2> DEFINE g == Append(dom.refs, ref)
  <2>2. d.refs = dom.refs
    OBVIOUS
  <2> HIDE DEF g, placed
  <2>1. [d EXCEPT !.refs = g] = [root |-> root, refs |-> g, element |-> dom.element]
    OBVIOUS
  <2> QED
    BY <2>1, <2>2 DEF g
<1>3. StartContainer(dom, v) = [placed[1] EXCEPT !.refs = Append(@, placed[2])]
  BY Zenon DEF StartContainer
<1> HIDE DEF d, placed
<1> QED
  BY <1>1, <1>3, <1>4

(* A container is placed and becomes the innermost.                        *)
LEMMA StartOK ==
  ASSUME NEW dom, NEW brackets \in Seq(BOOLEAN), DomOK(dom, brackets),
         brackets # <<>> /\ ~Last(brackets) => ElementOK(dom),
         NEW v, NEW array \in BOOLEAN, Proper(v, array)
  PROVE  DomOK(StartContainer(dom, v), Append(brackets, array))
<1> DEFINE new == StartContainer(dom, v)
           more == Append(brackets, array)
<1>1. IsDom(dom) /\ more \in Seq(BOOLEAN) /\ Len(more) = Len(brackets) + 1
  BY DEF DomOK
<1>2. CASE brackets = <<>>
  <2>1. dom.refs = <<>>
    BY <1>2 DEF DomOK
  <2>2. new = [root |-> v, refs |-> Append(<<>>, <<>>), element |-> dom.element]
    <3>1. HandleValue(dom, v) = <<[root |-> v, refs |-> dom.refs, element |-> dom.element], <<>> >>
      BY <1>1, <2>1, HandleRecord
    <3>2. new = [root |-> v, refs |-> Append(dom.refs, <<>>), element |-> dom.element]
      BY <3>1, StartRecord
    <3> QED
      BY <2>1, <3>2
  <2>3. Append(<<>>, <<>>) = RefsOf(<<>>) /\ <<>> \in Seq({}) /\ Len(<<>>) = 0
    <3>1. SubSeq(<<>>, 1, 0) = <<>>
      OBVIOUS
    <3>2. RefsOf(<<>>) = [i \in 1 .. 1 |-> <<>>]
      BY <3>1 DEF RefsOf
    <3>3. Append(<<>>, <<>>) = [i \in 1 .. 1 |-> <<>>]
      OBVIOUS
    <3> QED
      BY <3>2, <3>3
  <2>4. more = <<array>>
    BY <1>2
  <2>5. Chain(v, <<>>, more)
    <3>1. At(v, <<>>) = v /\ SubSeq(<<>>, 1, 0) = <<>> /\ more[1] = array
      BY <2>4, AtEmpty
    <3>2. SUFFICES ASSUME NEW n \in 0 .. 0
                   PROVE  /\ Proper(At(v, SubSeq(<<>>, 1, n)), more[n + 1])
                          /\ ~(n < 0)
      BY <2>3 DEF Chain
    <3>3. n = 0
      OBVIOUS
    <3> HIDE DEF more
    <3>4. n + 1 = 1 /\ ~(n < 0)
      BY <3>3
    <3>5. SubSeq(<<>>, 1, n) = <<>> /\ more[n + 1] = array
      BY <3>1, <3>3, <3>4
    <3> QED
      BY <3>1, <3>4, <3>5
  <2>6. IsDom(new) /\ new.refs = RefsOf(<<>>) /\ new.root = v
    BY <2>2, <2>3 DEF IsDom
  <2> HIDE DEF new, more
  <2>7. Len(<<>>) + 1 = Len(more)
    BY <1>1, <1>2, <2>3
  <2>8. DomOK(new, more)
    BY <1>1, <2>3, <2>5, <2>6, <2>7, DomMade
  <2> QED
    BY <2>8 DEF new, more
<1>3. CASE brackets # <<>>
  <2>1. PICK S, path : /\ path \in Seq(S) /\ Len(path) + 1 = Len(brackets) /\ Len(path) \in Nat
                       /\ Last(dom.refs) = path /\ dom.refs = RefsOf(path) /\ dom.refs # <<>>
                       /\ Chain(dom.root, path, brackets) /\ Holder(dom) = At(dom.root, path)
                       /\ Proper(Holder(dom), Last(brackets)) /\ Last(brackets) \in BOOLEAN
    BY <1>3, DomPath
  <2> DEFINE Placed(root, k) ==
                 /\ Chain(root, path, brackets)
                 /\ IsNewest(k, At(root, path), Last(brackets))
                 /\ At(root, Append(path, k)) = v
                 /\ new = [root |-> root, refs |-> Append(dom.refs, Append(path, k)), element |-> dom.element]
  <2>2. ASSUME NEW root, NEW k, Placed(root, k)
        PROVE  DomOK(new, more)
    <3> HIDE DEF new
    <3>1. IsDom(new) /\ new.root = root /\ new.refs = RefsOf(Append(path, k))
      BY <2>1, <2>2, RefsAppend DEF IsDom
    <3>2. Chain(root, Append(path, k), more)
      BY <2>1, <2>2, ChainExtend
    <3>3. Append(path, k) \in Seq(S \cup {k}) /\ Len(Append(path, k)) + 1 = Len(more)
      BY <1>1, <2>1, AppendFacts
    <3> HIDE DEF more
    <3> QED
      BY <1>1, <3>1, <3>2, <3>3, DomMade
  <2>3. CASE Last(brackets)
    <3> DEFINE c == Content(Holder(dom))
               elements == Append(c, v)
               root == Put(dom.root, path, Array(elements))
               k == Element(Len(elements))
    <3>1. Type(Holder(dom)) = "array" /\ IsSeq(c)
      BY <2>1, <2>3 DEF Proper
    <3>2. IsSeq(elements) /\ elements # <<>> /\ elements[Len(elements)] = v
      <4> HIDE DEF c
      <4> QED
        BY <3>1, IsSeqAppend
    <3> HIDE DEF elements
    <3>3. Proper(Array(elements), TRUE) /\ Content(Array(elements)) = elements
      BY <3>2 DEF Proper, Array, Type, Content
    <3>4. Chain(root, path, brackets)
      BY <2>1, <2>3, <3>3, ChainPut
    <3>5. At(root, path) = Array(elements)
      <4>1. Leads(dom.root, path)
        BY <2>1, ChainLeads
      <4> QED
        BY <2>1, <4>1, AtPut
    <3>6. At(root, Append(path, k)) = v
      <4>1. k[2] = Len(elements)
        BY DEF Element
      <4> HIDE DEF root, k
      <4>2. At(root, Append(path, k)) = Content(At(root, path))[k[2]]
        BY <2>1, AtAppend
      <4> QED
        BY <3>2, <3>3, <3>5, <4>1, <4>2
    <3>7. IsNewest(k, At(root, path), Last(brackets))
      BY <2>3, <3>2, <3>3, <3>5 DEF IsNewest
    <3>8. HandleValue(dom, v) =
             <<[root |-> root, refs |-> dom.refs, element |-> dom.element], Append(path, k)>>
      BY <1>1, <2>1, <3>1, HandleRecord DEF elements
    <3>9. new = [root |-> root, refs |-> Append(dom.refs, Append(path, k)), element |-> dom.element]
      <4> HIDE DEF root, k
      <4> QED
        BY <3>8, StartRecord
    <3> HIDE DEF root, k, new
    <3>10. Placed(root, k)
      BY <3>4, <3>6, <3>7, <3>9
    <3> QED
      BY <2>2, <3>10 DEF new
  <2>4. CASE ~Last(brackets)
    <3>1. PICK n \in DOMAIN Content(At(dom.root, path)) : dom.element = Append(path, Member(n))
      BY <1>3, <2>1, <2>4 DEF ElementOK
    <3> DEFINE k == Member(n)
               root == Put(dom.root, dom.element, v)
    <3>2. Type(Holder(dom)) # "array"
      BY <2>1, <2>4 DEF Proper
    <3>3. Chain(root, path, brackets) /\ At(root, Append(path, k)) = v /\ IsNewest(k, At(root, path), FALSE)
      <4>1. path \in Seq(S) /\ Len(path) + 1 = Len(brackets) /\ Chain(dom.root, path, brackets)
        BY <2>1
      <4>2. /\ n \in DOMAIN Content(At(dom.root, path)) /\ dom.element \in Seq(S \cup {Member(n)})
            /\ OneFurther(path, dom.element, Member(n))
        BY <3>1, <4>1, AppendFurther
      <4> HIDE DEF root
      <4>3. root = Put(dom.root, dom.element, v)
        BY DEF root
      <4>4. Chain(root, path, brackets) /\ At(root, dom.element) = v /\ IsNewest(Member(n), At(root, path), FALSE)
        <5>1. Chain(root, path, brackets)
          BY <2>4, <4>1, <4>2, <4>3, ChainFill
        <5>4. Leads(dom.root, dom.element)
          BY <2>4, <4>1, <4>2, <4>3, ChainFill
        <5>2. At(root, dom.element) = v
          BY <4>2, <5>4, PutThere DEF root
        <5>3. IsNewest(Member(n), At(root, path), FALSE)
          BY <2>4, <4>1, <4>2, <4>3, ChainFill
        <5> QED
          BY <5>1, <5>2, <5>3
      <4>5. dom.element = Append(path, k)
        BY <3>1
      <4> QED
        BY <4>4, <4>5
    <3>4. HandleValue(dom, v) =
             <<[root |-> root, refs |-> dom.refs, element |-> dom.element], Append(path, k)>>
      BY <1>1, <2>1, <3>1, <3>2, HandleRecord
    <3>5. new = [root |-> root, refs |-> Append(dom.refs, Append(path, k)), element |-> dom.element]
      <4> HIDE DEF root, k
      <4> QED
        BY <3>4, StartRecord
    <3>6. Last(brackets) = FALSE
      BY <2>1, <2>4
    <3> HIDE DEF root, k, new
    <3>7. Placed(root, k)
      BY <3>3, <3>5, <3>6
    <3> QED
      BY <2>2, <3>7 DEF new
  <2> QED
    BY <2>3, <2>4
<1> QED
  BY <1>2, <1>3

LEMMA FrontFacts ==
  ASSUME NEW S, NEW s \in Seq(S), s # <<>>
  PROVE  /\ Len(s) - 1 \in Nat /\ Front(s) \in Seq(S) /\ Len(Front(s)) = Len(s) - 1
         /\ \A i \in 1 .. Len(s) - 1 : Front(s)[i] = s[i]
<1>1. Len(s) \in Nat \ {0}
  BY EmptySeq
<1> DEFINE L == Len(s) - 1
<1>2. Front(s) = SubSeq(s, 1, L)
  BY DEF Front
<1>3. L \in Nat /\ Len(s) = L + 1
  BY <1>1
<1> HIDE DEF L
<1>4. /\ SubSeq(s, 1, L) \in Seq(S) /\ Len(SubSeq(s, 1, L)) = L
      /\ \A i \in 1 .. L : SubSeq(s, 1, L)[i] = s[i]
  BY <1>3
<1> QED
  BY <1>2, <1>3, <1>4 DEF L

LEMMA ScalarRecord ==
  ASSUME NEW dom, NEW v, NEW d, NEW ref, HandleValue(dom, v) = <<d, ref>>
  PROVE  Scalar(dom, v) = d
BY DEF Scalar

(* A value without content is placed.                                      *)
LEMMA ScalarOK ==
  ASSUME NEW dom, NEW brackets \in Seq(BOOLEAN), DomOK(dom, brackets),
         brackets # <<>> /\ ~Last(brackets) => ElementOK(dom), NEW v
  PROVE  DomOK(Scalar(dom, v), brackets)
<1> DEFINE new == Scalar(dom, v)
           Made(root) == [root |-> root, refs |-> dom.refs, element |-> dom.element]
<1>1. IsDom(dom)
  BY DEF DomOK
<1>2. CASE brackets = <<>>
  <2>1. dom.refs = <<>>
    BY <1>2 DEF DomOK
  <2>2. HandleValue(dom, v) = <<Made(v), <<>> >>
    BY <1>1, <2>1, HandleRecord
  <2>3. new = Made(v)
    BY <2>2, ScalarRecord
  <2>4. IsDom(new) /\ new.refs = <<>>
    BY <2>1, <2>3 DEF IsDom
  <2> QED
    BY <1>2, <2>4 DEF DomOK
<1>3. CASE brackets # <<>>
  <2>1. PICK S, path : /\ path \in Seq(S) /\ Len(path) + 1 = Len(brackets) /\ Len(path) \in Nat
                       /\ Last(dom.refs) = path /\ dom.refs = RefsOf(path) /\ dom.refs # <<>>
                       /\ Chain(dom.root, path, brackets) /\ Holder(dom) = At(dom.root, path)
                       /\ Proper(Holder(dom), Last(brackets)) /\ Last(brackets) \in BOOLEAN
    BY <1>3, DomPath
  <2>2. ASSUME NEW root, Chain(root, path, brackets), new = Made(root)
        PROVE  DomOK(new, brackets)
    <3> HIDE DEF new
    <3>1. IsDom(new) /\ new.root = root /\ new.refs = RefsOf(path)
      BY <2>1, <2>2 DEF IsDom
    <3> QED
      BY <2>1, <2>2, <3>1, DomMade
  <2>3. CASE Last(brackets)
    <3> DEFINE c == Content(Holder(dom))
               elements == Append(c, v)
               root == Put(dom.root, path, Array(elements))
    <3>1. Type(Holder(dom)) = "array" /\ IsSeq(c)
      BY <2>1, <2>3 DEF Proper
    <3>2. IsSeq(elements)
      <4> HIDE DEF c
      <4> QED
        BY <3>1, IsSeqAppend
    <3>3. HandleValue(dom, v) = <<Made(root), Append(path, Element(Len(elements)))>>
      BY <1>1, <2>1, <3>1, HandleRecord
    <3> HIDE DEF elements
    <3>4. Proper(Array(elements), TRUE)
      BY <3>2 DEF Proper, Array, Type, Content
    <3>5. Chain(root, path, brackets)
      BY <2>1, <2>3, <3>4, ChainPut
    <3>6. new = Made(root)
      <4> HIDE DEF root, Made
      <4> QED
        BY <3>3, ScalarRecord
    <3> HIDE DEF root, new, Made
    <3> QED
      BY <2>2, <3>5, <3>6 DEF new
  <2>4. CASE ~Last(brackets)
    <3>1. PICK n \in DOMAIN Content(At(dom.root, path)) : dom.element = Append(path, Member(n))
      BY <1>3, <2>1, <2>4 DEF ElementOK
    <3> DEFINE root == Put(dom.root, dom.element, v)
    <3>2. Type(Holder(dom)) # "array"
      BY <2>1, <2>4 DEF Proper
    <3>3. Chain(root, path, brackets)
      <4>1. path \in Seq(S) /\ Len(path) + 1 = Len(brackets) /\ Chain(dom.root, path, brackets)
        BY <2>1
      <4>2. /\ n \in DOMAIN Content(At(dom.root, path)) /\ dom.element \in Seq(S \cup {Member(n)})
            /\ OneFurther(path, dom.element, Member(n))
        BY <3>1, <4>1, AppendFurther
      <4> HIDE DEF root
      <4>3. root = Put(dom.root, dom.element, v)
        BY DEF root
      <4> QED
        BY <2>4, <4>1, <4>2, <4>3, ChainFill
    <3>4. HandleValue(dom, v) = <<Made(root), dom.element>>
      BY <1>1, <2>1, <3>2, HandleRecord
    <3>5. new = Made(root)
      <4> HIDE DEF root, Made
      <4> QED
        BY <3>4, ScalarRecord
    <3> HIDE DEF root, new, Made
    <3> QED
      BY <2>2, <3>3, <3>5 DEF new
  <2> QED
    BY <2>3, <2>4
<1> QED
  BY <1>2, <1>3

(* A member is named, for the next value.                                  *)
LEMMA KeyOK ==
  ASSUME NEW dom, NEW brackets \in Seq(BOOLEAN), DomOK(dom, brackets),
         brackets # <<>>, ~Last(brackets), NEW name
  PROVE  DomOK(Key(dom, name), brackets) /\ ElementOK(Key(dom, name))
<1> DEFINE new == Key(dom, name)
<1>1. IsDom(dom)
  BY DEF DomOK
<1>2. PICK S, path : /\ path \in Seq(S) /\ Len(path) + 1 = Len(brackets) /\ Len(path) \in Nat
                     /\ Last(dom.refs) = path /\ dom.refs = RefsOf(path) /\ dom.refs # <<>>
                     /\ Chain(dom.root, path, brackets) /\ Holder(dom) = At(dom.root, path)
                     /\ Proper(Holder(dom), Last(brackets)) /\ Last(brackets) \in BOOLEAN
  BY DomPath
<1> DEFINE f == WithName(Content(Holder(dom)), name)
           root == Put(dom.root, path, Object(f))
           element == Append(path, Member(name))
<1>3. new = [root |-> root, refs |-> dom.refs, element |-> element]
  <2>1. dom = [root |-> dom.root, refs |-> dom.refs, element |-> dom.element]
    BY <1>1 DEF IsDom
  <2>3. ASSUME NEW x, NEW y
        PROVE  [dom EXCEPT !.root = x, !.element = y] = [root |-> x, refs |-> dom.refs, element |-> y]
    <3> DEFINE d == [dom EXCEPT !.root = x]
    <3>1. d = [root |-> x, refs |-> dom.refs, element |-> dom.element]
      BY <2>1
    <3> HIDE DEF d
    <3>2. [d EXCEPT !.element = y] = [root |-> x, refs |-> dom.refs, element |-> y]
      BY <3>1
    <3> QED
      BY <3>2 DEF d
  <2> HIDE DEF f
  <2>4. new = [dom EXCEPT !.root = root, !.element = element]
    BY <1>2 DEF Key, f
  <2> HIDE DEF root, element, new
  <2> QED
    BY <2>3, <2>4
<1>4. Content(Object(f)) = f /\ Type(Object(f)) = "object" /\ name \in DOMAIN f
  BY DEF Object, Content, Type, WithName
<1> HIDE DEF f
<1>5. Proper(Object(f), Last(brackets))
  BY <1>4 DEF Proper
<1>6. Chain(root, path, brackets)
  BY <1>2, <1>5, ChainPut
<1>7. At(root, path) = Object(f)
  <2>1. Leads(dom.root, path)
    BY <1>2, ChainLeads
  <2> QED
    BY <1>2, <2>1, PutThere
<1> HIDE DEF root, new, element
<1>8. IsDom(new) /\ new.root = root /\ new.refs = RefsOf(path) /\ new.element = element
  BY <1>2, <1>3 DEF IsDom
<1>9. DomOK(new, brackets) /\ Last(new.refs) = path
  BY <1>2, <1>6, <1>8, DomMade
<1>10. Holder(new) = Object(f)
  BY <1>7, <1>8, <1>9 DEF Holder
<1>11. ElementOK(new)
  BY <1>4, <1>8, <1>9, <1>10 DEF ElementOK, element
<1> QED
  BY <1>9, <1>11 DEF new

(* The innermost container is closed.                                      *)
LEMMA EndOK ==
  ASSUME NEW dom, NEW brackets \in Seq(BOOLEAN), DomOK(dom, brackets), brackets # <<>>
  PROVE  DomOK(EndContainer(dom), Front(brackets))
<1> DEFINE new == EndContainer(dom)
           fewer == Front(brackets)
<1>1. IsDom(dom)
  BY DEF DomOK
<1>2. PICK S, path : /\ path \in Seq(S) /\ Len(path) + 1 = Len(brackets) /\ Len(path) \in Nat
                     /\ Last(dom.refs) = path /\ dom.refs = RefsOf(path) /\ dom.refs # <<>>
                     /\ Chain(dom.root, path, brackets) /\ Holder(dom) = At(dom.root, path)
                     /\ Proper(Holder(dom), Last(brackets)) /\ Last(brackets) \in BOOLEAN
  BY DomPath
<1>3. new = [root |-> dom.root, refs |-> Front(dom.refs), element |-> dom.element]
  <2>1. dom = [root |-> dom.root, refs |-> dom.refs, element |-> dom.element]
    BY <1>1 DEF IsDom
  <2>2. \A r, f, e, x : [[root |-> r, refs |-> f, element |-> e] EXCEPT !.refs = x]
                        = [root |-> r, refs |-> x, element |-> e]
    OBVIOUS
  <2>3. ASSUME NEW x
        PROVE  [dom EXCEPT !.refs = x] = [root |-> dom.root, refs |-> x, element |-> dom.element]
    BY <2>1, <2>2
  <2>4. new = [dom EXCEPT !.refs = Front(dom.refs)]
    BY DEF EndContainer
  <2> HIDE DEF new
  <2> QED
    BY <2>3, <2>4
<1>4. fewer \in Seq(BOOLEAN) /\ Len(fewer) + 1 = Len(brackets)
  <2>1. Len(brackets) - 1 \in Nat /\ fewer \in Seq(BOOLEAN) /\ Len(fewer) = Len(brackets) - 1
    BY FrontFacts
  <2> HIDE DEF fewer
  <2> QED
    BY <2>1
<1> HIDE DEF new, fewer
<1>5. CASE path = <<>>
  <2>5. Len(path) = 0
    BY <1>5
  <2>1. Len(dom.refs) = 1 /\ dom.refs \in Seq(Seq(S))
    <3>1. RefsOf(path) \in Seq(Seq(S)) /\ Len(RefsOf(path)) = Len(path) + 1
      BY <1>2, RefsFacts
    <3> QED
      BY <1>2, <2>5, <3>1
  <2>2. Front(dom.refs) = <<>>
    BY <2>1 DEF Front
  <2>3. fewer = <<>>
    <3>2. Len(brackets) = 1
      BY <1>2, <2>5
    <3>1. Len(fewer) = 0
      BY <1>4, <3>2
    <3> QED
      BY <1>4, <3>1
  <2>4. IsDom(new) /\ new.refs = <<>>
    BY <1>3, <2>2 DEF IsDom
  <2> QED
    BY <2>3, <2>4 DEF DomOK, new, fewer
<1>6. CASE path # <<>>
  <2>1. Front(path) \in Seq(S) /\ Len(Front(path)) + 1 = Len(path)
    <3>1. Len(path) - 1 \in Nat /\ Front(path) \in Seq(S) /\ Len(Front(path)) = Len(path) - 1
      BY <1>2, <1>6, FrontFacts
    <3> QED
      BY <3>1
  <2>2. Front(dom.refs) = RefsOf(Front(path))
    BY <1>2, <1>6, RefsFront
  <2>3. Chain(dom.root, Front(path), fewer)
    BY <1>2, <1>6, ChainShorten DEF fewer
  <2>4. IsDom(new) /\ new.root = dom.root /\ new.refs = RefsOf(Front(path))
    BY <1>3, <2>2 DEF IsDom
  <2>5. Len(Front(path)) + 1 = Len(fewer)
    BY <1>2, <1>4, <2>1
  <2>6. DomOK(new, fewer)
    BY <1>4, <2>1, <2>3, <2>4, <2>5, DomMade
  <2> QED
    BY <2>6 DEF new, fewer
<1> QED
  BY <1>5, <1>6

-----------------------------------------------------------------------------
(* The parser.  What its steps change of the record.                       *)
SameBut(q, p, at, states, dom) ==
    IsParser(q) /\ q.lexer = p.lexer /\ q.at = at /\ q.states = states /\ q.dom = dom

LEMMA ParserFields ==
  ASSUME NEW p, IsParser(p), NEW x
  PROVE  /\ SameBut([p EXCEPT !.at = x], p, x, p.states, p.dom)
         /\ SameBut([p EXCEPT !.states = x], p, p.at, x, p.dom)
         /\ SameBut([p EXCEPT !.dom = x], p, p.at, p.states, x)
         /\ SameBut([p EXCEPT !.error = x], p, p.at, p.states, p.dom)
         /\ LET q == [p EXCEPT !.lexer = x]
            IN  IsParser(q) /\ q.at = p.at /\ q.states = p.states /\ q.dom = p.dom
<1>1. p = [lexer |-> p.lexer, at |-> p.at, states |-> p.states, dom |-> p.dom, error |-> p.error]
  BY DEF IsParser
<1>2. SameBut([p EXCEPT !.at = x], p, x, p.states, p.dom)
  BY <1>1 DEF SameBut, IsParser
<1>3. SameBut([p EXCEPT !.states = x], p, p.at, x, p.dom)
  BY <1>1 DEF SameBut, IsParser
<1>4. SameBut([p EXCEPT !.dom = x], p, p.at, p.states, x)
  BY <1>1 DEF SameBut, IsParser
<1>5. SameBut([p EXCEPT !.error = x], p, p.at, p.states, p.dom)
  BY <1>1 DEF SameBut, IsParser
<1>6. LET q == [p EXCEPT !.lexer = x]
      IN  IsParser(q) /\ q.at = p.at /\ q.states = p.states /\ q.dom = p.dom
  BY <1>1 DEF SameBut, IsParser
<1> QED
  BY <1>2, <1>3, <1>4, <1>5, <1>6

LEMMA AwaitFields ==
  ASSUME NEW p, IsParser(p), NEW at
  PROVE  SameBut(Await(p, at), p, at, p.states, p.dom)
BY ParserFields DEF Await

LEMMA BuildFields ==
  ASSUME NEW p, IsParser(p), NEW dom
  PROVE  SameBut(Build(p, dom), p, p.at, p.states, dom)
BY ParserFields DEF Build

LEMMA PushFields ==
  ASSUME NEW p, IsParser(p), NEW state
  PROVE  SameBut(Push(p, state), p, p.at, Append(p.states, state), p.dom)
BY ParserFields DEF Push

LEMMA PopFields ==
  ASSUME NEW p, IsParser(p)
  PROVE  SameBut(Pop(p), p, p.at, Front(p.states), EndContainer(p.dom))
<1> DEFINE q == [p EXCEPT !.states = Front(p.states)]
<1>1. SameBut(q, p, p.at, Front(p.states), p.dom)
  BY ParserFields
<1>2. Pop(p) = [q EXCEPT !.dom = EndContainer(p.dom)]
  <2>1. p = [lexer |-> p.lexer, at |-> p.at, states |-> p.states, dom |-> p.dom, error |-> p.error]
    BY DEF IsParser
  <2> QED
    BY <2>1 DEF Pop
<1> HIDE DEF q
<1>3. IsParser(q)
  BY <1>1 DEF SameBut
<1>4. SameBut([q EXCEPT !.dom = EndContainer(p.dom)], q, q.at, q.states, EndContainer(p.dom))
  BY <1>3, ParserFields
<1> QED
  BY <1>1, <1>2, <1>4 DEF SameBut

LEMMA ThrowOK ==
  ASSUME NEW p, IsParser(p), p.states \in Seq(BOOLEAN), NEW id
  PROVE  ParserInv(Throw(p, id))
<1> DEFINE q == [p EXCEPT !.at = "error"]
<1>1. SameBut(q, p, "error", p.states, p.dom)
  BY ParserFields
<1>2. Throw(p, id) = [q EXCEPT !.error = id]
  <2>1. p = [lexer |-> p.lexer, at |-> p.at, states |-> p.states, dom |-> p.dom, error |-> p.error]
    BY DEF IsParser
  <2> QED
    BY <2>1 DEF Throw
<1> HIDE DEF q
<1>3. SameBut([q EXCEPT !.error = id], q, q.at, q.states, q.dom)
  <2>1. IsParser(q)
    BY <1>1 DEF SameBut
  <2> QED
    BY <2>1, ParserFields, Zenon
<1> QED
  BY <1>1, <1>2, <1>3 DEF SameBut, ParserInv, Waits

LEMMA SyntaxErrorOK ==
  ASSUME NEW p, IsParser(p), p.states \in Seq(BOOLEAN)
  PROVE  ParserInv(SyntaxError(p))
BY ThrowOK DEF SyntaxError

LEMMA AwaitOK ==
  ASSUME NEW p, IsParser(p), p.states \in Seq(BOOLEAN), NEW at \in Waits, Waiting(at, p.states, p.dom)
  PROVE  ParserInv(Await(p, at))
BY AwaitFields DEF ParserInv, SameBut

(* The state is left when a value is complete.                             *)
LEMMA EvaluateOK ==
  ASSUME NEW p, IsParser(p), p.states \in Seq(BOOLEAN), DomOK(p.dom, p.states)
  PROVE  ParserInv(Evaluate(p))
<1> DEFINE at == IF p.states = <<>> THEN "end" ELSE "after"
<1>1. at \in Waits /\ Stack(at, p.states) = p.states
  BY DEF Waits, Stack
<1>2. Waiting(at, p.states, p.dom)
  BY <1>1 DEF Waiting
<1>3. ParserInv(Await(p, at))
  BY <1>1, <1>2, AwaitOK
<1> QED
  BY <1>3 DEF Evaluate

(* The builder is where a value may come.                                  *)
Receptive(dom, states) ==
    DomOK(dom, states) /\ (states # <<>> /\ ~Last(states) => ElementOK(dom))

LEMMA ValueOK ==
  ASSUME NEW p, IsParser(p), p.states \in Seq(BOOLEAN), Receptive(p.dom, p.states)
  PROVE  ParserInv(Value(p))
<1>1. ASSUME NEW dom, NEW at \in {"first_key", "first_element"},
             DomOK(dom, Append(p.states, at = "first_element"))
      PROVE  ParserInv(Await(Build(p, dom), at))
  <2> DEFINE q == Build(p, dom)
  <2>1. SameBut(q, p, p.at, p.states, dom)
    BY BuildFields
  <2> HIDE DEF q
  <2>2. IsParser(q) /\ q.states = p.states /\ q.dom = dom
    BY <2>1 DEF SameBut
  <2>3. at \in Waits /\ Stack(at, p.states) = Append(p.states, at = "first_element")
        /\ at \notin {"after", "key", "separator", "value", "first_separator"}
    BY DEF Waits, Stack
  <2>4. Waiting(at, p.states, dom)
    BY <1>1, <2>3 DEF Waiting
  <2> QED
    BY <2>2, <2>3, <2>4, AwaitOK DEF q
<1>2. CASE p.lexer.token = "begin_object"
  <2>1. Proper(Object(<<>>), FALSE)
    BY DEF Proper, Object, Type
  <2>2. DomOK(StartObject(p.dom), Append(p.states, FALSE))
    BY <2>1, StartOK DEF StartObject, Receptive
  <2>3. ("first_key" = "first_element") = FALSE
    OBVIOUS
  <2>4. ParserInv(Await(Build(p, StartObject(p.dom)), "first_key"))
    BY <1>1, <2>2, <2>3
  <2>5. Value(p) = Await(Build(p, StartObject(p.dom)), "first_key")
    BY <1>2 DEF Value, Scalars
  <2> QED
    BY <2>4, <2>5
<1>3. CASE p.lexer.token = "begin_array"
  <2>1. Proper(Array(<<>>), TRUE)
    <3>1. <<>> \in Seq({})
      OBVIOUS
    <3>2. IsSeq(<<>>)
      BY <3>1, SeqIsSeq
    <3> QED
      BY <3>2 DEF Proper, Array, Type, Content
  <2>2. DomOK(StartArray(p.dom), Append(p.states, TRUE))
    BY <2>1, StartOK DEF StartArray, Receptive
  <2>3. ("first_element" = "first_element") = TRUE
    OBVIOUS
  <2>4. ParserInv(Await(Build(p, StartArray(p.dom)), "first_element"))
    BY <1>1, <2>2, <2>3
  <2>5. Value(p) = Await(Build(p, StartArray(p.dom)), "first_element")
    BY <1>3 DEF Value, Scalars
  <2> QED
    BY <2>4, <2>5
<1>4. ASSUME NEW v
      PROVE  ParserInv(Place(p, v))
  <2>1. CASE Type(v) = "float" /\ Content(v).exp = Infinite
    BY <2>1, ThrowOK DEF Place
  <2>2. CASE ~(Type(v) = "float" /\ Content(v).exp = Infinite)
    <3> DEFINE q == Build(p, Scalar(p.dom, v))
    <3>1. SameBut(q, p, p.at, p.states, Scalar(p.dom, v))
      BY BuildFields
    <3>2. DomOK(Scalar(p.dom, v), p.states)
      BY ScalarOK DEF Receptive
    <3> HIDE DEF q
    <3>3. ParserInv(Evaluate(q))
      BY <3>1, <3>2, EvaluateOK DEF SameBut
    <3>4. Place(p, v) = Evaluate(q)
      BY <2>2 DEF Place, q
    <3> QED
      BY <3>3, <3>4
  <2> QED
    BY <2>1, <2>2
<1>5. CASE p.lexer.token \in Scalars
  <2>1. Value(p) = Place(p, ScalarOf(p.lexer))
    BY <1>5 DEF Value, Scalars
  <2> QED
    BY <1>4, <2>1
<1>6. CASE p.lexer.token \notin Scalars \cup {"begin_object", "begin_array"}
  <2>1. Value(p) = SyntaxError(p)
    BY <1>6 DEF Value
  <2> QED
    BY <2>1, SyntaxErrorOK
<1> QED
  BY <1>2, <1>3, <1>5, <1>6

LEMMA FrontOfAppend ==
  ASSUME NEW S, NEW s \in Seq(S), NEW x
  PROVE  Front(Append(s, x)) = s
<1> DEFINE t == Append(s, x)
           f == Front(t)
           all == S \cup {x}
<1>1. t \in Seq(all) /\ Len(t) = Len(s) + 1 /\ \A i \in 1 .. Len(s) : t[i] = s[i]
  BY AppendFacts
<1>2. s \in Seq(all) /\ Len(s) \in Nat
  BY SeqMonotonic
<1> HIDE DEF t, all
<1>3. t # <<>>
  BY <1>1, <1>2, EmptySeq
<1>4. /\ f \in Seq(all) /\ Len(f) = Len(t) - 1
      /\ \A i \in 1 .. Len(t) - 1 : f[i] = t[i]
  BY <1>1, <1>3, FrontFacts
<1> HIDE DEF f
<1>5. Len(f) = Len(s) /\ \A i \in 1 .. Len(f) : f[i] = s[i]
  BY <1>1, <1>2, <1>4
<1>6. f = s
  BY <1>2, <1>4, <1>5, SeqEqual
<1> QED
  BY <1>6 DEF f, t

LEMMA LastOfAppend ==
  ASSUME NEW s \in Seq(BOOLEAN), NEW b \in BOOLEAN
  PROVE  /\ Append(s, b) \in Seq(BOOLEAN) /\ Append(s, b) # <<>>
         /\ Last(Append(s, b)) = b /\ Front(Append(s, b)) = s
<1>1. Append(s, b) \in Seq(BOOLEAN) /\ Append(s, b) # <<>>
  BY AppendProperties
<1>2. Last(Append(s, b)) = b
  BY AppendProperties DEF Last
<1>3. Front(Append(s, b)) = s
  BY FrontOfAppend
<1> QED
  BY <1>1, <1>2, <1>3

(* A container that is opened and closed at once.                          *)
LEMMA CloseOK ==
  ASSUME NEW p, IsParser(p), p.states \in Seq(BOOLEAN), NEW b \in BOOLEAN,
         DomOK(p.dom, Append(p.states, b))
  PROVE  ParserInv(Evaluate(Build(p, EndContainer(p.dom))))
<1> DEFINE q == Build(p, EndContainer(p.dom))
<1>1. SameBut(q, p, p.at, p.states, EndContainer(p.dom))
  BY BuildFields
<1>2. Append(p.states, b) \in Seq(BOOLEAN) /\ Append(p.states, b) # <<>> /\ Front(Append(p.states, b)) = p.states
  BY LastOfAppend
<1>3. DomOK(EndContainer(p.dom), p.states)
  BY <1>2, EndOK
<1> HIDE DEF q
<1>4. ParserInv(Evaluate(q))
  BY <1>1, <1>3, EvaluateOK DEF SameBut
<1> QED
  BY <1>4 DEF q

LEMMA FirstElementOK ==
  ASSUME NEW p, IsParser(p), p.states \in Seq(BOOLEAN), DomOK(p.dom, Append(p.states, TRUE))
  PROVE  ParserInv(FirstElement(p))
<1>1. CASE p.lexer.token = "end_array"
  <2>1. ParserInv(Evaluate(Build(p, EndContainer(p.dom))))
    BY CloseOK
  <2> QED
    BY <1>1, <2>1 DEF FirstElement
<1>2. CASE p.lexer.token # "end_array"
  <2> DEFINE q == Push(p, TRUE)
  <2>1. SameBut(q, p, p.at, Append(p.states, TRUE), p.dom)
    BY PushFields
  <2>2. Append(p.states, TRUE) \in Seq(BOOLEAN) /\ Last(Append(p.states, TRUE))
    BY LastOfAppend
  <2> HIDE DEF q
  <2>3. IsParser(q) /\ q.states \in Seq(BOOLEAN) /\ Receptive(q.dom, q.states)
    BY <2>1, <2>2 DEF SameBut, Receptive
  <2>4. ParserInv(Value(q))
    BY <2>3, ValueOK
  <2> QED
    BY <1>2, <2>4 DEF FirstElement, q
<1> QED
  BY <1>1, <1>2

(* After the name of a member its separator is awaited.                    *)
LEMMA ObjectKeyOK ==
  ASSUME NEW p, IsParser(p), p.states \in Seq(BOOLEAN),
         NEW next \in {"first_separator", "separator"},
         next = "separator" => p.states # <<>> /\ ~Last(p.states),
         DomOK(p.dom, Stack(next, p.states))
  PROVE  ParserInv(ObjectKey(p, next))
<1>1. CASE p.lexer.token = "value_string"
  <2> DEFINE dom == Key(p.dom, p.lexer.buffer)
             q == Build(p, dom)
             brackets == Stack(next, p.states)
  <2>1. brackets \in Seq(BOOLEAN) /\ brackets # <<>> /\ ~Last(brackets)
    <3>1. CASE next = "separator"
      BY <3>1 DEF Stack
    <3>2. CASE next = "first_separator"
      <4>1. brackets = Append(p.states, FALSE)
        BY <3>2 DEF Stack
      <4> QED
        BY <4>1, LastOfAppend
    <3> QED
      BY <3>1, <3>2
  <2> HIDE DEF brackets
  <2>2. DomOK(dom, brackets) /\ ElementOK(dom)
    <3>1. DomOK(p.dom, brackets)
      BY DEF brackets
    <3> QED
      BY <2>1, <3>1, KeyOK
  <2>3. SameBut(q, p, p.at, p.states, dom)
    BY BuildFields
  <2> HIDE DEF q, dom
  <2>4. Waiting(next, p.states, dom) /\ next \in Waits
    BY <2>1, <2>2 DEF Waiting, brackets, Waits
  <2>5. ParserInv(Await(q, next))
    BY <2>3, <2>4, AwaitOK DEF SameBut
  <2> QED
    BY <1>1, <2>5 DEF ObjectKey, q, dom
<1>2. CASE p.lexer.token # "value_string"
  BY <1>2, SyntaxErrorOK DEF ObjectKey
<1> QED
  BY <1>1, <1>2

LEMMA FirstKeyOK ==
  ASSUME NEW p, IsParser(p), p.states \in Seq(BOOLEAN), DomOK(p.dom, Append(p.states, FALSE))
  PROVE  ParserInv(FirstKey(p))
<1>1. CASE p.lexer.token = "end_object"
  <2>1. ParserInv(Evaluate(Build(p, EndContainer(p.dom))))
    BY CloseOK
  <2> QED
    BY <1>1, <2>1 DEF FirstKey
<1>2. CASE p.lexer.token # "end_object"
  <2>1. Stack("first_separator", p.states) = Append(p.states, FALSE)
    BY DEF Stack
  <2>2. ParserInv(ObjectKey(p, "first_separator"))
    BY <2>1, ObjectKeyOK
  <2> QED
    BY <1>2, <2>2 DEF FirstKey
<1> QED
  BY <1>1, <1>2

(* After the separator of a member its value is awaited.                   *)
LEMMA SeparatorOK ==
  ASSUME NEW p, IsParser(p), p.states \in Seq(BOOLEAN), DomOK(p.dom, p.states),
         p.lexer.token = "name_separator" => p.states # <<>> /\ ~Last(p.states) /\ ElementOK(p.dom)
  PROVE  ParserInv(Separator(p))
<1>1. CASE p.lexer.token = "name_separator"
  <2>1. Waiting("value", p.states, p.dom) /\ "value" \in Waits
    BY <1>1 DEF Waiting, Waits, Stack
  <2>2. ParserInv(Await(p, "value"))
    BY <2>1, AwaitOK
  <2> QED
    BY <1>1, <2>2 DEF Separator
<1>2. CASE p.lexer.token # "name_separator"
  BY <1>2, SyntaxErrorOK DEF Separator
<1> QED
  BY <1>1, <1>2

LEMMA FirstSeparatorOK ==
  ASSUME NEW p, IsParser(p), p.states \in Seq(BOOLEAN), DomOK(p.dom, Append(p.states, FALSE)),
         ElementOK(p.dom)
  PROVE  ParserInv(FirstSeparator(p))
<1>1. CASE p.lexer.token = "name_separator"
  <2> DEFINE q == Push(p, FALSE)
  <2>1. SameBut(q, p, p.at, Append(p.states, FALSE), p.dom)
    BY PushFields
  <2>2. Append(p.states, FALSE) \in Seq(BOOLEAN) /\ Append(p.states, FALSE) # <<>> /\ ~Last(Append(p.states, FALSE))
    BY LastOfAppend
  <2> HIDE DEF q
  <2>3. ParserInv(Separator(q))
    BY <2>1, <2>2, SeparatorOK DEF SameBut
  <2> QED
    BY <1>1, <2>3 DEF FirstSeparator, q
<1>2. CASE p.lexer.token # "name_separator"
  BY <1>2, SyntaxErrorOK DEF FirstSeparator, Separator
<1> QED
  BY <1>1, <1>2

LEMMA AfterOK ==
  ASSUME NEW p, IsParser(p), p.states \in Seq(BOOLEAN), p.states # <<>>, DomOK(p.dom, p.states)
  PROVE  ParserInv(After(p))
<1> DEFINE array == Last(p.states)
           close == IF array THEN "end_array" ELSE "end_object"
<1>1. CASE p.lexer.token = "value_separator"
  <2> DEFINE at == IF array THEN "value" ELSE "key"
  <2>1. Waiting(at, p.states, p.dom) /\ at \in Waits
    BY DEF Waiting, Waits, Stack
  <2>2. ParserInv(Await(p, at))
    BY <2>1, AwaitOK
  <2> QED
    BY <1>1, <2>2 DEF After
<1>2. CASE p.lexer.token = close
  <2> DEFINE q == Pop(p)
  <2>1. SameBut(q, p, p.at, Front(p.states), EndContainer(p.dom))
    BY PopFields
  <2>2. Front(p.states) \in Seq(BOOLEAN)
    BY FrontFacts
  <2>3. DomOK(EndContainer(p.dom), Front(p.states))
    BY EndOK
  <2> HIDE DEF q
  <2>4. ParserInv(Evaluate(q))
    BY <2>1, <2>2, <2>3, EvaluateOK DEF SameBut
  <2>5. After(p) = Evaluate(q)
    BY <1>2 DEF After, q
  <2> QED
    BY <2>4, <2>5
<1>3. CASE p.lexer.token # "value_separator" /\ p.lexer.token # close
  <2>1. After(p) = SyntaxError(p)
    BY <1>3 DEF After
  <2> QED
    BY <2>1, SyntaxErrorOK
<1> QED
  BY <1>1, <1>2, <1>3

LEMMA AcceptOK ==
  ASSUME NEW p, IsParser(p), p.states \in Seq(BOOLEAN)
  PROVE  ParserInv(End(p))
<1>1. CASE p.lexer.token = "end_of_input"
  <2>1. SameBut(Await(p, "accepted"), p, "accepted", p.states, p.dom)
    BY AwaitFields
  <2>2. ParserInv(Await(p, "accepted"))
    BY <2>1 DEF SameBut, ParserInv, Waits
  <2> QED
    BY <1>1, <2>2 DEF End
<1>2. CASE p.lexer.token # "end_of_input"
  BY <1>2, SyntaxErrorOK DEF End
<1> QED
  BY <1>1, <1>2

(* The lexer is no part of what the invariant speaks of.                   *)
LEMMA LexerOK ==
  ASSUME NEW p, ParserInv(p), NEW x
  PROVE  LET q == [p EXCEPT !.lexer = x]
         IN  ParserInv(q) /\ q.at = p.at
<1> DEFINE q == [p EXCEPT !.lexer = x]
<1>1. IsParser(q) /\ q.at = p.at /\ q.states = p.states /\ q.dom = p.dom
  BY ParserFields DEF ParserInv
<1> HIDE DEF q
<1>2. ParserInv(q) /\ q.at = p.at
  BY <1>1 DEF ParserInv
<1> QED
  BY <1>2 DEF q

LEMMA RequestOK ==
  ASSUME NEW p, ParserInv(p)
  PROVE  ParserInv(Request(p))
<1>1. ParserInv([p EXCEPT !.lexer = NextToken(p.lexer)])
  BY LexerOK
<1> QED
  BY <1>1 DEF Request

LEMMA TakeOK ==
  ASSUME NEW p, ParserInv(p), p.at \in Waits
  PROVE  ParserInv(Take(p))
<1>1. IsParser(p) /\ p.states \in Seq(BOOLEAN) /\ Waiting(p.at, p.states, p.dom)
  BY DEF ParserInv
<1>2. CASE p.at = "value"
  <2>1. Receptive(p.dom, p.states)
    BY <1>1, <1>2 DEF Waiting, Stack, Receptive
  <2>2. ParserInv(Request(Value(p)))
    BY <1>1, <2>1, ValueOK, RequestOK
  <2>3. Take(p) = Request(Value(p))
    BY <1>2 DEF Take
  <2> QED
    BY <2>2, <2>3
<1>3. CASE p.at = "first_element"
  <2>1. DomOK(p.dom, Append(p.states, TRUE))
    <3>1. Stack(p.at, p.states) = Append(p.states, TRUE)
      BY <1>3 DEF Stack
    <3> QED
      BY <1>1, <3>1 DEF Waiting
  <2>2. ParserInv(Request(FirstElement(p)))
    BY <1>1, <2>1, FirstElementOK, RequestOK
  <2>3. Take(p) = Request(FirstElement(p))
    BY <1>3 DEF Take
  <2> QED
    BY <2>2, <2>3
<1>4. CASE p.at = "first_key"
  <2>1. DomOK(p.dom, Append(p.states, FALSE))
    <3>1. Stack(p.at, p.states) = Append(p.states, FALSE)
      BY <1>4 DEF Stack
    <3> QED
      BY <1>1, <3>1 DEF Waiting
  <2>2. ParserInv(Request(FirstKey(p)))
    BY <1>1, <2>1, FirstKeyOK, RequestOK
  <2>3. Take(p) = Request(FirstKey(p))
    BY <1>4 DEF Take
  <2> QED
    BY <2>2, <2>3
<1>5. CASE p.at = "first_separator"
  <2>1. DomOK(p.dom, Append(p.states, FALSE)) /\ ElementOK(p.dom)
    <3>1. Stack(p.at, p.states) = Append(p.states, FALSE)
      BY <1>5 DEF Stack
    <3>2. Append(p.states, FALSE) # <<>> /\ ~Last(Append(p.states, FALSE))
      BY <1>1, LastOfAppend
    <3> QED
      BY <1>1, <1>5, <3>1, <3>2 DEF Waiting
  <2>2. ParserInv(Request(FirstSeparator(p)))
    BY <1>1, <2>1, FirstSeparatorOK, RequestOK
  <2>3. Take(p) = Request(FirstSeparator(p))
    BY <1>5 DEF Take
  <2> QED
    BY <2>2, <2>3
<1>6. CASE p.at = "after"
  <2>1. DomOK(p.dom, p.states) /\ p.states # <<>>
    BY <1>1, <1>6 DEF Waiting, Stack
  <2>2. ParserInv(Request(After(p)))
    BY <1>1, <2>1, AfterOK, RequestOK
  <2>3. Take(p) = Request(After(p))
    BY <1>6 DEF Take
  <2> QED
    BY <2>2, <2>3
<1>7. CASE p.at = "key"
  <2>1. DomOK(p.dom, Stack("separator", p.states)) /\ p.states # <<>> /\ ~Last(p.states)
    BY <1>1, <1>7 DEF Waiting, Stack
  <2>2. ParserInv(Request(ObjectKey(p, "separator")))
    BY <1>1, <2>1, ObjectKeyOK, RequestOK
  <2>3. Take(p) = Request(ObjectKey(p, "separator"))
    BY <1>7 DEF Take
  <2> QED
    BY <2>2, <2>3
<1>8. CASE p.at = "separator"
  <2>1. DomOK(p.dom, p.states) /\ p.states # <<>> /\ ~Last(p.states) /\ ElementOK(p.dom)
    BY <1>1, <1>8 DEF Waiting, Stack
  <2>2. ParserInv(Request(Separator(p)))
    BY <1>1, <2>1, SeparatorOK, RequestOK
  <2>3. Take(p) = Request(Separator(p))
    BY <1>8 DEF Take
  <2> QED
    BY <2>2, <2>3
<1>9. CASE p.at = "end"
  <2>1. ParserInv(Request(End(p)))
    BY <1>1, AcceptOK, RequestOK
  <2>2. Take(p) = Request(End(p))
    BY <1>9 DEF Take
  <2> QED
    BY <2>1, <2>2
<1> QED
  BY <1>2, <1>3, <1>4, <1>5, <1>6, <1>7, <1>8, <1>9 DEF Waits

LEMMA ReadByteOK ==
  ASSUME NEW p, ParserInv(p), ~Finished(p), NEW c
  PROVE  ParserInv(ReadByte(p, c))
<1> DEFINE q == [p EXCEPT !.lexer = Scan(p.lexer, c)]
<1>1. ParserInv(q) /\ q.at = p.at
  BY LexerOK
<1>2. p.at \in Waits
  BY DEF ParserInv, Finished
<1>3. ReadByte(p, c) = TakeIfAny(q)
  BY DEF ReadByte
<1> HIDE DEF q
<1> QED
  BY <1>1, <1>2, <1>3, TakeOK DEF TakeIfAny

-----------------------------------------------------------------------------
LEMMA ReadingInit ==
  Init => ReadingInv
<1> SUFFICES ASSUME Init
             PROVE  ReadingInv
  OBVIOUS
<1>1. parser = NewParser
  BY DEF Init
<1>2. IsParser(parser) /\ parser.at = "value" /\ parser.states = <<>> /\ parser.dom = NewDom
  BY <1>1 DEF NewParser, IsParser
<1>3. DomOK(NewDom, <<>>)
  BY DEF DomOK, IsDom, NewDom
<1>4. <<>> \in Seq(BOOLEAN)
  OBVIOUS
<1>5. Waiting("value", <<>>, NewDom)
  BY <1>3 DEF Waiting, Stack
<1> QED
  BY <1>2, <1>4, <1>5 DEF ReadingInv, ParserInv, Waits

LEMMA ReadingStep ==
  ReadingInv /\ [Next]_vars => ReadingInv'
<1> SUFFICES ASSUME ReadingInv, [Next]_vars
             PROVE  ReadingInv'
  OBVIOUS
<1>1. ASSUME NEW c, ~Finished(parser), parser' = ReadByte(parser, c)
      PROVE  ReadingInv'
  BY <1>1, ReadByteOK DEF ReadingInv
<1>2. CASE ReadNext
  BY <1>1, <1>2 DEF ReadNext
<1>3. CASE ReadEnd
  BY <1>1, <1>3 DEF ReadEnd
<1>4. CASE ReadAgain
  BY <1>1, <1>4 DEF ReadAgain
<1>5. CASE UNCHANGED vars
  BY <1>5 DEF vars, ReadingInv
<1> QED
  BY <1>2, <1>3, <1>4, <1>5 DEF Next

(* A prefix and the step after it.                                         *)
LEMMA PrefixLonger ==
  ASSUME NEW S, NEW path \in Seq(S), NEW i \in 1 .. Len(path)
  PROVE  SubSeq(path, 1, i) = Append(SubSeq(path, 1, i - 1), path[i])
<1>1. Len(path) \in Nat /\ i \in Nat /\ i - 1 \in Nat /\ path[i] \in S
  BY ElementOfSeq
<1>2. /\ SubSeq(path, 1, i) \in Seq(S) /\ Len(SubSeq(path, 1, i)) = i
      /\ \A j \in 1 .. i : SubSeq(path, 1, i)[j] = path[j]
  BY <1>1
<1>3. /\ SubSeq(path, 1, i - 1) \in Seq(S) /\ Len(SubSeq(path, 1, i - 1)) = i - 1
      /\ \A j \in 1 .. i - 1 : SubSeq(path, 1, i - 1)[j] = path[j]
  BY <1>1
<1> DEFINE long == SubSeq(path, 1, i)
           short == SubSeq(path, 1, i - 1)
           grown == Append(short, path[i])
<1> HIDE DEF long, short
<1>4. /\ grown \in Seq(S) /\ Len(grown) = i /\ grown[i] = path[i]
      /\ \A j \in 1 .. i - 1 : grown[j] = short[j]
  BY <1>1, <1>3, AppendProperties DEF short
<1> HIDE DEF grown
<1>5. \A j \in 1 .. i : long[j] = grown[j]
  BY <1>1, <1>2, <1>3, <1>4 DEF long, short
<1>6. long = grown
  BY <1>2, <1>4, <1>5, SeqEqual DEF long
<1> QED
  BY <1>6 DEF long, short, grown

LEMMA PointersOK ==
  ReadingInv => PointersFollowBrackets
<1> DEFINE refs == parser.dom.refs
           root == parser.dom.root
           brackets == Stack(parser.at, parser.states)
           holder(i) == At(root, refs[i])
           newest(i) ==
               IF brackets[i] THEN refs[i + 1] = Append(refs[i], Element(Len(Content(holder(i)))))
               ELSE \E n \in DOMAIN Content(holder(i)) : refs[i + 1] = Append(refs[i], Member(n))
           filling == parser.at \in {"value", "separator", "first_separator"}
<1> SUFFICES ASSUME ReadingInv, ~Finished(parser)
             PROVE  /\ Len(refs) = Len(brackets)
                    /\ \A i \in DOMAIN refs : Type(holder(i)) = IF brackets[i] THEN "array" ELSE "object"
                    /\ refs # <<>> => refs[1] = <<>>
                    /\ \A i \in 1 .. Len(refs) - 1 : newest(i)
                    /\ filling /\ brackets # <<>> /\ ~Last(brackets) => Front(parser.dom.element) = Last(refs)
  BY DEF PointersFollowBrackets, Stack
<1>1. parser.at \in Waits /\ parser.states \in Seq(BOOLEAN) /\ Waiting(parser.at, parser.states, parser.dom)
  BY DEF ReadingInv, ParserInv, Finished
<1>2. brackets \in Seq(BOOLEAN)
  <2>1. (parser.at = "first_element") \in BOOLEAN
    OBVIOUS
  <2>2. Append(parser.states, parser.at = "first_element") \in Seq(BOOLEAN)
    BY <1>1, <2>1, LastOfAppend
  <2> QED
    BY <1>1, <2>2 DEF Stack
<1>3. DomOK(parser.dom, brackets)
  BY <1>1 DEF Waiting
<1>4. filling /\ brackets # <<>> /\ ~Last(brackets) => ElementOK(parser.dom)
  BY <1>1 DEF Waiting
<1> HIDE DEF brackets
<1>5. CASE brackets = <<>>
  <2>1. refs = <<>>
    BY <1>3, <1>5 DEF DomOK
  <2>2. Len(refs) = 0 /\ DOMAIN refs = {}
    BY <2>1
  <2>3. Len(brackets) = 0
    BY <1>5
  <2>4. 1 .. Len(refs) - 1 = {}
    BY <2>2
  <2> QED
    BY <1>5, <2>1, <2>2, <2>3, <2>4, Zenon
<1>6. CASE brackets # <<>>
  <2>1. PICK S, path : /\ path \in Seq(S) /\ Len(path) + 1 = Len(brackets) /\ Len(path) \in Nat
                       /\ Last(refs) = path /\ refs = RefsOf(path) /\ refs # <<>>
                       /\ Chain(root, path, brackets)
    BY <1>2, <1>3, <1>6, DomPath
  <2>2. Len(refs) = Len(path) + 1 /\ DOMAIN refs = 1 .. Len(path) + 1
    BY <2>1, RefsFacts DEF RefsOf
  <2>3. \A i \in 1 .. Len(path) + 1 : refs[i] = SubSeq(path, 1, i - 1)
    BY <2>1 DEF RefsOf
  <2> HIDE DEF refs, root
  <2>4. ASSUME NEW i \in 1 .. Len(path) + 1
        PROVE  /\ brackets[i] \in BOOLEAN /\ Proper(holder(i), brackets[i])
               /\ i <= Len(path) => IsNewest(path[i], holder(i), brackets[i])
    <3> DEFINE n == i - 1
    <3>1. n \in 0 .. Len(path) /\ n + 1 = i /\ (i <= Len(path) => n < Len(path))
      BY <2>1
    <3>2. refs[i] = SubSeq(path, 1, n)
      BY <2>3
    <3> HIDE DEF n
    <3>3. brackets[i] \in BOOLEAN
      BY <1>2, <2>1, ElementOfSeq
    <3> QED
      BY <2>1, <3>1, <3>2, <3>3 DEF Chain
  <2>5. ASSUME NEW i \in DOMAIN refs
        PROVE  Type(holder(i)) = IF brackets[i] THEN "array" ELSE "object"
    BY <2>2, <2>4 DEF Proper
  <2>6. refs[1] = <<>>
    <3>1. SubSeq(path, 1, 0) = <<>> /\ 1 \in 1 .. Len(path) + 1 /\ 1 - 1 = 0
      BY <2>1, SubSeqEmpty
    <3> QED
      BY <2>3, <3>1
  <2>7. ASSUME NEW i \in 1 .. Len(refs) - 1
        PROVE  newest(i)
    <3>1. i \in 1 .. Len(path) /\ i \in 1 .. Len(path) + 1 /\ i + 1 \in 1 .. Len(path) + 1 /\ (i + 1) - 1 = i
      BY <2>1, <2>2
    <3>2. refs[i] = SubSeq(path, 1, i - 1) /\ refs[i + 1] = SubSeq(path, 1, i)
      BY <2>3, <3>1
    <3>3. refs[i + 1] = Append(refs[i], path[i])
      BY <2>1, <3>1, <3>2, PrefixLonger
    <3>4. IsNewest(path[i], holder(i), brackets[i])
      BY <2>4, <3>1
    <3> HIDE DEF holder
    <3> QED
      BY <3>3, <3>4 DEF IsNewest
  <2>8. ASSUME filling, ~Last(brackets)
        PROVE  Front(parser.dom.element) = Last(refs)
    <3>1. PICK n : parser.dom.element = Append(path, Member(n))
      BY <1>4, <1>6, <2>1, <2>8 DEF ElementOK, refs
    <3> QED
      BY <2>1, <3>1, FrontOfAppend
  <2> QED
    BY <2>1, <2>2, <2>5, <2>6, <2>7, <2>8
<1> QED
  BY <1>5, <1>6

-----------------------------------------------------------------------------
(* The parser waits for the next token knowing what it has built: the      *)
(* pointers of json_sax_dom_parser are the prefixes of one path, along it  *)
(* lie the containers of the open brackets, and the member the next value  *)
(* goes to is in the innermost of them.                                    *)
THEOREM ReadingInvTheorem ==
  Spec => []ReadingInv
<1>1. Init => ReadingInv
  BY ReadingInit
<1>2. ReadingInv /\ [Next]_vars => ReadingInv'
  BY ReadingStep
<1> QED
  BY <1>1, <1>2, PTL DEF Spec

(* For every text: the stack of open brackets of parser and the pointers   *)
(* that json_sax_dom_parser keeps to the values under construction always  *)
(* agree.                                                                  *)
THEOREM PointersTheorem ==
  Spec => []PointersFollowBrackets
<1>1. ReadingInv => PointersFollowBrackets
  BY PointersOK
<1> QED
  BY <1>1, ReadingInvTheorem, PTL

-----------------------------------------------------------------------------
(* UTF-8.  The states of the serializer's automaton after the first m bytes*)
(* of a text.                                                              *)
IsDecode(f, s, m) ==
    f = [n \in 0 .. m |-> IF n = 0 THEN Accept ELSE Decode(f[n - 1], s[n])]

LEMMA DecodeExists ==
  ASSUME NEW s
  PROVE  \A m \in Nat : \E f : IsDecode(f, s, m)
<1> DEFINE T == {m \in Nat : \E f : IsDecode(f, s, m)}
<1>1. 0 \in T
  <2> DEFINE f == [n \in 0 .. 0 |-> Accept]
  <2>1. IsDecode(f, s, 0)
    BY DEF IsDecode
  <2> QED
    BY <2>1
<1>2. ASSUME NEW m \in Nat, m \in T
      PROVE  m + 1 \in T
  <2>1. PICK f : IsDecode(f, s, m)
    BY <1>2
  <2> DEFINE g == [n \in 0 .. m + 1 |-> IF n = m + 1 THEN Decode(f[m], s[m + 1]) ELSE f[n]]
  <2>2. \A n \in 0 .. m : f[n] = IF n = 0 THEN Accept ELSE Decode(f[n - 1], s[n])
    BY <2>1 DEF IsDecode
  <2>3. \A n \in 0 .. m : g[n] = f[n]
    OBVIOUS
  <2>4. g[m + 1] = Decode(g[m], s[m + 1])
    BY <2>3
  <2>5. ASSUME NEW n \in 0 .. m + 1
        PROVE  g[n] = IF n = 0 THEN Accept ELSE Decode(g[n - 1], s[n])
    <3>1. CASE n = m + 1
      BY <2>4, <3>1
    <3>2. CASE n # m + 1
      <4>1. n \in 0 .. m /\ (n = 0 \/ n - 1 \in 0 .. m)
        BY <3>2
      <4> QED
        BY <4>1, <2>2, <2>3
    <3> QED
      BY <3>1, <3>2
  <2>6. g = [n \in 0 .. m + 1 |-> g[n]]
    OBVIOUS
  <2> HIDE DEF g
  <2>7. IsDecode(g, s, m + 1)
    BY <2>5, <2>6 DEF IsDecode
  <2> QED
    BY <2>7
<1> HIDE DEF T
<1>3. \A m \in Nat : m \in T
  BY <1>1, <1>2, Induction
<1> QED
  BY <1>3 DEF T

(* Equal beginnings have equal states.                                     *)
AgreeUpTo(s, t, first, last) == \A n \in first .. last : s[n] = t[n]

LEMMA DecodesAgree ==
  ASSUME NEW s, NEW t, NEW k \in Nat, NEW l \in Nat, k <= l,
         NEW f, NEW g, IsDecode(f, s, k), IsDecode(g, t, l), AgreeUpTo(s, t, 1, k)
  PROVE  AgreeUpTo(f, g, 0, k)
<1> DEFINE T == {n \in Nat : n <= k => f[n] = g[n]}
<1>1. \A n \in 0 .. k : /\ f[n] = IF n = 0 THEN Accept ELSE Decode(f[n - 1], s[n])
                        /\ g[n] = IF n = 0 THEN Accept ELSE Decode(g[n - 1], t[n])
  BY DEF IsDecode
<1>2. 0 \in T
  BY <1>1
<1>3. ASSUME NEW n \in Nat, n \in T
      PROVE  n + 1 \in T
  <2>1. CASE n + 1 <= k
    <3>1. f[n] = g[n]
      BY <1>3, <2>1
    <3>2. n + 1 \in 0 .. k /\ n + 1 \in 1 .. k /\ n + 1 # 0 /\ (n + 1) - 1 = n
      BY <2>1
    <3>3. f[n + 1] = Decode(f[n], s[n + 1]) /\ g[n + 1] = Decode(g[n], t[n + 1])
      BY <1>1, <3>2
    <3>4. s[n + 1] = t[n + 1]
      BY <3>2 DEF AgreeUpTo
    <3> QED
      BY <3>1, <3>3, <3>4
  <2>2. CASE ~(n + 1 <= k)
    BY <2>2
  <2> QED
    BY <2>1, <2>2
<1> HIDE DEF T
<1>4. \A n \in Nat : n \in T
  BY <1>2, <1>3, Induction
<1> QED
  BY <1>4 DEF T, AgreeUpTo

(* Decoded, which names one such function, is its last value.              *)
LEMMA DecodedAfter ==
  ASSUME NEW s, Len(s) \in Nat
  PROVE  \E f : IsDecode(f, s, Len(s)) /\ Decoded(s) = f[Len(s)]
<1> DEFINE state == CHOOSE f : IsDecode(f, s, Len(s))
<1>1. IsDecode(state, s, Len(s))
  BY DecodeExists
<1>2. Decoded(s) = state[Len(s)]
  BY DEF Decoded, IsDecode
<1> QED
  BY <1>1, <1>2

(* Byte by byte.                                                           *)
LEMMA DecodedEmpty ==
  Decoded(<<>>) = Accept
<1>1. PICK f : IsDecode(f, <<>>, 0) /\ Decoded(<<>>) = f[0]
  BY DecodedAfter
<1> QED
  BY <1>1 DEF IsDecode

LEMMA DecodedAppend ==
  ASSUME NEW s \in Seq(Int), NEW b \in Int
  PROVE  Decoded(Append(s, b)) = Decode(Decoded(s), b)
<1> DEFINE t == Append(s, b)
           m == Len(s)
<1>1. /\ m \in Nat /\ Len(t) = m + 1 /\ t[m + 1] = b
      /\ \A n \in 1 .. m : s[n] = t[n]
  BY AppendFacts
<1> HIDE DEF t, m
<1>2. PICK f : IsDecode(f, s, m) /\ Decoded(s) = f[m]
  BY <1>1, DecodedAfter DEF m
<1>3. PICK g : IsDecode(g, t, m + 1) /\ Decoded(t) = g[m + 1]
  <2>1. m + 1 \in Nat
    BY <1>1
  <2> QED
    BY <1>1, <2>1, DecodedAfter
<1>4. \A n \in 0 .. m : f[n] = g[n]
  <2>1. m <= m + 1 /\ m + 1 \in Nat /\ m \in Nat
    BY <1>1
  <2>2. IsDecode(f, s, m) /\ IsDecode(g, t, m + 1) /\ AgreeUpTo(s, t, 1, m)
    BY <1>1, <1>2, <1>3 DEF AgreeUpTo
  <2>3. AgreeUpTo(f, g, 0, m)
    BY <2>1, <2>2, DecodesAgree
  <2> QED
    BY <2>3 DEF AgreeUpTo
<1>5. g[m + 1] = Decode(g[m], t[m + 1])
  BY <1>1, <1>3 DEF IsDecode
<1> QED
  BY <1>1, <1>2, <1>3, <1>4, <1>5 DEF t

-----------------------------------------------------------------------------
(* The table has one entry at most for a state and a class.                *)
LEMMA MovesUnique ==
  ASSUME NEW m \in DecodeMoves, NEW n \in DecodeMoves, m[1] = n[1], m[2] = n[2]
  PROVE  m = n
BY DEF DecodeMoves

(* So the CHOOSE of Decode picks the entry, if there is one.               *)
LEMMA DecodeMove ==
  ASSUME NEW b, NEW m \in DecodeMoves, m[2] = ByteClass(b)
  PROVE  Decode(m[1], b) = m[3]
<1> DEFINE moves == {move \in DecodeMoves : move[1] = m[1] /\ move[2] = ByteClass(b)}
<1>1. m \in moves
  OBVIOUS
<1>2. \A move \in moves : move = m
  BY MovesUnique
<1>3. Decode(m[1], b) = (CHOOSE move \in moves : TRUE)[3]
  BY <1>1 DEF Decode
<1> HIDE DEF moves
<1> QED
  BY <1>1, <1>2, <1>3

LEMMA DecodeReject ==
  ASSUME NEW state, NEW b, \A m \in DecodeMoves : ~(m[1] = state /\ m[2] = ByteClass(b))
  PROVE  Decode(state, b) = Reject
BY DEF Decode

(* What the automaton waits for, in the words of the lexer: the ranges of  *)
(* the bytes that must follow.                                             *)
Follows(rest, state) ==
    LET any == <<128, 191>>
    IN  \/ rest = <<any>> /\ state = 2
        \/ rest = <<any, any>> /\ state = 3
        \/ rest = << <<160, 191>>, any>> /\ state = 4
        \/ rest = << <<128, 159>>, any>> /\ state = 5
        \/ rest = << <<144, 191>>, any, any>> /\ state = 6
        \/ rest = <<any, any, any>> /\ state = 7
        \/ rest = << <<128, 143>>, any, any>> /\ state = 8

(* Every class of bytes in every state.                                    *)
LEMMA Classes ==
  ASSUME NEW b \in Int
  PROVE  /\ b < 128 => ByteClass(b) = 0
         /\ b \in 128 .. 143 => ByteClass(b) = 1
         /\ b \in 144 .. 159 => ByteClass(b) = 9
         /\ b \in 160 .. 191 => ByteClass(b) = 7
         /\ b \in {192, 193} \cup 245 .. 255 => ByteClass(b) = 8
         /\ b \in 194 .. 223 => ByteClass(b) = 2
         /\ b = 224 => ByteClass(b) = 10
         /\ b = 237 => ByteClass(b) = 4
         /\ b \in (225 .. 239) \ {237} => ByteClass(b) = 3
         /\ b = 240 => ByteClass(b) = 11
         /\ b \in 241 .. 243 => ByteClass(b) = 6
         /\ b = 244 => ByteClass(b) = 5
<1>1. b < 128 => ByteClass(b) = 0
  BY DEF ByteClass
<1>2. b \in 128 .. 143 => ByteClass(b) = 1
  BY DEF ByteClass
<1>3. b \in 144 .. 159 => ByteClass(b) = 9
  BY DEF ByteClass
<1>4. b \in 160 .. 191 => ByteClass(b) = 7
  BY DEF ByteClass
<1>5. b \in {192, 193} \cup 245 .. 255 => ByteClass(b) = 8
  BY DEF ByteClass
<1>6. b \in 194 .. 223 => ByteClass(b) = 2
  BY DEF ByteClass
<1>7. b = 224 => ByteClass(b) = 10
  BY DEF ByteClass
<1>8. b = 237 => ByteClass(b) = 4
  BY DEF ByteClass
<1>9. b \in (225 .. 239) \ {237} => ByteClass(b) = 3
  BY DEF ByteClass
<1>10. b = 240 => ByteClass(b) = 11
  BY DEF ByteClass
<1>11. b \in 241 .. 243 => ByteClass(b) = 6
  BY DEF ByteClass
<1>12. b = 244 => ByteClass(b) = 5
  BY DEF ByteClass
<1> QED
  BY <1>1, <1>2, <1>3, <1>4, <1>5, <1>6, <1>7, <1>8, <1>9, <1>10, <1>11, <1>12

(* What the table says of a byte by its class, and where it says nothing.  *)
LEMMA Moves ==
  ASSUME NEW b
  PROVE  /\ ByteClass(b) = 0 => Decode(0, b) = 0
         /\ ByteClass(b) = 2 => Decode(0, b) = 2
         /\ ByteClass(b) = 3 => Decode(0, b) = 3
         /\ ByteClass(b) = 4 => Decode(0, b) = 5
         /\ ByteClass(b) = 5 => Decode(0, b) = 8
         /\ ByteClass(b) = 6 => Decode(0, b) = 7
         /\ ByteClass(b) = 10 => Decode(0, b) = 4
         /\ ByteClass(b) = 11 => Decode(0, b) = 6
         /\ ByteClass(b) \in {1, 7, 9} => Decode(2, b) = 0 /\ Decode(3, b) = 2 /\ Decode(7, b) = 3
         /\ ByteClass(b) = 7 => Decode(4, b) = 2
         /\ ByteClass(b) \in {1, 9} => Decode(5, b) = 2
         /\ ByteClass(b) \in {7, 9} => Decode(6, b) = 3
         /\ ByteClass(b) = 1 => Decode(8, b) = 3
<1>1. ASSUME NEW state, NEW next, <<state, ByteClass(b), next>> \in DecodeMoves
      PROVE  Decode(state, b) = next
  <2> DEFINE m == <<state, ByteClass(b), next>>
  <2>1. m \in DecodeMoves /\ m[1] = state /\ m[2] = ByteClass(b) /\ m[3] = next
    BY <1>1
  <2> HIDE DEF m
  <2> QED
    BY <2>1, DecodeMove
<1>2. \A n \in DecodeMoves : ByteClass(b) = n[2] => Decode(n[1], b) = n[3]
  BY DecodeMove
<1> QED
  BY <1>1 DEF DecodeMoves

LEMMA NoMoves ==
  ASSUME NEW b
  PROVE  /\ ByteClass(b) \in {1, 7, 8, 9} => Decode(0, b) = 1
         /\ Decode(1, b) = 1
         /\ ByteClass(b) \notin {1, 7, 9} => Decode(2, b) = 1 /\ Decode(3, b) = 1 /\ Decode(7, b) = 1
         /\ ByteClass(b) # 7 => Decode(4, b) = 1
         /\ ByteClass(b) \notin {1, 9} => Decode(5, b) = 1
         /\ ByteClass(b) \notin {7, 9} => Decode(6, b) = 1
         /\ ByteClass(b) # 1 => Decode(8, b) = 1
<1>1. ASSUME NEW state, \A m \in DecodeMoves : ~(m[1] = state /\ m[2] = ByteClass(b))
      PROVE  Decode(state, b) = 1
  BY <1>1, DecodeReject DEF Reject
<1> QED
  BY <1>1 DEF DecodeMoves

(* The ranges the lexer sets up for a lead byte are what the automaton     *)
(* waits for after it.                                                     *)
LEMMA LeadFollows ==
  ASSUME NEW c \in LeadBytes
  PROVE  Follows(Tails(c), Decode(Accept, c))
<1>1. c \in Int /\ c \in 194 .. 244
  BY DEF LeadBytes
<1>2. CASE c \in 194 .. 223
  <2>1. Decode(0, c) = 2
    BY <1>1, <1>2, Classes, Moves
  <2>2. Tails(c) = << <<128, 191>> >>
    BY <1>1, <1>2 DEF Tails
  <2> QED
    BY <2>1, <2>2 DEF Follows, Accept
<1>3. CASE c = 224
  BY <1>1, <1>3, Classes, Moves DEF Follows, Tails, Accept
<1>4. CASE c \in (225 .. 239) \ {237}
  <2>1. Decode(0, c) = 3
    BY <1>1, <1>4, Classes, Moves
  <2>2. Tails(c) = << <<128, 191>>, <<128, 191>> >>
    BY <1>1, <1>4 DEF Tails
  <2> QED
    BY <2>1, <2>2 DEF Follows, Accept
<1>5. CASE c = 237
  BY <1>1, <1>5, Classes, Moves DEF Follows, Tails, Accept
<1>6. CASE c = 240
  BY <1>1, <1>6, Classes, Moves DEF Follows, Tails, Accept
<1>7. CASE c \in 241 .. 243
  BY <1>1, <1>7, Classes, Moves DEF Follows, Tails, Accept
<1>8. CASE c = 244
  BY <1>1, <1>8, Classes, Moves DEF Follows, Tails, Accept
<1> QED
  BY <1>1, <1>2, <1>3, <1>4, <1>5, <1>6, <1>7, <1>8

(* A byte in the range is taken by both automata, another by neither.      *)
LEMMA TailFollows ==
  ASSUME NEW rest, NEW state, Follows(rest, state), NEW b \in Int
  PROVE  LET range == Head(rest)
         IN  /\ b \in range[1] .. range[2] =>
                   IF Len(rest) = 1 THEN Decode(state, b) = Accept
                   ELSE Follows(Tail(rest), Decode(state, b))
             /\ b \in (0 .. 255) \ (range[1] .. range[2]) => Decode(state, b) = Reject
<1> DEFINE any == <<128, 191>>
<1> DEFINE Goal(r, s) ==
        LET range == Head(r)
        IN  /\ b \in range[1] .. range[2] =>
                   IF Len(r) = 1 THEN Decode(s, b) = Accept ELSE Follows(Tail(r), Decode(s, b))
            /\ b \in (0 .. 255) \ (range[1] .. range[2]) => Decode(s, b) = Reject
<1>0. /\ \A x : Head(<<x>>) = x /\ Len(<<x>>) = 1
      /\ \A x, y : Head(<<x, y>>) = x /\ Len(<<x, y>>) = 2 /\ Tail(<<x, y>>) = <<y>>
      /\ \A x, y, z : Head(<<x, y, z>>) = x /\ Len(<<x, y, z>>) = 3 /\ Tail(<<x, y, z>>) = <<y, z>>
  OBVIOUS
<1>1. Goal(<<any>>, 2)
  BY <1>0, Classes, Moves, NoMoves DEF Follows, Accept, Reject
<1>2. Goal(<<any, any>>, 3)
  BY <1>0, Classes, Moves, NoMoves DEF Follows, Accept, Reject
<1>3. Goal(<< <<160, 191>>, any>>, 4)
  BY <1>0, Classes, Moves, NoMoves DEF Follows, Accept, Reject
<1>4. Goal(<< <<128, 159>>, any>>, 5)
  BY <1>0, Classes, Moves, NoMoves DEF Follows, Accept, Reject
<1>5. Goal(<< <<144, 191>>, any, any>>, 6)
  BY <1>0, Classes, Moves, NoMoves DEF Follows, Accept, Reject
<1>6. Goal(<<any, any, any>>, 7)
  BY <1>0, Classes, Moves, NoMoves DEF Follows, Accept, Reject
<1>7. Goal(<< <<128, 143>>, any, any>>, 8)
  BY <1>0, Classes, Moves, NoMoves DEF Follows, Accept, Reject
<1>8. Goal(rest, state)
  <2> HIDE DEF Goal
  <2> QED
    BY <1>1, <1>2, <1>3, <1>4, <1>5, <1>6, <1>7 DEF Follows
<1> QED
  BY <1>8

(* A byte of ASCII is a character, and what leads no character is          *)
(* rejected.                                                               *)
LEMMA PlainDecodes ==
  ASSUME NEW b \in Int
  PROVE  /\ b < 128 => Decode(Accept, b) = Accept
         /\ b \in (128 .. 255) \ LeadBytes => Decode(Accept, b) = Reject
         /\ Decode(Reject, b) = Reject
BY Classes, Moves, NoMoves DEF Accept, Reject, LeadBytes

-----------------------------------------------------------------------------
(* The bytes of a character one after the other.                           *)
LEMMA AppendLast ==
  ASSUME NEW s \in Seq(Int), NEW a \in Int
  PROVE  s \o <<a>> = Append(s, a)
BY AppendIsConcat

LEMMA AppendOver ==
  ASSUME NEW s \in Seq(Int), NEW t \in Seq(Int), NEW a \in Int
  PROVE  s \o Append(t, a) = Append(s \o t, a)
<1>1. <<a>> \in Seq(Int) /\ s \o t \in Seq(Int)
  BY ConcatProperties
<1>2. s \o (t \o <<a>>) = (s \o t) \o <<a>>
  BY <1>1, ConcatAssociative
<1>3. t \o <<a>> = Append(t, a) /\ (s \o t) \o <<a>> = Append(s \o t, a)
  BY <1>1, AppendLast, Zenon
<1> QED
  BY <1>2, <1>3, Zenon

LEMMA AppendTwo ==
  ASSUME NEW s \in Seq(Int), NEW a \in Int, NEW b \in Int
  PROVE  s \o <<a, b>> = Append(Append(s, a), b)
<1> DEFINE t == <<a>>
           u == <<a, b>>
<1>1. t \in Seq(Int) /\ u = Append(t, b)
  OBVIOUS
<1>2. s \o t = Append(s, a)
  BY AppendLast
<1> HIDE DEF t, u
<1>3. s \o Append(t, b) = Append(s \o t, b)
  BY <1>1, AppendOver
<1> QED
  BY <1>1, <1>2, <1>3, Zenon DEF u

LEMMA AppendThree ==
  ASSUME NEW s \in Seq(Int), NEW a \in Int, NEW b \in Int, NEW c \in Int
  PROVE  s \o <<a, b, c>> = Append(Append(Append(s, a), b), c)
<1> DEFINE t == <<a, b>>
           u == <<a, b, c>>
<1>1. t \in Seq(Int) /\ u = Append(t, c)
  OBVIOUS
<1>2. s \o t = Append(Append(s, a), b)
  BY AppendTwo
<1> HIDE DEF t, u
<1>3. s \o Append(t, c) = Append(s \o t, c)
  BY <1>1, AppendOver
<1> QED
  BY <1>1, <1>2, <1>3, Zenon DEF u

(* The code points of UTF-8: no halves of pairs.                           *)
IsCodePoint(cp) == cp \in Nat /\ cp <= 1114111 /\ ~IsHigh(cp) /\ ~IsLow(cp)

(* What the lexer encodes the serializer's automaton takes: the bytes with *)
(* six bits of it, by the classes of the table.                            *)
LEMMA TailByteClass ==
  ASSUME NEW b \in Int, 128 <= b, b < 192
  PROVE  ByteClass(b) \in {1, 7, 9} /\ (b >= 160 => ByteClass(b) = 7)
         /\ (b < 160 => ByteClass(b) \in {1, 9}) /\ (b >= 144 => ByteClass(b) \in {7, 9})
         /\ (b < 144 => ByteClass(b) = 1)
<1>1. b \in 128 .. 143 \/ b \in 144 .. 159 \/ b \in 160 .. 191
  OBVIOUS
<1> QED
  BY <1>1, Classes

(* A lead byte and its tails, by their ranges, are one character.          *)
LEMMA EncodeTwo ==
  ASSUME NEW s \in Seq(Int), Decoded(s) = 0, NEW a \in Int, 194 <= a, a < 224,
         NEW b \in Int, 128 <= b, b < 192
  PROVE  s \o <<a, b>> \in Seq(Int) /\ Decoded(s \o <<a, b>>) = 0
<1>1. Decode(0, a) = 2
  BY a \in 194 .. 223, Classes, Moves
<1>2. Decode(2, b) = 0
  BY TailByteClass, Moves
<1>3. Append(s, a) \in Seq(Int) /\ Append(Append(s, a), b) \in Seq(Int)
  OBVIOUS
<1>4. Decoded(Append(Append(s, a), b)) = 0
  BY <1>1, <1>2, <1>3, DecodedAppend
<1> QED
  BY <1>3, <1>4, AppendTwo

LEMMA EncodeThree ==
  ASSUME NEW s \in Seq(Int), Decoded(s) = 0, NEW a \in Int, 224 <= a, a < 240,
         NEW b \in Int, 128 <= b, b < 192, a = 224 => b >= 160, a = 237 => b < 160,
         NEW c \in Int, 128 <= c, c < 192
  PROVE  s \o <<a, b, c>> \in Seq(Int) /\ Decoded(s \o <<a, b, c>>) = 0
<1>1. Decode(Decode(0, a), b) = 2
  <2>1. CASE a = 224
    BY <2>1, Classes, TailByteClass, Moves
  <2>2. CASE a = 237
    <3>1. ByteClass(b) \in {1, 9}
      BY <2>2, TailByteClass
    <3> QED
      BY <2>2, <3>1, Classes, Moves
  <2>3. CASE a # 224 /\ a # 237
    BY <2>3, a \in (225 .. 239) \ {237}, Classes, TailByteClass, Moves
  <2> QED
    BY <2>1, <2>2, <2>3
<1>2. Decode(2, c) = 0
  BY TailByteClass, Moves
<1>3. /\ Append(s, a) \in Seq(Int) /\ Append(Append(s, a), b) \in Seq(Int)
      /\ Append(Append(Append(s, a), b), c) \in Seq(Int)
  OBVIOUS
<1>4. Decoded(Append(Append(Append(s, a), b), c)) = 0
  BY <1>1, <1>2, <1>3, DecodedAppend
<1>5. s \o <<a, b, c>> = Append(Append(Append(s, a), b), c)
  BY AppendThree
<1> QED
  BY <1>3, <1>4, <1>5, Zenon

LEMMA EncodeFour ==
  ASSUME NEW s \in Seq(Int), Decoded(s) = 0, NEW a \in Int, 240 <= a, a <= 244,
         NEW b \in Int, 128 <= b, b < 192, a = 240 => b >= 144, a = 244 => b < 144,
         NEW c \in Int, 128 <= c, c < 192, NEW d \in Int, 128 <= d, d < 192
  PROVE  s \o <<a, b, c, d>> \in Seq(Int) /\ Decoded(s \o <<a, b, c, d>>) = 0
<1>1. Decode(Decode(0, a), b) = 3
  <2>1. CASE a = 240
    <3>1. ByteClass(b) \in {7, 9}
      BY <2>1, TailByteClass
    <3> QED
      BY <2>1, <3>1, Classes, Moves
  <2>2. CASE a = 244
    BY <2>2, Classes, TailByteClass, Moves
  <2>3. CASE a # 240 /\ a # 244
    BY <2>3, a \in 241 .. 243, Classes, TailByteClass, Moves
  <2> QED
    BY <2>1, <2>2, <2>3
<1>2. Decode(3, c) = 2 /\ Decode(2, d) = 0
  BY TailByteClass, Moves
<1> DEFINE s1 == Append(s, a)
           s2 == Append(s1, b)
           s3 == Append(s2, c)
           s4 == Append(s3, d)
<1>3. s1 \in Seq(Int) /\ s2 \in Seq(Int) /\ s3 \in Seq(Int) /\ s4 \in Seq(Int)
  OBVIOUS
<1>4. /\ Decoded(s1) = Decode(0, a) /\ Decoded(s2) = Decode(Decoded(s1), b)
      /\ Decoded(s3) = Decode(Decoded(s2), c) /\ Decoded(s4) = Decode(Decoded(s3), d)
  BY <1>3, DecodedAppend
<1>5. s \o <<a, b, c, d>> = s4
  <2> DEFINE t == <<a, b, c>>
             u == <<a, b, c, d>>
  <2>1. t \in Seq(Int) /\ u = Append(t, d)
    OBVIOUS
  <2>2. s \o t = s3
    BY AppendThree
  <2> HIDE DEF t, u
  <2>3. s \o u = Append(s \o t, d)
    BY <2>1, AppendOver
  <2> QED
    BY <2>2, <2>3, Zenon DEF u
<1> HIDE DEF s1, s2, s3, s4
<1> QED
  BY <1>1, <1>2, <1>3, <1>4, <1>5

(* The encoding of a code point, after a text that decodes, decodes.       *)
LEMMA EncodeDecodes ==
  ASSUME NEW s \in Seq(Int), Decodes(s), NEW cp, IsCodePoint(cp)
  PROVE  s \o Encode(cp) \in Seq(Int) /\ Decodes(s \o Encode(cp))
<1>1. cp \in Int /\ 0 <= cp /\ cp <= 1114111 /\ ~(55296 <= cp /\ cp <= 57343)
  BY SMT DEF IsCodePoint, IsHigh, IsLow
<1>2. Decoded(s) = 0
  BY DEF Decodes, Accept
<1> DEFINE tail(n) == 128 + ((cp \div n) % 64)
<1>3. \A n \in {1, 64, 4096} : tail(n) \in Int /\ 128 <= tail(n) /\ tail(n) < 192
  <2>1. cp \in Int
    BY <1>1
  <2> QED
    BY <2>1, SMT
<1>4. CASE cp < 128
  <2>1. Encode(cp) = <<cp>>
    BY <1>4, SMT DEF Encode
  <2>2. cp \in Int
    BY <1>1
  <2>3. Decode(0, cp) = 0
    BY <1>4, <2>2, PlainDecodes DEF Accept
  <2>4. Append(s, cp) \in Seq(Int) /\ Decoded(Append(s, cp)) = 0
    BY <1>2, <2>2, <2>3, DecodedAppend
  <2>5. s \o Encode(cp) = Append(s, cp)
    BY <2>1, <2>2, AppendLast
  <2> QED
    BY <2>4, <2>5 DEF Decodes, Accept
<1>5. CASE cp >= 128 /\ cp < 2048
  <2> DEFINE a == 192 + cp \div 64
  <2>1. Encode(cp) = <<a, tail(1)>>
    BY <1>1, <1>5, SMT DEF Encode
  <2>2. a \in Int /\ 194 <= a /\ a < 224
    BY <1>1, <1>5, SMT
  <2>3. tail(1) \in Int /\ 128 <= tail(1) /\ tail(1) < 192
    BY <1>3
  <2> HIDE DEF a, tail
  <2> QED
    BY <1>2, <2>1, <2>2, <2>3, EncodeTwo DEF Decodes, Accept
<1>6. CASE cp >= 2048 /\ cp < 65536
  <2> DEFINE a == 224 + cp \div 4096
  <2>1. Encode(cp) = <<a, tail(64), tail(1)>>
    BY <1>1, <1>6, SMT DEF Encode
  <2>2. a \in Int /\ 224 <= a /\ a < 240
    BY <1>1, <1>6, SMT
  <2>3. a = 224 => tail(64) >= 160
    BY <1>1, <1>6, SMT
  <2>4. a = 237 => tail(64) < 160
    BY <1>1, <1>6, SMT
  <2>5. \A n \in {1, 64} : tail(n) \in Int /\ 128 <= tail(n) /\ tail(n) < 192
    BY <1>3
  <2> HIDE DEF a, tail
  <2> QED
    BY <1>2, <2>1, <2>2, <2>3, <2>4, <2>5, EncodeThree DEF Decodes, Accept
<1>7. CASE cp >= 65536
  <2> DEFINE a == 240 + cp \div 262144
  <2>1. Encode(cp) = <<a, tail(4096), tail(64), tail(1)>>
    BY <1>1, <1>7, SMT DEF Encode
  <2>2. a \in Int /\ 240 <= a /\ a <= 244
    BY <1>1, <1>7, SMT
  <2>3. a = 240 => tail(4096) >= 144
    BY <1>1, <1>7, SMT
  <2>4. a = 244 => tail(4096) < 144
    BY <1>1, <1>7, SMT
  <2> HIDE DEF a, tail
  <2> QED
    BY <1>2, <1>3, <2>1, <2>2, <2>3, <2>4, EncodeFour DEF Decodes, Accept
<1> QED
  BY <1>1, <1>4, <1>5, <1>6, <1>7, SMT

-----------------------------------------------------------------------------
(* What the lexer has read of a token, by its mode: the bytes of a string  *)
(* decode, at the end of a character or in the middle of one.              *)
IsLexer(x) ==
    x = [token |-> x.token, mode |-> x.mode, buffer |-> x.buffer, rest |-> x.rest,
         literal |-> x.literal, code |-> x.code, left |-> x.left, high |-> x.high,
         current |-> x.current, again |-> x.again]

BomModes == {"bom", "bom2", "bom3"}
PairModes == {"pair", "pairU"}
InString == {"string", "escape", "hex"} \cup PairModes
LexerModes == BomModes \cup {"start", "literal", "tail"} \cup InString \cup NumberModes

(* Digits of a code point have been read.                                  *)
HexOK(code, left) ==
    /\ code \in Nat
    /\ left \in 1 .. 4
    /\ code < (CASE left = 4 -> 1 [] left = 3 -> 16 [] left = 2 -> 256 [] left = 1 -> 4096)

LiteralTokens == {"literal_true", "literal_false", "literal_null"}

LexOK(x) ==
    /\ IsLexer(x)
    /\ x.token = "none"
    /\ x.mode \in LexerModes
    /\ x.buffer \in Seq(Int)
    /\ x.mode \in BomModes \cup {"start"} => x.buffer = <<>>
    /\ x.mode = "literal" => x.literal \in LiteralTokens
    /\ x.mode \in InString => Decodes(x.buffer)
    /\ x.mode = "tail" => Follows(x.rest, Decoded(x.buffer))
    /\ x.mode = "hex" => HexOK(x.code, x.left) /\ (x.high = 0 \/ (IsHigh(x.high) /\ x.high \in Int))
    /\ x.mode \in PairModes => IsHigh(x.high) /\ x.high \in Int
    /\ x.mode \notin {"hex"} \cup PairModes => x.high = 0

(* A byte leaves the lexer so, or with a token.                            *)
Outcome(y) ==
    /\ IsLexer(y)
    /\ y.buffer \in Seq(Int)
    /\ y.token = "none" => LexOK(y)
    /\ y.token \notin {"none", "parse_error"} => y.high = 0
    /\ y.token = "value_string" => Decodes(y.buffer)

(* y is x but for some fields.                                             *)
LexerFields == {"token", "mode", "buffer", "rest", "literal", "code", "left", "high", "current", "again"}

Same(y, x, but) == IsLexer(y) /\ \A f \in LexerFields \ but : y[f] = x[f]

SetToken(x, v) == [x EXCEPT !.token = v]

(* An assignment to one field leaves the others.                           *)
LEMMA SetTokenOnly ==
  ASSUME NEW x, IsLexer(x), NEW v
  PROVE  Same(SetToken(x, v), x, {"token"}) /\ SetToken(x, v).token = v
BY DEF Same, LexerFields, IsLexer, SetToken

SetMode(x, v) == [x EXCEPT !.mode = v]

LEMMA SetModeOnly ==
  ASSUME NEW x, IsLexer(x), NEW v
  PROVE  Same(SetMode(x, v), x, {"mode"}) /\ SetMode(x, v).mode = v
BY DEF Same, LexerFields, IsLexer, SetMode

SetBuffer(x, v) == [x EXCEPT !.buffer = v]

LEMMA SetBufferOnly ==
  ASSUME NEW x, IsLexer(x), NEW v
  PROVE  Same(SetBuffer(x, v), x, {"buffer"}) /\ SetBuffer(x, v).buffer = v
BY DEF Same, LexerFields, IsLexer, SetBuffer

SetRest(x, v) == [x EXCEPT !.rest = v]

LEMMA SetRestOnly ==
  ASSUME NEW x, IsLexer(x), NEW v
  PROVE  Same(SetRest(x, v), x, {"rest"}) /\ SetRest(x, v).rest = v
BY DEF Same, LexerFields, IsLexer, SetRest

SetLiteral(x, v) == [x EXCEPT !.literal = v]

LEMMA SetLiteralOnly ==
  ASSUME NEW x, IsLexer(x), NEW v
  PROVE  Same(SetLiteral(x, v), x, {"literal"}) /\ SetLiteral(x, v).literal = v
BY DEF Same, LexerFields, IsLexer, SetLiteral

SetCode(x, v) == [x EXCEPT !.code = v]

LEMMA SetCodeOnly ==
  ASSUME NEW x, IsLexer(x), NEW v
  PROVE  Same(SetCode(x, v), x, {"code"}) /\ SetCode(x, v).code = v
BY DEF Same, LexerFields, IsLexer, SetCode

SetLeft(x, v) == [x EXCEPT !.left = v]

LEMMA SetLeftOnly ==
  ASSUME NEW x, IsLexer(x), NEW v
  PROVE  Same(SetLeft(x, v), x, {"left"}) /\ SetLeft(x, v).left = v
BY DEF Same, LexerFields, IsLexer, SetLeft

SetHigh(x, v) == [x EXCEPT !.high = v]

LEMMA SetHighOnly ==
  ASSUME NEW x, IsLexer(x), NEW v
  PROVE  Same(SetHigh(x, v), x, {"high"}) /\ SetHigh(x, v).high = v
BY DEF Same, LexerFields, IsLexer, SetHigh

SetCurrent(x, v) == [x EXCEPT !.current = v]

LEMMA SetCurrentOnly ==
  ASSUME NEW x, IsLexer(x), NEW v
  PROVE  Same(SetCurrent(x, v), x, {"current"}) /\ SetCurrent(x, v).current = v
BY DEF Same, LexerFields, IsLexer, SetCurrent

SetAgain(x, v) == [x EXCEPT !.again = v]

LEMMA SetAgainOnly ==
  ASSUME NEW x, IsLexer(x), NEW v
  PROVE  Same(SetAgain(x, v), x, {"again"}) /\ SetAgain(x, v).again = v
BY DEF Same, LexerFields, IsLexer, SetAgain

LEMMA AddOnly ==
  ASSUME NEW x, IsLexer(x), NEW bytes
  PROVE  Same(Add(x, bytes), x, {"buffer"}) /\ Add(x, bytes).buffer = x.buffer \o bytes
<1>1. Add(x, bytes) = SetBuffer(x, x.buffer \o bytes)
  BY DEF Add, SetBuffer
<1> QED
  BY <1>1, SetBufferOnly

LEMMA SomeOnly ==
  ASSUME NEW x, IsLexer(x), NEW v
  PROVE  /\ Same(Emit(x, v), x, {"token"}) /\ Emit(x, v).token = v
         /\ Same(In(x, v), x, {"mode"}) /\ In(x, v).mode = v
         /\ Same(Unget(x), x, {"again"}) /\ Unget(x).again = TRUE
<1>1. Emit(x, v) = SetToken(x, v) /\ In(x, v) = SetMode(x, v) /\ Unget(x) = SetAgain(x, TRUE)
  BY DEF Emit, SetToken, In, SetMode, Unget, SetAgain
<1>2. /\ Same(SetToken(x, v), x, {"token"}) /\ SetToken(x, v).token = v
      /\ Same(SetMode(x, v), x, {"mode"}) /\ SetMode(x, v).mode = v
      /\ Same(SetAgain(x, TRUE), x, {"again"}) /\ SetAgain(x, TRUE).again = TRUE
  BY SetTokenOnly, SetModeOnly, SetAgainOnly
<1> QED
  BY <1>1, <1>2, Zenon

LEMMA LiteralOnly ==
  ASSUME NEW x, IsLexer(x), NEW word, NEW token
  PROVE  LET y == Literal(x, word, token)
         IN  Same(y, x, {"mode", "rest", "literal"}) /\ y.mode = "literal" /\ y.rest = Tail(word) /\ y.literal = token
<1> DEFINE y1 == SetMode(x, "literal")
           y2 == SetRest(y1, Tail(word))
           y3 == SetLiteral(y2, token)
<1>1. Literal(x, word, token) = y3
  BY DEF Literal, SetLiteral, SetRest, SetMode
<1>2. Same(y1, x, {"mode"}) /\ y1.mode = "literal"
  BY SetModeOnly
<1> HIDE DEF y1
<1>3. Same(y2, y1, {"rest"}) /\ y2.rest = Tail(word)
  BY <1>2, SetRestOnly DEF Same
<1> HIDE DEF y2
<1>4. Same(y3, y2, {"literal"}) /\ y3.literal = token
  BY <1>3, SetLiteralOnly DEF Same
<1> HIDE DEF y3
<1> QED
  BY <1>1, <1>2, <1>3, <1>4 DEF Same, LexerFields

(* A byte that is no part of a token, and one that ends it.                *)
LEMMA FailOK ==
  ASSUME NEW x, IsLexer(x), x.buffer \in Seq(Int)
  PROVE  Outcome(Fail(x)) /\ Fail(x).token = "parse_error"
<1>1. Same(Fail(x), x, {"token"}) /\ Fail(x).token = "parse_error"
  BY SomeOnly DEF Fail
<1>2. Fail(x).buffer \in Seq(Int) /\ IsLexer(Fail(x))
  BY <1>1 DEF Same, LexerFields
<1> QED
  BY <1>1, <1>2 DEF Outcome

LEMMA EmitOK ==
  ASSUME NEW x, IsLexer(x), x.buffer \in Seq(Int), x.high = 0, NEW token,
         token # "none", token = "value_string" => Decodes(x.buffer)
  PROVE  Outcome(Emit(x, token)) /\ Outcome(Unget(Emit(x, token)))
<1> DEFINE y == Emit(x, token)
           z == Unget(y)
<1>1. Same(y, x, {"token"}) /\ y.token = token
  BY SomeOnly
<1> HIDE DEF y
<1>2. Same(z, y, {"again"})
  BY <1>1, SomeOnly DEF Same
<1> HIDE DEF z
<1>3. \A w \in {y, z} : IsLexer(w) /\ w.buffer = x.buffer /\ w.high = 0 /\ w.token = token
  BY <1>1, <1>2 DEF Same, LexerFields
<1>4. \A w \in {y, z} : Outcome(w)
  BY <1>3 DEF Outcome
<1> QED
  BY <1>4 DEF y, z

(* The byte order mark, or nothing of it.                                  *)
LEMMA BomOK ==
  ASSUME NEW x, LexOK(x), NEW c, x.mode \in BomModes
  PROVE  Outcome(BomByte(x, c))
<1>1. IsLexer(x) /\ x.buffer = <<>> /\ x.token = "none" /\ x.high = 0
  BY DEF LexOK, BomModes, PairModes
<1>2. ASSUME NEW m \in {"start", "bom2", "bom3"}
      PROVE  Outcome(In(x, m)) /\ Outcome(Unget(In(x, m)))
  <2> DEFINE y == In(x, m)
             z == Unget(y)
  <2>1. Same(y, x, {"mode"}) /\ y.mode = m
    BY <1>1, SomeOnly
  <2> HIDE DEF y
  <2>2. Same(z, y, {"again"})
    BY <2>1, SomeOnly DEF Same
  <2> HIDE DEF z
  <2>3. \A w \in {y, z} : IsLexer(w) /\ w.buffer = <<>> /\ w.high = 0 /\ w.token = "none" /\ w.mode = m
    BY <1>1, <2>1, <2>2 DEF Same, LexerFields
  <2>4. m \in LexerModes /\ m \notin InString /\ m \notin PairModes /\ m # "hex" /\ m # "tail" /\ m # "literal"
    BY DEF LexerModes, InString, PairModes, BomModes
  <2>5. <<>> \in Seq(Int)
    OBVIOUS
  <2>6. \A w \in {y, z} : Outcome(w)
    BY <2>3, <2>4, <2>5 DEF Outcome, LexOK
  <2> QED
    BY <2>6 DEF y, z
<1>3. Outcome(Fail(x))
  BY <1>1, FailOK DEF LexOK
<1> QED
  BY <1>2, <1>3 DEF BomByte

(* What modes of the lexer are none of.                                    *)
LEMMA ModeFacts ==
  ASSUME NEW m
  PROVE  /\ m \in NumberModes =>
               m \in LexerModes /\ m \notin {"hex", "tail", "literal", "start"} \cup BomModes \cup InString
         /\ m \in InString => m \in LexerModes /\ m \notin {"tail", "literal", "start"} \cup BomModes
         /\ m \in {"tail", "literal", "start"} => m \in LexerModes /\ m \notin BomModes \cup InString
         /\ PairModes \cup {"hex"} \subseteq InString
<1>1. NumberModes = {"minus", "zero", "any1", "decimal1", "decimal2", "exponent", "sign", "any2"}
  <2>1. NumberModes \subseteq {"minus", "zero", "any1", "decimal1", "decimal2", "exponent", "sign", "any2"}
    BY DEF NumberModes, NumberMoves
  <2>2. /\ <<"minus", {Zero}, "zero">> \in NumberMoves /\ <<"zero", {Dot}, "decimal1">> \in NumberMoves
        /\ <<"any1", {Dot}, "decimal1">> \in NumberMoves /\ <<"decimal1", Digits, "decimal2">> \in NumberMoves
        /\ <<"decimal2", Digits, "decimal2">> \in NumberMoves /\ <<"exponent", Digits, "any2">> \in NumberMoves
        /\ <<"sign", Digits, "any2">> \in NumberMoves /\ <<"any2", Digits, "any2">> \in NumberMoves
    BY DEF NumberMoves
  <2> QED
    BY <2>1, <2>2 DEF NumberModes
<1> QED
  BY <1>1 DEF LexerModes, InString, BomModes, PairModes

(* A number has the sign, digits and letters of a number.                  *)
LEMMA NumberOK ==
  ASSUME NEW x, LexOK(x), NEW c, x.mode \in NumberModes
  PROVE  Outcome(NumberByte(x, c))
<1> DEFINE moves == {move \in NumberMoves : move[1] = x.mode /\ c \in move[2]}
           next == (CHOOSE move \in moves : TRUE)[3]
<1>1. IsLexer(x) /\ x.buffer \in Seq(Int) /\ x.token = "none" /\ x.high = 0
  BY ModeFacts DEF LexOK
<1>2. CASE moves # {}
  <2>1. (CHOOSE move \in moves : TRUE) \in moves
    BY <1>2
  <2>2. \A move \in NumberMoves : move[3] \in NumberModes /\ move[2] \subseteq Int
    BY DEF NumberModes, NumberMoves, Digits, NonZero, Zero, Dot, LowerE, UpperE, Plus, Hyphen
  <2>3. c \in Int /\ next \in NumberModes
    BY <2>1, <2>2
  <2>4. NumberByte(x, c) = In(Add(x, <<c>>), next)
    BY <1>2 DEF NumberByte
  <2> HIDE DEF next
  <2> DEFINE y == Add(x, <<c>>)
             z == In(y, next)
  <2>5. Same(y, x, {"buffer"}) /\ y.buffer = x.buffer \o <<c>>
    BY <1>1, AddOnly
  <2> HIDE DEF y
  <2>6. Same(z, y, {"mode"}) /\ z.mode = next
    <3>1. IsLexer(y)
      BY <2>5 DEF Same
    <3> QED
      BY <3>1, SomeOnly, Zenon
  <2> HIDE DEF z
  <2>7. IsLexer(z) /\ z.token = "none" /\ z.high = 0 /\ z.buffer = x.buffer \o <<c>>
    BY <1>1, <2>5, <2>6 DEF Same, LexerFields
  <2>8. x.buffer \o <<c>> \in Seq(Int)
    BY <1>1, <2>3, ConcatProperties
  <2>9. Outcome(z)
    BY <2>3, <2>6, <2>7, <2>8, ModeFacts DEF Outcome, LexOK
  <2> QED
    BY <2>4, <2>9 DEF y, z
<1>3. CASE moves = {} /\ x.mode \in NumberEnds
  <2>1. NumberToken(x.buffer) \in {"value_unsigned", "value_integer", "value_float"}
    BY DEF NumberToken
  <2>2. NumberByte(x, c) = Unget(Emit(x, NumberToken(x.buffer)))
    BY <1>3 DEF NumberByte
  <2> QED
    BY <1>1, <2>1, <2>2, EmitOK
<1>4. CASE moves = {} /\ x.mode \notin NumberEnds
  <2>1. NumberByte(x, c) = Fail(x)
    BY <1>4 DEF NumberByte
  <2> QED
    BY <1>1, <2>1, FailOK
<1> QED
  BY <1>2, <1>3, <1>4

(* A byte of a literal, and the first byte of a token.                     *)
LEMMA LiteralByteOK ==
  ASSUME NEW x, LexOK(x), NEW c, x.mode = "literal"
  PROVE  Outcome(LiteralByte(x, c))
<1>1. IsLexer(x) /\ x.buffer \in Seq(Int) /\ x.token = "none" /\ x.high = 0 /\ x.literal \in LiteralTokens
  BY ModeFacts DEF LexOK
<1>2. Outcome(Fail(x))
  BY <1>1, FailOK
<1>3. Outcome(Emit(x, x.literal))
  BY <1>1, EmitOK DEF LiteralTokens
<1>4. Outcome([x EXCEPT !.rest = Tail(@)])
  <2> DEFINE y == SetRest(x, Tail(x.rest))
  <2>1. [x EXCEPT !.rest = Tail(@)] = y
    BY DEF SetRest
  <2>2. Same(y, x, {"rest"})
    BY <1>1, SetRestOnly
  <2> HIDE DEF y
  <2>3. /\ IsLexer(y) /\ y.buffer = x.buffer /\ y.token = "none" /\ y.mode = "literal"
        /\ y.high = 0 /\ y.literal = x.literal
    BY <1>1, <2>2 DEF Same, LexerFields
  <2>4. Outcome(y)
    BY <1>1, <2>3, ModeFacts DEF Outcome, LexOK
  <2> QED
    BY <2>1, <2>4
<1> QED
  BY <1>2, <1>3, <1>4 DEF LiteralByte

LEMMA StartByteOK ==
  ASSUME NEW x, LexOK(x), NEW c, x.mode = "start"
  PROVE  Outcome(StartByte(x, c))
<1>1. IsLexer(x) /\ x.buffer = <<>> /\ x.buffer \in Seq(Int) /\ x.token = "none" /\ x.high = 0
  BY ModeFacts DEF LexOK
<1>2. Outcome(Fail(x)) /\ Outcome(x) /\ Outcome(Emit(x, "end_of_input"))
  BY <1>1, FailOK, EmitOK DEF Outcome
<1>3. c \in DOMAIN Structural => Outcome(Emit(x, Structural[c]))
  <2> SUFFICES ASSUME c \in DOMAIN Structural
               PROVE  Outcome(Emit(x, Structural[c]))
    OBVIOUS
  <2>1. Structural[c] \in {"begin_array", "end_array", "begin_object",
                          "end_object", "name_separator", "value_separator"}
    BY DEF Structural
  <2> QED
    BY <1>1, <2>1, EmitOK
<1>4. ASSUME NEW word, NEW token \in LiteralTokens
      PROVE  Outcome(Literal(x, word, token))
  <2> DEFINE y == Literal(x, word, token)
  <2>1. Same(y, x, {"mode", "rest", "literal"}) /\ y.mode = "literal" /\ y.literal = token
    BY <1>1, LiteralOnly
  <2> HIDE DEF y
  <2>2. IsLexer(y) /\ y.buffer = <<>> /\ y.token = "none" /\ y.high = 0
    BY <1>1, <2>1 DEF Same, LexerFields
  <2>3. Outcome(y)
    BY <1>1, <2>1, <2>2, ModeFacts DEF Outcome, LexOK
  <2> QED
    BY <2>3 DEF y
<1>5. Outcome(In(x, "string"))
  <2> DEFINE y == In(x, "string")
  <2>1. Same(y, x, {"mode"}) /\ y.mode = "string"
    BY <1>1, SomeOnly
  <2> HIDE DEF y
  <2>2. IsLexer(y) /\ y.buffer = <<>> /\ y.token = "none" /\ y.high = 0
    BY <1>1, <2>1 DEF Same, LexerFields
  <2>3. Decodes(<<>>)
    BY DecodedEmpty DEF Decodes
  <2>4. "string" \in InString /\ "string" # "hex" /\ "string" \notin PairModes
    BY DEF InString, PairModes
  <2>5. Outcome(y)
    BY <1>1, <2>1, <2>2, <2>3, <2>4, ModeFacts DEF Outcome, LexOK
  <2> QED
    BY <2>5 DEF y
<1>6. c = Hyphen \/ c \in Digits => Outcome(In(Add(x, <<c>>), NumberStart(c)))
  <2> SUFFICES ASSUME c = Hyphen \/ c \in Digits
               PROVE  Outcome(In(Add(x, <<c>>), NumberStart(c)))
    OBVIOUS
  <2> DEFINE y == Add(x, <<c>>)
             z == In(y, NumberStart(c))
  <2>1. c \in Int /\ NumberStart(c) \in {"minus", "zero", "any1"}
    BY DEF Hyphen, Digits, NumberStart, Zero, NonZero
  <2>2. NumberStart(c) \in NumberModes
    <3>1. /\ <<"minus", {Zero}, "zero">> \in NumberMoves /\ <<"zero", {Dot}, "decimal1">> \in NumberMoves
          /\ <<"any1", {Dot}, "decimal1">> \in NumberMoves
      BY DEF NumberMoves
    <3> QED
      BY <2>1, <3>1 DEF NumberModes
  <2>3. Same(y, x, {"buffer"}) /\ y.buffer = x.buffer \o <<c>>
    BY <1>1, AddOnly
  <2> HIDE DEF y
  <2>4. Same(z, y, {"mode"}) /\ z.mode = NumberStart(c)
    <3>1. IsLexer(y)
      BY <2>3 DEF Same
    <3> QED
      BY <3>1, SomeOnly, Zenon
  <2> HIDE DEF z
  <2>5. IsLexer(z) /\ z.token = "none" /\ z.high = 0 /\ z.buffer = x.buffer \o <<c>>
    BY <1>1, <2>3, <2>4 DEF Same, LexerFields
  <2>6. x.buffer \o <<c>> \in Seq(Int)
    BY <1>1, <2>1, ConcatProperties
  <2>7. Outcome(z)
    BY <2>2, <2>4, <2>5, <2>6, ModeFacts DEF Outcome, LexOK
  <2> QED
    BY <2>7 DEF y, z
<1> QED
  BY <1>2, <1>3, <1>4, <1>5, <1>6 DEF StartByte, LiteralTokens

(* A byte that goes into the buffer as it is.                              *)
LEMMA AddByte ==
  ASSUME NEW x, LexOK(x), x.mode \in {"string", "tail"}, NEW c \in Int
  PROVE  LET y == Add(x, <<c>>)
         IN  Same(y, x, {"buffer"}) /\ y.buffer = Append(x.buffer, c) /\ y.buffer \in Seq(Int)
             /\ Decoded(y.buffer) = Decode(Decoded(x.buffer), c)
<1> DEFINE y == Add(x, <<c>>)
<1>1. IsLexer(x) /\ x.buffer \in Seq(Int)
  BY DEF LexOK
<1>2. Same(y, x, {"buffer"}) /\ y.buffer = x.buffer \o <<c>>
  BY <1>1, AddOnly
<1> HIDE DEF y
<1>3. x.buffer \o <<c>> = Append(x.buffer, c)
  BY <1>1, AppendLast
<1>4. Append(x.buffer, c) \in Seq(Int) /\ Decoded(Append(x.buffer, c)) = Decode(Decoded(x.buffer), c)
  BY <1>1, DecodedAppend
<1>5. y.buffer = Append(x.buffer, c)
  BY <1>2, <1>3
<1> QED
  BY <1>2, <1>4, <1>5 DEF y

(* What the lexer knows inside a string, and what it must know there.      *)
LEMMA StringMode ==
  ASSUME NEW x, LexOK(x), x.mode \in {"string", "escape"}
  PROVE  IsLexer(x) /\ x.buffer \in Seq(Int) /\ x.token = "none" /\ x.high = 0 /\ Decodes(x.buffer)
BY DEF LexOK, InString, PairModes

LEMMA TailMode ==
  ASSUME NEW x, LexOK(x), x.mode = "tail"
  PROVE  IsLexer(x) /\ x.buffer \in Seq(Int) /\ x.token = "none" /\ x.high = 0
         /\ Follows(x.rest, Decoded(x.buffer))
BY DEF LexOK, InString, PairModes

LEMMA StringMade ==
  ASSUME NEW y, IsLexer(y), y.token = "none", y.high = 0, y.buffer \in Seq(Int), Decodes(y.buffer),
         y.mode \in {"string", "escape"}
  PROVE  LexOK(y) /\ Outcome(y)
<1>1. y.mode \in InString /\ y.mode # "hex" /\ y.mode \notin PairModes
  BY DEF InString, PairModes
<1>2. LexOK(y)
  BY <1>1, ModeFacts DEF LexOK
<1> QED
  BY <1>2 DEF Outcome

LEMMA TailMade ==
  ASSUME NEW y, IsLexer(y), y.token = "none", y.high = 0, y.buffer \in Seq(Int),
         y.mode = "tail", Follows(y.rest, Decoded(y.buffer))
  PROVE  LexOK(y) /\ Outcome(y)
<1>1. "tail" \notin InString /\ "tail" # "hex" /\ "tail" \notin PairModes
  BY DEF InString, PairModes
<1>2. LexOK(y)
  BY <1>1, ModeFacts DEF LexOK
<1> QED
  BY <1>2 DEF Outcome

(* A lead byte, a plain byte.                                              *)
LEMMA LeadMade ==
  ASSUME NEW x, LexOK(x), x.mode = "string", NEW c \in LeadBytes
  PROVE  LET y == [Add(x, <<c>>) EXCEPT !.mode = "tail", !.rest = Tails(c)]
         IN  LexOK(y) /\ y.mode = "tail" /\ y.buffer = Append(x.buffer, c) /\ y.again = x.again
             /\ Decoded(y.buffer) = Decode(Accept, c) /\ Decode(Accept, c) # Accept
<1> DEFINE w == Add(x, <<c>>)
           v == SetMode(w, "tail")
           y == SetRest(v, Tails(c))
<1>1. IsLexer(x) /\ x.buffer \in Seq(Int) /\ x.token = "none" /\ x.high = 0 /\ Decoded(x.buffer) = Accept
  BY StringMode DEF Decodes
<1>2. c \in Int
  BY DEF LeadBytes
<1>3. Same(w, x, {"buffer"}) /\ w.buffer = Append(x.buffer, c) /\ w.buffer \in Seq(Int)
      /\ Decoded(w.buffer) = Decode(Accept, c)
  BY <1>1, <1>2, AddByte
<1>4. [Add(x, <<c>>) EXCEPT !.mode = "tail", !.rest = Tails(c)] = y
  BY DEF SetMode, SetRest
<1> HIDE DEF w
<1>5. Same(v, w, {"mode"}) /\ v.mode = "tail"
  BY <1>3, SetModeOnly DEF Same
<1> HIDE DEF v
<1>6. Same(y, v, {"rest"}) /\ y.rest = Tails(c)
  BY <1>5, SetRestOnly DEF Same
<1> HIDE DEF y
<1>7. /\ IsLexer(y) /\ y.token = "none" /\ y.high = 0 /\ y.buffer = w.buffer /\ y.mode = "tail"
      /\ y.again = x.again
  BY <1>1, <1>3, <1>5, <1>6 DEF Same, LexerFields
<1>8. Follows(Tails(c), Decode(Accept, c))
  BY LeadFollows
<1>9. LexOK(y)
  BY <1>3, <1>6, <1>7, <1>8, TailMade
<1>10. Decode(Accept, c) # Accept
  BY <1>8 DEF Follows, Accept
<1> QED
  BY <1>3, <1>4, <1>7, <1>9, <1>10

LEMMA PlainMade ==
  ASSUME NEW x, LexOK(x), x.mode = "string", NEW c \in 32 .. 127
  PROVE  LET y == Add(x, <<c>>)
         IN  LexOK(y) /\ y.mode = "string" /\ y.buffer = Append(x.buffer, c) /\ y.again = x.again
             /\ Decoded(y.buffer) = Accept
<1> DEFINE y == Add(x, <<c>>)
<1>1. IsLexer(x) /\ x.buffer \in Seq(Int) /\ x.token = "none" /\ x.high = 0 /\ Decoded(x.buffer) = Accept
  BY StringMode DEF Decodes
<1>2. c \in Int /\ Decode(Accept, c) = Accept
  BY PlainDecodes
<1>3. Same(y, x, {"buffer"}) /\ y.buffer = Append(x.buffer, c) /\ y.buffer \in Seq(Int)
      /\ Decoded(y.buffer) = Accept
  BY <1>1, <1>2, AddByte
<1> HIDE DEF y
<1>4. IsLexer(y) /\ y.token = "none" /\ y.high = 0 /\ y.mode = "string" /\ y.again = x.again
  BY <1>1, <1>3 DEF Same, LexerFields
<1>5. LexOK(y)
  BY <1>3, <1>4, StringMade DEF Decodes
<1> QED
  BY <1>3, <1>4, <1>5 DEF y

(* The bytes of a string by the mode they are met in.                      *)
LEMMA InOK ==
  ASSUME NEW x, LexOK(x), x.mode \in {"string", "escape"}, NEW m \in {"string", "escape"}
  PROVE  Outcome(In(x, m))
<1> DEFINE y == In(x, m)
<1>1. IsLexer(x) /\ x.buffer \in Seq(Int) /\ x.token = "none" /\ x.high = 0 /\ Decodes(x.buffer)
  BY StringMode
<1>2. Same(y, x, {"mode"}) /\ y.mode = m
  BY <1>1, SomeOnly, Zenon
<1> HIDE DEF y
<1>3. IsLexer(y) /\ y.token = "none" /\ y.high = 0 /\ y.buffer = x.buffer
  BY <1>1, <1>2 DEF Same, LexerFields
<1>4. Outcome(y)
  BY <1>1, <1>2, <1>3, StringMade
<1> QED
  BY <1>4 DEF y

LEMMA PlainByteOK ==
  ASSUME NEW x, LexOK(x), NEW c, x.mode = "string"
  PROVE  Outcome(PlainByte(x, c))
<1>1. IsLexer(x) /\ x.buffer \in Seq(Int) /\ x.token = "none" /\ x.high = 0 /\ Decodes(x.buffer)
  BY StringMode
<1>2. Outcome(Fail(x)) /\ Outcome(Emit(x, "value_string")) /\ Outcome(In(x, "escape"))
  BY <1>1, FailOK, EmitOK, InOK
<1>3. c \in LeadBytes => Outcome([Add(x, <<c>>) EXCEPT !.mode = "tail", !.rest = Tails(c)])
  BY LeadMade DEF Outcome, LexOK
<1>4. c \in 32 .. 127 => Outcome(Add(x, <<c>>))
  BY PlainMade DEF Outcome, LexOK
<1> QED
  BY <1>2, <1>3, <1>4 DEF PlainByte

(* A byte that must follow.                                                *)
LEMMA TailMore ==
  ASSUME NEW x, LexOK(x), x.mode = "tail", NEW c \in Head(x.rest)[1] .. Head(x.rest)[2]
  PROVE  LET y == TailByte(x, c)
         IN  LexOK(y) /\ y.mode \in {"string", "tail"} /\ y.buffer = Append(x.buffer, c) /\ y.again = x.again
             /\ Decoded(y.buffer) = Decode(Decoded(x.buffer), c)
             /\ (y.mode = "string" <=> Decoded(y.buffer) = Accept)
<1> DEFINE w == Add(x, <<c>>)
           mode == IF Len(x.rest) = 1 THEN "string" ELSE "tail"
           rest == Tail(x.rest)
           v == SetRest(w, rest)
           y == SetMode(v, mode)
<1>1. IsLexer(x) /\ x.buffer \in Seq(Int) /\ x.token = "none" /\ x.high = 0
      /\ Follows(x.rest, Decoded(x.buffer))
  BY TailMode
<1>2. c \in Int
  BY <1>1 DEF Follows
<1>3. Same(w, x, {"buffer"}) /\ w.buffer = Append(x.buffer, c) /\ w.buffer \in Seq(Int)
      /\ Decoded(w.buffer) = Decode(Decoded(x.buffer), c)
  BY <1>1, <1>2, AddByte
<1>4. w.rest = x.rest
  BY <1>3 DEF Same, LexerFields
<1>5. TailByte(x, c) = y
  BY <1>4 DEF TailByte, SetMode, SetRest
<1>6. IF Len(x.rest) = 1 THEN Decode(Decoded(x.buffer), c) = Accept
      ELSE Follows(rest, Decode(Decoded(x.buffer), c))
  BY <1>1, <1>2, TailFollows
<1>7. mode \in {"string", "tail"} /\ (mode = "string" <=> Len(x.rest) = 1)
  OBVIOUS
<1> HIDE DEF w, mode, rest
<1>8. Same(v, w, {"rest"}) /\ v.rest = rest
  BY <1>3, SetRestOnly DEF Same
<1> HIDE DEF v
<1>9. Same(y, v, {"mode"}) /\ y.mode = mode
  BY <1>8, SetModeOnly DEF Same
<1> HIDE DEF y
<1>10. /\ IsLexer(y) /\ y.token = "none" /\ y.high = 0 /\ y.buffer = w.buffer /\ y.rest = rest
       /\ y.again = x.again
  BY <1>1, <1>3, <1>8, <1>9 DEF Same, LexerFields
<1>11. CASE Len(x.rest) = 1
  <2>1. y.mode = "string" /\ Decoded(y.buffer) = Accept
    BY <1>3, <1>6, <1>7, <1>9, <1>10, <1>11
  <2>2. LexOK(y)
    BY <1>3, <1>10, <2>1, StringMade DEF Decodes
  <2> QED
    BY <1>3, <1>5, <1>10, <2>1, <2>2
<1>12. CASE Len(x.rest) # 1
  <2>1. y.mode = "tail" /\ Follows(y.rest, Decoded(y.buffer))
    BY <1>3, <1>6, <1>7, <1>9, <1>10, <1>12
  <2>2. LexOK(y)
    BY <1>3, <1>10, <2>1, TailMade
  <2>3. Decoded(y.buffer) # Accept
    BY <2>1 DEF Follows, Accept
  <2> QED
    BY <1>3, <1>5, <1>10, <2>1, <2>2, <2>3
<1> QED
  BY <1>11, <1>12

LEMMA TailByteOK ==
  ASSUME NEW x, LexOK(x), NEW c, x.mode = "tail"
  PROVE  Outcome(TailByte(x, c))
<1>1. CASE c \in Head(x.rest)[1] .. Head(x.rest)[2]
  BY <1>1, TailMore DEF Outcome, LexOK
<1>2. CASE c \notin Head(x.rest)[1] .. Head(x.rest)[2]
  <2>1. TailByte(x, c) = Fail(x)
    BY <1>2 DEF TailByte
  <2> QED
    BY <2>1, TailMode, FailOK
<1> QED
  BY <1>1, <1>2

(* The modes of an escaped code point.                                     *)
LEMMA HexMade ==
  ASSUME NEW y, IsLexer(y), y.token = "none", y.high = 0 \/ (IsHigh(y.high) /\ y.high \in Int),
         y.buffer \in Seq(Int), Decodes(y.buffer), y.mode = "hex", HexOK(y.code, y.left)
  PROVE  Outcome(y)
<1>1. "hex" \in InString /\ "hex" \notin PairModes
  BY DEF InString, PairModes
<1>2. LexOK(y)
  BY <1>1, ModeFacts DEF LexOK
<1> QED
  BY <1>2 DEF Outcome

LEMMA PairMade ==
  ASSUME NEW y, IsLexer(y), y.token = "none", IsHigh(y.high) /\ y.high \in Int,
         y.buffer \in Seq(Int), Decodes(y.buffer), y.mode \in PairModes
  PROVE  Outcome(y)
<1>1. y.mode \in InString /\ y.mode # "hex"
  BY DEF InString, PairModes
<1>2. LexOK(y)
  BY <1>1, ModeFacts DEF LexOK
<1> QED
  BY <1>2 DEF Outcome

(* \u: four digits are to follow.                                          *)
LEMMA HexStart ==
  ASSUME NEW x, IsLexer(x), x.token = "none", x.high = 0 \/ (IsHigh(x.high) /\ x.high \in Int),
         x.buffer \in Seq(Int), Decodes(x.buffer)
  PROVE  Outcome([x EXCEPT !.mode = "hex", !.code = 0, !.left = 4])
<1> DEFINE w == SetMode(x, "hex")
           v == SetCode(w, 0)
           y == SetLeft(v, 4)
<1>1. [x EXCEPT !.mode = "hex", !.code = 0, !.left = 4] = y
  BY DEF SetMode, SetCode, SetLeft
<1>2. Same(w, x, {"mode"}) /\ w.mode = "hex"
  BY SetModeOnly
<1> HIDE DEF w
<1>3. Same(v, w, {"code"}) /\ v.code = 0
  BY <1>2, SetCodeOnly DEF Same
<1> HIDE DEF v
<1>4. Same(y, v, {"left"}) /\ y.left = 4
  BY <1>3, SetLeftOnly DEF Same
<1> HIDE DEF y
<1>5. /\ IsLexer(y) /\ y.token = "none" /\ y.high = x.high /\ y.buffer = x.buffer
      /\ y.mode = "hex" /\ y.code = 0
  BY <1>2, <1>3, <1>4 DEF Same, LexerFields
<1>6. HexOK(0, 4)
  BY DEF HexOK
<1>7. Outcome(y)
  BY <1>4, <1>5, <1>6, HexMade
<1> QED
  BY <1>1, <1>7

LEMMA EscapeByteOK ==
  ASSUME NEW x, LexOK(x), NEW c, x.mode = "escape"
  PROVE  Outcome(EscapeByte(x, c))
<1>1. IsLexer(x) /\ x.buffer \in Seq(Int) /\ x.token = "none" /\ x.high = 0 /\ Decodes(x.buffer)
  BY StringMode
<1>2. Outcome(Fail(x)) /\ Outcome([x EXCEPT !.mode = "hex", !.code = 0, !.left = 4])
  <2>1. Outcome(Fail(x))
    BY <1>1, FailOK
  <2>2. Outcome([x EXCEPT !.mode = "hex", !.code = 0, !.left = 4])
    <3>1. x.high = 0 \/ (IsHigh(x.high) /\ x.high \in Int)
      BY <1>1
    <3>2. IsLexer(x) /\ x.buffer \in Seq(Int) /\ x.token = "none" /\ Decodes(x.buffer)
      BY <1>1
    <3> QED
      BY <3>1, <3>2, HexStart
  <2> QED
    BY <2>1, <2>2
<1>3. c \in DOMAIN Escapes => Outcome(In(Add(x, <<Escapes[c]>>), "string"))
  <2> SUFFICES ASSUME c \in DOMAIN Escapes
               PROVE  Outcome(In(Add(x, <<Escapes[c]>>), "string"))
    OBVIOUS
  <2> DEFINE e == Escapes[c]
             y == Add(x, <<e>>)
             z == In(y, "string")
  <2>1. e \in Int /\ e < 128
    BY DEF Escapes
  <2> HIDE DEF e
  <2>2. Decode(Accept, e) = Accept
    BY <2>1, PlainDecodes
  <2>3. Same(y, x, {"buffer"}) /\ y.buffer = x.buffer \o <<e>>
    BY <1>1, AddOnly
  <2>4. x.buffer \o <<e>> = Append(x.buffer, e)
    BY <1>1, <2>1, AppendLast
  <2>5. Append(x.buffer, e) \in Seq(Int) /\ Decodes(Append(x.buffer, e))
    BY <1>1, <2>1, <2>2, DecodedAppend DEF Decodes
  <2> HIDE DEF y
  <2>6. IsLexer(y)
    BY <2>3 DEF Same
  <2>7. Same(z, y, {"mode"}) /\ z.mode = "string"
    BY <2>6, SomeOnly, Zenon
  <2> HIDE DEF z
  <2>8. IsLexer(z) /\ z.token = "none" /\ z.high = 0 /\ z.buffer = Append(x.buffer, e)
    BY <1>1, <2>3, <2>4, <2>7 DEF Same, LexerFields
  <2>9. Outcome(z)
    BY <2>5, <2>7, <2>8, StringMade
  <2> QED
    BY <2>9 DEF e, y, z
<1> QED
  BY <1>2, <1>3 DEF EscapeByte

LEMMA PairByteOK ==
  ASSUME NEW x, LexOK(x), NEW c, x.mode \in PairModes
  PROVE  Outcome(PairByte(x, c))
<1>1. IsLexer(x) /\ x.buffer \in Seq(Int) /\ x.token = "none" /\ IsHigh(x.high) /\ x.high \in Int
      /\ Decodes(x.buffer)
  BY ModeFacts DEF LexOK
<1>2. Outcome(Fail(x)) /\ Outcome([x EXCEPT !.mode = "hex", !.code = 0, !.left = 4])
  BY <1>1, FailOK, HexStart
<1>3. Outcome(In(x, "pairU"))
  <2> DEFINE y == In(x, "pairU")
  <2>1. Same(y, x, {"mode"}) /\ y.mode = "pairU"
    BY <1>1, SomeOnly, Zenon
  <2> HIDE DEF y
  <2>2. IsLexer(y) /\ y.token = "none" /\ y.high = x.high /\ y.buffer = x.buffer
    BY <1>1, <2>1 DEF Same, LexerFields
  <2>3. Outcome(y)
    BY <1>1, <2>1, <2>2, PairMade DEF PairModes
  <2> QED
    BY <2>3 DEF y
<1> QED
  BY <1>2, <1>3 DEF PairByte

(* Four digits: what they stand for can be encoded.                        *)
FourDigits(code) == code \in Nat /\ code < 65536

CodeRead(x) == IF x.high = 0 THEN x.code ELSE x.high * 1024 + x.code - 56613888

LEMMA CodePointCases ==
  ASSUME NEW x, x.code \in Nat
  PROVE  CodePoint(x) =
                IF x.high = 0 /\ IsHigh(x.code) THEN [x EXCEPT !.mode = "pair", !.high = x.code]
                ELSE IF (x.high = 0 <=> IsLow(x.code)) THEN Fail(x)
                ELSE [In(Add(x, Encode(CodeRead(x))), "string") EXCEPT !.high = 0, !.code = 0]
<1> DEFINE complete == [In(Add(x, Encode(CodeRead(x))), "string") EXCEPT !.high = 0, !.code = 0]
           pair == [x EXCEPT !.mode = "pair", !.high = x.code]
<1>1. IsHigh(x.code) => ~IsLow(x.code)
  BY SMT DEF IsLow, IsHigh
<1>2. CodePoint(x) = CASE x.high = 0 /\ IsHigh(x.code) -> pair
                       [] x.high = 0 /\ IsLow(x.code)   -> Fail(x)
                       [] x.high # 0 /\ ~IsLow(x.code)  -> Fail(x)
                       [] OTHER -> complete
  BY DEF CodePoint, CodeRead
<1> HIDE DEF complete, pair
<1>3. CodePoint(x) = IF x.high = 0 /\ IsHigh(x.code) THEN pair
                     ELSE IF (x.high = 0 <=> IsLow(x.code)) THEN Fail(x) ELSE complete
  <2>1. CASE x.high = 0 /\ IsHigh(x.code)
    BY <1>1, <1>2, <2>1
  <2>2. CASE x.high = 0 /\ ~IsHigh(x.code) /\ IsLow(x.code)
    BY <1>2, <2>2
  <2>3. CASE x.high # 0 /\ ~IsLow(x.code)
    BY <1>2, <2>3
  <2>4. CASE IF x.high = 0 THEN ~IsHigh(x.code) /\ ~IsLow(x.code) ELSE IsLow(x.code)
    BY <1>2, <2>4
  <2> QED
    BY <2>1, <2>2, <2>3, <2>4
<1> QED
  BY <1>3 DEF complete, pair

LEMMA CompleteOK ==
  ASSUME NEW x, IsLexer(x), x.token = "none", NEW e,
         x.buffer \o e \in Seq(Int), Decodes(x.buffer \o e)
  PROVE  Outcome([In(Add(x, e), "string") EXCEPT !.high = 0, !.code = 0])
<1> DEFINE w == Add(x, e)
           v == In(w, "string")
           u == SetHigh(v, 0)
           y == SetCode(u, 0)
<1>1. [In(Add(x, e), "string") EXCEPT !.high = 0, !.code = 0] = y
  BY DEF SetHigh, SetCode
<1>2. Same(w, x, {"buffer"}) /\ w.buffer = x.buffer \o e
  BY AddOnly
<1> HIDE DEF w
<1>3. IsLexer(w)
  BY <1>2 DEF Same
<1>4. Same(v, w, {"mode"}) /\ v.mode = "string"
  BY <1>3, SomeOnly, Zenon
<1> HIDE DEF v
<1>5. Same(u, v, {"high"}) /\ u.high = 0
  BY <1>4, SetHighOnly DEF Same
<1> HIDE DEF u
<1>6. Same(y, u, {"code"})
  BY <1>5, SetCodeOnly DEF Same
<1> HIDE DEF y
<1>7. /\ IsLexer(y) /\ y.token = "none" /\ y.high = 0 /\ y.mode = "string"
      /\ y.buffer = x.buffer \o e
  BY <1>2, <1>4, <1>5, <1>6 DEF Same, LexerFields
<1>8. Outcome(y)
  BY <1>7, StringMade
<1> QED
  BY <1>1, <1>8

(* The first half of a pair waits for the second; a second half alone, or  *)
(* a first half before anything else, fails; the rest is encoded.          *)
LEMMA CodePointOK ==
  ASSUME NEW x, IsLexer(x), x.token = "none", x.high = 0 \/ (IsHigh(x.high) /\ x.high \in Int),
         x.buffer \in Seq(Int), Decodes(x.buffer), FourDigits(x.code)
  PROVE  Outcome(CodePoint(x))
<1> DEFINE cp == CodeRead(x)
<1>1. Outcome(Fail(x))
  BY FailOK
<1>2. x.code \in Nat
  BY DEF FourDigits
<1>3. ASSUME x.high = 0, IsHigh(x.code)
      PROVE  Outcome([x EXCEPT !.mode = "pair", !.high = x.code])
  <2> DEFINE a == SetMode(x, "pair")
             b == SetHigh(a, x.code)
  <2>1. [x EXCEPT !.mode = "pair", !.high = x.code] = b
    BY DEF SetMode, SetHigh
  <2>2. Same(a, x, {"mode"}) /\ a.mode = "pair"
    BY SetModeOnly
  <2> HIDE DEF a
  <2>3. Same(b, a, {"high"}) /\ b.high = x.code
    BY <2>2, SetHighOnly DEF Same
  <2> HIDE DEF b
  <2>4. IsLexer(b) /\ b.token = "none" /\ b.buffer = x.buffer /\ b.mode = "pair"
    BY <2>2, <2>3 DEF Same, LexerFields
  <2>5. b.mode \in PairModes /\ IsHigh(b.high) /\ b.high \in Int
    BY <1>3, <1>2, <2>3, <2>4 DEF PairModes
  <2>6. Outcome(b)
    BY <2>4, <2>5, PairMade
  <2> QED
    BY <2>1, <2>6
<1>4. ASSUME IF x.high = 0 THEN ~IsHigh(x.code) /\ ~IsLow(x.code) ELSE IsLow(x.code)
      PROVE  Outcome([In(Add(x, Encode(cp)), "string") EXCEPT !.high = 0, !.code = 0])
  <2>1. IsCodePoint(cp)
    <3>1. CASE x.high = 0
      BY <1>4, <3>1, SMT DEF IsCodePoint, IsHigh, IsLow, FourDigits, CodeRead
    <3>2. CASE x.high # 0
      <4>1. x.high \in Int /\ 55296 <= x.high /\ x.high <= 56319 /\ 56320 <= x.code /\ x.code <= 57343
        BY <1>4, <1>2, <3>2, SMT DEF IsHigh, IsLow
      <4>2. cp = x.high * 1024 + x.code - 56613888
        BY <3>2, SMT DEF CodeRead
      <4>3. cp \in Int /\ 65536 <= cp /\ cp <= 1114111
        BY <1>2, <4>1, <4>2, SMT
      <4> QED
        BY <4>3, SMT DEF IsCodePoint, IsHigh, IsLow
    <3> QED
      BY <3>1, <3>2
  <2> HIDE DEF cp
  <2>2. x.buffer \o Encode(cp) \in Seq(Int) /\ Decodes(x.buffer \o Encode(cp))
    BY <2>1, EncodeDecodes
  <2> QED
    BY <2>2, CompleteOK, Zenon
<1> HIDE DEF cp
<1>5. CodePoint(x) = IF x.high = 0 /\ IsHigh(x.code) THEN [x EXCEPT !.mode = "pair", !.high = x.code]
                     ELSE IF (x.high = 0 <=> IsLow(x.code)) THEN Fail(x)
                     ELSE [In(Add(x, Encode(CodeRead(x))), "string") EXCEPT !.high = 0, !.code = 0]
  BY <1>2, CodePointCases, Zenon
<1>6. CASE x.high = 0 /\ IsHigh(x.code)
  BY <1>3, <1>5, <1>6
<1>7. CASE ~(x.high = 0 /\ IsHigh(x.code)) /\ (x.high = 0 <=> IsLow(x.code))
  BY <1>1, <1>5, <1>7
<1>8. CASE ~(x.high = 0 /\ IsHigh(x.code)) /\ ~(x.high = 0 <=> IsLow(x.code))
  <2>1. IF x.high = 0 THEN ~IsHigh(x.code) /\ ~IsLow(x.code) ELSE IsLow(x.code)
    BY <1>8
  <2> QED
    BY <1>4, <1>5, <1>8, <2>1 DEF cp
<1> QED
  BY <1>6, <1>7, <1>8

LEMMA HexByteOK ==
  ASSUME NEW x, LexOK(x), NEW c, x.mode = "hex"
  PROVE  Outcome(HexByte(x, c))
<1>1. /\ IsLexer(x) /\ x.buffer \in Seq(Int) /\ x.token = "none" /\ Decodes(x.buffer)
      /\ HexOK(x.code, x.left) /\ (x.high = 0 \/ (IsHigh(x.high) /\ x.high \in Int))
  BY ModeFacts DEF LexOK
<1>2. CASE c \notin HexDigits
  <2>1. HexByte(x, c) = Fail(x)
    BY <1>2 DEF HexByte
  <2> QED
    BY <1>1, <2>1, FailOK
<1>3. CASE c \in HexDigits
  <2> DEFINE code == 16 * x.code + HexValue(c)
             left == x.left - 1
             w == SetCode(x, code)
             y == SetLeft(w, left)
  <2>1. HexValue(c) \in 0 .. 15
    BY <1>3 DEF HexDigits, HexValue, Digits
  <2>2. code \in Nat /\ (left = 0 => FourDigits(code)) /\ (left # 0 => HexOK(code, left))
    <3>1. /\ x.code \in Nat /\ x.left \in 1 .. 4
          /\ x.left = 4 => x.code < 1
          /\ x.left = 3 => x.code < 16
          /\ x.left = 2 => x.code < 256
          /\ x.left = 1 => x.code < 4096
      BY <1>1, SMT DEF HexOK
    <3>2. code \in Nat
      BY <2>1, <3>1, SMT
    <3>3. /\ x.left = 4 => code < 16 /\ left = 3
          /\ x.left = 3 => code < 256 /\ left = 2
          /\ x.left = 2 => code < 4096 /\ left = 1
          /\ x.left = 1 => code < 65536 /\ left = 0
      BY <2>1, <3>1, SMT
    <3> HIDE DEF code, left
    <3> QED
      BY <3>1, <3>2, <3>3, SMT DEF HexOK, FourDigits
  <2>3. [x EXCEPT !.code = 16 * @ + HexValue(c), !.left = @ - 1] = y
    <3>1. x.left = w.left
      BY <1>1, SetCodeOnly DEF Same, LexerFields
    <3> QED
      BY <3>1 DEF SetCode, SetLeft
  <2>4. HexByte(x, c) = IF y.left = 0 THEN CodePoint(y) ELSE y
    BY <1>3, <2>3 DEF HexByte
  <2> HIDE DEF code, left
  <2>5. Same(w, x, {"code"}) /\ w.code = code
    BY <1>1, SetCodeOnly
  <2> HIDE DEF w
  <2>6. Same(y, w, {"left"}) /\ y.left = left
    BY <2>5, SetLeftOnly DEF Same
  <2> HIDE DEF y
  <2>7. /\ IsLexer(y) /\ y.token = "none" /\ y.high = x.high /\ y.mode = "hex" /\ y.code = code
        /\ y.buffer = x.buffer
    BY <1>1, <1>3, <2>5, <2>6 DEF Same, LexerFields
  <2>8. CASE left = 0
    <3>1. Outcome(CodePoint(y))
      BY <1>1, <2>2, <2>7, <2>8, CodePointOK
    <3> QED
      BY <2>4, <2>6, <2>8, <3>1
  <2>9. CASE left # 0
    <3>1. Outcome(y)
      BY <1>1, <2>2, <2>6, <2>7, <2>9, HexMade
    <3> QED
      BY <2>4, <2>6, <2>9, <3>1
  <2> QED
    BY <2>8, <2>9
<1> QED
  BY <1>2, <1>3

(* The byte is noted first.                                                *)
Noted(x, c) == [x EXCEPT !.current = c, !.again = FALSE]

LEMMA NotedOK ==
  ASSUME NEW x, LexOK(x), NEW c
  PROVE  LET y == Noted(x, c)
         IN  LexOK(y) /\ Same(y, x, {"current", "again"}) /\ y.current = c /\ y.again = FALSE
<1> DEFINE w == SetCurrent(x, c)
           y == SetAgain(w, FALSE)
<1>1. Noted(x, c) = y
  BY DEF Noted, SetCurrent, SetAgain
<1>2. IsLexer(x)
  BY DEF LexOK
<1>3. Same(w, x, {"current"}) /\ w.current = c
  BY <1>2, SetCurrentOnly
<1> HIDE DEF w
<1>4. Same(y, w, {"again"}) /\ y.again = FALSE
  BY <1>3, SetAgainOnly DEF Same
<1> HIDE DEF y
<1>5. Same(y, x, {"current", "again"}) /\ y.current = c
  BY <1>3, <1>4 DEF Same, LexerFields
<1>6. /\ IsLexer(y) /\ y.token = x.token /\ y.mode = x.mode /\ y.buffer = x.buffer /\ y.rest = x.rest
      /\ y.literal = x.literal /\ y.code = x.code /\ y.left = x.left /\ y.high = x.high
  BY <1>5 DEF Same, LexerFields
<1>7. LexOK(y)
  BY <1>6 DEF LexOK
<1> QED
  BY <1>1, <1>4, <1>5, <1>7

(* Scan is the handler of the mode, and every handler is in order.         *)
LEMMA ScanCases ==
  ASSUME NEW x, LexOK(x), NEW c
  PROVE  LET y == Noted(x, c)
         IN  /\ x.mode \in BomModes => Scan(x, c) = BomByte(y, c)
             /\ x.mode = "start" => Scan(x, c) = StartByte(y, c)
             /\ x.mode = "literal" => Scan(x, c) = LiteralByte(y, c)
             /\ x.mode = "string" => Scan(x, c) = PlainByte(y, c)
             /\ x.mode = "tail" => Scan(x, c) = TailByte(y, c)
             /\ x.mode = "escape" => Scan(x, c) = EscapeByte(y, c)
             /\ x.mode = "hex" => Scan(x, c) = HexByte(y, c)
             /\ x.mode \in PairModes => Scan(x, c) = PairByte(y, c)
             /\ x.mode \in NumberModes => Scan(x, c) = NumberByte(y, c)
<1> DEFINE y == Noted(x, c)
<1>1. Scan(x, c) =
         CASE x.mode \in {"bom", "bom2", "bom3"} -> BomByte(y, c)
           [] x.mode = "start"             -> StartByte(y, c)
           [] x.mode = "literal"           -> LiteralByte(y, c)
           [] x.mode = "string"            -> PlainByte(y, c)
           [] x.mode = "tail"              -> TailByte(y, c)
           [] x.mode = "escape"            -> EscapeByte(y, c)
           [] x.mode = "hex"               -> HexByte(y, c)
           [] x.mode \in {"pair", "pairU"} -> PairByte(y, c)
           [] x.mode \in NumberModes       -> NumberByte(y, c)
  BY Zenon DEF Scan, Noted
<1>2. x.mode \in NumberModes =>
         x.mode \notin {"bom", "bom2", "bom3", "start", "literal", "string", "tail", "escape", "hex", "pair", "pairU"}
  BY ModeFacts DEF BomModes, InString, PairModes
<1> HIDE DEF y
<1>3. /\ x.mode \in BomModes => Scan(x, c) = BomByte(y, c)
      /\ x.mode = "start" => Scan(x, c) = StartByte(y, c)
      /\ x.mode = "literal" => Scan(x, c) = LiteralByte(y, c)
      /\ x.mode = "string" => Scan(x, c) = PlainByte(y, c)
      /\ x.mode = "tail" => Scan(x, c) = TailByte(y, c)
      /\ x.mode = "escape" => Scan(x, c) = EscapeByte(y, c)
      /\ x.mode = "hex" => Scan(x, c) = HexByte(y, c)
      /\ x.mode \in PairModes => Scan(x, c) = PairByte(y, c)
      /\ x.mode \in NumberModes => Scan(x, c) = NumberByte(y, c)
  BY <1>1, <1>2 DEF BomModes, PairModes
<1> QED
  BY <1>3 DEF y

LEMMA ScanOK ==
  ASSUME NEW x, LexOK(x), NEW c
  PROVE  Outcome(Scan(x, c))
<1> DEFINE y == Noted(x, c)
<1>1. LexOK(y) /\ y.mode = x.mode
  <2>1. LexOK(y) /\ Same(y, x, {"current", "again"})
    BY NotedOK, Zenon
  <2> QED
    BY <2>1 DEF Same, LexerFields
<1>2. x.mode \in BomModes \cup PairModes \cup NumberModes \cup {"start", "literal", "string", "tail", "escape", "hex"}
  BY DEF LexOK, LexerModes, InString
<1> HIDE DEF y
<1>3. /\ x.mode \in BomModes => Scan(x, c) = BomByte(y, c)
      /\ x.mode = "start" => Scan(x, c) = StartByte(y, c)
      /\ x.mode = "literal" => Scan(x, c) = LiteralByte(y, c)
      /\ x.mode = "string" => Scan(x, c) = PlainByte(y, c)
      /\ x.mode = "tail" => Scan(x, c) = TailByte(y, c)
      /\ x.mode = "escape" => Scan(x, c) = EscapeByte(y, c)
      /\ x.mode = "hex" => Scan(x, c) = HexByte(y, c)
      /\ x.mode \in PairModes => Scan(x, c) = PairByte(y, c)
      /\ x.mode \in NumberModes => Scan(x, c) = NumberByte(y, c)
  BY ScanCases DEF y
<1>4. CASE x.mode \in BomModes
  BY <1>1, <1>3, <1>4, BomOK
<1>5. CASE x.mode = "start"
  BY <1>1, <1>3, <1>5, StartByteOK
<1>6. CASE x.mode = "literal"
  BY <1>1, <1>3, <1>6, LiteralByteOK
<1>7. CASE x.mode = "string"
  BY <1>1, <1>3, <1>7, PlainByteOK
<1>8. CASE x.mode = "tail"
  BY <1>1, <1>3, <1>8, TailByteOK
<1>9. CASE x.mode = "escape"
  BY <1>1, <1>3, <1>9, EscapeByteOK
<1>10. CASE x.mode = "hex"
  BY <1>1, <1>3, <1>10, HexByteOK
<1>11. CASE x.mode \in PairModes
  BY <1>1, <1>3, <1>11, PairByteOK
<1>12. CASE x.mode \in NumberModes
  BY <1>1, <1>3, <1>12, NumberOK
<1> QED
  BY <1>2, <1>4, <1>5, <1>6, <1>7, <1>8, <1>9, <1>10, <1>11, <1>12

(* The next token begins with nothing read.                                *)
LEMMA NextTokenOK ==
  ASSUME NEW x, IsLexer(x), x.high = 0
  PROVE  LexOK(NextToken(x))
<1> DEFINE w == SetToken(x, "none")
           v == SetMode(w, "start")
           y == SetBuffer(v, <<>>)
<1>1. NextToken(x) = y
  BY DEF NextToken, SetToken, SetMode, SetBuffer
<1>2. Same(w, x, {"token"}) /\ w.token = "none"
  BY SetTokenOnly
<1> HIDE DEF w
<1>3. Same(v, w, {"mode"}) /\ v.mode = "start"
  BY <1>2, SetModeOnly DEF Same
<1> HIDE DEF v
<1>4. Same(y, v, {"buffer"}) /\ y.buffer = <<>>
  BY <1>3, SetBufferOnly DEF Same
<1> HIDE DEF y
<1>5. IsLexer(y) /\ y.token = "none" /\ y.mode = "start" /\ y.high = 0
  BY <1>2, <1>3, <1>4 DEF Same, LexerFields
<1>6. <<>> \in Seq(Int) /\ "start" \notin BomModes
  BY DEF BomModes
<1>7. LexOK(y)
  BY <1>4, <1>5, <1>6, ModeFacts DEF LexOK
<1> QED
  BY <1>1, <1>7

(* So does the lexer of a new parser, but for the byte order mark.         *)
LEMMA NewLexerOK ==
  LexOK(NewLexer) /\ NewLexer.mode = "bom" /\ NewLexer.again = FALSE
<1>1. /\ IsLexer(NewLexer) /\ NewLexer.token = "none" /\ NewLexer.mode = "bom"
      /\ NewLexer.buffer = <<>> /\ NewLexer.high = 0 /\ NewLexer.again = FALSE
  BY DEF NewLexer, IsLexer
<1>2. "bom" \in LexerModes /\ "bom" \notin InString /\ "bom" # "tail" /\ "bom" # "hex"
      /\ "bom" \notin PairModes /\ "bom" # "literal"
  BY DEF LexerModes, BomModes, InString, PairModes
<1>3. <<>> \in Seq(Int)
  OBVIOUS
<1> QED
  BY <1>1, <1>2, <1>3 DEF LexOK

-----------------------------------------------------------------------------
(* A tree lies in a set of values that can be dumped and has the children  *)
(* of each of them.                                                        *)
Closed(T) == \A v \in T : TextsDecode(v) /\ Children(v) \subseteq T

Clean(v) == \E T : v \in T /\ Closed(T)

LEMMA ClosedUnion ==
  ASSUME NEW T, NEW U, Closed(T), Closed(U)
  PROVE  Closed(T \cup U)
BY DEF Closed

LEMMA ClosedMore ==
  ASSUME NEW T, NEW v, Closed(T), TextsDecode(v), Children(v) \subseteq T
  PROVE  Closed(T \cup {v})
BY DEF Closed

(* Numbers, literals, texts that decode and empty containers are clean.    *)
LEMMA CleanLeaf ==
  ASSUME NEW v, Type(v) \notin {"string", "array", "object"}
  PROVE  Clean(v)
<1>1. TextsDecode(v) /\ Children(v) = {}
  BY DEF TextsDecode, Children
<1>2. Closed({v})
  BY <1>1 DEF Closed
<1> QED
  BY <1>2 DEF Clean

LEMMA CleanText ==
  ASSUME NEW s, Decodes(s)
  PROVE  Clean(String(s))
<1> DEFINE v == String(s)
<1>1. Type(v) = "string" /\ Content(v) = s
  BY DEF Type, Content, String
<1> HIDE DEF v
<1>2. TextsDecode(v) /\ Children(v) = {}
  BY <1>1 DEF TextsDecode, Children
<1>3. Closed({v})
  BY <1>2 DEF Closed
<1> QED
  BY <1>3 DEF Clean, v

LEMMA CleanEmpty ==
  Clean(Object(<<>>)) /\ Clean(Array(<<>>))
<1>1. ASSUME NEW type \in {"array", "object"}
      PROVE  Clean(<<type, <<>> >>)
  <2> DEFINE v == <<type, <<>> >>
  <2>1. Type(v) = type /\ Content(v) = <<>> /\ DOMAIN Content(v) = {}
    BY DEF Type, Content
  <2> HIDE DEF v
  <2>2. TextsDecode(v) /\ Children(v) = {}
    BY <2>1 DEF TextsDecode, Children
  <2>3. Closed({v})
    BY <2>2 DEF Closed
  <2> QED
    BY <2>3 DEF Clean, v
<1> QED
  BY <1>1 DEF Object, Array

(* The values on a path through a tree are of the tree.                    *)
Typed(v, path) ==
    \A n \in 0 .. Len(path) - 1 : Type(At(v, SubSeq(path, 1, n))) \in {"array", "object"}

LEMMA AtClosed ==
  ASSUME NEW T, Closed(T), NEW v \in T, NEW S, NEW path \in Seq(S), Leads(v, path), Typed(v, path)
  PROVE  \A n \in 0 .. Len(path) : At(v, SubSeq(path, 1, n)) \in T
<1> DEFINE L == Len(path)
           pre(n) == SubSeq(path, 1, n)
           I == {n \in Nat : n <= L => At(v, pre(n)) \in T}
<1>1. L \in Nat /\ pre(0) = <<>>
  BY SubSeqEmpty
<1>2. 0 \in I
  BY <1>1, AtEmpty
<1>3. ASSUME NEW n \in Nat, n \in I
      PROVE  n + 1 \in I
  <2>1. SUFFICES ASSUME n + 1 <= L
                 PROVE  At(v, pre(n + 1)) \in T
    OBVIOUS
  <2>2. n \in 0 .. L - 1 /\ At(v, pre(n)) \in T
    BY <1>1, <1>3, <2>1
  <2>3. pre(n) \in Seq(S) /\ pre(n + 1) = Append(pre(n), path[n + 1])
    BY <1>1, <2>2
  <2> DEFINE w == At(v, pre(n))
             k == path[n + 1][2]
  <2>4. At(v, pre(n + 1)) = Content(w)[k]
    <3> HIDE DEF pre
    <3>1. At(v, Append(pre(n), path[n + 1])) = Content(At(v, pre(n)))[path[n + 1][2]]
      BY <2>3, AtAppend
    <3> QED
      BY <2>3, <3>1
  <2>5. k \in DOMAIN Content(w) /\ Type(w) \in {"array", "object"}
    BY <2>2 DEF Leads, Typed
  <2> HIDE DEF w, k
  <2>6. Content(w)[k] \in Children(w)
    BY <2>5 DEF Children
  <2>7. Children(w) \subseteq T
    BY <2>2 DEF Closed, w
  <2> QED
    BY <2>4, <2>6, <2>7
<1> HIDE DEF I
<1>4. \A n \in Nat : n \in I
  BY <1>2, <1>3, Induction
<1> QED
  BY <1>1, <1>4 DEF I

(* One member of a container is changed.                                   *)
LEMMA ExceptClosed ==
  ASSUME NEW T, Closed(T), NEW v \in T, Type(v) \in {"array", "object"},
         NEW k \in DOMAIN Content(v), NEW x, NEW w, w = <<Type(v), [Content(v) EXCEPT ![k] = x]>>
  PROVE  TextsDecode(w) /\ Children(w) \subseteq T \cup {x}
<1>1. Type(w) = Type(v) /\ Content(w) = [Content(v) EXCEPT ![k] = x]
  BY DEF Type, Content
<1> DEFINE c == Content(v)
           d == Content(w)
<1>2. DOMAIN d = DOMAIN c /\ d[k] = x /\ \A j \in DOMAIN c : j # k => d[j] = c[j]
  BY <1>1
<1> HIDE DEF c, d
<1>3. TextsDecode(v) /\ \A j \in DOMAIN c : c[j] \in T
  BY DEF Closed, Children, c
<1>4. TextsDecode(w)
  BY <1>1, <1>2, <1>3 DEF TextsDecode, c, d
<1>5. Children(w) \subseteq T \cup {x}
  BY <1>1, <1>2, <1>3 DEF Children, d
<1> QED
  BY <1>4, <1>5

(* Something clean is put into a clean tree.                               *)
LEMMA CleanPut ==
  ASSUME NEW T, Closed(T), NEW v \in T, NEW S, NEW path \in Seq(S), Leads(v, path), Typed(v, path),
         NEW new, Clean(new)
  PROVE  Clean(Put(v, path, new))
<1> DEFINE L == Len(path)
           w == Put(v, path, new)
           pre(n) == SubSeq(path, 1, n)
           old(n) == At(v, pre(n))
           made(n) == At(w, pre(n))
<1>1. PICK U : new \in U /\ Closed(U)
  BY DEF Clean
<1> DEFINE M == {made(n) : n \in 0 .. L}
           all == (T \cup U) \cup M
<1>2. L \in Nat /\ pre(0) = <<>> /\ pre(L) = path
  BY SubSeqEmpty, SubSeqFull
<1>3. /\ At(w, path) = new
      /\ \A n \in 0 .. L - 1 : made(n) = <<Type(old(n)), [Content(old(n)) EXCEPT ![path[n + 1][2]] = made(n + 1)]>>
  BY AtPut
<1>4. \A n \in 0 .. L : old(n) \in T
  BY AtClosed
<1>5. Closed(T \cup U)
  BY <1>1, ClosedUnion
<1>6. w \in M
  <2>1. made(0) = w
    BY <1>2, AtEmpty
  <2>2. 0 \in 0 .. L
    BY <1>2
  <2> QED
    BY <2>1, <2>2
<1>7. ASSUME NEW n \in 0 .. L
      PROVE  TextsDecode(made(n)) /\ Children(made(n)) \subseteq all
  <2>1. CASE n = L
    <3>1. made(n) = new
      BY <1>2, <1>3, <2>1
    <3> HIDE DEF made, M
    <3>2. TextsDecode(new) /\ Children(new) \subseteq U
      BY <1>1 DEF Closed
    <3> QED
      BY <3>1, <3>2
  <2>2. CASE n # L
    <3>1. n \in 0 .. L - 1 /\ n + 1 \in 0 .. L
      <4> HIDE DEF L
      <4> QED
        BY <1>2, <2>2
    <3> DEFINE k == path[n + 1][2]
               x == made(n + 1)
    <3>2. made(n) = <<Type(old(n)), [Content(old(n)) EXCEPT ![k] = x]>>
      BY <1>3, <3>1
    <3>3. k \in DOMAIN Content(old(n)) /\ Type(old(n)) \in {"array", "object"}
      BY <3>1 DEF Leads, Typed
    <3>4. x \in M /\ old(n) \in T
      BY <1>4, <3>1
    <3> HIDE DEF k, x, old, made, M
    <3>5. TextsDecode(made(n)) /\ Children(made(n)) \subseteq T \cup {x}
      BY <3>2, <3>3, <3>4, ExceptClosed
    <3> QED
      BY <3>4, <3>5
  <2> QED
    BY <2>1, <2>2
<1>8. Closed(all)
  <2>1. ASSUME NEW u \in all
        PROVE  TextsDecode(u) /\ Children(u) \subseteq all
    <3>1. CASE u \in T \cup U
      <4> HIDE DEF M
      <4> QED
        BY <1>5, <3>1 DEF Closed
    <3>2. CASE u \in M
      <4>1. PICK n \in 0 .. L : u = made(n)
        BY <3>2
      <4> HIDE DEF made, all
      <4> QED
        BY <1>7, <4>1
    <3> QED
      BY <3>1, <3>2
  <2> HIDE DEF all
  <2> QED
    BY <2>1 DEF Closed
<1> HIDE DEF M, w
<1> QED
  BY <1>6, <1>8 DEF Clean, w

(* The builder keeps its tree clean.                                       *)
LEMMA ChainTyped ==
  ASSUME NEW root, NEW S, NEW path \in Seq(S), NEW brackets \in Seq(BOOLEAN),
         Len(path) + 1 = Len(brackets), Chain(root, path, brackets)
  PROVE  /\ \A n \in 0 .. Len(path) : Type(At(root, SubSeq(path, 1, n))) \in {"array", "object"}
         /\ Typed(root, path) /\ Leads(root, path)
<1>1. ASSUME NEW n \in 0 .. Len(path)
      PROVE  Type(At(root, SubSeq(path, 1, n))) \in {"array", "object"}
  BY DEF Chain, Proper
<1>2. \A n \in 0 .. Len(path) - 1 : n \in 0 .. Len(path)
  OBVIOUS
<1> QED
  BY <1>1, <1>2, ChainLeads DEF Typed

LEMMA HolderClosed ==
  ASSUME NEW T, NEW root \in T, Closed(T), NEW S, NEW path \in Seq(S), NEW brackets \in Seq(BOOLEAN),
         Len(path) + 1 = Len(brackets), Chain(root, path, brackets)
  PROVE  At(root, path) \in T
<1>1. Len(path) \in 0 .. Len(path) /\ SubSeq(path, 1, Len(path)) = path
  BY SubSeqFull
<1>2. Typed(root, path) /\ Leads(root, path)
  BY ChainTyped
<1>3. At(root, SubSeq(path, 1, Len(path))) \in T
  BY <1>1, <1>2, AtClosed
<1> QED
  BY <1>1, <1>3

(* An array with one more element, an object with one more member.         *)
LEMMA CleanLonger ==
  ASSUME NEW T, Closed(T), NEW v \in T, Type(v) = "array", IsSeq(Content(v)), NEW x, Clean(x)
  PROVE  Clean(Array(Append(Content(v), x)))
<1> DEFINE c == Content(v)
           d == Append(c, x)
           w == Array(d)
<1>1. PICK U : x \in U /\ Closed(U)
  BY DEF Clean
<1>2. PICK S : c \in Seq(S)
  BY IsSeqFacts
<1>3. DOMAIN d = 1 .. Len(c) + 1 /\ d[Len(c) + 1] = x /\ \A i \in 1 .. Len(c) : d[i] = c[i]
  BY <1>2, AppendFacts
<1>4. Len(c) \in Nat /\ DOMAIN c = 1 .. Len(c)
  BY <1>2
<1>5. Type(w) = "array" /\ Content(w) = d
  BY DEF Array, Type, Content
<1>6. \A i \in DOMAIN c : c[i] \in T
  BY DEF Closed, Children
<1> HIDE DEF w, c, d
<1>7. \A i \in DOMAIN d : d[i] \in T \cup U
  <2> TAKE i \in DOMAIN d
  <2>1. i \in 1 .. Len(c) \/ i = Len(c) + 1
    BY <1>3, <1>4
  <2> QED
    BY <1>1, <1>3, <1>4, <1>6, <2>1
<1>8. TextsDecode(w) /\ Children(w) \subseteq T \cup U
  BY <1>5, <1>7 DEF TextsDecode, Children
<1>9. Closed(T \cup U)
  BY <1>1, ClosedUnion
<1>10. Closed((T \cup U) \cup {w})
  BY <1>8, <1>9, ClosedMore
<1> QED
  BY <1>10 DEF Clean, w, d, c

LEMMA CleanNamed ==
  ASSUME NEW T, Closed(T), NEW v \in T, Type(v) = "object", NEW name, Decodes(name)
  PROVE  Clean(Object(WithName(Content(v), name)))
<1> DEFINE f == Content(v)
           g == WithName(f, name)
           w == Object(g)
<1>1. DOMAIN g = DOMAIN f \cup {name} /\ \A n \in DOMAIN g : g[n] = IF n \in DOMAIN f THEN f[n] ELSE Null
  BY DEF WithName
<1>2. Type(w) = "object" /\ Content(w) = g
  BY DEF Object, Type, Content
<1>3. (\A n \in DOMAIN f : f[n] \in T) /\ \A n \in DOMAIN f : Decodes(n)
  BY DEF Closed, Children, TextsDecode
<1> HIDE DEF f, g, w
<1>4. PICK U : Null \in U /\ Closed(U)
  <2>1. Type(Null) \notin {"string", "array", "object"}
    BY DEF Null, Type
  <2> QED
    BY <2>1, CleanLeaf DEF Clean
<1>5. TextsDecode(w) /\ Children(w) \subseteq T \cup U
  BY <1>1, <1>2, <1>3, <1>4 DEF TextsDecode, Children
<1>6. Closed((T \cup U) \cup {w})
  BY <1>4, <1>5, ClosedUnion, ClosedMore
<1> QED
  BY <1>6 DEF Clean, w, g, f

(* handle_value                                                            *)
LEMMA CleanHandle ==
  ASSUME NEW dom, NEW brackets \in Seq(BOOLEAN), DomOK(dom, brackets),
         brackets # <<>> /\ ~Last(brackets) => ElementOK(dom), Clean(dom.root), NEW v, Clean(v)
  PROVE  \E root, ref : /\ Clean(root)
                        /\ HandleValue(dom, v) = <<[root |-> root, refs |-> dom.refs, element |-> dom.element], ref>>
<1>1. IsDom(dom)
  BY DEF DomOK
<1>2. CASE brackets = <<>>
  <2>1. dom.refs = <<>>
    BY <1>2 DEF DomOK
  <2> QED
    BY <1>1, <2>1, HandleRecord
<1>3. CASE brackets # <<>>
  <2>1. PICK S, path : /\ path \in Seq(S) /\ Len(path) + 1 = Len(brackets) /\ Len(path) \in Nat
                       /\ Last(dom.refs) = path /\ dom.refs = RefsOf(path) /\ dom.refs # <<>>
                       /\ Chain(dom.root, path, brackets) /\ Holder(dom) = At(dom.root, path)
                       /\ Proper(Holder(dom), Last(brackets)) /\ Last(brackets) \in BOOLEAN
    BY <1>3, DomPath
  <2>2. PICK T : dom.root \in T /\ Closed(T)
    BY DEF Clean
  <2>3. Holder(dom) \in T /\ Typed(dom.root, path) /\ Leads(dom.root, path)
    BY <2>1, <2>2, HolderClosed, ChainTyped
  <2>4. CASE Last(brackets)
    <3> DEFINE elements == Append(Content(Holder(dom)), v)
               root == Put(dom.root, path, Array(elements))
               ref == Append(path, Element(Len(elements)))
    <3>1. Type(Holder(dom)) = "array" /\ IsSeq(Content(Holder(dom)))
      BY <2>1, <2>4 DEF Proper
    <3>2. Clean(Array(elements))
      BY <2>2, <2>3, <3>1, CleanLonger
    <3>3. HandleValue(dom, v) = <<[root |-> root, refs |-> dom.refs, element |-> dom.element], ref>>
      BY <1>1, <2>1, <3>1, HandleRecord
    <3> HIDE DEF elements
    <3>4. Clean(root)
      BY <2>1, <2>2, <2>3, <3>2, CleanPut
    <3> HIDE DEF root, ref
    <3> QED
      BY <3>3, <3>4
  <2>5. CASE ~Last(brackets)
    <3> DEFINE root == Put(dom.root, dom.element, v)
    <3>1. PICK n \in DOMAIN Content(At(dom.root, path)) : dom.element = Append(path, Member(n))
      BY <1>3, <2>1, <2>5 DEF ElementOK
    <3>2. Type(Holder(dom)) # "array"
      BY <2>1, <2>5 DEF Proper
    <3>3. HandleValue(dom, v) = <<[root |-> root, refs |-> dom.refs, element |-> dom.element], dom.element>>
      BY <1>1, <2>1, <3>2, HandleRecord
    <3>4. dom.element \in Seq(S \cup {Member(n)}) /\ OneFurther(path, dom.element, Member(n))
      BY <2>1, <3>1, AppendFurther
    <3>5. Leads(dom.root, dom.element)
      <4> HIDE DEF root
      <4>1. \A w : w = root => Leads(dom.root, dom.element)
        BY <2>1, <2>5, <3>1, <3>4, ChainFill DEF root
      <4> QED
        BY <4>1
    <3>6. Typed(dom.root, dom.element)
      <4>1. \A m \in 0 .. Len(path) : Type(At(dom.root, SubSeq(path, 1, m))) \in {"array", "object"}
        BY <2>1, ChainTyped
      <4>2. Len(dom.element) - 1 = Len(path)
        BY <2>1, <3>4 DEF OneFurther
      <4>3. \A m \in 0 .. Len(path) : SubSeq(dom.element, 1, m) = SubSeq(path, 1, m)
        BY <3>4 DEF OneFurther
      <4> QED
        BY <4>1, <4>2, <4>3 DEF Typed
    <3>7. Clean(root)
      BY <2>2, <3>4, <3>5, <3>6, CleanPut
    <3> HIDE DEF root
    <3> QED
      BY <3>3, <3>7
  <2> QED
    BY <2>4, <2>5
<1> QED
  BY <1>2, <1>3

(* So do the calls of the builder that place a value or a name.            *)
LEMMA CleanScalar ==
  ASSUME NEW dom, NEW brackets \in Seq(BOOLEAN), DomOK(dom, brackets),
         brackets # <<>> /\ ~Last(brackets) => ElementOK(dom), Clean(dom.root), NEW v, Clean(v)
  PROVE  Clean(Scalar(dom, v).root) /\ Clean(StartContainer(dom, v).root)
<1>1. PICK root, ref : /\ Clean(root)
                       /\ HandleValue(dom, v) = <<[root |-> root, refs |-> dom.refs, element |-> dom.element], ref>>
  BY CleanHandle
<1>2. Scalar(dom, v) = [root |-> root, refs |-> dom.refs, element |-> dom.element]
  BY <1>1, ScalarRecord
<1>3. StartContainer(dom, v) = [root |-> root, refs |-> Append(dom.refs, ref), element |-> dom.element]
  BY <1>1, StartRecord
<1>4. Scalar(dom, v).root = root /\ StartContainer(dom, v).root = root
  BY <1>2, <1>3
<1> QED
  BY <1>1, <1>4

LEMMA CleanKey ==
  ASSUME NEW dom, NEW brackets \in Seq(BOOLEAN), DomOK(dom, brackets),
         brackets # <<>>, ~Last(brackets), Clean(dom.root), NEW name, Decodes(name)
  PROVE  Clean(Key(dom, name).root)
<1>1. PICK S, path : /\ path \in Seq(S) /\ Len(path) + 1 = Len(brackets) /\ Len(path) \in Nat
                     /\ Last(dom.refs) = path /\ dom.refs = RefsOf(path) /\ dom.refs # <<>>
                     /\ Chain(dom.root, path, brackets) /\ Holder(dom) = At(dom.root, path)
                     /\ Proper(Holder(dom), Last(brackets)) /\ Last(brackets) \in BOOLEAN
  BY DomPath
<1>2. PICK T : dom.root \in T /\ Closed(T)
  BY DEF Clean
<1>3. Holder(dom) \in T /\ Typed(dom.root, path) /\ Leads(dom.root, path) /\ Type(Holder(dom)) = "object"
  BY <1>1, <1>2, HolderClosed, ChainTyped DEF Proper
<1> DEFINE object == Object(WithName(Content(Holder(dom)), name))
           root == Put(dom.root, path, object)
<1>4. Clean(object)
  BY <1>2, <1>3, CleanNamed
<1>5. Key(dom, name).root = root
  <2>1. dom = [root |-> dom.root, refs |-> dom.refs, element |-> dom.element]
    BY DEF DomOK, IsDom
  <2>2. ASSUME NEW x, NEW y
        PROVE  [dom EXCEPT !.root = x, !.element = y].root = x
    BY <2>1
  <2> HIDE DEF object
  <2>3. Key(dom, name) = [dom EXCEPT !.root = root, !.element = Append(path, Member(name))]
    BY <1>1 DEF Key, object
  <2> HIDE DEF root
  <2> QED
    BY <2>2, <2>3
<1> HIDE DEF object
<1>6. Clean(root)
  BY <1>1, <1>2, <1>3, <1>4, CleanPut
<1> QED
  BY <1>5, <1>6

-----------------------------------------------------------------------------
(* The parser keeps the tree clean, and stops at what is no token.         *)
Taken(q, p) ==
    /\ IsParser(q) /\ q.lexer = p.lexer /\ Clean(q.dom.root)
    /\ p.lexer.token = "parse_error" => q.at = "error"

Texts(p) == IsParser(p) /\ p.states \in Seq(BOOLEAN) /\ Outcome(p.lexer) /\ Clean(p.dom.root)

LEMMA ThrowFields ==
  ASSUME NEW p, IsParser(p), NEW id
  PROVE  SameBut(Throw(p, id), p, "error", p.states, p.dom)
<1> DEFINE q == [p EXCEPT !.at = "error"]
<1>1. SameBut(q, p, "error", p.states, p.dom)
  BY ParserFields
<1>2. Throw(p, id) = [q EXCEPT !.error = id]
  <2>1. p = [lexer |-> p.lexer, at |-> p.at, states |-> p.states, dom |-> p.dom, error |-> p.error]
    BY DEF IsParser
  <2> QED
    BY <2>1 DEF Throw
<1> HIDE DEF q
<1>3. SameBut([q EXCEPT !.error = id], q, q.at, q.states, q.dom)
  <2>1. IsParser(q)
    BY <1>1 DEF SameBut
  <2> QED
    BY <2>1, ParserFields
<1> QED
  BY <1>1, <1>2, <1>3 DEF SameBut

(* The parser stops.                                                       *)
LEMMA ThrowTaken ==
  ASSUME NEW p, Texts(p), NEW id
  PROVE  Taken(Throw(p, id), p) /\ Taken(SyntaxError(p), p)
<1>1. SameBut(Throw(p, id), p, "error", p.states, p.dom) /\ SameBut(SyntaxError(p), p, "error", p.states, p.dom)
  BY ThrowFields DEF Texts, SyntaxError
<1> QED
  BY <1>1 DEF SameBut, Taken, Texts

(* Nothing is built, and the next token is awaited.                        *)
LEMMA AwaitTaken ==
  ASSUME NEW p, IsParser(p), Clean(p.dom.root), p.lexer.token # "parse_error", NEW at
  PROVE  Taken(Await(p, at), p)
BY AwaitFields DEF SameBut, Taken

(* Something is built, and the next token is awaited.                      *)
LEMMA BuildTaken ==
  ASSUME NEW p, IsParser(p), p.lexer.token # "parse_error", NEW dom, Clean(dom.root), NEW at
  PROVE  Taken(Await(Build(p, dom), at), p) /\ Taken(Evaluate(Build(p, dom)), p)
<1> DEFINE q == Build(p, dom)
<1>1. SameBut(q, p, p.at, p.states, dom)
  BY BuildFields
<1> HIDE DEF q
<1>2. IsParser(q) /\ Clean(q.dom.root) /\ q.lexer = p.lexer
  BY <1>1 DEF SameBut
<1>3. \A a : Taken(Await(q, a), q)
  BY <1>2, AwaitTaken
<1>4. Taken(Await(q, at), q) /\ Taken(Evaluate(q), q)
  BY <1>3 DEF Evaluate
<1>5. Taken(Await(q, at), p) /\ Taken(Evaluate(q), p)
  BY <1>2, <1>4 DEF Taken
<1> QED
  BY <1>5 DEF q

(* The value of a token is clean, and so is the tree that it goes into.    *)
LEMMA CleanOfToken ==
  ASSUME NEW x, Outcome(x), x.token \in Scalars
  PROVE  Clean(ScalarOf(x))
<1>1. CASE x.token = "value_string"
  <2>1. ScalarOf(x) = String(x.buffer)
    BY <1>1 DEF ScalarOf
  <2> QED
    BY <1>1, <2>1, CleanText DEF Outcome
<1>2. CASE x.token # "value_string"
  <2>1. Type(ScalarOf(x)) \in {"boolean", "null", "unsigned", "integer", "float"}
    BY <1>2 DEF Scalars, ScalarOf, Boolean, Null, UnsignedNumber, Integer, Float, Type
  <2> QED
    BY <2>1, CleanLeaf
<1> QED
  BY <1>1, <1>2

LEMMA ValueTaken ==
  ASSUME NEW p, Texts(p), Receptive(p.dom, p.states)
  PROVE  Taken(Value(p), p)
<1>1. /\ IsParser(p) /\ p.states \in Seq(BOOLEAN) /\ DomOK(p.dom, p.states) /\ Clean(p.dom.root)
      /\ p.states # <<>> /\ ~Last(p.states) => ElementOK(p.dom)
  BY DEF Texts, Receptive
<1>2. CASE p.lexer.token = "begin_object"
  <2>1. Clean(StartObject(p.dom).root)
    BY <1>1, CleanScalar, CleanEmpty DEF StartObject
  <2>2. Value(p) = Await(Build(p, StartObject(p.dom)), "first_key")
    BY <1>2 DEF Value, Scalars
  <2> QED
    BY <1>1, <1>2, <2>1, <2>2, BuildTaken
<1>3. CASE p.lexer.token = "begin_array"
  <2>1. Clean(StartArray(p.dom).root)
    BY <1>1, CleanScalar, CleanEmpty DEF StartArray
  <2>2. Value(p) = Await(Build(p, StartArray(p.dom)), "first_element")
    BY <1>3 DEF Value, Scalars
  <2> QED
    BY <1>1, <1>3, <2>1, <2>2, BuildTaken
<1>4. CASE p.lexer.token \in Scalars
  <2> DEFINE v == ScalarOf(p.lexer)
  <2>1. Value(p) = Place(p, v)
    BY <1>4 DEF Value, Scalars
  <2>2. Clean(v) /\ p.lexer.token # "parse_error"
    BY <1>4, CleanOfToken DEF Texts, Scalars
  <2> HIDE DEF v
  <2>3. Clean(Scalar(p.dom, v).root)
    BY <1>1, <2>2, CleanScalar
  <2>4. Taken(Evaluate(Build(p, Scalar(p.dom, v))), p)
    BY <1>1, <2>2, <2>3, BuildTaken
  <2> QED
    BY <2>1, <2>4, ThrowTaken DEF Place
<1>5. CASE p.lexer.token \notin Scalars \cup {"begin_object", "begin_array"}
  <2>1. Value(p) = SyntaxError(p)
    BY <1>5 DEF Value
  <2> QED
    BY <2>1, ThrowTaken
<1> QED
  BY <1>2, <1>3, <1>4, <1>5

(* A container is closed, which leaves the tree.                           *)
LEMMA CloseTaken ==
  ASSUME NEW p, Texts(p), IsDom(p.dom), p.lexer.token # "parse_error"
  PROVE  Taken(Evaluate(Build(p, EndContainer(p.dom))), p) /\ Taken(Evaluate(Pop(p)), p)
<1>1. EndContainer(p.dom).root = p.dom.root
  <2> DEFINE dom == p.dom
  <2>1. dom = [root |-> dom.root, refs |-> dom.refs, element |-> dom.element]
    BY DEF IsDom
  <2> HIDE DEF dom
  <2>2. EndContainer(dom).root = dom.root
    BY <2>1 DEF EndContainer
  <2> QED
    BY <2>2 DEF dom
<1>2. Clean(EndContainer(p.dom).root) /\ IsParser(p)
  BY <1>1 DEF Texts
<1>3. Taken(Evaluate(Build(p, EndContainer(p.dom))), p)
  BY <1>2, BuildTaken
<1> DEFINE q == Pop(p)
<1>4. SameBut(q, p, p.at, Front(p.states), EndContainer(p.dom))
  BY <1>2, PopFields
<1> HIDE DEF q
<1>5. \A a : Taken(Await(q, a), q)
  BY <1>2, <1>4, AwaitTaken DEF SameBut
<1>6. Taken(Evaluate(q), q)
  BY <1>5 DEF Evaluate
<1>7. Taken(Evaluate(q), p)
  BY <1>4, <1>6 DEF Taken, SameBut
<1> QED
  BY <1>3, <1>7 DEF q

(* What is pushed has no part in it.                                       *)
LEMMA PushTaken ==
  ASSUME NEW p, Texts(p), NEW b \in BOOLEAN
  PROVE  Texts(Push(p, b)) /\ \A q : Taken(q, Push(p, b)) => Taken(q, p)
<1>1. SameBut(Push(p, b), p, p.at, Append(p.states, b), p.dom)
  BY PushFields DEF Texts
<1>2. Append(p.states, b) \in Seq(BOOLEAN)
  BY DEF Texts
<1> QED
  BY <1>1, <1>2 DEF SameBut, Texts, Taken

(* The name of a member.                                                   *)
LEMMA KeyTaken ==
  ASSUME NEW p, Texts(p), NEW next \in {"first_separator", "separator"},
         next = "separator" => p.states # <<>> /\ ~Last(p.states),
         DomOK(p.dom, Stack(next, p.states))
  PROVE  Taken(ObjectKey(p, next), p)
<1>1. CASE p.lexer.token = "value_string"
  <2> DEFINE dom == Key(p.dom, p.lexer.buffer)
             brackets == Stack(next, p.states)
  <2>1. brackets \in Seq(BOOLEAN) /\ brackets # <<>> /\ ~Last(brackets)
    <3>1. CASE next = "separator"
      BY <3>1 DEF Stack, Texts
    <3>2. CASE next = "first_separator"
      <4>1. brackets = Append(p.states, FALSE) /\ p.states \in Seq(BOOLEAN)
        BY <3>2 DEF Stack, Texts
      <4> QED
        BY <4>1, LastOfAppend
    <3> QED
      BY <3>1, <3>2
  <2>2. Decodes(p.lexer.buffer) /\ Clean(p.dom.root) /\ IsParser(p)
    BY <1>1 DEF Texts, Outcome
  <2>3. DomOK(p.dom, brackets)
    OBVIOUS
  <2> HIDE DEF brackets
  <2>4. Clean(dom.root)
    BY <2>1, <2>2, <2>3, CleanKey
  <2> HIDE DEF dom
  <2>5. Taken(Await(Build(p, dom), next), p)
    BY <1>1, <2>2, <2>4, BuildTaken
  <2> QED
    BY <1>1, <2>5 DEF ObjectKey, dom
<1>2. CASE p.lexer.token # "value_string"
  BY <1>2, ThrowTaken DEF ObjectKey
<1> QED
  BY <1>1, <1>2

(* The other handlers of the parser.                                       *)
LEMMA FirstElementTaken ==
  ASSUME NEW p, Texts(p), DomOK(p.dom, Append(p.states, TRUE))
  PROVE  Taken(FirstElement(p), p)
<1>1. CASE p.lexer.token = "end_array"
  <2>1. Taken(Evaluate(Build(p, EndContainer(p.dom))), p)
    BY <1>1, CloseTaken DEF DomOK
  <2> QED
    BY <1>1, <2>1 DEF FirstElement
<1>2. CASE p.lexer.token # "end_array"
  <2> DEFINE q == Push(p, TRUE)
  <2>1. SameBut(q, p, p.at, Append(p.states, TRUE), p.dom)
    BY PushFields DEF Texts
  <2>2. Append(p.states, TRUE) \in Seq(BOOLEAN) /\ Last(Append(p.states, TRUE))
    BY LastOfAppend DEF Texts
  <2>3. Texts(q) /\ \A r : Taken(r, q) => Taken(r, p)
    BY PushTaken
  <2> HIDE DEF q
  <2>4. Receptive(q.dom, q.states)
    BY <2>1, <2>2 DEF SameBut, Receptive
  <2>5. Taken(Value(q), q)
    BY <2>3, <2>4, ValueTaken
  <2>6. Taken(Value(q), p)
    BY <2>3, <2>5
  <2> QED
    BY <1>2, <2>6 DEF FirstElement, q
<1> QED
  BY <1>1, <1>2

LEMMA FirstKeyTaken ==
  ASSUME NEW p, Texts(p), DomOK(p.dom, Append(p.states, FALSE))
  PROVE  Taken(FirstKey(p), p)
<1>1. CASE p.lexer.token = "end_object"
  <2>1. Taken(Evaluate(Build(p, EndContainer(p.dom))), p)
    BY <1>1, CloseTaken DEF DomOK
  <2> QED
    BY <1>1, <2>1 DEF FirstKey
<1>2. CASE p.lexer.token # "end_object"
  <2>1. Stack("first_separator", p.states) = Append(p.states, FALSE)
    BY DEF Stack
  <2>2. Taken(ObjectKey(p, "first_separator"), p)
    BY <2>1, KeyTaken
  <2> QED
    BY <1>2, <2>2 DEF FirstKey
<1> QED
  BY <1>1, <1>2

LEMMA SeparatorTaken ==
  ASSUME NEW p, Texts(p)
  PROVE  Taken(Separator(p), p) /\ Taken(FirstSeparator(p), p)
<1>1. ASSUME NEW q, Texts(q)
      PROVE  Taken(Separator(q), q)
  <2>1. CASE q.lexer.token = "name_separator"
    <3>1. Taken(Await(q, "value"), q)
      BY <1>1, <2>1, AwaitTaken DEF Texts
    <3> QED
      BY <2>1, <3>1 DEF Separator
  <2>2. CASE q.lexer.token # "name_separator"
    BY <1>1, <2>2, ThrowTaken DEF Separator
  <2> QED
    BY <2>1, <2>2
<1>2. Taken(Separator(p), p)
  BY <1>1
<1>3. Texts(Push(p, FALSE)) /\ \A r : Taken(r, Push(p, FALSE)) => Taken(r, p)
  BY PushTaken
<1>4. Taken(Separator(Push(p, FALSE)), p)
  BY <1>1, <1>3
<1> QED
  BY <1>2, <1>4 DEF FirstSeparator

LEMMA AfterTaken ==
  ASSUME NEW p, Texts(p), IsDom(p.dom)
  PROVE  Taken(After(p), p) /\ Taken(End(p), p)
<1> DEFINE array == Last(p.states)
           close == IF array THEN "end_array" ELSE "end_object"
<1>1. CASE p.lexer.token = "value_separator"
  <2>1. \A at : Taken(Await(p, at), p)
    BY <1>1, AwaitTaken DEF Texts
  <2>2. Taken(End(p), p)
    BY <1>1, ThrowTaken DEF End
  <2> QED
    BY <1>1, <2>1, <2>2 DEF After
<1>2. CASE p.lexer.token = close
  <2>1. Taken(Evaluate(Pop(p)), p)
    BY <1>2, CloseTaken
  <2>2. After(p) = Evaluate(Pop(p))
    BY <1>2 DEF After
  <2>3. Taken(End(p), p)
    BY <1>2, ThrowTaken DEF End
  <2> QED
    BY <2>1, <2>2, <2>3
<1>3. CASE p.lexer.token # "value_separator" /\ p.lexer.token # close
  <2>1. After(p) = SyntaxError(p)
    BY <1>3 DEF After
  <2>2. CASE p.lexer.token = "end_of_input"
    <3>1. Taken(Await(p, "accepted"), p)
      BY <2>2, AwaitTaken DEF Texts
    <3> QED
      BY <2>1, <2>2, <3>1, ThrowTaken DEF End
  <2>3. CASE p.lexer.token # "end_of_input"
    BY <2>1, <2>3, ThrowTaken DEF End
  <2> QED
    BY <2>2, <2>3
<1> QED
  BY <1>1, <1>2, <1>3

(* What Take does before it asks for the next token.                       *)
Taking(p) ==
    CASE p.at = "value"           -> Value(p)
      [] p.at = "first_element"   -> FirstElement(p)
      [] p.at = "first_key"       -> FirstKey(p)
      [] p.at = "first_separator" -> FirstSeparator(p)
      [] p.at = "after"           -> After(p)
      [] p.at = "key"             -> ObjectKey(p, "separator")
      [] p.at = "separator"       -> Separator(p)
      [] p.at = "end"             -> End(p)

(* Whatever the parser waits for.                                          *)
LEMMA TakingTaken ==
  ASSUME NEW p, ParserInv(p), p.at \in Waits, Texts(p)
  PROVE  Taken(Taking(p), p)
<1>1. p.states \in Seq(BOOLEAN) /\ Waiting(p.at, p.states, p.dom)
  BY DEF ParserInv
<1>2. CASE p.at = "value"
  <2>1. Receptive(p.dom, p.states)
    BY <1>1, <1>2 DEF Waiting, Stack, Receptive
  <2> QED
    BY <1>2, <2>1, ValueTaken DEF Taking
<1>3. CASE p.at = "first_element"
  <2>1. Stack(p.at, p.states) = Append(p.states, TRUE)
    BY <1>3 DEF Stack
  <2>2. DomOK(p.dom, Append(p.states, TRUE))
    BY <1>1, <2>1 DEF Waiting
  <2> QED
    BY <1>3, <2>2, FirstElementTaken DEF Taking
<1>4. CASE p.at = "first_key"
  <2>1. Stack(p.at, p.states) = Append(p.states, FALSE)
    BY <1>4 DEF Stack
  <2>2. DomOK(p.dom, Append(p.states, FALSE))
    BY <1>1, <2>1 DEF Waiting
  <2> QED
    BY <1>4, <2>2, FirstKeyTaken DEF Taking
<1>5. CASE p.at \in {"first_separator", "separator"}
  BY <1>5, SeparatorTaken DEF Taking
<1>6. CASE p.at \in {"after", "end"}
  <2>1. IsDom(p.dom)
    BY <1>1, <1>6 DEF Waiting, DomOK
  <2> QED
    BY <1>6, <2>1, AfterTaken DEF Taking
<1>7. CASE p.at = "key"
  <2>1. DomOK(p.dom, Stack("separator", p.states)) /\ p.states # <<>> /\ ~Last(p.states)
    BY <1>1, <1>7 DEF Waiting, Stack
  <2> QED
    BY <1>7, <2>1, KeyTaken DEF Taking
<1> QED
  BY <1>2, <1>3, <1>4, <1>5, <1>6, <1>7 DEF Waits

-----------------------------------------------------------------------------
(* The invariant of the texts: the tree is clean, and as long as the       *)
(* parser reads its lexer is in order.                                     *)
TextInv(p) == Clean(p.dom.root) /\ (~Finished(p) => LexOK(p.lexer))

(* It is kept when a token is taken,                                       *)
LEMMA TakeTextInv ==
  ASSUME NEW p, ParserInv(p), p.at \in Waits, Texts(p), p.lexer.token # "none"
  PROVE  /\ TextInv(Take(p))
         /\ p.lexer.token = "parse_error" => Take(p).at = "error"
<1> DEFINE q == Taking(p)
<1>1. Taken(q, p)
  BY TakingTaken
<1>2. Take(p) = Request(q)
  BY DEF Take, Taking
<1> HIDE DEF q
<1>3. CASE Finished(q)
  <2>1. Request(q) = q
    BY <1>3 DEF Request
  <2> QED
    BY <1>1, <1>2, <1>3, <2>1 DEF Taken, TextInv
<1>4. CASE ~Finished(q)
  <2>1. p.lexer.token # "parse_error"
    BY <1>1, <1>4 DEF Taken, Finished
  <2>2. IsLexer(p.lexer) /\ p.lexer.high = 0
    BY <2>1 DEF Texts, Outcome
  <2>3. LexOK(NextToken(p.lexer))
    BY <2>2, NextTokenOK
  <2> DEFINE r == [q EXCEPT !.lexer = NextToken(q.lexer)]
  <2>4. r.lexer = NextToken(p.lexer) /\ r.dom = q.dom
    BY <1>1, ParserFields DEF Taken, IsParser
  <2>5. Request(q) = r
    BY <1>4 DEF Request
  <2> HIDE DEF r
  <2> QED
    BY <1>1, <1>2, <2>1, <2>3, <2>4, <2>5 DEF Taken, TextInv
<1> QED
  BY <1>3, <1>4

-----------------------------------------------------------------------------
(* The levels of a tree, one after the other.                              *)
Lower(set) == UNION {{w} \cup Children(w) : w \in set}

IsLevels(f, v, m) == f = [i \in 0 .. m |-> IF i = 0 THEN {v} ELSE Lower(f[i - 1])]

LEMMA LevelsExist ==
  ASSUME NEW v
  PROVE  \A m \in Nat : \E f : IsLevels(f, v, m)
<1> DEFINE T == {m \in Nat : \E f : IsLevels(f, v, m)}
<1>1. 0 \in T
  <2> DEFINE f == [i \in 0 .. 0 |-> {v}]
  <2>1. IsLevels(f, v, 0)
    BY DEF IsLevels
  <2> QED
    BY <2>1
<1>2. ASSUME NEW m \in Nat, m \in T
      PROVE  m + 1 \in T
  <2>1. PICK f : IsLevels(f, v, m)
    BY <1>2
  <2> DEFINE g == [i \in 0 .. m + 1 |-> IF i = m + 1 THEN Lower(f[m]) ELSE f[i]]
  <2>2. \A i \in 0 .. m : f[i] = IF i = 0 THEN {v} ELSE Lower(f[i - 1])
    BY <2>1 DEF IsLevels
  <2>3. \A i \in 0 .. m : g[i] = f[i]
    OBVIOUS
  <2>4. g[m + 1] = Lower(g[m])
    BY <2>3
  <2>5. ASSUME NEW i \in 0 .. m + 1
        PROVE  g[i] = IF i = 0 THEN {v} ELSE Lower(g[i - 1])
    <3>1. CASE i = m + 1
      BY <2>4, <3>1
    <3>2. CASE i # m + 1
      <4>1. i \in 0 .. m /\ (i # 0 => i - 1 \in 0 .. m)
        BY <3>2
      <4>2. g[i] = f[i] /\ (i # 0 => g[i - 1] = f[i - 1])
        BY <4>1, <2>3
      <4> HIDE DEF g
      <4> QED
        BY <4>1, <4>2, <2>2
    <3> QED
      BY <3>1, <3>2
  <2>6. g = [i \in 0 .. m + 1 |-> g[i]]
    OBVIOUS
  <2> HIDE DEF g
  <2>7. IsLevels(g, v, m + 1)
    BY <2>5, <2>6 DEF IsLevels
  <2> QED
    BY <2>7
<1> HIDE DEF T
<1>3. \A m \in Nat : m \in T
  BY <1>1, <1>2, Induction
<1> QED
  BY <1>3 DEF T

(* What is within a value is of every set that has the value and children. *)
LEMMA WithinClosed ==
  ASSUME NEW T, Closed(T), NEW v \in T, NEW n \in Nat
  PROVE  Within(v, n) \subseteq T
<1> DEFINE values == CHOOSE f : IsLevels(f, v, n)
           I == {i \in Nat : i <= n => values[i] \subseteq T}
<1>1. IsLevels(values, v, n)
  BY LevelsExist
<1>2. Within(v, n) = values[n]
  BY DEF Within, IsLevels, Lower
<1> HIDE DEF values
<1>3. \A i \in 0 .. n : values[i] = IF i = 0 THEN {v} ELSE Lower(values[i - 1])
  BY <1>1 DEF IsLevels
<1>4. 0 \in I
  BY <1>3
<1>5. ASSUME NEW i \in Nat, i \in I
      PROVE  i + 1 \in I
  <2>1. CASE i + 1 <= n
    <3>1. values[i] \subseteq T /\ i + 1 \in 0 .. n /\ i + 1 # 0 /\ (i + 1) - 1 = i
      BY <1>5, <2>1
    <3>2. values[i + 1] = Lower(values[i])
      BY <1>3, <3>1
    <3>3. \A w \in values[i] : {w} \cup Children(w) \subseteq T
      BY <3>1 DEF Closed
    <3>4. values[i + 1] \subseteq T
      BY <3>2, <3>3 DEF Lower
    <3> QED
      BY <3>4
  <2>2. CASE ~(i + 1 <= n)
    BY <2>2
  <2> QED
    BY <2>1, <2>2
<1> HIDE DEF I
<1>6. \A i \in Nat : i \in I
  BY <1>4, <1>5, Induction
<1> QED
  BY <1>2, <1>6 DEF I

(* A clean tree has nothing within it that cannot be dumped.               *)
LEMMA CleanWithin ==
  ASSUME NEW v, Clean(v), NEW n \in Nat
  PROVE  \A w \in Within(v, n) : TextsDecode(w)
<1>1. PICK T : v \in T /\ Closed(T)
  BY DEF Clean
<1>2. Within(v, n) \subseteq T
  BY <1>1, WithinClosed
<1> QED
  BY <1>1, <1>2 DEF Closed

-----------------------------------------------------------------------------
(* and when a byte is read, which the lexer may refuse.                    *)
LEMMA ReadByteTextInv ==
  ASSUME NEW p, ParserInv(p), TextInv(p), ~Finished(p), NEW c
  PROVE  LET x == Scan(p.lexer, c)
             q == ReadByte(p, c)
         IN  /\ TextInv(q)
             /\ x.token = "none" => q.lexer = x /\ q.at = p.at
             /\ x.token = "parse_error" => Finished(q)
<1> DEFINE x == Scan(p.lexer, c)
           q == [p EXCEPT !.lexer = x]
<1>1. ReadByte(p, c) = TakeIfAny(q)
  BY DEF ReadByte
<1>2. Outcome(x)
  BY ScanOK DEF TextInv
<1> HIDE DEF x
<1>3. q.lexer = x /\ q.at = p.at /\ q.states = p.states /\ q.dom = p.dom /\ IsParser(q)
  <2>1. IsParser(p)
    BY DEF ParserInv
  <2> QED
    BY <2>1, ParserFields DEF IsParser
<1>4. ParserInv(q)
  BY LexerOK
<1> HIDE DEF q
<1>5. p.at \in Waits /\ p.states \in Seq(BOOLEAN)
  BY DEF ParserInv, Finished
<1>6. Texts(q)
  BY <1>2, <1>3, <1>5 DEF Texts, TextInv
<1>7. CASE x.token = "none"
  <2>1. TakeIfAny(q) = q
    BY <1>3, <1>7 DEF TakeIfAny
  <2>2. TextInv(q)
    BY <1>2, <1>3, <1>7 DEF TextInv, Outcome
  <2> QED
    BY <1>1, <1>3, <1>7, <2>1, <2>2 DEF x
<1>8. CASE x.token # "none"
  <2>1. TakeIfAny(q) = Take(q)
    BY <1>3, <1>8 DEF TakeIfAny
  <2>2. TextInv(Take(q)) /\ (q.lexer.token = "parse_error" => Take(q).at = "error")
    BY <1>3, <1>4, <1>5, <1>6, <1>8, TakeTextInv
  <2> QED
    BY <1>1, <1>3, <1>8, <2>1, <2>2 DEF x, Finished
<1> QED
  BY <1>7, <1>8

-----------------------------------------------------------------------------
(* A text that opens a string and does neither end it nor escape anything. *)
Byte == 0 .. 255

Opens(s) == s # <<>> /\ s[1] = Quote /\ \A i \in 2 .. Len(s) : s[i] >= 32 /\ s[i] \notin {Quote, Backslash}

(* The parser at such a text: it meets the quote again, behind the byte    *)
(* order mark that is not there; or the lexer has taken all the bytes; or  *)
(* they are no UTF-8, for neither of the two automata.                     *)
AtQuote(s, p) ==
    /\ ~Finished(p) /\ p.at = "value" /\ p.lexer.again
    /\ s = <<Quote>> /\ p.lexer.mode = "start" /\ p.lexer.current = Quote

InText(s, p) ==
    /\ ~Finished(p) /\ p.at = "value" /\ ~p.lexer.again
    /\ p.lexer.mode \in {"string", "tail"} /\ p.lexer.buffer = Tail(s)

OpenInv(s, p) ==
    /\ s = <<>> => p = NewParser
    /\ Opens(s) => \/ AtQuote(s, p)
                   \/ InText(s, p)
                   \/ Finished(p) /\ Decoded(Tail(s)) = Reject

(* A text with a byte more, without its quote.                             *)
LEMMA TailAppend ==
  ASSUME NEW s \in Seq(Byte), s # <<>>, NEW c \in Byte
  PROVE  /\ Append(s, c) \in Seq(Byte) /\ Append(s, c) # <<>> /\ Last(Append(s, c)) = c
         /\ Tail(s) \in Seq(Int) /\ Tail(Append(s, c)) = Append(Tail(s), c)
         /\ Opens(Append(s, c)) => Opens(s) /\ c >= 32 /\ c \notin {Quote, Backslash}
<1> DEFINE t == Append(s, c)
           short == Tail(s)
           long == Tail(t)
           grown == Append(short, c)
<1>1. /\ t \in Seq(Byte) /\ Len(t) = Len(s) + 1 /\ t[Len(t)] = c /\ t # <<>>
      /\ \A i \in 1 .. Len(s) : t[i] = s[i]
  BY AppendProperties
<1>2. Len(s) \in Nat /\ Len(s) # 0
  BY EmptySeq
<1>3. short \in Seq(Byte) /\ Len(short) = Len(s) - 1 /\ \A i \in 1 .. Len(short) : short[i] = s[i + 1]
  BY <1>2
<1>4. Last(t) = c
  BY <1>1 DEF Last
<1> HIDE DEF t, short
<1>5. long \in Seq(Byte) /\ Len(long) = Len(s) /\ \A i \in 1 .. Len(s) : long[i] = t[i + 1]
  BY <1>1, <1>2
<1>6. /\ grown \in Seq(Byte) /\ Len(grown) = Len(s) /\ grown[Len(s)] = c
      /\ \A i \in 1 .. Len(s) - 1 : grown[i] = short[i]
  BY <1>2, <1>3, AppendProperties
<1> HIDE DEF long, grown
<1>7. \A i \in 1 .. Len(s) : long[i] = grown[i]
  <2> SUFFICES ASSUME NEW i \in 1 .. Len(s)
               PROVE  long[i] = grown[i]
    OBVIOUS
  <2>1. long[i] = t[i + 1]
    BY <1>5
  <2>2. CASE i = Len(s)
    BY <1>1, <1>6, <2>1, <2>2
  <2>3. CASE i # Len(s)
    <3>1. i \in 1 .. Len(s) - 1 /\ i \in 1 .. Len(short) /\ i + 1 \in 1 .. Len(s)
      BY <1>2, <1>3, <2>3
    <3> QED
      BY <1>1, <1>3, <1>6, <2>1, <3>1
  <2> QED
    BY <2>2, <2>3
<1>8. long = grown
  BY <1>2, <1>5, <1>6, <1>7, SeqEqual
<1>9. short \in Seq(Int)
  <2>1. Byte \subseteq Int
    BY DEF Byte
  <2> QED
    BY <1>3, <2>1, SeqMonotonic
<1>10. ASSUME Opens(t)
       PROVE  Opens(s) /\ c >= 32 /\ c \notin {Quote, Backslash}
  <2>1. Len(t) \in 2 .. Len(t) /\ t[1] = s[1] /\ \A i \in 2 .. Len(s) : i \in 2 .. Len(t) /\ t[i] = s[i]
    BY <1>1, <1>2
  <2> QED
    BY <1>1, <1>10, <2>1 DEF Opens
<1> QED
  BY <1>1, <1>4, <1>8, <1>9, <1>10 DEF t, short, long, grown

(* The first byte.                                                         *)
LEMMA FirstByteOpen ==
  ASSUME NEW p, p = NewParser
  PROVE  OpenInv(<<Quote>>, ReadByte(p, Quote))
<1> DEFINE x == Scan(p.lexer, Quote)
           y == Noted(p.lexer, Quote)
<1>1. p.lexer = NewLexer /\ p.at = "value" /\ IsParser(p)
  BY DEF NewParser, IsParser
<1>2. LexOK(p.lexer) /\ p.lexer.mode = "bom"
  BY <1>1, NewLexerOK
<1>3. LexOK(y) /\ Same(y, p.lexer, {"current", "again"}) /\ y.current = Quote
  BY <1>2, NotedOK, Zenon
<1>4. x = BomByte(y, Quote)
  <2>1. "bom" \in BomModes
    BY DEF BomModes
  <2> QED
    BY <1>2, <2>1, ScanCases, Zenon
<1> HIDE DEF y, x
<1>5. IsLexer(y) /\ y.mode = "bom" /\ y.token = "none"
  BY <1>2, <1>3 DEF Same, LexerFields, LexOK
<1>6. x = Unget(In(y, "start"))
  BY <1>4, <1>5 DEF BomByte, Quote
<1> DEFINE z == In(y, "start")
<1>7. Same(z, y, {"mode"}) /\ z.mode = "start"
  BY <1>5, SomeOnly, Zenon
<1> HIDE DEF z
<1>8. Same(x, z, {"again"}) /\ x.again = TRUE
  <2>1. IsLexer(z)
    BY <1>7 DEF Same
  <2> QED
    BY <1>6, <2>1, SomeOnly, Zenon DEF z
<1>9. x.mode = "start" /\ x.current = Quote /\ x.token = "none"
  BY <1>3, <1>5, <1>7, <1>8 DEF Same, LexerFields
<1> DEFINE q == ReadByte(p, Quote)
<1>10. q.lexer = x /\ q.at = "value"
  <2> DEFINE r == [p EXCEPT !.lexer = x]
  <2>1. r.lexer = x /\ r.at = "value"
    BY <1>1, ParserFields DEF IsParser
  <2>2. q = TakeIfAny(r)
    BY DEF ReadByte, x
  <2> HIDE DEF r, q
  <2>3. q = r
    BY <1>9, <2>1, <2>2 DEF TakeIfAny
  <2> QED
    BY <2>1, <2>3
<1> HIDE DEF q
<1>11. AtQuote(<<Quote>>, q)
  BY <1>8, <1>9, <1>10 DEF AtQuote, Finished
<1>12. <<Quote>> # <<>>
  OBVIOUS
<1> QED
  BY <1>11, <1>12 DEF OpenInv, q

(* The quote is met again, and the string begins.                          *)
LEMMA QuoteAgainOpen ==
  ASSUME NEW p, ParserInv(p), TextInv(p), NEW s, AtQuote(s, p)
  PROVE  OpenInv(s, ReadByte(p, p.lexer.current))
<1> DEFINE c == Quote
           x == Scan(p.lexer, c)
           y == Noted(p.lexer, c)
           q == ReadByte(p, c)
<1>1. /\ ~Finished(p) /\ p.at = "value" /\ s = <<Quote>> /\ p.lexer.mode = "start"
      /\ p.lexer.current = c /\ LexOK(p.lexer)
  BY DEF AtQuote, TextInv
<1>2. /\ x.token = "none" => q.lexer = x /\ q.at = "value"
  BY <1>1, ReadByteTextInv
<1>3. LexOK(y) /\ Same(y, p.lexer, {"current", "again"}) /\ y.again = FALSE
  BY <1>1, NotedOK, Zenon
<1>4. x = StartByte(y, c)
  BY <1>1, ScanCases, Zenon
<1>5. IsLexer(y) /\ y.buffer = <<>> /\ y.token = "none"
  <2>1. y.mode = "start"
    BY <1>1, <1>3 DEF Same, LexerFields
  <2> HIDE DEF y
  <2> QED
    BY <1>3, <2>1 DEF LexOK
<1> HIDE DEF y, x, q
<1>6. x = In(y, "string")
  <2>1. c = 34 /\ DOMAIN Structural = {91, 93, 123, 125, 58, 44}
    BY DEF Quote, Structural, LeftBracket, RightBracket, LeftBrace, RightBrace, Colon, Comma
  <2>2. TrueText[1] = 116 /\ FalseText[1] = 102 /\ NullText[1] = 110
    BY DEF TrueText, FalseText, NullText
  <2>3. c \notin Space /\ c \notin DOMAIN Structural
    BY <2>1 DEF Space
  <2>4. c # TrueText[1] /\ c # FalseText[1] /\ c # NullText[1] /\ c # Hyphen /\ c \notin Digits /\ c # NUL /\ c # EOF
    BY <2>1, <2>2 DEF Hyphen, Digits, NUL, EOF
  <2> QED
    BY <1>4, <2>3, <2>4 DEF StartByte
<1>7. Same(x, y, {"mode"}) /\ x.mode = "string"
  BY <1>5, <1>6, SomeOnly, Zenon
<1>8. x.token = "none" /\ x.buffer = <<>> /\ x.again = FALSE
  BY <1>3, <1>5, <1>7 DEF Same, LexerFields
<1>9. Tail(s) = <<>> /\ s # <<>>
  BY <1>1
<1>10. InText(s, q)
  BY <1>2, <1>7, <1>8, <1>9 DEF InText, Finished
<1> QED
  BY <1>1, <1>9, <1>10 DEF OpenInv, q

(* A further byte: both automata take it, or neither.                      *)
LEMMA MoreOpen ==
  ASSUME NEW p, ParserInv(p), TextInv(p), NEW s \in Seq(Byte), s # <<>>, InText(s, p),
         NEW c \in Byte, c >= 32, c \notin {Quote, Backslash}
  PROVE  LET q == ReadByte(p, c)
             t == Append(s, c)
         IN  InText(t, q) \/ (Finished(q) /\ Decoded(Tail(t)) = Reject)
<1> DEFINE x == Scan(p.lexer, c)
           y == Noted(p.lexer, c)
           q == ReadByte(p, c)
           t == Append(s, c)
<1>1. /\ ~Finished(p) /\ p.at = "value" /\ LexOK(p.lexer)
      /\ p.lexer.mode \in {"string", "tail"} /\ p.lexer.buffer = Tail(s)
  BY DEF InText, TextInv
<1>2. /\ x.token = "none" => q.lexer = x /\ q.at = "value"
      /\ x.token = "parse_error" => Finished(q)
  BY <1>1, ReadByteTextInv
<1>3. LexOK(y) /\ Same(y, p.lexer, {"current", "again"}) /\ y.again = FALSE
  BY <1>1, NotedOK, Zenon
<1>4. /\ p.lexer.mode = "string" => x = PlainByte(y, c)
      /\ p.lexer.mode = "tail" => x = TailByte(y, c)
  BY <1>1, ScanCases, Zenon
<1>5. IsLexer(y) /\ y.buffer = Tail(s) /\ y.mode = p.lexer.mode
  BY <1>1, <1>3 DEF Same, LexerFields
<1>6. Tail(s) \in Seq(Int) /\ Tail(t) = Append(Tail(s), c)
  BY TailAppend
<1>7. c \in Int /\ c \in 32 .. 255
  BY DEF Byte
<1>8. Decoded(Tail(t)) = Decode(Decoded(Tail(s)), c)
  BY <1>6, <1>7, DecodedAppend
<1> HIDE DEF x, y, q, t
<1>9. ASSUME LexOK(x), x.mode \in {"string", "tail"}, x.buffer = Append(y.buffer, c), x.again = FALSE
      PROVE  InText(t, q)
  <2>1. x.token = "none"
    BY <1>9 DEF LexOK
  <2> QED
    BY <1>2, <1>5, <1>6, <1>9, <2>1 DEF InText, Finished
<1>10. ASSUME x = Fail(y)
       PROVE  Finished(q)
  <2>1. x.token = "parse_error"
    BY <1>5, <1>10, SomeOnly DEF Fail
  <2> QED
    BY <1>2, <2>1
<1>11. CASE p.lexer.mode = "string"
  <2>1. x = PlainByte(y, c) /\ y.mode = "string"
    BY <1>4, <1>5, <1>11
  <2>2. Decoded(Tail(s)) = Accept
    <3>1. Decodes(y.buffer)
      BY <1>3, <2>1, StringMode
    <3> QED
      BY <1>5, <3>1 DEF Decodes
  <2>3. CASE c \in 32 .. 127
    <3>1. x = Add(y, <<c>>)
      BY <2>1, <2>3 DEF PlainByte, EOF, ControlBytes, LeadBytes
    <3>2. LET z == Add(y, <<c>>)
          IN  LexOK(z) /\ z.mode = "string" /\ z.buffer = Append(y.buffer, c) /\ z.again = y.again
      BY <1>3, <2>1, <2>3, PlainMade
    <3>3. LexOK(x) /\ x.mode = "string" /\ x.buffer = Append(y.buffer, c) /\ x.again = y.again
      BY <3>1, <3>2, Zenon
    <3>4. InText(t, q)
      BY <1>3, <1>9, <3>3
    <3> QED
      BY <3>4 DEF q, t
  <2>4. CASE c \in LeadBytes
    <3>1. x = [Add(y, <<c>>) EXCEPT !.mode = "tail", !.rest = Tails(c)]
      <4>1. c # EOF /\ c \notin ControlBytes /\ c \notin 32 .. 127
        BY <1>7, <2>4 DEF EOF, ControlBytes, LeadBytes
      <4> QED
        BY <2>1, <2>4, <4>1 DEF PlainByte
    <3>2. LexOK(x) /\ x.mode = "tail" /\ x.buffer = Append(y.buffer, c) /\ x.again = y.again
      BY <1>3, <2>1, <2>4, <3>1, LeadMade, Zenon
    <3>3. InText(t, q)
      BY <1>3, <1>9, <3>2
    <3> QED
      BY <3>3 DEF q, t
  <2>5. CASE c \notin 32 .. 127 /\ c \notin LeadBytes
    <3>1. x = Fail(y)
      BY <1>7, <2>1, <2>5 DEF PlainByte, EOF, ControlBytes
    <3>2. Decode(Accept, c) = Reject
      BY <1>7, <2>5, PlainDecodes
    <3> QED
      BY <1>8, <1>10, <2>2, <3>1, <3>2 DEF q, t
  <2> QED
    BY <2>3, <2>4, <2>5
<1>12. CASE p.lexer.mode = "tail"
  <2>1. x = TailByte(y, c) /\ y.mode = "tail"
    BY <1>4, <1>5, <1>12
  <2> DEFINE range == Head(y.rest)
  <2>2. CASE c \in range[1] .. range[2]
    <3>1. LexOK(x) /\ x.mode \in {"string", "tail"} /\ x.buffer = Append(y.buffer, c) /\ x.again = y.again
      BY <1>3, <2>1, <2>2, TailMore, Zenon
    <3>2. InText(t, q)
      BY <1>3, <1>9, <3>1
    <3> QED
      BY <3>2 DEF q, t
  <2>3. CASE c \notin range[1] .. range[2]
    <3>1. x = Fail(y)
      BY <2>1, <2>3 DEF TailByte
    <3>2. Follows(y.rest, Decoded(Tail(s)))
      BY <1>3, <1>5, <2>1, TailMode
    <3>3. Decode(Decoded(Tail(s)), c) = Reject
      <4>1. c \in (0 .. 255) \ (range[1] .. range[2])
        BY <1>7, <2>3
      <4> QED
        BY <1>7, <3>2, <4>1, TailFollows
    <3> QED
      BY <1>8, <1>10, <3>1, <3>3 DEF q, t
  <2> QED
    BY <2>2, <2>3
<1> QED
  BY <1>1, <1>11, <1>12

-----------------------------------------------------------------------------
(* The inductive invariant: what ReadingInv says of the pointers, the tree *)
(* whose texts all decode, the lexer in order, and the parser at an open   *)
(* string.                                                                 *)
AutomataInv ==
    /\ ReadingInv
    /\ scenario \in DOMAIN Scenarios
    /\ text \in Seq(Byte) /\ piece \in Seq(Byte)
    /\ TextInv(parser)
    /\ ~ended => OpenInv(text, parser)

(* At the start, at every step, and what it says.                          *)
LEMMA AutomataInit ==
  Init => AutomataInv
<1> SUFFICES ASSUME Init
             PROVE  AutomataInv
  OBVIOUS
<1>1. ReadingInv
  BY ReadingInit
<1>2. parser = NewParser /\ text = <<>> /\ piece = <<>> /\ scenario \in DOMAIN Scenarios
  BY DEF Init
<1>3. parser.lexer = NewLexer /\ parser.dom.root = Null
  BY <1>2 DEF NewParser, NewDom
<1>4. Clean(Null)
  <2>1. Type(Null) = "null"
    BY DEF Type, Null
  <2> QED
    BY <2>1, CleanLeaf
<1>5. TextInv(parser)
  BY <1>3, <1>4, NewLexerOK DEF TextInv
<1>6. OpenInv(text, parser)
  BY <1>2 DEF OpenInv, Opens
<1>7. <<>> \in Seq(Byte)
  OBVIOUS
<1> QED
  BY <1>1, <1>2, <1>5, <1>6, <1>7 DEF AutomataInv

LEMMA AutomataNext ==
  AutomataInv /\ ReadNext => AutomataInv'
<1> SUFFICES ASSUME AutomataInv, ReadNext
             PROVE  AutomataInv'
  OBVIOUS
<1>1. /\ ParserInv(parser) /\ TextInv(parser) /\ OpenInv(text, parser)
      /\ ~Finished(parser) /\ ~parser.lexer.again /\ ~ended
      /\ text \in Seq(Byte) /\ piece \in Seq(Byte) /\ scenario \in DOMAIN Scenarios
      /\ UNCHANGED <<scenario, ended>>
  BY DEF AutomataInv, ReadingInv, ReadNext
<1>2. ReadingInv'
  <2>1. ReadingInv /\ [Next]_vars
    BY DEF AutomataInv, Next
  <2> QED
    BY <2>1, ReadingStep
<1>3. PICK c \in Byte : text' = Append(text, c) /\ piece' \in Seq(Byte)
  <2>1. ASSUME NEW from \in Seq(Byte), from # <<>>, piece' = Tail(from), text' = Append(text, Head(from))
        PROVE  \E c \in Byte : text' = Append(text, c) /\ piece' \in Seq(Byte)
    BY <2>1, HeadTailProperties
  <2>2. CASE piece # <<>> /\ piece' = Tail(piece) /\ text' = Append(text, Head(piece))
    BY <1>1, <2>1, <2>2
  <2>3. ASSUME NEW from \in Scenarios[scenario].pieces, piece' = Tail(from), text' = Append(text, Head(from))
        PROVE  \E c \in Byte : text' = Append(text, c) /\ piece' \in Seq(Byte)
    <3>1. from \in Seq(Byte) /\ from # <<>>
      BY <1>1, <2>3, PiecesAssumption DEF Byte
    <3> QED
      BY <2>1, <2>3, <3>1
  <2> QED
    BY <2>2, <2>3 DEF ReadNext
<1>4. text' \in Seq(Byte) /\ text' # <<>> /\ Last(text') = c
  BY <1>1, <1>3, AppendProperties DEF Last
<1>5. parser' = ReadByte(parser, c)
  BY <1>4 DEF ReadNext
<1>6. TextInv(parser')
  BY <1>1, <1>5, ReadByteTextInv
<1>7. ASSUME Opens(text')
      PROVE  OpenInv(text', parser')
  <2>1. CASE text = <<>>
    <3>1. text' = <<c>>
      BY <1>3, <2>1
    <3>2. c = Quote
      BY <1>7, <3>1 DEF Opens
    <3>3. parser = NewParser
      BY <1>1, <2>1 DEF OpenInv
    <3> QED
      BY <1>5, <3>1, <3>2, <3>3, FirstByteOpen
  <2>2. CASE text # <<>>
    <3>1. Opens(text) /\ c >= 32 /\ c \notin {Quote, Backslash}
      BY <1>1, <1>3, <1>7, <2>2, TailAppend
    <3>2. InText(text, parser)
      BY <1>1, <3>1 DEF OpenInv, AtQuote
    <3>3. InText(text', parser') \/ (Finished(parser') /\ Decoded(Tail(text')) = Reject)
      BY <1>1, <1>3, <1>5, <2>2, <3>1, <3>2, MoreOpen
    <3> QED
      BY <1>4, <3>3 DEF OpenInv
  <2> QED
    BY <2>1, <2>2
<1>8. OpenInv(text', parser')
  BY <1>4, <1>7 DEF OpenInv
<1> QED
  BY <1>1, <1>2, <1>3, <1>4, <1>6, <1>8 DEF AutomataInv

LEMMA AutomataStep ==
  AutomataInv /\ [Next]_vars => AutomataInv'
<1> SUFFICES ASSUME AutomataInv, [Next]_vars
             PROVE  AutomataInv'
  OBVIOUS
<1>1. /\ ParserInv(parser) /\ TextInv(parser) /\ (~ended => OpenInv(text, parser))
      /\ text \in Seq(Byte) /\ piece \in Seq(Byte) /\ scenario \in DOMAIN Scenarios
  BY DEF AutomataInv, ReadingInv
<1>2. ReadingInv'
  BY ReadingStep DEF AutomataInv
<1>3. CASE ReadNext
  BY <1>3, AutomataNext
<1>4. CASE ReadEnd
  <2>1. TextInv(parser')
    BY <1>1, <1>4, ReadByteTextInv DEF ReadEnd
  <2> QED
    BY <1>1, <1>2, <1>4, <2>1 DEF ReadEnd, AutomataInv
<1>5. CASE ReadAgain
  <2>1. /\ ~Finished(parser) /\ parser.lexer.again /\ parser' = ReadByte(parser, parser.lexer.current)
        /\ UNCHANGED <<scenario, text, piece, used, ended>>
    BY <1>5 DEF ReadAgain
  <2>2. TextInv(parser')
    BY <1>1, <2>1, ReadByteTextInv
  <2>3. ASSUME ~ended
        PROVE  OpenInv(text, parser')
    <3>1. text # <<>>
      <4>1. CASE text = <<>>
        <5>1. parser.lexer = NewLexer
          BY <1>1, <2>3, <4>1 DEF OpenInv, NewParser
        <5> QED
          BY <2>1, <5>1, NewLexerOK
      <4> QED
        BY <4>1
    <3>2. CASE Opens(text)
      <4>1. AtQuote(text, parser)
        BY <1>1, <2>1, <2>3, <3>2 DEF OpenInv, InText
      <4> QED
        BY <1>1, <2>1, <4>1, QuoteAgainOpen
    <3>3. CASE ~Opens(text)
      BY <3>1, <3>3 DEF OpenInv
    <3> QED
      BY <3>2, <3>3
  <2> QED
    BY <1>1, <1>2, <2>1, <2>2, <2>3 DEF AutomataInv
<1>6. CASE UNCHANGED vars
  BY <1>6 DEF vars, AutomataInv, ReadingInv
<1> QED
  BY <1>3, <1>4, <1>5, <1>6 DEF Next

LEMMA AutomataOK ==
  AutomataInv => AutomataAgree
<1> SUFFICES ASSUME AutomataInv
             PROVE  AutomataAgree
  OBVIOUS
<1>1. TextInv(parser) /\ (~ended => OpenInv(text, parser)) /\ Len(text) \in Nat
  BY DEF AutomataInv
<1>2. \A v \in Within(parser.dom.root, Len(text)) : TextsDecode(v)
  BY <1>1, CleanWithin DEF TextInv
<1>3. ASSUME OpenString
      PROVE  Decodes(Tail(text)) <=> parser.lexer.mode = "string" /\ ~Finished(parser)
  <2>1. Opens(text) /\ ~ended /\ ~parser.lexer.again
    BY <1>3 DEF OpenString, Opens
  <2>2. CASE InText(text, parser)
    <3>1. /\ LexOK(parser.lexer) /\ ~Finished(parser)
          /\ parser.lexer.mode \in {"string", "tail"} /\ parser.lexer.buffer = Tail(text)
      BY <1>1, <2>2 DEF InText, TextInv
    <3>2. CASE parser.lexer.mode = "string"
      <4>1. Decodes(Tail(text))
        BY <3>1, <3>2, StringMode
      <4> QED
        BY <3>1, <3>2, <4>1
    <3>3. CASE parser.lexer.mode = "tail"
      <4>1. Follows(parser.lexer.rest, Decoded(Tail(text)))
        BY <3>1, <3>3, TailMode
      <4>2. ~Decodes(Tail(text))
        BY <4>1 DEF Follows, Decodes, Accept
      <4> QED
        BY <3>3, <4>2
    <3> QED
      BY <3>1, <3>2, <3>3
  <2>3. CASE Finished(parser) /\ Decoded(Tail(text)) = Reject
    BY <2>3 DEF Decodes, Accept, Reject
  <2> QED
    BY <1>1, <2>1, <2>2, <2>3 DEF OpenInv, AtQuote
<1> QED
  BY <1>2, <1>3 DEF AutomataAgree

(* For every text: in an open string the lexer takes byte after byte       *)
(* exactly as long as the automaton of serializer::decode does, both are   *)
(* at the end of a character at the same time, and every text and name in  *)
(* the tree that json_sax_dom_parser builds, from bytes or from escapes,   *)
(* can be dumped.                                                          *)
THEOREM AutomataTheorem ==
  Spec => []AutomataAgree
<1>1. Init => AutomataInv
  BY AutomataInit
<1>2. AutomataInv /\ [Next]_vars => AutomataInv'
  BY AutomataStep
<1>3. AutomataInv => AutomataAgree
  BY AutomataOK
<1> QED
  BY <1>1, <1>2, <1>3, PTL DEF Spec
=============================================================================
