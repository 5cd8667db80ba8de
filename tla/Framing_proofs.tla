---------------------------- MODULE Framing_proofs ----------------------------
(***************************************************************************)
(* However many requests and answers there are, however long, and however  *)
(* the streams are cut and joined: what is taken for a message is one,     *)
(* taken once and in order; joined messages alone never end the server;    *)
(* and without a cut nothing is lost but what was written behind another.  *)
(***************************************************************************)
EXTENDS Framing, SequenceTheorems, WellFoundedInduction, TLAPS

(* The two streams, and what of them is a message's.                       *)
Cells == {Zero} \cup (Texts \X (Nat \ {0}))

TypeOK ==
    /\ menu \in {"login", "chat", "wait"}
    /\ waiting \in Questions \cup {NoMsg}
    /\ written \in Seq(Requests) /\ handled \in Seq(Requests)
    /\ posted \in Seq(Texts) /\ shown \in Seq(Texts)
    /\ toServer \in Seq(Cells) /\ toClient \in Seq(Cells)
    /\ behind \subseteq Requests
    /\ serverUp \in BOOLEAN /\ clientUp \in BOOLEAN /\ cut \in BOOLEAN

(* A stream of what was sent, of which some is done: it holds only pieces  *)
(* of what was sent, in the order it was sent, each message's from the     *)
(* first to the last, and all of them later than what is done.             *)
InStream(stream, whole, done) ==
    /\ InOrder(done, whole)
    /\ \A i \in 1 .. Len(stream) : stream[i] # Zero =>
          /\ stream[i][1] \in Elems(whole)
          /\ stream[i][2] \in 1 .. Size[stream[i][1]]
          /\ \A h \in Elems(done) : Before(whole, h, stream[i][1])
    /\ \A i, j \in 1 .. Len(stream) :
          i < j /\ stream[i] # Zero /\ stream[j] # Zero =>
             \/ stream[i][1] = stream[j][1] /\ stream[i][2] < stream[j][2]
             \/ Before(whole, stream[i][1], stream[j][1])

(* Everything in order, in both directions.                                *)
OrderInv ==
    /\ InStream(toServer, written, handled)
    /\ InStream(toClient, posted, shown)
    /\ \A m \in Elems(shown) : Size[m] <= BufferSize

Distinct(s) == \A i, j \in 1 .. Len(s) : s[i] = s[j] => i = j

(* Nothing is written, answered or sent twice; what is answered is handled. *)
OnceInv ==
    /\ Distinct(written)
    /\ Distinct(posted)
    /\ \A m \in Elems(posted) : m \in Pushes \/ m \in Elems(handled)

Messages(stream) == {stream[i][1] : i \in 1 .. Len(stream)}

(* A question or its answer is under way only while the client waits.      *)
WaitInv ==
    /\ \A q \in Messages(toServer) \cap Questions : menu = "wait" /\ waiting = q
    /\ \A q \in Messages(toClient) \cap Questions :
          menu = "wait" /\ waiting = q /\ q \in Elems(handled)

Follows(stream, i, cell) == i < Len(stream) /\ stream[i + 1] = cell

(* A stream of whole messages, each but a login ended by a zero.           *)
WholeMessages(stream) ==
    /\ Len(stream) > 0 => stream[1][2] = 1
    /\ \A i \in 1 .. Len(stream) :
          LET m == stream[i][1]
          IN  IF stream[i] = Zero
              THEN i < Len(stream) => stream[i + 1][2] = 1
              ELSE IF stream[i][2] < Size[m]
              THEN Follows(stream, i, <<m, stream[i][2] + 1>>)
              ELSE IF m \in Logins THEN i = Len(stream)
              ELSE Follows(stream, i, Zero)

(* As long as no read cuts a message.                                      *)
UncutInv ==
    ~cut => /\ serverUp
            /\ WholeMessages(toServer)
            /\ \A m \in Elems(written) \ (Elems(handled) \cup behind) :
                  Len(toServer) > 0 /\ toServer[1][1] = m

FramingInv == TypeOK /\ OrderInv /\ OnceInv /\ WaitInv /\ UncutInv

-----------------------------------------------------------------------------
(* Sequences.                                                              *)

LEMMA PiecesShape ==
  ASSUME NEW m \in Texts
  PROVE  /\ Size[m] \in Nat \ {0}
         /\ Pieces(m) \in Seq(Cells) /\ Len(Pieces(m)) = Size[m]
         /\ \A k \in 1 .. Size[m] : Pieces(m)[k] = <<m, k>>
<1>1. Size[m] \in Nat \ {0}
  BY FramingAssumption
<1>2. Pieces(m) \in [1 .. Size[m] -> Cells]
  BY <1>1 DEF Pieces, Cells
<1>3. Pieces(m) \in Seq(Cells)
  BY <1>1, <1>2, SeqDef
<1>4. Len(Pieces(m)) = Size[m]
  BY <1>1, <1>2, <1>3, LenProperties DEF Pieces
<1> QED
  BY <1>1, <1>3, <1>4 DEF Pieces

LEMMA CellKinds ==
  ASSUME NEW cell \in Cells
  PROVE  /\ cell = Zero \/ (cell[1] \in Texts /\ cell[2] \in Nat \ {0})
         /\ Zero[2] = 0 /\ Zero[1] = NoMsg /\ Zero[1] \notin Texts
         /\ \A m \in Texts, k \in Nat \ {0} : cell = <<m, k>> =>
               cell # Zero /\ cell[1] = m /\ cell[2] = k
<1>1. Zero[2] = 0 /\ Zero[1] = NoMsg
  BY DEF Zero
<1>2. cell = Zero \/ cell \in Texts \X (Nat \ {0})
  BY DEF Cells
<1>3. ASSUME cell # Zero PROVE cell[1] \in Texts /\ cell[2] \in Nat \ {0}
  <2>1. PICK m \in Texts, k \in Nat \ {0} : cell = <<m, k>>
    BY <1>2, <1>3
  <2>2. cell[1] = m /\ cell[2] = k
    BY <2>1
  <2> QED
    BY <2>1, <2>2
<1>4. ASSUME NEW m \in Texts, NEW k \in Nat \ {0}, cell = <<m, k>>
      PROVE  cell # Zero /\ cell[1] = m /\ cell[2] = k
  BY <1>1, <1>4
<1>5. Zero[1] \notin Texts
  BY <1>1, FramingAssumption
<1> QED
  BY <1>1, <1>3, <1>4, <1>5

(* What a read leaves.                                                     *)
LEMMA Rest ==
  ASSUME NEW stream \in Seq(Cells), NEW n \in 1 .. Len(stream)
  PROVE  /\ SubSeq(stream, n + 1, Len(stream)) \in Seq(Cells)
         /\ Len(SubSeq(stream, n + 1, Len(stream))) = Len(stream) - n
         /\ \A i \in 1 .. Len(stream) - n :
               SubSeq(stream, n + 1, Len(stream))[i] = stream[n + i]
<1>1. Len(stream) \in Nat /\ \A i \in 1 .. Len(stream) : stream[i] \in Cells
  BY LenProperties
<1>2. \A i \in (n + 1) .. Len(stream) : stream[i] \in Cells
  BY <1>1
<1>3. n + 1 \in Int /\ Len(stream) \in Int
  BY <1>1
<1> HIDE DEF Cells
<1>4. /\ SubSeq(stream, n + 1, Len(stream)) \in Seq(Cells)
      /\ Len(SubSeq(stream, n + 1, Len(stream))) =
            IF n + 1 <= Len(stream) THEN Len(stream) - (n + 1) + 1 ELSE 0
      /\ \A i \in 1 .. Len(stream) - (n + 1) + 1 :
            SubSeq(stream, n + 1, Len(stream))[i] = stream[(n + 1) + i - 1]
  BY <1>2, <1>3, SubSeqProperties
<1> QED
  BY <1>1, <1>4

(* What a read returns.                                                    *)
LEMMA Start ==
  ASSUME NEW stream \in Seq(Cells), NEW n \in 0 .. Len(stream)
  PROVE  /\ SubSeq(stream, 1, n) \in Seq(Cells)
         /\ Len(SubSeq(stream, 1, n)) = n
         /\ \A i \in 1 .. n : SubSeq(stream, 1, n)[i] = stream[i]
<1>1. Len(stream) \in Nat /\ \A i \in 1 .. Len(stream) : stream[i] \in Cells
  BY LenProperties
<1>2. /\ SubSeq(stream, 1, n) \in Seq(Cells)
      /\ Len(SubSeq(stream, 1, n)) = IF 1 <= n THEN n - 1 + 1 ELSE 0
      /\ \A i \in 1 .. n - 1 + 1 : SubSeq(stream, 1, n)[i] = stream[1 + i - 1]
  BY <1>1, SubSeqProperties
<1> QED
  BY <1>1, <1>2

LEMMA SentPieces ==
  ASSUME NEW stream \in Seq(Cells), NEW m \in Texts
  PROVE  /\ stream \o Pieces(m) \in Seq(Cells)
         /\ Len(stream \o Pieces(m)) = Len(stream) + Size[m]
         /\ \A i \in 1 .. Len(stream) : (stream \o Pieces(m))[i] = stream[i]
         /\ \A k \in 1 .. Size[m] : (stream \o Pieces(m))[Len(stream) + k] = <<m, k>>
<1>1. Len(stream) \in Nat
  BY LenProperties
<1>2. /\ stream \o Pieces(m) \in Seq(Cells)
      /\ Len(stream \o Pieces(m)) = Len(stream) + Len(Pieces(m))
      /\ \A i \in 1 .. Len(stream) + Len(Pieces(m)) : (stream \o Pieces(m))[i] =
            IF i <= Len(stream) THEN stream[i] ELSE Pieces(m)[i - Len(stream)]
  BY PiecesShape, ConcatProperties
<1>3. ASSUME NEW k \in 1 .. Size[m]
      PROVE  (stream \o Pieces(m))[Len(stream) + k] = <<m, k>>
  <2>1. /\ Len(stream) + k \in 1 .. Len(stream) + Len(Pieces(m))
        /\ ~(Len(stream) + k <= Len(stream))
        /\ (Len(stream) + k) - Len(stream) = k
    BY <1>1, PiecesShape
  <2> QED
    BY <2>1, <1>2, PiecesShape
<1>4. /\ Len(stream \o Pieces(m)) = Len(stream) + Size[m]
      /\ \A i \in 1 .. Len(stream) : (stream \o Pieces(m))[i] = stream[i]
  <2>1. Len(Pieces(m)) = Size[m] /\ Size[m] \in Nat
    BY PiecesShape
  <2> QED
    BY <2>1, <1>1, <1>2
<1> QED
  BY <1>2, <1>3, <1>4

(* A stream after a request.                                               *)
WithRequest(old, m, new) ==
    /\ new \in Seq(Cells)
    /\ Len(new) = Len(old) + Size[m] + (IF m \in Logins THEN 0 ELSE 1)
    /\ \A i \in 1 .. Len(old) : new[i] = old[i]
    /\ \A k \in 1 .. Size[m] : new[Len(old) + k] = <<m, k>>
    /\ m \notin Logins => new[Len(old) + Size[m] + 1] = Zero

LEMMA SentRequest ==
  ASSUME NEW stream \in Seq(Cells), NEW m \in Requests
  PROVE  WithRequest(stream, m, stream \o Pieces(m) \o Terminator(m))
<1> DEFINE most == stream \o Pieces(m)
           sent == most \o Terminator(m)
<1> SUFFICES WithRequest(stream, m, sent)
  OBVIOUS
<1> HIDE DEF sent
<1>1. m \in Texts /\ Len(stream) \in Nat /\ Size[m] \in Nat \ {0}
  BY LenProperties, PiecesShape DEF Texts
<1>2. /\ most \in Seq(Cells) /\ Len(most) = Len(stream) + Size[m]
      /\ \A i \in 1 .. Len(stream) : most[i] = stream[i]
      /\ \A k \in 1 .. Size[m] : most[Len(stream) + k] = <<m, k>>
  BY <1>1, SentPieces
<1>3. CASE m \in Logins
  <2>1. sent = most \o <<>>
    BY <1>3 DEF Terminator, sent
  <2> HIDE DEF most
  <2>2. sent = most
    BY <2>1, <1>2, ConcatEmptySeq
  <2> QED
    BY <1>1, <1>2, <1>3, <2>2 DEF WithRequest
<1>4. CASE m \notin Logins
  <2>1. sent = most \o <<Zero>>
    BY <1>4 DEF Terminator, sent
  <2>2. <<Zero>> \in Seq(Cells) /\ Len(<<Zero>>) = 1 /\ <<Zero>>[1] = Zero
    BY DEF Cells
  <2> HIDE DEF most
  <2>3. /\ sent \in Seq(Cells) /\ Len(sent) = Len(most) + 1
        /\ \A i \in 1 .. Len(most) + 1 :
              sent[i] = IF i <= Len(most) THEN most[i] ELSE <<Zero>>[i - Len(most)]
    BY <2>1, <2>2, <1>2, ConcatProperties
  <2>4. sent[Len(most) + 1] = Zero
    <3>1. /\ Len(most) + 1 \in 1 .. Len(most) + 1 /\ ~(Len(most) + 1 <= Len(most))
          /\ (Len(most) + 1) - Len(most) = 1
      BY <1>1, <1>2
    <3> QED
      BY <3>1, <2>2, <2>3
  <2>5. ASSUME NEW k \in 1 .. Size[m]
        PROVE  sent[Len(stream) + k] = <<m, k>>
    <3>1. /\ Len(stream) + k \in 1 .. Len(most) + 1 /\ Len(stream) + k <= Len(most)
          /\ most[Len(stream) + k] = <<m, k>>
      BY <1>1, <1>2
    <3> QED
      BY <3>1, <2>3
  <2>6. ASSUME NEW i \in 1 .. Len(stream)
        PROVE  sent[i] = stream[i]
    <3>1. i \in 1 .. Len(most) + 1 /\ i <= Len(most) /\ most[i] = stream[i]
      BY <1>1, <1>2
    <3> QED
      BY <3>1, <2>3
  <2> QED
    BY <1>1, <1>2, <1>4, <2>3, <2>4, <2>5, <2>6 DEF WithRequest
<1> QED
  BY <1>3, <1>4

(* The first of the numbers of which something is true.                    *)
LEMMA Least ==
  ASSUME NEW T, T \subseteq Nat, T # {}
  PROVE  \E x \in T : \A y \in T : x <= y
<1> DEFINE R == {ss \in Nat \X Nat : ss[1] < ss[2]}
<1>1. IsWellFoundedOn(R, Nat)
  BY NatLessThanWellFounded, Zenon DEF OpToRel
<1>2. \A x, y \in Nat : x < y => <<x, y>> \in R
  OBVIOUS
<1> HIDE DEF R
<1>3. PICK x \in T : \A y \in T : ~(<<y, x>> \in R)
  BY <1>1, WFMin
<1>4. \A y \in T : ~(y < x)
  BY <1>2, <1>3
<1>5. \A y \in T : x <= y
  BY <1>4
<1> QED
  BY <1>5

(* What json::parse is given: the start of what was read, up to its first  *)
(* zero.                                                                   *)
LEMMA TextIsStart ==
  ASSUME NEW stream \in Seq(Cells), NEW n \in 1 .. Len(stream),
         NEW text, text = UpToZero(SubSeq(stream, 1, n))
  PROVE  \E l \in 0 .. n :
            /\ text = SubSeq(stream, 1, l)
            /\ \A i \in 1 .. l : stream[i] # Zero
            /\ l = n \/ stream[l + 1] = Zero
<1> DEFINE cells == SubSeq(stream, 1, n)
           zeros == {i \in DOMAIN cells : cells[i] = Zero}
<1>1. /\ Len(stream) \in Nat /\ n \in Nat /\ cells \in Seq(Cells) /\ Len(cells) = n
      /\ \A i \in 1 .. n : cells[i] = stream[i]
  BY Start, LenProperties
<1>2. DOMAIN cells = 1 .. n
  BY <1>1, LenProperties
<1>3. CASE zeros = {}
  <2>1. text = SubSeq(stream, 1, n)
    BY <1>3 DEF UpToZero
  <2>2. \A i \in 1 .. n : stream[i] # Zero
    BY <1>1, <1>2, <1>3
  <2> QED
    BY <1>1, <2>1, <2>2
<1>4. CASE zeros # {}
  <2> DEFINE first == CHOOSE i \in zeros : \A j \in zeros : i <= j
  <2>1. zeros \subseteq Nat
    BY <1>1, <1>2
  <2>2. \E i \in zeros : \A j \in zeros : i <= j
    <3> HIDE DEF zeros
    <3> QED
      BY <2>1, <1>4, Least
  <2>3. first \in zeros /\ \A j \in zeros : first <= j
    BY <2>2
  <2>4. text = SubSeq(cells, 1, first - 1)
    BY <1>4 DEF UpToZero
  <2>5. first \in 1 .. n /\ cells[first] = Zero
    BY <1>2, <2>3
  <2>6. \A i \in 1 .. first - 1 : stream[i] # Zero
    <3> SUFFICES ASSUME NEW i \in 1 .. first - 1, stream[i] = Zero PROVE FALSE
      OBVIOUS
    <3> HIDE DEF first, cells
    <3>1. i \in 1 .. n /\ ~(first <= i)
      BY <2>5, <1>1
    <3>2. i \in zeros
      BY <3>1, <1>1, <1>2
    <3> QED
      BY <3>1, <3>2, <2>3
  <2> HIDE DEF first
  <2>7. first - 1 \in 0 .. n /\ first \in Nat /\ first - 1 + 1 = first
    BY <2>5, <1>1
  <2>8. SubSeq(cells, 1, first - 1) = SubSeq(stream, 1, first - 1)
    <3> DEFINE a == SubSeq(cells, 1, first - 1)
               b == SubSeq(stream, 1, first - 1)
    <3>1. /\ a \in Seq(Cells) /\ Len(a) = first - 1
          /\ \A i \in 1 .. first - 1 : a[i] = cells[i]
      <4> HIDE DEF cells
      <4> QED
        BY <2>7, <1>1, Start
    <3>2. /\ b \in Seq(Cells) /\ Len(b) = first - 1
          /\ \A i \in 1 .. first - 1 : b[i] = stream[i]
      BY <2>7, <1>1, Start
    <3>3. \A i \in 1 .. first - 1 : a[i] = b[i]
      BY <3>1, <3>2, <2>7, <1>1
    <3> HIDE DEF a, b
    <3>4. a = b
      BY <3>1, <3>2, <3>3, SeqEqual
    <3> QED
      BY <3>4 DEF a, b
  <2>9. stream[first] = Zero
    BY <2>5, <1>1
  <2> HIDE DEF cells
  <2>10. /\ text = SubSeq(stream, 1, first - 1)
         /\ \A i \in 1 .. first - 1 : stream[i] # Zero
         /\ first - 1 = n \/ stream[first - 1 + 1] = Zero
    BY <2>4, <2>6, <2>7, <2>8, <2>9
  <2> QED
    BY <2>7, <2>10
<1> QED
  BY <1>3, <1>4

LEMMA ElemsAre ==
  ASSUME NEW S, NEW s \in Seq(S)
  PROVE  /\ Elems(s) = {s[i] : i \in 1 .. Len(s)}
         /\ Elems(s) \subseteq S
         /\ \A x \in S : Elems(Append(s, x)) = Elems(s) \cup {x}
<1>1. Len(s) \in Nat /\ DOMAIN s = 1 .. Len(s) /\ \A i \in 1 .. Len(s) : s[i] \in S
  BY LenProperties
<1>2. ASSUME NEW x \in S
      PROVE  Elems(Append(s, x)) = Elems(s) \cup {x}
  <2>1. /\ Append(s, x) \in Seq(S) /\ Len(Append(s, x)) = Len(s) + 1
        /\ \A i \in 1 .. Len(s) : Append(s, x)[i] = s[i]
        /\ Append(s, x)[Len(s) + 1] = x
    BY <1>2, AppendProperties
  <2>2. DOMAIN Append(s, x) = 1 .. Len(s) + 1
    BY <2>1, LenProperties
  <2> QED
    BY <1>1, <2>1, <2>2 DEF Elems
<1> QED
  BY <1>1, <1>2 DEF Elems

(* What was before something stays before it, and everything is before     *)
(* what is appended.                                                       *)
LEMMA BeforeGrows ==
  ASSUME NEW S, NEW s \in Seq(S), NEW x \in S, NEW a, NEW b
  PROVE  /\ Before(s, a, b) => Before(Append(s, x), a, b)
         /\ a \in Elems(s) => Before(Append(s, x), a, x)
<1>1. /\ Append(s, x) \in Seq(S) /\ Len(Append(s, x)) = Len(s) + 1
      /\ \A i \in 1 .. Len(s) : Append(s, x)[i] = s[i]
      /\ Append(s, x)[Len(s) + 1] = x
  BY AppendProperties
<1>2. /\ DOMAIN Append(s, x) = 1 .. Len(s) + 1
      /\ DOMAIN s = 1 .. Len(s) /\ Len(s) \in Nat
  BY <1>1, LenProperties
<1> HIDE DEF Elems
<1>3. Before(s, a, b) => Before(Append(s, x), a, b)
  BY <1>1, <1>2 DEF Before
<1>4. ASSUME a \in Elems(s) PROVE Before(Append(s, x), a, x)
  <2>1. PICK i \in 1 .. Len(s) : s[i] = a
    BY <1>2, <1>4 DEF Elems
  <2>2. i < Len(s) + 1 /\ i \in 1 .. Len(s) + 1 /\ Len(s) + 1 \in 1 .. Len(s) + 1
    BY <1>2
  <2> QED
    BY <2>1, <2>2, <1>1, <1>2 DEF Before
<1> QED
  BY <1>3, <1>4

(* In a sequence without repetition, nothing comes before itself.          *)
LEMMA NotBeforeItself ==
  ASSUME NEW S, NEW s \in Seq(S), Distinct(s), NEW a
  PROVE  ~Before(s, a, a)
<1>1. DOMAIN s = 1 .. Len(s) /\ Len(s) \in Nat
  BY LenProperties
<1> QED
  BY <1>1 DEF Before, Distinct

LEMMA DistinctGrows ==
  ASSUME NEW S, NEW s \in Seq(S), Distinct(s), NEW x \in S, x \notin Elems(s)
  PROVE  Distinct(Append(s, x))
<1>1. /\ Len(s) \in Nat /\ Len(Append(s, x)) = Len(s) + 1
      /\ \A i \in 1 .. Len(s) : Append(s, x)[i] = s[i]
      /\ Append(s, x)[Len(s) + 1] = x
  BY AppendProperties, LenProperties
<1>2. \A i \in 1 .. Len(s) : s[i] # x
  BY ElemsAre
<1> QED
  BY <1>1, <1>2 DEF Distinct

-----------------------------------------------------------------------------
(* Order.  What a stream is made longer by.                                *)
Lengthened(old, new, m) ==
    /\ Len(old) <= Len(new)
    /\ \A i \in 1 .. Len(old) : new[i] = old[i]
    /\ \A i \in Len(old) + 1 .. Len(new) : new[i] # Zero =>
          i - Len(old) \in 1 .. Size[m] /\ new[i] = <<m, i - Len(old)>>

LEMMA SentLengthens ==
  ASSUME NEW stream \in Seq(Cells)
  PROVE  /\ \A m \in Texts : Lengthened(stream, stream, m)
         /\ \A m \in Texts : Lengthened(stream, stream \o Pieces(m), m)
         /\ \A m \in Requests :
               Lengthened(stream, stream \o Pieces(m) \o Terminator(m), m)
<1>1. Len(stream) \in Nat
  BY LenProperties
<1>2. \A m \in Texts : Lengthened(stream, stream, m)
  BY <1>1 DEF Lengthened
<1>3. ASSUME NEW m \in Texts
      PROVE  Lengthened(stream, stream \o Pieces(m), m)
  <2> DEFINE new == stream \o Pieces(m)
  <2>1. /\ Len(new) = Len(stream) + Size[m] /\ Size[m] \in Nat
        /\ \A i \in 1 .. Len(stream) : new[i] = stream[i]
        /\ \A k \in 1 .. Size[m] : new[Len(stream) + k] = <<m, k>>
    BY SentPieces, PiecesShape
  <2> HIDE DEF new
  <2>2. ASSUME NEW i \in Len(stream) + 1 .. Len(new)
        PROVE  i - Len(stream) \in 1 .. Size[m] /\ new[i] = <<m, i - Len(stream)>>
    <3>1. i - Len(stream) \in 1 .. Size[m] /\ Len(stream) + (i - Len(stream)) = i
      BY <1>1, <2>1
    <3> QED
      BY <3>1, <2>1
  <2>3. Lengthened(stream, new, m)
    BY <1>1, <2>1, <2>2 DEF Lengthened
  <2> QED
    BY <2>3 DEF new
<1>4. ASSUME NEW m \in Requests
      PROVE  Lengthened(stream, stream \o Pieces(m) \o Terminator(m), m)
  <2> DEFINE new == stream \o Pieces(m) \o Terminator(m)
  <2>0. new = stream \o Pieces(m) \o Terminator(m)
    OBVIOUS
  <2> HIDE DEF new
  <2>1. WithRequest(stream, m, new)
    BY <2>0, SentRequest
  <2>2. Size[m] \in Nat
    BY PiecesShape DEF Texts
  <2>3. ASSUME NEW i \in Len(stream) + 1 .. Len(new), new[i] # Zero
        PROVE  i - Len(stream) \in 1 .. Size[m] /\ new[i] = <<m, i - Len(stream)>>
    <3>1. i # Len(stream) + Size[m] + 1 \/ m \in Logins
      BY <2>1, <2>3 DEF WithRequest
    <3>2. i - Len(stream) \in 1 .. Size[m] /\ Len(stream) + (i - Len(stream)) = i
      BY <1>1, <2>1, <2>2, <3>1 DEF WithRequest
    <3> QED
      BY <3>2, <2>1 DEF WithRequest
  <2>4. Lengthened(stream, new, m)
    BY <1>1, <2>1, <2>2, <2>3 DEF Lengthened, WithRequest
  <2> QED
    BY <2>4 DEF new
<1> QED
  BY <1>2, <1>3, <1>4

(* Sending.                                                                *)
LEMMA InStreamSend ==
  ASSUME NEW old \in Seq(Cells), NEW new \in Seq(Cells), NEW m \in Texts,
         NEW whole \in Seq(Texts), NEW done \in Seq(Texts),
         InStream(old, whole, done), Lengthened(old, new, m)
  PROVE  InStream(new, Append(whole, m), done)
<1> DEFINE more == Append(whole, m)
<1>1. /\ Elems(more) = Elems(whole) \cup {m}
      /\ \A a, b : Before(whole, a, b) => Before(more, a, b)
      /\ \A a \in Elems(whole) : Before(more, a, m)
  BY ElemsAre, BeforeGrows
<1>2. /\ Len(old) \in Nat /\ Len(new) \in Nat /\ Size[m] \in Nat
      /\ \A i \in 1 .. Len(new) : new[i] \in Cells
  BY LenProperties, PiecesShape
<1>3. InOrder(done, whole)
  BY DEF InStream
<1> HIDE DEF more
<1>4. InOrder(done, more)
  BY <1>1, <1>3 DEF InOrder
<1>5. ASSUME NEW i \in 1 .. Len(new), new[i] # Zero
      PROVE  \/ i \in 1 .. Len(old) /\ new[i] = old[i]
             \/ /\ i > Len(old) /\ new[i][1] = m /\ new[i][2] = i - Len(old)
                /\ new[i][2] \in 1 .. Size[m]
  <2>1. CASE i <= Len(old)
    BY <1>2, <2>1 DEF Lengthened
  <2>2. CASE ~(i <= Len(old))
    <3>1. i \in Len(old) + 1 .. Len(new)
      BY <1>2, <2>2
    <3>2. i - Len(old) \in 1 .. Size[m] /\ new[i] = <<m, i - Len(old)>>
      BY <3>1, <1>5 DEF Lengthened
    <3> QED
      BY <1>2, <2>2, <3>2
  <2> QED
    BY <2>1, <2>2
<1>6. ASSUME NEW i \in 1 .. Len(new), new[i] # Zero
      PROVE  /\ new[i][1] \in Elems(more)
             /\ new[i][2] \in 1 .. Size[new[i][1]]
             /\ \A h \in Elems(done) : Before(more, h, new[i][1])
  <2>1. Elems(done) \subseteq Elems(whole)
    BY <1>3 DEF InOrder
  <2> QED
    BY <1>1, <1>5, <1>6, <2>1 DEF InStream
<1>7. ASSUME NEW i \in 1 .. Len(new), NEW j \in 1 .. Len(new), i < j,
             new[i] # Zero, new[j] # Zero
      PROVE  \/ new[i][1] = new[j][1] /\ new[i][2] < new[j][2]
             \/ Before(more, new[i][1], new[j][1])
  <2>1. CASE i \in 1 .. Len(old) /\ new[i] = old[i] /\ j \in 1 .. Len(old) /\ new[j] = old[j]
    BY <1>1, <1>7, <2>1 DEF InStream
  <2>2. CASE i \in 1 .. Len(old) /\ new[i] = old[i] /\ new[j][1] = m
    BY <1>1, <1>7, <2>2 DEF InStream
  <2>3. CASE /\ i > Len(old) /\ new[i][1] = m /\ new[i][2] = i - Len(old)
             /\ j > Len(old) /\ new[j][1] = m /\ new[j][2] = j - Len(old)
    BY <1>2, <1>7, <2>3
  <2> QED
    BY <1>2, <1>5, <1>7, <2>1, <2>2, <2>3
<1>8. InStream(new, more, done)
  BY <1>4, <1>6, <1>7 DEF InStream
<1> QED
  BY <1>8 DEF more

(* Reading.                                                                *)
LEMMA InStreamRead ==
  ASSUME NEW stream \in Seq(Cells), NEW n \in 1 .. Len(stream),
         NEW whole \in Seq(Texts), NEW done \in Seq(Texts),
         InStream(stream, whole, done)
  PROVE  InStream(SubSeq(stream, n + 1, Len(stream)), whole, done)
<1> DEFINE rest == SubSeq(stream, n + 1, Len(stream))
<1>1. /\ Len(rest) = Len(stream) - n /\ Len(stream) \in Nat
      /\ \A i \in 1 .. Len(stream) - n : rest[i] = stream[n + i]
  BY Rest, LenProperties
<1> HIDE DEF rest
<1>2. \A i \in 1 .. Len(rest) : n + i \in 1 .. Len(stream) /\ rest[i] = stream[n + i]
  BY <1>1
<1>3. \A i, j \in 1 .. Len(rest) : i < j => n + i < n + j
  BY <1>1
<1>4. InStream(rest, whole, done)
  BY <1>2, <1>3 DEF InStream
<1> QED
  BY <1>4 DEF rest

(* Reading a message: it is of what was sent, none of it is left, and what *)
(* is left is later.                                                       *)
LEMMA InStreamTake ==
  ASSUME NEW stream \in Seq(Cells), NEW n \in 1 .. Len(stream), NEW l \in 0 .. n,
         NEW m \in Texts, Pieces(m) = SubSeq(stream, 1, l),
         NEW whole \in Seq(Texts), NEW done \in Seq(Texts),
         InStream(stream, whole, done), Distinct(whole)
  PROVE  /\ l = Size[m] /\ stream[1] = <<m, 1>>
         /\ m \in Elems(whole) /\ m \notin Elems(done)
         /\ InStream(SubSeq(stream, n + 1, Len(stream)), whole, Append(done, m))
<1> DEFINE rest == SubSeq(stream, n + 1, Len(stream))
           more == Append(done, m)
<1>1. /\ Len(stream) \in Nat /\ n \in Nat /\ l \in Nat /\ l <= n
      /\ \A i \in 1 .. Len(stream) : stream[i] \in Cells
  BY LenProperties
<1>2. /\ l = Size[m] /\ l > 0
      /\ \A k \in 1 .. l : stream[k] = <<m, k>>
  <2>1. l \in 0 .. Len(stream)
    BY <1>1
  <2>2. Len(SubSeq(stream, 1, l)) = l /\ \A k \in 1 .. l : SubSeq(stream, 1, l)[k] = stream[k]
    BY <2>1, Start
  <2>3. Size[m] \in Nat \ {0} /\ Len(Pieces(m)) = Size[m]
        /\ \A k \in 1 .. Size[m] : Pieces(m)[k] = <<m, k>>
    BY PiecesShape
  <2> QED
    BY <2>2, <2>3
<1>3. /\ 1 \in 1 .. Len(stream) /\ l \in 1 .. Len(stream)
      /\ stream[1] = <<m, 1>> /\ stream[l] = <<m, l>>
  BY <1>1, <1>2
<1>4. /\ stream[1] # Zero /\ stream[1][1] = m
      /\ stream[l] # Zero /\ stream[l][1] = m /\ stream[l][2] = Size[m]
  BY <1>1, <1>2, <1>3, CellKinds
<1>5. m \in Elems(whole) /\ \A h \in Elems(done) : Before(whole, h, m)
  BY <1>3, <1>4 DEF InStream
<1>6. m \notin Elems(done)
  BY <1>5, NotBeforeItself
<1>7. InStream(rest, whole, done)
  BY InStreamRead
<1>8. /\ Elems(more) = Elems(done) \cup {m} /\ Len(more) = Len(done) + 1
      /\ Len(done) \in Nat /\ DOMAIN done = 1 .. Len(done) /\ DOMAIN more = 1 .. Len(more)
      /\ \A i \in 1 .. Len(done) : more[i] = done[i] /\ done[i] \in Elems(done)
      /\ more[Len(done) + 1] = m
  <2>1. /\ more \in Seq(Texts) /\ Len(more) = Len(done) + 1
        /\ \A i \in 1 .. Len(done) : more[i] = done[i]
        /\ more[Len(done) + 1] = m
    BY AppendProperties
  <2>2. Elems(more) = Elems(done) \cup {m}
    BY ElemsAre
  <2> QED
    BY <2>1, <2>2, ElemsAre, LenProperties
<1> HIDE DEF more
<1>9. InOrder(more, whole)
  <2>1. Elems(more) \subseteq Elems(whole)
    BY <1>5, <1>7, <1>8 DEF InStream, InOrder
  <2>2. ASSUME NEW i \in DOMAIN more, NEW j \in DOMAIN more, i < j
        PROVE  Before(whole, more[i], more[j])
    <3>1. i \in 1 .. Len(done)
      BY <1>8, <2>2
    <3>2. CASE j \in 1 .. Len(done)
      BY <1>7, <1>8, <2>2, <3>1, <3>2 DEF InStream, InOrder
    <3>3. CASE j = Len(done) + 1
      BY <1>5, <1>8, <3>1, <3>3
    <3> QED
      BY <1>8, <3>2, <3>3
  <2> QED
    BY <2>1, <2>2 DEF InOrder
<1>10. ASSUME NEW i \in 1 .. Len(rest), rest[i] # Zero
       PROVE  Before(whole, m, rest[i][1])
  <2>1. /\ n + i \in 1 .. Len(stream) /\ rest[i] = stream[n + i] /\ l < n + i
    BY <1>1, Rest
  <2>2. \/ m = rest[i][1] /\ Size[m] < rest[i][2]
        \/ Before(whole, m, rest[i][1])
    BY <1>3, <1>4, <1>10, <2>1 DEF InStream
  <2>3. rest[i][2] \in 1 .. Size[rest[i][1]] /\ Size[m] \in Nat
    BY <1>2, <1>1, <1>10, <1>7 DEF InStream
  <2> QED
    BY <2>2, <2>3
<1> HIDE DEF rest
<1>11. InStream(rest, whole, more)
  BY <1>7, <1>8, <1>9, <1>10 DEF InStream
<1> QED
  BY <1>2, <1>3, <1>5, <1>6, <1>11 DEF rest, more

-----------------------------------------------------------------------------
(* Types, and the two reads in the words above.                            *)

LEMMA Subsets ==
  /\ Questions \subseteq Requests /\ Requests \subseteq Texts /\ Pushes \subseteq Texts
  /\ Commands \cup Loginouts \subseteq Requests
  /\ Logins \subseteq Questions /\ NoMsg \notin Texts
  /\ \A m \in Commands \cup Loginouts \cup Pushes : m \notin Questions
  /\ Seq(Requests) \subseteq Seq(Texts)
<1>1. Requests \subseteq Texts
  BY DEF Texts
<1>2. Seq(Requests) \subseteq Seq(Texts)
  BY <1>1, SeqMonotonic
<1>3. \A m \in Commands \cup Loginouts \cup Pushes : m \notin Questions
  BY FramingAssumption
<1> QED
  BY <1>2, <1>3, FramingAssumption DEF Questions, Requests, Texts

(* A request is written.                                                   *)
Writes(m) == m \in Requests /\ Write(m) /\ (Ask(m) \/ Tell(m))

LEMMA WriteTypes ==
  ASSUME TypeOK, NEW m, Writes(m)
  PROVE  /\ TypeOK'
         /\ Lengthened(toServer, toServer', m)
         /\ serverUp => WithRequest(toServer, m, toServer')
<1>1. /\ m \in Requests /\ m \in Texts /\ toServer \in Seq(Cells)
      /\ written \in Seq(Requests)
  BY Subsets DEF TypeOK, Writes
<1>2. /\ Lengthened(toServer, toServer', m)
      /\ serverUp => WithRequest(toServer, m, toServer')
  BY <1>1, SentLengthens, SentRequest DEF Writes, Write
<1>3. toServer' \in Seq(Cells)
  BY <1>1, <1>2 DEF Writes, Write, WithRequest
<1>4. written' \in Seq(Requests)
  BY <1>1, AppendProperties DEF Writes, Write
<1>5. menu' \in {"login", "chat", "wait"} /\ waiting' \in Questions \cup {NoMsg}
  BY DEF Writes, Ask, Tell, TypeOK
<1>6. behind' \subseteq Requests
  BY <1>1 DEF Writes, Write, TypeOK
<1>7. UNCHANGED <<serverVars, clientVars>>
  BY DEF Writes, Write
<1> QED
  BY <1>2, <1>3, <1>4, <1>5, <1>6, <1>7 DEF TypeOK, serverVars, clientVars

LEMMA PostTypes ==
  ASSUME TypeOK, NEW m \in Texts, Post(m)
  PROVE  /\ posted' \in Seq(Texts) /\ toClient' \in Seq(Cells)
         /\ Lengthened(toClient, toClient', m)
<1>1. posted \in Seq(Texts) /\ toClient \in Seq(Cells)
  BY DEF TypeOK
<1>2. posted' \in Seq(Texts)
  BY <1>1, AppendProperties DEF Post
<1>3. toClient' \in Seq(Cells)
  BY <1>1, SentPieces DEF Post
<1>4. Lengthened(toClient, toClient', m)
  BY <1>1, SentLengthens DEF Post
<1> QED
  BY <1>2, <1>3, <1>4

LEMMA DispatchTypes ==
  ASSUME TypeOK, NEW m \in Requests, Dispatch(m)
  PROVE  handled' \in Seq(Requests) /\ posted' \in Seq(Texts) /\ toClient' \in Seq(Cells)
<1>1. handled' \in Seq(Requests)
  BY AppendProperties DEF Dispatch, TypeOK
<1>2. CASE Post(m)
  BY <1>1, <1>2, PostTypes, Subsets
<1>3. CASE UNCHANGED <<posted, toClient>>
  BY <1>1, <1>3 DEF TypeOK
<1> QED
  BY <1>2, <1>3 DEF Dispatch

(* What the server's read does: it dispatches the message at the head of   *)
(* the stream, and no other, or ends.                                      *)
Dispatches(n, m) ==
    /\ m \in Requests /\ Dispatch(m) /\ UNCHANGED serverUp
    /\ toServer[1] = <<m, 1>> /\ m \in Elems(written) \ Elems(handled)
    /\ InStream(toServer', written, Append(handled, m))

Stumbles(n) ==
    /\ \A m \in Requests : UpToZero(SubSeq(toServer, 1, n)) # Pieces(m)
    /\ serverUp' = FALSE
    /\ UNCHANGED <<handled, posted, toClient>>
    /\ InStream(toServer', written, handled)

ServerReads(n) ==
    /\ serverUp /\ n \in 1 .. Len(toServer)
    /\ toServer' = SubSeq(toServer, n + 1, Len(toServer)) /\ toServer' \in Seq(Cells)
    /\ cut' = (cut \/ ~EndsMessage(toServer, n))
    /\ UNCHANGED <<menu, waiting, written, behind, shown, clientUp>>
    /\ Stumbles(n) \/ \E m : Dispatches(n, m)

LEMMA OnMessageReads ==
  ASSUME TypeOK, OrderInv, OnceInv, OnMessage
  PROVE  \E n : ServerReads(n)
<1>1. /\ toServer \in Seq(Cells) /\ written \in Seq(Texts) /\ handled \in Seq(Texts)
      /\ InStream(toServer, written, handled) /\ Distinct(written)
  BY Subsets DEF TypeOK, OrderInv, OnceInv
<1>2. PICK n \in 1 .. Len(toServer) :
         LET text == UpToZero(SubSeq(toServer, 1, n))
         IN  /\ toServer' = RetrieveAll(n)
             /\ cut' = (cut \/ ~EndsMessage(toServer, n))
             /\ \/ /\ \E m \in Requests : Parses(text, m) /\ Dispatch(m)
                   /\ UNCHANGED serverUp
                \/ /\ \A m \in Requests : ~Parses(text, m)
                   /\ serverUp' = FALSE
                   /\ UNCHANGED <<handled, posted, toClient>>
  BY DEF OnMessage
<1> DEFINE text == UpToZero(SubSeq(toServer, 1, n))
<1>3. toServer' = SubSeq(toServer, n + 1, Len(toServer)) /\ toServer' \in Seq(Cells)
  BY <1>1, <1>2, Rest DEF RetrieveAll
<1>4. serverUp /\ UNCHANGED <<menu, waiting, written, behind, shown, clientUp>>
  BY DEF OnMessage
<1>5. CASE \E m \in Requests : Parses(text, m) /\ Dispatch(m) /\ UNCHANGED serverUp
  <2>1. PICK m \in Requests : text = Pieces(m) /\ Dispatch(m) /\ UNCHANGED serverUp
    BY <1>5 DEF Parses
  <2>2. PICK l \in 0 .. n : text = SubSeq(toServer, 1, l)
    BY <1>1, TextIsStart
  <2>3. Pieces(m) = SubSeq(toServer, 1, l) /\ m \in Texts
    BY <2>1, <2>2, Subsets
  <2>4. /\ toServer[1] = <<m, 1>> /\ m \in Elems(written) /\ m \notin Elems(handled)
        /\ InStream(SubSeq(toServer, n + 1, Len(toServer)), written, Append(handled, m))
    BY <2>3, <1>1, InStreamTake
  <2>5. Dispatches(n, m)
    BY <2>1, <2>4, <1>3 DEF Dispatches
  <2> QED
    BY <2>5, <1>2, <1>3, <1>4 DEF ServerReads
<1>6. CASE ~\E m \in Requests : Parses(text, m) /\ Dispatch(m) /\ UNCHANGED serverUp
  <2>1. /\ \A m \in Requests : text # Pieces(m)
        /\ serverUp' = FALSE /\ UNCHANGED <<handled, posted, toClient>>
    BY <1>2, <1>6 DEF Parses
  <2>2. InStream(toServer', written, handled)
    BY <1>1, <1>3, InStreamRead
  <2>3. Stumbles(n)
    BY <2>1, <2>2 DEF Stumbles
  <2> QED
    BY <2>3, <1>2, <1>3, <1>4 DEF ServerReads
<1> QED
  BY <1>5, <1>6

(* What the client's read does: it works on the message at the head of the *)
(* stream, which fits its buffer, or ends.                                 *)
Shows(m) ==
    /\ m \in Texts /\ Size[m] <= BufferSize
    /\ shown' = Append(shown, m) /\ Wake(m) /\ UNCHANGED clientUp
    /\ toClient[1] = <<m, 1>> /\ m \in Elems(posted) \ Elems(shown)
    /\ InStream(toClient', posted, Append(shown, m))

GivesUp ==
    /\ clientUp' = FALSE
    /\ UNCHANGED <<shown, menu, waiting>>
    /\ InStream(toClient', posted, shown)

ClientReads(n) ==
    /\ clientUp /\ n \in 1 .. Len(toClient)
    /\ toClient' = SubSeq(toClient, n + 1, Len(toClient)) /\ toClient' \in Seq(Cells)
    /\ UNCHANGED <<written, toServer, behind, posted, serverVars>>
    /\ GivesUp \/ \E m : Shows(m)

LEMMA ReadTaskReads ==
  ASSUME TypeOK, OrderInv, OnceInv, ReadTask
  PROVE  \E n : ClientReads(n)
<1>1. /\ toClient \in Seq(Cells) /\ posted \in Seq(Texts) /\ shown \in Seq(Texts)
      /\ InStream(toClient, posted, shown) /\ Distinct(posted)
  BY DEF TypeOK, OrderInv, OnceInv
<1>2. PICK n \in 1 .. Len(toClient) :
         LET text == SubSeq(toClient, 1, n)
         IN  /\ n <= BufferSize
             /\ toClient' = SubSeq(toClient, n + 1, Len(toClient))
             /\ \/ \E m \in Texts :
                      /\ Understands(text, m)
                      /\ shown' = Append(shown, m)
                      /\ Wake(m)
                      /\ UNCHANGED clientUp
                \/ /\ \A m \in Texts : ~Understands(text, m)
                   /\ clientUp' = FALSE
                   /\ UNCHANGED <<shown, menu, waiting>>
  BY DEF ReadTask
<1>3. toClient' \in Seq(Cells)
  BY <1>1, <1>2, Rest
<1>4. clientUp /\ UNCHANGED <<written, toServer, behind, posted, serverVars>>
  BY DEF ReadTask
<1>5. ASSUME NEW m \in Texts, Understands(SubSeq(toClient, 1, n), m),
             shown' = Append(shown, m), Wake(m), UNCHANGED clientUp
      PROVE  ClientReads(n)
  <2>1. n \in 0 .. n
    BY <1>1, LenProperties
  <2>2. Pieces(m) = SubSeq(toClient, 1, n)
    BY <1>5 DEF Understands, Parses
  <2>3. /\ n = Size[m] /\ toClient[1] = <<m, 1>>
        /\ m \in Elems(posted) /\ m \notin Elems(shown)
        /\ InStream(SubSeq(toClient, n + 1, Len(toClient)), posted, Append(shown, m))
    BY <2>1, <2>2, <1>1, InStreamTake
  <2>4. Shows(m)
    BY <2>3, <1>2, <1>5 DEF Shows
  <2> QED
    BY <2>4, <1>2, <1>3, <1>4 DEF ClientReads
<1>6. CASE clientUp' = FALSE /\ UNCHANGED <<shown, menu, waiting>>
  <2>1. InStream(toClient', posted, shown)
    BY <1>1, <1>2, InStreamRead
  <2>2. GivesUp
    BY <2>1, <1>6 DEF GivesUp
  <2> QED
    BY <2>2, <1>2, <1>3, <1>4 DEF ClientReads
<1> QED
  BY <1>2, <1>5, <1>6

(* Every step is one of these.                                             *)
LEMMA Steps ==
  ASSUME TypeOK, OrderInv, OnceInv, [Next]_vars
  PROVE  \/ \E m : Writes(m)
         \/ \E n : ServerReads(n)
         \/ \E m \in Pushes : Push(m)
         \/ \E n : ClientReads(n)
         \/ ConnectionLost
         \/ UNCHANGED vars
<1>1. ASSUME NEW m \in Requests, Ask(m) \/ Tell(m)
      PROVE  Writes(m)
  BY <1>1 DEF Writes, Ask, Tell
<1> QED
  BY <1>1, OnMessageReads, ReadTaskReads DEF Next

-----------------------------------------------------------------------------
(* Types and order.                                                        *)

LEMMA ServerTypes ==
  ASSUME TypeOK, NEW n, ServerReads(n)
  PROVE  TypeOK'
<1>1. /\ toServer' \in Seq(Cells) /\ cut' \in BOOLEAN
      /\ UNCHANGED <<menu, waiting, written, behind, shown, clientUp>>
  <2>1. cut' = (cut \/ ~EndsMessage(toServer, n))
    BY DEF ServerReads
  <2>2. cut' \in BOOLEAN
    BY <2>1
  <2> QED
    BY <2>2 DEF ServerReads
<1>2. CASE Stumbles(n)
  BY <1>1, <1>2 DEF TypeOK, Stumbles
<1>3. ASSUME NEW m, Dispatches(n, m)
      PROVE  TypeOK'
  <2>1. handled' \in Seq(Requests) /\ posted' \in Seq(Texts) /\ toClient' \in Seq(Cells)
    BY <1>3, DispatchTypes DEF Dispatches
  <2>2. UNCHANGED serverUp
    BY <1>3 DEF Dispatches
  <2> QED
    BY <1>1, <2>1, <2>2 DEF TypeOK
<1> QED
  BY <1>2, <1>3 DEF ServerReads

LEMMA ClientTypes ==
  ASSUME TypeOK, NEW n, ClientReads(n)
  PROVE  TypeOK'
<1>1. /\ toClient' \in Seq(Cells)
      /\ UNCHANGED <<written, toServer, behind, posted, handled, serverUp, cut>>
  BY DEF ClientReads, serverVars
<1>2. CASE GivesUp
  BY <1>1, <1>2 DEF GivesUp, TypeOK
<1>3. ASSUME NEW m, Shows(m)
      PROVE  TypeOK'
  <2>1. shown' \in Seq(Texts)
    BY <1>3, AppendProperties DEF Shows, TypeOK
  <2>2. menu' \in {"login", "chat", "wait"} /\ waiting' \in Questions \cup {NoMsg}
    BY <1>3 DEF Shows, Wake, TypeOK
  <2> QED
    BY <1>1, <1>3, <2>1, <2>2 DEF Shows, TypeOK
<1> QED
  BY <1>2, <1>3 DEF ClientReads

LEMMA StepTypeOK ==
  ASSUME TypeOK, OrderInv, OnceInv, [Next]_vars
  PROVE  TypeOK'
<1>1. ASSUME NEW m \in Pushes, Push(m)
      PROVE  TypeOK'
  <2>1. posted' \in Seq(Texts) /\ toClient' \in Seq(Cells)
    BY <1>1, PostTypes, Subsets DEF Push
  <2> QED
    BY <1>1, <2>1 DEF Push, TypeOK, requestVars, serverVars
<1>2. CASE ConnectionLost
  BY <1>2 DEF ConnectionLost, TypeOK, requestVars, serverVars
<1>3. CASE UNCHANGED vars
  BY <1>3 DEF TypeOK, vars, requestVars, serverVars, clientVars
<1> QED
  BY <1>1, <1>2, <1>3, Steps, WriteTypes, ServerTypes, ClientTypes

(* The same for the order.                                                 *)
LEMMA PostOrder ==
  ASSUME TypeOK, OrderInv, NEW m \in Texts, Post(m)
  PROVE  InStream(toClient', posted', shown)
<1>1. /\ toClient \in Seq(Cells) /\ posted \in Seq(Texts) /\ shown \in Seq(Texts)
      /\ InStream(toClient, posted, shown) /\ posted' = Append(posted, m)
  BY DEF TypeOK, OrderInv, Post
<1>2. toClient' \in Seq(Cells) /\ Lengthened(toClient, toClient', m)
  BY PostTypes
<1>3. InStream(toClient', Append(posted, m), shown)
  BY <1>1, <1>2, InStreamSend
<1> QED
  BY <1>1, <1>3

LEMMA StepOrder ==
  ASSUME TypeOK, OrderInv, OnceInv, [Next]_vars
  PROVE  OrderInv'
<1>1. ASSUME NEW m, Writes(m)
      PROVE  OrderInv'
  <2>1. /\ toServer \in Seq(Cells) /\ toServer' \in Seq(Cells) /\ m \in Texts
        /\ written \in Seq(Texts) /\ handled \in Seq(Texts)
        /\ Lengthened(toServer, toServer', m) /\ InStream(toServer, written, handled)
    BY <1>1, WriteTypes, Subsets DEF TypeOK, OrderInv, Writes
  <2>2. InStream(toServer', Append(written, m), handled)
    BY <2>1, InStreamSend
  <2> QED
    BY <1>1, <2>2 DEF OrderInv, Writes, Write, serverVars, clientVars
<1>2. ASSUME NEW n, ServerReads(n)
      PROVE  OrderInv'
  <2>1. UNCHANGED <<written, shown>>
    BY <1>2 DEF ServerReads
  <2>2. InStream(toServer', written', handled')
    BY <1>2 DEF ServerReads, Stumbles, Dispatches, Dispatch
  <2>3. InStream(toClient', posted', shown)
    <3>1. CASE UNCHANGED <<posted, toClient>>
      BY <3>1 DEF OrderInv
    <3>2. CASE \E m \in Texts : Post(m)
      BY <3>2, PostOrder
    <3> QED
      BY <1>2, <3>1, <3>2, Subsets DEF ServerReads, Stumbles, Dispatches, Dispatch
  <2> QED
    BY <2>1, <2>2, <2>3 DEF OrderInv
<1>3. ASSUME NEW m \in Pushes, Push(m)
      PROVE  OrderInv'
  <2>1. InStream(toClient', posted', shown)
    BY <1>3, PostOrder, Subsets DEF Push
  <2> QED
    BY <1>3, <2>1 DEF Push, OrderInv, requestVars, serverVars
<1>4. ASSUME NEW n, ClientReads(n)
      PROVE  OrderInv'
  <2>1. UNCHANGED <<written, toServer, handled, posted>>
    BY <1>4 DEF ClientReads, serverVars
  <2>2. InStream(toClient', posted, shown')
    BY <1>4 DEF ClientReads, GivesUp, Shows
  <2>3. \A m \in Elems(shown') : Size[m] <= BufferSize
    <3>1. CASE GivesUp
      BY <3>1 DEF GivesUp, OrderInv
    <3>2. ASSUME NEW m, Shows(m)
          PROVE  Elems(shown') = Elems(shown) \cup {m} /\ Size[m] <= BufferSize
      <4>1. shown \in Seq(Texts)
        BY DEF TypeOK
      <4> QED
        BY <3>2, <4>1, ElemsAre DEF Shows
    <3> QED
      BY <1>4, <3>1, <3>2 DEF ClientReads, OrderInv
  <2> QED
    BY <2>1, <2>2, <2>3 DEF OrderInv
<1>5. CASE ConnectionLost
  BY <1>5 DEF ConnectionLost, OrderInv, requestVars, serverVars
<1>6. CASE UNCHANGED vars
  BY <1>6 DEF OrderInv, vars, requestVars, serverVars, clientVars
<1> QED
  BY <1>1, <1>2, <1>3, <1>4, <1>5, <1>6, Steps

LEMMA StepOnce ==
  ASSUME TypeOK, OrderInv, OnceInv, [Next]_vars
  PROVE  OnceInv'
<1>1. ASSUME NEW m, Writes(m)
      PROVE  OnceInv'
  <2>1. m \in Requests /\ m \notin Elems(written) /\ written' = Append(written, m)
    BY <1>1 DEF Writes, Write
  <2>2. Distinct(written')
    BY <2>1, DistinctGrows DEF TypeOK, OnceInv
  <2> QED
    BY <1>1, <2>2 DEF OnceInv, Writes, Write, serverVars, clientVars
<1>2. ASSUME NEW m \in Texts \ Elems(posted), Post(m)
      PROVE  Distinct(posted') /\ Elems(posted') = Elems(posted) \cup {m}
  BY <1>2, DistinctGrows, ElemsAre DEF TypeOK, OnceInv, Post
<1>3. ASSUME NEW n, ServerReads(n)
      PROVE  OnceInv'
  <2>1. UNCHANGED written
    BY <1>3 DEF ServerReads
  <2>2. CASE Stumbles(n)
    BY <2>1, <2>2 DEF OnceInv, Stumbles
  <2>3. ASSUME NEW m, Dispatches(n, m)
        PROVE  OnceInv'
    <3>1. /\ m \in Requests /\ m \notin Elems(handled) /\ handled' = Append(handled, m)
          /\ UNCHANGED <<posted, toClient>> \/ (m \in Questions /\ Post(m))
      BY <2>3 DEF Dispatches, Dispatch
    <3>2. Elems(handled') = Elems(handled) \cup {m}
      BY <3>1, ElemsAre DEF TypeOK
    <3>3. CASE UNCHANGED <<posted, toClient>>
      BY <2>1, <3>2, <3>3 DEF OnceInv
    <3>4. CASE m \in Questions /\ Post(m)
      <4>1. m \in Texts \ Elems(posted)
        BY <3>1, <3>4, Subsets DEF OnceInv
      <4>2. Distinct(posted') /\ Elems(posted') = Elems(posted) \cup {m}
        BY <3>4, <4>1, <1>2
      <4> QED
        BY <2>1, <3>2, <4>2 DEF OnceInv
    <3> QED
      BY <3>1, <3>3, <3>4
  <2> QED
    BY <1>3, <2>2, <2>3 DEF ServerReads
<1>4. ASSUME NEW m \in Pushes, Push(m)
      PROVE  OnceInv'
  <2>1. Distinct(posted') /\ Elems(posted') = Elems(posted) \cup {m}
    BY <1>2, <1>4, Subsets DEF Push
  <2> QED
    BY <1>4, <2>1 DEF Push, OnceInv, requestVars, serverVars
<1>5. ASSUME NEW n, ClientReads(n)
      PROVE  OnceInv'
  BY <1>5 DEF ClientReads, OnceInv, serverVars
<1>6. CASE ConnectionLost
  BY <1>6 DEF ConnectionLost, OnceInv, requestVars, serverVars
<1>7. CASE UNCHANGED vars
  BY <1>7 DEF OnceInv, vars, requestVars, serverVars, clientVars
<1> QED
  BY <1>1, <1>3, <1>4, <1>5, <1>6, <1>7, Steps

-----------------------------------------------------------------------------
(* One question at a time.                                                 *)

LEMMA MessagesGrow ==
  ASSUME NEW old \in Seq(Cells), NEW new \in Seq(Cells), NEW m, Lengthened(old, new, m)
  PROVE  Messages(new) \subseteq Messages(old) \cup {NoMsg, m}
<1>1. Len(old) \in Nat /\ Len(new) \in Nat
  BY LenProperties
<1> SUFFICES ASSUME NEW i \in 1 .. Len(new)
             PROVE  new[i][1] \in Messages(old) \cup {NoMsg, m}
  BY DEF Messages
<1>2. CASE i <= Len(old)
  BY <1>1, <1>2 DEF Lengthened, Messages
<1>3. CASE i \in Len(old) + 1 .. Len(new)
  BY <1>3 DEF Lengthened, Zero
<1> QED
  BY <1>1, <1>2, <1>3

LEMMA MessagesShrink ==
  ASSUME NEW stream \in Seq(Cells), NEW n \in 1 .. Len(stream)
  PROVE  Messages(SubSeq(stream, n + 1, Len(stream))) \subseteq Messages(stream)
<1> DEFINE rest == SubSeq(stream, n + 1, Len(stream))
<1>1. /\ Len(rest) = Len(stream) - n /\ Len(stream) \in Nat
      /\ \A i \in 1 .. Len(stream) - n : rest[i] = stream[n + i]
  BY Rest, LenProperties
<1> HIDE DEF rest
<1>2. \A i \in 1 .. Len(rest) : n + i \in 1 .. Len(stream) /\ rest[i] = stream[n + i]
  BY <1>1
<1>3. Messages(rest) \subseteq Messages(stream)
  BY <1>2 DEF Messages
<1> QED
  BY <1>3 DEF rest

LEMMA QuestionSent ==
  ASSUME TypeOK, OrderInv, NEW q \in Messages(toServer) \cap Questions
  PROVE  q \in Elems(written) /\ \A h \in Elems(handled) : Before(written, h, q)
<1>1. PICK i \in 1 .. Len(toServer) : q = toServer[i][1]
  BY DEF Messages
<1>2. toServer[i] # Zero
  BY <1>1, Subsets DEF Zero
<1> QED
  BY <1>1, <1>2 DEF OrderInv, InStream

LEMMA QuestionAnswered ==
  ASSUME TypeOK, OrderInv, NEW q \in Messages(toClient) \cap Questions
  PROVE  q \in Elems(posted) /\ \A h \in Elems(shown) : Before(posted, h, q)
<1>1. PICK i \in 1 .. Len(toClient) : q = toClient[i][1]
  BY DEF Messages
<1>2. toClient[i] # Zero
  BY <1>1, Subsets DEF Zero
<1> QED
  BY <1>1, <1>2 DEF OrderInv, InStream

LEMMA StepWait ==
  ASSUME TypeOK, OrderInv, OnceInv, WaitInv, [Next]_vars
  PROVE  WaitInv'
<1>0. TypeOK' /\ OrderInv' /\ OnceInv'
  BY StepTypeOK, StepOrder, StepOnce
<1>1. ASSUME NEW m, Writes(m)
      PROVE  WaitInv'
  <2>1. UNCHANGED <<toClient, handled>> /\ m \in Requests
    BY <1>1 DEF Writes, Write, serverVars, clientVars
  <2>2. /\ Messages(toServer) \cap Questions = {}
        /\ Messages(toClient) \cap Questions = {}
    BY <1>1 DEF Writes, Ask, Tell, WaitInv
  <2>3. Messages(toServer') \subseteq Messages(toServer) \cup {NoMsg, m}
    BY <1>0, <1>1, WriteTypes, MessagesGrow DEF TypeOK
  <2>4. \A q \in Messages(toServer') \cap Questions : q = m
    BY <2>2, <2>3, Subsets
  <2>5. m \in Questions => menu' = "wait" /\ waiting' = m
    BY <1>1, Subsets DEF Writes, Ask, Tell
  <2> QED
    BY <2>1, <2>2, <2>4, <2>5 DEF WaitInv
<1>2. ASSUME NEW n, ServerReads(n)
      PROVE  WaitInv'
  <2>1. UNCHANGED <<menu, waiting>> /\ Messages(toServer') \subseteq Messages(toServer)
    BY <1>2, MessagesShrink DEF ServerReads, TypeOK
  <2>2. CASE Stumbles(n)
    BY <2>1, <2>2 DEF WaitInv, Stumbles
  <2>3. ASSUME NEW m, Dispatches(n, m)
        PROVE  WaitInv'
    <3>1. /\ m \in Requests /\ handled' = Append(handled, m) /\ toServer[1] = <<m, 1>>
          /\ UNCHANGED <<posted, toClient>> \/ (m \in Questions /\ Post(m))
      BY <2>3 DEF Dispatches, Dispatch
    <3>2. Elems(handled') = Elems(handled) \cup {m}
      BY <3>1, ElemsAre DEF TypeOK
    <3>3. CASE UNCHANGED <<posted, toClient>>
      BY <2>1, <3>2, <3>3 DEF WaitInv
    <3>4. CASE m \in Questions /\ Post(m)
      <4>1. 1 \in 1 .. Len(toServer)
        BY <1>2, LenProperties DEF ServerReads, TypeOK
      <4>2. m \in Messages(toServer)
        BY <3>1, <4>1 DEF Messages
      <4>3. menu = "wait" /\ waiting = m
        BY <3>4, <4>2 DEF WaitInv
      <4>4. Messages(toClient') \subseteq Messages(toClient) \cup {NoMsg, m}
        BY <1>0, <3>4, PostTypes, MessagesGrow, Subsets DEF TypeOK
      <4> QED
        BY <2>1, <3>2, <4>3, <4>4, Subsets DEF WaitInv
    <3> QED
      BY <3>1, <3>3, <3>4
  <2> QED
    BY <1>2, <2>2, <2>3 DEF ServerReads
<1>3. ASSUME NEW m \in Pushes, Push(m)
      PROVE  WaitInv'
  <2>1. Messages(toClient') \subseteq Messages(toClient) \cup {NoMsg, m}
    BY <1>0, <1>3, PostTypes, MessagesGrow, Subsets DEF Push, TypeOK
  <2>2. UNCHANGED <<menu, waiting, toServer, handled>>
    BY <1>3 DEF Push, requestVars, serverVars
  <2> QED
    BY <2>1, <2>2, Subsets DEF WaitInv
<1>4. ASSUME NEW n, ClientReads(n)
      PROVE  WaitInv'
  <2>1. /\ UNCHANGED <<toServer, handled>>
        /\ Messages(toClient') \subseteq Messages(toClient)
    BY <1>4, MessagesShrink DEF ClientReads, serverVars, TypeOK
  <2>2. CASE GivesUp
    BY <2>1, <2>2 DEF WaitInv, GivesUp
  <2>3. ASSUME NEW m, Shows(m), m \notin Questions
        PROVE  WaitInv'
    BY <2>1, <2>3 DEF WaitInv, Shows, Wake
  <2>4. ASSUME NEW m, Shows(m), m \in Questions
        PROVE  WaitInv'
    <3>1. 1 \in 1 .. Len(toClient) /\ toClient[1] = <<m, 1>>
      BY <1>4, <2>4, LenProperties DEF ClientReads, Shows, TypeOK
    <3>2. m \in Messages(toClient)
      BY <3>1 DEF Messages
    <3>3. waiting = m /\ m \in Elems(handled)
      BY <2>4, <3>2 DEF WaitInv
    <3>4. Messages(toServer) \cap Questions = {}
      <4> SUFFICES ASSUME NEW q \in Messages(toServer) \cap Questions PROVE FALSE
        OBVIOUS
      <4>1. q = m
        BY <3>3 DEF WaitInv
      <4>2. Before(written, m, m)
        BY <3>3, <4>1, QuestionSent
      <4> QED
        BY <4>2, NotBeforeItself DEF TypeOK, OnceInv
    <3>5. Messages(toClient') \cap Questions = {}
      <4> SUFFICES ASSUME NEW q \in Messages(toClient') \cap Questions PROVE FALSE
        OBVIOUS
      <4>1. q = m
        BY <2>1, <3>3 DEF WaitInv
      <4>2. PICK i \in 1 .. Len(toClient') : q = toClient'[i][1]
        BY DEF Messages
      <4>3. toClient'[i] # Zero
        BY <4>2, Subsets DEF Zero
      <4>4. InStream(toClient', posted, Append(shown, m))
        BY <2>4 DEF Shows
      <4>5. m \in Elems(Append(shown, m))
        BY <2>4, ElemsAre DEF Shows, TypeOK
      <4>6. Before(posted, m, m)
        BY <4>1, <4>2, <4>3, <4>4, <4>5 DEF InStream
      <4> QED
        BY <4>6, NotBeforeItself DEF TypeOK, OnceInv
    <3> QED
      BY <2>1, <3>4, <3>5 DEF WaitInv
  <2> QED
    BY <1>4, <2>2, <2>3, <2>4 DEF ClientReads
<1>5. CASE ConnectionLost
  BY <1>5 DEF ConnectionLost, WaitInv, requestVars, serverVars
<1>6. CASE UNCHANGED vars
  BY <1>6 DEF WaitInv, vars, requestVars, serverVars, clientVars
<1> QED
  BY <1>1, <1>2, <1>3, <1>4, <1>5, <1>6, Steps

-----------------------------------------------------------------------------
(* Whole messages.                                                         *)

(* The pieces of the first message, one after the other.                   *)
LEMMA HeadIsWhole ==
  ASSUME NEW stream \in Seq(Cells), WholeMessages(stream), Len(stream) > 0,
         NEW m, m = stream[1][1]
  PROVE  /\ m \in Texts
         /\ \A k \in 1 .. Size[m] : k <= Len(stream) /\ stream[k] = <<m, k>>
<1>1. /\ Len(stream) \in Nat /\ 1 \in 1 .. Len(stream)
      /\ \A i \in 1 .. Len(stream) : stream[i] \in Cells
  BY LenProperties
<1>2. stream[1] # Zero /\ stream[1] \in Cells /\ stream[1][2] = 1
  BY <1>1 DEF WholeMessages, Zero
<1>3. PICK t \in Texts, j \in Nat \ {0} : stream[1] = <<t, j>>
  BY <1>2 DEF Cells
<1>4. m \in Texts /\ stream[1] = <<m, 1>>
  BY <1>2, <1>3
<1>5. Size[m] \in Nat \ {0}
  BY <1>4, PiecesShape
<1> DEFINE missing == {k \in 1 .. Size[m] : ~(k <= Len(stream) /\ stream[k] = <<m, k>>)}
<1>6. CASE missing = {}
  BY <1>4, <1>6
<1>7. CASE missing # {}
  <2>1. missing \subseteq Nat
    BY <1>5
  <2>2. \E k \in missing : \A l \in missing : k <= l
    <3> HIDE DEF missing
    <3> QED
      BY <1>7, <2>1, Least
  <2>3. PICK k \in missing : \A l \in missing : k <= l
    BY <2>2
  <2>4. k # 1
    <3>1. \A l \in missing : ~(l <= Len(stream) /\ stream[l] = <<m, l>>)
      OBVIOUS
    <3> HIDE DEF missing
    <3> SUFFICES ASSUME k = 1 PROVE FALSE
      OBVIOUS
    <3>2. ~(1 <= Len(stream) /\ stream[1] = <<m, 1>>)
      BY <2>3, <3>1
    <3>3. 1 <= Len(stream)
      BY <1>1
    <3> QED
      BY <1>4, <3>2, <3>3
  <2>5. k - 1 \in 1 .. Size[m] /\ k - 1 \notin missing
    BY <1>5, <2>3, <2>4
  <2>6. k - 1 \in 1 .. Len(stream) /\ stream[k - 1] = <<m, k - 1>>
    BY <1>1, <2>5
  <2>7. stream[k - 1] # Zero /\ stream[k - 1][1] = m /\ stream[k - 1][2] = k - 1
    BY <1>4, <2>5, <2>6, CellKinds, <1>1
  <2>8. stream[k - 1][2] < Size[m]
    BY <1>5, <2>3, <2>7
  <2>9. Follows(stream, k - 1, <<m, (k - 1) + 1>>)
    BY <2>6, <2>7, <2>8 DEF WholeMessages
  <2>10. k - 1 < Len(stream) /\ stream[k] = <<m, k>> /\ (k - 1) + 1 = k
    BY <1>5, <2>3, <2>9 DEF Follows
  <2> QED
    BY <1>1, <2>3, <2>10
<1> QED
  BY <1>6, <1>7

(* A read that ends where a message ends is parsed.                        *)
LEMMA WholeParses ==
  ASSUME NEW stream \in Seq(Cells), WholeMessages(stream),
         NEW n \in 1 .. Len(stream), EndsMessage(stream, n),
         NEW m, m = stream[1][1]
  PROVE  UpToZero(SubSeq(stream, 1, n)) = Pieces(m)
<1>1. Len(stream) \in Nat /\ Len(stream) > 0 /\ n \in Nat /\ n > 0
  BY LenProperties
<1>2. /\ m \in Texts /\ Size[m] \in Nat \ {0}
      /\ \A k \in 1 .. Size[m] : k <= Len(stream) /\ stream[k] = <<m, k>>
  BY <1>1, HeadIsWhole, PiecesShape
<1>3. \A k \in 1 .. Size[m] : stream[k] # Zero /\ stream[k][1] = m /\ stream[k][2] = k
  BY <1>2, Subsets DEF Zero
<1>4. n >= Size[m]
  <2> SUFFICES ASSUME n < Size[m] PROVE FALSE
    BY <1>1, <1>2
  <2>1. n + 1 \in 1 .. Size[m] /\ n + 1 # 1
    BY <1>1, <1>2
  <2>2. stream[n + 1][2] = n + 1 /\ n + 1 <= Len(stream)
    BY <1>2, <1>3, <2>1
  <2> QED
    BY <1>1, <2>1, <2>2 DEF EndsMessage
<1>5. /\ Size[m] \in 1 .. Len(stream) /\ Size[m] \in 1 .. Size[m]
      /\ ~(Size[m] < Size[m])
  BY <1>1, <1>2, <1>4
<1>6. n > Size[m] => stream[Size[m] + 1] = Zero
  <2> SUFFICES ASSUME n > Size[m] PROVE stream[Size[m] + 1] = Zero
    OBVIOUS
  <2>1. Size[m] # Len(stream)
    BY <1>1, <1>2
  <2>2. Follows(stream, Size[m], Zero)
    BY <1>3, <1>5, <2>1 DEF WholeMessages
  <2> QED
    BY <2>2 DEF Follows
<1>7. PICK l \in 0 .. n :
         /\ UpToZero(SubSeq(stream, 1, n)) = SubSeq(stream, 1, l)
         /\ \A i \in 1 .. l : stream[i] # Zero
         /\ l = n \/ stream[l + 1] = Zero
  BY TextIsStart
<1>8. l = Size[m]
  <2>1. ~(l < Size[m])
    <3> SUFFICES ASSUME l < Size[m] PROVE FALSE
      OBVIOUS
    <3>1. l # n /\ l + 1 \in 1 .. Size[m]
      BY <1>1, <1>2, <1>4
    <3> QED
      BY <1>3, <1>7, <3>1
  <2>2. ~(l > Size[m])
    <3> SUFFICES ASSUME l > Size[m] PROVE FALSE
      OBVIOUS
    <3>1. n > Size[m] /\ Size[m] + 1 \in 1 .. l
      BY <1>1, <1>2
    <3> QED
      BY <1>6, <1>7, <3>1
  <2> QED
    BY <1>1, <1>2, <2>1, <2>2
<1>9. l \in 0 .. Len(stream)
  BY <1>1
<1>10. /\ SubSeq(stream, 1, l) \in Seq(Cells) /\ Len(SubSeq(stream, 1, l)) = l
       /\ \A i \in 1 .. l : SubSeq(stream, 1, l)[i] = stream[i]
  BY <1>9, Start
<1>11. /\ Pieces(m) \in Seq(Cells) /\ Len(Pieces(m)) = l
       /\ \A i \in 1 .. l : Pieces(m)[i] = stream[i]
  BY <1>2, <1>8, PiecesShape
<1>12. \A i \in 1 .. Len(Pieces(m)) : SubSeq(stream, 1, l)[i] = Pieces(m)[i]
  BY <1>10, <1>11
<1>13. SubSeq(stream, 1, l) = Pieces(m)
  BY <1>10, <1>11, <1>12, SeqEqual
<1> QED
  BY <1>7, <1>13

(* What is left after it is whole again.                                   *)
LEMMA WholeRest ==
  ASSUME NEW stream \in Seq(Cells), WholeMessages(stream),
         NEW n \in 1 .. Len(stream), EndsMessage(stream, n),
         NEW rest, rest = SubSeq(stream, n + 1, Len(stream))
  PROVE  WholeMessages(rest)
<1>1. /\ Len(rest) = Len(stream) - n /\ Len(stream) \in Nat /\ n \in Nat /\ n > 0
      /\ \A i \in 1 .. Len(stream) - n : rest[i] = stream[n + i]
  BY Rest, LenProperties
<1>2. \A i \in 1 .. Len(rest) :
         /\ n + i \in 1 .. Len(stream) /\ rest[i] = stream[n + i]
         /\ i < Len(rest) <=> n + i < Len(stream)
         /\ i = Len(rest) <=> n + i = Len(stream)
  BY <1>1
<1>3. \A i \in 1 .. Len(rest) : i < Len(rest) => rest[i + 1] = stream[n + i + 1]
  <2> SUFFICES ASSUME NEW i \in 1 .. Len(rest), i < Len(rest)
               PROVE  rest[i + 1] = stream[n + i + 1]
    OBVIOUS
  <2>1. i + 1 \in 1 .. Len(rest) /\ n + (i + 1) = n + i + 1
    BY <1>1
  <2> QED
    BY <1>2, <2>1
<1>4. Len(rest) > 0 => rest[1][2] = 1
  <2> SUFFICES ASSUME Len(rest) > 0 PROVE rest[1][2] = 1
    OBVIOUS
  <2>1. 1 \in 1 .. Len(rest) /\ n # Len(stream)
    BY <1>1
  <2> QED
    BY <1>2, <2>1 DEF EndsMessage
<1>5. ASSUME NEW i \in 1 .. Len(rest), rest[i] = Zero, i < Len(rest)
      PROVE  rest[i + 1][2] = 1
  BY <1>2, <1>3, <1>5 DEF WholeMessages
<1>6. ASSUME NEW i \in 1 .. Len(rest), rest[i] # Zero
      PROVE  IF rest[i][2] < Size[rest[i][1]]
             THEN Follows(rest, i, <<rest[i][1], rest[i][2] + 1>>)
             ELSE IF rest[i][1] \in Logins THEN i = Len(rest)
             ELSE Follows(rest, i, Zero)
  <2>1. IF rest[i][2] < Size[rest[i][1]]
        THEN Follows(stream, n + i, <<rest[i][1], rest[i][2] + 1>>)
        ELSE IF rest[i][1] \in Logins THEN n + i = Len(stream)
        ELSE Follows(stream, n + i, Zero)
    BY <1>2, <1>6 DEF WholeMessages
  <2>2. \A cell : Follows(stream, n + i, cell) => Follows(rest, i, cell)
    BY <1>2, <1>3 DEF Follows
  <2> QED
    BY <1>2, <2>1, <2>2
<1> QED
  BY <1>4, <1>5, <1>6 DEF WholeMessages

(* And after a request is written behind it, if no login waits there.      *)
LEMMA WholeSend ==
  ASSUME NEW old \in Seq(Cells), WholeMessages(old), Messages(old) \cap Logins = {},
         NEW m \in Requests, NEW new, WithRequest(old, m, new)
  PROVE  WholeMessages(new)
<1>1. /\ Len(old) \in Nat /\ Len(new) \in Nat /\ m \in Texts /\ Size[m] \in Nat \ {0}
      /\ Len(new) = Len(old) + Size[m] + (IF m \in Logins THEN 0 ELSE 1)
      /\ \A i \in 1 .. Len(old) : new[i] = old[i] /\ i < Len(new)
      /\ \A k \in 1 .. Size[m] : new[Len(old) + k] = <<m, k>>
      /\ m \notin Logins => new[Len(old) + Size[m] + 1] = Zero
  BY LenProperties, PiecesShape, Subsets DEF WithRequest
<1>2. \A k \in 1 .. Size[m] :
         /\ new[Len(old) + k] # Zero
         /\ new[Len(old) + k][1] = m /\ new[Len(old) + k][2] = k
  BY <1>1, Subsets DEF Zero
<1>3. 1 \in 1 .. Size[m] /\ new[Len(old) + 1][2] = 1
  BY <1>1, <1>2
<1>4. new[1][2] = 1
  <2>1. CASE Len(old) > 0
    <3>1. 1 \in 1 .. Len(old)
      BY <1>1, <2>1
    <3> QED
      BY <1>1, <2>1, <3>1 DEF WholeMessages
  <2>2. CASE Len(old) = 0
    BY <1>3, <2>2
  <2> QED
    BY <1>1, <2>1, <2>2
<1> DEFINE Right(i) == LET t == new[i][1]
                       IN  IF new[i] = Zero
                           THEN i < Len(new) => new[i + 1][2] = 1
                           ELSE IF new[i][2] < Size[t]
                           THEN Follows(new, i, <<t, new[i][2] + 1>>)
                           ELSE IF t \in Logins THEN i = Len(new)
                           ELSE Follows(new, i, Zero)
<1>5. ASSUME NEW i \in 1 .. Len(old)
      PROVE  Right(i)
  <2>1. new[i] = old[i] /\ i < Len(new) /\ (i < Len(old) => new[i + 1] = old[i + 1])
    <3>1. i < Len(old) => i + 1 \in 1 .. Len(old)
      BY <1>1
    <3> QED
      BY <1>1, <3>1
  <2>2. i < Len(old) \/ i = Len(old)
    BY <1>1
  <2>3. CASE old[i] = Zero
    BY <1>3, <2>1, <2>2, <2>3 DEF WholeMessages
  <2>4. CASE old[i] # Zero
    <3>1. old[i][1] \notin Logins
      BY DEF Messages
    <3>2. IF old[i][2] < Size[old[i][1]]
          THEN Follows(old, i, <<old[i][1], old[i][2] + 1>>)
          ELSE Follows(old, i, Zero)
      BY <2>4, <3>1 DEF WholeMessages
    <3>3. \A cell : Follows(old, i, cell) => Follows(new, i, cell)
      BY <2>1 DEF Follows
    <3> QED
      BY <2>1, <2>4, <3>1, <3>2, <3>3
  <2> QED
    BY <2>3, <2>4
<1>6. ASSUME NEW k \in 1 .. Size[m]
      PROVE  Right(Len(old) + k)
  <2>1. CASE k < Size[m]
    <3>1. /\ k + 1 \in 1 .. Size[m] /\ Len(old) + k < Len(new)
          /\ Len(old) + (k + 1) = (Len(old) + k) + 1
      BY <1>1, <2>1
    <3>2. new[(Len(old) + k) + 1] = <<m, k + 1>>
      BY <1>1, <3>1
    <3>3. Follows(new, Len(old) + k, <<m, k + 1>>)
      BY <3>1, <3>2 DEF Follows
    <3> QED
      BY <1>2, <2>1, <3>3
  <2>2. CASE k = Size[m] /\ m \in Logins
    <3>1. Len(old) + k = Len(new) /\ ~(k < Size[m])
      BY <1>1, <2>2
    <3> QED
      BY <1>2, <2>2, <3>1
  <2>3. CASE k = Size[m] /\ m \notin Logins
    <3>1. Len(old) + k < Len(new) /\ ~(k < Size[m])
      BY <1>1, <2>3
    <3>2. Follows(new, Len(old) + k, Zero)
      BY <1>1, <2>3, <3>1 DEF Follows
    <3> QED
      BY <1>2, <2>3, <3>1, <3>2
  <2> QED
    BY <1>1, <2>1, <2>2, <2>3
<1>7. ASSUME NEW i \in 1 .. Len(new)
      PROVE  Right(i)
  <2>1. CASE i <= Len(old)
    <3>1. i \in 1 .. Len(old)
      BY <1>1, <2>1
    <3> HIDE DEF Right
    <3> QED
      BY <1>5, <3>1
  <2>2. CASE i > Len(old) /\ i <= Len(old) + Size[m]
    <3>1. i - Len(old) \in 1 .. Size[m] /\ Len(old) + (i - Len(old)) = i
      BY <1>1, <2>2
    <3> HIDE DEF Right
    <3>2. Right(Len(old) + (i - Len(old)))
      BY <1>6, <3>1
    <3> QED
      BY <3>1, <3>2
  <2>3. CASE i > Len(old) + Size[m]
    <3>1. i = Len(old) + Size[m] + 1 /\ m \notin Logins /\ i = Len(new)
      BY <1>1, <2>3
    <3> QED
      BY <1>1, <3>1
  <2> QED
    BY <1>1, <2>1, <2>2, <2>3
<1> QED
  BY <1>4, <1>7 DEF WholeMessages

LEMMA StepUncut ==
  ASSUME TypeOK, OrderInv, OnceInv, WaitInv, UncutInv, [Next]_vars
  PROVE  UncutInv'
<1> SUFFICES ASSUME ~cut'
             PROVE  /\ serverUp' /\ WholeMessages(toServer')
                    /\ \A m \in Elems(written') \ (Elems(handled') \cup behind') :
                          Len(toServer') > 0 /\ toServer'[1][1] = m
  BY DEF UncutInv
<1>0. toServer \in Seq(Cells) /\ Len(toServer) \in Nat
  BY LenProperties DEF TypeOK
<1>1. ASSUME NEW m, Writes(m)
      PROVE  /\ serverUp' /\ WholeMessages(toServer')
             /\ \A t \in Elems(written') \ (Elems(handled') \cup behind') :
                   Len(toServer') > 0 /\ toServer'[1][1] = t
  <2>1. UNCHANGED <<cut, serverUp, handled>> /\ m \in Requests
    BY <1>1 DEF Writes, Write, serverVars
  <2>2. /\ ~cut /\ serverUp /\ WholeMessages(toServer)
        /\ \A t \in Elems(written) \ (Elems(handled) \cup behind) :
              Len(toServer) > 0 /\ toServer[1][1] = t
    BY <2>1 DEF UncutInv
  <2>3. WithRequest(toServer, m, toServer')
    BY <1>1, <2>2, WriteTypes
  <2>4. Messages(toServer) \cap Logins = {}
    BY <1>1, Subsets DEF Writes, Ask, Tell, WaitInv
  <2>5. WholeMessages(toServer')
    BY <1>0, <2>1, <2>2, <2>3, <2>4, WholeSend
  <2>6. Elems(written') = Elems(written) \cup {m}
    BY <1>1, ElemsAre DEF Writes, Write, TypeOK
  <2>7. Size[m] \in Nat \ {0}
    BY <2>1, PiecesShape, Subsets
  <2>8. Len(toServer') > 0
    BY <1>0, <2>3, <2>7 DEF WithRequest
  <2>9. CASE toServer = <<>>
    <3>1. Len(toServer) = 0 /\ behind' = behind
      BY <1>1, <2>9 DEF Writes, Write
    <3>2. toServer'[1] = <<m, 1>>
      <4>1. 1 \in 1 .. Size[m] /\ Len(toServer) + 1 = 1
        BY <2>7, <3>1
      <4> QED
        BY <2>3, <4>1 DEF WithRequest
    <3>3. \A t \in Elems(written) : t \in Elems(handled) \cup behind
      BY <2>2, <3>1
    <3> QED
      BY <2>1, <2>2, <2>5, <2>6, <2>8, <3>1, <3>2, <3>3
  <2>10. CASE toServer # <<>>
    <3>1. behind' = behind \cup {m}
      BY <1>1, <2>10 DEF Writes, Write
    <3>2. 1 \in 1 .. Len(toServer)
      BY <1>0, <2>10, EmptySeq
    <3>3. toServer'[1] = toServer[1]
      BY <2>3, <3>2 DEF WithRequest
    <3> QED
      BY <2>1, <2>2, <2>5, <2>6, <2>8, <3>1, <3>3
  <2> QED
    BY <2>9, <2>10
<1>2. ASSUME NEW n, ServerReads(n)
      PROVE  /\ serverUp' /\ WholeMessages(toServer')
             /\ \A t \in Elems(written') \ (Elems(handled') \cup behind') :
                   Len(toServer') > 0 /\ toServer'[1][1] = t
  <2>1. /\ ~cut /\ EndsMessage(toServer, n) /\ n \in 1 .. Len(toServer)
        /\ UNCHANGED <<written, behind>>
        /\ toServer' = SubSeq(toServer, n + 1, Len(toServer))
    BY <1>2 DEF ServerReads
  <2>2. /\ serverUp /\ WholeMessages(toServer)
        /\ \A t \in Elems(written) \ (Elems(handled) \cup behind) :
              Len(toServer) > 0 /\ toServer[1][1] = t
    BY <2>1 DEF UncutInv
  <2>3. WholeMessages(toServer')
    BY <1>0, <2>1, <2>2, WholeRest
  <2>4. ~Stumbles(n)
    <3> DEFINE m == toServer[1][1]
    <3>1. UpToZero(SubSeq(toServer, 1, n)) = Pieces(m)
      BY <1>0, <2>1, <2>2, WholeParses
    <3>2. m \in Requests
      <4>1. 1 \in 1 .. Len(toServer) /\ toServer[1][2] = 1
        BY <1>0, <2>1, <2>2 DEF WholeMessages
      <4>2. toServer[1] # Zero
        BY <4>1 DEF Zero
      <4>3. m \in Elems(written)
        BY <4>1, <4>2 DEF OrderInv, InStream
      <4> QED
        BY <4>3, ElemsAre DEF TypeOK
    <3> QED
      BY <3>1, <3>2 DEF Stumbles
  <2>5. PICK m : Dispatches(n, m)
    BY <1>2, <2>4 DEF ServerReads
  <2>6. Elems(handled') = Elems(handled) \cup {m} /\ toServer[1][1] = m /\ UNCHANGED serverUp
    BY <2>5, ElemsAre DEF Dispatches, Dispatch, TypeOK
  <2> QED
    BY <2>1, <2>2, <2>3, <2>6
<1>3. CASE UNCHANGED <<toServer, written, handled, behind, serverUp, cut>>
  BY <1>3 DEF UncutInv
<1>4. ASSUME NEW m \in Pushes, Push(m)
      PROVE  UNCHANGED <<toServer, written, handled, behind, serverUp, cut>>
  BY <1>4 DEF Push, requestVars, serverVars
<1>5. ASSUME NEW n, ClientReads(n)
      PROVE  UNCHANGED <<toServer, written, handled, behind, serverUp, cut>>
  BY <1>5 DEF ClientReads, serverVars
<1>6. CASE ConnectionLost
  BY <1>3, <1>6 DEF ConnectionLost, requestVars, serverVars
<1>7. CASE UNCHANGED vars
  BY <1>3, <1>7 DEF vars, requestVars, serverVars
<1> QED
  BY <1>1, <1>2, <1>3, <1>4, <1>5, <1>6, <1>7, Steps

-----------------------------------------------------------------------------
LEMMA InitInv == Init => FramingInv
<1> SUFFICES ASSUME Init PROVE FramingInv
  OBVIOUS
<1>1. TypeOK
  BY EmptySeq DEF Init, TypeOK
<1>2. /\ Len(toServer) = 0 /\ Len(toClient) = 0 /\ Len(written) = 0 /\ Len(posted) = 0
      /\ Elems(handled) = {} /\ Elems(shown) = {} /\ Elems(posted) = {} /\ Elems(written) = {}
      /\ DOMAIN handled = {} /\ DOMAIN shown = {}
  BY DEF Init, Elems
<1>3. OrderInv
  BY <1>2 DEF OrderInv, InStream, InOrder
<1>4. OnceInv
  BY <1>2 DEF OnceInv, Distinct
<1>5. WaitInv
  BY <1>2 DEF WaitInv, Messages
<1>6. UncutInv
  BY <1>2 DEF Init, UncutInv, WholeMessages
<1> QED
  BY <1>1, <1>3, <1>4, <1>5, <1>6 DEF FramingInv

LEMMA FramingInvariance == Spec => []FramingInv
<1>1. FramingInv /\ [Next]_vars => FramingInv'
  BY StepTypeOK, StepOrder, StepOnce, StepWait, StepUncut DEF FramingInv
<1> QED
  BY InitInv, <1>1, PTL DEF Spec

(* No request is made up of pieces of two, none overtakes another, and the *)
(* client never works on half an answer, nor on one larger than its buffer *)
(* (onMessage, readTaskHandler).                                           *)
THEOREM OrderTheorem == Spec => []MessagesInOrder
<1>1. FramingInv => MessagesInOrder
  BY DEF FramingInv, OrderInv, InStream, MessagesInOrder
<1> QED
  BY <1>1, FramingInvariance, PTL

(* Nothing is handled or shown twice.                                      *)
NothingTwice == Distinct(handled) /\ Distinct(shown)

(* Each request is dispatched at most once, each answer or push shown at   *)
(* most once: a read takes what it parses out of the buffer.               *)
THEOREM OnceTheorem == Spec => []NothingTwice
<1>1. FramingInv => NothingTwice
  <2> SUFFICES ASSUME FramingInv PROVE NothingTwice
    OBVIOUS
  <2>1. /\ written \in Seq(Texts) /\ handled \in Seq(Texts) /\ InOrder(handled, written)
        /\ posted \in Seq(Texts) /\ shown \in Seq(Texts) /\ InOrder(shown, posted)
        /\ Distinct(written) /\ Distinct(posted)
    BY Subsets DEF FramingInv, TypeOK, OrderInv, InStream, OnceInv
  <2>2. ASSUME NEW part \in Seq(Texts), NEW whole \in Seq(Texts),
               InOrder(part, whole), Distinct(whole)
        PROVE  Distinct(part)
    <3>1. DOMAIN part = 1 .. Len(part) /\ Len(part) \in Nat
      BY LenProperties
    <3>2. \A i, j \in 1 .. Len(part) : i < j => part[i] # part[j]
      BY <2>2, <3>1, NotBeforeItself DEF InOrder
    <3> QED
      BY <3>1, <3>2 DEF Distinct
  <2> QED
    BY <2>1, <2>2 DEF NothingTwice
<1> QED
  BY <1>1, FramingInvariance, PTL

(* Requests that are only joined by the network never end the server, what *)
(* ends it is a read that ends inside one (onMessage's json::parse).       *)
THEOREM JoinsTheorem == Spec => []ServerOutlivesJoins
<1>1. FramingInv => ServerOutlivesJoins
  BY DEF FramingInv, UncutInv, ServerOutlivesJoins
<1> QED
  BY <1>1, FramingInvariance, PTL

(* Without a cut, a request written when all before it had been read is    *)
(* handled or still on its way (retrieveAllAsString takes it whole).       *)
THEOREM LossTheorem == Spec => []LostOnlyBehindAnother
<1>1. FramingInv => LostOnlyBehindAnother
  <2> SUFFICES ASSUME FramingInv, ~cut, NEW m \in Elems(written),
                      m \notin Elems(handled) \cup behind
               PROVE  \E i \in DOMAIN toServer : toServer[i][1] = m
    BY DEF LostOnlyBehindAnother
  <2>1. Len(toServer) > 0 /\ toServer[1][1] = m
    BY DEF FramingInv, UncutInv
  <2>2. 1 \in DOMAIN toServer
    BY <2>1, LenProperties DEF FramingInv, TypeOK
  <2> QED
    BY <2>1, <2>2
<1> QED
  BY <1>1, FramingInvariance, PTL
=============================================================================
