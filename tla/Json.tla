---------------------------------- MODULE Json ----------------------------------
(***************************************************************************)
(* The JSON library at work: what json::parse makes of the text it reads   *)
(* is compared with the grammar, and written out again by dump and in the  *)
(* binary formats.                                                         *)
(***************************************************************************)
EXTENDS JsonReading, JsonValue

CONSTANTS
    Endings,        \* texts that could still follow what has been read
    Others          \* values to change into what has been read, and back

D == INSTANCE JsonDump
B == INSTANCE JsonReader
P == INSTANCE JsonPatch

(* json::parse: the parser when it is done.  A byte the lexer gave back is *)
(* read again.                                                             *)
RECURSIVE ParseFrom(_, _, _)
ParseFrom(p, input, read) ==
    LET i == IF p.lexer.again THEN read ELSE read + 1
    IN  IF Finished(p) THEN p
        ELSE ParseFrom(ReadByte(p, IF i > Len(input) THEN EOF ELSE input[i]), input, i)

Parse(input) == ParseFrom(NewParser, input, 0)

-----------------------------------------------------------------------------
(* The grammar of RFC 8259, by the ways to split a text.  A text means a   *)
(* set of values: one, or none if it is not in the language.               *)

Prefixed(s, prefix) == Len(prefix) <= Len(s) /\ SubSeq(s, 1, Len(prefix)) = prefix
Without(s, prefix) == SubSeq(s, Len(prefix) + 1, Len(s))

Stripped(s) ==
    LET Blanks(i, j) == \A k \in i .. j : s[k] \in Space
        first == CHOOSE i \in DOMAIN s : Blanks(1, i - 1) /\ ~Blanks(i, i)
        last == CHOOSE i \in DOMAIN s : Blanks(i + 1, Len(s)) /\ ~Blanks(i, i)
    IN  IF Blanks(1, Len(s)) THEN <<>> ELSE SubSeq(s, first, last)

IsNumeral(s) == s # <<>> /\ IsDigits(s)
IsWhole(s) == IsNumeral(s) /\ (Len(s) = 1 \/ s[1] # Zero)
IsFraction(s) == s = <<>> \/ (s[1] = Dot /\ IsNumeral(Tail(s)))
IsExponent(s) ==
    \/ s = <<>>
    \/ /\ s[1] \in {LowerE, UpperE}
       /\ \/ IsNumeral(Tail(s))
          \/ Len(s) > 1 /\ s[2] \in {Plus, Hyphen} /\ IsNumeral(Tail(Tail(s)))

NumberMeanings(s) ==
    LET u == Unsigned(s)
        n == Len(u)
        fits == IF Negative(s) THEN FitsSigned(IntegerOf(s), 8) ELSE FitsUnsigned(IntegerOf(s), 8)
    IN  CASE IsWhole(u) /\ fits -> {IF Negative(s) THEN Integer(IntegerOf(s)) ELSE UnsignedNumber(IntegerOf(s))}
          [] /\ ~(IsWhole(u) /\ fits)
             /\ \E i \in 0 .. n :
                   /\ IsWhole(SubSeq(u, 1, i))
                   /\ \E j \in i .. n : IsFraction(SubSeq(u, i + 1, j)) /\ IsExponent(SubSeq(u, j + 1, n))
             /\ FloatOf(s).exp # Infinite -> {Float(FloatOf(s))}
          [] OTHER -> {}

(* A character of UTF-8: its bytes are the encoding of the code point they *)
(* carry.                                                                  *)
Carried(s) ==
    LET low(i) == s[i] % 64
    IN  CASE Len(s) = 1 -> s[1]
          [] Len(s) = 2 -> (s[1] % 32) * 64 + low(2)
          [] Len(s) = 3 -> ((s[1] % 16) * 64 + low(2)) * 64 + low(3)
          [] Len(s) = 4 -> (((s[1] % 8) * 64 + low(2)) * 64 + low(3)) * 64 + low(4)

IsSurrogate(code) == IsHigh(code) \/ IsLow(code)

IsCharacter(s) ==
    LET cp == Carried(s)
    IN  cp <= 1114111 /\ ~IsSurrogate(cp) /\ s = Encode(cp)

(* n bytes of s from i on, if it has that many.                            *)
Part(s, i, n) == IF i + n - 1 <= Len(s) THEN SubSeq(s, i, i + n - 1) ELSE <<>>

IsUnit(s) == Len(s) = 6 /\ s[1] = Backslash /\ s[2] = LowerU /\ \A i \in 3 .. 6 : s[i] \in HexDigits
UnitOf(s) == FoldLeft(LAMBDA n, c : 16 * n + HexValue(c), 0, SubSeq(s, 3, 6))

(* The ways to read the beginning of a string: how many bytes, and what    *)
(* they stand for.                                                         *)
Characters(s) ==
    {<<n, SubSeq(s, 1, n)>> : n \in {n \in 1 .. 4 :
        n <= Len(s) /\ s[1] >= 32 /\ s[1] \notin {Quote, Backslash} /\ IsCharacter(SubSeq(s, 1, n))}}
ShortForms(s) ==
    IF Len(s) > 1 /\ s[1] = Backslash /\ s[2] \in DOMAIN Escapes THEN {<<2, <<Escapes[s[2]]>>>>} ELSE {}
LongForms(s) ==
    LET one == Part(s, 1, 6)
        two == Part(s, 7, 6)
    IN  CASE ~IsUnit(one) -> {}
          [] IsUnit(one) /\ ~IsSurrogate(UnitOf(one)) ->
                 {<<6, Encode(UnitOf(one))>>}
          [] IsUnit(one) /\ IsSurrogate(UnitOf(one)) ->
                 IF IsHigh(UnitOf(one)) /\ IsUnit(two) /\ IsLow(UnitOf(two))
                 THEN {<<12, Encode(65536 + (UnitOf(one) - 55296) * 1024 + UnitOf(two) - 56320)>>}
                 ELSE {}

RECURSIVE TextMeanings(_)
TextMeanings(s) ==
    IF s = <<>> THEN {<<>>}
    ELSE UNION {{way[2] \o rest : rest \in TextMeanings(SubSeq(s, way[1] + 1, Len(s)))} :
                way \in Characters(s) \cup ShortForms(s) \cup LongForms(s)}

StringMeanings(s) ==
    IF Len(s) > 1 /\ s[1] = Quote /\ Last(s) = Quote THEN TextMeanings(SubSeq(s, 2, Len(s) - 1)) ELSE {}

(* The last of two members with the same name counts.                      *)
RECURSIVE Meanings(_), ElementMeanings(_), MemberMeanings(_)
Meanings(s) ==
    LET t == Stripped(s)
        inner == SubSeq(t, 2, Len(t) - 1)
        between(open, close) == Len(t) > 1 /\ t[1] = open /\ Last(t) = close
    IN  IF t = <<>> THEN {}
        ELSE IF t = TrueText THEN {Boolean(TRUE)}
        ELSE IF t = FalseText THEN {Boolean(FALSE)}
        ELSE IF t = NullText THEN {Null}
        ELSE IF t[1] = Quote THEN {String(m) : m \in StringMeanings(t)}
        ELSE IF between(LeftBracket, RightBracket)
             THEN {Array(m) : m \in IF Stripped(inner) = <<>> THEN {<<>>} ELSE ElementMeanings(inner)}
        ELSE IF between(LeftBrace, RightBrace)
             THEN {Object(m) : m \in IF Stripped(inner) = <<>> THEN {<<>>} ELSE MemberMeanings(inner)}
        ELSE NumberMeanings(t)

ElementMeanings(s) ==
    {<<v>> : v \in Meanings(s)} \cup
    UNION {LET firsts == Meanings(SubSeq(s, 1, i - 1))
           IN  IF firsts = {} THEN {}
               ELSE {<<v>> \o rest : v \in firsts, rest \in ElementMeanings(SubSeq(s, i + 1, Len(s)))} :
           i \in {i \in DOMAIN s : s[i] = Comma}}

OneMember(s) ==
    UNION {{name :> v : name \in StringMeanings(Stripped(SubSeq(s, 1, i - 1))),
                        v \in Meanings(SubSeq(s, i + 1, Len(s)))} :
           i \in {i \in DOMAIN s : s[i] = Colon}}

MemberMeanings(s) ==
    OneMember(s) \cup
    UNION {LET firsts == OneMember(SubSeq(s, 1, i - 1))
           IN  IF firsts = {} THEN {}
               ELSE {rest @@ f : f \in firsts, rest \in MemberMeanings(SubSeq(s, i + 1, Len(s)))} :
           i \in {i \in DOMAIN s : s[i] = Comma}}

(* What the parser reads: behind a byte order mark, up to a zero byte.     *)
Mark == <<239, 187, 191>>
Visible(s) ==
    LET t == IF Prefixed(s, Mark) THEN Without(s, Mark) ELSE s
        zero == SelectInSeq(t, LAMBDA c : c = NUL)
    IN  IF zero = 0 THEN t ELSE SubSeq(t, 1, zero - 1)

-----------------------------------------------------------------------------
Accepted == parser.at = "accepted"

(* The parser accepts a text exactly if it is in the language, with the    *)
(* value it means; and it gives up only on a text that no ending mends.    *)
ParsesGrammar ==
    CASE Accepted -> Meanings(Visible(text)) = {parser.dom.root}
      [] parser.at = "error" /\ ended -> Meanings(Visible(text)) = {}
      [] parser.at = "error" /\ ~ended -> \A e \in Endings : Meanings(Visible(text \o e)) = {}
      [] OTHER -> TRUE

Yields(p, v) == p.at = "accepted" /\ Equal(p.dom.root, v)

(* Whatever was parsed can be dumped, in every style, and a dump parses to *)
(* an equal value.  Bytes that are not UTF-8 cannot, unless the handler is *)
(* to ignore or replace them: then whatever they are the dump is a text    *)
(* that parses.                                                            *)
ValuesDump ==
    Accepted =>
        /\ ~D!DumpThrows(parser.dom.root)
        /\ \A pretty, ascii \in BOOLEAN :
              Yields(Parse(D!Dump(parser.dom.root, pretty, ascii, 2, 0)), parser.dom.root)

HandlersDump ==
    OpenString =>
        \A ascii \in BOOLEAN :
            /\ D!DumpEscaped(Tail(text), ascii, "strict").thrown = 0 <=> Decodes(Tail(text))
            /\ \A handler \in {"ignore", "replace"} :
                  Parse(<<Quote>> \o D!DumpEscaped(Tail(text), ascii, handler).out \o <<Quote>>).at = "accepted"

DumpsBack == ValuesDump /\ HandlersDump

Restores(r, v) == r.error = 0 /\ Equal(r.value, v)

IsDocument(format, document, v) ==
    /\ Restores(B!Read(format, document), v)
    /\ format = "bson" => B!BsonSize(v) = Len(document)

(* "Any CBOR output created to_cbor can be successfully parsed by          *)
(* from_cbor", and the same of the other formats; what is read is equal to *)
(* what was written.  A BSON document has the size it announces.           *)
FormatsBack ==
    Accepted =>
        \A format \in B!Formats :
            B!WriteThrows(format, parser.dom.root) = 0 =>
                IsDocument(format, B!Written(format, parser.dom.root), parser.dom.root)

NoPrefixOf(document, format) ==
    \A n \in 0 .. Len(document) - 1 : B!Read(format, SubSeq(document, 1, n)).error # 0

(* A document that has lost its end is not read as another document.       *)
NoPrefixIsRead ==
    Accepted =>
        \A format \in B!Formats :
            B!WriteThrows(format, parser.dom.root) = 0 =>
                NoPrefixOf(B!Written(format, parser.dom.root), format)

(* "For two JSON values source and target, the following code yields       *)
(* always true: source.patch(diff(source, target)) == target": the indices *)
(* and names of a patch are still right when the operations before have    *)
(* moved or removed their neighbours.                                      *)
Transforms(v, w) ==
    Restores(P!Patch(v, Append(P!Diff(v, w, <<>>), P!Operation("test", <<>>, w))), w)

DiffPatches ==
    Accepted =>
        \A v \in Others :
            \A change \in {<<v, parser.dom.root>>, <<parser.dom.root, v>>} :
                Transforms(change[1], change[2])

(* unflatten restores what flatten took apart, in the order of the names   *)
(* of its pointers.  That holds for values without empty containers and    *)
(* without members named 0, from which unflatten would make an array.      *)
Restorable(v) ==
    \A w \in B!Inside(v) :
        /\ P!IsContainer(w) => Content(w) # <<>>
        /\ Type(w) = "object" => <<Zero>> \notin DOMAIN Content(w)

FlattensBack ==
    Accepted /\ Restorable(parser.dom.root) =>
        Restores(P!Unflatten(P!Flatten(<<>>, parser.dom.root)), parser.dom.root)
=============================================================================
