------------------------------- MODULE JsonWriter -------------------------------
(***************************************************************************)
(* nlohmann::detail::binary_writer: to_cbor, to_msgpack, to_ubjson and     *)
(* to_bson.  A document is the sequence of its bytes.  The eight bytes of  *)
(* a double are not those of IEEE 754, which the writer copies from        *)
(* memory: its sign, its digits and its exponent stand for them.           *)
(***************************************************************************)
EXTENDS JsonValue

BigEndian(x, w) == Reverse(ToBytes(x, w))
LittleEndian(x, w) == ToBytes(x, w)
Count(n) == Positive(OfNat(n))

(* Six bytes of digits, and two with the sign and the exponent, which is   *)
(* shifted to be a natural number.                                         *)
Bias == 2000
SignBit == 32768
DigitBytes == 6
DoubleBytes(x) ==
    ToBytes(Positive(x.digits), DigitBytes)
    \o ToBytes(Count(x.exp + Bias + IF x.neg THEN SignBit ELSE 0), 2)

(* The narrowest of the widths that holds the number.                      *)
WidthUnsigned(x, widths) == Min({w \in widths : FitsUnsigned(x, w)})
WidthSigned(x, widths) == Min({w \in widths : FitsSigned(x, w)})

(* Which of the markers first, first + 1, ... announces this width.        *)
Marker(first, w) == first + (CASE w = 1 -> 0 [] w = 2 -> 1 [] w = 4 -> 2 [] w = 8 -> 3)

Wide == {1, 2, 4, 8}
Tiny(x, n) == ~x.neg /\ ToNat(x.abs) <= n

-----------------------------------------------------------------------------
(* write_cbor                                                              *)

(* The head of an item: its major type and a number.                       *)
CborHead(major, x) ==
    IF Tiny(x, 23) THEN <<32 * major + ToNat(x.abs)>>
    ELSE LET w == WidthUnsigned(x, Wide) IN <<Marker(32 * major + 24, w)>> \o BigEndian(x, w)

CborString(s) == CborHead(3, Count(Len(s))) \o s

RECURSIVE Cbor(_)
Cbor(v) ==
    LET c == Content(v)
        names == Names(c)
    IN  CASE Type(v) = "null"    -> <<246>>
          [] Type(v) = "boolean" -> <<IF c THEN 245 ELSE 244>>
          [] Type(v) \in {"integer", "unsigned"} ->
                 IF c.neg THEN CborHead(1, Positive(Pred(c.abs))) ELSE CborHead(0, c)
          [] Type(v) = "float"   -> <<251>> \o DoubleBytes(c)
          [] Type(v) = "string"  -> CborString(c)
          [] Type(v) = "array"   ->
                 CborHead(4, Count(Len(c))) \o FlattenSeq([i \in DOMAIN c |-> Cbor(c[i])])
          [] Type(v) = "object"  ->
                 CborHead(5, Count(Len(names)))
                 \o FlattenSeq([i \in DOMAIN names |-> CborString(names[i]) \o Cbor(c[names[i]])])

-----------------------------------------------------------------------------
(* write_msgpack                                                           *)

MsgpackInteger(x) ==
    IF x.neg
    THEN IF AtMost(x.abs, <<32>>) THEN ToBytes(x, 1)
         ELSE LET w == WidthSigned(x, Wide) IN <<Marker(208, w)>> \o BigEndian(x, w)
    ELSE IF Tiny(x, 127) THEN ToBytes(x, 1)
         ELSE LET w == WidthUnsigned(x, Wide) IN <<Marker(204, w)>> \o BigEndian(x, w)

(* Strings, arrays and objects: a small size is part of the first byte.    *)
MsgpackSize(fixed, limit, widths, first, n) ==
    IF n <= limit THEN <<fixed + n>>
    ELSE LET w == WidthUnsigned(Count(n), widths) IN <<first[w]>> \o BigEndian(Count(n), w)

MsgpackString(s) == MsgpackSize(160, 31, {1, 2, 4}, <<217, 218, 0, 219>>, Len(s)) \o s

RECURSIVE Msgpack(_)
Msgpack(v) ==
    LET c == Content(v)
        names == Names(c)
    IN  CASE Type(v) = "null"    -> <<192>>
          [] Type(v) = "boolean" -> <<IF c THEN 195 ELSE 194>>
          [] Type(v) \in {"integer", "unsigned"} -> MsgpackInteger(c)
          [] Type(v) = "float"   -> <<203>> \o DoubleBytes(c)
          [] Type(v) = "string"  -> MsgpackString(c)
          [] Type(v) = "array"   ->
                 MsgpackSize(144, 15, {2, 4}, <<0, 220, 0, 221>>, Len(c))
                 \o FlattenSeq([i \in DOMAIN c |-> Msgpack(c[i])])
          [] Type(v) = "object"  ->
                 MsgpackSize(128, 15, {2, 4}, <<0, 222, 0, 223>>, Len(names))
                 \o FlattenSeq([i \in DOMAIN names |-> MsgpackString(names[i]) \o Msgpack(c[names[i]])])

-----------------------------------------------------------------------------
(* write_ubjson: the options put the size of a container, and the type its *)
(* elements share, in front of them.                                       *)

LetterC == 67
LetterD == 68
LetterF == 70
LetterI == 73
LetterL == 76
LetterN == 78
LetterS == 83
LetterT == 84
LetterU == 85
LetterZ == 90
Letterd == 100
Letteri == 105
Letterl == 108
Dollar == 36
Hash == 35

(* The marker and the width of an integer.                                 *)
UbjsonInteger(x) ==
    IF FitsSigned(x, 1)        THEN <<Letteri, 1>>
    ELSE IF FitsUnsigned(x, 1) THEN <<LetterU, 1>>
    ELSE IF FitsSigned(x, 2)   THEN <<LetterI, 2>>
    ELSE IF FitsSigned(x, 4)   THEN <<Letterl, 4>>
    ELSE <<LetterL, 8>>

(* write_number_with_ubjson_prefix                                         *)
Marked(marker, x, prefix) ==
    (IF prefix THEN <<marker[1]>> ELSE <<>>) \o BigEndian(x, marker[2])
UbjsonNumber(x, prefix) == Marked(UbjsonInteger(x), x, prefix)

UbjsonText(s) == UbjsonNumber(Count(Len(s)), TRUE) \o s

UbjsonPrefix(v) ==
    LET c == Content(v)
    IN  CASE Type(v) = "null"    -> LetterZ
          [] Type(v) = "boolean" -> IF c THEN LetterT ELSE LetterF
          [] Type(v) \in {"integer", "unsigned"} -> UbjsonInteger(c)[1]
          [] Type(v) = "float"   -> LetterD
          [] Type(v) = "string"  -> LetterS
          [] Type(v) = "array"   -> LeftBracket
          [] Type(v) = "object"  -> LeftBrace

(* Mutant: the elements share a type when no more than two types occur.    *)
AlmostSamePrefix(values) == Cardinality({UbjsonPrefix(v) : v \in values}) <= 2

SamePrefix(values) == \A v, w \in values : UbjsonPrefix(v) = UbjsonPrefix(w)

Elements(v) == {Content(v)[i] : i \in DOMAIN Content(v)}

(* The type and the size in front of a container.                          *)
UbjsonOptions(v, n, count, type) ==
    (IF type THEN <<Dollar, UbjsonPrefix(CHOOSE w \in Elements(v) : TRUE)>> ELSE <<>>)
    \o (IF count THEN <<Hash>> \o UbjsonNumber(Count(n), TRUE) ELSE <<>>)

RECURSIVE Ubjson(_, _, _, _)
Ubjson(v, count, type, prefix) ==
    LET c == Content(v)
        names == Names(c)
        typed == type /\ Elements(v) # {} /\ SamePrefix(Elements(v))
        inner(w) == Ubjson(w, count, type, ~typed)
        marker == IF prefix THEN <<UbjsonPrefix(v)>> ELSE <<>>
    IN  CASE Type(v) \in {"null", "boolean"}       -> marker
          [] Type(v) \in {"integer", "unsigned"}   -> UbjsonNumber(c, prefix)
          [] Type(v) = "float"                     -> marker \o DoubleBytes(c)
          [] Type(v) = "string"                    -> marker \o UbjsonText(c)
          [] Type(v) = "array" ->
                 marker \o UbjsonOptions(v, Len(c), count, typed)
                 \o FlattenSeq([i \in DOMAIN c |-> inner(c[i])])
                 \o (IF count THEN <<>> ELSE <<RightBracket>>)
          [] Type(v) = "object" ->
                 marker \o UbjsonOptions(v, Len(names), count, typed)
                 \o FlattenSeq([i \in DOMAIN names |-> UbjsonText(names[i]) \o inner(c[names[i]])])
                 \o (IF count THEN <<>> ELSE <<RightBrace>>)

-----------------------------------------------------------------------------
(* write_bson.  Sizes are computed before anything is written.             *)

BsonIntegerWidth(x) == IF FitsSigned(x, 4) THEN 4 ELSE 8

Sum(numbers) == FoldLeft(LAMBDA m, n : m + n, 0, numbers)

(* calc_bson_element_size, calc_bson_object_size, calc_bson_array_size     *)
RECURSIVE BsonSize(_)
BsonSize(v) ==
    LET Header(name) == 1 + Len(name) + 1
        EntrySize(entry) ==
            LET w == entry[2]
            IN  Header(entry[1]) +
                (CASE Type(w) \in {"object", "array"} -> BsonSize(w)
                   [] Type(w) = "boolean" -> 1
                   [] Type(w) = "float"   -> 8
                   [] Type(w) \in {"integer", "unsigned"} -> BsonIntegerWidth(Content(w))
                   [] Type(w) = "string"  -> 4 + Len(Content(w)) + 1
                   [] Type(w) = "null"    -> 0)
        entries == Entries(v)
    IN  4 + Sum([i \in DOMAIN entries |-> EntrySize(entries[i])]) + 1

RECURSIVE Bson(_)
Bson(v) ==
    LET EntryBytes(entry) ==
            LET w == entry[2]
                c == Content(w)
                header(type) == <<type>> \o entry[1] \o <<NUL>>
                width == BsonIntegerWidth(c)
            IN  CASE Type(w) = "object"  -> header(3) \o Bson(w)
                  [] Type(w) = "array"   -> header(4) \o Bson(w)
                  [] Type(w) = "boolean" -> header(8) \o <<IF c THEN 1 ELSE 0>>
                  [] Type(w) = "float"   -> header(1) \o DoubleBytes(c)
                  [] Type(w) \in {"integer", "unsigned"} ->
                         header(IF width = 4 THEN 16 ELSE 18) \o LittleEndian(c, width)
                  [] Type(w) = "string"  ->
                         header(2) \o LittleEndian(Count(Len(c) + 1), 4) \o c \o <<NUL>>
                  [] Type(w) = "null"    -> header(10)
        entries == Entries(v)
    IN  LittleEndian(Count(BsonSize(v)), 4)
        \o FlattenSeq([i \in DOMAIN entries |-> EntryBytes(entries[i])]) \o <<NUL>>

-----------------------------------------------------------------------------
RECURSIVE Inside(_)
Inside(v) ==
    {v} \cup IF Type(v) \in {"array", "object"} THEN UNION {Inside(w) : w \in Elements(v)} ELSE {}

TooLarge(v) == Type(v) = "unsigned" /\ ~FitsSigned(Content(v), 8)
NulInName(v) == Type(v) = "object" /\ \E n \in DOMAIN Content(v) : NUL \in Range(n)

Formats == {"cbor", "msgpack", "ubjson", "ubjson_size", "ubjson_type", "bson"}

(* The id of the exception a writer throws, or 0.                          *)
WriteThrows(format, v) ==
    CASE format = "bson" /\ Type(v) # "object"                   -> 317
      [] format = "bson" /\ Type(v) = "object" /\ (\E w \in Inside(v) : NulInName(w)) -> 409
      [] format = "bson" /\ Type(v) = "object" /\ ~(\E w \in Inside(v) : NulInName(w))
             /\ (\E w \in Inside(v) : TooLarge(w))               -> 407
      [] format \in {"ubjson", "ubjson_size", "ubjson_type"}
             /\ (\E w \in Inside(v) : TooLarge(w))               -> 407
      [] OTHER                                                   -> 0

Written(format, v) ==
    CASE format = "cbor"    -> Cbor(v)
      [] format = "msgpack" -> Msgpack(v)
      [] format \in {"ubjson", "ubjson_size", "ubjson_type"} ->
             Ubjson(v, format # "ubjson", format = "ubjson_type", TRUE)
      [] format = "bson"    -> Bson(v)
=============================================================================
