------------------------------- MODULE JsonReader -------------------------------
(***************************************************************************)
(* nlohmann::detail::binary_reader: from_cbor, from_msgpack, from_ubjson   *)
(* and from_bson.  Reading at a position yields a value and the position   *)
(* behind it, or the id of the exception.  Every format has a head, which  *)
(* says what follows: a value that is already complete, a string of some   *)
(* length, or a container of some size.  The walk from head to head is the *)
(* same for all of them.  Floats of two and four bytes, which the writer    *)
(* never produces, are left out.                                           *)
(***************************************************************************)
EXTENDS JsonWriter

(* A reader that fails without an exception returns a discarded value.     *)
Silent == 1
LeftOut == 2
EndOfInput == 110

Failure(id) == [error |-> id, kind |-> "value", value |-> Null, count |-> 0, type |-> 0, next |-> 0]
Found(kind, value, count, next) ==
    [error |-> 0, kind |-> kind, value |-> value, count |-> count, type |-> 0, next |-> next]
Complete(v, next) == Found("value", v, 0, next)
Sized(kind, count, next) == Found(kind, Null, count, next)

(* The end of a container whose size is not announced is marked.           *)
Unsized == -1

ByteAt(b, i) == IF i > Len(b) THEN EOF ELSE b[i]

(* get_number: how is "unsigned", "signed" or "little", which is signed.   *)
Number(b, i, w, how) ==
    LET bytes == SubSeq(b, i, i + w - 1)
    IN  CASE how = "unsigned" -> UnsignedOf(Reverse(bytes))
          [] how = "signed"   -> SignedOf(Reverse(bytes))
          [] how = "little"   -> SignedOf(bytes)

Here(b, i, w) == i + w - 1 <= Len(b)

DoubleOf(bytes) ==
    LET n == ToNat(SubSeq(bytes, DigitBytes + 1, 8))
    IN  [neg |-> n >= SignBit, digits |-> Trim(SubSeq(bytes, 1, DigitBytes)),
         exp |-> (n % SignBit) - Bias]

(* A value of fixed width that begins at i.                                *)
Fixed(b, i, w, v) == IF Here(b, i, w) THEN Complete(v, i + w) ELSE Failure(EndOfInput)

Double(b, i) == Fixed(b, i, 8, Float(DoubleOf(SubSeq(b, i, i + 7))))
UnsignedAt(b, i, w) == Fixed(b, i, w, UnsignedNumber(Number(b, i, w, "unsigned")))
SignedAt(b, i, w, how) == Fixed(b, i, w, Integer(Number(b, i, w, how)))

(* A size of w bytes that begins at i.                                     *)
SizeAt(b, i, w, kind) ==
    IF Here(b, i, w) THEN Sized(kind, ToNat(UnsignedOf(Reverse(SubSeq(b, i, i + w - 1))).abs), i + w)
    ELSE Failure(EndOfInput)

Widths == <<1, 2, 4, 8>>

-----------------------------------------------------------------------------
(* parse_cbor_internal, get_cbor_string                                    *)

(* -1 - n, computed in 64 bits.                                            *)
MinusOneMinus(x) ==
    LET n == AsInteger(x)
    IN  IF n.neg THEN Positive(Pred(n.abs)) ELSE Signed(TRUE, TimesPlus(n.abs, 1, 1))

CborKinds == <<"string", "array", "object">>

CborNumber(b, c, i) ==
    CASE c \in 0 .. 23    -> Complete(UnsignedNumber(Count(c)), i + 1)
      [] c \in 24 .. 27   -> UnsignedAt(b, i + 1, Widths[c - 23])
      [] c \in 32 .. 55   -> Complete(Integer(Signed(TRUE, OfNat(c - 31))), i + 1)
      [] c \in 56 .. 59   ->
             Fixed(b, i + 1, Widths[c - 55],
                   Integer(MinusOneMinus(Number(b, i + 1, Widths[c - 55], "unsigned"))))
      [] OTHER            -> Failure(112)

(* The low five bits are the size, or its width, or say that there is none. *)
CborSized(b, c, i) ==
    LET low == c % 32
        kind == CborKinds[c \div 32 - 2]
    IN  CASE low \in 0 .. 23  -> Sized(kind, low, i + 1)
          [] low \in 24 .. 27 -> SizeAt(b, i + 1, Widths[low - 23], kind)
          [] low = 31         -> Sized(kind, Unsized, i + 1)
          [] OTHER            -> Failure(112)

CborHeadAt(b, i) ==
    LET c == ByteAt(b, i)
    IN  CASE c = EOF          -> Failure(EndOfInput)
          [] c \in 0 .. 63    -> CborNumber(b, c, i)
          [] c \in 96 .. 191  -> CborSized(b, c, i)
          [] c \in {244, 245} -> Complete(Boolean(c = 245), i + 1)
          [] c = 246          -> Complete(Null, i + 1)
          [] c \in {249, 250} -> Failure(LeftOut)
          [] c = 251          -> Double(b, i + 1)
          [] OTHER            -> Failure(112)

(* parse_msgpack_internal, get_msgpack_string: the first byte is a small    *)
(* number, or holds a small size, or says how many bytes of a number or of *)
(* a size follow.                                                          *)
MsgpackFixint(c, i) ==
    IF c < 128 THEN Complete(UnsignedNumber(Count(c)), i + 1)
    ELSE Complete(Integer(SignedOf(<<c>>)), i + 1)

MsgpackFixed(c, i) ==
    CASE c \in 128 .. 143   -> Sized("object", c - 128, i + 1)
      [] c \in 144 .. 159   -> Sized("array", c - 144, i + 1)
      [] c \in 160 .. 191   -> Sized("string", c - 160, i + 1)

MsgpackNumber(b, c, i) ==
    CASE c = 202            -> Failure(LeftOut)
      [] c = 203            -> Double(b, i + 1)
      [] c \in 204 .. 207   -> UnsignedAt(b, i + 1, Widths[c - 203])
      [] c \in 208 .. 211   -> SignedAt(b, i + 1, Widths[c - 207], "signed")

MsgpackSized(b, c, i) ==
    CASE c \in 217 .. 219   -> SizeAt(b, i + 1, Widths[c - 216], "string")
      [] c \in {220, 221}   -> SizeAt(b, i + 1, Widths[c - 218], "array")
      [] c \in {222, 223}   -> SizeAt(b, i + 1, Widths[c - 220], "object")

MsgpackHeadAt(b, i) ==
    LET c == ByteAt(b, i)
    IN  CASE c = EOF                          -> Failure(EndOfInput)
          [] c \in 0 .. 127 \cup 224 .. 255  -> MsgpackFixint(c, i)
          [] c \in 128 .. 191                 -> MsgpackFixed(c, i)
          [] c = 192                          -> Complete(Null, i + 1)
          [] c \in {194, 195}                 -> Complete(Boolean(c = 195), i + 1)
          [] c \in 202 .. 211                 -> MsgpackNumber(b, c, i)
          [] c \in 217 .. 223                 -> MsgpackSized(b, c, i)
          [] OTHER                            -> Failure(112)

-----------------------------------------------------------------------------
(* UBJSON.  Between values, the letter N stands for nothing.               *)

RECURSIVE SkipNoop(_, _)
SkipNoop(b, i) == IF ByteAt(b, i) = LetterN THEN SkipNoop(b, i + 1) ELSE i

UbjsonWidths == [c \in {LetterU, Letteri, LetterI, Letterl, LetterL} |->
    CASE c \in {LetterU, Letteri} -> 1
      [] c = LetterI -> 2
      [] c = Letterl -> 4
      [] c = LetterL -> 8]

(* get_ubjson_string, get_ubjson_size_value: the size at i, where a marker *)
(* is expected.  A negative size is no character of a string, and too many *)
(* elements of a container, but -1 says that there is none.                *)
UbjsonSize(n, kind, next) ==
    CASE ~n.neg                                    -> Sized(kind, ToNat(n.abs), next)
      [] n.neg /\ kind = "string"                  -> Sized(kind, 0, next)
      [] n.neg /\ kind # "string" /\ n.abs = <<1>> -> Sized(kind, Unsized, next)
      [] n.neg /\ kind # "string" /\ n.abs # <<1>> -> Failure(408)

UbjsonSizeAt(b, i, kind) ==
    LET c == ByteAt(b, i)
        w == UbjsonWidths[c]
    IN  CASE c = EOF /\ kind = "string"              -> Failure(EndOfInput)
          [] c # EOF /\ c \notin DOMAIN UbjsonWidths -> Failure(113)
          [] c = EOF /\ kind # "string"              -> Failure(113)
          [] c \in DOMAIN UbjsonWidths /\ ~Here(b, i + 1, w) -> Failure(EndOfInput)
          [] c \in DOMAIN UbjsonWidths /\ Here(b, i + 1, w) ->
                 UbjsonSize(Number(b, i + 1, w, IF c = LetterU THEN "unsigned" ELSE "signed"),
                            kind, i + 1 + w)

(* get_ubjson_size_type: the head of a container whose bracket is behind,  *)
(* with a type, with a size, or with neither.                              *)
UbjsonTyped(b, j, kind) ==
    LET type == ByteAt(b, j)
        h == SkipNoop(b, j + 1)
    IN  CASE type = EOF \/ ByteAt(b, h) = EOF             -> Failure(EndOfInput)
          [] type # EOF /\ ByteAt(b, h) \notin {Hash, EOF} -> Failure(112)
          [] type # EOF /\ ByteAt(b, h) = Hash            ->
                 [UbjsonSizeAt(b, SkipNoop(b, h + 1), kind) EXCEPT !.type = type]

UbjsonContainer(b, i, kind) ==
    LET j == SkipNoop(b, i)
    IN  CASE ByteAt(b, j) = Hash   -> UbjsonSizeAt(b, SkipNoop(b, j + 1), kind)
          [] ByteAt(b, j) = Dollar -> UbjsonTyped(b, j + 1, kind)
          [] OTHER                 -> Sized(kind, Unsized, j)

UbjsonChar(c, next) ==
    CASE c = EOF        -> Failure(EndOfInput)
      [] c > 127        -> Failure(113)
      [] c \in 0 .. 127 -> Complete(String(<<c>>), next)

(* get_ubjson_value: the prefix is given, or stands before the value.      *)
UbjsonHeadAt(b, i, prefix) ==
    LET c == IF prefix = 0 THEN ByteAt(b, SkipNoop(b, i)) ELSE prefix
        j == IF prefix = 0 THEN SkipNoop(b, i) + 1 ELSE i
    IN  CASE c = EOF          -> Failure(EndOfInput)
          [] c \in {LetterT, LetterF} -> Complete(Boolean(c = LetterT), j)
          [] c = LetterZ      -> Complete(Null, j)
          [] c = LetterU      -> UnsignedAt(b, j, 1)
          [] c \in {Letteri, LetterI, Letterl, LetterL} -> SignedAt(b, j, UbjsonWidths[c], "signed")
          [] c = LetterD      -> Double(b, j)
          [] c = Letterd      -> Failure(LeftOut)
          [] c = LetterC      -> UbjsonChar(ByteAt(b, j), j + 1)
          [] c = LetterS      -> UbjsonSizeAt(b, j, "string")
          [] c \in {LeftBracket, LeftBrace} ->
                 UbjsonContainer(b, j, IF c = LeftBracket THEN "array" ELSE "object")
          [] OTHER            -> Failure(112)

-----------------------------------------------------------------------------
(* BSON: an entry is its type, its name and its value.                     *)

(* parse_bson_element_internal.  The size of a document is read and not    *)
(* used.  A string ends with a zero byte; if the input ends in its place   *)
(* the reader stops without an exception.                                  *)
BsonString(b, i, size) ==
    CASE ~Here(b, i, size - 1) -> Failure(EndOfInput)
      [] Here(b, i, size - 1) /\ ~Here(b, i, size) -> Failure(Silent)
      [] Here(b, i, size) -> Complete(String(SubSeq(b, i, i + size - 2)), i + size)

BsonStringAt(b, i) ==
    LET n == Number(b, i, 4, "little")
    IN  IF ~Here(b, i, 4) THEN Failure(EndOfInput)
        ELSE IF n.neg \/ n.abs = <<>> THEN Failure(112)
        ELSE BsonString(b, i + 4, ToNat(n.abs))

BsonHeadAt(b, i, type) ==
    CASE type = 1  -> Double(b, i)
      [] type = 2  -> BsonStringAt(b, i)
      [] type \in {3, 4} ->
             IF Here(b, i, 4) THEN Sized(IF type = 3 THEN "object" ELSE "array", Unsized, i + 4)
             ELSE Failure(EndOfInput)
      [] type = 8  -> Complete(Boolean(ByteAt(b, i) # 0), i + 1)
      [] type = 10 -> Complete(Null, i)
      [] type \in {16, 18} -> SignedAt(b, i, IF type = 16 THEN 4 ELSE 8, "little")
      [] OTHER     -> Failure(114)

(* get_bson_cstr                                                           *)
BsonNameAt(b, i) ==
    LET end == SelectInSubSeq(b, i, Len(b), LAMBDA c : c = NUL)
    IN  IF end = 0 THEN Failure(EndOfInput) ELSE Complete(String(SubSeq(b, i, end - 1)), end + 1)

-----------------------------------------------------------------------------
(* The walk.  The type is that of the elements of a container, where the   *)
(* format names it.                                                        *)

IsUbjson(format) == format \in {"ubjson", "ubjson_size", "ubjson_type"}

HeadAt(format, b, i, type) ==
    CASE format = "cbor"    -> CborHeadAt(b, i)
      [] format = "msgpack" -> MsgpackHeadAt(b, i)
      [] format = "bson"    -> BsonHeadAt(b, i, type)
      [] IsUbjson(format)   -> UbjsonHeadAt(b, i, type)

(* The head of a name: where a string must follow.                         *)
OnlyString(head) ==
    IF head.kind = "string" \/ head.error = EndOfInput THEN head ELSE Failure(113)

NameHeadAt(format, b, i) ==
    CASE IsUbjson(format)    -> UbjsonSizeAt(b, i, "string")
      [] format = "bson"     -> BsonNameAt(b, i + 1)
      [] format = "cbor"     -> OnlyString(CborHeadAt(b, i))
      [] format = "msgpack"  -> OnlyString(MsgpackHeadAt(b, i))

(* Where the next element of an unsized container is looked for, and the   *)
(* byte that says that there is none.                                      *)
NextAt(format, b, i) == IF IsUbjson(format) THEN SkipNoop(b, i) ELSE i

Closing(format, kind) ==
    CASE format = "cbor" -> 255
      [] format = "bson" -> 0
      [] IsUbjson(format) /\ kind = "array"  -> RightBracket
      [] IsUbjson(format) /\ kind = "object" -> RightBrace

(* Where the next element is looked for.                                   *)
Position(format, b, i, head) == IF head.count = Unsized THEN NextAt(format, b, i) ELSE i

(* Mutant: the size of a container counts one element less.                *)
DoneEarly(format, b, i, head, n) ==
    IF head.count = Unsized THEN ByteAt(b, i) = Closing(format, head.kind) ELSE n + 1 >= head.count

(* Is the container that has n elements so far complete at position i?     *)
Done(format, b, i, head, n) ==
    IF head.count = Unsized THEN ByteAt(b, i) = Closing(format, head.kind) ELSE n = head.count

(* The elements so far, or the members, of which the last of its name counts. *)
Collected(kind, items) ==
    LET last(n) == items[SelectLastInSeq(items, LAMBDA m : m[1] = n)][2]
        names == {item[1] : item \in Range(items)}
    IN  IF kind = "array" THEN Array([i \in DOMAIN items |-> items[i][2]])
        ELSE Object([n \in names |-> last(n)])

RECURSIVE ReadAt(_, _, _, _), ReadHead(_, _, _), ReadString(_, _), ReadChunks(_, _, _), ReadMore(_, _, _)
RECURSIVE ReadItems(_, _, _, _, _), ReadItem(_, _, _, _, _, _), AddItem(_, _, _, _, _, _)

(* A value at position i; the type of its container's elements, or 0.      *)
ReadAt(format, b, i, type) == ReadHead(format, b, HeadAt(format, b, i, type))

ReadHead(format, b, head) ==
    CASE head.error # 0 \/ head.kind \in {"value", "string"} -> ReadString(b, head)
      [] head.error = 0 /\ head.kind = "array" /\ head.type = LetterN -> Complete(Array(<<>>), head.next)
      [] OTHER -> ReadItems(format, b, head.next, head, <<>>)

(* get_string; in CBOR a string may be made of strings.                    *)
ReadString(b, head) ==
    CASE head.error # 0 \/ head.kind = "value" -> head
      [] head.error = 0 /\ head.kind = "string" ->
             CASE head.count = Unsized -> ReadChunks(b, head.next, <<>>)
               [] head.count # Unsized /\ ~Here(b, head.next, head.count) -> Failure(EndOfInput)
               [] head.count # Unsized /\ Here(b, head.next, head.count) ->
                      Complete(String(SubSeq(b, head.next, head.next + head.count - 1)),
                               head.next + head.count)

ReadChunks(b, i, sofar) ==
    IF ByteAt(b, i) = 255 THEN Complete(String(sofar), i + 1)
    ELSE ReadMore(b, sofar, ReadString(b, OnlyString(CborHeadAt(b, i))))

ReadMore(b, sofar, chunk) ==
    IF chunk.error # 0 THEN chunk ELSE ReadChunks(b, chunk.next, sofar \o Content(chunk.value))

(* What stands in front of the value of a member.  An element has no name, *)
(* but in BSON.                                                            *)
NameAt(format, b, i, kind) ==
    IF kind = "array" /\ format # "bson" THEN Complete(Null, i)
    ELSE ReadString(b, NameHeadAt(format, b, i))

(* The rest of an array or an object; items are names and values.          *)
ReadItems(format, b, i, head, items) ==
    LET at == Position(format, b, i, head)
    IN  IF Done(format, b, at, head, Len(items))
        THEN Complete(Collected(head.kind, items), IF head.count = Unsized THEN at + 1 ELSE at)
        ELSE ReadItem(format, b, head, items, IF format = "bson" THEN ByteAt(b, at) ELSE head.type,
                      NameAt(format, b, at, head.kind))

ReadItem(format, b, head, items, type, name) ==
    IF name.error # 0 THEN name
    ELSE AddItem(format, b, head, items, Content(name.value), ReadAt(format, b, name.next, type))

AddItem(format, b, head, items, name, value) ==
    IF value.error # 0 THEN value
    ELSE ReadItems(format, b, value.next, head, Append(items, <<name, value.value>>))

(* sax_parse, strict: nothing may follow the value.                        *)
Strict(format, b, r) ==
    IF r.error = 0 /\ NextAt(format, b, r.next) <= Len(b) THEN Failure(110) ELSE r

Read(format, b) == Strict(format, b, ReadAt(format, b, 1, IF format = "bson" THEN 3 ELSE 0))
=============================================================================
