------------------------------- MODULE JsonLexer -------------------------------
(***************************************************************************)
(* nlohmann::detail::lexer (src/thirdparty/json.hpp), through which every  *)
(* message goes that the server or the client receives.  The lexer reads   *)
(* its input byte by byte; here a scanner is a record and Scan takes it    *)
(* over one byte.  It is done when its token is no longer "none"; after a  *)
(* number it has read one byte too many, and will meet it again.           *)
(*                                                                         *)
(* Bytes are numbers.  Positions, which error messages show, are left out. *)
(***************************************************************************)
EXTENDS WideNumbers

EOF == -1
NUL == 0
Newline == 10
Blank == 32
Quote == 34
Plus == 43
Comma == 44
Hyphen == 45
Dot == 46
Zero == 48
Colon == 58
UpperE == 69
LeftBracket == 91
Backslash == 92
RightBracket == 93
LowerE == 101
LowerU == 117
LeftBrace == 123
RightBrace == 125

Space == {9, 10, 13, 32}
Digits == 48 .. 57
NonZero == 49 .. 57

TrueText == <<116, 114, 117, 101>>
FalseText == <<102, 97, 108, 115, 101>>
NullText == <<110, 117, 108, 108>>

TokenTypes == {"none", "literal_true", "literal_false", "literal_null", "value_string",
               "value_unsigned", "value_integer", "value_float", "begin_array",
               "begin_object", "end_array", "end_object", "name_separator",
               "value_separator", "parse_error", "end_of_input"}

(* A lexer that has read nothing.                                          *)
NewLexer ==
    [token |-> "none", mode |-> "bom", buffer |-> <<>>, rest |-> <<>>, literal |-> "none",
     code |-> 0, left |-> 0, high |-> 0, current |-> EOF, again |-> FALSE]

(* The parser asks for the next token.                                     *)
NextToken(x) == [x EXCEPT !.token = "none", !.mode = "start", !.buffer = <<>>]

Emit(x, token) == [x EXCEPT !.token = token]
Fail(x) == Emit(x, "parse_error")
In(x, mode) == [x EXCEPT !.mode = mode]
Add(x, bytes) == [x EXCEPT !.buffer = @ \o bytes]
Unget(x) == [x EXCEPT !.again = TRUE]

-----------------------------------------------------------------------------
(* Literals, and the byte order mark an input may begin with.              *)

BomByte(x, c) ==
    CASE x.mode = "bom" /\ c = 239  -> In(x, "bom2")
      [] x.mode = "bom" /\ c # 239  -> Unget(In(x, "start"))
      [] x.mode = "bom2" /\ c = 187 -> In(x, "bom3")
      [] x.mode = "bom3" /\ c = 191 -> In(x, "start")
      [] OTHER                      -> Fail(x)

Literal(x, text, token) == [x EXCEPT !.mode = "literal", !.rest = Tail(text), !.literal = token]

LiteralByte(x, c) ==
    IF c # Head(x.rest) THEN Fail(x)
    ELSE IF Len(x.rest) = 1 THEN Emit(x, x.literal)
    ELSE [x EXCEPT !.rest = Tail(@)]

-----------------------------------------------------------------------------
(* Strings.                                                                *)

(* The UTF-8 encoding of a code point.                                     *)
Encode(cp) ==
    LET tail(n) == 128 + ((cp \div n) % 64)
    IN  IF cp < 128 THEN <<cp>>
        ELSE IF cp < 2048 THEN <<192 + cp \div 64, tail(1)>>
        ELSE IF cp < 65536 THEN <<224 + cp \div 4096, tail(64), tail(1)>>
        ELSE <<240 + cp \div 262144, tail(4096), tail(64), tail(1)>>

(* Mutant: the second byte after E0 and F0 may be any tail byte, so that   *)
(* overlong encodings pass.                                                *)
TailsOverlong(c) ==
    LET any == <<128, 191>>
    IN  CASE c \in 194 .. 223                   -> <<any>>
          [] c \in 224 .. 236 \cup {238, 239}   -> <<any, any>>
          [] c = 237                            -> << <<128, 159>>, any>>
          [] c \in 240 .. 243                   -> <<any, any, any>>
          [] c = 244                            -> << <<128, 143>>, any, any>>

(* The ranges of the bytes that must follow a lead byte.                   *)
Tails(c) ==
    LET any == <<128, 191>>
    IN  CASE c \in 194 .. 223                   -> <<any>>
          [] c = 224                            -> << <<160, 191>>, any>>
          [] c \in 225 .. 236 \cup {238, 239}   -> <<any, any>>
          [] c = 237                            -> << <<128, 159>>, any>>
          [] c = 240                            -> << <<144, 191>>, any, any>>
          [] c \in 241 .. 243                   -> <<any, any, any>>
          [] c = 244                            -> << <<128, 143>>, any, any>>

LeadBytes == 194 .. 244
ControlBytes == 0 .. 31

PlainByte(x, c) ==
    CASE c = EOF \/ c \in ControlBytes -> Fail(x)
      [] c = Quote                     -> Emit(x, "value_string")
      [] c = Backslash                 -> In(x, "escape")
      [] c \in LeadBytes               -> [Add(x, <<c>>) EXCEPT !.mode = "tail", !.rest = Tails(c)]
      [] c \in (32 .. 127) \ {Quote, Backslash} -> Add(x, <<c>>)
      [] OTHER                         -> Fail(x)

(* next_byte_in_range                                                      *)
TailByte(x, c) ==
    LET range == Head(x.rest)
    IN  IF c \notin range[1] .. range[2] THEN Fail(x)
        ELSE [Add(x, <<c>>) EXCEPT !.rest = Tail(@),
                                   !.mode = IF Len(x.rest) = 1 THEN "string" ELSE "tail"]

(* What may follow a backslash, but for u, and what it stands for.         *)
Escapes == [c \in {34, 92, 47, 98, 102, 110, 114, 116} |->
    CASE c = 98  -> 8
      [] c = 102 -> 12
      [] c = 110 -> 10
      [] c = 114 -> 13
      [] c = 116 -> 9
      [] OTHER   -> c]

EscapeByte(x, c) ==
    CASE c \in DOMAIN Escapes -> In(Add(x, <<Escapes[c]>>), "string")
      [] c = LowerU           -> [x EXCEPT !.mode = "hex", !.code = 0, !.left = 4]
      [] OTHER                -> Fail(x)

HexValue(c) ==
    CASE c \in Digits   -> c - 48
      [] c \in 65 .. 70 -> c - 55
      [] c \in 97 .. 102 -> c - 87

HexDigits == Digits \cup 65 .. 70 \cup 97 .. 102
IsHigh(code) == 55296 <= code /\ code <= 56319
IsLow(code) == 56320 <= code /\ code <= 57343

(* Four digits have been read: the first or the second half of a pair of   *)
(* surrogates, or a code point.                                            *)
CodePoint(x) ==
    LET cp == IF x.high = 0 THEN x.code ELSE x.high * 1024 + x.code - 56613888
        complete == [In(Add(x, Encode(cp)), "string") EXCEPT !.high = 0, !.code = 0]
    IN  CASE x.high = 0 /\ IsHigh(x.code) ->
                  [x EXCEPT !.mode = "pair", !.high = x.code]
          [] x.high = 0 /\ IsLow(x.code)   -> Fail(x)
          [] x.high # 0 /\ ~IsLow(x.code)  -> Fail(x)
          [] OTHER -> complete

(* get_codepoint                                                           *)
HexByte(x, c) ==
    IF c \notin HexDigits THEN Fail(x)
    ELSE LET y == [x EXCEPT !.code = 16 * @ + HexValue(c), !.left = @ - 1]
         IN  IF y.left = 0 THEN CodePoint(y) ELSE y

(* Between the halves of a pair: \u                                        *)
PairByte(x, c) ==
    CASE x.mode = "pair" /\ c = Backslash -> In(x, "pairU")
      [] x.mode = "pairU" /\ c = LowerU   -> [x EXCEPT !.mode = "hex", !.code = 0, !.left = 4]
      [] OTHER                            -> Fail(x)

-----------------------------------------------------------------------------
(* Numbers: the state machine drawn in the comment of scan_number.         *)

NumberMoves == {
    <<"minus", {Zero}, "zero">>,            <<"minus", NonZero, "any1">>,
    <<"zero", {Dot}, "decimal1">>,          <<"zero", {LowerE, UpperE}, "exponent">>,
    <<"any1", Digits, "any1">>,             <<"any1", {Dot}, "decimal1">>,
    <<"any1", {LowerE, UpperE}, "exponent">>,
    <<"decimal1", Digits, "decimal2">>,
    <<"decimal2", Digits, "decimal2">>,     <<"decimal2", {LowerE, UpperE}, "exponent">>,
    <<"exponent", {Plus, Hyphen}, "sign">>,  <<"exponent", Digits, "any2">>,
    <<"sign", Digits, "any2">>,
    <<"any2", Digits, "any2">>}

NumberModes == {move[1] : move \in NumberMoves}
NumberEnds == {"zero", "any1", "decimal2", "any2"}

NumberStart(c) ==
    CASE c = Hyphen     -> "minus"
      [] c = Zero      -> "zero"
      [] c \in NonZero -> "any1"

IsDigits(s) == \A i \in DOMAIN s : s[i] \in Digits

Negative(s) == s # <<>> /\ s[1] = Hyphen
Unsigned(s) == IF Negative(s) THEN Tail(s) ELSE s

IntegerOf(s) == Signed(Negative(s), OfDecimal(Unsigned(s)))

(* strtoull, strtoll: a number that does not fit is a float instead.       *)
NumberToken(s) ==
    CASE IsDigits(s) /\ AtMost(OfDecimal(s), MaxUnsigned(8)) -> "value_unsigned"
      [] Negative(s) /\ IsDigits(Tail(s)) /\ FitsSigned(IntegerOf(s), 8) -> "value_integer"
      [] OTHER -> "value_float"

NumberByte(x, c) ==
    LET moves == {move \in NumberMoves : move[1] = x.mode /\ c \in move[2]}
    IN  IF moves # {} THEN In(Add(x, <<c>>), (CHOOSE move \in moves : TRUE)[3])
        ELSE IF x.mode \in NumberEnds THEN Unget(Emit(x, NumberToken(x.buffer)))
        ELSE Fail(x)

(* strtod: a float is a sign and decimal digits times a power of ten, with *)
(* no zero at the end of the digits; beyond the range of a double it is    *)
(* infinite, or zero.  What it rounds to is decimal, not binary.           *)
Precision == 14
MaxExponent == 308
MinExponent == -324
Infinite == 1000

DropDigits(n, k) ==
    LET dropped[i \in 0 .. k] == IF i = 0 THEN n ELSE DivRem(dropped[i - 1], 10)[1]
    IN  dropped[k]

Rounded(n, exp) ==
    LET excess == Len(DecimalDigits(n)) - Precision
    IN  IF excess <= 0 THEN <<n, exp>>
        ELSE <<DivRem(TimesPlus(DropDigits(n, excess - 1), 1, 5), 10)[1], exp + excess>>

(* f is <<n, exp>>: n * 10^exp.                                             *)
Normal(f) ==
    LET digits == DecimalDigits(f[1])
        zeros == Len(digits) - Max({i \in DOMAIN digits : digits[i] # Zero})
    IN  IF f[1] = <<>> THEN <<f[1], 0>> ELSE <<DropDigits(f[1], zeros), f[2] + zeros>>

Ranged(neg, f) ==
    LET magnitude == Len(DecimalDigits(f[1])) + f[2] - 1
        float(digits, e) == [neg |-> neg, digits |-> digits, exp |-> e]
    IN  CASE magnitude > MaxExponent -> float(<<>>, Infinite)
          [] magnitude < MinExponent -> float(<<>>, 0)
          [] OTHER                   -> float(f[1], f[2])

MakeFloat(neg, n, exp) == Ranged(neg, Normal(Rounded(n, exp)))

FloatOf(s) ==
    LET u == Unsigned(s)
        e == SelectInSeq(u, LAMBDA c : c \in {LowerE, UpperE})
        mantissa == IF e = 0 THEN u ELSE SubSeq(u, 1, e - 1)
        exponent == IF e = 0 THEN <<>> ELSE SubSeq(u, e + 1, Len(u))
        dot == SelectInSeq(mantissa, LAMBDA c : c = Dot)
        fraction == IF dot = 0 THEN 0 ELSE Len(mantissa) - dot
        ten == ToNat(OfDecimal(SelectSeq(exponent, LAMBDA c : c \in Digits)))
    IN  MakeFloat(Negative(s),
                  OfDecimal(SelectSeq(mantissa, LAMBDA c : c # Dot)),
                  (IF Negative(exponent) THEN -ten ELSE ten) - fraction)

-----------------------------------------------------------------------------
Structural == [c \in {LeftBracket, RightBracket, LeftBrace, RightBrace, Colon, Comma} |->
    CASE c = LeftBracket  -> "begin_array"
      [] c = RightBracket -> "end_array"
      [] c = LeftBrace    -> "begin_object"
      [] c = RightBrace   -> "end_object"
      [] c = Colon        -> "name_separator"
      [] c = Comma        -> "value_separator"]

(* scan: the first byte of a token.  A zero byte ends the input.           *)
StartByte(x, c) ==
    CASE c \in Space              -> x
      [] c \in DOMAIN Structural  -> Emit(x, Structural[c])
      [] c = TrueText[1]          -> Literal(x, TrueText, "literal_true")
      [] c = FalseText[1]         -> Literal(x, FalseText, "literal_false")
      [] c = NullText[1]          -> Literal(x, NullText, "literal_null")
      [] c = Quote                -> In(x, "string")
      [] c = Hyphen \/ c \in Digits -> In(Add(x, <<c>>), NumberStart(c))
      [] c = NUL \/ c = EOF       -> Emit(x, "end_of_input")
      [] OTHER                    -> Fail(x)

(* One call of get, and what is done with the byte.                        *)
Scan(x, c) ==
    LET y == [x EXCEPT !.current = c, !.again = FALSE]
    IN  CASE x.mode \in {"bom", "bom2", "bom3"} -> BomByte(y, c)
          [] x.mode = "start"             -> StartByte(y, c)
          [] x.mode = "literal"           -> LiteralByte(y, c)
          [] x.mode = "string"            -> PlainByte(y, c)
          [] x.mode = "tail"              -> TailByte(y, c)
          [] x.mode = "escape"            -> EscapeByte(y, c)
          [] x.mode = "hex"               -> HexByte(y, c)
          [] x.mode \in {"pair", "pairU"} -> PairByte(y, c)
          [] x.mode \in NumberModes       -> NumberByte(y, c)
=============================================================================
