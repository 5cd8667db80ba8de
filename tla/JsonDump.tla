------------------------------- MODULE JsonDump -------------------------------
(***************************************************************************)
(* nlohmann::detail::serializer: what json::dump writes.  The options are  *)
(* those of dump: whether to indent (by indent_step blanks a level),       *)
(* whether to escape what is not ASCII, and what to do with bytes that are *)
(* not UTF-8.  The buffer in front of the output is left out.              *)
(***************************************************************************)
EXTENDS JsonValue, JsonDecode

-----------------------------------------------------------------------------
(* dump_escaped.                                                           *)

Hex(n) == [i \in 1 .. 4 |->
    LET d == (n \div (16 ^ (4 - i))) % 16 IN IF d < 10 THEN 48 + d ELSE 87 + d]

EscapeU(n) == <<Backslash, LowerU>> \o Hex(n)

ShortEscapes == [c \in {8, 9, 10, 12, 13, 34, 92} |->
    CASE c = 8  -> 98
      [] c = 9  -> 116
      [] c = 10 -> 110
      [] c = 12 -> 102
      [] c = 13 -> 114
      [] OTHER  -> c]

(* Mutant: what needs two escapes gets one, cut to sixteen bits.           *)
EscapedInOne(cp, ascii, plain) ==
    CASE cp \in DOMAIN ShortEscapes -> <<Backslash, ShortEscapes[cp]>>
      [] cp \notin DOMAIN ShortEscapes /\ (cp < 32 \/ (ascii /\ cp >= 127)) -> EscapeU(cp % 65536)
      [] OTHER -> plain

(* A code point: escaped, or the bytes of the string as they are.          *)
Escaped(cp, ascii, plain) ==
    LET long == cp \notin DOMAIN ShortEscapes /\ (cp < 32 \/ (ascii /\ cp >= 127))
    IN  CASE cp \in DOMAIN ShortEscapes -> <<Backslash, ShortEscapes[cp]>>
          [] long /\ cp < 65536         -> EscapeU(cp)
          [] long /\ cp >= 65536        -> EscapeU(55232 + cp \div 1024) \o EscapeU(56320 + (cp % 1024))
          [] OTHER                      -> plain

Replacement(ascii) == IF ascii THEN EscapeU(65533) ELSE <<239, 191, 189>>

NewEscaper == [out |-> <<>>, state |-> Accept, codepoint |-> 0, pending |-> <<>>, thrown |-> 0]

(* One byte.  After a reject the byte is read again, unless it is the      *)
(* first of its character.                                                 *)
RECURSIVE EscapeByteOf(_, _, _, _)
EscapeByteOf(e, b, ascii, handler) ==
    LET state == Decode(e.state, b)
        codepoint == DecodeCodepoint(e.state, e.codepoint, b)
        restart == [e EXCEPT !.state = Accept, !.pending = <<>>,
                             !.out = @ \o IF handler = "replace" THEN Replacement(ascii) ELSE <<>>]
    IN  CASE state = Accept ->
                 [e EXCEPT !.state = Accept, !.pending = <<>>,
                           !.out = @ \o Escaped(codepoint, ascii, Append(e.pending, b))]
          [] state = Reject /\ handler = "strict" -> [e EXCEPT !.thrown = 316]
          [] state = Reject /\ handler # "strict" ->
                 IF e.pending = <<>> THEN restart ELSE EscapeByteOf(restart, b, ascii, handler)
          [] OTHER ->
                 [e EXCEPT !.state = state, !.codepoint = codepoint, !.pending = Append(@, b)]

EscapeEnd(e, ascii, handler) ==
    CASE e.state = Accept \/ e.thrown # 0 -> e
      [] OTHER ->
             CASE handler = "strict"  -> [e EXCEPT !.thrown = 316]
               [] handler = "ignore"  -> e
               [] handler = "replace" -> [e EXCEPT !.out = @ \o Replacement(ascii)]

DumpEscaped(s, ascii, handler) ==
    EscapeEnd(FoldLeft(LAMBDA e, b : IF e.thrown # 0 THEN e ELSE EscapeByteOf(e, b, ascii, handler),
                       NewEscaper, s),
              ascii, handler)

-----------------------------------------------------------------------------
(* dump_integer and dump_float.                                            *)

DumpInteger(x) == (IF x.neg THEN <<Hyphen>> ELSE <<>>) \o DecimalDigits(x.abs)

Fill(n) == [i \in 1 .. n |-> Zero]

(* append_exponent: at least two digits.                                   *)
DumpExponent(e) ==
    LET digits == DecimalDigits(OfNat(IF e < 0 THEN -e ELSE e))
    IN  <<IF e < 0 THEN Hyphen ELSE Plus>> \o (IF Len(digits) = 1 THEN Fill(1) ELSE <<>>) \o digits

MinExp == -4
MaxExp == 15

(* format_buffer: the shortest digits, with a point among them or an       *)
(* exponent behind them.                                                   *)
FormatBuffer(digits, exp) ==
    LET k == Len(digits)
        n == k + exp
        scientific == ~ n \in MinExp + 1 .. MaxExp
    IN  CASE k <= n /\ n <= MaxExp -> digits \o Fill(n - k) \o <<Dot, Zero>>
          [] 0 < n /\ n < k /\ n <= MaxExp ->
                 SubSeq(digits, 1, n) \o <<Dot>> \o SubSeq(digits, n + 1, k)
          [] MinExp < n /\ n <= 0 -> <<Zero, Dot>> \o Fill(-n) \o digits
          [] scientific /\ k = 1  -> digits \o <<LowerE>> \o DumpExponent(n - 1)
          [] scientific /\ k > 1  ->
                 <<digits[1], Dot>> \o Tail(digits) \o <<LowerE>> \o DumpExponent(n - 1)

DumpFloat(x) ==
    CASE x.exp = Infinite -> NullText
      [] x.exp # Infinite /\ x.digits = <<>> ->
             (IF x.neg THEN <<Hyphen>> ELSE <<>>) \o <<Zero, Dot, Zero>>
      [] x.exp # Infinite /\ x.digits # <<>> ->
             (IF x.neg THEN <<Hyphen>> ELSE <<>>) \o FormatBuffer(DecimalDigits(x.digits), x.exp)

-----------------------------------------------------------------------------
(* dump.                                                                   *)

Quoted(s, ascii) == <<Quote>> \o DumpEscaped(s, ascii, "strict").out \o <<Quote>>

RECURSIVE Joined(_, _)
Joined(parts, separator) ==
    IF Len(parts) = 1 THEN parts[1]
    ELSE parts[1] \o separator \o Joined(Tail(parts), separator)

Blanks(n) == [i \in 1 .. n |-> Blank]

(* The members of a container between its brackets.                        *)
Bracketed(open, parts, close, pretty, step, indent) ==
    CASE parts = <<>> -> <<open, close>>
      [] parts # <<>> /\ ~pretty -> <<open>> \o Joined(parts, <<Comma>>) \o <<close>>
      [] parts # <<>> /\ pretty ->
             LET line == Blanks(indent + step)
             IN  <<open, Newline>> \o line \o Joined(parts, <<Comma, Newline>> \o line)
                 \o <<Newline>> \o Blanks(indent) \o <<close>>

DumpScalar(v, ascii) ==
    LET c == Content(v)
    IN  CASE Type(v) = "string"  -> Quoted(c, ascii)
          [] Type(v) = "boolean" -> IF c THEN TrueText ELSE FalseText
          [] Type(v) \in {"integer", "unsigned"} -> DumpInteger(c)
          [] Type(v) = "float"   -> DumpFloat(c)
          [] Type(v) = "null"    -> NullText

RECURSIVE Dump(_, _, _, _, _)
Dump(v, pretty, ascii, step, indent) ==
    LET c == Content(v)
        inner(w) == Dump(w, pretty, ascii, step, indent + step)
        colon == IF pretty THEN <<Colon, Blank>> ELSE <<Colon>>
        names == Names(c)
    IN  CASE Type(v) = "object" ->
                 Bracketed(LeftBrace,
                           [i \in DOMAIN names |-> Quoted(names[i], ascii) \o colon \o inner(c[names[i]])],
                           RightBrace, pretty, step, indent)
          [] Type(v) = "array" ->
                 Bracketed(LeftBracket, [i \in DOMAIN c |-> inner(c[i])], RightBracket,
                           pretty, step, indent)
          [] OTHER -> DumpScalar(v, ascii)

(* dump throws type_error.316 if a string of the value is not UTF-8.       *)
RECURSIVE DumpThrows(_)
DumpThrows(v) ==
    LET c == Content(v)
        bad(s) == DumpEscaped(s, FALSE, "strict").thrown # 0
    IN  CASE Type(v) = "object" -> \E n \in DOMAIN c : bad(n) \/ DumpThrows(c[n])
          [] Type(v) = "array"  -> \E i \in DOMAIN c : DumpThrows(c[i])
          [] Type(v) = "string" -> bad(c)
          [] OTHER              -> FALSE
=============================================================================
