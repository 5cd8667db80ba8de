------------------------------- MODULE JsonReading -------------------------------
(***************************************************************************)
(* json::parse at work: it reads a text byte by byte.  The text is made up *)
(* while it is read: a scenario is a set of pieces of text and a bound on  *)
(* their number.  After them comes the end.                                *)
(***************************************************************************)
EXTENDS JsonParser, JsonDecode

CONSTANTS
    Scenarios       \* scenario -> [pieces |-> set of texts, most |-> their number]

(* A text is a sequence of bytes, and a piece of one is not empty.         *)
ASSUME PiecesAssumption ==
    \A s \in DOMAIN Scenarios : \A p \in Scenarios[s].pieces : p \in Seq(0 .. 255) /\ p # <<>>

VARIABLES
    scenario,
    text,           \* the bytes read so far
    piece,          \* what is left of the piece being read
    used,           \* how many pieces have been taken
    ended,          \* has the parser been told that there is no more?
    parser

vars == <<scenario, text, piece, used, ended, parser>>

Init ==
    /\ scenario \in DOMAIN Scenarios
    /\ text = <<>> /\ piece = <<>> /\ used = 0 /\ ended = FALSE
    /\ parser = NewParser

(* input_buffer_adapter::get_character: the next byte of the text.         *)
ReadNext ==
    /\ ~Finished(parser) /\ ~parser.lexer.again /\ ~ended
    /\ \/ piece # <<>> /\ piece' = Tail(piece) /\ used' = used
          /\ text' = Append(text, Head(piece))
       \/ /\ piece = <<>> /\ used < Scenarios[scenario].most
          /\ \E p \in Scenarios[scenario].pieces :
                piece' = Tail(p) /\ text' = Append(text, Head(p))
          /\ used' = used + 1
    /\ parser' = ReadByte(parser, Last(text'))
    /\ UNCHANGED <<scenario, ended>>

(* The end of the text, which is met again at every further attempt.       *)
ReadEnd ==
    /\ ~Finished(parser) /\ ~parser.lexer.again /\ piece = <<>>
    /\ ended' = TRUE
    /\ parser' = ReadByte(parser, EOF)
    /\ UNCHANGED <<scenario, text, piece, used>>

(* A byte the lexer gave back.                                             *)
ReadAgain ==
    /\ ~Finished(parser) /\ parser.lexer.again
    /\ parser' = ReadByte(parser, parser.lexer.current)
    /\ UNCHANGED <<scenario, text, piece, used, ended>>

Next == ReadNext \/ ReadEnd \/ ReadAgain

Spec == Init /\ [][Next]_vars

-----------------------------------------------------------------------------
(* The stack of open brackets and the pointers the builder keeps agree:    *)
(* every pointer leads to the newest element of the container the pointer  *)
(* below it leads to, an array or an object as the bracket says, and the   *)
(* member a value is about to go to lies in the innermost object.          *)
PointersFollowBrackets ==
    LET refs == parser.dom.refs
        opening == parser.at \in {"first_key", "first_separator", "first_element"}
        brackets == IF opening THEN Append(parser.states, parser.at = "first_element") ELSE parser.states
        holder(i) == At(parser.dom.root, refs[i])
        newest(i) ==
            IF brackets[i] THEN refs[i + 1] = Append(refs[i], Element(Len(Content(holder(i)))))
            ELSE \E n \in DOMAIN Content(holder(i)) : refs[i + 1] = Append(refs[i], Member(n))
        filling == parser.at \in {"value", "separator", "first_separator"}
    IN  ~Finished(parser) =>
            /\ Len(refs) = Len(brackets)
            /\ \A i \in DOMAIN refs : Type(holder(i)) = IF brackets[i] THEN "array" ELSE "object"
            /\ refs # <<>> => refs[1] = <<>>
            /\ \A i \in 1 .. Len(refs) - 1 : newest(i)
            /\ filling /\ brackets # <<>> /\ ~Last(brackets) => Front(parser.dom.element) = Last(refs)

(* The lexer and the serializer have automata of their own for UTF-8, and  *)
(* they agree: what the serializer's makes of the bytes of an open string  *)
(* is the end of a character exactly if the lexer took them all and waits  *)
(* for no more of a character; and whatever else strings are made of, in   *)
(* what has been read every text and every name can be dumped.             *)
OpenString ==
    /\ text # <<>> /\ text[1] = Quote /\ ~ended /\ ~parser.lexer.again
    /\ \A i \in 2 .. Len(text) : text[i] >= 32 /\ text[i] \notin {Quote, Backslash}

TextsDecode(v) ==
    /\ Type(v) = "string" => Decodes(Content(v))
    /\ Type(v) = "object" => \A name \in DOMAIN Content(v) : Decodes(name)

AutomataAgree ==
    /\ OpenString => (Decodes(Tail(text)) <=> parser.lexer.mode = "string" /\ ~Finished(parser))
    /\ \A v \in Within(parser.dom.root, Len(text)) : TextsDecode(v)
=============================================================================
