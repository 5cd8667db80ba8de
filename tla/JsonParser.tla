------------------------------ MODULE JsonParser ------------------------------
(***************************************************************************)
(* nlohmann::detail::parser and json_sax_dom_parser: what json::parse does *)
(* with the tokens of the lexer.  A parser is a record: its lexer, where   *)
(* in sax_parse_internal it waits for the next token, the stack of open    *)
(* arrays (TRUE) and objects (FALSE), the value built so far, and the id   *)
(* of the exception it threw.                                              *)
(***************************************************************************)
EXTENDS JsonLexer, JsonTree

-----------------------------------------------------------------------------
(* json_sax_dom_parser: the value under construction, the pointers to the  *)
(* open containers, and the member the next value of an object goes to.    *)

NewDom == [root |-> Null, refs |-> <<>>, element |-> <<>>]

Holder(dom) == At(dom.root, Last(dom.refs))

(* handle_value: the dom with the value in its place, and that place.      *)
HandleValue(dom, v) ==
    IF dom.refs = <<>> THEN <<[dom EXCEPT !.root = v], <<>> >>
    ELSE IF Type(Holder(dom)) = "array"
         THEN LET elements == Append(Content(Holder(dom)), v)
                  ref == Append(Last(dom.refs), Element(Len(elements)))
              IN  <<[dom EXCEPT !.root = Put(@, Last(dom.refs), Array(elements))], ref>>
         ELSE <<[dom EXCEPT !.root = Put(@, dom.element, v)], dom.element>>

Scalar(dom, v) == HandleValue(dom, v)[1]

StartContainer(dom, v) ==
    LET placed == HandleValue(dom, v)
    IN  [placed[1] EXCEPT !.refs = Append(@, placed[2])]

StartObject(dom) == StartContainer(dom, Object(<<>>))
StartArray(dom) == StartContainer(dom, Array(<<>>))

Key(dom, name) ==
    [dom EXCEPT !.root = Put(@, Last(dom.refs), Object(WithName(Content(Holder(dom)), name))),
                !.element = Append(Last(dom.refs), Member(name))]

(* end_object, end_array                                                   *)
EndContainer(dom) == [dom EXCEPT !.refs = Front(@)]

-----------------------------------------------------------------------------
(* The parser.                                                             *)

NewParser ==
    [lexer |-> NewLexer, at |-> "value", states |-> <<>>, dom |-> NewDom, error |-> 0]

Finished(p) == p.at \in {"accepted", "error"}

(* sax->parse_error throws.                                                *)
Throw(p, id) == [p EXCEPT !.at = "error", !.error = id]
SyntaxError(p) == Throw(p, 101)

Await(p, at) == [p EXCEPT !.at = at]
Build(p, dom) == [p EXCEPT !.dom = dom]

(* The evaluation of the stack after a value.                              *)
Evaluate(p) == Await(p, IF p.states = <<>> THEN "end" ELSE "after")

ScalarOf(x) ==
    CASE x.token = "literal_true"   -> Boolean(TRUE)
      [] x.token = "literal_false"  -> Boolean(FALSE)
      [] x.token = "literal_null"   -> Null
      [] x.token = "value_string"   -> String(x.buffer)
      [] x.token = "value_unsigned" -> UnsignedNumber(IntegerOf(x.buffer))
      [] x.token = "value_integer"  -> Integer(IntegerOf(x.buffer))
      [] x.token = "value_float"    -> Float(FloatOf(x.buffer))

Scalars == {"literal_true", "literal_false", "literal_null", "value_string",
            "value_unsigned", "value_integer", "value_float"}

(* A number out of range is no value.                                      *)
Place(p, v) ==
    IF Type(v) = "float" /\ Content(v).exp = Infinite THEN Throw(p, 406)
    ELSE Evaluate(Build(p, Scalar(p.dom, v)))

(* The switch on the token a value begins with.                            *)
Value(p) ==
    LET token == p.lexer.token
    IN  CASE token = "begin_object" -> Await(Build(p, StartObject(p.dom)), "first_key")
          [] token = "begin_array"  -> Await(Build(p, StartArray(p.dom)), "first_element")
          [] token \in Scalars      -> Place(p, ScalarOf(p.lexer))
          [] OTHER                  -> SyntaxError(p)

Push(p, state) == [p EXCEPT !.states = Append(@, state)]
Pop(p) == [p EXCEPT !.states = Front(@), !.dom = EndContainer(@)]

(* Mutant: an array that is closed at once keeps its pointer.              *)
FirstElementKept(p) ==
    IF p.lexer.token = "end_array" THEN Evaluate(p) ELSE Value(Push(p, TRUE))

FirstElement(p) ==
    IF p.lexer.token = "end_array" THEN Evaluate(Build(p, EndContainer(p.dom)))
    ELSE Value(Push(p, TRUE))

ObjectKey(p, next) ==
    IF p.lexer.token = "value_string" THEN Await(Build(p, Key(p.dom, p.lexer.buffer)), next)
    ELSE SyntaxError(p)

FirstKey(p) ==
    IF p.lexer.token = "end_object" THEN Evaluate(Build(p, EndContainer(p.dom)))
    ELSE ObjectKey(p, "first_separator")

Separator(p) ==
    IF p.lexer.token = "name_separator" THEN Await(p, "value") ELSE SyntaxError(p)

FirstSeparator(p) == Separator(IF p.lexer.token = "name_separator" THEN Push(p, FALSE) ELSE p)

(* Mutant: an object may be closed as if it were an array.                 *)
AfterAnyBracket(p) ==
    LET array == Last(p.states)
        token == p.lexer.token
    IN  CASE token = "value_separator" -> Await(p, IF array THEN "value" ELSE "key")
          [] token \in {"end_array", "end_object"} -> Evaluate(Pop(p))
          [] OTHER -> SyntaxError(p)

After(p) ==
    LET array == Last(p.states)
        token == p.lexer.token
    IN  CASE token = "value_separator" -> Await(p, IF array THEN "value" ELSE "key")
          [] token = (IF array THEN "end_array" ELSE "end_object") -> Evaluate(Pop(p))
          [] OTHER -> SyntaxError(p)

(* parse: nothing may follow the value.                                    *)
End(p) == IF p.lexer.token = "end_of_input" THEN Await(p, "accepted") ELSE SyntaxError(p)

(* The parser asks for the next token, unless it is done.                  *)
Request(p) == IF Finished(p) THEN p ELSE [p EXCEPT !.lexer = NextToken(@)]

(* What the parser does with a token.                                      *)
Take(p) ==
    Request(CASE p.at = "value"           -> Value(p)
              [] p.at = "first_element"   -> FirstElement(p)
              [] p.at = "first_key"       -> FirstKey(p)
              [] p.at = "first_separator" -> FirstSeparator(p)
              [] p.at = "after"           -> After(p)
              [] p.at = "key"             -> ObjectKey(p, "separator")
              [] p.at = "separator"       -> Separator(p)
              [] p.at = "end"             -> End(p))

TakeIfAny(p) == IF p.lexer.token = "none" THEN p ELSE Take(p)

(* One byte, or the end of the input.                                      *)
ReadByte(p, c) == TakeIfAny([p EXCEPT !.lexer = Scan(@, c)])
=============================================================================
