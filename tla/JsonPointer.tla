------------------------------ MODULE JsonPointer ------------------------------
(***************************************************************************)
(* nlohmann::json_pointer: the text of a pointer, the value it leads to,   *)
(* and flatten and unflatten.  A pointer is the sequence of its reference  *)
(* tokens.  What follows a pointer yields the place it leads to, in a      *)
(* value that may have grown on the way, or the id of the exception.       *)
(*                                                                         *)
(* A token that is an index is made of digits: the blanks and the sign     *)
(* that std::stoi takes in front of them are left out.                     *)
(***************************************************************************)
EXTENDS JsonValue

Slash == 47
Tilde == 126
One == 49

(* replace_substring: of two bytes by one, or of one byte by two.          *)
RECURSIVE Contracted(_, _, _)
Contracted(s, two, c) ==
    IF Len(s) < 2 THEN s
    ELSE IF SubSeq(s, 1, 2) = two THEN <<c>> \o Contracted(SubSeq(s, 3, Len(s)), two, c)
    ELSE <<Head(s)>> \o Contracted(Tail(s), two, c)
Expanded(s, c, two) == FlattenSeq([i \in DOMAIN s |-> IF s[i] = c THEN two ELSE <<s[i]>>])

(* Mutant: the slashes first, so that their tildes are escaped again.      *)
EscapeSlashFirst(s) == Expanded(Expanded(s, Slash, <<Tilde, One>>), Tilde, <<Tilde, Zero>>)

Escape(s) == Expanded(Expanded(s, Tilde, <<Tilde, Zero>>), Slash, <<Tilde, One>>)
Unescape(s) == Contracted(Contracted(s, <<Tilde, One>>, Slash), <<Tilde, Zero>>, Tilde)

(* split                                                                   *)
Misescaped(token) ==
    \E i \in DOMAIN token :
        token[i] = Tilde /\ (i = Len(token) \/ token[i + 1] \notin {Zero, One})

RECURSIVE Tokens(_)
Tokens(s) ==
    LET slash == SelectInSeq(s, LAMBDA c : c = Slash)
    IN  IF slash = 0 THEN <<s>> ELSE <<SubSeq(s, 1, slash - 1)>> \o Tokens(SubSeq(s, slash + 1, Len(s)))

Unescaped(tokens) ==
    IF \E t \in Range(tokens) : Misescaped(t) THEN [error |-> 108, tokens |-> <<>>]
    ELSE [error |-> 0, tokens |-> [i \in DOMAIN tokens |-> Unescape(tokens[i])]]

Split(s) ==
    IF s # <<>> /\ s[1] # Slash THEN [error |-> 107, tokens |-> <<>>]
    ELSE Unescaped(IF s = <<>> THEN <<>> ELSE Tokens(Tail(s)))

-----------------------------------------------------------------------------
(* Following a pointer: "checked" for at, "unchecked" for operator[], and  *)
(* "create" for unflatten.                                                 *)

OnlyDigits(token) == Range(token) \subseteq Digits

(* array_index: the index and the exception.                               *)
ArrayIndex(token) ==
    CASE token # <<>> /\ OnlyDigits(token)     -> <<ToNat(OfDecimal(token)), 0>>
      [] token = <<>> \/ token[1] \notin Digits -> <<0, 109>>
      [] OTHER                                 -> <<0, 404>>

(* What null becomes when a token is looked up in it.                      *)
Fresh(token, how) ==
    CASE how = "checked"   -> Null
      [] how = "create"    -> IF token = <<Zero>> THEN Array(<<>>) ELSE Object(<<>>)
      [] how = "unchecked" -> IF OnlyDigits(token) \/ token = <<Hyphen>> THEN Array(<<>>) ELSE Object(<<>>)

Padded(c, n) == [i \in 1 .. (IF n > Len(c) THEN n ELSE Len(c)) |-> IF i <= Len(c) THEN c[i] ELSE Null]

Stop(id) == [error |-> id, value |-> Null, path |-> <<>>]
Go(v, path) == [error |-> 0, value |-> v, path |-> path]

IntoArray(v, token, how, index) ==
    LET c == Content(v)
    IN  CASE how = "checked" /\ token = <<Hyphen>> -> Stop(402)
          [] how = "unchecked" /\ token = <<Hyphen>> ->
                 Go(Array(Append(c, Null)), <<Element(Len(c) + 1)>>)
          [] how # "create" /\ Len(token) > 1 /\ token[1] = Zero -> Stop(106)
          [] how # "create" /\ ~(Len(token) > 1 /\ token[1] = Zero) /\ token # <<Hyphen>> /\ index[2] # 0
                 -> Stop(index[2])
          [] how = "create" /\ index[2] # 0 -> Stop(index[2])
          [] OTHER ->
                 IF how = "checked" /\ index[1] >= Len(c) THEN Stop(401)
                 ELSE Go(Array(Padded(c, index[1] + 1)), <<Element(index[1] + 1)>>)

IntoObject(v, token, how) ==
    IF how = "checked" /\ token \notin DOMAIN Content(v) THEN Stop(403)
    ELSE Go(Object(WithName(Content(v), token)), <<Member(token)>>)

Into(v, token, how) ==
    CASE Type(v) = "object" -> IntoObject(v, token, how)
      [] Type(v) = "array"  -> IntoArray(v, token, how, ArrayIndex(token))
      [] OTHER              -> Stop(IF how = "create" THEN 313 ELSE 404)

(* The rest of the way leads on from where the first step led.             *)
Joint(first, rest) ==
    IF rest.error # 0 THEN rest
    ELSE Go(Put(first.value, first.path, rest.value), first.path \o rest.path)

(* get_checked, get_unchecked, get_and_create                              *)
RECURSIVE Follow(_, _, _), FollowOn(_, _, _)
FollowOn(first, tokens, how) ==
    IF first.error # 0 THEN first
    ELSE Joint(first, Follow(At(first.value, first.path), tokens, how))

Follow(v, tokens, how) ==
    IF tokens = <<>> THEN Go(v, <<>>)
    ELSE FollowOn(Into(IF v = Null THEN Fresh(Head(tokens), how) ELSE v, Head(tokens), how),
                  Tail(tokens), how)

Assigned(place, new) == IF place.error # 0 THEN place ELSE Go(Put(place.value, place.path, new), <<>>)

-----------------------------------------------------------------------------
IsContainer(v) == Type(v) \in {"array", "object"}

(* flatten: from the texts of pointers to what is not a container.         *)
RECURSIVE Flatten(_, _)
Flatten(text, v) ==
    LET entries == Entries(v)
        Below(i) ==
            LET name == entries[i][1]
            IN  Flatten(text \o <<Slash>> \o (IF Type(v) = "array" THEN name ELSE Escape(name)), entries[i][2])
    IN  CASE IsContainer(v) /\ Content(v) = <<>> -> text :> Null
          [] IsContainer(v) /\ Content(v) # <<>> ->
                 FoldLeft(LAMBDA f, g : f @@ g, <<>>, [i \in DOMAIN entries |-> Below(i)])
          [] ~IsContainer(v) -> text :> v

(* unflatten: the members of the object are assigned in their order.       *)
AssignAt(v, pointer, new) ==
    CASE IsContainer(new) -> Stop(315)
      [] ~IsContainer(new) /\ pointer.error # 0 -> Stop(pointer.error)
      [] ~IsContainer(new) /\ pointer.error = 0 -> Assigned(Follow(v, pointer.tokens, "create"), new)

Unflatten(flat) ==
    FoldLeft(LAMBDA r, name : IF r.error # 0 THEN r ELSE AssignAt(r.value, Split(name), flat[name]),
             Go(Null, <<>>), Names(flat))
=============================================================================
