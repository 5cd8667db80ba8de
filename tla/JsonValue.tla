------------------------------- MODULE JsonValue -------------------------------
(***************************************************************************)
(* basic_json (src/thirdparty/json.hpp): the order of the names, the       *)
(* conversions of numbers, the comparison of values and their iteration.   *)
(***************************************************************************)
EXTENDS JsonLexer, JsonTree

(* std::less<std::string>: the order of the names of an object.            *)
RECURSIVE Before(_, _)
Before(s, t) ==
    CASE t = <<>>                                    -> FALSE
      [] s = <<>> /\ t # <<>>                        -> TRUE
      [] s # <<>> /\ t # <<>> /\ Head(s) # Head(t)   -> Head(s) < Head(t)
      [] OTHER                                       -> Before(Tail(s), Tail(t))

(* The members of an object in the order of its iterators.                 *)
RECURSIVE Sorted(_)
Sorted(names) ==
    IF names = {} THEN <<>>
    ELSE LET first == CHOOSE n \in names : \A m \in names \ {n} : Before(n, m)
         IN  <<first>> \o Sorted(names \ {first})

Names(f) == Sorted(DOMAIN f)

(* static_cast to number_float_t and to number_integer_t.                  *)
AsFloat(x) == MakeFloat(x.neg, x.abs, 0)
AsInteger(x) == SignedOf(ToBytes(x, 8))

SameFloat(x, y) ==
    /\ x.digits = y.digits /\ x.exp = y.exp
    /\ (x.neg = y.neg) \/ (x.digits = <<>> /\ x.exp # Infinite)

(* operator==.                                                             *)
RECURSIVE Equal(_, _)
Equal(v, w) ==
    LET a == Content(v)
        b == Content(w)
        types == <<Type(v), Type(w)>>
        whole == {"integer", "unsigned"}
    IN  CASE types = <<"array", "array">>   ->
                 Len(a) = Len(b) /\ \A i \in DOMAIN a : Equal(a[i], b[i])
          [] types = <<"object", "object">> ->
                 DOMAIN a = DOMAIN b /\ \A n \in DOMAIN a : Equal(a[n], b[n])
          [] types = <<"float", "float">>   -> SameFloat(a, b)
          [] types = <<"unsigned", "unsigned">> -> a = b
          [] types \in (whole \X whole) \ {<<"unsigned", "unsigned">>} ->
                 AsInteger(a) = AsInteger(b)
          [] types[1] \in whole /\ types[2] = "float" -> SameFloat(AsFloat(a), b)
          [] types[1] = "float" /\ types[2] \in whole -> SameFloat(a, AsFloat(b))
          [] Type(v) = Type(w) /\ Type(v) \in {"null", "boolean", "string"} -> a = b
          [] OTHER -> FALSE

(* The names and the values of a container; an array's elements are named  *)
(* by their indices.                                                       *)
Entries(v) ==
    LET c == Content(v)
        names == Names(c)
    IN  IF Type(v) = "array"
        THEN [i \in DOMAIN c |-> <<DecimalDigits(OfNat(i - 1)), c[i]>>]
        ELSE [i \in DOMAIN names |-> <<names[i], c[names[i]]>>]
=============================================================================
