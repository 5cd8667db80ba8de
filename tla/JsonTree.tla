-------------------------------- MODULE JsonTree --------------------------------
(***************************************************************************)
(* basic_json (src/thirdparty/json.hpp) as a tree: a value is a pair of    *)
(* its type and its content.  An array holds a sequence of values, an      *)
(* object a function from names to values, a string the sequence of its    *)
(* bytes, and a number what the lexer makes of its digits.                 *)
(***************************************************************************)
EXTENDS Naturals, Sequences

Null == <<"null", 0>>
Discarded == <<"discarded", 0>>
Boolean(b) == <<"boolean", b>>
String(s) == <<"string", s>>
Array(s) == <<"array", s>>
Object(f) == <<"object", f>>
Integer(x) == <<"integer", x>>
UnsignedNumber(x) == <<"unsigned", x>>
Float(x) == <<"float", x>>

Type(v) == v[1]
Content(v) == v[2]

(* operator[]: the object with a member of this name, null if it is new.   *)
WithName(f, name) ==
    [n \in DOMAIN f \cup {name} |-> IF n \in DOMAIN f THEN f[n] ELSE Null]

(* The values in an array or an object; and v with all values up to n      *)
(* levels below it.                                                        *)
Children(v) ==
    IF Type(v) \in {"array", "object"} THEN {Content(v)[k] : k \in DOMAIN Content(v)} ELSE {}

Within(v, n) ==
    LET values[i \in 0 .. n] ==
            IF i = 0 THEN {v}
            ELSE UNION {{w} \cup Children(w) : w \in values[i - 1]}
    IN  values[n]

-----------------------------------------------------------------------------
(* A reference to a value inside another one is the path to it.            *)
Element(i) == <<"element", i>>
Member(name) == <<"member", name>>

At(v, path) ==
    LET below[n \in 0 .. Len(path)] == IF n = 0 THEN v ELSE Content(below[n - 1])[path[n][2]]
    IN  below[Len(path)]

(* The value with *path = new.                                             *)
Put(v, path, new) ==
    LET old(n) == At(v, SubSeq(path, 1, n))
        changed[n \in 0 .. Len(path)] ==
            IF n = Len(path) THEN new
            ELSE <<Type(old(n)), [Content(old(n)) EXCEPT ![path[n + 1][2]] = changed[n + 1]]>>
    IN  changed[0]
=============================================================================
