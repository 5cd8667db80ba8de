------------------------------- MODULE JsonPatch -------------------------------
(***************************************************************************)
(* basic_json::diff and basic_json::patch.  A patch is a sequence of       *)
(* operations: the operations diff makes, and test.  The JSON text of a    *)
(* patch, and move and copy, are left out.                                 *)
(***************************************************************************)
EXTENDS JsonPointer

Operation(op, path, value) == [op |-> op, path |-> path, value |-> value]

Below(path, name) == path \o <<Slash>> \o name
Index(i) == DecimalDigits(OfNat(i - 1))

(* Mutant: the superfluous elements are removed from the first one on.     *)
RemovalsInOrder(path, m, n) ==
    [k \in 1 .. n - m |-> Operation("remove", Below(path, Index(m + k)), Null)]

(* The elements m + 1 to n are removed from the last one on.               *)
Removals(path, m, n) ==
    [k \in 1 .. n - m |-> Operation("remove", Below(path, Index(n + 1 - k)), Null)]

RECURSIVE Diff(_, _, _)
DiffArrays(a, b, path) ==
    LET m == Len(a)
        n == Len(b)
        common == IF m < n THEN m ELSE n
    IN  FlattenSeq([i \in 1 .. common |-> Diff(a[i], b[i], Below(path, Index(i)))])
        \o Removals(path, common, m)
        \o [k \in 1 .. n - common |-> Operation("add", Below(path, Index(common + k)), b[common + k])]

DiffObjects(f, g, path) ==
    LET added == SelectSeq(Names(g), LAMBDA n : n \notin DOMAIN f)
        of(n) == Below(path, Escape(n))
        Change(n) == IF n \in DOMAIN g THEN Diff(f[n], g[n], of(n))
                     ELSE <<Operation("remove", of(n), Null)>>
    IN  FlattenSeq([i \in 1 .. Cardinality(DOMAIN f) |-> Change(Names(f)[i])])
        \o [i \in DOMAIN added |-> Operation("add", of(added[i]), g[added[i]])]

Diff(v, w, path) ==
    LET types == <<Type(v), Type(w)>>
    IN  IF Equal(v, w) THEN <<>>
        ELSE CASE types = <<"array", "array">>   -> DiffArrays(Content(v), Content(w), path)
               [] types = <<"object", "object">> -> DiffObjects(Content(v), Content(w), path)
               [] OTHER                          -> <<Operation("replace", path, w)>>

-----------------------------------------------------------------------------
(* operation_add: insert moves the elements behind it.  Any other parent   *)
(* fails an assertion.                                                     *)
AddTo(parent, token, new, index) ==
    LET c == Content(parent)
    IN  CASE Type(parent) = "null"   -> Go(Object(token :> new), <<>>)
          [] Type(parent) = "object" -> Go(Object(token :> new @@ c), <<>>)
          [] Type(parent) = "array"  ->
                 IF token = <<Hyphen>> THEN Go(Array(Append(c, new)), <<>>)
                 ELSE IF index[2] # 0 THEN Stop(index[2])
                 ELSE IF index[1] > Len(c) THEN Stop(401)
                 ELSE Go(Array(InsertAt(c, index[1] + 1, new)), <<>>)

(* operation_remove: what is no container is left alone.                   *)
RemoveFrom(parent, token, index) ==
    LET c == Content(parent)
    IN  CASE Type(parent) = "object" ->
                 IF token \in DOMAIN c THEN Go(Object(Restrict(c, DOMAIN c \ {token})), <<>>) ELSE Stop(403)
          [] Type(parent) = "array" ->
                 IF index[2] # 0 THEN Stop(index[2])
                 ELSE IF index[1] >= Len(c) THEN Stop(401)
                 ELSE Go(Array(RemoveAt(c, index[1] + 1)), <<>>)
          [] ~IsContainer(parent) -> Go(parent, <<>>)

(* The parent is changed in its place, if there is one and the change      *)
(* succeeds.                                                               *)
Changed(parent, result) == IF result.error # 0 THEN result ELSE Assigned(parent, result.value)

Change(parent, op, token, new) ==
    LET old == At(parent.value, parent.path)
    IN  IF parent.error # 0 THEN parent
        ELSE Changed(parent, IF op = "add" THEN AddTo(old, token, new, ArrayIndex(token))
                             ELSE RemoveFrom(old, token, ArrayIndex(token)))

(* Before an addition the first token is looked up with at.                *)
Checked(top, result) == IF top.error # 0 THEN top ELSE result

Operate(v, tokens, op, new) ==
    CASE tokens = <<>> /\ op = "add"    -> Go(new, <<>>)
      [] tokens = <<>> /\ op = "remove" -> Stop(405)
      [] tokens # <<>> ->
             Checked(IF op = "add" /\ Len(tokens) > 1 THEN Into(v, Head(tokens), "checked") ELSE Go(v, <<>>),
                     Change(Follow(v, Front(tokens), IF op = "add" THEN "unchecked" ELSE "checked"),
                            op, Last(tokens), new))

(* replace and test.                                                       *)
Compare(v, here, op, value) ==
    CASE op = "replace" -> Assigned(here, value)
      [] op = "test"    ->
             IF here.error = 0 /\ Equal(At(v, here.path), value) THEN Go(v, <<>>)
             ELSE Stop(IF here.error \in {106, 109} THEN here.error ELSE 501)

Apply(v, pointer, operation) ==
    CASE pointer.error # 0 -> Stop(pointer.error)
      [] pointer.error = 0 /\ operation.op \in {"add", "remove"} ->
             Operate(v, pointer.tokens, operation.op, operation.value)
      [] pointer.error = 0 /\ operation.op \in {"replace", "test"} ->
             Compare(v, Follow(v, pointer.tokens, "checked"), operation.op, operation.value)

(* patch works on a copy, and throws at the first operation that fails.    *)
Patch(v, patch) ==
    FoldLeft(LAMBDA r, operation : IF r.error # 0 THEN r
                                 ELSE Apply(r.value, Split(operation.path), operation),
             Go(v, <<>>), patch)
=============================================================================
