------------------------------- MODULE RowPlan -------------------------------
(***************************************************************************)
(* One entity row and the plan of one UPDATE over it (ormpatch/plan.go):   *)
(* what a column can hold, what a Test asserts of the row and what a Write *)
(* leaves in its column.  plan.go only describes the operations; what a    *)
(* storage backend does with them is taken from the interpreter the        *)
(* repository tests the compiler with (ormpatch/agree_test.go).            *)
(***************************************************************************)
EXTENDS Integers, Sequences, SequencesExt

CONSTANTS
    Prop,           \* the columns: graph.Props of the entity
    Shape,          \* [Prop -> {"scalar", "map", "list"}]
    Edge,           \* the props that are graph.Edge; a repeated edge has shape "list"
    Key,            \* map keys
    Val,            \* values of a scalar column, of a map entry, of a list element
    None,           \* no value, and no position inside a column
    Uuid,           \* props whose values must be UUIDLen bytes wide
    Short,          \* the values that are not
    MaxListIndex    \* the largest element position, 1<<31 - 1 in the code

ASSUME SchemaAssumption ==
    /\ Shape \in [Prop -> {"scalar", "map", "list"}]
    /\ Edge \subseteq {p \in Prop : Shape[p] # "map"}
    /\ Uuid \subseteq Prop
    /\ Short \subseteq Val
    /\ None \notin Val
    /\ None \notin Key
    /\ None \notin Int
    /\ Key \cap Int = {}
    /\ MaxListIndex \in Nat

------------------------------------------------------------------------------
(* Columns.                                                                *)

IsMap(p) == Shape[p] = "map"
IsList(p) == Shape[p] = "list"
IsCollection(p) == Shape[p] \in {"map", "list"}

ScalarValue == Val \cup {None}
MapValue == [Key -> Val \cup {None}]
ListValue == Seq(Val)

Column == ScalarValue \cup MapValue \cup ListValue

InColumn(p, v) ==
    CASE Shape[p] = "scalar" -> v \in ScalarValue
      [] Shape[p] = "map"    -> v \in MapValue
      [] Shape[p] = "list"   -> v \in ListValue

\* A column as a literal of the document or the database may fill it.
Row == {r \in [Prop -> Column] : \A p \in Prop : InColumn(p, r[p])}

Empty(p) ==
    CASE Shape[p] = "scalar" -> None
      [] Shape[p] = "map"    -> [k \in Key |-> None]
      [] Shape[p] = "list"   -> <<>>

\* The values found in a column, wherever in it they are.
ValuesIn(p, v) ==
    CASE Shape[p] = "scalar" -> {v} \ {None}
      [] Shape[p] = "map"    -> {v[k] : k \in Key} \ {None}
      [] Shape[p] = "list"   -> {v[i] : i \in DOMAIN v}

\* checkOrmValue: every value a column of UUIDs takes has the width of one.
Storable(p, v) == p \in Uuid => ValuesIn(p, v) \cap Short = {}

------------------------------------------------------------------------------
(* Operations.                                                             *)

JSONKind == {"set", "remove", "append", "clear"}

\* "at" is the map key or the list index, None for append and clear.
JSONOp == [kind : JSONKind, at : Key \cup Int \cup {None}, val : Val \cup {None}]

JSONSet(at, v) == [kind |-> "set", at |-> at, val |-> v]
JSONRemove(at) == [kind |-> "remove", at |-> at, val |-> None]
JSONAppend(v)  == [kind |-> "append", at |-> None, val |-> v]
JSONClear      == [kind |-> "clear", at |-> None, val |-> None]

Op == [kind : {"set", "setEdge"}, val : Column]
        \cup [kind : {"clear", "clearEdge"}]
        \cup [kind : {"edit"}, ops : Seq(JSONOp)]

SetColumn(v) == [kind |-> "set", val |-> v]
ClearColumn  == [kind |-> "clear"]
SetEdge(v)   == [kind |-> "setEdge", val |-> v]
ClearEdge    == [kind |-> "clearEdge"]
EditJSON(s)  == [kind |-> "edit", ops |-> s]

------------------------------------------------------------------------------
(* The backend.                                                            *)

\* At least one backend parses an array subscript as 32 bits and wraps.
Wrap(i) ==
    IF i \in 0..MaxListIndex THEN i
    ELSE LET m == i % (2 * (MaxListIndex + 1))
         IN  IF m > MaxListIndex THEN m - 2 * (MaxListIndex + 1) ELSE m

\* The position a backend looks at for the one a Test or a JSONOp carries.
Subscript(p, at) == IF IsList(p) /\ at # None THEN Wrap(at) ELSE at

\* The 1-based position of element i; a negative index counts from the end.
Position(l, i) == IF i < 0 THEN i + Len(l) + 1 ELSE i + 1

InRange(l, i) == Position(l, i) \in DOMAIN l

\* Whether column value v has anything at "at".
Present(p, at, v) ==
    CASE Shape[p] = "scalar" -> v # None
      [] Shape[p] = "map"    -> IF at = None THEN v # Empty(p) ELSE v[at] # None
      [] Shape[p] = "list"   -> IF at = None THEN v # <<>> ELSE InRange(v, at)

Read(p, at, v) ==
    CASE at = None -> v
      [] at # None /\ Shape[p] = "map" -> v[at]
      [] at # None /\ Shape[p] = "list" -> v[Position(v, at)]

Test == [prop : Prop, at : Key \cup Int \cup {None},
         want : {"equal", "exists", "absent"}, val : Val \cup {None}]

\* Whether v, at position "at" of a column of prop p, is as wanted.
Satisfies(p, at, want, val, v) ==
    CASE want = "exists" -> Present(p, at, v)
      [] want = "absent" -> ~Present(p, at, v)
      [] want = "equal"  -> Present(p, at, v) /\ Read(p, at, v) = val

Holds(t, r) == Satisfies(t.prop, Subscript(t.prop, t.at), t.want, t.val, r[t.prop])

\* The WHERE clause: every test, against the row as it stands.
Matches(ts, r) == \A t \in ts : Holds(t, r)

\* One edit.  At a position that is not there the interpreter removes the last
\* element instead (agree_test.go:158), and cannot set, which leaves the list as
\* it was; only an edit no guard protects gets there.
ExecJSON(p, o, v) ==
    CASE o.kind = "clear"  -> Empty(p)
      [] o.kind = "append" -> Append(v, o.val)
      [] o.kind = "set" ->
            IF IsMap(p) THEN [v EXCEPT ![o.at] = o.val]
            ELSE IF InRange(v, o.at) THEN ReplaceAt(v, Position(v, o.at), o.val)
            ELSE v
      [] o.kind = "remove" ->
            IF IsMap(p) THEN [v EXCEPT ![o.at] = None]
            ELSE IF InRange(v, o.at) THEN RemoveAt(v, Position(v, o.at))
            ELSE IF v = <<>> THEN v ELSE Front(v)

\* What operation w leaves in a column of prop p that held v.
Exec(p, w, v) ==
    CASE w.kind \in {"set", "setEdge"}     -> w.val
      [] w.kind \in {"clear", "clearEdge"} -> None
      [] w.kind = "edit" -> FoldLeft(LAMBDA x, o : ExecJSON(p, [o EXCEPT !.at = Subscript(p, @)], x), v, w.ops)
=============================================================================
