------------------------------ MODULE MCSchema ------------------------------
(* Two files, the second imports the first: a message of its own in f1, two  *)
(* in f2.  The schemas of entities have edges between the three, to          *)
(* themselves and in cycles, with and without back references, and an entity *)
(* that may lack its key.  The schemas of options have an entity in f1 with  *)
(* every combination of the options of a field or of indexes, and in f2      *)
(* messages that are no entities.  The schemas of rpcs have them in an       *)
(* entity of f2, a file that fails once it is built and leaves its options   *)
(* to the parse of f1, whose edge builds it again.                           *)
EXTENDS SchemaClaims

CONSTANTS f1, f2, A, B, C

MCMessagesOf == (f1 :> <<A>>) @@ (f2 :> <<B, C>>)

Bare == [number |-> 1, decl |-> "field", disabled |-> FALSE, type |-> "other", message |-> None,
         repeated |-> FALSE, presence |-> TRUE, optional |-> FALSE,
         key |-> FALSE, version |-> FALSE, erased |-> FALSE,
         unique |-> "unset", nullable |-> "unset", immutable |-> "unset", from |-> None]
Id == [Bare EXCEPT !.key = TRUE]
Back(n) == [number |-> n, name |-> n]
EdgeTo(n, m, card, back) ==
    [Bare EXCEPT !.number = n, !.decl = "edge", !.message = m, !.from = back,
                 !.repeated = card = "many", !.unique = IF card = "unique" THEN "yes" ELSE "unset"]

NoRpc == [off |-> FALSE, crud |-> FALSE, op |-> [x \in Op |-> "absent"], many |-> FALSE]
Described(fs) == [entity |-> TRUE, fields |-> fs, indexes |-> <<>>, rpc |-> NoRpc]
NoEntity == [entity |-> FALSE, fields |-> <<>>, indexes |-> <<>>, rpc |-> NoRpc]

\* A schema of entities: the edges of A and B, B's second edge, and C's first field and edge.
Firsts == {<<>>} \cup {A, B, C} \X {"one", "many", "unique"} \X {None, Back(2)}
Entities == {<<>>, <<A, "one", None>>} \X Firsts \X {"none", "one", "many"} \X {Id, Bare} \X Firsts

First(e) == IF e = <<>> THEN <<>> ELSE <<EdgeTo(2, e[1], e[2], e[3])>>
Second(card) == IF card = "none" THEN <<>> ELSE <<EdgeTo(3, C, card, Back(2))>>

\* A schema of options: the fields of A and its indexes.
Optioned == {[Bare EXCEPT !.number = 2, !.type = t, !.key = k, !.version = v, !.erased = e,
                          !.unique = u, !.nullable = n, !.immutable = i] :
    t \in {"time", "other", "message"}, k \in BOOLEAN, v \in BOOLEAN, e \in BOOLEAN,
    u \in {"unset", "yes"}, n \in Choice, i \in {"unset", "yes"}}
Timed == {[Bare EXCEPT !.number = 2, !.type = "time", !.version = v, !.erased = ~v,
                       !.optional = o, !.presence = p, !.repeated = r] :
    v \in BOOLEAN, o \in BOOLEAN, p \in BOOLEAN, r \in BOOLEAN}
Otherwise ==
    {[Bare EXCEPT !.number = 2, !.decl = "none", !.message = m] : m \in {None, A, B}} \cup
    {[Bare EXCEPT !.number = 2, !.decl = "both", !.disabled = off] : off \in BOOLEAN} \cup
    {[Bare EXCEPT !.number = 2, !.decl = "edge", !.message = m, !.disabled = off, !.from = b] :
        m \in {None, A, B}, off \in BOOLEAN, b \in {None, Back(1), Back(2), [number |-> 2, name |-> 1]}}

Indexes == {[refs |-> r, unique |-> u, includesErased |-> x] :
    r \in {<<>>, <<Back(2)>>, <<Back(1), Back(2)>>, <<[number |-> 2, name |-> 1]>>, <<Back(3)>>},
    u \in BOOLEAN, x \in BOOLEAN}
Stamp == [Bare EXCEPT !.number = 2, !.type = "time", !.erased = TRUE]
Lock == [Bare EXCEPT !.number = 3, !.type = "time", !.version = TRUE]

RpcChoices == {[off |-> o, crud |-> c, many |-> m,
               op |-> [x \in Op |-> IF x = "add" THEN a ELSE IF x = "patch" THEN p ELSE "absent"]] :
    o \in BOOLEAN, c \in BOOLEAN, m \in BOOLEAN,
    a \in {"absent", "given", "disabled"}, p \in {"absent", "given", "disabled"}}
MCRpcs == {r \in RpcChoices : r.many => r.op["add"] # "absent"}

Options ==
    {<<Id, s>> : s \in Optioned \cup Timed \cup Otherwise} \X {<<>>} \cup
    {<<[Id EXCEPT !.unique = u, !.nullable = n, !.key = k]>> : u \in Choice, n \in Choice, k \in BOOLEAN}
        \X {<<>>} \cup
    {<<[s EXCEPT !.number = 1]>> : s \in Optioned} \X {<<>>} \cup
    {<<Id, Lock, [s EXCEPT !.number = 2]>> : s \in {Stamp, Lock}} \X {<<>>} \cup
    {<<Id, s>> : s \in {Stamp, [Bare EXCEPT !.number = 2]}} \X {<<x>> : x \in Indexes}

MCSchema == {"entities"} \X Entities \cup {"options"} \X Options \cup {"rpcs"} \X MCRpcs

MCDesc == [s \in MCSchema |->
    LET x == s[2]
    IN  CASE s[1] = "entities" ->
                (A :> Described(<<Id>> \o First(x[1]))) @@
                (B :> Described(<<Id>> \o First(x[2]) \o Second(x[3]))) @@
                (C :> Described(<<x[4]>> \o First(x[5])))
          [] s[1] = "options" ->
                (A :> [Described(x[1]) EXCEPT !.indexes = x[2]]) @@ (B :> NoEntity) @@ (C :> NoEntity)
          [] s[1] = "rpcs" ->
                (A :> Described(<<Id>> \o First(<<B, "one", None>>))) @@
                (B :> [Described(<<Id>>) EXCEPT !.rpc = x]) @@
                (C :> Described(<<Bare>>))]
=============================================================================
