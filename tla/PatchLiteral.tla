----------------------------- MODULE PatchLiteral -----------------------------
(***************************************************************************)
(* What ormpatch makes of a literal of a document: materialize, its        *)
(* fillMessage, fillList and fillMap, and checkOrmValue of the value they  *)
(* build.  They recurse, so a stack holds the messages and collections     *)
(* being filled; the literal is chosen as it is read.                      *)
(*                                                                         *)
(* A value is the set of places in it: each is the fields, keys and        *)
(* indices that lead to it, and what is there.  A message field holds a    *)
(* message of one type, whose fields are Field.                            *)
(***************************************************************************)
EXTENDS FieldTypes, FiniteSets, Sequences, SequencesExt

CONSTANTS
    None,
    Field,
    Shape,      \* [Field -> FieldShape]
    Oneof,      \* [Field -> the oneof it is a member of, or None]
    Synthetic,  \* the oneofs protoc made for an optional field
    MapKey,
    Unknown,    \* a field, or a map key, the descriptor does not have
    Props,      \* the columns explored: a subset of Declared
    MaxItems    \* bound: fields, elements and entries a literal sets

ASSUME LiteralAssumption ==
    /\ Shape \in [Field -> FieldShape] /\ DOMAIN Oneof = Field
    /\ None \notin Field \cup MapKey \cup Nat \cup Synthetic
    /\ Field \cap MapKey = {} /\ (Field \cup MapKey) \cap Nat = {}
    /\ Unknown \notin MapKey \cup Field \X {"name", "number"}
    /\ Props \subseteq {d \in Declared : d.type # "message"}
    /\ \A f, g \in Field : Oneof[f] \in Synthetic /\ Oneof[f] = Oneof[g] => f = g
    /\ \A f \in Field : Oneof[f] # None => Shape[f].card = "one"
    /\ MaxItems \in Nat

VARIABLES
    prop,       \* the column the literal is for
    site,       \* the part of it the literal lands on
    frames,     \* the messages and collections being filled
    made,       \* the value so far
    said,       \* auxiliary: the items of the literal, in order
    verdict     \* "filling", "made", "stored", or why it is refused

vars == <<prop, site, frames, made, said, verdict>>

----------------------------------------------------------------------------
\* The library: literals, their arms, and the fields and keys they name.

Scalar == {"sixteen", "scalar"}     \* of an arm the kind takes; sixteen bytes, if they are bytes
Nested == {"message", "list", "map"}
Arm == Scalar \cup Nested \cup {"foreign"}      \* foreign: an arm no kind of the model takes

Site == {"field", "element", "mapValue"}

\* A field is named by its name or its number, and either may be one the message does not declare.
Name == (Field \X {"name", "number"}) \cup {Unknown}
ResolveField(n) == IF n = Unknown THEN None ELSE n[1]
MapKeyFor(k) == IF k = Unknown THEN None ELSE k

\* CheckArm, and the arms Scalar takes.
Fits(arm, f, s) ==
    IF s = "field" /\ f.card # "one" THEN arm = f.card
    ELSE IF f.kind \in {"message", "group"} THEN arm = "message"
    ELSE arm \in Scalar

ArmError(arm, f, s) == IF Fits(arm, f, s) THEN "ok" ELSE "IllegalArm"

----------------------------------------------------------------------------
\* The value.

Key == Field \cup MapKey \cup 1..MaxItems
Place == [at : Seq(Key), is : Scalar \cup Nested]

Under(made_, at) == {p \in made_ : IsPrefix(at, p.at)}

\* Set, of a message or a map: what was there is gone, and a oneof has one member.
Put(at, is) ==
    LET k == Last(at)
        siblings == {f \in Field \ {k} : k \in Field /\ Oneof[k] # None /\ Oneof[f] = Oneof[k]}
        gone == Under(made, at) \cup UNION {Under(made, Append(Front(at), f)) : f \in siblings}
    IN  (made \ gone) \cup {[at |-> at, is |-> is]}

\* A message, or a collection, that is being filled, and what it has so far.
Frame == [form : Nested, at : Seq(Key), field : FieldShape, seen : SUBSET Key, oneofs : SUBSET Range(Oneof)]
Filling(form, at, f) == [form |-> form, at |-> at, field |-> f, seen |-> {}, oneofs |-> {}]
Top == Last(frames)

\* An item of the literal: the place it is for, whether that exists, and the arm it gives.
Item == [at : Seq(Key), named : BOOLEAN, arm : Arm, field : FieldShape, site : Site]

Refusal == {"VacantTarget", "DuplicateTarget", "IllegalArm", "IllegalKey"}
Verdict == {"begin", "filling", "made", "stored", "InvalidValue"} \cup Refusal

Init ==
    /\ prop \in Props
    /\ site \in {s \in Site : /\ s = "element" => prop.shape.card = "list"
                              /\ s = "mapValue" => prop.shape.card = "map"}
    /\ frames = <<>> /\ made = {} /\ said = <<>> /\ verdict = "begin"

----------------------------------------------------------------------------
\* The errors, in the order the code meets them.

\* Mutants: a field is known by what the literal calls it; the oneof is not asked.
FieldErrorByName(n, arm) ==
    LET f == ResolveField(n)
    IN  IF f = None THEN "VacantTarget"
        ELSE IF f \in Top.seen /\ n[2] = "name" THEN "DuplicateTarget"
        ELSE ArmError(arm, Shape[f], "field")
FieldErrorOneof(n, arm) ==
    LET f == ResolveField(n)
    IN  IF f = None THEN "VacantTarget"
        ELSE IF f \in Top.seen THEN "DuplicateTarget"
        ELSE ArmError(arm, Shape[f], "field")

\* fillMessage.
FieldError(n, arm) ==
    LET f == ResolveField(n)
    IN  IF f = None THEN "VacantTarget"
        ELSE IF f \in Top.seen \/ Oneof[f] \in Top.oneofs THEN "DuplicateTarget"
        ELSE ArmError(arm, Shape[f], "field")

\* fillMap.
EntryError(k, arm) ==
    IF MapKeyFor(k) = None THEN "IllegalKey"
    ELSE IF MapKeyFor(k) \in Top.seen THEN "DuplicateTarget"
    ELSE ArmError(arm, Top.field, "mapValue")

\* Mutant: only a column of bytes is checked, and not a collection of them.
CheckOrmValueColumn ==
    TypeOf(prop) = "uuid" /\ prop.shape.kind = "bytes" =>
        \A p \in made : p.at = <<>> /\ p.is \in Scalar => p.is = "sixteen"

\* checkOrmValue: the value, the elements of a list and the values of a map, where they are bytes.
CheckOrmValue ==
    TypeOf(prop) = "uuid" /\ prop.shape.kind = "bytes" =>
        \A p \in made : Len(p.at) <= 1 /\ p.is \in Scalar => p.is = "sixteen"

----------------------------------------------------------------------------
\* materialize of one literal, for the place to of the top frame, unless there is an error.

Pushed(fs, at, f, arm) == IF arm \in Nested THEN Append(fs, Filling(arm, at, f)) ELSE fs

Materialize(error, to, f, s, arm) ==
    LET at == Append(Top.at, to)
        real == {Oneof[x] : x \in {to} \cap Field} \ (Synthetic \cup {None})
        top == [Top EXCEPT !.seen = @ \cup {to}, !.oneofs = @ \cup real]
    IN  /\ Len(said) < MaxItems
        /\ said' = Append(said, [at |-> IF to = None THEN Top.at ELSE at, named |-> to # None,
                                 arm |-> arm, field |-> f, site |-> s])
        /\ IF error = "ok"
           THEN /\ made' = Put(at, arm)
                /\ frames' = Pushed(Front(frames) \o <<top>>, at, f, arm)
                /\ UNCHANGED verdict
           ELSE verdict' = error /\ made' = {} /\ frames' = <<>>     \* every caller returns the error
        /\ UNCHANGED <<prop, site>>

Begin(arm) ==
    /\ verdict = "begin"
    /\ said' = <<[at |-> <<>>, named |-> TRUE, arm |-> arm, field |-> prop.shape, site |-> site]>>
    /\ IF Fits(arm, prop.shape, site)
       THEN /\ made' = {[at |-> <<>>, is |-> arm]}
            /\ frames' = Pushed(<<>>, <<>>, prop.shape, arm)
            /\ verdict' = IF arm \in Nested THEN "filling" ELSE "made"
       ELSE verdict' = "IllegalArm" /\ made' = {} /\ frames' = <<>>
    /\ UNCHANGED <<prop, site>>

FillField(n, arm) ==
    /\ verdict = "filling" /\ Top.form = "message"
    /\ LET f == ResolveField(n)
       IN  Materialize(FieldError(n, arm), f, IF f = None THEN Top.field ELSE Shape[f], "field", arm)

FillElement(arm) ==
    /\ verdict = "filling" /\ Top.form = "list"
    /\ Materialize(ArmError(arm, Top.field, "element"), Cardinality(Top.seen) + 1, Top.field, "element", arm)

FillEntry(k, arm) ==
    /\ verdict = "filling" /\ Top.form = "map"
    /\ Materialize(EntryError(k, arm), MapKeyFor(k), Top.field, "mapValue", arm)

\* Mutant: the first message that ends is the value.
CloseFirst ==
    /\ verdict = "filling"
    /\ frames' = Front(frames) /\ verdict' = "made"
    /\ UNCHANGED <<prop, site, made, said>>

\* The literal has no more items for what is being filled.
Close ==
    /\ verdict = "filling"
    /\ frames' = Front(frames)
    /\ verdict' = IF Len(frames) = 1 THEN "made" ELSE verdict
    /\ UNCHANGED <<prop, site, made, said>>

\* checkOp, of the write the value is for.
Store ==
    /\ verdict = "made"
    /\ verdict' = IF CheckOrmValue THEN "stored" ELSE "InvalidValue"
    /\ UNCHANGED <<prop, site, frames, made, said>>

Next ==
    \/ \E arm \in Arm :
          \/ Begin(arm) \/ FillElement(arm)
          \/ \E n \in Name : FillField(n, arm)
          \/ \E k \in MapKey \cup {Unknown} : FillEntry(k, arm)
    \/ Close \/ Store

Spec == Init /\ [][Next]_vars

----------------------------------------------------------------------------
\* Properties.

\* Every variable has its type.
LiteralTypeOK ==
    /\ prop \in Props /\ site \in Site /\ verdict \in Verdict
    /\ frames \in Seq(Frame) /\ \A p \in made : p \in Place
    /\ said \in Seq(Item)
    /\ verdict = "filling" <=> frames # <<>>

\* Two items of one message that name members of one oneof.
Rivals(a, b) ==
    LET x == Last(a) y == Last(b)
    IN  /\ a # <<>> /\ b # <<>> /\ Front(a) = Front(b)
        /\ {x, y} \subseteq Field /\ Oneof[x] # None /\ Oneof[x] = Oneof[y]

\* A literal is legal when every item names something the schema has, gives it an arm it takes, and
\* no two of them are for one place or for one oneof.
Legal ==
    /\ \A i \in DOMAIN said : said[i].named /\ Fits(said[i].arm, said[i].field, said[i].site)
    /\ \A i, j \in DOMAIN said : i < j => said[i].at # said[j].at /\ ~Rivals(said[i].at, said[j].at)

\* A literal is refused exactly when it is not legal, however deep the item is that makes it so and
\* whatever it calls the field (materialize, fillMessage, fillList, fillMap).
RefusedExactly == verdict \in Refusal <=> ~Legal

\* All of a literal or none of it: a value holds every item of the literal so far, at its place, and
\* nothing else, so that no item replaces another and no member of a oneof unsets one the literal
\* set as well; and of a literal that is refused, at whatever item, materialize returns nothing.
NothingLost ==
    made = IF verdict \in Refusal THEN {} ELSE {[at |-> said[i].at, is |-> said[i].arm] : i \in DOMAIN said}

UuidsFit ==
    verdict \in {"stored", "InvalidValue"} =>
        (verdict = "InvalidValue" <=>
            /\ GoElem(prop.shape, TypeOf(prop)) = "uuid.UUID"
            /\ \E p \in made : p.is = "scalar")

TypesAgree ==
    prop.type = "unspecified" /\ prop.shape.kind # "group" =>
        Decay(TypeOf(prop)) =
            IF prop.shape.card = "map" THEN "message" ELSE GoStorage(GoElem(prop.shape, TypeOf(prop)))

\* The value and the type it is generated for fit.  Bytes are turned away exactly when the generated
\* Go code has a uuid.UUID for some of them that are not sixteen, in a column, in a list and in the
\* values of a map: a declared type that does not suit the kind misleads neither checkOrmValue nor
\* gogen.GoType.  And a type that is deduced decays to the storage of its Go type; a group has none.
ValueFits == UuidsFit /\ TypesAgree
=============================================================================
