-------------------------- MODULE PatchRequestProofs --------------------------
(***************************************************************************)
(* The properties of PatchRequest, for every entity, request and row.      *)
(***************************************************************************)
EXTENDS PatchRequest, PatchPlanProofs, FiniteSetTheorems

------------------------------------------------------------------------------
(* What a client may fill in.                                              *)

First(X) == CHOOSE n \in X : TRUE

\* The function of sets of fields that Requests is folded by, for the sets of D.
Fills(g, m, D) ==
    g = [X \in D |-> IF X = {} THEN {<<>>} ELSE Filled(m, First(X), g[X \ {First(X)}])]

Upto(S, i) == {X \in SUBSET S : Cardinality(X) <= i}

\* Sets no larger than i + 1 are no larger than i, or one element more than such a set.
LEMMA UptoNext ==
    ASSUME NEW S, IsFiniteSet(S), NEW i \in Nat, NEW X \in Upto(S, i + 1), X # {}, NEW n \in X
    PROVE  X \ {n} \in Upto(S, i) /\ Cardinality(X) \in Nat
<1>1. IsFiniteSet(X)
  BY FS_Subset DEF Upto
<1>2. Cardinality(X \ {n}) = Cardinality(X) - 1 /\ Cardinality(X) \in Nat
  BY <1>1, FS_RemoveElement, FS_CardinalityType
<1> QED BY <1>2 DEF Upto

LEMMA UptoNone == ASSUME NEW S, IsFiniteSet(S) PROVE Upto(S, 0) = {{}}
<1>1. ASSUME NEW X \in SUBSET S PROVE Cardinality(X) <= 0 <=> X = {}
  BY FS_Subset, FS_CardinalityType, FS_EmptySet
<1> QED BY <1>1 DEF Upto

LEMMA UptoAll == ASSUME NEW S, IsFiniteSet(S) PROVE Upto(S, Cardinality(S)) = SUBSET S
<1>1. \A X \in SUBSET S : Cardinality(X) <= Cardinality(S)
  BY FS_Subset
<1> QED BY <1>1 DEF Upto

\* There is one, whatever element is taken first.
LEMMA FillsExist == ASSUME NEW m, NEW S, IsFiniteSet(S) PROVE \E g : Fills(g, m, SUBSET S)
<1> DEFINE T == {i \in Nat : \E g : Fills(g, m, Upto(S, i))}
<1>1. 0 \in T
  <2> DEFINE g == [X \in {{}} |-> {<<>>}]
  <2>1. Fills(g, m, {{}})
    BY DEF Fills
  <2> HIDE DEF g
  <2> QED BY <2>1, UptoNone
<1>2. ASSUME NEW k \in Nat, NEW i \in 0..(k - 1), i \in T PROVE i + 1 \in T
  <2>1. PICK g : Fills(g, m, Upto(S, i))
    BY <1>2
  <2>i. i \in Nat
    OBVIOUS
  <2> DEFINE h == [X \in Upto(S, i + 1) |->
                      IF X \in Upto(S, i) THEN g[X] ELSE Filled(m, First(X), g[X \ {First(X)}])]
  <2>2. ASSUME NEW X \in Upto(S, i + 1)
        PROVE  h[X] = IF X = {} THEN {<<>>} ELSE Filled(m, First(X), h[X \ {First(X)}])
    <3>1. CASE X = {}
      <4>1. {} \in Upto(S, i)
        BY FS_EmptySet DEF Upto
      <4>2. g[{}] = {<<>>}
        BY <2>1, <4>1 DEF Fills
      <4> QED BY <3>1, <4>1, <4>2
    <3>2. CASE X # {}
      <4>1. First(X) \in X
        BY <3>2 DEF First
      <4>2. X \ {First(X)} \in Upto(S, i) /\ X \ {First(X)} \in Upto(S, i + 1)
        <5>1. X \ {First(X)} \in Upto(S, i)
          BY <2>i, <3>2, <4>1, UptoNext
        <5>2. Cardinality(X \ {First(X)}) \in Nat
          BY <5>1, FS_Subset, FS_CardinalityType DEF Upto
        <5> QED BY <5>1, <5>2 DEF Upto
      <4>3. h[X \ {First(X)}] = g[X \ {First(X)}]
        BY <4>2
      <4>4. CASE X \in Upto(S, i)
        <5>1. g[X] = Filled(m, First(X), g[X \ {First(X)}])
          BY <2>1, <3>2, <4>4 DEF Fills
        <5> QED BY <3>2, <4>3, <4>4, <5>1
      <4>5. CASE X \notin Upto(S, i)
        BY <3>2, <4>3, <4>5
      <4> QED BY <4>4, <4>5
    <3> QED BY <3>1, <3>2
  <2>3. Fills(h, m, Upto(S, i + 1))
    BY <2>2 DEF Fills
  <2> HIDE DEF h
  <2> QED BY <2>3
<1> HIDE DEF T
<1>3. Cardinality(S) \in Nat
  BY FS_CardinalityType
<1>4. 0..Cardinality(S) \subseteq T
  BY <1>1, <1>2, <1>3, Counting
<1>5. Cardinality(S) \in T
  BY <1>3, <1>4
<1>6. \E g : Fills(g, m, Upto(S, Cardinality(S)))
  BY <1>5 DEF T
<1> QED BY <1>6, UptoAll

\* Requests with the fields X, each filled as it may be.
Fitting(m, R, X) == \A q \in R : DOMAIN q = X /\ \A n \in X : q[n] \in Carried(m[n])

LEMMA NoneFitting == ASSUME NEW m PROVE Fitting(m, {<<>>}, {})
<1>1. DOMAIN <<>> = {}
  OBVIOUS
<1> QED BY <1>1 DEF Fitting

LEMMA FilledFitting ==
    ASSUME NEW m, NEW X, NEW a \in X, NEW R, Fitting(m, R, X \ {a})
    PROVE  Fitting(m, Filled(m, a, R), X)
<1>1. ASSUME NEW w \in Filled(m, a, R) PROVE DOMAIN w = X /\ \A n \in X : w[n] \in Carried(m[n])
  <2>1. PICK q \in R, c \in Carried(m[a]) : w = [i \in DOMAIN q \cup {a} |-> IF i = a THEN c ELSE q[i]]
    BY DEF Filled
  <2>2. DOMAIN q = X \ {a} /\ \A n \in X \ {a} : q[n] \in Carried(m[n])
    BY DEF Fitting
  <2> QED BY <2>1, <2>2
<1> QED BY <1>1 DEF Fitting

\* A request has the fields of its message, and in each what a client may put there.
LEMMA RequestsTyped ==
    ASSUME NEW m, IsFiniteSet(DOMAIN m), NEW r \in Requests(m)
    PROVE  DOMAIN r = DOMAIN m /\ \A n \in DOMAIN m : r[n] \in Carried(m[n])
<1> DEFINE S == DOMAIN m
           g == CHOOSE h : Fills(h, m, SUBSET S)
           T == {i \in Nat : \A X \in Upto(S, i) : Fitting(m, g[X], X)}
<1>1. Requests(m) = g[S]
  BY DEF Requests, FoldSet, MapThenFoldSet, Fills, First
<1>2. Fills(g, m, SUBSET S)
  BY FillsExist
<1> HIDE DEF g
<1>3. 0 \in T
  <2>1. g[{}] = {<<>>}
    BY <1>2 DEF Fills
  <2> QED BY <2>1, UptoNone, NoneFitting
<1>4. ASSUME NEW k \in Nat, NEW i \in 0..(k - 1), i \in T PROVE i + 1 \in T
  <2>i. i \in Nat
    OBVIOUS
  <2>1. ASSUME NEW X \in Upto(S, i + 1), X # {} PROVE Fitting(m, g[X], X)
    <3> DEFINE a == First(X)
    <3>1. a \in X
      BY <2>1 DEF First
    <3>2. g[X] = Filled(m, a, g[X \ {a}])
      BY <1>2, <2>1 DEF Fills, Upto
    <3> HIDE DEF a
    <3>3. X \ {a} \in Upto(S, i)
      BY <2>i, <2>1, <3>1, UptoNext
    <3>4. Fitting(m, g[X \ {a}], X \ {a})
      BY <1>4, <3>3
    <3> QED BY <3>1, <3>2, <3>4, FilledFitting
  <2>2. Fitting(m, g[{}], {})
    BY <1>3, UptoNone
  <2>3. \A X \in Upto(S, i + 1) : Fitting(m, g[X], X)
    BY <2>1, <2>2
  <2> QED BY <2>i, <2>3
<1> HIDE DEF T
<1>5. Cardinality(S) \in Nat
  BY FS_CardinalityType
<1>6. Cardinality(S) \in T
  <2>1. 0..Cardinality(S) \subseteq T
    BY <1>3, <1>4, <1>5, Counting
  <2> QED BY <1>5, <2>1
<1>7. \A X \in Upto(S, Cardinality(S)) : Fitting(m, g[X], X)
  BY <1>6 DEF T
<1>8. Fitting(m, g[S], S)
  BY <1>7, UptoAll
<1> QED BY <1>1, <1>8 DEF Fitting

------------------------------------------------------------------------------
(* The document.                                                           *)

\* The props that have been converted.
Passed == {Declared[i] : i \in 1..(conv - 1)}

\* The request makes an entry of a prop: a test of the version, a write of any other.
Entered(p) == PatchProp(p) /\ IF p \in Version THEN ~Flag(p) ELSE RequestHas(p) \/ Flag(p)

\* That entry.
EntryOf(p) ==
    IF p \in Version THEN EntryFor("equal", <<>>, p, req[ValueAt(p)])
    ELSE IF Flag(p) THEN EntryFor("remove", <<>>, p, None)
    ELSE IF p \in Edge THEN EntryFor("assign", <<p>>, TargetKey[p], keys[p])
    ELSE EntryFor("assign", <<>>, p, req[ValueAt(p)])

\* What it carries is what its column takes.
Apt(p) ==
    IF p \in Version THEN RequestHas(p) /\ req[ValueAt(p)] \in FieldLiteral(p)
    ELSE IF Flag(p) THEN p \in Nullable
    ELSE IF p \in Edge THEN ~IsList(p) /\ keys[p] \in Val
    ELSE req[ValueAt(p)] \in FieldLiteral(p)

Entries == {EntryOf(p) : p \in {q \in Passed : Entered(q)}}

Converts == answer \in {"converting", "nothing", "document"}

RequestHeld ==
    /\ msg \in Message /\ resolves \in BOOLEAN
    /\ DOMAIN req = DOMAIN msg /\ \A n \in DOMAIN msg : req[n] \in Carried(msg[n])
    /\ conv \in 1..Len(Declared) + 1
    /\ keys \in [Edge -> Val \cup {None}]
    /\ answer \in {"converting", "nothing", "document", "layout", "version not given", "version write",
                   "repeated edge", "no resolver", "not resolved", "IllegalArm"}

\* The document has one entry for each prop behind the conversion that the request makes one of.
DocumentHeld ==
    /\ Converts =>
        /\ doc \in Seq(Entries)
        /\ \A p \in Passed : PatchProp(p) => Found(p)
        /\ \A p \in Passed : Entered(p) => Apt(p) /\ \E k \in DOMAIN doc : doc[k] = EntryOf(p)
        /\ \A j, k \in DOMAIN doc : ColumnOf(doc[j]) = ColumnOf(doc[k]) => j = k
    /\ ~Converts => doc = <<>>
    /\ answer \in {"nothing", "document"} =>
            conv = Len(Declared) + 1 /\ (answer = "nothing" <=> doc = <<>>)

Conversion == RequestHeld /\ DocumentHeld

------------------------------------------------------------------------------
(* The plan.                                                               *)

\* How many entries have been taken into the plan.
Taken == IF entry # None /\ entry.seen # {} THEN sent + 1 ELSE sent

Compiling == verdict \in {"compiling", "compiled"}

\* The plan is that of the entries taken.
PlanHeld ==
    Compiling =>
        /\ base = None /\ depth = 0 /\ Taken <= Len(doc)
        /\ entry # None =>
                /\ sent < Len(doc) /\ entry.op = doc[sent + 1].op /\ entry.lit = doc[sent + 1].lit
                /\ entry.skip = FALSE /\ entry.site = Walk(None, doc[sent + 1].path)
        /\ tests = {TestOn(doc[k].of, None, "equal", doc[k].lit) : k \in {j \in 1..Taken : doc[j].op = "equal"}}
        /\ \A k \in 1..Taken : doc[k].op # "equal" => planned[ColumnOf(doc[k])] = doc[k].lit
        /\ \A p \in Prop : \/ planned[p] = row[p]
                           \/ \E k \in 1..Taken : doc[k].op # "equal" /\ ColumnOf(doc[k]) = p
        /\ verdict = "compiled" => entry = None /\ sent = Len(doc)

SendingHeld ==
    /\ sent \in 0..Len(doc)
    /\ answer # "document" => verdict = "compiling" /\ entry = None /\ sent = 0
    /\ PlanHeld
    /\ RequestCompiles

RequestInv == Conversion /\ SendingHeld

------------------------------------------------------------------------------
(* The conversion keeps Conversion.                                        *)

LEMMA CompanionIs ==
    ASSUME NEW p
    PROVE  /\ Companion(p) = "force" <=> p \in Version
           /\ Companion(p) = "null" <=> p \notin Version /\ p \in Nullable
           /\ Companion(p) \in {"force", "null", "none"}
  BY DEF Companion, PatchFlagOf

LEMMA EntryColumn == ASSUME NEW p PROVE ColumnOf(EntryOf(p)) = p /\ ColumnOf(EntryOf(p)') = p
  BY DEF ColumnOf, EntryOf, EntryFor

\* The version's entry is the one test of the document.
LEMMA EntryTests == ASSUME NEW p PROVE EntryOf(p).op = "equal" <=> p \in Version
  BY DEF EntryOf, EntryFor

\* The field of a prop carries what a client may put there.
LEMMA ValueCarried ==
    ASSUME RequestHeld, NEW p \in Prop, Found(p)
    PROVE  req[ValueAt(p)] \in Carried([prop |-> p, kind |-> "value"])
<1>1. msg \in Message /\ ValueAt(p) \in DOMAIN msg /\ req[ValueAt(p)] \in Carried(msg[ValueAt(p)])
  BY DEF RequestHeld, Found
<1>2. msg[ValueAt(p)] = [prop |-> p, kind |-> "value"]
  BY <1>1, RequestAssumption DEF ValueAt
<1> QED BY <1>1, <1>2

\* A value that is there and is legal is one the column takes.
LEMMA ValueApt ==
    ASSUME RequestHeld, NEW p \in Prop, p \notin Edge, Found(p), RequestHas(p),
           req[ValueAt(p)] # Illegal
    PROVE  req[ValueAt(p)] \in FieldLiteral(p)
<1> DEFINE v == req[ValueAt(p)]
<1>1. v \in Carried([prop |-> p, kind |-> "value"])
  BY ValueCarried
<1>2. Shape[p] \in {"scalar", "map", "list"}
  BY SchemaAssumption
<1>3. CASE Shape[p] = "scalar"
  <2>1. v \in Val \cup {None, Illegal} /\ v # None
    BY <1>1, <1>3 DEF Carried, IsMap, IsList, IsCollection, RequestHas
  <2> QED BY <1>3, <2>1 DEF FieldLiteral
<1>4. CASE Shape[p] = "map"
  <2>1. v \in MapLiteral
    BY <1>1, <1>4 DEF Carried, IsMap, IsList
  <2> QED BY <1>4, <2>1 DEF FieldLiteral
<1>5. CASE Shape[p] = "list"
  <2>1. v \in ListLiteral
    BY <1>1, <1>5 DEF Carried, IsMap, IsList
  <2> QED BY <1>5, <2>1 DEF FieldLiteral
<1> QED BY <1>2, <1>3, <1>4, <1>5

\* The prop being converted has not been converted.
LEMMA Current ==
    ASSUME RequestHeld, Converting
    PROVE  /\ P \in Prop /\ P \notin Passed /\ conv \in 1..Len(Declared)
           /\ Passed \subseteq Prop
           /\ conv' = conv + 1 => Passed' = Passed \cup {P}
<1>1. conv \in 1..Len(Declared) /\ Declared \in Seq(Prop) /\ Len(Declared) \in Nat
  BY RequestAssumption DEF RequestHeld, Converting
<1>2. P \in Prop /\ Passed \subseteq Prop
  BY <1>1 DEF P, Passed
<1>3. P \notin Passed
  <2>1. ASSUME NEW i \in 1..(conv - 1) PROVE Declared[i] # Declared[conv]
    <3>1. i \in DOMAIN Declared /\ conv \in DOMAIN Declared /\ i # conv
      BY <1>1
    <3> QED BY <3>1, RequestAssumption
  <2> QED BY <2>1 DEF P, Passed
<1>4. ASSUME conv' = conv + 1 PROVE Passed' = Passed \cup {P}
  <2>1. 1..(conv' - 1) = 1..(conv - 1) \cup {conv}
    BY <1>1, <1>4
  <2>2. Passed' = {Declared[i] : i \in 1..(conv' - 1)}
    BY DEF Passed
  <2> QED BY <2>1, <2>2 DEF Passed, P
<1> QED BY <1>1, <1>2, <1>3, <1>4

\* What is made of a prop depends on the request, and of an edge on what was resolved.
LEMMA Kept ==
    ASSUME UNCHANGED request, NEW q, q \in Edge => keys'[q] = keys[q]
    PROVE  /\ Found(q)' <=> Found(q)
           /\ Entered(q)' <=> Entered(q)
           /\ EntryOf(q)' = EntryOf(q)
           /\ Apt(q)' <=> Apt(q)
<1>1. /\ Found(q)' <=> Found(q)
      /\ Flag(q)' <=> Flag(q)
      /\ RequestHas(q)' <=> RequestHas(q)
      /\ req' = req
  BY DEF request, Found, Flag, RequestHas
<1>2. Entered(q)' <=> Entered(q)
  BY <1>1 DEF Entered
<1>3. EntryOf(q)' = EntryOf(q)
  BY <1>1 DEF EntryOf
<1>4. Apt(q)' <=> Apt(q)
  BY <1>1 DEF Apt
<1> QED BY <1>1, <1>2, <1>3, <1>4

\* The props behind the conversion keep their entries.
LEMMA Behind ==
    ASSUME RequestHeld, Converting, UNCHANGED request, \A q \in Edge \ {P} : keys'[q] = keys[q]
    PROVE  /\ \A q \in Passed : /\ Found(q)' <=> Found(q)
                                /\ Entered(q)' <=> Entered(q)
                                /\ EntryOf(q)' = EntryOf(q)
                                /\ Apt(q)' <=> Apt(q)
           /\ conv' = conv + 1 => Entries \subseteq Entries'
<1>1. ASSUME NEW q \in Passed
      PROVE  /\ Found(q)' <=> Found(q)
             /\ Entered(q)' <=> Entered(q)
             /\ EntryOf(q)' = EntryOf(q)
             /\ Apt(q)' <=> Apt(q)
  <2>1. q \in Edge => keys'[q] = keys[q]
    BY Current
  <2> QED BY <2>1, Kept
<1>2. ASSUME conv' = conv + 1, NEW e \in Entries PROVE e \in Entries'
  <2>1. PICK q \in Passed : Entered(q) /\ e = EntryOf(q)
    BY DEF Entries
  <2>2. q \in Passed' /\ Entered(q)' /\ e = EntryOf(q)'
    BY <1>1, <1>2, <2>1, Current
  <2> QED BY <2>2 DEF Entries
<1> QED BY <1>1, <1>2

\* A prop that is passed over makes no entry.
LEMMA ProceedNone ==
    ASSUME Conversion, Converting, ~Entered(P), PatchProp(P) => Found(P),
           Proceed(<<>>), keys' = keys
    PROVE  Conversion'
<1>c. PICK p : p = P
  OBVIOUS
<1>1. /\ p \in Prop /\ p \notin Passed /\ conv \in 1..Len(Declared)
      /\ Passed' = Passed \cup {p}
  BY <1>c, Current DEF Conversion, Proceed
<1>2. /\ answer = "converting" /\ answer' = "converting" /\ conv' = conv + 1 /\ Len(Declared) \in Nat
      /\ UNCHANGED request /\ msg' = msg /\ req' = req /\ resolves' = resolves
  BY RequestAssumption DEF Converting, Proceed, request
<1>3. doc \in Seq(Entries) /\ doc' = doc
  BY <1>2 DEF Conversion, DocumentHeld, Converts, Proceed
<1>4. /\ \A q \in Passed : /\ Found(q)' <=> Found(q)
                           /\ Entered(q)' <=> Entered(q)
                           /\ EntryOf(q)' = EntryOf(q)
                           /\ Apt(q)' <=> Apt(q)
      /\ Entries \subseteq Entries'
  BY <1>2, Behind DEF Conversion
<1>5. (Found(p)' <=> Found(p)) /\ (Entered(p)' <=> Entered(p))
  BY <1>2, Kept
<1>6. RequestHeld'
  BY <1>1, <1>2 DEF Conversion, RequestHeld
<1>7. doc' \in Seq(Entries')
  BY <1>3, <1>4
<1>8. \A q \in Passed' : PatchProp(q) => Found(q)'
  BY <1>c, <1>1, <1>2, <1>4, <1>5 DEF Conversion, DocumentHeld, Converts
<1>9. \A q \in Passed' : Entered(q)' => Apt(q)' /\ \E k \in DOMAIN doc' : doc'[k] = EntryOf(q)'
  BY <1>c, <1>1, <1>2, <1>3, <1>4, <1>5 DEF Conversion, DocumentHeld, Converts
<1>10. \A j, k \in DOMAIN doc' : ColumnOf(doc'[j]) = ColumnOf(doc'[k]) => j = k
  BY <1>2, <1>3 DEF Conversion, DocumentHeld, Converts
<1>11. DocumentHeld'
  BY <1>2, <1>7, <1>8, <1>9, <1>10 DEF DocumentHeld, Converts
<1> QED BY <1>6, <1>11 DEF Conversion

\* A prop the request makes an entry of: e is that entry, of no column the document has.
LEMMA ProceedOne ==
    ASSUME Conversion, Converting, Entered(P), Found(P), NEW p, p = P, NEW e, Proceed(<<e>>),
           keys' \in [Edge -> Val \cup {None}], \A q \in Edge \ {P} : keys'[q] = keys[q],
           e = EntryOf(p)', Apt(p)'
    PROVE  Conversion'
<1>1. /\ p \in Prop /\ p \notin Passed /\ conv \in 1..Len(Declared)
      /\ Passed' = Passed \cup {p}
  BY Current DEF Conversion, Proceed
<1>2. /\ answer = "converting" /\ answer' = "converting" /\ conv' = conv + 1 /\ Len(Declared) \in Nat
      /\ UNCHANGED request /\ msg' = msg /\ req' = req /\ resolves' = resolves
  BY RequestAssumption DEF Converting, Proceed, request
<1>3. doc \in Seq(Entries) /\ doc' = doc \o <<e>>
  BY <1>2 DEF Conversion, DocumentHeld, Converts, Proceed
<1>4. /\ \A q \in Passed : /\ Found(q)' <=> Found(q)
                           /\ Entered(q)' <=> Entered(q)
                           /\ EntryOf(q)' = EntryOf(q)
                           /\ Apt(q)' <=> Apt(q)
      /\ Entries \subseteq Entries'
  BY <1>2, Behind DEF Conversion
<1>5. Found(p)' /\ Entered(p)'
  <2>1. (Found(p)' <=> Found(p)) /\ (Entered(p)' <=> Entered(p))
    BY <1>2 DEF request, Found, Entered, Flag, RequestHas
  <2> QED BY <2>1
<1>6. RequestHeld'
  BY <1>1, <1>2 DEF Conversion, RequestHeld
<1>7. e \in Entries'
  BY <1>1, <1>5 DEF Entries
<1>8. /\ doc' \in Seq(Entries') /\ Len(doc) \in Nat /\ Len(doc') = Len(doc) + 1
      /\ \A k \in 1..Len(doc) : doc'[k] = doc[k]
      /\ doc'[Len(doc) + 1] = e
  BY <1>3, <1>4, <1>7
<1>9. \A q \in Passed' : PatchProp(q) => Found(q)'
  BY <1>1, <1>2, <1>4, <1>5 DEF Conversion, DocumentHeld, Converts
<1>10. ASSUME NEW q \in Passed', Entered(q)'
       PROVE  Apt(q)' /\ \E k \in DOMAIN doc' : doc'[k] = EntryOf(q)'
  <2>1. CASE q = p
    BY <2>1, <1>8
  <2>2. CASE q # p
    <3>1. q \in Passed /\ Entered(q)
      BY <1>1, <1>4, <1>10, <2>2
    <3>2. Apt(q) /\ \E k \in DOMAIN doc : doc[k] = EntryOf(q)
      BY <1>2, <3>1 DEF Conversion, DocumentHeld, Converts
    <3>3. PICK k \in 1..Len(doc) : doc[k] = EntryOf(q)
      BY <1>3, <3>2
    <3>4. k \in DOMAIN doc' /\ doc'[k] = EntryOf(q)'
      BY <1>4, <1>8, <3>1, <3>3
    <3> QED BY <1>4, <3>1, <3>2, <3>4
  <2> QED BY <2>1, <2>2
<1>11. ASSUME NEW k \in 1..Len(doc) PROVE ColumnOf(doc'[k]) # p
  <2>1. doc[k] \in Entries
    BY <1>3, <1>11
  <2>2. PICK q \in Passed : doc[k] = EntryOf(q)
    BY <2>1 DEF Entries
  <2> QED BY <1>1, <1>8, <2>2, EntryColumn
<1>12. ASSUME NEW j \in DOMAIN doc', NEW k \in DOMAIN doc', ColumnOf(doc'[j]) = ColumnOf(doc'[k])
       PROVE  j = k
  <2>1. ColumnOf(e) = p
    BY EntryColumn
  <2>2. j \in 1..(Len(doc) + 1) /\ k \in 1..(Len(doc) + 1)
    BY <1>8, <1>12
  <2>3. CASE j = Len(doc) + 1 \/ k = Len(doc) + 1
    BY <1>8, <1>11, <1>12, <2>1, <2>2, <2>3
  <2>4. CASE j # Len(doc) + 1 /\ k # Len(doc) + 1
    <3>1. j \in 1..Len(doc) /\ k \in 1..Len(doc)
      BY <1>8, <2>2, <2>4
    <3>2. ColumnOf(doc[j]) = ColumnOf(doc[k]) /\ j \in DOMAIN doc /\ k \in DOMAIN doc
      BY <1>3, <1>8, <1>12, <3>1
    <3> QED BY <1>2, <3>2 DEF Conversion, DocumentHeld, Converts
  <2> QED BY <2>3, <2>4
<1>13. DocumentHeld'
  BY <1>2, <1>8, <1>9, <1>10, <1>12 DEF DocumentHeld, Converts
<1> QED BY <1>6, <1>13 DEF Conversion

\* A request that is refused has no document.
LEMMA Failed ==
    ASSUME Conversion, Converting, NEW why, Fail(why),
           why \in {"layout", "version not given", "version write", "repeated edge", "no resolver",
                    "not resolved", "IllegalArm"}
    PROVE  Conversion'
<1>1. RequestHeld'
  BY DEF Conversion, RequestHeld, Fail, request
<1>2. DocumentHeld'
  BY DEF Conversion, DocumentHeld, Fail, Converts
<1> QED BY <1>1, <1>2 DEF Conversion

\* The converter's errors.
LEMMA RefusalKeeps ==
    ASSUME Conversion,
           Misplaced \/ VersionNotGiven \/ VersionWrite \/ RepeatedEdge \/ NoResolver \/ Unresolved
                \/ IllegalValue
    PROVE  Conversion'
<1>1. CASE Misplaced
  BY <1>1, Failed DEF Misplaced
<1>2. CASE VersionNotGiven
  BY <1>2, Failed DEF VersionNotGiven, Asking
<1>3. CASE VersionWrite
  BY <1>3, Failed DEF VersionWrite, Asking
<1>4. CASE RepeatedEdge
  BY <1>4, Failed DEF RepeatedEdge, Assigning, Asking
<1>5. CASE NoResolver
  BY <1>5, Failed DEF NoResolver, Assigning, Asking
<1>6. CASE Unresolved
  BY <1>6, Failed DEF Unresolved, Assigning, Asking
<1>7. CASE IllegalValue
  BY <1>7, Failed DEF IllegalValue, Asking
<1> QED BY <1>1, <1>2, <1>3, <1>4, <1>5, <1>6, <1>7

\* The props no entry is made of.
LEMMA PassingKeeps ==
    ASSUME Conversion, Omit \/ VersionForced \/ Unasked
    PROVE  Conversion'
<1>1. CASE Omit
  <2>1. ~PatchProp(P) /\ ~Entered(P) /\ Converting /\ Proceed(<<>>) /\ keys' = keys
    BY <1>1 DEF Omit, Entered
  <2> QED BY <2>1, ProceedNone
<1>2. CASE VersionForced
  <2>1. Companion(P) = "force" /\ Flag(P) /\ Converting /\ Found(P) /\ Proceed(<<>>) /\ keys' = keys
    BY <1>2 DEF VersionForced, Asking
  <2>2. ~Entered(P)
    BY <2>1, CompanionIs DEF Entered
  <2> QED BY <2>1, <2>2, ProceedNone
<1>3. CASE Unasked
  <2>1. /\ Companion(P) # "force" /\ ~Flag(P) /\ ~RequestHas(P)
        /\ Converting /\ Found(P) /\ Proceed(<<>>) /\ keys' = keys
    BY <1>3 DEF Unasked, Asking
  <2>2. ~Entered(P)
    BY <2>1, CompanionIs DEF Entered
  <2> QED BY <2>1, <2>2, ProceedNone
<1> QED BY <1>1, <1>2, <1>3

\* What the step has not resolved is as it was.
LEMMA EntryMade ==
    ASSUME UNCHANGED request, NEW q
    PROVE  /\ EntryOf(q)' = IF q \in Version THEN EntryFor("equal", <<>>, q, req[ValueAt(q)])
                            ELSE IF Flag(q) THEN EntryFor("remove", <<>>, q, None)
                            ELSE IF q \in Edge THEN EntryFor("assign", <<q>>, TargetKey[q], keys'[q])
                            ELSE EntryFor("assign", <<>>, q, req[ValueAt(q)])
           /\ Apt(q)' <=> IF q \in Version THEN RequestHas(q) /\ req[ValueAt(q)] \in FieldLiteral(q)
                          ELSE IF Flag(q) THEN q \in Nullable
                          ELSE IF q \in Edge THEN ~IsList(q) /\ keys'[q] \in Val
                          ELSE req[ValueAt(q)] \in FieldLiteral(q)
<1>1. req' = req /\ (Flag(q)' <=> Flag(q)) /\ (RequestHas(q)' <=> RequestHas(q))
  BY DEF request, Flag, RequestHas
<1>2. EntryOf(q)' = IF q \in Version THEN EntryFor("equal", <<>>, q, req[ValueAt(q)])
                    ELSE IF Flag(q) THEN EntryFor("remove", <<>>, q, None)
                    ELSE IF q \in Edge THEN EntryFor("assign", <<q>>, TargetKey[q], keys'[q])
                    ELSE EntryFor("assign", <<>>, q, req[ValueAt(q)])
  BY <1>1 DEF EntryOf
<1>3. Apt(q)' <=> IF q \in Version THEN RequestHas(q) /\ req[ValueAt(q)] \in FieldLiteral(q)
                  ELSE IF Flag(q) THEN q \in Nullable
                  ELSE IF q \in Edge THEN ~IsList(q) /\ keys'[q] \in Val
                  ELSE req[ValueAt(q)] \in FieldLiteral(q)
  BY <1>1 DEF Apt
<1> QED BY <1>2, <1>3

LEMMA VersionTestKeeps == ASSUME Conversion, VersionTest PROVE Conversion'
<1>c. PICK p : p = P
  OBVIOUS
<1> DEFINE e == EntryFor("equal", <<>>, p, req[ValueAt(p)])
<1>1. /\ Converting /\ PatchProp(p) /\ Found(p) /\ Companion(p) = "force" /\ ~Flag(p) /\ RequestHas(p)
      /\ req[ValueAt(p)] # Illegal /\ Proceed(<<e>>) /\ keys' = keys
  BY <1>c DEF VersionTest, Asking
<1>2. p \in Prop /\ p \in Version /\ p \notin Edge /\ UNCHANGED request
  BY <1>c, <1>1, Current, CompanionIs, CompilerAssumption DEF Conversion, Proceed
<1>3. req[ValueAt(p)] \in FieldLiteral(p)
  BY <1>1, <1>2, ValueApt DEF Conversion
<1>4. Entered(p) /\ e = EntryOf(p)' /\ Apt(p)'
  BY <1>1, <1>2, <1>3, EntryMade DEF Entered
<1> HIDE DEF e
<1> QED BY <1>c, <1>1, <1>4, ProceedOne DEF Conversion, RequestHeld

LEMMA NullKeeps == ASSUME Conversion, Null PROVE Conversion'
<1>c. PICK p : p = P
  OBVIOUS
<1> DEFINE e == EntryFor("remove", <<>>, p, None)
<1>1. /\ Converting /\ PatchProp(p) /\ Found(p) /\ Companion(p) = "null" /\ Flag(p)
      /\ Proceed(<<e>>) /\ keys' = keys
  BY <1>c DEF Null, Asking
<1>2. p \notin Version /\ p \in Nullable /\ UNCHANGED request
  BY <1>1, CompanionIs DEF Proceed
<1>3. Entered(p) /\ e = EntryOf(p)' /\ Apt(p)'
  BY <1>1, <1>2, EntryMade DEF Entered
<1> HIDE DEF e
<1> QED BY <1>c, <1>1, <1>3, ProceedOne DEF Conversion, RequestHeld

LEMMA ResolvedKeeps == ASSUME Conversion, Resolved PROVE Conversion'
<1>c. PICK p : p = P
  OBVIOUS
<1>k. PICK k \in Val : /\ keys' = [keys EXCEPT ![p] = k]
                       /\ Proceed(<<EntryFor("assign", <<p>>, TargetKey[p], k)>>)
  BY <1>c DEF Resolved
<1> DEFINE e == EntryFor("assign", <<p>>, TargetKey[p], k)
<1>1. /\ Converting /\ PatchProp(p) /\ Found(p) /\ Companion(p) # "force" /\ ~Flag(p) /\ RequestHas(p)
      /\ p \in Edge /\ ~IsList(p)
  BY <1>c DEF Resolved, Assigning, Asking
<1>2. /\ keys \in [Edge -> Val \cup {None}] /\ p \notin Version /\ UNCHANGED request
      /\ Proceed(<<e>>)
  BY <1>k, <1>1, CompanionIs DEF Conversion, RequestHeld, Proceed
<1>3. /\ keys' \in [Edge -> Val \cup {None}] /\ keys'[p] = k
      /\ \A q \in Edge \ {p} : keys'[q] = keys[q]
  BY <1>k, <1>1, <1>2
<1>4. Entered(p) /\ e = EntryOf(p)' /\ Apt(p)'
  BY <1>1, <1>2, <1>3, EntryMade DEF Entered
<1> HIDE DEF e
<1> QED BY <1>c, <1>1, <1>2, <1>3, <1>4, ProceedOne

LEMMA AssignFieldKeeps == ASSUME Conversion, AssignField PROVE Conversion'
<1>c. PICK p : p = P
  OBVIOUS
<1> DEFINE e == EntryFor("assign", <<>>, p, req[ValueAt(p)])
<1>1. /\ Converting /\ PatchProp(p) /\ Found(p) /\ Companion(p) # "force" /\ ~Flag(p) /\ RequestHas(p)
      /\ p \notin Edge /\ req[ValueAt(p)] # Illegal /\ Proceed(<<e>>) /\ keys' = keys
  BY <1>c DEF AssignField, Assigning, Asking
<1>2. p \in Prop /\ p \notin Version /\ UNCHANGED request
  BY <1>c, <1>1, Current, CompanionIs DEF Conversion, Proceed
<1>3. req[ValueAt(p)] \in FieldLiteral(p)
  BY <1>1, <1>2, ValueApt DEF Conversion
<1>4. Entered(p) /\ e = EntryOf(p)' /\ Apt(p)'
  BY <1>1, <1>2, <1>3, EntryMade DEF Entered
<1> HIDE DEF e
<1> QED BY <1>c, <1>1, <1>4, ProceedOne DEF Conversion, RequestHeld

\* The converter is past the last prop.
LEMMA AnswerKeeps == ASSUME Conversion, Answer PROVE Conversion'
<1>1. /\ answer = "converting" /\ conv > Len(Declared)
      /\ answer' = IF doc = <<>> THEN "nothing" ELSE "document"
      /\ UNCHANGED <<request, conv, doc, keys>>
  BY DEF Answer
<1>2. Len(Declared) \in Nat /\ conv \in 1..Len(Declared) + 1
  <2>1. Declared \in Seq(Prop)
    BY RequestAssumption
  <2>2. Len(Declared) \in Nat
    BY <2>1
  <2>3. conv \in 1..Len(Declared) + 1
    BY DEF Conversion, RequestHeld
  <2> QED BY <2>2, <2>3
<1>3. RequestHeld'
  BY <1>1 DEF Conversion, RequestHeld, request
<1>4. /\ Entries' = Entries /\ Passed' = Passed
      /\ \A q : /\ Found(q)' <=> Found(q)
                /\ Entered(q)' <=> Entered(q)
                /\ EntryOf(q)' = EntryOf(q)
                /\ Apt(q)' <=> Apt(q)
  <2>1. \A q : /\ Found(q)' <=> Found(q)
               /\ Entered(q)' <=> Entered(q)
               /\ EntryOf(q)' = EntryOf(q)
               /\ Apt(q)' <=> Apt(q)
    BY <1>1, Kept
  <2>2. Passed' = Passed
    BY <1>1 DEF Passed
  <2> QED BY <2>1, <2>2 DEF Entries
<1>5. DocumentHeld'
  BY <1>1, <1>2, <1>4 DEF Conversion, DocumentHeld, Converts
<1> QED BY <1>3, <1>5 DEF Conversion

\* Nothing else touches the conversion.
LEMMA ConversionStutters ==
    ASSUME Conversion, UNCHANGED <<request, conversion>> PROVE Conversion'
<1>1. RequestHeld'
  BY DEF Conversion, RequestHeld, request, conversion
<1>2. /\ Entries' = Entries /\ Passed' = Passed
      /\ \A q : /\ Found(q)' <=> Found(q)
                /\ Entered(q)' <=> Entered(q)
                /\ EntryOf(q)' = EntryOf(q)
                /\ Apt(q)' <=> Apt(q)
  <2>1. \A q : /\ Found(q)' <=> Found(q)
               /\ Entered(q)' <=> Entered(q)
               /\ EntryOf(q)' = EntryOf(q)
               /\ Apt(q)' <=> Apt(q)
    BY Kept DEF conversion
  <2>2. Passed' = Passed
    BY DEF Passed, conversion
  <2> QED BY <2>1, <2>2 DEF Entries
<1>3. DocumentHeld'
  BY <1>2 DEF Conversion, DocumentHeld, Converts, conversion
<1> QED BY <1>1, <1>3 DEF Conversion

LEMMA ConvertKeeps == ASSUME Conversion, Convert PROVE Conversion'
  BY RefusalKeeps, PassingKeeps, VersionTestKeeps, NullKeeps, ResolvedKeeps, AssignFieldKeeps,
     AnswerKeeps DEF Convert

LEMMA ConversionNext == ASSUME Conversion, [RequestNext]_reqVars PROVE Conversion'
<1>1. CASE Convert
  BY <1>1, ConvertKeeps
<1>2. CASE Open \/ Take \/ Close \/ Compiled \/ UNCHANGED reqVars
  <2>1. UNCHANGED <<request, conversion>>
    BY <1>2 DEF Open, Take, Close, Compiled, Sending, reqVars
  <2> QED BY <2>1, ConversionStutters
<1> QED BY <1>1, <1>2 DEF RequestNext

\* A request starts as its message allows, with nothing converted.
LEMMA ConversionInit == ASSUME RequestInit PROVE Conversion
<1>1. /\ msg \in Message /\ req \in Requests(msg) /\ resolves \in BOOLEAN
      /\ conv = 1 /\ doc = <<>> /\ keys = [p \in Edge |-> None] /\ answer = "converting"
  BY DEF RequestInit
<1>2. IsFiniteSet(DOMAIN msg) /\ Len(Declared) \in Nat
  BY <1>1, RequestAssumption
<1>3. DOMAIN req = DOMAIN msg /\ \A n \in DOMAIN msg : req[n] \in Carried(msg[n])
  BY <1>1, <1>2, RequestsTyped
<1>4. RequestHeld
  BY <1>1, <1>2, <1>3 DEF RequestHeld
<1>5. Passed = {}
  BY <1>1 DEF Passed
<1>6. DocumentHeld
  BY <1>1, <1>5 DEF DocumentHeld, Converts
<1> QED BY <1>4, <1>6 DEF Conversion

\* The document is the request's: an entry for each prop converted that the request makes one of,
\* carrying what its column takes, and no two of a column (FromPatchRequest).
THEOREM DocumentOfRequest == RequestSpec => []Conversion
<1>1. RequestInit => Conversion
  BY ConversionInit
<1>2. Conversion /\ [RequestNext]_reqVars => Conversion'
  BY ConversionNext
<1> QED BY <1>1, <1>2, PTL DEF RequestSpec

------------------------------------------------------------------------------
(* The document is one the compiler's specification takes.                 *)

\* Every entry is that of a prop it fits.
LEMMA DocEntry ==
    ASSUME Conversion, NEW k \in DOMAIN doc
    PROVE  \E p \in Prop : p \in Passed /\ Entered(p) /\ Found(p) /\ Apt(p) /\ doc[k] = EntryOf(p)
<1>1. Converts
  <2>1. CASE ~Converts
    BY <2>1 DEF Conversion, DocumentHeld
  <2> QED BY <2>1
<1>2. doc[k] \in Entries
  BY <1>1 DEF Conversion, DocumentHeld
<1>3. PICK p \in Passed : Entered(p) /\ doc[k] = EntryOf(p)
  BY <1>2 DEF Entries
<1>4. Apt(p) /\ Found(p)
  BY <1>1, <1>3 DEF Conversion, DocumentHeld, Entered
<1>5. p \in Prop
  <2>1. Declared \in Seq(Prop) /\ conv \in 1..Len(Declared) + 1
    BY RequestAssumption DEF Conversion, RequestHeld
  <2> QED BY <1>3, <2>1 DEF Passed
<1> QED BY <1>3, <1>4, <1>5

LEMMA DocTyped ==
    ASSUME Conversion, NEW k \in DOMAIN doc
    PROVE  /\ doc[k].path \in Path /\ doc[k].op \in {"equal", "assign", "remove"}
           /\ doc[k].of \in Field
<1>1. PICK p \in Prop : doc[k] = EntryOf(p)
  BY DocEntry
<1>2. p \in Field /\ (p \in Edge => TargetKey[p] \in Field)
  BY CompilerAssumption
<1>3. <<>> \in Path /\ <<p>> \in Path
  BY <1>2 DEF Path, Segment
<1> QED BY <1>1, <1>2, <1>3 DEF EntryOf, EntryFor

LEMMA DocSeq == ASSUME Conversion PROVE doc \in Seq(Entries) /\ Len(doc) \in Nat
<1>1. CASE Converts
  BY <1>1 DEF Conversion, DocumentHeld
<1>2. CASE ~Converts
  BY <1>2 DEF Conversion, DocumentHeld
<1> QED BY <1>1, <1>2

Progress == Conversion /\ sent \in Nat

LEMMA ProgressInit == ASSUME RequestInit PROVE Progress
  BY ConversionInit DEF RequestInit, Progress

LEMMA ProgressNext == ASSUME Progress, [RequestNext]_reqVars PROVE Progress'
<1>1. Conversion'
  BY ConversionNext DEF Progress
<1>2. UNCHANGED sent \/ sent' = sent + 1
  BY DEF RequestNext, reqVars, Convert, Omit, Misplaced, VersionNotGiven, VersionWrite, VersionTest,
         VersionForced, Null, Unasked, RepeatedEdge, NoResolver, Unresolved, Resolved, IllegalValue,
         AssignField, Answer, Proceed, Fail, Open, Take, Close, Compiled
<1> QED BY <1>1, <1>2 DEF Progress

\* A step of the conversion is none of the compiler's, and each step of the compilation is one of
\* those it may take.
LEMMA RunStep == ASSUME Progress, [RequestNext]_reqVars PROVE [Next]_vars
<1>1. CASE Convert \/ UNCHANGED reqVars
  BY <1>1 DEF reqVars, Convert, Omit, Misplaced, VersionNotGiven, VersionWrite, VersionTest,
              VersionForced, Null, Unasked, RepeatedEdge, NoResolver, Unresolved, Resolved,
              IllegalValue, AssignField, Answer, Proceed, Fail
<1>2. ASSUME Open \/ Take
      PROVE  sent + 1 \in DOMAIN doc
  <2>1. sent \in Nat /\ Len(doc) \in Nat /\ sent < Len(doc) /\ doc \in Seq(Entries)
    BY <1>2, DocSeq DEF Progress, Open, Take
  <2> QED BY <2>1
<1>3. CASE Open
  <2> DEFINE e == doc[sent + 1]
  <2>1. e.path \in Path /\ e.op \in EntryOp
    BY <1>2, <1>3, DocTyped DEF Progress, EntryOp, TestOp
  <2>2. OpenTargets(e.path, e.op, FALSE, FALSE, e.lit)
    BY <1>3 DEF Open
  <2> HIDE DEF e
  <2>3. e.lit \in Literal
    BY <2>2 DEF OpenTargets, LiteralOf, Literal
  <2> QED BY <2>1, <2>2, <2>3 DEF Next
<1>4. CASE Take
  <2> DEFINE sel == [arm |-> "field", of |-> doc[sent + 1].of]
  <2>1. sel \in Selector
    BY <1>2, <1>4, DocTyped DEF Progress, Selector
  <2>2. Target(sel)
    BY <1>4 DEF Take
  <2> HIDE DEF sel
  <2> QED BY <2>1, <2>2 DEF Next
<1>5. CASE Close
  BY <1>5 DEF Close, Next
<1>6. CASE Compiled
  BY <1>6 DEF Compiled, Next
<1> QED BY <1>1, <1>3, <1>4, <1>5, <1>6 DEF RequestNext

\* Compiling the document of a request is one of the compilations PatchCompile specifies, so
\* whatever is proved of a document holds of it (Compile, of what FromPatchRequest answers).
THEOREM RequestRunsCompiler == RequestSpec => Spec
<1>1. RequestInit => Init /\ Progress
  BY ProgressInit DEF RequestInit
<1>2. Progress /\ [RequestNext]_reqVars => Progress'
  BY ProgressNext
<1>3. Progress /\ [RequestNext]_reqVars => [Next]_vars
  BY RunStep
<1> QED BY <1>1, <1>2, <1>3, PTL DEF RequestSpec, Spec

------------------------------------------------------------------------------
(* One entry of the document is taken into the plan.                       *)

\* It is refused, for one of the reasons RequestCompiles leaves.
Refused(p, lit) ==
    \E err : /\ Refuse(err)
             /\ \/ err = "invalid" /\ ~Storable(p, lit)
                \/ err = "unsupported" /\ p \in Version /\ IsCollection(p)

\* Or the plan has it.
Passes ==
    /\ \E id \in Location : entry' = [entry EXCEPT !.seen = @ \cup {id}]
    /\ UNCHANGED <<delta, verdict, row>>

Tested(p, lit) == Passes /\ tests' = tests \cup {TestOn(p, None, "equal", lit)} /\ planned' = planned
Stored(p, lit) == Passes /\ tests' = tests /\ planned' = [planned EXCEPT ![p] = lit]

LEMMA TakeTest ==
    ASSUME NEW p \in Prop, p \in Version, p \notin wrote \/ IsCollection(p),
           entry.op = "equal", entry.site = None, entry.seen = {}, entry.lit \in FieldLiteral(p),
           Target([arm |-> "field", of |-> p])
    PROVE  Refused(p, entry.lit) \/ Tested(p, entry.lit)
<1> DEFINE sel == [arm |-> "field", of |-> p]
<1>1. sel.arm = "field" /\ sel.of = p
  OBVIOUS
<1>2. /\ \/ Refuse(TargetError(entry, sel))
         \/ /\ TargetError(entry, sel) = "ok"
            /\ entry' = [entry EXCEPT !.seen = @ \cup {Ident(entry.site, sel)}]
            /\ UNCHANGED <<delta, verdict, row>>
            /\ \/ SiteKind(entry.site) = "root" /\ AtColumn(entry, p)
               \/ SiteKind(entry.site) = "edge" /\ AtEdge(entry)
               \/ SiteKind(entry.site) = "map" /\ AtMapEntry(entry, sel)
               \/ SiteKind(entry.site) = "list" /\ AtListElem(entry, sel)
  BY DEF Target
<1>s. Ident(entry.site, sel) \in Location
  <2>1. sel \in Selector
    BY CompilerAssumption DEF Selector
  <2> QED BY <2>1, IdentTyped
<1> HIDE DEF sel
<1>3. p \notin Undeclared /\ SiteKind(entry.site) = "root" /\ "equal" \in TestOp
  BY CompilerAssumption DEF SiteKind, TestOp
<1>4. TargetError(entry, sel) = TestError(p, None, "equal", entry.lit)
  BY <1>1, <1>3 DEF TargetError, ColumnError
<1>5. CASE Refuse(TestError(p, None, "equal", entry.lit))
  <2>1. CASE IsCollection(p)
    <3>1. TestError(p, None, "equal", entry.lit) = "unsupported"
      BY <2>1 DEF TestError
    <3> QED BY <1>5, <2>1, <3>1 DEF Refused
  <2>2. CASE ~IsCollection(p)
    <3>1. entry.lit \in Val /\ p \notin Json /\ Shape[p] = "scalar"
      BY <2>2, SchemaAssumption, RequestAssumption DEF FieldLiteral, IsCollection
    <3>2. TestError(p, None, "equal", entry.lit) = IF p \in Uuid /\ entry.lit \in Short THEN "invalid" ELSE "ok"
      BY <2>2, <3>1 DEF TestError, Then, LiteralError
    <3>3. TestError(p, None, "equal", entry.lit) # "ok"
      BY <1>5 DEF Refuse
    <3>4. ~Storable(p, entry.lit)
      BY <3>1, <3>2, <3>3, SchemaAssumption DEF Storable, ValuesIn
    <3> QED BY <1>5, <3>2, <3>3, <3>4 DEF Refused
  <2> QED BY <2>1, <2>2
<1>6. CASE ~Refuse(TestError(p, None, "equal", entry.lit))
  <2>1. AtColumn(entry, p) /\ Passes
    BY <1>2, <1>3, <1>s, <1>4, <1>6 DEF Passes
  <2>2. RecordTest(p, None, "equal", entry.lit, TRUE)
    BY <1>3, <2>1 DEF AtColumn
  <2> QED BY <2>1, <2>2 DEF Tested, RecordTest
<1> QED BY <1>5, <1>6

LEMMA TakeRemove ==
    ASSUME NEW p \in Prop, p \notin Version, p \notin Immutable, p \in Nullable,
           entry.op = "remove", entry.site = None, entry.seen = {}, entry.lit = None,
           Target([arm |-> "field", of |-> p])
    PROVE  Stored(p, entry.lit)
<1> DEFINE sel == [arm |-> "field", of |-> p]
<1>1. sel.arm = "field" /\ sel.of = p
  OBVIOUS
<1>2. /\ \/ Refuse(TargetError(entry, sel))
         \/ /\ TargetError(entry, sel) = "ok"
            /\ entry' = [entry EXCEPT !.seen = @ \cup {Ident(entry.site, sel)}]
            /\ UNCHANGED <<delta, verdict, row>>
            /\ \/ SiteKind(entry.site) = "root" /\ AtColumn(entry, p)
               \/ SiteKind(entry.site) = "edge" /\ AtEdge(entry)
               \/ SiteKind(entry.site) = "map" /\ AtMapEntry(entry, sel)
               \/ SiteKind(entry.site) = "list" /\ AtListElem(entry, sel)
  BY DEF Target
<1>s. Ident(entry.site, sel) \in Location
  <2>1. sel \in Selector
    BY CompilerAssumption DEF Selector
  <2> QED BY <2>1, IdentTyped
<1> HIDE DEF sel
<1>3. /\ p \notin Undeclared /\ SiteKind(entry.site) = "root" /\ "remove" \notin TestOp
      /\ Shape[p] = "scalar" /\ ~IsCollection(p)
  BY CompilerAssumption DEF SiteKind, TestOp, IsCollection
<1>4. ColumnOp(entry, p) \in {ClearEdge, ClearColumn}
  BY <1>3 DEF ColumnOp
<1>5. WriteError(p, ColumnOp(entry, p)) = "ok"
  BY <1>4 DEF WriteError, OpStorable, ClearEdge, ClearColumn
<1>6. ColumnOpError(entry, p) = "ok" /\ MutableError(p) = "ok"
  BY <1>3, <1>5 DEF ColumnOpError, MutableError
<1>7. TargetError(entry, sel) = "ok"
  BY <1>1, <1>3, <1>6 DEF TargetError, ColumnError, Then
<1>8. AtColumn(entry, p) /\ Passes
  BY <1>2, <1>3, <1>s, <1>7 DEF Passes, Refuse
<1>9. Write(p, ColumnOp(entry, p), Empty(p)) /\ tests' = tests
  BY <1>3, <1>8 DEF AtColumn
<1>10. Empty(p) = None
  BY <1>3 DEF Empty
<1> QED BY <1>8, <1>9, <1>10 DEF Stored, Write

LEMMA TakeEdge ==
    ASSUME NEW p \in Prop, p \notin Version, p \notin Immutable, p \in Edge, ~IsList(p),
           entry.op = "assign", entry.site = p, entry.seen = {}, entry.lit \in Val,
           Target([arm |-> "field", of |-> TargetKey[p]])
    PROVE  Refused(p, entry.lit) \/ Stored(p, entry.lit)
<1> DEFINE sel == [arm |-> "field", of |-> TargetKey[p]]
<1>1. sel.arm = "field" /\ sel.of = TargetKey[p]
  OBVIOUS
<1>2. /\ \/ Refuse(TargetError(entry, sel))
         \/ /\ TargetError(entry, sel) = "ok"
            /\ entry' = [entry EXCEPT !.seen = @ \cup {Ident(entry.site, sel)}]
            /\ UNCHANGED <<delta, verdict, row>>
            /\ \/ SiteKind(entry.site) = "root" /\ AtColumn(entry, sel.of)
               \/ SiteKind(entry.site) = "edge" /\ AtEdge(entry)
               \/ SiteKind(entry.site) = "map" /\ AtMapEntry(entry, sel)
               \/ SiteKind(entry.site) = "list" /\ AtListElem(entry, sel)
  BY DEF Target
<1>s. Ident(entry.site, sel) \in Location
  <2>1. sel \in Selector
    BY CompilerAssumption DEF Selector
  <2> QED BY <2>1, IdentTyped
<1> HIDE DEF sel
<1>3. /\ SiteKind(entry.site) = "edge" /\ "assign" \notin TestOp /\ TargetKey[p] \in TargetField[p]
  <2>1. p # None /\ ~IsMap(p)
    BY CompilerAssumption, SchemaAssumption DEF IsMap
  <2>2. TargetKey[p] \in TargetField[p]
    BY RequestAssumption
  <2> QED BY <2>1, <2>2 DEF SiteKind, TestOp
<1>4. TargetError(entry, sel) = WriteError(p, SetEdge(entry.lit))
  BY <1>1, <1>3 DEF TargetError, EdgeError, Then, MutableError, LiteralError
<1>5. WriteError(p, SetEdge(entry.lit)) = IF Storable(p, entry.lit) THEN "ok" ELSE "invalid"
  BY DEF WriteError, OpStorable, SetEdge
<1>6. CASE Refuse(TargetError(entry, sel))
  <2>1. TargetError(entry, sel) = "invalid" /\ ~Storable(p, entry.lit)
    BY <1>4, <1>5, <1>6 DEF Refuse
  <2> QED BY <1>6, <2>1 DEF Refused
<1>7. CASE ~Refuse(TargetError(entry, sel))
  <2>1. AtEdge(entry) /\ Passes
    BY <1>2, <1>3, <1>s, <1>7 DEF Passes
  <2>2. Write(p, SetEdge(entry.lit), entry.lit) /\ tests' = tests
    BY <1>3, <2>1 DEF AtEdge
  <2> QED BY <2>1, <2>2 DEF Stored, Write
<1> QED BY <1>6, <1>7

LEMMA TakeField ==
    ASSUME NEW p \in Prop, p \notin Version, p \notin Immutable, p \notin Edge,
           entry.op = "assign", entry.site = None, entry.seen = {}, entry.lit \in FieldLiteral(p),
           Target([arm |-> "field", of |-> p])
    PROVE  Refused(p, entry.lit) \/ Stored(p, entry.lit)
<1> DEFINE sel == [arm |-> "field", of |-> p]
<1>1. sel.arm = "field" /\ sel.of = p
  OBVIOUS
<1>2. /\ \/ Refuse(TargetError(entry, sel))
         \/ /\ TargetError(entry, sel) = "ok"
            /\ entry' = [entry EXCEPT !.seen = @ \cup {Ident(entry.site, sel)}]
            /\ UNCHANGED <<delta, verdict, row>>
            /\ \/ SiteKind(entry.site) = "root" /\ AtColumn(entry, p)
               \/ SiteKind(entry.site) = "edge" /\ AtEdge(entry)
               \/ SiteKind(entry.site) = "map" /\ AtMapEntry(entry, sel)
               \/ SiteKind(entry.site) = "list" /\ AtListElem(entry, sel)
  BY DEF Target
<1>s. Ident(entry.site, sel) \in Location
  <2>1. sel \in Selector
    BY CompilerAssumption DEF Selector
  <2> QED BY <2>1, IdentTyped
<1> HIDE DEF sel
<1>3. p \notin Undeclared /\ SiteKind(entry.site) = "root" /\ "assign" \notin TestOp
  BY CompilerAssumption DEF SiteKind, TestOp
<1>4. ColumnOp(entry, p) = SetColumn(entry.lit)
  BY DEF ColumnOp
<1>5. TargetError(entry, sel) = WriteError(p, SetColumn(entry.lit))
  <2>1. ColumnOpError(entry, p) = WriteError(p, SetColumn(entry.lit))
    BY <1>4 DEF ColumnOpError, Then, LiteralError
  <2> QED BY <1>1, <1>3, <2>1 DEF TargetError, ColumnError, Then, MutableError
<1>6. WriteError(p, SetColumn(entry.lit)) = IF Storable(p, entry.lit) THEN "ok" ELSE "invalid"
  BY DEF WriteError, OpStorable, SetColumn
<1>7. CASE Refuse(TargetError(entry, sel))
  <2>1. TargetError(entry, sel) = "invalid" /\ ~Storable(p, entry.lit)
    BY <1>5, <1>6, <1>7 DEF Refuse
  <2> QED BY <1>7, <2>1 DEF Refused
<1>8. CASE ~Refuse(TargetError(entry, sel))
  <2>1. AtColumn(entry, p) /\ Passes
    BY <1>2, <1>3, <1>s, <1>8 DEF Passes
  <2>2. Write(p, ColumnOp(entry, p), entry.lit) /\ tests' = tests
    BY <1>3, <2>1 DEF AtColumn
  <2> QED BY <2>1, <2>2 DEF Stored, Write
<1> QED BY <1>7, <1>8

------------------------------------------------------------------------------
(* The compilation keeps SendingHeld.                                      *)

\* An entry taken is of a prop the request makes an entry of, and is refused or in the plan.
LEMMA TakeOutcome ==
    ASSUME Progress, SendingHeld, ScalarsProtected, Take
    PROVE  /\ sent + 1 \in DOMAIN doc /\ sent + 1 \in 1..Len(doc)
           /\ LET e == doc[sent + 1] IN
              \/ Refused(ColumnOf(e), e.lit)
              \/ e.op = "equal" /\ Tested(e.of, e.lit)
              \/ e.op # "equal" /\ Stored(ColumnOf(e), e.lit)
<1>1. sent \in Nat /\ Len(doc) \in Nat /\ sent < Len(doc) /\ doc \in Seq(Entries)
  BY DocSeq DEF Progress, Take
<1>2. sent + 1 \in DOMAIN doc /\ sent + 1 \in 1..Len(doc)
  BY <1>1
<1> DEFINE e == doc[sent + 1]
<1>3. PICK p \in Prop : Entered(p) /\ Apt(p) /\ e = EntryOf(p)
  BY <1>2, DocEntry DEF Progress
<1>4. /\ entry.seen = {} /\ entry.op = e.op /\ entry.lit = e.lit
      /\ entry.site = Walk(None, e.path)
      /\ Target([arm |-> "field", of |-> e.of])
  BY DEF Take, SendingHeld, PlanHeld, Compiling, Target, Ready
<1>5. ColumnOf(e) = p /\ p \notin Immutable
  BY <1>3, EntryColumn DEF Entered, PatchProp
<1>6. CASE p \in Version
  <2>1. e = EntryFor("equal", <<>>, p, req[ValueAt(p)]) /\ req[ValueAt(p)] \in FieldLiteral(p)
    BY <1>3, <1>6 DEF EntryOf, Apt
  <2>2. e.op = "equal" /\ e.of = p /\ e.path = <<>> /\ e.lit \in FieldLiteral(p)
    BY <2>1 DEF EntryFor
  <2>3. p \notin wrote \/ IsCollection(p)
    BY <1>6 DEF ScalarsProtected
  <2>4. Refused(p, entry.lit) \/ Tested(p, entry.lit)
    BY <1>4, <1>6, <2>2, <2>3, TakeTest DEF Walk
  <2> QED BY <1>2, <1>4, <1>5, <2>2, <2>4
<1>7. CASE p \notin Version /\ Flag(p)
  <2>1. e = EntryFor("remove", <<>>, p, None) /\ p \in Nullable
    BY <1>3, <1>7 DEF EntryOf, Apt
  <2>2. e.op = "remove" /\ e.of = p /\ e.path = <<>> /\ e.lit = None
    BY <2>1 DEF EntryFor
  <2>3. Stored(p, entry.lit)
    BY <1>4, <1>5, <1>7, <2>1, <2>2, TakeRemove DEF Walk
  <2> QED BY <1>2, <1>4, <1>5, <2>2, <2>3
<1>8. CASE p \notin Version /\ ~Flag(p) /\ p \in Edge
  <2>1. e = EntryFor("assign", <<p>>, TargetKey[p], keys[p]) /\ ~IsList(p) /\ keys[p] \in Val
    BY <1>3, <1>8 DEF EntryOf, Apt
  <2>2. e.op = "assign" /\ e.of = TargetKey[p] /\ e.path = <<p>> /\ e.lit \in Val
    BY <2>1 DEF EntryFor
  <2>3. Walk(None, e.path) = p
    BY <2>2 DEF Walk
  <2>4. Refused(p, entry.lit) \/ Stored(p, entry.lit)
    BY <1>4, <1>5, <1>8, <2>1, <2>2, <2>3, TakeEdge
  <2> QED BY <1>2, <1>4, <1>5, <2>2, <2>4
<1>9. CASE p \notin Version /\ ~Flag(p) /\ p \notin Edge
  <2>1. e = EntryFor("assign", <<>>, p, req[ValueAt(p)]) /\ req[ValueAt(p)] \in FieldLiteral(p)
    BY <1>3, <1>9 DEF EntryOf, Apt
  <2>2. e.op = "assign" /\ e.of = p /\ e.path = <<>> /\ e.lit \in FieldLiteral(p)
    BY <2>1 DEF EntryFor
  <2>3. Refused(p, entry.lit) \/ Stored(p, entry.lit)
    BY <1>4, <1>5, <1>9, <2>2, TakeField DEF Walk
  <2> QED BY <1>2, <1>4, <1>5, <2>2, <2>3
<1> QED BY <1>6, <1>7, <1>8, <1>9

\* What a refused entry leaves.
LEMMA RefusedHeld ==
    ASSUME Progress, SendingHeld, answer = "document", UNCHANGED <<request, conversion, sent>>,
           NEW k \in DOMAIN doc, Refused(ColumnOf(doc[k]), doc[k].lit)
    PROVE  SendingHeld'
<1>1. /\ answer' = answer /\ doc' = doc /\ sent' = sent
  BY DEF conversion
<1>2. PICK err : /\ Refuse(err)
                 /\ \/ err = "invalid" /\ ~Storable(ColumnOf(doc[k]), doc[k].lit)
                    \/ err = "unsupported" /\ \E v \in Version : IsCollection(v)
  BY DEF Refused
<1>3. verdict' = err
  BY <1>2 DEF Refuse
<1>4. RequestCompiles'
  BY <1>1, <1>2, <1>3 DEF RequestCompiles
<1>5. PlanHeld'
  BY <1>2, <1>3 DEF PlanHeld, Compiling
<1>6. sent' \in 0..Len(doc')
  BY <1>1 DEF SendingHeld
<1> QED BY <1>1, <1>4, <1>5, <1>6 DEF SendingHeld

\* What an entry in the plan leaves: one more taken, and of no column an earlier one is of.
LEMMA PassedHeld ==
    ASSUME Progress, TypeOK, SendingHeld, Take, sent + 1 \in 1..Len(doc),
           LET e == doc[sent + 1] IN
              \/ e.op = "equal" /\ Tested(e.of, e.lit)
              \/ e.op # "equal" /\ Stored(ColumnOf(e), e.lit)
    PROVE  SendingHeld'
<1> DEFINE n == sent + 1
<1>1. /\ answer = "document" /\ answer' = answer /\ doc' = doc /\ sent' = sent
      /\ entry # None /\ entry.seen = {} /\ verdict = "compiling"
  BY DEF Take, Sending, conversion, Target, Ready
<1>2. Passes
  BY DEF Tested, Stored
<1>3. PICK id \in Location : entry' = [entry EXCEPT !.seen = @ \cup {id}]
  BY <1>2 DEF Passes
<1>4. /\ entry'.seen = entry.seen \cup {id} /\ entry'.op = entry.op /\ entry'.lit = entry.lit
      /\ entry'.skip = entry.skip /\ entry'.site = entry.site
      /\ entry' # None
  <2>1. entry \in Entry
    BY <1>1 DEF TypeOK, ControlOK
  <2>2. entry' \in Entry
    BY <1>3, <2>1 DEF Entry
  <2> QED BY <1>3, <2>1, <2>2, RequestAssumption DEF Entry
<1>5. Taken = sent /\ Taken' = n /\ n \in Nat /\ sent \in Nat /\ Len(doc) \in Nat /\ n <= Len(doc)
  BY <1>1, <1>4, DocSeq DEF Taken, Progress
<1>6. /\ base = None /\ depth = 0 /\ sent < Len(doc)
      /\ entry.op = doc[n].op /\ entry.lit = doc[n].lit
      /\ entry.skip = FALSE /\ entry.site = Walk(None, doc[n].path)
      /\ tests = {TestOn(doc[k].of, None, "equal", doc[k].lit) : k \in {j \in 1..sent : doc[j].op = "equal"}}
      /\ \A k \in 1..sent : doc[k].op # "equal" => planned[ColumnOf(doc[k])] = doc[k].lit
      /\ \A p \in Prop : \/ planned[p] = row[p]
                         \/ \E k \in 1..sent : doc[k].op # "equal" /\ ColumnOf(doc[k]) = p
  BY <1>1, <1>5 DEF SendingHeld, PlanHeld, Compiling
<1>7. /\ base' = None /\ depth' = 0 /\ verdict' = "compiling" /\ row' = row
  BY <1>1, <1>2, <1>6 DEF Passes, delta
<1>8. \A i : i \in 1..n <=> i \in 1..sent \/ i = n
  BY <1>5
<1>9. ASSUME NEW i \in 1..sent PROVE ColumnOf(doc[i]) # ColumnOf(doc[n])
  <2>1. doc \in Seq(Entries)
    BY DocSeq DEF Progress
  <2>2. i \in DOMAIN doc /\ n \in DOMAIN doc /\ i # n
    BY <1>5, <2>1
  <2> QED BY <1>1, <2>2 DEF Progress, Conversion, DocumentHeld, Converts
<1>10. ColumnOf(doc[n]) \in Prop /\ planned \in [Prop -> Column]
  <2>1. n \in DOMAIN doc
    BY <1>5, DocSeq DEF Progress
  <2> QED BY <2>1, DocEntry, EntryColumn DEF Progress, TypeOK, EnginesOK, Row
<1> HIDE DEF n
<1>11. /\ tests' = {TestOn(doc[k].of, None, "equal", doc[k].lit) : k \in {j \in 1..n : doc[j].op = "equal"}}
       /\ \A k \in 1..n : doc[k].op # "equal" => planned'[ColumnOf(doc[k])] = doc[k].lit
       /\ \A p \in Prop : \/ planned'[p] = row[p]
                          \/ \E k \in 1..n : doc[k].op # "equal" /\ ColumnOf(doc[k]) = p
  <2>1. CASE doc[n].op = "equal" /\ Tested(doc[n].of, doc[n].lit)
    <3>1. tests' = tests \cup {TestOn(doc[n].of, None, "equal", doc[n].lit)} /\ planned' = planned
      BY <2>1 DEF Tested
    <3>2. {j \in 1..n : doc[j].op = "equal"} = {j \in 1..sent : doc[j].op = "equal"} \cup {n}
      BY <1>8, <2>1
    <3>3. \A k \in 1..n : doc[k].op # "equal" => k \in 1..sent
      BY <1>8, <2>1
    <3>4. tests' = {TestOn(doc[k].of, None, "equal", doc[k].lit) : k \in {j \in 1..n : doc[j].op = "equal"}}
      BY <1>6, <3>1, <3>2
    <3> QED BY <1>6, <1>8, <3>1, <3>3, <3>4
  <2>2. CASE doc[n].op # "equal" /\ Stored(ColumnOf(doc[n]), doc[n].lit)
    <3>1. tests' = tests /\ planned' = [planned EXCEPT ![ColumnOf(doc[n])] = doc[n].lit]
      BY <2>2 DEF Stored
    <3>2. {j \in 1..n : doc[j].op = "equal"} = {j \in 1..sent : doc[j].op = "equal"}
      BY <1>8, <2>2
    <3>3. tests' = {TestOn(doc[k].of, None, "equal", doc[k].lit) : k \in {j \in 1..n : doc[j].op = "equal"}}
      BY <1>6, <3>1, <3>2
    <3>4. \A k \in 1..n : doc[k].op # "equal" => planned'[ColumnOf(doc[k])] = doc[k].lit
      BY <1>6, <1>8, <1>9, <1>10, <3>1
    <3>5. \A p \in Prop : \/ planned'[p] = row[p]
                          \/ \E k \in 1..n : doc[k].op # "equal" /\ ColumnOf(doc[k]) = p
      BY <1>6, <1>8, <1>10, <2>2, <3>1
    <3> QED BY <3>3, <3>4, <3>5
  <2> QED BY <2>1, <2>2 DEF n
<1>12. PlanHeld'
  BY <1>1, <1>4, <1>5, <1>6, <1>7, <1>11 DEF PlanHeld, Compiling, n
<1>13. RequestCompiles'
  BY <1>7 DEF RequestCompiles
<1> QED BY <1>1, <1>5, <1>7, <1>12, <1>13 DEF SendingHeld

LEMMA TakeHeld ==
    ASSUME Progress, TypeOK, ScalarsProtected, SendingHeld, Take
    PROVE  SendingHeld'
<1>1. answer = "document" /\ UNCHANGED <<request, conversion, sent>>
  BY DEF Take, Sending
<1> QED BY <1>1, TakeOutcome, RefusedHeld, PassedHeld

\* A path of the document is walked: it is empty, or an edge.
LEMMA OpenHeld == ASSUME Progress, SendingHeld, Open PROVE SendingHeld'
<1> DEFINE e == doc[sent + 1]
<1>1. /\ answer = "document" /\ answer' = answer /\ doc' = doc /\ sent' = sent /\ sent < Len(doc)
      /\ OpenTargets(e.path, e.op, FALSE, FALSE, e.lit)
  BY DEF Open, Sending, conversion
<1>2. entry = None /\ verdict = "compiling" /\ base = None
  BY <1>1 DEF OpenTargets, NextEntry, Ready, SendingHeld, PlanHeld, Compiling
<1>3. sent \in Nat /\ Len(doc) \in Nat /\ sent + 1 \in DOMAIN doc
  BY <1>1, DocSeq DEF Progress
<1>4. WalkError(None, e.path) = "ok"
  <2>1. PICK p \in Prop : e = EntryOf(p)
    BY <1>3, DocEntry DEF Progress
  <2>2. e.path = <<>> \/ (e.path = <<p>> /\ p \in Edge)
    BY <2>1 DEF EntryOf, EntryFor
  <2>3. CASE e.path = <<>>
    BY <2>3 DEF WalkError
  <2>4. CASE e.path = <<p>> /\ p \in Edge
    <3>1. p # None /\ p \notin Undeclared /\ HasSite(p)
      BY <2>4, CompilerAssumption DEF HasSite
    <3>2. e.path # <<>> /\ e.path[1] = p /\ Len(e.path) = 1
      BY <2>4
    <3>3. SegmentError(p) = "ok"
      BY <3>1 DEF SegmentError
    <3> QED BY <3>2, <3>3 DEF WalkError, Then
  <2> QED BY <2>2, <2>3, <2>4
<1> HIDE DEF e
<1>5. /\ entry' = [op |-> e.op, skip |-> FALSE, lit |-> e.lit, site |-> Walk(base, e.path),
                   create |-> FALSE \/ base # None, seen |-> {}]
      /\ UNCHANGED <<delta, plan, verdict, row, engines>>
  BY <1>1, <1>2, <1>4 DEF OpenTargets, Refuse
<1>6. /\ entry'.seen = {} /\ entry'.op = e.op /\ entry'.lit = e.lit /\ entry'.skip = FALSE
      /\ entry'.site = Walk(None, e.path)
  BY <1>2, <1>5
<1>7. Taken = sent /\ Taken' = sent
  BY <1>1, <1>2, <1>6 DEF Taken
<1>8. /\ verdict' = "compiling" /\ base' = base /\ depth' = depth /\ row' = row
      /\ tests' = tests /\ planned' = planned
  BY <1>2, <1>5 DEF delta, plan, engines
<1>9. PlanHeld'
  BY <1>1, <1>2, <1>3, <1>6, <1>7, <1>8 DEF SendingHeld, PlanHeld, Compiling, e
<1>10. RequestCompiles'
  BY <1>8 DEF RequestCompiles
<1> QED BY <1>1, <1>9, <1>10 DEF SendingHeld

LEMMA CloseHeld == ASSUME Progress, SendingHeld, Close PROVE SendingHeld'
<1>1. /\ answer = "document" /\ answer' = answer /\ doc' = doc /\ sent' = sent + 1
      /\ verdict = "compiling" /\ verdict' = verdict
      /\ entry # None /\ entry.seen # {} /\ entry' = None
      /\ base' = base /\ depth' = depth /\ row' = row /\ tests' = tests /\ planned' = planned
  BY DEF Close, Sending, conversion, CloseEntry, plan, engines
<1>2. Taken = sent + 1 /\ Taken' = sent + 1
  BY <1>1 DEF Taken
<1>3. sent \in Nat /\ Len(doc) \in Nat /\ sent < Len(doc)
  BY <1>1, DocSeq DEF Progress, SendingHeld, PlanHeld, Compiling
<1>4. PlanHeld'
  BY <1>1, <1>2 DEF SendingHeld, PlanHeld, Compiling
<1>5. RequestCompiles'
  BY <1>1 DEF RequestCompiles
<1> QED BY <1>1, <1>3, <1>4, <1>5 DEF SendingHeld

LEMMA CompiledHeld == ASSUME Progress, SendingHeld, Compiled PROVE SendingHeld'
<1>1. /\ answer = "document" /\ answer' = answer /\ doc' = doc /\ sent' = sent /\ sent = Len(doc)
      /\ verdict = "compiling" /\ verdict' = "compiled"
      /\ entry = None /\ entry' = None
      /\ base' = base /\ depth' = depth /\ row' = row /\ tests' = tests /\ planned' = planned
  BY DEF Compiled, Sending, conversion, Finish, delta, plan, engines
<1>2. Taken = sent /\ Taken' = sent
  BY <1>1 DEF Taken
<1>3. PlanHeld'
  BY <1>1, <1>2 DEF SendingHeld, PlanHeld, Compiling
<1>4. RequestCompiles'
  BY <1>1 DEF RequestCompiles
<1> QED BY <1>1, <1>3, <1>4 DEF SendingHeld

\* While there is no document, the plan is empty.
LEMMA ConvertHeld == ASSUME Progress, SendingHeld, Convert PROVE SendingHeld'
<1>1. answer = "converting" /\ UNCHANGED <<vars, sent>>
  BY DEF Convert, Converting, Asking, Assigning, Omit, Misplaced, VersionNotGiven, VersionWrite,
         VersionTest, VersionForced, Null, Unasked, RepeatedEdge, NoResolver, Unresolved, Resolved,
         IllegalValue, AssignField, Answer, Proceed, Fail
<1>2. verdict = "compiling" /\ entry = None /\ sent = 0
  BY <1>1 DEF SendingHeld
<1>3. /\ verdict' = "compiling" /\ entry' = None /\ sent' = 0
      /\ base' = base /\ depth' = depth /\ row' = row /\ tests' = tests /\ planned' = planned
  BY <1>1, <1>2 DEF vars, delta, plan, engines
<1>4. Taken = 0 /\ Taken' = 0
  BY <1>2, <1>3 DEF Taken
<1>5. base = None /\ depth = 0 /\ tests = {} /\ \A p \in Prop : planned[p] = row[p]
  BY <1>2, <1>4 DEF SendingHeld, PlanHeld, Compiling
<1>6. Conversion'
  BY ConvertKeeps DEF Progress
<1>7. Len(doc)' \in Nat
  <2>1. CASE Converts'
    BY <1>6, <2>1 DEF Conversion, DocumentHeld
  <2>2. CASE ~Converts'
    BY <1>6, <2>2 DEF Conversion, DocumentHeld
  <2> QED BY <2>1, <2>2
<1>8. {j \in 1..0 : doc'[j].op = "equal"} = {}
  OBVIOUS
<1>9. PlanHeld'
  BY <1>3, <1>4, <1>5, <1>7, <1>8 DEF PlanHeld
<1>10. RequestCompiles'
  BY <1>3 DEF RequestCompiles
<1> QED BY <1>3, <1>7, <1>9, <1>10 DEF SendingHeld

LEMMA SendingNext ==
    ASSUME Progress, TypeOK, ScalarsProtected, SendingHeld, [RequestNext]_reqVars
    PROVE  SendingHeld'
<1>1. CASE UNCHANGED reqVars
  <2>1. /\ answer' = answer /\ doc' = doc /\ sent' = sent /\ verdict' = verdict /\ entry' = entry
        /\ base' = base /\ depth' = depth /\ row' = row /\ tests' = tests /\ planned' = planned
    BY <1>1 DEF reqVars, conversion, vars, delta, plan, engines
  <2>2. Taken' = Taken
    BY <2>1 DEF Taken
  <2> QED BY <2>1, <2>2 DEF SendingHeld, PlanHeld, Compiling, RequestCompiles
<1> QED BY <1>1, ConvertHeld, OpenHeld, TakeHeld, CloseHeld, CompiledHeld DEF RequestNext

LEMMA SendingInit == ASSUME RequestInit PROVE SendingHeld
<1>1. /\ verdict = "compiling" /\ entry = None /\ base = None /\ depth = 0 /\ tests = {}
      /\ planned = row /\ sent = 0 /\ doc = <<>>
  BY DEF RequestInit, Init
<1>2. Taken = 0 /\ Len(doc) = 0
  BY <1>1 DEF Taken
<1>3. {j \in 1..0 : doc[j].op = "equal"} = {}
  OBVIOUS
<1>4. PlanHeld
  BY <1>1, <1>2, <1>3 DEF PlanHeld
<1>5. RequestCompiles
  BY <1>1 DEF RequestCompiles
<1> QED BY <1>1, <1>2, <1>4, <1>5 DEF SendingHeld

\* The invariant of a request's run: the document is the request's, and the plan that of the
\* entries the compiler has taken.
THEOREM RequestHolds == RequestSpec => []RequestInv
<1>1. RequestInit => Progress /\ SendingHeld
  BY ProgressInit, SendingInit
<1>2. Progress /\ [RequestNext]_reqVars => Progress'
  BY ProgressNext
<1>3. Progress /\ TypeOK /\ ScalarsProtected /\ SendingHeld /\ [RequestNext]_reqVars
        => SendingHeld'
  BY SendingNext
<1>4. RequestSpec => []TypeOK /\ []ScalarsProtected
  BY RequestRunsCompiler, TypeCorrect, ScalarsUnwritten, PTL
<1>5. Progress /\ SendingHeld => RequestInv
  BY DEF Progress, RequestInv
<1> QED BY <1>1, <1>2, <1>3, <1>4, <1>5, PTL DEF RequestSpec

------------------------------------------------------------------------------
(* What a request comes to.                                                *)

\* Every variable of a request's run has its type.
THEOREM RequestTypeCorrect == RequestSpec => []RequestTypeOK
<1>1. ASSUME TypeOK, RequestInv PROVE RequestTypeOK
  <2>1. \A k \in DOMAIN doc : doc[k].op \in {"equal", "assign", "remove"} /\ doc[k].of \in Field
    BY <1>1, DocTyped DEF RequestInv
  <2> QED BY <1>1, <2>1 DEF RequestTypeOK, RequestInv, Conversion, RequestHeld, SendingHeld
<1>2. TypeOK /\ RequestInv => RequestTypeOK
  BY <1>1
<1> QED BY <1>2, RequestHolds, RequestRunsCompiler, TypeCorrect, PTL

\* The compiler takes the document of every request, but for a value too short for its column or a
\* version that is a repeated time (FromPatchRequest, then Compile).
THEOREM RequestsCompile == RequestSpec => []RequestCompiles
<1>1. RequestInv => RequestCompiles
  BY DEF RequestInv, SendingHeld
<1> QED BY <1>1, RequestHolds, PTL

\* When the converter has answered, it has been through every prop.
LEMMA AllPassed ==
    ASSUME Conversion, answer \in {"nothing", "document"}
    PROVE  \A p \in Prop : p \in Passed
<1>1. Declared \in Seq(Prop) /\ \A p \in Prop : \E i \in DOMAIN Declared : Declared[i] = p
  BY RequestAssumption
<1>2. conv = Len(Declared) + 1
  BY DEF Conversion, DocumentHeld
<1>3. 1..(conv - 1) = DOMAIN Declared
  BY <1>1, <1>2
<1> QED BY <1>1, <1>3 DEF Passed

\* The document has an entry exactly of the props the request makes one of.
LEMMA AllEntered ==
    ASSUME Conversion, answer \in {"nothing", "document"}
    PROVE  /\ \A p \in Prop : Entered(p) => Apt(p) /\ \E k \in DOMAIN doc : doc[k] = EntryOf(p)
           /\ \A k \in DOMAIN doc : \E p \in Prop : Entered(p) /\ doc[k] = EntryOf(p)
<1>1. \A p \in Prop : Entered(p) => Apt(p) /\ \E k \in DOMAIN doc : doc[k] = EntryOf(p)
  BY AllPassed DEF Conversion, DocumentHeld, Converts
<1> QED BY <1>1, DocEntry

\* The version takes part in every request.
LEMMA VersionAsked ==
    ASSUME NEW v \in Version PROVE PatchProp(v) /\ (Entered(v) <=> ~Flag(v))
<1>1. v \notin Immutable /\ v \notin Erased
  BY RequestAssumption
<1> QED BY <1>1 DEF Entered, PatchProp

LEMMA AsksEntered ==
    ASSUME NEW p \in Prop PROVE Asks(p) <=> Entered(p) /\ p \notin Version
  BY DEF Asks, Entered

\* When the document is compiled, the plan is that of all of it.
LEMMA CompiledPlan ==
    ASSUME RequestInv, verdict = "compiled"
    PROVE  /\ answer = "document" /\ doc \in Seq(Entries) /\ DOMAIN doc = 1..Len(doc)
           /\ tests = {TestOn(doc[k].of, None, "equal", doc[k].lit) :
                            k \in {j \in DOMAIN doc : doc[j].op = "equal"}}
           /\ \A k \in DOMAIN doc : doc[k].op # "equal" => planned[ColumnOf(doc[k])] = doc[k].lit
           /\ \A p \in Prop : \/ planned[p] = row[p]
                              \/ \E k \in DOMAIN doc : doc[k].op # "equal" /\ ColumnOf(doc[k]) = p
<1>1. doc \in Seq(Entries) /\ DOMAIN doc = 1..Len(doc)
  BY DocSeq DEF RequestInv
<1>2. entry = None /\ sent = Len(doc) /\ PlanHeld /\ Compiling
  BY DEF RequestInv, SendingHeld, PlanHeld, Compiling
<1>3. Taken = Len(doc)
  BY <1>2 DEF Taken
<1>4. answer = "document"
  BY DEF RequestInv, SendingHeld
<1> QED BY <1>1, <1>2, <1>3, <1>4 DEF PlanHeld

\* The statement a request ends in writes what the request asks for, and nothing else.
THEOREM RequestWritesAsked == RequestSpec => []RowAsAsked
<1>1. ASSUME RequestInv, verdict = "compiled", NEW p \in Prop
      PROVE  planned[p] = IF ~Asks(p) THEN row[p]
                          ELSE IF Flag(p) THEN None
                          ELSE IF p \in Edge THEN keys[p] ELSE req[ValueAt(p)]
  <2>1. CASE Asks(p)
    <3>1. Entered(p) /\ p \notin Version
      BY <2>1, AsksEntered
    <3>2. PICK k \in DOMAIN doc : doc[k] = EntryOf(p)
      BY <1>1, <3>1, CompiledPlan, AllEntered DEF RequestInv
    <3>3. doc[k].op # "equal" /\ ColumnOf(doc[k]) = p
      BY <3>1, <3>2, EntryColumn, EntryTests
    <3>4. planned[p] = doc[k].lit
      BY <1>1, <3>3, CompiledPlan
    <3>5. doc[k].lit = IF Flag(p) THEN None ELSE IF p \in Edge THEN keys[p] ELSE req[ValueAt(p)]
      BY <3>1, <3>2 DEF EntryOf, EntryFor
    <3> QED BY <2>1, <3>4, <3>5
  <2>2. CASE ~Asks(p)
    <3>1. ASSUME NEW k \in DOMAIN doc, doc[k].op # "equal", ColumnOf(doc[k]) = p PROVE FALSE
      <4>1. PICK q \in Prop : Entered(q) /\ doc[k] = EntryOf(q)
        BY <1>1, <3>1, CompiledPlan, AllEntered DEF RequestInv
      <4>2. q = p /\ q \notin Version
        BY <3>1, <4>1, EntryColumn, EntryTests
      <4> QED BY <2>2, <4>1, <4>2, AsksEntered
    <3> QED BY <1>1, <2>2, <3>1, CompiledPlan
  <2> QED BY <2>1, <2>2
<1>2. RequestInv => RowAsAsked
  BY <1>1 DEF RowAsAsked
<1> QED BY <1>2, RequestHolds, PTL

\* The test of a version holds of the rows that have it.
LEMMA TestHolds ==
    ASSUME NEW v \in Prop, RequestHas(v), req[ValueAt(v)] \in FieldLiteral(v)
    PROVE  Holds(TestOn(v, None, "equal", req[ValueAt(v)]), row) <=> row[v] = req[ValueAt(v)]
<1> DEFINE x == req[ValueAt(v)]
<1>1. Holds(TestOn(v, None, "equal", x), row) <=> Satisfies(v, None, "equal", x, row[v])
  BY DEF Holds, TestOn, Subscript
<1>2. Satisfies(v, None, "equal", x, row[v]) <=> Present(v, None, row[v]) /\ row[v] = x
  BY DEF Satisfies, Read
<1>3. Shape[v] \in {"scalar", "map", "list"}
  BY SchemaAssumption
<1>4. Present(v, None, x)
  BY <1>3 DEF Present, RequestHas, IsCollection, Empty
<1> QED BY <1>1, <1>2, <1>4

\* The statement meets the rows of the version the client read, or every row when it has forced it.
THEOREM RequestLocks == RequestSpec => []LockHolds
<1>1. ASSUME RequestInv, verdict = "compiled"
      PROVE  Matches(tests, row) <=> Forced \/ \A v \in Version : row[v] = req[ValueAt(v)]
  <2>1. /\ tests = {TestOn(doc[k].of, None, "equal", doc[k].lit) :
                        k \in {j \in DOMAIN doc : doc[j].op = "equal"}}
        /\ answer = "document" /\ Conversion
    BY <1>1, CompiledPlan DEF RequestInv
  <2>2. ASSUME NEW k \in DOMAIN doc, doc[k].op = "equal"
        PROVE  \E v \in Version : ~Flag(v) /\ doc[k].of = v /\ doc[k].lit = req[ValueAt(v)]
    <3>1. PICK p \in Prop : Entered(p) /\ doc[k] = EntryOf(p)
      BY <2>1, <2>2, AllEntered
    <3>2. p \in Version /\ ~Flag(p)
      BY <2>2, <3>1 DEF EntryOf, EntryFor, Entered
    <3> QED BY <3>1, <3>2 DEF EntryOf, EntryFor
  <2>3. CASE Forced
    <3>1. tests = {}
      BY <2>1, <2>2, <2>3 DEF Forced
    <3> QED BY <2>3, <3>1 DEF Matches
  <2>4. CASE ~Forced
    <3>1. PICK v \in Version : ~Flag(v)
      BY <2>4 DEF Forced
    <3>2. \A w \in Version : w = v
      BY RequestAssumption
    <3>3. v \in Prop /\ Entered(v)
      BY <3>1, VersionAsked, CompilerAssumption
    <3>4. PICK k \in DOMAIN doc : doc[k] = EntryOf(v)
      BY <2>1, <3>3, AllEntered
    <3>5. doc[k].op = "equal" /\ doc[k].of = v /\ doc[k].lit = req[ValueAt(v)]
      BY <3>4 DEF EntryOf, EntryFor
    <3>6. tests = {TestOn(v, None, "equal", req[ValueAt(v)])}
      BY <2>1, <2>2, <3>2, <3>5
    <3>7. RequestHas(v) /\ req[ValueAt(v)] \in FieldLiteral(v)
      BY <2>1, <3>3, AllEntered DEF Apt
    <3>8. Matches(tests, row) <=> row[v] = req[ValueAt(v)]
      BY <3>3, <3>6, <3>7, TestHolds DEF Matches
    <3> QED BY <2>4, <3>2, <3>8
  <2> QED BY <2>3, <2>4
<1>2. RequestInv => LockHolds
  BY <1>1 DEF LockHolds
<1> QED BY <1>2, RequestHolds, PTL

\* There is no document exactly when nothing is asked for and no version is to be asserted.
THEOREM RequestAsksNothing == RequestSpec => []NothingAsked
<1>1. ASSUME Conversion, answer \in {"nothing", "document"}
      PROVE  answer = "nothing" <=> Forced /\ \A p \in Prop : ~Asks(p)
  <2>1. answer = "nothing" <=> doc = <<>>
    BY <1>1 DEF Conversion, DocumentHeld
  <2>2. doc = <<>> <=> \A p \in Prop : ~Entered(p)
    <3>1. doc \in Seq(Entries)
      BY <1>1, DocSeq
    <3>2. doc = <<>> <=> DOMAIN doc = {}
      BY <3>1
    <3> QED BY <1>1, <3>2, AllEntered
  <2>3. Version \subseteq Prop
    BY CompilerAssumption
  <2>4. (\A p \in Prop : ~Entered(p)) <=> Forced /\ \A p \in Prop : ~Asks(p)
    BY <2>3, VersionAsked, AsksEntered DEF Forced
  <2> QED BY <2>1, <2>2, <2>4
<1>2. RequestInv => NothingAsked
  BY <1>1 DEF RequestInv, NothingAsked
<1> QED BY <1>2, RequestHolds, PTL
=============================================================================
