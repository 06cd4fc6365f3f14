----------------------------- MODULE PatchCompile -----------------------------
(***************************************************************************)
(* The patch compiler of ormpatch/compile.go.  It walks a document entry   *)
(* by entry, selector by selector, and accumulates the tests and the       *)
(* writes of one UPDATE, or refuses the document.  Here the document is    *)
(* not fixed beforehand: each step chooses the next construct of it, so    *)
(* the behaviours are the compilations of every document of MaxSteps       *)
(* constructs.  It is the document after patch.NormalizeWith.              *)
(*                                                                         *)
(* Beside the compiler runs the reference engine (patchproto, outside the  *)
(* repository): it applies the same constructs to the row one after the    *)
(* other.  row, ref, refOk, planned, touched, grown and diverged are       *)
(* auxiliary: no guard reads them.                                         *)
(***************************************************************************)
EXTENDS RowPlan

CONSTANTS
    Field,          \* names a document may give a field
    Undeclared,     \* those the entity does not declare; the rest of
                    \* Field \ Prop is declared but orm.field.disabled
    TargetField,    \* [Edge -> the field names of the edge's target]
    TargetKey,      \* [Edge -> the one that is the target's key]
    Nullable, Immutable, Version,   \* props of which IsNullable, ... is true
    Json,           \* scalar props of TYPE_JSON
    Sibling,        \* [Prop -> the other members of its oneof]
    InitRow,        \* rows the document may meet
    MapLiteral, ListLiteral,        \* collections a document may carry
    Index,          \* list indices a document may name
    MaxNest,        \* how deep nest may chain
    MaxSteps        \* bound: constructs in a document

ASSUME CompilerAssumption ==
    /\ Prop \subseteq Field
    /\ Undeclared \subseteq Field \ Prop
    /\ None \notin Field
    /\ TargetField \in [Edge -> SUBSET Field] /\ TargetKey \in [Edge -> Field]
    /\ Nullable \subseteq {p \in Prop : Shape[p] = "scalar"}
    /\ Immutable \subseteq Prop
    /\ Version \subseteq Prop \ Edge
    /\ Json \subseteq {p \in Prop \ Edge : Shape[p] = "scalar"}
    /\ Sibling \in [Prop -> SUBSET {p \in Prop : Shape[p] = "scalar"}]
    /\ \A p \in Prop : p \notin Sibling[p]
    /\ InitRow \subseteq {r \in Row : \A p \in Prop : Storable(p, r[p])}
    /\ MapLiteral \subseteq MapValue
    /\ ListLiteral \subseteq ListValue
    /\ Index \subseteq Int
    /\ MaxNest \in Nat /\ MaxSteps \in Nat

VARIABLES
    base,       \* site of the delta being compiled: None at the root, else a prop
    depth,      \* how many nests deep that delta is
    fresh,      \* that delta has no entry yet
    entry,      \* the entry whose targets are being compiled, or None
    tests, order, writes, wrote, resized,   \* the fields of compiler
    verdict,    \* "compiling", "compiled", or the error the document met
    used        \* constructs so far

VARIABLES
    row,        \* the row the UPDATE will meet
    planned,    \* that row under the writes so far
    ref,        \* that row under the reference engine
    refOk,      \* the reference engine has not aborted
    touched,    \* map entries the document has written: <<prop, key>>
    grown,      \* lists a container-scope insert has lengthened
    diverged    \* known disagreements the document has run into

delta == <<base, depth, fresh>>
plan == <<tests, order, writes, wrote, resized>>
engines == <<planned, ref, refOk, touched, grown, diverged>>
vars == <<delta, entry, plan, verdict, used, row, engines>>

------------------------------------------------------------------------------
(* Errors.  A step is refused with the first error its code meets.         *)

Then(e1, e2) == IF e1 # "ok" THEN e1 ELSE e2

SiteKind(s) ==
    IF s = None THEN "root"
    ELSE CASE IsMap(s) -> "map"
           [] IsList(s) -> "list"
           [] OTHER -> "edge"

HasSite(p) == IsCollection(p) \/ p \in Edge

\* One path segment, or None for a segment that is not a field key.
SegmentError(seg) ==
    IF seg = None \/ seg \in Undeclared THEN "PathNotReached"
    ELSE IF seg \in Prop /\ HasSite(seg) THEN "ok"
    ELSE "unsupported"

\* A path is the sequence of its segments; a row is one level deep.
WalkError(s, path) ==
    CASE path = <<>>               -> "ok"
      [] path # <<>> /\ s # None   -> "unsupported"
      [] path # <<>> /\ s = None   ->
            Then(SegmentError(path[1]), IF Len(path) > 1 THEN "unsupported" ELSE "ok")

Walk(s, path) == IF path = <<>> THEN s ELSE path[1]

\* Mutant: a collection is asked for where it is written as a whole, and not by key or position.
MutableErrorWhole(p) ==
    CASE p \in Immutable /\ ~IsCollection(p) -> "immutable"
      [] p \notin Immutable /\ p \in Version -> "version"
      [] OTHER -> "ok"

MutableError(p) ==
    CASE p \in Immutable -> "immutable"
      [] p \notin Immutable /\ p \in Version -> "version"
      [] OTHER -> "ok"

LiteralError(S, lit) == IF lit \in S THEN "ok" ELSE "IllegalArm"

FieldLiteral(p) ==
    CASE Shape[p] = "scalar" -> Val
      [] Shape[p] = "map"    -> MapLiteral
      [] Shape[p] = "list"   -> ListLiteral

\* Mutant: only the key of an edge is checked.
OpStorableEdge(p, op) == op.kind = "setEdge" => Storable(p, op.val)

\* checkOp: the values an operation carries.
OpStorable(p, op) ==
    CASE op.kind \in {"set", "setEdge"} -> Storable(p, op.val)
      [] op.kind = "edit" -> p \in Uuid => \A i \in DOMAIN op.ops : op.ops[i].val \notin Short
      [] OTHER -> TRUE

NoWrite == [kind |-> "none"]

WriteError(p, op) ==
    IF ~OpStorable(p, op) THEN "invalid"
    ELSE IF op.kind = "edit" /\ writes[p].kind \notin {"none", "edit"} THEN "unsupported"
    ELSE "ok"

TestOp == {"equal", "exists", "absent"}

\* Mutant: the column may have been written.
TestErrorUnordered(p, at, want, lit) ==
    IF want # "equal" THEN "ok"
    ELSE IF at = None /\ (IsCollection(p) \/ p \in Json) THEN "unsupported"
    ELSE Then(LiteralError(Val, lit), IF p \in Uuid /\ lit \in Short THEN "invalid" ELSE "ok")

TestError(p, at, want, lit) ==
    IF p \in wrote THEN "unsupported"
    ELSE IF want # "equal" THEN "ok"
    ELSE IF at = None /\ (IsCollection(p) \/ p \in Json) THEN "unsupported"
    ELSE Then(LiteralError(Val, lit), IF p \in Uuid /\ lit \in Short THEN "invalid" ELSE "ok")

\* Mutants: the list may have been resized; any subscript is a position.
AddressableErrorMoved(p, i) == IF i < 0 \/ i > MaxListIndex THEN "unsupported" ELSE "ok"
AddressableErrorUnbounded(p, i) == IF p \in resized \/ i < 0 THEN "unsupported" ELSE "ok"

AddressableError(p, i) ==
    IF p \in resized \/ i < 0 \/ i > MaxListIndex THEN "unsupported" ELSE "ok"

------------------------------------------------------------------------------
(* Selectors.                                                              *)

Selector ==
    [arm : {"field"}, of : Field]
        \cup [arm : {"mapKey"}, of : Key \cup {None}]  \* None: a key of another kind
        \cup [arm : {"index"}, of : Index]
        \cup [arm : {"append", "every", "range", "oneof"}, of : {None}]

\* "" in the code: a selector that resolves to no location.
Nowhere == <<"", None>>

\* The location a selector names.  At an edge the name is looked up in this
\* entity's fields, as at the root.
Ident(s, sel) ==
    CASE SiteKind(s) \in {"root", "edge"} /\ sel.arm = "field" /\ sel.of \in Prop -> <<"f", sel.of>>
      [] SiteKind(s) = "map" /\ sel.arm = "every"                      -> <<"every", None>>
      [] SiteKind(s) = "map" /\ sel.arm = "mapKey" /\ sel.of # None    -> <<"k", sel.of>>
      [] SiteKind(s) = "list" /\ sel.arm = "append"                    -> <<"append", None>>
      [] SiteKind(s) = "list" /\ sel.arm = "index"                     -> <<"i", sel.of>>
      [] OTHER -> Nowhere

\* Mutant: an edge is cleared like any column.
ColumnOpEdgeless(e, p) ==
    IF e.op = "assign" THEN SetColumn(e.lit)
    ELSE IF IsCollection(p) THEN EditJSON(<<JSONClear>>) ELSE ClearColumn

\* What an entry that assigns or removes makes of a column as a whole.
ColumnOp(e, p) ==
    CASE e.op = "assign"                                            -> SetColumn(e.lit)
      [] e.op = "remove" /\ p \in Edge                              -> ClearEdge
      [] e.op = "remove" /\ p \notin Edge /\ IsCollection(p)        -> EditJSON(<<JSONClear>>)
      [] e.op = "remove" /\ p \notin Edge /\ ~IsCollection(p)       -> ClearColumn

ColumnOpError(e, p) ==
    CASE e.op = "remove" ->
            IF p \notin Nullable /\ (p \in Edge \/ ~IsCollection(p)) THEN "unsupported"
            ELSE WriteError(p, ColumnOp(e, p))
      [] e.op = "assign" ->
            IF p \in Edge THEN "unsupported"
            ELSE Then(LiteralError(FieldLiteral(p), e.lit), WriteError(p, ColumnOp(e, p)))

\* A target the message does not declare: a test can only conclude absence.
VacantError(e) ==
    CASE e.op \in TestOp               -> IF e.op = "absent" THEN "ok" ELSE "TestFailed"
      [] e.op \notin TestOp /\ e.skip  -> "ok"
      [] e.op \notin TestOp /\ ~e.skip -> "VacantTarget"

ColumnError(e, sel) ==
    IF sel.arm = "oneof" THEN "unsupported"
    ELSE IF sel.arm # "field" THEN "IllegalArm"
    ELSE IF sel.of \in Undeclared THEN VacantError(e)
    ELSE IF sel.of \notin Prop THEN "unsupported"
    ELSE IF e.op \in TestOp THEN TestError(sel.of, None, e.op, e.lit)
    ELSE IF e.op = "insert" THEN "unsupported"
    ELSE Then(MutableError(sel.of), ColumnOpError(e, sel.of))

EdgeError(e, sel) ==
    IF sel.arm # "field" THEN "IllegalArm"
    ELSE IF sel.of \notin TargetField[e.site] THEN "VacantTarget"
    ELSE IF sel.of # TargetKey[e.site] THEN "unsupported"
    ELSE IF e.op \in TestOp THEN TestError(e.site, None, e.op, e.lit)
    ELSE IF e.op # "assign" THEN "unsupported"
    ELSE Then(MutableError(e.site),
         Then(LiteralError(Val, e.lit), WriteError(e.site, SetEdge(e.lit))))

MapError(e, sel) ==
    IF sel.arm = "every" THEN
        IF e.op # "remove" THEN "unsupported"
        ELSE Then(MutableError(e.site), WriteError(e.site, EditJSON(<<JSONClear>>)))
    ELSE IF sel.arm # "mapKey" \/ sel.of = None THEN "IllegalArm"
    ELSE IF e.op \in TestOp THEN TestError(e.site, sel.of, e.op, e.lit)
    ELSE IF e.op = "insert" THEN "unsupported"
    ELSE Then(MutableError(e.site),
         IF e.op = "assign"
         THEN Then(LiteralError(Val, e.lit), WriteError(e.site, EditJSON(<<JSONSet(sel.of, e.lit)>>)))
         ELSE WriteError(e.site, EditJSON(<<JSONRemove(sel.of)>>)))

ListError(e, sel) ==
    IF sel.arm = "append" THEN
        IF e.op # "insert" THEN "IllegalSelector"
        ELSE Then(MutableError(e.site),
             Then(LiteralError(Val, e.lit), WriteError(e.site, EditJSON(<<JSONAppend(e.lit)>>))))
    ELSE IF sel.arm = "range" THEN "unsupported"
    ELSE IF sel.arm # "index" THEN "IllegalArm"
    ELSE Then(AddressableError(e.site, sel.of),
         IF e.op \in TestOp THEN TestError(e.site, sel.of, e.op, e.lit)
         ELSE IF e.op = "insert" THEN "unsupported"
         ELSE Then(MutableError(e.site),
              IF e.op = "assign"
              THEN Then(LiteralError(Val, e.lit), WriteError(e.site, EditJSON(<<JSONSet(sel.of, e.lit)>>)))
              ELSE WriteError(e.site, EditJSON(<<JSONRemove(sel.of)>>))))

TargetError(e, sel) ==
    IF e.op = "move" THEN "unsupported"
    ELSE IF Ident(e.site, sel) \in e.seen THEN "DuplicateTarget"
    ELSE CASE SiteKind(e.site) = "root" -> ColumnError(e, sel)
           [] SiteKind(e.site) = "edge" -> EdgeError(e, sel)
           [] SiteKind(e.site) = "map"  -> MapError(e, sel)
           [] SiteKind(e.site) = "list" -> ListError(e, sel)

Appends(l) == [i \in DOMAIN l |-> JSONAppend(l[i])]

ContainerOp(op, lit) ==
    CASE op = "remove" -> EditJSON(<<JSONClear>>)
      [] op = "assign" -> SetColumn(lit)
      [] op = "insert" -> EditJSON(Appends(lit))

\* A container entry reaches no call of mutable.
ContainerError(s, op, lit) ==
    IF SiteKind(s) \in {"root", "edge"} \/ op \in TestOp \/ (op = "insert" /\ ~IsList(s))
    THEN "unsupported"
    ELSE Then(IF op = "remove" THEN "ok" ELSE LiteralError(FieldLiteral(s), lit),
              WriteError(s, ContainerOp(op, lit)))

\* nest into the one target of an entry.
EnterError(s, sel) ==
    IF s # None THEN "unsupported"
    ELSE IF sel.arm # "field" THEN "IllegalArm"
    ELSE SegmentError(sel.of)

\* Mutant: off by one.
DepthErrorLate(d) == IF d > MaxNest + 1 THEN "TooDeep" ELSE "ok"

DepthError(d) == IF d > MaxNest THEN "TooDeep" ELSE "ok"

------------------------------------------------------------------------------
(* What a step that is not refused does.                                   *)

\* Mutants: the first write of a column wins; edits compose backwards.
FoldedFirst(w, op) ==
    IF w = NoWrite THEN op ELSE IF w.kind = "edit" /\ op.kind = "edit" THEN EditJSON(w.ops \o op.ops) ELSE w
FoldedBack(w, op) == IF w.kind = "edit" /\ op.kind = "edit" THEN EditJSON(op.ops \o w.ops) ELSE op

\* Two edits of a column compose in order; anything else replaces.
Folded(w, op) ==
    IF w.kind = "edit" /\ op.kind = "edit" THEN EditJSON(w.ops \o op.ops) ELSE op

\* Mutant: every write of a column is one of the plan's.
OrderedTwice(p) == Append(order, p)

Ordered(p) == IF writes[p] = NoWrite THEN Append(order, p) ELSE order

\* Mutant: the test for an earlier write inverted.
WrittenLate(p) == IF writes[p] = NoWrite THEN wrote ELSE wrote \cup {p}

Written(p) == wrote \cup {p}

Write(p, op, v) ==
    /\ wrote' = Written(p)
    /\ order' = Ordered(p)
    /\ writes' = [writes EXCEPT ![p] = Folded(@, op)]
    /\ planned' = [planned EXCEPT ![p] = v]

\* Mutant: a change of length goes unrecorded.
ResizeNone(p) == resized' = resized

Resize(p) == resized' = resized \cup {p}

TestOn(p, at, want, lit) ==
    [prop |-> p, at |-> at, want |-> want, val |-> IF want = "equal" THEN lit ELSE None]

\* The reference engine reads what the entries before this one left.
RefTest(p, at, want, lit, reached) ==
    /\ refOk' = (refOk /\ reached /\ Satisfies(p, at, want, lit, ref[p]))
    /\ ref' = ref

\* A miss aborts the reference engine; a write clears the rest of its oneof.
RefWrite(p, miss, v, lost) ==
    /\ refOk' = (refOk /\ ~miss)
    /\ ref' = IF refOk'
              THEN [q \in Prop |-> IF q = p THEN v ELSE IF q \in lost THEN None ELSE ref[q]]
              ELSE ref

Diverge(cond, why) == diverged' = IF refOk /\ cond THEN diverged \cup {why} ELSE diverged

SiblingSet(p) == \E q \in Sibling[p] : ref[q] # None

RecordTest(p, at, want, lit, reached) ==
    /\ tests' = tests \cup {TestOn(p, at, want, lit)}
    /\ RefTest(p, at, want, lit, reached)
    /\ UNCHANGED <<order, writes, wrote, resized, planned, touched, grown>>

\* Mutant: a miss is left to the backend.
GuardNone(p, at, skip) == tests' = tests

\* A write that may miss requires its target as a predicate, unless skipped.
Guard(p, at, skip) ==
    tests' = IF skip THEN tests ELSE tests \cup {TestOn(p, at, "exists", None)}

AtColumn(e, f) ==
    \/ /\ f \in Undeclared
       /\ UNCHANGED <<plan, engines>>
    \/ /\ f \in Prop /\ e.op \in TestOp
       /\ RecordTest(f, None, e.op, e.lit, TRUE)
       /\ UNCHANGED diverged
    \/ /\ f \in Prop /\ e.op = "assign"
       /\ Write(f, ColumnOp(e, f), e.lit)
       /\ RefWrite(f, FALSE, e.lit, Sibling[f])
       /\ Diverge(SiblingSet(f), "oneof sibling")
       /\ touched' = touched \cup ({f} \X Key)
       /\ UNCHANGED <<tests, resized, grown>>
    \/ /\ f \in Prop /\ e.op = "remove"
       /\ Write(f, ColumnOp(e, f), Empty(f))
       /\ RefWrite(f, FALSE, Empty(f), {})
       /\ IF IsCollection(f) THEN Resize(f) ELSE UNCHANGED resized
       /\ touched' = touched \cup ({f} \X Key)
       /\ UNCHANGED <<tests, grown, diverged>>

\* The reference engine reaches an edge that is set, or one it may create.
AtEdge(e) ==
    LET p == e.site
        set == ref[p] # None
    IN  \/ /\ e.op \in TestOp
           /\ RecordTest(p, None, e.op, e.lit, set)
           /\ Diverge(~set /\ e.op = "absent", "edge path")
        \/ /\ e.op = "assign"
           /\ Write(p, SetEdge(e.lit), e.lit)
           /\ RefWrite(p, ~set /\ ~e.create, e.lit, Sibling[p])
           /\ Diverge(SiblingSet(p) \/ (~set /\ ~e.create),
                      IF SiblingSet(p) THEN "oneof sibling" ELSE "edge path")
           /\ UNCHANGED <<tests, resized, touched, grown>>

AtMapEntry(e, sel) ==
    LET p == e.site
        k == sel.of
        Edited(v) == ExecJSON(p, IF e.op = "assign" THEN JSONSet(k, e.lit) ELSE JSONRemove(k), v)
    IN  \/ /\ sel.arm = "every"
           /\ Write(p, EditJSON(<<JSONClear>>), Empty(p))
           /\ RefWrite(p, FALSE, Empty(p), {})
           /\ Resize(p)
           /\ touched' = touched \cup ({p} \X Key)
           /\ UNCHANGED <<tests, grown, diverged>>
        \/ /\ sel.arm = "mapKey" /\ e.op \in TestOp
           /\ RecordTest(p, k, e.op, e.lit, TRUE)
           /\ UNCHANGED diverged
        \/ /\ sel.arm = "mapKey" /\ e.op = "assign"
           /\ Write(p, EditJSON(<<JSONSet(k, e.lit)>>), Edited(planned[p]))
           /\ RefWrite(p, FALSE, Edited(ref[p]), {})
           /\ touched' = touched \cup {<<p, k>>}
           /\ UNCHANGED <<tests, resized, grown, diverged>>
        \/ /\ sel.arm = "mapKey" /\ e.op = "remove"
           /\ Guard(p, k, e.skip)
           /\ Write(p, EditJSON(<<JSONRemove(k)>>), Edited(planned[p]))
           /\ RefWrite(p, ~e.skip /\ ~Present(p, k, ref[p]), Edited(ref[p]), {})
           /\ Diverge(~e.skip /\ <<p, k>> \in touched, "late guard")
           /\ touched' = touched \cup {<<p, k>>}
           /\ UNCHANGED <<resized, grown>>

AtListElem(e, sel) ==
    LET p == e.site
        i == sel.of
        Done == IF e.op = "assign" THEN JSONSet(i, e.lit) ELSE JSONRemove(i)
        missed == ~Present(p, i, ref[p])
    IN  \/ /\ sel.arm = "append"
           /\ Write(p, EditJSON(<<JSONAppend(e.lit)>>), Append(planned[p], e.lit))
           /\ RefWrite(p, FALSE, Append(ref[p], e.lit), {})
           /\ Resize(p)
           /\ UNCHANGED <<tests, touched, grown, diverged>>
        \/ /\ sel.arm = "index" /\ e.op \in TestOp
           /\ RecordTest(p, i, e.op, e.lit, TRUE)
           /\ UNCHANGED diverged
        \/ /\ sel.arm = "index" /\ e.op \in {"assign", "remove"}
           /\ Guard(p, i, e.skip)
           /\ Write(p, EditJSON(<<Done>>),
                    ExecJSON(p, [Done EXCEPT !.at = Subscript(p, @)], planned[p]))
           /\ RefWrite(p, ~e.skip /\ missed, IF missed THEN ref[p] ELSE ExecJSON(p, Done, ref[p]), {})
           /\ Diverge(IF e.skip THEN missed ELSE p \in grown,
                      IF e.skip THEN "unguarded index" ELSE "late guard")
           /\ IF e.op = "remove" THEN Resize(p) ELSE UNCHANGED resized
           /\ UNCHANGED <<touched, grown>>

AtContainer(s, op, lit) ==
    \/ /\ op = "remove"
       /\ Write(s, ContainerOp(op, lit), Empty(s))
       /\ RefWrite(s, FALSE, Empty(s), {})
       /\ Resize(s)
       /\ touched' = touched \cup ({s} \X Key)
       /\ UNCHANGED <<tests, grown, diverged>>
    \/ /\ op = "assign"
       /\ Write(s, ContainerOp(op, lit), lit)
       /\ RefWrite(s, FALSE, lit, {})
       /\ touched' = touched \cup ({s} \X Key)
       /\ UNCHANGED <<tests, resized, grown, diverged>>
    \/ /\ op = "insert"
       /\ Write(s, ContainerOp(op, lit), planned[s] \o lit)
       /\ RefWrite(s, FALSE, ref[s] \o lit, {})
       /\ grown' = grown \cup {s}
       /\ UNCHANGED <<tests, resized, touched, diverged>>

------------------------------------------------------------------------------
(* The compilation.                                                        *)

Segment == Field \cup {None}

\* No path gets past its first segment, so one second segment stands for all.
Path == {<<>>} \cup {<<s>> : s \in Segment} \cup {<<s, s>> : s \in Segment}

Literal == Val \cup MapLiteral \cup ListLiteral \cup {None}

\* The literals an entry of this operation carries; None where it has none.
LiteralOf(op) == IF op \in {"assign", "insert", "equal"} THEN Literal ELSE {None}

EntryOp == TestOp \cup {"assign", "insert", "remove", "move"}

\* CompileWith returns no plan: what the compiler had is gone.
Refuse(err) ==
    /\ err # "ok"
    /\ verdict' = err
    /\ base' = None /\ depth' = 0 /\ fresh' = TRUE /\ entry' = None
    /\ tests' = {} /\ order' = <<>> /\ wrote' = {} /\ resized' = {}
    /\ writes' = [p \in Prop |-> NoWrite]
    /\ row' = row /\ planned' = row /\ ref' = row /\ refOk' = TRUE
    /\ touched' = {} /\ grown' = {} /\ diverged' = {}

Ready == verdict = "compiling" /\ used < MaxSteps

\* An entry follows, in the delta being compiled.
NextEntry == Ready /\ entry = None

\* message_type names another entity.
Misaddressed == NextEntry /\ used = 0 /\ used' = 1 /\ Refuse("MessageTypeMismatch")

\* A test never softens a miss; a nest has created the edge it reached.
OpenTargets(path, op, skip, create, lit) ==
    /\ NextEntry /\ used' = used
    /\ op \in TestOp => ~skip /\ ~create
    /\ create => path # <<>> /\ path[1] \in Edge
    /\ lit \in LiteralOf(op)
    /\ \/ Refuse(WalkError(base, path))
       \/ /\ WalkError(base, path) = "ok"
          /\ entry' = [op |-> op, skip |-> skip, lit |-> lit, site |-> Walk(base, path),
                       create |-> create \/ base # None, seen |-> {}]
          /\ UNCHANGED <<delta, plan, verdict, row, engines>>

\* patch.Validate leaves no move or copy at container scope.
Container(path, op, lit) ==
    /\ NextEntry /\ used' = used + 1
    /\ lit \in LiteralOf(op)
    /\ LET s == Walk(base, path)
           err == Then(WalkError(base, path), ContainerError(s, op, lit))
       IN  \/ Refuse(err)
           \/ /\ err = "ok"
              /\ AtContainer(s, op, lit)
              /\ fresh' = FALSE
              /\ UNCHANGED <<base, depth, entry, verdict, row>>

Nest(s) ==
    /\ base' = s /\ depth' = depth + 1 /\ fresh' = TRUE
    /\ UNCHANGED <<entry, plan, verdict, row, engines>>

\* nest over n targets, one of them sel.
NestTarget(path, sel, n) ==
    /\ NextEntry /\ used' = used + 1
    /\ LET err == Then(WalkError(base, path),
                  Then(IF n # 1 THEN "unsupported" ELSE EnterError(Walk(base, path), sel),
                       DepthError(depth + 1)))
       IN  \/ Refuse(err)
           \/ err = "ok" /\ Nest(sel.of)

NestContainer(path) ==
    /\ NextEntry /\ used' = used + 1
    /\ LET s == Walk(base, path)
           err == Then(WalkError(base, path),
                  Then(IF SiteKind(s) \in {"root", "edge"} THEN "unsupported" ELSE "ok",
                       DepthError(depth + 1)))
       IN  \/ Refuse(err)
           \/ err = "ok" /\ Nest(s)

Target(sel) ==
    /\ Ready /\ entry # None
    /\ used' = used + 1
    /\ \/ Refuse(TargetError(entry, sel))
       \/ /\ TargetError(entry, sel) = "ok"
          /\ entry' = [entry EXCEPT !.seen = @ \cup {Ident(entry.site, sel)}]
          /\ UNCHANGED <<delta, verdict, row>>
          /\ \/ SiteKind(entry.site) = "root" /\ AtColumn(entry, sel.of)
             \/ SiteKind(entry.site) = "edge" /\ AtEdge(entry)
             \/ SiteKind(entry.site) = "map" /\ AtMapEntry(entry, sel)
             \/ SiteKind(entry.site) = "list" /\ AtListElem(entry, sel)

CloseEntry ==
    /\ verdict = "compiling" /\ entry # None /\ entry.seen # {}
    /\ entry' = None /\ fresh' = FALSE
    /\ UNCHANGED <<base, depth, plan, verdict, used, row, engines>>

CloseDelta ==
    /\ verdict = "compiling" /\ entry = None /\ depth > 0 /\ ~fresh
    /\ depth' = depth - 1
    /\ base' = IF depth = 1 THEN None ELSE base
    /\ UNCHANGED <<fresh, entry, plan, verdict, used, row, engines>>

Finish ==
    /\ verdict = "compiling" /\ entry = None /\ depth = 0 /\ ~fresh
    /\ verdict' = "compiled"
    /\ UNCHANGED <<delta, entry, plan, used, row, engines>>

Init ==
    /\ verdict = "compiling" /\ used = 0
    /\ base = None /\ depth = 0 /\ fresh = TRUE /\ entry = None
    /\ tests = {} /\ order = <<>> /\ wrote = {} /\ resized = {}
    /\ writes = [p \in Prop |-> NoWrite]
    /\ row \in InitRow /\ planned = row /\ ref = row /\ refOk = TRUE
    /\ touched = {} /\ grown = {} /\ diverged = {}

Next ==
    \/ Misaddressed
    \/ \E path \in Path, op \in EntryOp, skip, create \in BOOLEAN, lit \in Literal :
            OpenTargets(path, op, skip, create, lit)
    \/ \E path \in Path, op \in EntryOp \ {"move"}, lit \in Literal : Container(path, op, lit)
    \/ \E path \in Path, sel \in Selector, n \in 1..2 : NestTarget(path, sel, n)
    \/ \E path \in Path : NestContainer(path)
    \/ \E sel \in Selector : Target(sel)
    \/ CloseEntry
    \/ CloseDelta
    \/ Finish

Spec == Init /\ [][Next]_vars

------------------------------------------------------------------------------
(* Properties.                                                             *)

Location == {"", "f", "every", "k", "append", "i"} \X (Field \cup Key \cup Index \cup {None})

Entry == [op : EntryOp, skip : BOOLEAN, lit : Literal, site : Prop \cup {None},
          create : BOOLEAN, seen : SUBSET Location]

Verdict == {"compiling", "compiled", "MessageTypeMismatch", "PathNotReached", "TooDeep",
            "IllegalArm", "IllegalSelector", "VacantTarget", "DuplicateTarget", "TestFailed",
            "unsupported", "immutable", "version", "invalid"}

Divergence == {"oneof sibling", "edge path", "late guard", "unguarded index"}

ControlOK ==
    /\ base \in Prop \cup {None} /\ depth \in 0..MaxNest /\ fresh \in BOOLEAN
    /\ (base = None) = (depth = 0)
    /\ base # None => HasSite(base)
    /\ entry \in Entry \cup {None}
    /\ (entry # None /\ entry.site # None) => HasSite(entry.site)
    /\ verdict \in Verdict /\ used \in 0..MaxSteps

PlanOK ==
    /\ tests \subseteq Test
    /\ order \in Seq(Prop)
    /\ writes \in [Prop -> Op \cup {NoWrite}]
    /\ wrote \subseteq Prop /\ resized \subseteq Prop

EnginesOK ==
    /\ row \in Row /\ planned \in Row /\ ref \in Row /\ refOk \in BOOLEAN
    /\ touched \subseteq Prop \X Key /\ grown \subseteq Prop
    /\ diverged \subseteq Divergence

\* Every variable has its type; nest chains no deeper than MaxNest, and a delta
\* below the root or an entry with a path is at a column that has an inside.
TypeOK == ControlOK /\ PlanOK /\ EnginesOK

Agree ==
    /\ refOk <=> Matches(tests, row)
    /\ refOk => ref = planned

\* The document means the same to both engines (ormpatch/agree_test.go): the
\* statement's WHERE clause matches the row exactly when the reference engine
\* does not abort, and the writes then leave what that engine leaves.  Held of
\* the documents that meet none of the disagreements of Divergence.
Agreement == diverged = {} => Agree

\* What the UPDATE, one assignment for each column, leaves in column p.
Left(p) == IF writes[p] = NoWrite THEN row[p] ELSE Exec(p, writes[p], row[p])

\* The plan is what the writes do: executed on the row, they leave in every
\* column what the document left there (plan.go, Plan and EditJSON).
PlanExecutes == \A p \in Prop : planned[p] = Left(p)

\* How far a document that meets a disagreement may lead the engines apart: where
\* the reference engine applies it, the UPDATE leaves the same row but for the
\* siblings, unset by that engine, of a oneof member the document writes.  A
\* guard that asks too late, an edge path that is not asked and a list that grew
\* may refuse a row or accept one, and never write another value.
OnlySiblingsDiffer ==
    refOk /\ "unguarded index" \notin diverged =>
        \A p \in Prop :
            Left(p) = ref[p] \/ (ref[p] = None /\ \E q \in wrote : p \in Sibling[q])

\* "Writes carries at most one entry per column" (plan.go:17), and WritesTo
\* finds exactly the columns the document wrote.
OneWritePerColumn ==
    /\ \A i, j \in DOMAIN order : order[i] = order[j] => i = j
    /\ {order[i] : i \in DOMAIN order} = {p \in Prop : writes[p] # NoWrite}
    /\ wrote = {p \in Prop : writes[p] # NoWrite}

\* A column that the schema fixes or the server stamps is written by no entry
\* with targets, whichever of the write sites it reaches (compile.go, mutable):
\* all that writes one is an entry with container scope, and that a collection.
ProtectedColumnsUnwritten ==
    [][\A p \in Immutable \cup Version :
           writes'[p] # writes[p] /\ writes'[p] # NoWrite => entry = None /\ IsCollection(p)]_vars

\* "a plan that reached a backend claims its writes are storable"
\* (errors.go:256): no UUID column is left with a value of another width.
PlanStorable == \A p \in Prop : Storable(p, planned[p])

\* An operation fits the column it is for (plan.go:105-126): NULL goes to
\* nullable columns, a key to an edge, a partial edit to a collection, and a
\* map is edited by key, a list by position.
OpsFitColumns ==
    \A p \in Prop :
        LET w == writes[p] IN
        /\ w.kind \in {"clear", "clearEdge"} => p \in Nullable
        /\ w.kind = "setEdge" => p \in Edge /\ ~IsCollection(p)
        /\ w.kind = "clearEdge" => p \in Edge /\ ~IsCollection(p)
        /\ w.kind = "clear" => p \notin Edge
        /\ w.kind = "edit" => IsCollection(p) /\ \A i \in DOMAIN w.ops :
                LET o == w.ops[i] IN
                /\ o.kind \in {"set", "remove"} => IF IsMap(p) THEN o.at \in Key ELSE o.at \in 0..MaxListIndex
                /\ o.kind = "append" => IsList(p)

\* Once a statement has shrunk or emptied a list, no edit after it in the same
\* assignment names a position (doc.go:75-90, addressable).
NoPositionAfterShrink ==
    \A p \in {q \in Prop : IsList(q) /\ writes[q].kind = "edit"} :
        \A i, j \in DOMAIN writes[p].ops :
            (i < j /\ writes[p].ops[i].kind \in {"remove", "clear"})
                => writes[p].ops[j].kind \notin {"set", "remove"}

\* The two engines see the same state of a column for as long as the document
\* has not written it, the same entry of a map for as long as it has not
\* touched that entry, and a list as long as before until it is resized.
UnwrittenAsInRow ==
    \A p \in Prop :
        /\ p \notin wrote => planned[p] = row[p]
        /\ IsMap(p) => \A k \in Key : <<p, k>> \in touched \/ planned[p][k] = row[p][k]
        /\ (IsList(p) /\ writes[p].kind \in {"none", "edit"} /\ p \notin resized \cup grown)
                => Len(planned[p]) = Len(row[p])
=============================================================================
