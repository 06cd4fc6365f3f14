---------------------------- MODULE PatchPlanProofs ----------------------------
(***************************************************************************)
(* Theorems about the plan PatchCompile builds: its writes, their order    *)
(* and what they leave.  Every step refuses the document, leaves the plan  *)
(* as it is, or makes one checked write (StepKinds); each property is then *)
(* a matter of that write alone.                                           *)
(***************************************************************************)
EXTENDS PatchCompileProofs

------------------------------------------------------------------------------
(* What a checked write may rely on.                                       *)

\* What OpsFitColumns says of the operation one column gets.
OpFits(p, w) ==
    /\ w.kind \in {"clear", "clearEdge"} => p \in Nullable
    /\ w.kind = "setEdge" => p \in Edge /\ ~IsCollection(p)
    /\ w.kind = "clearEdge" => p \in Edge /\ ~IsCollection(p)
    /\ w.kind = "clear" => p \notin Edge
    /\ w.kind = "edit" => IsCollection(p) /\ \A i \in DOMAIN w.ops :
            LET o == w.ops[i] IN
            /\ o.kind \in {"set", "remove"} => IF IsMap(p) THEN o.at \in Key ELSE o.at \in 0..MaxListIndex
            /\ o.kind = "append" => IsList(p)

\* An operation of an edit that names a position of a list, and one that
\* leaves the list shorter.
Positional(o) == o.kind \in {"set", "remove"}
Shrinking(o) == o.kind \in {"remove", "clear"}

\* What NoPositionAfterShrink says of the operations of one edit.
Steady(s) == \A i, j \in DOMAIN s : i < j /\ Shrinking(s[i]) => ~Positional(s[j])

\* What addressable and resized have to do with the operations of one edit.
Recorded(p, op) ==
    /\ Steady(op.ops)
    /\ (\E i \in DOMAIN op.ops : Positional(op.ops[i])) => p \notin resized
    /\ (\E i \in DOMAIN op.ops : Shrinking(op.ops[i])) => p \in resized'

\* mutable has been asked of the column, or the entry has container scope.
Permitted(p) == MutableError(p) = "ok" \/ (entry = None /\ IsCollection(p))

\* What a write of column p does in the reference engine: unless it stops there,
\* or meets an index out of the list, the column gets the value the plan gives it,
\* and the other columns keep theirs but for the oneof siblings it unsets.
Mirrored(p, op, v) ==
    /\ refOk' => refOk
    /\ diverged \subseteq diverged'
    /\ refOk' => \A q \in Prop \ {p} : ref'[q] = ref[q] \/ (ref'[q] = None /\ q \in Sibling[p])
    /\ (refOk' /\ "unguarded index" \notin diverged' /\ (op.kind = "edit" => ref[p] = planned[p]))
            => ref'[p] = v

\* A write of column p that has passed every check of its handler.
Checked(p, op, v) ==
    /\ p \in Prop /\ op \in Op /\ InColumn(p, v)
    /\ Write(p, op, v)
    /\ WriteError(p, op) = "ok"
    /\ Permitted(p)
    /\ OpFits(p, op)
    /\ Storable(p, planned[p]) => Storable(p, v)
    /\ v = Exec(p, op, planned[p])
    /\ IsList(p) /\ op.kind = "edit" => Recorded(p, op)
    /\ resized \subseteq resized'
    /\ row' = row

\* A step that writes nothing.
Quiet ==
    /\ UNCHANGED <<order, writes, wrote, resized, planned, row, ref>>
    /\ refOk' => refOk
    /\ diverged \subseteq diverged'

\* Operations of different kinds differ, and no operation is NoWrite.
LEMMA OpKinds ==
    /\ \A v : SetColumn(v).kind = "set" /\ SetColumn(v).val = v
    /\ \A v : SetEdge(v).kind = "setEdge" /\ SetEdge(v).val = v
    /\ ClearColumn.kind = "clear" /\ ClearEdge.kind = "clearEdge"
    /\ \A s : EditJSON(s).kind = "edit" /\ EditJSON(s).ops = s
    /\ \A op \in Op : op # NoWrite
BY DEF SetColumn, SetEdge, ClearColumn, ClearEdge, EditJSON, Op, NoWrite

\* A write replaces the whole column, or does not depend on what it held.
LEMMA ExecWhole ==
    ASSUME NEW p, NEW op \in Op, op.kind # "edit", NEW v
    PROVE  Exec(p, op, v) = IF op.kind \in {"set", "setEdge"} THEN op.val ELSE None
BY DEF Exec, Op

\* An empty column holds no value of the wrong width.
LEMMA EmptyStorable == ASSUME NEW p \in Prop PROVE Storable(p, Empty(p))
<1>1. Shape[p] \in {"scalar", "map", "list"}
  BY SchemaAssumption
<1>2. CASE Shape[p] = "scalar"
  BY <1>2 DEF Storable, ValuesIn, Empty
<1>3. CASE Shape[p] = "map"
  BY <1>3 DEF Storable, ValuesIn, Empty
<1>4. CASE Shape[p] = "list"
  BY <1>4 DEF Storable, ValuesIn, Empty
<1> QED BY <1>1, <1>2, <1>3, <1>4

\* What a write's check has said of the values it carries.
LEMMA WriteOk ==
    ASSUME NEW p, NEW op, WriteError(p, op) = "ok"
    PROVE  /\ op.kind \in {"set", "setEdge"} => Storable(p, op.val)
           /\ op.kind = "edit" => /\ p \in Uuid => \A i \in DOMAIN op.ops : op.ops[i].val \notin Short
                                  /\ writes[p].kind \in {"none", "edit"}
BY DEF WriteError, OpStorable

\* The values a list column holds after an edit of it are its own and the edit's.
LEMMA ListStorable ==
    ASSUME NEW p \in Prop, IsList(p), NEW v \in ListValue, Storable(p, v), NEW w \in ListValue,
           p \in Uuid => \A i \in DOMAIN w : w[i] \notin Short \/ \E j \in DOMAIN v : w[i] = v[j]
    PROVE  Storable(p, w)
BY DEF Storable, ValuesIn, IsList

\* The same of a map column.
LEMMA MapStorable ==
    ASSUME NEW p \in Prop, IsMap(p), NEW v \in MapValue, Storable(p, v), NEW w \in MapValue,
           p \in Uuid => \A k \in Key : w[k] = None \/ w[k] \notin Short \/ w[k] = v[k]
    PROVE  Storable(p, w)
BY DEF Storable, ValuesIn, IsMap

\* So are those of a set element.
LEMMA SetElemStorable ==
    ASSUME NEW p \in Prop, IsList(p), NEW i \in Int, NEW x \in Val, p \in Uuid => x \notin Short,
           NEW v \in ListValue, Storable(p, v)
    PROVE  Storable(p, ExecJSON(p, JSONSet(i, x), v))
<1> DEFINE w == ExecJSON(p, JSONSet(i, x), v)
<1>1. ~IsMap(p)
  BY DEF IsMap, IsList
<1>2. CASE InRange(v, i)
  <2>1. w = ReplaceAt(v, Position(v, i), x) /\ Position(v, i) \in DOMAIN v
    BY <1>1, <1>2 DEF ExecJSON, JSONSet, InRange
  <2>2. w \in ListValue
    BY <2>1, ReplaceAtList
  <2>3. \A j \in DOMAIN w : w[j] = x \/ (j \in DOMAIN v /\ w[j] = v[j])
    BY <2>1 DEF ReplaceAt, ListValue
  <2>4. p \in Uuid => \A j \in DOMAIN w : w[j] \notin Short \/ \E k \in DOMAIN v : w[j] = v[k]
    BY <2>3
  <2> HIDE DEF w
  <2>5. Storable(p, w)
    BY <2>2, <2>4, ListStorable
  <2> QED BY <2>5 DEF w
<1>3. CASE ~InRange(v, i)
  BY <1>1, <1>3 DEF ExecJSON, JSONSet
<1> QED BY <1>2, <1>3

\* And those of a list that has lost an element.
LEMMA RemoveElemStorable ==
    ASSUME NEW p \in Prop, IsList(p), NEW i \in Int, NEW v \in ListValue, Storable(p, v)
    PROVE  Storable(p, ExecJSON(p, JSONRemove(i), v))
<1> DEFINE w == ExecJSON(p, JSONRemove(i), v)
<1>1. ~IsMap(p)
  BY DEF IsMap, IsList
<1>2. CASE InRange(v, i)
  <2>1. w = RemoveAt(v, Position(v, i)) /\ Position(v, i) \in DOMAIN v
    BY <1>1, <1>2 DEF ExecJSON, JSONRemove, InRange
  <2>2. w \in ListValue
    BY <2>1, RemoveAtList
  <2>3. \A j \in DOMAIN w : w[j] = v[IF j < Position(v, i) THEN j ELSE j + 1]
                             /\ (IF j < Position(v, i) THEN j ELSE j + 1) \in DOMAIN v
    <3> DEFINE n == Position(v, i)
    <3>1. n \in DOMAIN v /\ w = SubSeq(v, 1, n - 1) \o SubSeq(v, n + 1, Len(v))
      BY <2>1 DEF RemoveAt
    <3> DEFINE a == SubSeq(v, 1, n - 1)
               b == SubSeq(v, n + 1, Len(v))
    <3>2. n \in 1..Len(v) /\ v \in Seq(Val)
      BY <3>1 DEF ListValue
    <3> HIDE DEF n, w
    <3>3. a \in Seq(Val) /\ Len(a) = n - 1 /\ \A j \in 1..(n - 1) : a[j] = v[j]
      BY <3>2
    <3>4. b \in Seq(Val) /\ Len(b) = Len(v) - n /\ \A j \in 1..(Len(v) - n) : b[j] = v[n + j]
      BY <3>2
    <3>5. w = a \o b
      BY <3>1
    <3> HIDE DEF a, b
    <3>6. DOMAIN w = 1..(Len(v) - 1)
      BY <3>2, <3>3, <3>4, <3>5
    <3>7. ASSUME NEW j \in 1..(Len(v) - 1)
          PROVE  w[j] = v[IF j < n THEN j ELSE j + 1]
      <4>1. CASE j < n
        BY <3>2, <3>3, <3>4, <3>5, <4>1
      <4>2. CASE j >= n
        <5>1. w[j] = b[j - (n - 1)]
          BY <3>2, <3>3, <3>4, <3>5, <4>2
        <5>2. b[j - (n - 1)] = v[n + (j - (n - 1))]
          BY <3>2, <3>4, <4>2
        <5> QED BY <3>2, <4>2, <5>1, <5>2
      <4> QED BY <3>2, <4>1, <4>2
    <3> QED BY <3>2, <3>6, <3>7 DEF n
  <2>4. \A j \in DOMAIN w : \E k \in DOMAIN v : w[j] = v[k]
    BY <2>3
  <2> HIDE DEF w
  <2>5. Storable(p, w)
    BY <2>2, <2>4, ListStorable
  <2> QED BY <2>5 DEF w
<1>3. CASE ~InRange(v, i)
  <2>1. w = IF v = <<>> THEN v ELSE Front(v)
    BY <1>1, <1>3 DEF ExecJSON, JSONRemove
  <2>2. w \in ListValue /\ \A j \in DOMAIN w : \E k \in DOMAIN v : w[j] = v[k]
    BY <2>1, FrontList
  <2> HIDE DEF w
  <2>3. Storable(p, w)
    BY <2>2, ListStorable
  <2> QED BY <2>3 DEF w
<1> QED BY <1>2, <1>3

\* And those of a list that another follows.
LEMMA ConcatStorable ==
    ASSUME NEW p \in Prop, IsList(p), NEW v \in ListValue, Storable(p, v), NEW l \in ListValue,
           p \in Uuid => \A i \in DOMAIN l : l[i] \notin Short
    PROVE  Storable(p, v \o l)
<1>1. v \o l \in ListValue
  BY DEF ListValue
<1>2. \A j \in DOMAIN (v \o l) :
        (j \in DOMAIN v /\ (v \o l)[j] = v[j]) \/ \E i \in DOMAIN l : (v \o l)[j] = l[i]
  BY DEF ListValue
<1> DEFINE w == v \o l
<1>3. p \in Uuid => \A j \in DOMAIN w : w[j] \notin Short \/ \E i \in DOMAIN v : w[j] = v[i]
  BY <1>2
<1>4. w \in ListValue
  BY <1>1
<1> HIDE DEF w
<1>5. Storable(p, w)
  BY <1>3, <1>4, ListStorable
<1> QED BY <1>5 DEF w

\* And those of a map with an entry set, or removed.
LEMMA EntryStorable ==
    ASSUME NEW p \in Prop, IsMap(p), NEW v \in MapValue, Storable(p, v), NEW k \in Key,
           NEW x \in Val \cup {None}, p \in Uuid => x \notin Short
    PROVE  Storable(p, [v EXCEPT ![k] = x])
<1>1. [v EXCEPT ![k] = x] \in MapValue
  BY DEF MapValue
<1>2. \A j \in Key : [v EXCEPT ![k] = x][j] = x \/ [v EXCEPT ![k] = x][j] = v[j]
  BY DEF MapValue
<1> QED BY <1>1, <1>2, MapStorable

------------------------------------------------------------------------------
(* The handlers.                                                           *)

\* An edit of one operation is a checked write.
LEMMA OneEditChecked ==
    ASSUME NEW p \in Prop, IsCollection(p), NEW o \in JSONOp, NEW v, InColumn(p, v),
           Write(p, EditJSON(<<o>>), v), WriteError(p, EditJSON(<<o>>)) = "ok", row' = row,
           v = Run(p, o, planned[p]),
           Storable(p, planned[p]) => Storable(p, v),
           Positional(o) => IF IsMap(p) THEN o.at \in Key ELSE o.at \in 0..MaxListIndex,
           o.kind = "append" => IsList(p),
           IsList(p) /\ Positional(o) => p \notin resized,
           IsList(p) /\ Shrinking(o) => p \in resized',
           resized \subseteq resized', Permitted(p)
    PROVE  Checked(p, EditJSON(<<o>>), v)
<1> DEFINE op == EditJSON(<<o>>)
<1>1. op \in Op
  BY OpTyped
<1>2. v = Exec(p, op, planned[p])
  BY ExecOne
<1>3. op.kind = "edit" /\ op.ops = <<o>>
  BY OpKinds
<1>4. Write(p, op, v) /\ WriteError(p, op) = "ok"
  OBVIOUS
<1> HIDE DEF op
<1>5. OpFits(p, op)
  BY <1>3 DEF OpFits, Positional
<1>6. IsList(p) => Recorded(p, op)
  BY <1>3 DEF Recorded, Steady
<1>7. Checked(p, op, v)
  BY <1>1, <1>2, <1>4, <1>5, <1>6 DEF Checked
<1> QED BY <1>7 DEF op

\* The emptying of a collection is a checked write.
LEMMA ClearChecked ==
    ASSUME NEW p \in Prop, IsCollection(p), row' = row, resized' = resized \cup {p},
           Write(p, EditJSON(<<JSONClear>>), Empty(p)),
           WriteError(p, EditJSON(<<JSONClear>>)) = "ok", Permitted(p)
    PROVE  Checked(p, EditJSON(<<JSONClear>>), Empty(p))
<1> DEFINE o == JSONClear
<1>1. o \in JSONOp /\ o.kind = "clear"
  BY JSONOpTyped DEF JSONClear
<1>2. Empty(p) = Run(p, o, planned[p])
  BY DEF Run, ExecJSON, JSONClear
<1>3. Write(p, EditJSON(<<o>>), Empty(p)) /\ WriteError(p, EditJSON(<<o>>)) = "ok"
  OBVIOUS
<1> HIDE DEF o
<1>4. Checked(p, EditJSON(<<o>>), Empty(p))
  BY <1>1, <1>2, <1>3, EmptyInColumn, EmptyStorable, OneEditChecked DEF Positional
<1> QED BY <1>4 DEF o

\* So is the setting of a column.
LEMMA SetChecked ==
    ASSUME NEW p \in Prop, NEW v, InColumn(p, v), Write(p, SetColumn(v), v),
           WriteError(p, SetColumn(v)) = "ok", Permitted(p),
           row' = row, resized' = resized
    PROVE  Checked(p, SetColumn(v), v)
<1> DEFINE op == SetColumn(v)
<1>1. op \in Op /\ op.kind = "set" /\ op.val = v
  BY OpTyped, OpKinds
<1>2. Write(p, op, v) /\ WriteError(p, op) = "ok"
  OBVIOUS
<1> HIDE DEF op
<1>3. OpFits(p, op)
  BY <1>1 DEF OpFits
<1>4. v = Exec(p, op, planned[p])
  BY <1>1, ExecWhole
<1>5. Storable(p, v)
  BY <1>1, <1>2, WriteOk
<1>6. Checked(p, op, v)
  BY <1>1, <1>2, <1>3, <1>4, <1>5 DEF Checked
<1> QED BY <1>6 DEF op

\* So is the setting of an edge.
LEMMA SetEdgeChecked ==
    ASSUME NEW p \in Prop, NEW v \in Val, p \in Edge, Shape[p] = "scalar",
           Write(p, SetEdge(v), v), WriteError(p, SetEdge(v)) = "ok", Permitted(p),
           row' = row, resized' = resized
    PROVE  Checked(p, SetEdge(v), v)
<1> DEFINE op == SetEdge(v)
<1>1. op \in Op /\ op.kind = "setEdge" /\ op.val = v
  BY OpTyped, OpKinds
<1>2. Write(p, op, v) /\ WriteError(p, op) = "ok"
  OBVIOUS
<1> HIDE DEF op
<1>3. OpFits(p, op)
  BY <1>1 DEF OpFits, IsCollection
<1>4. v = Exec(p, op, planned[p])
  BY <1>1, ExecWhole
<1>5. Storable(p, v)
  BY <1>1, <1>2, WriteOk
<1>6. InColumn(p, v)
  BY DEF InColumn, ScalarValue
<1>7. Checked(p, op, v)
  BY <1>1, <1>2, <1>3, <1>4, <1>5, <1>6 DEF Checked
<1> QED BY <1>7 DEF op

\* So is the clearing of a column that is not a collection.
LEMMA ClearColumnChecked ==
    ASSUME NEW p \in Prop, NEW op \in {ClearColumn, ClearEdge}, ~IsCollection(p), p \in Nullable,
           op = ClearEdge <=> p \in Edge,
           Write(p, op, Empty(p)), WriteError(p, op) = "ok", Permitted(p),
           row' = row, resized' = resized
    PROVE  Checked(p, op, Empty(p))
<1>1. op \in Op /\ op.kind \in {"clear", "clearEdge"} /\ (op.kind = "clearEdge" <=> p \in Edge)
  BY OpTyped, OpKinds
<1>2. OpFits(p, op)
  BY <1>1 DEF OpFits
<1>3. Empty(p) = None
  BY SchemaAssumption DEF Empty, IsCollection
<1>4. Empty(p) = Exec(p, op, planned[p])
  BY <1>1, <1>3, ExecWhole
<1> QED BY <1>1, <1>2, <1>4, EmptyInColumn, EmptyStorable DEF Checked

------------------------------------------------------------------------------
(* The handlers.                                                           *)

\* A step of the compiler as the plan sees it.
StepOfPlan ==
    Quiet \/ \E p \in Prop, op \in Op, v \in Column : Checked(p, op, v) /\ Mirrored(p, op, v)

\* A checked write, mirrored by the reference engine, is such a step.
LEMMA CheckedIsStep ==
    ASSUME NEW p, NEW op, NEW v, Checked(p, op, v), Mirrored(p, op, v) PROVE StepOfPlan
BY InColumnIsColumn DEF Checked, StepOfPlan

\* The value a write leaves in the reference engine is the plan's.
SameValue(p, op, miss, v, rv) ==
    (refOk /\ ~miss /\ "unguarded index" \notin diverged'
        /\ (op.kind = "edit" => ref[p] = planned[p])) => rv = v

\* What a handler does in the reference engine mirrors the write it plans.
LEMMA WriteMirrored ==
    ASSUME NEW p \in Prop, NEW op, NEW v, NEW rv, NEW miss \in BOOLEAN, NEW lost,
           RefWrite(p, miss, rv, lost), lost \subseteq Sibling[p],
           diverged \subseteq diverged', SameValue(p, op, miss, v, rv)
    PROVE  Mirrored(p, op, v)
<1>1. refOk' <=> refOk /\ ~miss
  BY DEF RefWrite
<1>2. refOk' => ref' = [q \in Prop |-> IF q = p THEN rv ELSE IF q \in lost THEN None ELSE ref[q]]
  BY DEF RefWrite
<1>3. refOk' => /\ ref'[p] = rv
                /\ \A q \in Prop \ {p} : ref'[q] = ref[q] \/ (ref'[q] = None /\ q \in Sibling[p])
  BY <1>2
<1>4. refOk' => refOk /\ ~miss
  BY <1>1
<1> QED BY <1>3, <1>4 DEF Mirrored, SameValue

\* So does a write that can neither miss nor unset a sibling.
LEMMA PlainMirrored ==
    ASSUME NEW p \in Prop, NEW op, NEW v, NEW rv, RefWrite(p, FALSE, rv, {}), diverged' = diverged,
           (op.kind = "edit" => ref[p] = planned[p]) => rv = v
    PROVE  Mirrored(p, op, v)
<1> DEFINE miss == FALSE
           lost == {}
<1>1. /\ miss \in BOOLEAN /\ lost \subseteq Sibling[p] /\ diverged \subseteq diverged'
      /\ RefWrite(p, miss, rv, lost)
      /\ SameValue(p, op, miss, v, rv)
  BY DEF SameValue
<1> HIDE DEF miss, lost
<1> QED BY <1>1, WriteMirrored

\* The disagreements a document has met are never forgotten.
LEMMA DivergedGrows == ASSUME NEW cond, NEW why, Diverge(cond, why) PROVE diverged \subseteq diverged'
BY DEF Diverge

\* So is a recorded test.
LEMMA TestIsStep ==
    ASSUME NEW p, NEW at, NEW want, NEW lit, NEW reached, RecordTest(p, at, want, lit, reached),
           row' = row, diverged \subseteq diverged'
    PROVE  StepOfPlan
BY DEF RecordTest, RefTest, StepOfPlan, Quiet

\* The handler of a field or a whole collection.
LEMMA AtColumnStep ==
    ASSUME NEW e, NEW sel, e.op \in EntryOp \ {"move"},
           ColumnError(e, sel) = "ok", AtColumn(e, sel.of), row' = row
    PROVE  StepOfPlan
<1> DEFINE f == sel.of
<1>0. f \notin Undeclared \/ f \notin Prop
  BY CompilerAssumption
<1>1. CASE f \in Undeclared
  <2>1. UNCHANGED <<plan, engines>>
    BY <1>0, <1>1 DEF AtColumn
  <2> QED BY <2>1 DEF plan, engines, StepOfPlan, Quiet
<1>2. CASE f \in Prop /\ e.op \in TestOp
  <2>1. RecordTest(f, None, e.op, e.lit, TRUE) /\ diverged' = diverged
    BY <1>0, <1>2 DEF AtColumn, TestOp
  <2> QED BY <2>1, TestIsStep
<1>3. CASE f \in Prop /\ e.op = "assign"
  <2>1. /\ Write(f, ColumnOp(e, f), e.lit) /\ resized' = resized
        /\ RefWrite(f, FALSE, e.lit, Sibling[f]) /\ Diverge(SiblingSet(f), "oneof sibling")
    BY <1>0, <1>3 DEF AtColumn, TestOp
  <2>2. MutableError(f) = "ok" /\ WriteError(f, ColumnOp(e, f)) = "ok" /\ e.lit \in FieldLiteral(f)
    BY <1>3, ColumnOk, ColumnOpOk
  <2>3. ColumnOp(e, f) = SetColumn(e.lit)
    BY <1>3 DEF ColumnOp
  <2>4. InColumn(f, e.lit)
    BY <1>3, <2>2, FieldLiteralFits
  <2>5. Checked(f, SetColumn(e.lit), e.lit)
    BY <1>3, <2>1, <2>2, <2>3, <2>4, SetChecked DEF Permitted
  <2>6. Mirrored(f, SetColumn(e.lit), e.lit)
    BY <1>3, <2>1, DivergedGrows, WriteMirrored DEF SameValue
  <2> QED BY <2>5, <2>6, CheckedIsStep
<1>4. CASE f \in Prop /\ e.op = "remove"
  <2>1. /\ Write(f, ColumnOp(e, f), Empty(f)) /\ IF IsCollection(f) THEN Resize(f) ELSE UNCHANGED resized
        /\ RefWrite(f, FALSE, Empty(f), {}) /\ diverged' = diverged
    BY <1>0, <1>4 DEF AtColumn, TestOp
  <2>0. \A op : Mirrored(f, op, Empty(f))
    BY <1>4, <2>1, PlainMirrored
  <2>2. /\ MutableError(f) = "ok" /\ WriteError(f, ColumnOp(e, f)) = "ok"
        /\ f \in Nullable \/ (f \notin Edge /\ IsCollection(f))
    BY <1>4, ColumnOk, ColumnOpOk
  <2>3. CASE IsCollection(f)
    <3>1. f \notin Edge
      BY <2>2, <2>3, CompilerAssumption DEF IsCollection
    <3>2. ColumnOp(e, f) = EditJSON(<<JSONClear>>)
      BY <1>4, <2>3, <3>1 DEF ColumnOp
    <3>3. Checked(f, EditJSON(<<JSONClear>>), Empty(f))
      BY <1>4, <2>1, <2>2, <2>3, <3>2, ClearChecked DEF Resize, Permitted
    <3> QED BY <2>0, <3>3, CheckedIsStep
  <2>4. CASE ~IsCollection(f)
    <3>1. ColumnOp(e, f) \in {ClearColumn, ClearEdge} /\ (ColumnOp(e, f) = ClearEdge <=> f \in Edge)
      BY <1>4, <2>4, OpKinds DEF ColumnOp
    <3>2. Checked(f, ColumnOp(e, f), Empty(f))
      BY <1>4, <2>1, <2>2, <2>4, <3>1, ClearColumnChecked DEF Permitted
    <3> QED BY <2>0, <3>2, CheckedIsStep
  <2> QED BY <2>3, <2>4
<1> QED BY <1>1, <1>2, <1>3, <1>4, ColumnOk

\* The handler of an edge.
LEMMA AtEdgeStep ==
    ASSUME NEW e, NEW sel, e.op \in EntryOp \ {"move"},
           e.site \in Edge, e.site \in Prop, Shape[e.site] = "scalar",
           EdgeError(e, sel) = "ok", AtEdge(e), row' = row
    PROVE  StepOfPlan
<1> DEFINE p == e.site
<1>1. CASE e.op \in TestOp
  <2>1. RecordTest(p, None, e.op, e.lit, ref[p] # None)
        /\ Diverge(ref[p] = None /\ e.op = "absent", "edge path")
    BY <1>1 DEF AtEdge, TestOp
  <2> QED BY <2>1, TestIsStep, DivergedGrows
<1>2. CASE e.op = "assign"
  <2> DEFINE missed == ref[p] = None /\ ~e.create
  <2>1. /\ Write(p, SetEdge(e.lit), e.lit) /\ resized' = resized
        /\ RefWrite(p, missed, e.lit, Sibling[p])
        /\ Diverge(SiblingSet(p) \/ missed, IF SiblingSet(p) THEN "oneof sibling" ELSE "edge path")
    BY <1>2 DEF AtEdge, TestOp
  <2>2. e.lit \in Val /\ MutableError(p) = "ok" /\ WriteError(p, SetEdge(e.lit)) = "ok"
    BY <1>2, EdgeOk
  <2>3. Checked(p, SetEdge(e.lit), e.lit)
    BY <2>1, <2>2, SetEdgeChecked DEF Permitted
  <2>4. missed \in BOOLEAN
    OBVIOUS
  <2> HIDE DEF missed
  <2>5. Mirrored(p, SetEdge(e.lit), e.lit)
    BY <2>1, <2>4, DivergedGrows, WriteMirrored DEF SameValue
  <2> QED BY <2>3, <2>5, CheckedIsStep
<1> QED BY <1>1, <1>2, EdgeOk

\* The handler of a map entry.
LEMMA AtMapEntryStep ==
    ASSUME EnginesOK, NEW e, NEW sel \in Selector, e.op \in EntryOp \ {"move"},
           e.site \in Prop, IsMap(e.site),
           MapError(e, sel) = "ok", AtMapEntry(e, sel), row' = row
    PROVE  StepOfPlan
<1> DEFINE p == e.site
           k == sel.of
<1>1. InColumn(p, planned[p]) /\ planned[p] \in MapValue /\ IsCollection(p) /\ ~IsList(p)
  BY RowColumn DEF EnginesOK, IsMap, InColumn, IsCollection, IsList
<1>2. CASE sel.arm = "every"
  <2>1. /\ Write(p, EditJSON(<<JSONClear>>), Empty(p))
        /\ resized' = resized \cup {p}
        /\ RefWrite(p, FALSE, Empty(p), {}) /\ diverged' = diverged
    BY <1>2 DEF AtMapEntry, Resize
  <2>2. WriteError(p, EditJSON(<<JSONClear>>)) = "ok" /\ Permitted(p)
    BY <1>2, MapOk DEF Permitted
  <2>3. Checked(p, EditJSON(<<JSONClear>>), Empty(p))
    BY <1>1, <2>1, <2>2, ClearChecked
  <2>4. Mirrored(p, EditJSON(<<JSONClear>>), Empty(p))
    BY <2>1, PlainMirrored
  <2> QED BY <2>3, <2>4, CheckedIsStep
<1>3. CASE sel.arm = "mapKey"
  <2>0. k \in Key
    BY <1>3, MapOk DEF Selector
  <2>1. CASE e.op \in TestOp
    <3>1. RecordTest(p, k, e.op, e.lit, TRUE) /\ diverged' = diverged
      BY <1>3, <2>1 DEF AtMapEntry, TestOp
    <3> QED BY <3>1, TestIsStep
  <2>2. CASE e.op \in {"assign", "remove"}
    <3> DEFINE o == IF e.op = "assign" THEN JSONSet(k, e.lit) ELSE JSONRemove(k)
               v == ExecJSON(p, o, planned[p])
    <3>1. e.op = "assign" => e.lit \in Val
      BY <1>3, <2>2, MapOk DEF TestOp
    <3>2. /\ Write(p, EditJSON(<<o>>), v)
          /\ WriteError(p, EditJSON(<<o>>)) = "ok" /\ Permitted(p)
          /\ resized' = resized
      BY <1>3, <2>2, MapOk DEF AtMapEntry, TestOp, Permitted
    <3>3. o \in JSONOp /\ Positional(o) /\ o.at = k /\ o.val \in Val \cup {None} /\ o.kind # "append"
      BY <2>0, <2>2, <3>1, JSONOpTyped DEF Positional, JSONSet, JSONRemove
    <3>4. InColumn(p, v) /\ v = [planned[p] EXCEPT ![k] = o.val]
      BY <1>1, <2>0, <2>2, <3>1, JSONSetKey, JSONRemoveKey DEF JSONSet, JSONRemove
    <3>5. v = Run(p, o, planned[p])
      BY <1>1, <2>2 DEF Run, Subscript, JSONSet, JSONRemove
    <3>6. p \in Uuid => o.val \notin Short
      BY <3>2, WriteOk, OpKinds
    <3>9. Mirrored(p, EditJSON(<<o>>), v)
      <4>1. PICK miss \in BOOLEAN : RefWrite(p, miss, ExecJSON(p, o, ref[p]), {})
        BY <1>3, <2>2 DEF AtMapEntry, TestOp
      <4>3. SameValue(p, EditJSON(<<o>>), miss, v, ExecJSON(p, o, ref[p]))
        BY OpKinds DEF SameValue
      <4> HIDE DEF o, v
      <4>2. diverged \subseteq diverged'
        BY <1>3, <2>2, DivergedGrows DEF AtMapEntry, TestOp
      <4> QED BY <4>1, <4>2, <4>3, WriteMirrored
    <3> HIDE DEF o, v
    <3>7. Storable(p, planned[p]) => Storable(p, v)
      BY <1>1, <2>0, <3>3, <3>4, <3>6, EntryStorable
    <3>8. Checked(p, EditJSON(<<o>>), v)
      BY <1>1, <2>0, <3>2, <3>3, <3>4, <3>5, <3>7, OneEditChecked
    <3> QED BY <3>8, <3>9, CheckedIsStep
  <2> QED BY <1>3, <2>1, <2>2, MapOk
<1> QED BY <1>2, <1>3, MapOk

\* The handler of a list element.
LEMMA AtListElemStep ==
    ASSUME EnginesOK, NEW e, NEW sel \in Selector, e.op \in EntryOp \ {"move"},
           e.site \in Prop, IsList(e.site),
           ListError(e, sel) = "ok", AtListElem(e, sel), row' = row
    PROVE  StepOfPlan
<1> DEFINE p == e.site
           i == sel.of
<1>1. InColumn(p, planned[p]) /\ planned[p] \in ListValue /\ IsCollection(p) /\ ~IsMap(p)
  BY RowColumn DEF EnginesOK, IsMap, InColumn, IsCollection, IsList
<1>2. CASE sel.arm = "append"
  <2> DEFINE o == JSONAppend(e.lit)
             v == Append(planned[p], e.lit)
  <2>1. /\ Write(p, EditJSON(<<o>>), v) /\ resized' = resized \cup {p}
        /\ RefWrite(p, FALSE, Append(ref[p], e.lit), {}) /\ diverged' = diverged
    BY <1>2 DEF AtListElem, Resize
  <2>2. e.lit \in Val /\ WriteError(p, EditJSON(<<o>>)) = "ok" /\ Permitted(p)
    BY <1>2, ListOk DEF Permitted
  <2>9. Mirrored(p, EditJSON(<<o>>), v)
    <3>1. EditJSON(<<o>>).kind = "edit" /\ (ref[p] = planned[p] => Append(ref[p], e.lit) = v)
      BY OpKinds
    <3> QED BY <2>1, <3>1, PlainMirrored
  <2>3. o \in JSONOp /\ o.kind = "append" /\ o.val = e.lit
    BY <2>2, JSONOpTyped DEF JSONAppend
  <2>4. v = Run(p, o, planned[p])
    BY DEF Run, ExecJSON, JSONAppend
  <2>5. p \in Uuid => e.lit \notin Short
    BY <2>2, <2>3, WriteOk, OpKinds
  <2>6. InColumn(p, v)
    BY <1>1, <2>2, ListAppend
  <2>7. Storable(p, planned[p]) => Storable(p, v)
    <3>1. v = planned[p] \o <<e.lit>> /\ <<e.lit>> \in ListValue
      BY <1>1, <2>2, SMTT(30) DEF ListValue
    <3>2. \A j \in DOMAIN <<e.lit>> : <<e.lit>>[j] = e.lit
      OBVIOUS
    <3> QED BY <1>1, <2>5, <3>1, <3>2, ConcatStorable
  <2> HIDE DEF o, v
  <2>8. Checked(p, EditJSON(<<o>>), v)
    BY <1>1, <2>1, <2>2, <2>3, <2>4, <2>6, <2>7, OneEditChecked DEF Positional, Shrinking
  <2> QED BY <2>8, <2>9, CheckedIsStep
<1>3. CASE sel.arm = "index"
  <2>0. i \in 0..MaxListIndex /\ p \notin resized
    <3>1. i \in Int
      BY <1>3, CompilerAssumption DEF Selector
    <3>2. AddressableError(p, i) = "ok"
      BY <1>3, ListOk
    <3> QED BY <3>1, <3>2, SchemaAssumption DEF AddressableError
  <2>1. CASE e.op \in TestOp
    <3>1. RecordTest(p, i, e.op, e.lit, TRUE) /\ diverged' = diverged
      BY <1>3, <2>1 DEF AtListElem, TestOp
    <3> QED BY <3>1, TestIsStep
  <2>2. CASE e.op \in {"assign", "remove"}
    <3> DEFINE o == IF e.op = "assign" THEN JSONSet(i, e.lit) ELSE JSONRemove(i)
               v == ExecJSON(p, [o EXCEPT !.at = Subscript(p, @)], planned[p])
    <3>1. e.op = "assign" => e.lit \in Val
      BY <1>3, ListOk DEF TestOp
    <3>2. /\ Write(p, EditJSON(<<o>>), v)
          /\ IF e.op = "remove" THEN Resize(p) ELSE UNCHANGED resized
      BY <1>3, <2>2 DEF AtListElem, TestOp
    <3>3. WriteError(p, EditJSON(<<o>>)) = "ok" /\ Permitted(p)
      BY <1>3, <2>2, ListOk DEF TestOp, Permitted
    <3>4. /\ o \in JSONOp /\ Positional(o) /\ o.at = i /\ o.kind # "append"
          /\ Shrinking(o) <=> e.op = "remove"
      BY <2>0, <2>2, <3>1, JSONOpTyped DEF Positional, Shrinking, JSONSet, JSONRemove
    <3>5. v = Run(p, o, planned[p])
      BY DEF Run
    <3>6. v = ExecJSON(p, o, planned[p])
      BY <2>0, SubscriptIsIndex DEF JSONSet, JSONRemove
    <3>7. InColumn(p, v)
      BY <1>1, <2>0, <2>2, <3>1, <3>6, JSONSetElem, JSONRemoveElem, SchemaAssumption
    <3>8. p \in Uuid => o.val \notin Short
      BY <3>3, WriteOk, OpKinds
    <3>9. Storable(p, planned[p]) => Storable(p, v)
      <4>1. i \in Int
        BY <2>0, SchemaAssumption
      <4>2. CASE e.op = "assign"
        BY <1>1, <3>1, <3>6, <3>8, <4>1, <4>2, SetElemStorable DEF JSONSet
      <4>3. CASE e.op = "remove"
        BY <1>1, <3>6, <4>1, <4>3, RemoveElemStorable
      <4> QED BY <2>2, <4>2, <4>3
    <3>11. Mirrored(p, EditJSON(<<o>>), v)
      <4> DEFINE gone == ~Present(p, i, ref[p])
                 missed == ~e.skip /\ gone
                 rv == IF gone THEN ref[p] ELSE ExecJSON(p, o, ref[p])
                 why == IF e.skip THEN "unguarded index" ELSE "late guard"
      <4>1. /\ RefWrite(p, missed, rv, {})
            /\ Diverge(IF e.skip THEN gone ELSE p \in grown, why)
        BY <1>3, <2>2 DEF AtListElem, TestOp
      <4>2. refOk /\ ~missed /\ "unguarded index" \notin diverged' => ~gone
        BY <4>1 DEF Diverge
      <4>3. ref[p] = planned[p] /\ ~gone => rv = v
        BY <3>6
      <4>4. missed \in BOOLEAN
        OBVIOUS
      <4>6. SameValue(p, EditJSON(<<o>>), missed, v, rv)
        BY <4>2, <4>3, OpKinds DEF SameValue
      <4> HIDE DEF gone, missed, rv, why, v, o
      <4>5. diverged \subseteq diverged' /\ {} \subseteq Sibling[p]
        BY <4>1, DivergedGrows
      <4>7. RefWrite(p, missed, rv, {})
        BY <4>1
      <4> QED BY <4>4, <4>5, <4>6, <4>7, WriteMirrored
    <3> HIDE DEF o, v
    <3>10. Checked(p, EditJSON(<<o>>), v)
      BY <1>1, <2>0, <2>2, <3>2, <3>3, <3>4, <3>5, <3>7, <3>9, OneEditChecked DEF Resize
    <3> QED BY <3>10, <3>11, CheckedIsStep
  <2> QED BY <1>3, <2>1, <2>2, ListOk
<1> QED BY <1>2, <1>3, ListOk

\* The elements of a list appended are a checked write.
LEMMA AppendsChecked ==
    ASSUME EnginesOK, NEW p \in Prop, IsList(p), NEW l \in ListValue,
           Write(p, EditJSON(Appends(l)), planned[p] \o l),
           WriteError(p, EditJSON(Appends(l))) = "ok", Permitted(p),
           row' = row, resized' = resized
    PROVE  Checked(p, EditJSON(Appends(l)), planned[p] \o l)
<1> DEFINE op == EditJSON(Appends(l))
           v == planned[p] \o l
<1>1. InColumn(p, planned[p]) /\ planned[p] \in ListValue /\ IsCollection(p)
  BY RowColumn DEF EnginesOK, InColumn, IsCollection, IsList
<1>2. op \in Op /\ op.kind = "edit" /\ op.ops = Appends(l)
  BY AppendsTyped, OpKinds
<1>3. DOMAIN Appends(l) = DOMAIN l /\ \A i \in DOMAIN l : Appends(l)[i] = JSONAppend(l[i])
  BY DEF Appends
<1>4. \A x : JSONAppend(x).kind = "append" /\ JSONAppend(x).val = x
  BY DEF JSONAppend
<1>5. v = Exec(p, op, planned[p])
  BY <1>1, ExecAppends DEF Appends
<1>6. Write(p, op, v) /\ WriteError(p, op) = "ok" /\ InColumn(p, v)
  BY <1>1, ListConcat
<1> HIDE DEF op
<1>7. p \in Uuid => \A i \in DOMAIN l : l[i] \notin Short
  BY <1>2, <1>3, <1>4, <1>6, WriteOk
<1>8. Storable(p, planned[p]) => Storable(p, v)
  BY <1>1, <1>7, ConcatStorable
<1> HIDE DEF v
<1>9. OpFits(p, op) /\ Recorded(p, op)
  BY <1>1, <1>2, <1>3, <1>4 DEF OpFits, Recorded, Steady, Positional, Shrinking
<1>10. Checked(p, op, v)
  BY <1>1, <1>2, <1>5, <1>6, <1>8, <1>9 DEF Checked
<1> QED BY <1>10 DEF op, v

\* The handler of the container.
LEMMA AtContainerStep ==
    ASSUME EnginesOK, NEW s \in Prop, HasSite(s), NEW op \in EntryOp \ {"move"}, NEW lit,
           ContainerError(s, op, lit) = "ok", AtContainer(s, op, lit), row' = row, entry = None
    PROVE  StepOfPlan
<1>1. IsCollection(s) /\ WriteError(s, ContainerOp(op, lit)) = "ok" /\ Permitted(s)
  BY ContainerOk, SchemaAssumption DEF SiteKind, IsCollection, IsMap, IsList, Permitted
<1>2. CASE op = "remove"
  <2>1. /\ Write(s, ContainerOp(op, lit), Empty(s)) /\ resized' = resized \cup {s}
        /\ RefWrite(s, FALSE, Empty(s), {}) /\ diverged' = diverged
    BY <1>2 DEF AtContainer, Resize
  <2>2. ContainerOp(op, lit) = EditJSON(<<JSONClear>>)
    BY <1>2 DEF ContainerOp
  <2>3. Checked(s, EditJSON(<<JSONClear>>), Empty(s))
    BY <1>1, <2>1, <2>2, ClearChecked
  <2>4. Mirrored(s, EditJSON(<<JSONClear>>), Empty(s))
    BY <2>1, PlainMirrored
  <2> QED BY <2>3, <2>4, CheckedIsStep
<1>3. CASE op = "assign"
  <2>1. /\ Write(s, ContainerOp(op, lit), lit) /\ resized' = resized
        /\ RefWrite(s, FALSE, lit, {}) /\ diverged' = diverged
    BY <1>3 DEF AtContainer
  <2>2. ContainerOp(op, lit) = SetColumn(lit) /\ InColumn(s, lit)
    BY <1>3, ContainerOk, FieldLiteralFits DEF ContainerOp
  <2>3. Checked(s, SetColumn(lit), lit)
    BY <1>1, <2>1, <2>2, SetChecked
  <2>4. Mirrored(s, SetColumn(lit), lit)
    BY <2>1, PlainMirrored
  <2> QED BY <2>3, <2>4, CheckedIsStep
<1>4. CASE op = "insert"
  <2>1. /\ Write(s, ContainerOp(op, lit), planned[s] \o lit) /\ resized' = resized
        /\ RefWrite(s, FALSE, ref[s] \o lit, {}) /\ diverged' = diverged
    BY <1>4 DEF AtContainer
  <2>2. IsList(s) /\ lit \in ListValue
    BY <1>4, ContainerOk, CompilerAssumption DEF FieldLiteral, IsList
  <2>3. ContainerOp(op, lit) = EditJSON(Appends(lit))
    BY <1>4 DEF ContainerOp
  <2>4. Checked(s, EditJSON(Appends(lit)), planned[s] \o lit)
    BY <1>1, <2>1, <2>2, <2>3, AppendsChecked
  <2>5. Mirrored(s, EditJSON(Appends(lit)), planned[s] \o lit)
    <3>1. EditJSON(Appends(lit)).kind = "edit" /\ (ref[s] = planned[s] => ref[s] \o lit = planned[s] \o lit)
      BY OpKinds
    <3> QED BY <2>1, <3>1, PlainMirrored
  <2> QED BY <2>4, <2>5, CheckedIsStep
<1> QED BY <1>2, <1>3, <1>4, ContainerOk

------------------------------------------------------------------------------
(* Every step.                                                             *)

\* A target of an entry.
LEMMA TargetStep ==
    ASSUME TypeOK, NEW sel \in Selector, Target(sel)
    PROVE  StepOfPlan \/ \E err \in Outcome : Refuse(err)
<1>0. ControlOK /\ EnginesOK /\ entry \in Entry /\ entry # None
  BY DEF TypeOK, ControlOK, Target
<1>1. CASE Refuse(TargetError(entry, sel))
  BY <1>0, <1>1, TargetErrorTyped
<1>2. CASE TargetError(entry, sel) = "ok"
  <2>1. /\ row' = row
        /\ \/ SiteKind(entry.site) = "root" /\ AtColumn(entry, sel.of)
           \/ SiteKind(entry.site) = "edge" /\ AtEdge(entry)
           \/ SiteKind(entry.site) = "map" /\ AtMapEntry(entry, sel)
           \/ SiteKind(entry.site) = "list" /\ AtListElem(entry, sel)
    BY <1>2 DEF Target, Refuse
  <2>2. SiteKind(entry.site) = "edge" => entry.site \in Edge
    BY <1>0 DEF ControlOK, SiteKind, HasSite, IsCollection, IsMap, IsList
  <2>3. StepOfPlan
    BY <1>0, <1>2, <2>1, <2>2, TargetOk, AtColumnStep, AtEdgeStep, AtMapEntryStep, AtListElemStep
  <2> QED BY <2>3
<1> QED BY <1>1, <1>2 DEF Target

\* An entry with container scope.
LEMMA ContainerStep ==
    ASSUME TypeOK, NEW path \in Path, NEW op \in EntryOp \ {"move"}, NEW lit \in Literal,
           Container(path, op, lit)
    PROVE  StepOfPlan \/ \E err : Refuse(err)
<1> DEFINE s == Walk(base, path)
           err == Then(WalkError(base, path), ContainerError(s, op, lit))
<1>0. ControlOK /\ EnginesOK
  BY DEF TypeOK
<1>1. CASE Refuse(err)
  BY <1>1
<1>2. CASE err = "ok" /\ AtContainer(s, op, lit) /\ UNCHANGED <<base, depth, entry, verdict, row>>
  <2>1. WalkError(base, path) = "ok" /\ ContainerError(s, op, lit) = "ok"
    BY <1>2, ThenOk
  <2>2. s \in Prop /\ HasSite(s)
    BY <1>0, <2>1, WalkTyped, ContainerOk DEF SiteKind
  <2>3. row' = row /\ entry = None
    BY <1>2 DEF Container, NextEntry
  <2> QED BY <1>0, <1>2, <2>1, <2>2, <2>3, AtContainerStep
<1> QED BY <1>1, <1>2 DEF Container

\* A step refuses the document, writes nothing, or makes one checked write.
LEMMA StepKinds == ASSUME TypeOK, [Next]_vars PROVE StepOfPlan \/ \E err : Refuse(err)
<1>1. CASE Misaddressed
  BY <1>1 DEF Misaddressed
<1>2. ASSUME NEW path \in Path, NEW op \in EntryOp, NEW skip \in BOOLEAN, NEW create \in BOOLEAN,
             NEW lit \in Literal, OpenTargets(path, op, skip, create, lit)
      PROVE  StepOfPlan \/ \E err : Refuse(err)
  <2>1. Refuse(WalkError(base, path)) \/ UNCHANGED <<plan, row, engines>>
    BY <1>2 DEF OpenTargets
  <2> QED BY <2>1 DEF StepOfPlan, Quiet, plan, engines
<1>3. CASE \E path \in Path, op \in EntryOp \ {"move"}, lit \in Literal : Container(path, op, lit)
  BY <1>3, ContainerStep
<1>4. CASE \/ \E path \in Path, sel \in Selector, n \in 1..2 : NestTarget(path, sel, n)
           \/ \E path \in Path : NestContainer(path)
  <2>1. (\E err : Refuse(err)) \/ UNCHANGED <<plan, row, engines>>
    BY <1>4 DEF NestTarget, NestContainer, Nest
  <2> QED BY <2>1 DEF StepOfPlan, Quiet, plan, engines
<1>5. CASE \E sel \in Selector : Target(sel)
  BY <1>5, TargetStep
<1>6. CASE CloseEntry \/ CloseDelta \/ Finish \/ UNCHANGED vars
  <2>1. UNCHANGED <<plan, row, engines>>
    BY <1>6 DEF CloseEntry, CloseDelta, Finish, vars
  <2> QED BY <2>1 DEF StepOfPlan, Quiet, plan, engines
<1> QED BY <1>1, <1>2, <1>3, <1>4, <1>5, <1>6 DEF Next

\* A plan without a write: a document's at its start, and after its refusal.
EmptyPlan ==
    /\ order = <<>> /\ wrote = {} /\ resized = {} /\ writes = [p \in Prop |-> NoWrite]
    /\ planned = row /\ ref = row /\ diverged = {}

\* The plan starts empty.
LEMMA InitEmpty == ASSUME Init PROVE EmptyPlan
BY DEF Init, EmptyPlan

\* A refused document has none.
LEMMA RefuseEmpty == ASSUME NEW err, Refuse(err) PROVE EmptyPlan' /\ row' = row
BY DEF Refuse, EmptyPlan

------------------------------------------------------------------------------
(* One write of each column.                                               *)

\* An empty plan writes each column once at most.
LEMMA OneWriteEmpty == ASSUME EmptyPlan PROVE OneWritePerColumn
BY DEF EmptyPlan, OneWritePerColumn

\* A write names its column once.
LEMMA OneWriteKept ==
    ASSUME TypeOK, OneWritePerColumn, NEW p \in Prop, NEW op \in Op, NEW v, Checked(p, op, v)
    PROVE  OneWritePerColumn'
<1>1. /\ order \in Seq(Prop) /\ writes \in [Prop -> Op \cup {NoWrite}]
      /\ order' = Ordered(p) /\ wrote' = wrote \cup {p}
      /\ writes' = [writes EXCEPT ![p] = Folded(@, op)]
  BY DEF TypeOK, PlanOK, Checked, Write, Written
<1>2. writes'[p] # NoWrite
  BY <1>1, OpKinds DEF Folded, EditJSON, NoWrite
<1>3. {q \in Prop : writes'[q] # NoWrite} = {q \in Prop : writes[q] # NoWrite} \cup {p}
  BY <1>1, <1>2
<1>4. CASE writes[p] = NoWrite
  <2>1. order' = Append(order, p)
    BY <1>1, <1>4 DEF Ordered
  <2>2. \A i \in DOMAIN order : order[i] # p
    BY <1>4 DEF OneWritePerColumn
  <2>3. {order'[i] : i \in DOMAIN order'} = {order[i] : i \in DOMAIN order} \cup {p}
    BY <1>1, <2>1
  <2>4. \A i, j \in DOMAIN order' : order'[i] = order'[j] => i = j
    BY <1>1, <2>1, <2>2 DEF OneWritePerColumn
  <2> QED BY <1>1, <1>3, <2>3, <2>4 DEF OneWritePerColumn
<1>5. CASE writes[p] # NoWrite
  <2>1. order' = order /\ wrote' = wrote
    BY <1>1, <1>5 DEF Ordered, OneWritePerColumn
  <2>2. {q \in Prop : writes'[q] # NoWrite} = {q \in Prop : writes[q] # NoWrite}
    BY <1>3, <1>5
  <2> QED BY <2>1, <2>2 DEF OneWritePerColumn
<1> QED BY <1>4, <1>5

\* The plan of any document has one assignment for a column at most, and its
\* order, its writes and WritesTo name the same columns (plan.go:17).
THEOREM PlanWritesOnce == Spec => []OneWritePerColumn
<1>1. Init => OneWritePerColumn
  BY InitEmpty, OneWriteEmpty
<1>2. TypeOK /\ OneWritePerColumn /\ [Next]_vars => OneWritePerColumn'
  <2> SUFFICES ASSUME TypeOK, OneWritePerColumn, [Next]_vars PROVE OneWritePerColumn'
    OBVIOUS
  <2>1. CASE Quiet
    BY <2>1 DEF Quiet, OneWritePerColumn
  <2>2. CASE EmptyPlan'
    BY <2>2 DEF EmptyPlan, OneWritePerColumn
  <2> QED BY <2>1, <2>2, StepKinds, RefuseEmpty, OneWriteKept DEF StepOfPlan
<1> QED BY <1>1, <1>2, TypeCorrect, PTL DEF Spec

------------------------------------------------------------------------------
(* Which columns are written, and with what.                               *)

\* What a checked write makes of the operation its column had.
LEMMA FoldedIs ==
    ASSUME TypeOK, NEW p \in Prop, NEW op \in Op, NEW v, Checked(p, op, v)
    PROVE  /\ writes' = [writes EXCEPT ![p] = Folded(writes[p], op)]
           /\ writes[p] \in Op \cup {NoWrite} /\ writes \in [Prop -> Op \cup {NoWrite}]
           /\ op.kind = "edit" => op.ops \in Seq(JSONOp)
           /\ writes[p].kind = "edit" => writes[p].ops \in Seq(JSONOp)
           /\ \/ /\ writes[p].kind = "edit" /\ op.kind = "edit"
                 /\ Folded(writes[p], op) = EditJSON(writes[p].ops \o op.ops)
              \/ /\ ~(writes[p].kind = "edit" /\ op.kind = "edit")
                 /\ op.kind = "edit" => writes[p] = NoWrite
                 /\ Folded(writes[p], op) = op
<1>1. writes' = [writes EXCEPT ![p] = Folded(writes[p], op)]
  BY DEF Checked, Write
<1>2. writes[p] \in Op \cup {NoWrite} /\ writes \in [Prop -> Op \cup {NoWrite}]
  BY DEF TypeOK, PlanOK
<1>3. \A o \in Op : o.kind = "edit" => o.ops \in Seq(JSONOp)
  BY DEF Op
<1>4. \A o \in Op : o.kind # "none"
  BY DEF Op
<1>5. op.kind = "edit" => writes[p].kind \in {"none", "edit"}
  BY WriteOk DEF Checked
<1>6. writes[p].kind = "none" => writes[p] = NoWrite
  BY <1>2, <1>4
<1>7. NoWrite.kind = "none"
  BY DEF NoWrite
<1> QED BY <1>1, <1>2, <1>3, <1>5, <1>6, <1>7 DEF Folded

\* No protected column but a collection is in a plan.
ScalarsProtected == \A p \in Immutable \cup Version : IsCollection(p) \/ p \notin wrote

\* The columns that the schema fixes or the server stamps are in no plan
\* (compile.go, mutable), of any document, unless they are collections.
THEOREM ScalarsUnwritten == Spec => []ScalarsProtected
<1>1. Init => ScalarsProtected
  BY DEF Init, ScalarsProtected
<1>2. TypeOK /\ ScalarsProtected /\ [Next]_vars => ScalarsProtected'
  <2> SUFFICES ASSUME TypeOK, ScalarsProtected, [Next]_vars PROVE ScalarsProtected'
    OBVIOUS
  <2>1. CASE Quiet
    BY <2>1 DEF Quiet, ScalarsProtected
  <2>2. CASE EmptyPlan'
    BY <2>2 DEF EmptyPlan, ScalarsProtected
  <2>3. ASSUME NEW p \in Prop, NEW op \in Op, NEW v, Checked(p, op, v) PROVE ScalarsProtected'
    <3>1. wrote' = wrote \cup {p} /\ (IsCollection(p) \/ MutableError(p) = "ok")
      BY <2>3 DEF Checked, Write, Written, Permitted
    <3>2. MutableError(p) = "ok" => p \notin Immutable \cup Version
      BY DEF MutableError
    <3> QED BY <3>1, <3>2 DEF ScalarsProtected
  <2> QED BY <2>1, <2>2, <2>3, StepKinds, RefuseEmpty DEF StepOfPlan
<1> QED BY <1>1, <1>2, TypeCorrect, PTL DEF Spec

\* No entry with targets writes a column that the schema fixes or the server
\* stamps, whole, by key, by position or at the end (compile.go, mutable at each
\* of its write sites): what writes one has container scope, which reaches no
\* mutable, and writes a collection.
THEOREM ProtectedUnwritten == Spec => ProtectedColumnsUnwritten
<1> DEFINE Write1 == \A p \in Immutable \cup Version :
                writes'[p] # writes[p] /\ writes'[p] # NoWrite => entry = None /\ IsCollection(p)
<1>1. TypeOK /\ [Next]_vars => [Write1]_vars
  <2> SUFFICES ASSUME TypeOK, [Next]_vars PROVE Write1
    OBVIOUS
  <2>0. Immutable \cup Version \subseteq Prop
    BY CompilerAssumption
  <2>1. CASE Quiet
    BY <2>1 DEF Quiet
  <2>2. CASE EmptyPlan'
    BY <2>0, <2>2 DEF EmptyPlan
  <2>3. ASSUME NEW p \in Prop, NEW op \in Op, NEW v, Checked(p, op, v) PROVE Write1
    <3>1. \A q \in Prop : q # p => writes'[q] = writes[q]
      BY <2>3, FoldedIs
    <3>2. MutableError(p) = "ok" => p \notin Immutable \cup Version
      BY DEF MutableError
    <3>3. Permitted(p)
      BY <2>3 DEF Checked
    <3> QED BY <2>0, <3>1, <3>2, <3>3 DEF Permitted
  <2> QED BY <2>1, <2>2, <2>3, StepKinds, RefuseEmpty DEF StepOfPlan
<1> QED BY <1>1, TypeCorrect, PTL DEF Spec, ProtectedColumnsUnwritten

\* No UUID column is ever left with a value of another width (errors.go:256),
\* from a row that has none.
THEOREM WritesStorable == Spec => []PlanStorable
<1> DEFINE Inv == PlanStorable /\ \A p \in Prop : Storable(p, row[p])
<1>1. Init => Inv
  BY CompilerAssumption DEF Init, PlanStorable
<1>2. TypeOK /\ Inv /\ [Next]_vars => Inv'
  <2> SUFFICES ASSUME TypeOK, Inv, [Next]_vars PROVE Inv'
    OBVIOUS
  <2>0. planned \in [Prop -> Column]
    BY DEF TypeOK, EnginesOK, Row
  <2>1. CASE Quiet
    BY <2>1 DEF Quiet, PlanStorable
  <2>2. CASE EmptyPlan' /\ row' = row
    BY <2>2 DEF EmptyPlan, PlanStorable
  <2>3. ASSUME NEW p \in Prop, NEW op \in Op, NEW v, Checked(p, op, v) PROVE Inv'
    <3>1. planned' = [planned EXCEPT ![p] = v] /\ row' = row
      BY <2>3 DEF Checked, Write
    <3>2. Storable(p, v)
      BY <2>3 DEF Checked, PlanStorable
    <3> QED BY <2>0, <3>1, <3>2 DEF PlanStorable
  <2> QED BY <2>1, <2>2, <2>3, StepKinds, RefuseEmpty DEF StepOfPlan
<1>3. Inv => PlanStorable
  OBVIOUS
<1> QED BY <1>1, <1>2, <1>3, TypeCorrect, PTL DEF Spec

\* An edit is the edit of its operations.
LEMMA EditIs == ASSUME NEW op \in Op, op.kind = "edit" PROVE op = EditJSON(op.ops)
<1>1. op \in [kind : {"edit"}, ops : Seq(JSONOp)]
  BY DEF Op
<1> QED BY <1>1 DEF EditJSON

\* Two edits that fit a column, and hold only what they must, fit it together.
LEMMA FitsTogether ==
    ASSUME NEW p, NEW a \in Seq(JSONOp), NEW b \in Seq(JSONOp),
           OpFits(p, EditJSON(a)), OpFits(p, EditJSON(b))
    PROVE  OpFits(p, EditJSON(a \o b))
<1>1. \A s : EditJSON(s).kind = "edit" /\ EditJSON(s).ops = s
  BY OpKinds
<1>2. \A i \in DOMAIN (a \o b) : (i \in DOMAIN a /\ (a \o b)[i] = a[i])
                                  \/ \E j \in DOMAIN b : (a \o b)[i] = b[j]
  OBVIOUS
<1>3. ASSUME NEW i \in DOMAIN (a \o b)
      PROVE  LET o == (a \o b)[i] IN
             /\ o.kind \in {"set", "remove"} => IF IsMap(p) THEN o.at \in Key ELSE o.at \in 0..MaxListIndex
             /\ o.kind = "append" => IsList(p)
  BY <1>1, <1>2 DEF OpFits
<1>4. IsCollection(p)
  BY <1>1 DEF OpFits
<1> QED BY <1>1, <1>3, <1>4 DEF OpFits

\* Every operation of every plan fits the column it is for (plan.go:105-126),
\* whatever edits it was folded from.
THEOREM WritesFit == Spec => []OpsFitColumns
<1> DEFINE Inv == \A q \in Prop : OpFits(q, writes[q])
<1>0. Inv => OpsFitColumns
  BY DEF OpFits, OpsFitColumns
<1>1. Init => Inv
  BY DEF Init, OpFits, NoWrite
<1>2. TypeOK /\ Inv /\ [Next]_vars => Inv'
  <2> SUFFICES ASSUME TypeOK, Inv, [Next]_vars PROVE Inv'
    OBVIOUS
  <2>1. CASE Quiet
    BY <2>1 DEF Quiet
  <2>2. CASE EmptyPlan'
    BY <2>2 DEF EmptyPlan, OpFits, NoWrite
  <2>3. ASSUME NEW p \in Prop, NEW op \in Op, NEW v, Checked(p, op, v) PROVE Inv'
    <3>1. OpFits(p, op) /\ OpFits(p, writes[p])
      BY <2>3 DEF Checked
    <3>2. OpFits(p, Folded(writes[p], op))
      <4>1. CASE writes[p].kind = "edit" /\ op.kind = "edit"
        <5>1. writes[p] = EditJSON(writes[p].ops) /\ op = EditJSON(op.ops)
          <6>1. writes[p] \in Op
            BY <2>3, <4>1, FoldedIs DEF NoWrite
          <6> QED BY <4>1, <6>1, EditIs
        <5> QED BY <2>3, <3>1, <4>1, <5>1, FoldedIs, FitsTogether
      <4>2. CASE ~(writes[p].kind = "edit" /\ op.kind = "edit")
        BY <2>3, <3>1, <4>2, FoldedIs
      <4> QED BY <4>1, <4>2
    <3> QED BY <2>3, <3>2, FoldedIs
  <2> QED BY <2>1, <2>2, <2>3, StepKinds, RefuseEmpty DEF StepOfPlan
<1> QED BY <1>0, <1>1, <1>2, TypeCorrect, PTL DEF Spec

------------------------------------------------------------------------------
(* Positions and resizes.                                                  *)

\* NoPositionAfterShrink is not inductive: what keeps a position out of an edit
\* is that the compiler remembers each list it has shrunk.
ShrunkIsResized ==
    \A p \in Prop : (IsList(p) /\ writes[p].kind = "edit") =>
        /\ Steady(writes[p].ops)
        /\ (\E i \in DOMAIN writes[p].ops : Shrinking(writes[p].ops[i])) => p \in resized

\* No position follows the shrinking of a list in one edit composed of two.
LEMMA SteadyTogether ==
    ASSUME NEW a \in Seq(JSONOp), NEW b \in Seq(JSONOp), Steady(a), Steady(b),
           (\E i \in DOMAIN a : Shrinking(a[i])) => \A j \in DOMAIN b : ~Positional(b[j])
    PROVE  Steady(a \o b)
<1> DEFINE s == a \o b
<1>1. \A i \in DOMAIN s : IF i <= Len(a) THEN i \in DOMAIN a /\ s[i] = a[i]
                          ELSE i - Len(a) \in DOMAIN b /\ s[i] = b[i - Len(a)]
  OBVIOUS
<1>2. DOMAIN s \subseteq Int /\ Len(a) \in Int /\ DOMAIN a \subseteq Int /\ DOMAIN b \subseteq Int
  OBVIOUS
<1> HIDE DEF s
<1>3. ASSUME NEW i \in DOMAIN s, NEW j \in DOMAIN s, i < j, Shrinking(s[i]) PROVE ~Positional(s[j])
  <2>1. CASE j <= Len(a)
    BY <1>1, <1>2, <1>3, <2>1 DEF Steady
  <2>2. CASE i <= Len(a) /\ j > Len(a)
    BY <1>1, <1>2, <1>3, <2>2
  <2>3. CASE i > Len(a)
    <3>1. i - Len(a) < j - Len(a) /\ j > Len(a)
      BY <1>2, <1>3, <2>3
    <3> QED BY <1>1, <1>2, <1>3, <2>3, <3>1 DEF Steady
  <2> QED BY <1>2, <1>3, <2>1, <2>2, <2>3
<1>4. Steady(s)
  BY <1>3 DEF Steady
<1> QED BY <1>4 DEF s

\* What shrinks a list in an edit composed of two is in one of them.
LEMMA ShrinkingTogether ==
    ASSUME NEW a \in Seq(JSONOp), NEW b \in Seq(JSONOp), NEW i \in DOMAIN (a \o b),
           Shrinking((a \o b)[i])
    PROVE  (\E j \in DOMAIN a : Shrinking(a[j])) \/ (\E j \in DOMAIN b : Shrinking(b[j]))
<1>1. (i \in DOMAIN a /\ (a \o b)[i] = a[i]) \/ \E j \in DOMAIN b : (a \o b)[i] = b[j]
  OBVIOUS
<1> QED BY <1>1

\* A checked write keeps the record of shrunk lists.
LEMMA ShrunkKept ==
    ASSUME TypeOK, ShrunkIsResized, NEW p \in Prop, NEW op \in Op, NEW v, Checked(p, op, v)
    PROVE  ShrunkIsResized'
<1>1. resized \subseteq resized' /\ (IsList(p) /\ op.kind = "edit" => Recorded(p, op))
  BY DEF Checked
<1>2. ASSUME NEW q \in Prop, q # p, IsList(q), writes'[q].kind = "edit"
      PROVE  /\ Steady(writes'[q].ops)
             /\ (\E i \in DOMAIN writes'[q].ops : Shrinking(writes'[q].ops[i])) => q \in resized'
  <2>1. writes'[q] = writes[q]
    BY <1>2, FoldedIs
  <2> QED BY <1>1, <1>2, <2>1 DEF ShrunkIsResized
<1>3. ASSUME IsList(p), writes'[p].kind = "edit"
      PROVE  /\ Steady(writes'[p].ops)
             /\ (\E i \in DOMAIN writes'[p].ops : Shrinking(writes'[p].ops[i])) => p \in resized'
  <2> DEFINE a == writes[p].ops
             b == op.ops
  <2>1. writes'[p] = Folded(writes[p], op)
    BY FoldedIs
  <2>2. CASE writes[p].kind = "edit" /\ op.kind = "edit"
    <3>0. a \in Seq(JSONOp) /\ b \in Seq(JSONOp) /\ writes'[p] = EditJSON(a \o b)
      BY <2>1, <2>2, FoldedIs
    <3>2. /\ Steady(a) /\ Steady(b)
          /\ (\E i \in DOMAIN a : Shrinking(a[i])) => p \in resized
          /\ (\E i \in DOMAIN b : Positional(b[i])) => p \notin resized
          /\ (\E i \in DOMAIN b : Shrinking(b[i])) => p \in resized'
      BY <1>1, <1>3, <2>2 DEF ShrunkIsResized, Recorded
    <3> HIDE DEF a, b
    <3>1. writes'[p].ops = a \o b
      BY <3>0, OpKinds, Zenon
    <3>3. Steady(a \o b)
      BY <3>0, <3>2, SteadyTogether
    <3> QED BY <1>1, <3>0, <3>1, <3>2, <3>3, ShrinkingTogether
  <2>3. CASE ~(writes[p].kind = "edit" /\ op.kind = "edit")
    <3>1. writes'[p] = op
      BY <2>1, <2>3, FoldedIs
    <3> QED BY <1>1, <1>3, <3>1 DEF Recorded
  <2> QED BY <2>2, <2>3
<1> QED BY <1>2, <1>3 DEF ShrunkIsResized

\* A list that one statement has shrunk or emptied is edited by position no more
\* in the same assignment (doc.go:75-90, addressable), in any document.
THEOREM PositionsBeforeShrink == Spec => []NoPositionAfterShrink
<1>0. ShrunkIsResized => NoPositionAfterShrink
  BY DEF ShrunkIsResized, NoPositionAfterShrink, Steady, Shrinking, Positional
<1>1. Init => ShrunkIsResized
  BY DEF Init, ShrunkIsResized, NoWrite
<1>2. TypeOK /\ ShrunkIsResized /\ [Next]_vars => ShrunkIsResized'
  <2> SUFFICES ASSUME TypeOK, ShrunkIsResized, [Next]_vars PROVE ShrunkIsResized'
    OBVIOUS
  <2>1. CASE Quiet
    BY <2>1 DEF Quiet, ShrunkIsResized
  <2>2. CASE EmptyPlan'
    BY <2>2 DEF EmptyPlan, ShrunkIsResized, NoWrite
  <2> QED BY <2>1, <2>2, StepKinds, RefuseEmpty, ShrunkKept DEF StepOfPlan
<1> QED BY <1>0, <1>1, <1>2, TypeCorrect, PTL DEF Spec

------------------------------------------------------------------------------
(* What the plan leaves.                                                   *)

\* A checked write composed with what its column had does both.
LEMMA ExecFolded ==
    ASSUME TypeOK, PlanExecutes, NEW p \in Prop, NEW op \in Op, NEW v, Checked(p, op, v)
    PROVE  v = Exec(p, Folded(writes[p], op), row[p])
<1>1. v = Exec(p, op, planned[p])
  BY DEF Checked
<1>2. planned[p] = IF writes[p] = NoWrite THEN row[p] ELSE Exec(p, writes[p], row[p])
  BY DEF PlanExecutes, Left
<1>3. CASE writes[p].kind = "edit" /\ op.kind = "edit"
  <2> DEFINE a == writes[p].ops
             b == op.ops
  <2>1. writes[p] \in Op /\ writes[p] # NoWrite
    BY <1>3, FoldedIs DEF NoWrite
  <2>2. writes[p] = EditJSON(a) /\ op = EditJSON(b)
    BY <1>3, <2>1, EditIs
  <2>3. a \in Seq(JSONOp) /\ b \in Seq(JSONOp) /\ Folded(writes[p], op) = EditJSON(a \o b)
    BY <1>3, FoldedIs
  <2> HIDE DEF a, b
  <2> QED BY <1>1, <1>2, <2>1, <2>2, <2>3, ExecConcat
<1>4. CASE ~(writes[p].kind = "edit" /\ op.kind = "edit")
  <2>1. Folded(writes[p], op) = op /\ (op.kind = "edit" => writes[p] = NoWrite)
    BY <1>4, FoldedIs
  <2>2. CASE op.kind = "edit"
    BY <1>1, <1>2, <2>1, <2>2
  <2>3. CASE op.kind # "edit"
    BY <1>1, <2>1, <2>3, ExecWhole
  <2> QED BY <2>2, <2>3
<1> QED BY <1>3, <1>4

\* The plan of any document, executed on any row, leaves in each column what the
\* document's entries leave there one after the other, however many of them are
\* folded into the column's one write (plan.go, Plan and EditJSON).
THEOREM PlanMeansDocument == Spec => []PlanExecutes
<1>1. Init => PlanExecutes
  BY DEF Init, PlanExecutes, Left
<1>2. TypeOK /\ PlanExecutes /\ [Next]_vars => PlanExecutes'
  <2> SUFFICES ASSUME TypeOK, PlanExecutes, [Next]_vars PROVE PlanExecutes'
    OBVIOUS
  <2>0. planned \in [Prop -> Column] /\ writes \in [Prop -> Op \cup {NoWrite}]
    BY DEF TypeOK, EnginesOK, PlanOK, Row
  <2>1. CASE Quiet
    BY <2>1 DEF Quiet, PlanExecutes, Left
  <2>2. CASE EmptyPlan' /\ row' = row
    BY <2>2 DEF EmptyPlan, PlanExecutes, Left
  <2>3. ASSUME NEW p \in Prop, NEW op \in Op, NEW v, Checked(p, op, v) PROVE PlanExecutes'
    <3>1. planned' = [planned EXCEPT ![p] = v] /\ row' = row
      BY <2>3 DEF Checked, Write
    <3>2. writes' = [writes EXCEPT ![p] = Folded(writes[p], op)]
      BY <2>3, FoldedIs
    <3>3. v = Exec(p, Folded(writes[p], op), row[p])
      BY <2>3, ExecFolded
    <3>4. Folded(writes[p], op) # NoWrite
      BY OpKinds DEF Folded, EditJSON, NoWrite
    <3> QED BY <2>0, <3>1, <3>2, <3>3, <3>4 DEF PlanExecutes, Left
  <2> QED BY <2>1, <2>2, <2>3, StepKinds, RefuseEmpty DEF StepOfPlan
<1> QED BY <1>1, <1>2, TypeCorrect, PTL DEF Spec

\* The row of the plan and that of the reference engine, of a document that it
\* applies, differ in unset siblings only.
SiblingsApart ==
    refOk /\ "unguarded index" \notin diverged =>
        \A p \in Prop : planned[p] = ref[p] \/ (ref[p] = None /\ \E q \in wrote : p \in Sibling[q])

\* Whatever disagreement a document meets, but for an index nothing guards, and
\* of any length, the UPDATE writes no value that applying the document would
\* not: all that differs is a sibling of a oneof member it wrote, left set.
THEOREM DifferenceBounded == Spec => []OnlySiblingsDiffer
<1>0. PlanExecutes /\ SiblingsApart => OnlySiblingsDiffer
  BY DEF PlanExecutes, SiblingsApart, OnlySiblingsDiffer
<1>1. Init => SiblingsApart
  BY DEF Init, SiblingsApart
<1>2. TypeOK /\ SiblingsApart /\ [Next]_vars => SiblingsApart'
  <2> SUFFICES ASSUME TypeOK, SiblingsApart, [Next]_vars PROVE SiblingsApart'
    OBVIOUS
  <2>1. CASE Quiet
    BY <2>1 DEF Quiet, SiblingsApart
  <2>2. CASE EmptyPlan'
    BY <2>2 DEF EmptyPlan, SiblingsApart
  <2>3. ASSUME NEW p \in Prop, NEW op \in Op, NEW v, Checked(p, op, v), Mirrored(p, op, v)
        PROVE  SiblingsApart'
    <3> SUFFICES ASSUME refOk', "unguarded index" \notin diverged', NEW q \in Prop
                 PROVE  planned'[q] = ref'[q] \/ (ref'[q] = None /\ \E o \in wrote' : q \in Sibling[o])
      BY DEF SiblingsApart
    <3>1. /\ planned' = [planned EXCEPT ![p] = v] /\ planned \in [Prop -> Column]
          /\ wrote' = wrote \cup {p}
      BY <2>3 DEF Checked, Write, Written, TypeOK, EnginesOK, Row
    <3>2. \A o \in Prop : planned[o] = ref[o] \/ (ref[o] = None /\ \E s \in wrote : o \in Sibling[s])
      BY <2>3 DEF Mirrored, SiblingsApart
    <3>3. CASE q = p
      <4>1. op.kind = "edit" => ref[p] = planned[p]
        <5>1. op.kind = "edit" => Shape[p] # "scalar"
          BY <2>3 DEF Checked, OpFits, IsCollection
        <5>2. \A s \in wrote : p \in Sibling[s] => Shape[p] = "scalar"
          BY CompilerAssumption DEF TypeOK, PlanOK
        <5> QED BY <3>2, <5>1, <5>2
      <4> QED BY <2>3, <3>1, <3>3, <4>1 DEF Mirrored
    <3>4. CASE q # p
      <4>1. ref'[q] = ref[q] \/ (ref'[q] = None /\ q \in Sibling[p])
        BY <2>3, <3>4 DEF Mirrored
      <4> QED BY <3>1, <3>2, <3>4, <4>1
    <3> QED BY <3>3, <3>4
  <2> QED BY <2>1, <2>2, <2>3, StepKinds, RefuseEmpty DEF StepOfPlan
<1> QED BY <1>0, <1>1, <1>2, TypeCorrect, PlanMeansDocument, PTL DEF Spec
================================================================================
