-------------------------- MODULE PatchAgreementProofs --------------------------
(***************************************************************************)
(* The compiled plan and the reference engine agree, for every schema, row *)
(* and document that meets none of the disagreements of Divergence.        *)
(*                                                                         *)
(* Agreement alone is not inductive: a guard is read from the row, and the *)
(* engine it stands for reads the document so far.  UnwrittenAsInRow says  *)
(* what of the row is still there when a guard is recorded.                *)
(***************************************************************************)
EXTENDS PatchCompileProofs

Known == PlanOK /\ EnginesOK /\ Agreement /\ UnwrittenAsInRow

------------------------------------------------------------------------------
(* A write.                                                                *)

\* A write both engines make keeps them agreed.
LEMMA WriteAgrees ==
    ASSUME EnginesOK, Agreement, NEW p \in Prop, NEW op, NEW v, NEW rv, NEW miss \in BOOLEAN,
           NEW lost, NEW T, Write(p, op, v), RefWrite(p, miss, rv, lost),
           tests' = tests \cup T, row' = row, diverged \subseteq diverged',
           (refOk /\ diverged' = {} /\ ref = planned) =>
                /\ ~miss => rv = v
                /\ \A q \in lost : ref[q] = None
                /\ miss <=> ~Matches(T, row)
    PROVE  Agreement'
<1> SUFFICES ASSUME diverged' = {}
             PROVE  (refOk' <=> Matches(tests', row')) /\ (refOk' => ref' = planned')
  BY DEF Agreement, Agree
<1>1. (refOk <=> Matches(tests, row)) /\ (refOk => ref = planned)
  BY DEF Agreement, Agree
<1>2. Matches(tests', row') <=> Matches(tests, row) /\ Matches(T, row)
  BY DEF Matches
<1>3. CASE ~refOk
  BY <1>1, <1>2, <1>3 DEF RefWrite
<1>4. CASE refOk
  <2>1. refOk' <=> Matches(tests', row')
    BY <1>1, <1>2, <1>4 DEF RefWrite
  <2>2. ASSUME refOk' PROVE ref' = planned'
    <3>1. planned \in [Prop -> Column] /\ ref = planned
      BY <1>1, <1>4 DEF EnginesOK, Row
    <3>2. ref' = [q \in Prop |-> IF q = p THEN v ELSE IF q \in lost THEN None ELSE ref[q]]
      BY <1>4, <2>2, <3>1 DEF RefWrite
    <3>3. planned' = [planned EXCEPT ![p] = v]
      BY DEF Write, Folded, Ordered, Written
    <3> QED BY <1>4, <3>1, <3>2, <3>3
  <2> QED BY <2>1, <2>2
<1> QED BY <1>3, <1>4 DEF EnginesOK

\* So does one with neither guard nor divergence.
LEMMA PlainWriteAgrees ==
    ASSUME EnginesOK, Agreement, NEW p \in Prop, NEW op, NEW v, NEW rv,
           Write(p, op, v), RefWrite(p, FALSE, rv, {}),
           UNCHANGED <<tests, row, diverged>>, ref = planned => rv = v
    PROVE  Agreement'
<1>1. tests' = tests \cup {} /\ Matches({}, row)
  BY DEF Matches
<1> QED BY <1>1, WriteAgrees

\* A write disturbs no column but its own.
LEMMA WriteUnwritten ==
    ASSUME PlanOK, EnginesOK, UnwrittenAsInRow, NEW p \in Prop, NEW op \in Op, NEW v, Write(p, op, v),
           WriteError(p, op) = "ok", row' = row,
           touched \subseteq touched', resized \subseteq resized', grown \subseteq grown',
           IsMap(p) => \A k \in Key : <<p, k>> \in touched' \/ v[k] = planned[p][k],
           (IsList(p) /\ op.kind = "edit" /\ p \notin resized' \cup grown')
                => Len(v) = Len(planned[p])
    PROVE  UnwrittenAsInRow'
<1>1. wrote' = wrote \cup {p} /\ planned' = [planned EXCEPT ![p] = v]
  BY DEF Write, Folded, Ordered, Written
<1>2. planned \in [Prop -> Column] /\ writes \in [Prop -> Op \cup {NoWrite}]
  BY DEF EnginesOK, Row, PlanOK
<1>3. writes'[p].kind \in {"none", "edit"} => op.kind = "edit"
  BY <1>2 DEF Write, Folded, Ordered, Written, EditJSON, Op
<1>4. op.kind = "edit" => writes[p].kind \in {"none", "edit"}
  BY DEF WriteError
<1>5. \A q \in Prop : q # p => planned'[q] = planned[q] /\ writes'[q] = writes[q]
  BY <1>1, <1>2 DEF Write, Folded, Ordered, Written
<1>6. planned'[p] = v
  BY <1>1, <1>2
<1> SUFFICES ASSUME NEW q \in Prop
             PROVE  /\ q \notin wrote' => planned'[q] = row'[q]
                    /\ IsMap(q) => \A k \in Key : <<q, k>> \in touched' \/ planned'[q][k] = row'[q][k]
                    /\ (IsList(q) /\ writes'[q].kind \in {"none", "edit"} /\ q \notin resized' \cup grown')
                            => Len(planned'[q]) = Len(row'[q])
  BY DEF UnwrittenAsInRow
<1>7. q \notin wrote' => planned'[q] = row'[q]
  BY <1>1, <1>5, <1>6 DEF UnwrittenAsInRow
<1>8. ASSUME IsMap(q), NEW k \in Key PROVE <<q, k>> \in touched' \/ planned'[q][k] = row'[q][k]
  BY <1>5, <1>6, <1>8 DEF UnwrittenAsInRow
<1>9. ASSUME IsList(q), writes'[q].kind \in {"none", "edit"}, q \notin resized' \cup grown'
      PROVE  Len(planned'[q]) = Len(row'[q])
  <2>1. IsList(q) /\ writes[q].kind \in {"none", "edit"} /\ q \notin resized \cup grown
    BY <1>3, <1>4, <1>5, <1>9
  <2>2. Len(planned[q]) = Len(row[q])
    BY <2>1 DEF UnwrittenAsInRow
  <2> QED BY <1>3, <1>5, <1>6, <1>9, <2>2
<1> QED BY <1>7, <1>8, <1>9

------------------------------------------------------------------------------
(* A test.                                                                 *)

\* A test of what the document has not written asks both engines the same.
LEMMA TestAgrees ==
    ASSUME EnginesOK, Agreement, UnwrittenAsInRow,
           NEW p \in Prop, NEW at \in Key \cup Int \cup {None}, Subscript(p, at) = at,
           NEW want \in TestOp, NEW lit, NEW reached \in BOOLEAN,
           TestError(p, at, want, lit) = "ok", RecordTest(p, at, want, lit, reached),
           row' = row, diverged \subseteq diverged',
           (refOk /\ diverged' = {} /\ ~reached) => ~Satisfies(p, at, want, lit, ref[p])
    PROVE  Agreement' /\ UnwrittenAsInRow'
<1>1. UnwrittenAsInRow'
  BY DEF RecordTest, RefTest, UnwrittenAsInRow
<1>2. p \notin wrote /\ planned[p] = row[p]
  BY TestOk DEF UnwrittenAsInRow
<1>3. Holds(TestOn(p, at, want, lit), row) <=> Satisfies(p, at, want, lit, planned[p])
  BY <1>2 DEF Holds, TestOn, Satisfies, TestOp
<1>4. Matches(tests', row) <=> Matches(tests, row) /\ Satisfies(p, at, want, lit, planned[p])
  BY <1>3 DEF Matches, RecordTest
<1>5. Agreement'
  <2> SUFFICES ASSUME diverged' = {}
               PROVE  (refOk' <=> Matches(tests', row')) /\ (refOk' => ref' = planned')
    BY DEF Agreement, Agree
  <2>1. (refOk <=> Matches(tests, row)) /\ (refOk => ref = planned)
    BY DEF Agreement, Agree
  <2> QED BY <1>4, <2>1 DEF RecordTest, RefTest
<1> QED BY <1>1, <1>5

\* A whole column has no subscript.
LEMMA WholeSubscript == ASSUME NEW p PROVE Subscript(p, None) = None
BY DEF Subscript

\* A key is its own subscript.
LEMMA KeySubscript == ASSUME NEW p \in Prop, IsMap(p), NEW k PROVE Subscript(p, k) = k
BY DEF Subscript, IsMap, IsList

\* A divergence that is recorded stays.
LEMMA DivergeGrows == ASSUME NEW cond, NEW why, Diverge(cond, why) PROVE diverged \subseteq diverged'
BY DEF Diverge

\* A condition that names a divergence is false as long as it is not recorded.
LEMMA NotDiverged ==
    ASSUME NEW cond \in BOOLEAN, NEW why, Diverge(cond, why), refOk, diverged' = {} PROVE ~cond
BY DEF Diverge

\* A write clears the rest of its oneof from the row of the reference engine.
LEMMA SiblingsGone ==
    ASSUME NEW p \in Prop, ~SiblingSet(p) PROVE \A q \in Sibling[p] : ref[q] = None
BY DEF SiblingSet

------------------------------------------------------------------------------
(* Each handler.                                                           *)

\* The handler of a field or a whole collection.
LEMMA AtColumnAgrees ==
    ASSUME Known, NEW e, NEW sel, e.op \in EntryOp \ {"move"},
           ColumnError(e, sel) = "ok", AtColumn(e, sel.of), row' = row
    PROVE  Agreement' /\ UnwrittenAsInRow'
<1> DEFINE f == sel.of
<1>0. PlanOK /\ EnginesOK /\ Agreement /\ UnwrittenAsInRow /\ (f \notin Undeclared \/ f \notin Prop)
  BY CompilerAssumption DEF Known
<1>1. CASE f \in Undeclared
  <2>1. UNCHANGED <<plan, engines>>
    BY <1>0, <1>1 DEF AtColumn, Resize
  <2> QED BY <1>0, <2>1 DEF plan, engines, Agreement, Agree, UnwrittenAsInRow
<1>2. CASE f \in Prop /\ e.op \in TestOp
  <2>1. RecordTest(f, None, e.op, e.lit, TRUE) /\ diverged' = diverged
    BY <1>0, <1>2 DEF AtColumn, Resize, TestOp
  <2>2. TestError(f, None, e.op, e.lit) = "ok" /\ Subscript(f, None) = None
    BY <1>2, ColumnOk, WholeSubscript
  <2> QED BY <1>0, <1>2, <2>1, <2>2, TestAgrees
<1>3. CASE f \in Prop /\ e.op = "assign"
  <2>1. /\ Write(f, ColumnOp(e, f), e.lit)
        /\ RefWrite(f, FALSE, e.lit, Sibling[f])
        /\ Diverge(SiblingSet(f), "oneof sibling")
        /\ touched' = touched \cup ({f} \X Key)
        /\ UNCHANGED <<tests, resized, grown>>
    BY <1>0, <1>3 DEF AtColumn, Resize, TestOp
  <2>2. ColumnOpError(e, f) = "ok"
    BY <1>3, ColumnOk
  <2>3. ColumnOp(e, f) \in Op /\ WriteError(f, ColumnOp(e, f)) = "ok"
    BY <1>3, <2>2, ColumnOpOk, ColumnOpTyped
  <2>4. ColumnOp(e, f).kind # "edit"
    BY <1>3 DEF ColumnOp, SetColumn
  <2>5. UnwrittenAsInRow'
    BY <1>0, <1>3, <2>1, <2>3, <2>4, WriteUnwritten
  <2>6. tests' = tests \cup {} /\ Matches({}, row) /\ diverged \subseteq diverged'
    BY <2>1, DivergeGrows DEF Matches
  <2>7. refOk /\ diverged' = {} => \A q \in Sibling[f] : ref[q] = None
    BY <1>3, <2>1, SiblingsGone, NotDiverged DEF SiblingSet
  <2>8. Agreement'
    BY <1>0, <1>3, <2>1, <2>6, <2>7, WriteAgrees
  <2> QED BY <2>5, <2>8
<1>4. CASE f \in Prop /\ e.op = "remove"
  <2>1. /\ Write(f, ColumnOp(e, f), Empty(f))
        /\ RefWrite(f, FALSE, Empty(f), {})
        /\ resized' = IF IsCollection(f) THEN resized \cup {f} ELSE resized
        /\ touched' = touched \cup ({f} \X Key)
        /\ UNCHANGED <<tests, grown, diverged>>
    BY <1>0, <1>4 DEF AtColumn, Resize, TestOp
  <2>2. ColumnOpError(e, f) = "ok"
    BY <1>4, ColumnOk
  <2>3. ColumnOp(e, f) \in Op /\ WriteError(f, ColumnOp(e, f)) = "ok"
    BY <1>4, <2>2, ColumnOpOk, ColumnOpTyped
  <2>4. IsList(f) => f \in resized'
    BY <2>1 DEF IsList, IsCollection
  <2>5. UnwrittenAsInRow'
    BY <1>0, <1>4, <2>1, <2>3, <2>4, WriteUnwritten
  <2>6. Agreement'
    BY <1>0, <1>4, <2>1, PlainWriteAgrees
  <2> QED BY <2>5, <2>6
<1> QED BY <1>1, <1>2, <1>3, <1>4, ColumnOk

\* The handler of an edge.
LEMMA AtEdgeAgrees ==
    ASSUME Known, NEW e, NEW sel, e.op \in EntryOp \ {"move"}, e.create \in BOOLEAN,
           e.site \in Prop, Shape[e.site] = "scalar",
           EdgeError(e, sel) = "ok", AtEdge(e), row' = row
    PROVE  Agreement' /\ UnwrittenAsInRow'
<1> DEFINE p == e.site
           set == ref[p] # None
<1>0. PlanOK /\ EnginesOK /\ Agreement /\ UnwrittenAsInRow
  BY DEF Known
<1>1. CASE e.op \in TestOp
  <2>1. /\ RecordTest(p, None, e.op, e.lit, set)
        /\ Diverge(~set /\ e.op = "absent", "edge path")
    BY <1>1 DEF AtEdge, TestOp
  <2>2. TestError(p, None, e.op, e.lit) = "ok" /\ Subscript(p, None) = None
    BY <1>1, EdgeOk, WholeSubscript
  <2>3. diverged \subseteq diverged'
    BY <2>1, DivergeGrows
  <2>4. refOk /\ diverged' = {} /\ ~set => e.op # "absent"
    BY <2>1, NotDiverged
  <2>5. ~set /\ e.op # "absent" => ~Satisfies(p, None, e.op, e.lit, ref[p])
    BY <1>1 DEF Satisfies, Present, TestOp
  <2>6. set \in BOOLEAN
    OBVIOUS
  <2> HIDE DEF set
  <2> QED BY <1>0, <1>1, <2>1, <2>2, <2>3, <2>4, <2>5, <2>6, TestAgrees
<1>2. CASE e.op = "assign"
  <2> DEFINE missed == ~set /\ ~e.create
  <2>1. /\ Write(p, SetEdge(e.lit), e.lit)
        /\ RefWrite(p, missed, e.lit, Sibling[p])
        /\ Diverge(SiblingSet(p) \/ missed, IF SiblingSet(p) THEN "oneof sibling" ELSE "edge path")
        /\ UNCHANGED <<tests, resized, touched, grown>>
    BY <1>2 DEF AtEdge, TestOp
  <2>2. WriteError(p, SetEdge(e.lit)) = "ok" /\ SetEdge(e.lit) \in Op /\ SetEdge(e.lit).kind = "setEdge"
    BY <1>2, EdgeOk, OpTyped DEF SetEdge
  <2>3. UnwrittenAsInRow'
    BY <1>0, <2>1, <2>2, WriteUnwritten DEF IsMap
  <2>4. tests' = tests \cup {} /\ Matches({}, row) /\ diverged \subseteq diverged'
    BY <2>1, DivergeGrows DEF Matches
  <2>5. refOk /\ diverged' = {} => ~SiblingSet(p) /\ ~missed
    BY <2>1, NotDiverged DEF SiblingSet
  <2>6. refOk /\ diverged' = {} => \A q \in Sibling[p] : ref[q] = None
    BY <2>5, SiblingsGone
  <2>7. missed \in BOOLEAN
    OBVIOUS
  <2> HIDE DEF missed
  <2>8. Agreement'
    BY <1>0, <2>1, <2>4, <2>5, <2>6, <2>7, WriteAgrees
  <2> QED BY <2>3, <2>8
<1> QED BY <1>1, <1>2, EdgeOk

\* An entry of a map no construct has touched is the row's.
LEMMA UntouchedPresent ==
    ASSUME UnwrittenAsInRow, NEW p \in Prop, IsMap(p), NEW k \in Key, <<p, k>> \notin touched
    PROVE  Present(p, k, planned[p]) <=> Matches({TestOn(p, k, "exists", None)}, row)
<1>1. planned[p][k] = row[p][k]
  BY DEF UnwrittenAsInRow
<1>2. Subscript(p, k) = k /\ k # None
  BY KeySubscript, SchemaAssumption
<1>3. Present(p, k, planned[p]) <=> Present(p, k, row[p])
  BY <1>1, <1>2 DEF Present, IsMap
<1> QED BY <1>2, <1>3 DEF Matches, Holds, TestOn, Satisfies

\* The handler of a map entry.
LEMMA AtMapEntryAgrees ==
    ASSUME Known, NEW e, NEW sel \in Selector, e.op \in EntryOp \ {"move"}, e.skip \in BOOLEAN,
           e.site \in Prop, IsMap(e.site),
           MapError(e, sel) = "ok", AtMapEntry(e, sel), row' = row
    PROVE  Agreement' /\ UnwrittenAsInRow'
<1> DEFINE p == e.site
           k == sel.of
<1>0. PlanOK /\ EnginesOK /\ Agreement /\ UnwrittenAsInRow /\ ~IsList(p)
  BY DEF Known, IsMap, IsList
<1>1. InColumn(p, planned[p]) /\ planned[p] \in MapValue
  BY <1>0, RowColumn DEF EnginesOK, InColumn, IsMap
<1>2. CASE sel.arm = "every"
  <2>1. /\ Write(p, EditJSON(<<JSONClear>>), Empty(p))
        /\ RefWrite(p, FALSE, Empty(p), {})
        /\ resized' = resized \cup {p}
        /\ touched' = touched \cup ({p} \X Key)
        /\ UNCHANGED <<tests, grown, diverged>>
    BY <1>2 DEF AtMapEntry, Resize
  <2>2. WriteError(p, EditJSON(<<JSONClear>>)) = "ok" /\ EditJSON(<<JSONClear>>) \in Op
    BY <1>2, MapOk, OpTyped, JSONOpTyped
  <2>3. UnwrittenAsInRow'
    BY <1>0, <2>1, <2>2, WriteUnwritten
  <2> QED BY <1>0, <2>1, <2>3, PlainWriteAgrees
<1>3. CASE sel.arm = "mapKey"
  <2>0. k \in Key
    BY <1>3, MapOk DEF Selector
  <2>1. CASE e.op \in TestOp
    <3>1. RecordTest(p, k, e.op, e.lit, TRUE) /\ diverged' = diverged
      BY <1>3, <2>1 DEF AtMapEntry, Resize, TestOp
    <3>2. TestError(p, k, e.op, e.lit) = "ok" /\ Subscript(p, k) = k
      BY <1>3, <2>0, <2>1, MapOk, KeySubscript DEF TestOp
    <3> QED BY <1>0, <2>0, <2>1, <3>1, <3>2, TestAgrees
  <2>2. CASE e.op = "assign"
    <3> DEFINE w == JSONSet(k, e.lit)
    <3>1. /\ Write(p, EditJSON(<<w>>), ExecJSON(p, w, planned[p]))
          /\ RefWrite(p, FALSE, ExecJSON(p, w, ref[p]), {})
          /\ touched' = touched \cup {<<p, k>>}
          /\ UNCHANGED <<tests, resized, grown, diverged>>
      BY <1>3, <2>2 DEF AtMapEntry, Resize, TestOp
    <3>2. e.lit \in Val /\ WriteError(p, EditJSON(<<w>>)) = "ok" /\ EditJSON(<<w>>) \in Op
      BY <1>3, <2>0, <2>2, MapOk, OpTyped, JSONOpTyped DEF TestOp
    <3>3. ExecJSON(p, w, planned[p]) = [planned[p] EXCEPT ![k] = e.lit]
      BY <1>1, <2>0, <3>2, JSONSetKey
    <3>4. \A c \in Key : c # k => ExecJSON(p, w, planned[p])[c] = planned[p][c]
      BY <1>1, <3>3 DEF MapValue
    <3> HIDE DEF w
    <3>5. UnwrittenAsInRow'
      <4>1. touched \subseteq touched' /\ resized \subseteq resized' /\ grown \subseteq grown'
        BY <3>1
      <4>2. \A c \in Key : <<p, c>> \in touched' \/ ExecJSON(p, w, planned[p])[c] = planned[p][c]
        BY <3>1, <3>4
      <4>3. Write(p, EditJSON(<<w>>), ExecJSON(p, w, planned[p]))
        BY <3>1
      <4> QED BY <1>0, <3>2, <4>1, <4>2, <4>3, WriteUnwritten
    <3> QED BY <1>0, <3>1, <3>5, PlainWriteAgrees
  <2>3. CASE e.op = "remove"
    <3> DEFINE w == JSONRemove(k)
               missed == ~e.skip /\ ~Present(p, k, ref[p])
               T == IF e.skip THEN {} ELSE {TestOn(p, k, "exists", None)}
    <3>1. /\ tests' = tests \cup T
          /\ Write(p, EditJSON(<<w>>), ExecJSON(p, w, planned[p]))
          /\ RefWrite(p, missed, ExecJSON(p, w, ref[p]), {})
          /\ Diverge(~e.skip /\ <<p, k>> \in touched, "late guard")
          /\ touched' = touched \cup {<<p, k>>}
          /\ UNCHANGED <<resized, grown>>
      BY <1>3, <2>3 DEF AtMapEntry, Resize, TestOp, Guard
    <3>2. WriteError(p, EditJSON(<<w>>)) = "ok" /\ EditJSON(<<w>>) \in Op
      BY <1>3, <2>0, <2>3, MapOk, OpTyped, JSONOpTyped DEF TestOp
    <3>3. ExecJSON(p, w, planned[p]) = [planned[p] EXCEPT ![k] = None]
      BY <1>1, <2>0, JSONRemoveKey
    <3>4. \A c \in Key : c # k => ExecJSON(p, w, planned[p])[c] = planned[p][c]
      BY <1>1, <3>3 DEF MapValue
    <3>5. diverged \subseteq diverged'
      BY <3>1, DivergeGrows
    <3>6. refOk /\ diverged' = {} => e.skip \/ <<p, k>> \notin touched
      BY <3>1, NotDiverged
    <3>7. refOk /\ diverged' = {} /\ ref = planned => (missed <=> ~Matches(T, row))
      <4>1. CASE e.skip
        BY <4>1 DEF Matches
      <4>2. CASE ~e.skip
        BY <1>0, <2>0, <3>6, <4>2, UntouchedPresent
      <4> QED BY <4>1, <4>2
    <3>8. missed \in BOOLEAN
      OBVIOUS
    <3> HIDE DEF w, missed, T
    <3>9. UnwrittenAsInRow'
      <4>1. touched \subseteq touched' /\ resized \subseteq resized' /\ grown \subseteq grown'
        BY <3>1
      <4>2. \A c \in Key : <<p, c>> \in touched' \/ ExecJSON(p, w, planned[p])[c] = planned[p][c]
        BY <3>1, <3>4
      <4>3. Write(p, EditJSON(<<w>>), ExecJSON(p, w, planned[p]))
        BY <3>1
      <4> QED BY <1>0, <3>2, <4>1, <4>2, <4>3, WriteUnwritten
    <3>10. Agreement'
      BY <1>0, <3>1, <3>5, <3>7, <3>8, WriteAgrees
    <3> QED BY <3>9, <3>10
  <2> QED BY <1>3, <2>1, <2>2, <2>3, MapOk
<1> QED BY <1>2, <1>3, MapOk

\* A list no construct has resized has the length it has in the row.
LEMMA UnresizedPresent ==
    ASSUME EnginesOK, UnwrittenAsInRow, NEW p \in Prop, IsList(p), NEW i \in 0..MaxListIndex,
           p \notin resized \cup grown, writes[p].kind \in {"none", "edit"}
    PROVE  Present(p, i, planned[p]) <=> Matches({TestOn(p, i, "exists", None)}, row)
<1>1. Len(planned[p]) = Len(row[p])
  BY DEF UnwrittenAsInRow
<1>2. planned[p] \in ListValue /\ row[p] \in ListValue
  BY RowColumn DEF EnginesOK, InColumn, IsList
<1>3. Subscript(p, i) = i /\ i # None /\ Shape[p] = "list" /\ i \in Int
  BY SubscriptIsIndex, SchemaAssumption DEF IsList
<1>4. InRange(planned[p], i) <=> InRange(row[p], i)
  BY <1>1, <1>2, <1>3 DEF InRange, Position, ListValue
<1>5. Present(p, i, planned[p]) <=> Present(p, i, row[p])
  BY <1>3, <1>4 DEF Present
<1> QED BY <1>3, <1>5 DEF Matches, Holds, TestOn, Satisfies

\* The handler of a list element.
LEMMA AtListElemAgrees ==
    ASSUME Known, NEW e, NEW sel \in Selector, e.op \in EntryOp \ {"move"}, e.skip \in BOOLEAN,
           e.site \in Prop, IsList(e.site),
           ListError(e, sel) = "ok", AtListElem(e, sel), row' = row
    PROVE  Agreement' /\ UnwrittenAsInRow'
<1> DEFINE p == e.site
           i == sel.of
<1>0. PlanOK /\ EnginesOK /\ Agreement /\ UnwrittenAsInRow /\ ~IsMap(p)
  BY DEF Known, IsMap, IsList
<1>1. InColumn(p, planned[p])
  BY <1>0, RowColumn DEF EnginesOK
<1>2. CASE sel.arm = "append"
  <2> DEFINE w == JSONAppend(e.lit)
  <2>1. /\ Write(p, EditJSON(<<w>>), Append(planned[p], e.lit))
        /\ RefWrite(p, FALSE, Append(ref[p], e.lit), {})
        /\ resized' = resized \cup {p}
        /\ UNCHANGED <<tests, touched, grown, diverged>>
    BY <1>2 DEF AtListElem, Resize
  <2>2. WriteError(p, EditJSON(<<w>>)) = "ok" /\ EditJSON(<<w>>) \in Op
    BY <1>2, ListOk, OpTyped, JSONOpTyped
  <2> HIDE DEF w
  <2>3. UnwrittenAsInRow'
    BY <1>0, <2>1, <2>2, WriteUnwritten
  <2> QED BY <1>0, <2>1, <2>3, PlainWriteAgrees
<1>3. CASE sel.arm = "index"
  <2>0. i \in 0..MaxListIndex /\ i \in Key \cup Int \cup {None} /\ p \notin resized
    <3>1. i \in Int
      BY <1>3, CompilerAssumption DEF Selector
    <3>2. AddressableError(p, i) = "ok"
      BY <1>3, ListOk
    <3> QED BY <3>1, <3>2, SchemaAssumption DEF AddressableError
  <2>1. Subscript(p, i) = i
    BY <2>0, SubscriptIsIndex
  <2>2. CASE e.op \in TestOp
    <3>1. RecordTest(p, i, e.op, e.lit, TRUE) /\ diverged' = diverged
      BY <1>3, <2>2 DEF AtListElem, Resize, TestOp
    <3>2. TestError(p, i, e.op, e.lit) = "ok"
      BY <1>3, <2>2, ListOk DEF TestOp
    <3> QED BY <1>0, <2>0, <2>1, <2>2, <3>1, <3>2, TestAgrees
  <2>3. CASE e.op \in {"assign", "remove"}
    <3> DEFINE w == IF e.op = "assign" THEN JSONSet(i, e.lit) ELSE JSONRemove(i)
               gone == ~Present(p, i, ref[p])
               missed == ~e.skip /\ gone
               rv == IF gone THEN ref[p] ELSE ExecJSON(p, w, ref[p])
               T == IF e.skip THEN {} ELSE {TestOn(p, i, "exists", None)}
               why == IF e.skip THEN "unguarded index" ELSE "late guard"
    <3>1. [w EXCEPT !.at = Subscript(p, @)] = w
      BY <2>1 DEF JSONSet, JSONRemove
    <3>2. /\ tests' = tests \cup T
          /\ Write(p, EditJSON(<<w>>), ExecJSON(p, w, planned[p]))
          /\ RefWrite(p, missed, rv, {})
          /\ Diverge(IF e.skip THEN gone ELSE p \in grown, why)
          /\ resized' = IF e.op = "remove" THEN resized \cup {p} ELSE resized
          /\ UNCHANGED <<touched, grown>>
      BY <1>3, <2>3, <3>1 DEF AtListElem, Resize, TestOp, Guard
    <3>3. (e.op = "assign" => e.lit \in Val) /\ WriteError(p, EditJSON(<<w>>)) = "ok"
      BY <1>3, <2>3, ListOk DEF TestOp
    <3>4. EditJSON(<<w>>) \in Op /\ EditJSON(<<w>>).kind = "edit"
      BY <2>0, <2>3, <3>3, OpTyped, JSONOpTyped, SchemaAssumption DEF EditJSON
    <3>5. e.op = "assign" => Len(ExecJSON(p, w, planned[p])) = Len(planned[p])
      BY <1>1, <2>0, <3>3, JSONSetElem, SchemaAssumption
    <3>6. writes[p].kind \in {"none", "edit"}
      BY <3>3, <3>4 DEF WriteError
    <3>7. diverged \subseteq diverged'
      BY <3>2, DivergeGrows
    <3>8. refOk /\ diverged' = {} => e.skip \/ p \notin grown
      BY <3>2, NotDiverged
    <3>9. refOk /\ diverged' = {} /\ ref = planned => (missed <=> ~Matches(T, row))
      <4>1. CASE e.skip
        BY <4>1 DEF Matches
      <4>2. CASE ~e.skip
        BY <1>0, <2>0, <3>6, <3>8, <4>2, UnresizedPresent
      <4> QED BY <4>1, <4>2
    <3>10. missed \in BOOLEAN
      OBVIOUS
    <3>14. refOk /\ diverged' = {} /\ ref = planned /\ ~missed => rv = ExecJSON(p, w, planned[p])
      BY <3>2, NotDiverged
    <3>11. resized \subseteq resized' /\ (e.op = "remove" => p \in resized')
      BY <3>2
    <3> HIDE DEF w, gone, missed, T, why, rv
    <3>12. UnwrittenAsInRow'
      BY <1>0, <2>3, <3>2, <3>3, <3>4, <3>5, <3>11, WriteUnwritten
    <3>13. Agreement'
      BY <1>0, <3>2, <3>7, <3>9, <3>10, <3>14, WriteAgrees
    <3> QED BY <3>12, <3>13
  <2> QED BY <1>3, <2>2, <2>3, ListOk
<1> QED BY <1>2, <1>3, ListOk

\* The handler of the container.
LEMMA AtContainerAgrees ==
    ASSUME Known, NEW s \in Prop, NEW op \in EntryOp \ {"move"}, NEW lit,
           ContainerError(s, op, lit) = "ok", AtContainer(s, op, lit), row' = row
    PROVE  Agreement' /\ UnwrittenAsInRow'
<1>0. PlanOK /\ EnginesOK /\ Agreement /\ UnwrittenAsInRow
  BY DEF Known
<1>1. /\ op \in {"remove", "assign", "insert"}
      /\ WriteError(s, ContainerOp(op, lit)) = "ok" /\ ContainerOp(op, lit) \in Op
  <2>1. op \in {"remove", "assign", "insert"} /\ WriteError(s, ContainerOp(op, lit)) = "ok"
    BY ContainerOk
  <2>2. ContainerOp(op, lit) \in Op
    BY ContainerOpTyped, ContainerOk
  <2> QED BY <2>1, <2>2
<1>2. CASE op = "remove"
  <2>1. /\ Write(s, ContainerOp(op, lit), Empty(s))
        /\ RefWrite(s, FALSE, Empty(s), {})
        /\ resized' = resized \cup {s}
        /\ touched' = touched \cup ({s} \X Key)
        /\ UNCHANGED <<tests, grown, diverged>>
    BY <1>2 DEF AtContainer, Resize
  <2>2. UnwrittenAsInRow'
    BY <1>0, <1>1, <2>1, WriteUnwritten
  <2> QED BY <1>0, <2>1, <2>2, PlainWriteAgrees
<1>3. CASE op = "assign"
  <2>1. /\ Write(s, ContainerOp(op, lit), lit)
        /\ RefWrite(s, FALSE, lit, {})
        /\ touched' = touched \cup ({s} \X Key)
        /\ UNCHANGED <<tests, resized, grown, diverged>>
    BY <1>3 DEF AtContainer, Resize
  <2>2. ContainerOp(op, lit).kind # "edit"
    BY <1>3 DEF ContainerOp, SetColumn
  <2>3. UnwrittenAsInRow'
    BY <1>0, <1>1, <2>1, <2>2, WriteUnwritten
  <2> QED BY <1>0, <2>1, <2>3, PlainWriteAgrees
<1>4. CASE op = "insert"
  <2>1. /\ Write(s, ContainerOp(op, lit), planned[s] \o lit)
        /\ RefWrite(s, FALSE, ref[s] \o lit, {})
        /\ grown' = grown \cup {s}
        /\ UNCHANGED <<tests, resized, touched, diverged>>
    BY <1>4 DEF AtContainer, Resize
  <2>2. ~IsMap(s)
    BY <1>4, ContainerOk DEF IsMap, IsList
  <2>3. UnwrittenAsInRow'
    BY <1>0, <1>1, <2>1, <2>2, WriteUnwritten
  <2> QED BY <1>0, <2>1, <2>3, PlainWriteAgrees
<1> QED BY <1>1, <1>2, <1>3, <1>4

------------------------------------------------------------------------------
(* Every step.                                                             *)

\* Agreement, strengthened by what it needs of the row and of the types.
Inv == TypeOK /\ Agreement /\ UnwrittenAsInRow

\* Nothing is left of a document that is refused.
LEMMA FreshAgrees ==
    ASSUME tests = {}, wrote = {}, planned = row, ref = row, refOk = TRUE
    PROVE  Agreement /\ UnwrittenAsInRow
BY DEF Agreement, Agree, UnwrittenAsInRow, Matches

\* A refused document leaves nothing to compare.
LEMMA RefuseAgrees == ASSUME NEW err, Refuse(err) PROVE Agreement' /\ UnwrittenAsInRow'
BY DEF Refuse, Agreement, Agree, UnwrittenAsInRow, Matches

\* A step that leaves the plan and the engines alone.
LEMMA UnchangedAgrees ==
    ASSUME Agreement, UnwrittenAsInRow, UNCHANGED <<plan, row, engines>>
    PROVE  Agreement' /\ UnwrittenAsInRow'
BY DEF plan, engines, Agreement, Agree, UnwrittenAsInRow

\* An entry with container scope.
LEMMA ContainerStepAgrees ==
    ASSUME Inv, NEW path \in Path, NEW op \in EntryOp \ {"move"}, NEW lit \in Literal,
           Container(path, op, lit)
    PROVE  Agreement' /\ UnwrittenAsInRow'
<1> DEFINE s == Walk(base, path)
           err == Then(WalkError(base, path), ContainerError(s, op, lit))
<1>1. CASE Refuse(err)
  BY <1>1, RefuseAgrees
<1>2. CASE err = "ok" /\ AtContainer(s, op, lit) /\ row' = row
  <2>1. WalkError(base, path) = "ok" /\ ContainerError(s, op, lit) = "ok"
    BY <1>2, ThenOk
  <2>2. Known /\ ControlOK
    BY DEF Inv, TypeOK, Known
  <2>3. s \in Prop
    BY <2>1, <2>2, WalkTyped, SiteTyped, ContainerOk DEF SiteKind
  <2> QED BY <1>2, <2>1, <2>2, <2>3, AtContainerAgrees
<1> QED BY <1>1, <1>2 DEF Container

\* A target of an entry.
LEMMA TargetAgrees ==
    ASSUME Inv, NEW sel \in Selector, Target(sel) PROVE Agreement' /\ UnwrittenAsInRow'
<1>0. Known /\ ControlOK /\ entry \in Entry /\ entry # None
  BY DEF Inv, TypeOK, ControlOK, Known, Target
<1>1. entry.skip \in BOOLEAN /\ entry.create \in BOOLEAN
  BY <1>0 DEF Entry
<1>2. CASE Refuse(TargetError(entry, sel))
  BY <1>2, RefuseAgrees
<1>3. CASE TargetError(entry, sel) = "ok"
  <2>1. /\ row' = row
        /\ \/ SiteKind(entry.site) = "root" /\ AtColumn(entry, sel.of)
           \/ SiteKind(entry.site) = "edge" /\ AtEdge(entry)
           \/ SiteKind(entry.site) = "map" /\ AtMapEntry(entry, sel)
           \/ SiteKind(entry.site) = "list" /\ AtListElem(entry, sel)
    BY <1>3 DEF Target, Refuse
  <2> QED BY <1>0, <1>1, <1>3, <2>1, TargetOk, AtColumnAgrees, AtEdgeAgrees,
             AtMapEntryAgrees, AtListElemAgrees
<1> QED BY <1>2, <1>3 DEF Target

\* Every step keeps the engines agreed and the unwritten columns as they were.
LEMMA StepAgrees == ASSUME Inv, [Next]_vars PROVE Agreement' /\ UnwrittenAsInRow'
<1>0. Agreement /\ UnwrittenAsInRow
  BY DEF Inv
<1>1. CASE Misaddressed
  BY <1>1, RefuseAgrees DEF Misaddressed
<1>2. ASSUME NEW path \in Path, NEW op \in EntryOp, NEW skip \in BOOLEAN, NEW create \in BOOLEAN,
             NEW lit \in Literal, OpenTargets(path, op, skip, create, lit)
      PROVE  Agreement' /\ UnwrittenAsInRow'
  BY <1>0, <1>2, RefuseAgrees, UnchangedAgrees DEF OpenTargets
<1>3. CASE \E path \in Path, op \in EntryOp \ {"move"}, lit \in Literal : Container(path, op, lit)
  BY <1>3, ContainerStepAgrees
<1>4. ASSUME NEW path \in Path, NEW sel \in Selector, NEW n \in 1..2, NestTarget(path, sel, n)
      PROVE  Agreement' /\ UnwrittenAsInRow'
  BY <1>0, <1>4, RefuseAgrees, UnchangedAgrees DEF NestTarget, Nest
<1>5. ASSUME NEW path \in Path, NestContainer(path) PROVE Agreement' /\ UnwrittenAsInRow'
  BY <1>0, <1>5, RefuseAgrees, UnchangedAgrees DEF NestContainer, Nest
<1>6. CASE \E sel \in Selector : Target(sel)
  BY <1>6, TargetAgrees
<1>7. CASE CloseEntry \/ CloseDelta \/ Finish \/ UNCHANGED vars
  <2>1. UNCHANGED <<plan, row, engines>>
    BY <1>7 DEF CloseEntry, CloseDelta, Finish, vars
  <2> QED BY <1>0, <2>1, UnchangedAgrees
<1> QED BY <1>1, <1>2, <1>3, <1>4, <1>5, <1>6, <1>7 DEF Next

\* The strengthening is an invariant of the compiler.
LEMMA Invariance == Spec => []Inv
<1>1. Init => Inv
  BY InitTyped, FreshAgrees DEF Init, Inv
<1>2. Inv /\ [Next]_vars => Inv'
  BY StepTyped, StepAgrees DEF Inv
<1> QED BY <1>1, <1>2, PTL DEF Spec

\* The statement the compiler produces and the reference engine that runs the
\* document operation by operation agree: they accept the same rows and leave
\* them the same, in every document that meets none of the disagreements
\* Divergence names, whatever the schema and the row.
THEOREM PlanAgrees == Spec => []Agreement
<1>1. Inv => Agreement
  BY DEF Inv
<1> QED BY <1>1, Invariance, PTL

\* What the document has not written (a column, a map entry, the length of a list) is, in the row
\* the compiled writes make, what it was in the row the statement is run on.
THEOREM UnwrittenKept == Spec => []UnwrittenAsInRow
<1>1. Inv => UnwrittenAsInRow
  BY DEF Inv
<1> QED BY <1>1, Invariance, PTL
=============================================================================
