-------------------------- MODULE PatchCompileProofs --------------------------
(***************************************************************************)
(* Theorems of PatchCompile, for every schema, document and row.           *)
(***************************************************************************)
EXTENDS PatchCompile, TLAPS, WellFoundedInduction

------------------------------------------------------------------------------
(* What the operators of RowPlan preserve: the type of a column under each  *)
(* change of it, its length, and the width of the values in it; and what an *)
(* edit of many operations does to it.                                      *)

\* An unset column is one a row may have.
LEMMA EmptyInColumn == ASSUME NEW p \in Prop PROVE InColumn(p, Empty(p))
<1>1. Shape[p] \in {"scalar", "map", "list"}
  BY SchemaAssumption
<1>2. CASE Shape[p] = "scalar"
  BY <1>2 DEF InColumn, Empty, ScalarValue
<1>3. CASE Shape[p] = "map"
  <2>1. [k \in Key |-> None] \in MapValue
    BY DEF MapValue
  <2> QED BY <1>3, <2>1 DEF InColumn, Empty
<1>4. CASE Shape[p] = "list"
  <2>1. <<>> \in ListValue
    BY DEF ListValue
  <2> QED BY <1>4, <2>1 DEF InColumn, Empty
<1> QED BY <1>1, <1>2, <1>3, <1>4

\* What a column may hold is a value of some column.
LEMMA InColumnIsColumn ==
    ASSUME NEW p \in Prop, NEW v, InColumn(p, v) PROVE v \in Column
BY SchemaAssumption DEF InColumn, Column

\* Each column of a row holds what it may.
LEMMA RowColumn == ASSUME NEW r \in Row, NEW p \in Prop PROVE InColumn(p, r[p])
BY DEF Row

\* A row of which one column is replaced by a value it may hold is a row.
LEMMA RowExcept ==
    ASSUME NEW r \in Row, NEW p \in Prop, NEW v, InColumn(p, v)
    PROVE  [r EXCEPT ![p] = v] \in Row
BY InColumnIsColumn DEF Row

\* A row of which one column is set and some scalar columns are cleared.
LEMMA RowCleared ==
    ASSUME NEW r \in Row, NEW p \in Prop, NEW v, InColumn(p, v),
           NEW lost \in SUBSET {q \in Prop : Shape[q] = "scalar"}
    PROVE  [q \in Prop |-> IF q = p THEN v ELSE IF q \in lost THEN None ELSE r[q]] \in Row
<1> DEFINE s == [q \in Prop |-> IF q = p THEN v ELSE IF q \in lost THEN None ELSE r[q]]
<1>1. \A q \in Prop : InColumn(q, s[q])
  BY RowColumn DEF InColumn, ScalarValue
<1>2. s \in [Prop -> Column]
  BY <1>1, InColumnIsColumn
<1> QED BY <1>1, <1>2 DEF Row

\* An element less is still a list, one shorter.
LEMMA RemoveAtList ==
    ASSUME NEW l \in ListValue, NEW i \in DOMAIN l
    PROVE  RemoveAt(l, i) \in ListValue
<1>1. SubSeq(l, 1, i - 1) \in Seq(Val)
  BY DEF ListValue
<1>2. SubSeq(l, i + 1, Len(l)) \in Seq(Val)
  BY DEF ListValue
<1> QED BY <1>1, <1>2 DEF RemoveAt, ListValue

\* A replaced element leaves a list of the same length.
LEMMA ReplaceAtList ==
    ASSUME NEW l \in ListValue, NEW i \in DOMAIN l, NEW x \in Val
    PROVE  ReplaceAt(l, i, x) \in ListValue /\ Len(ReplaceAt(l, i, x)) = Len(l)
BY DEF ReplaceAt, ListValue

(* The four JSON operations, on a column of the shape they are for.        *)

\* Setting a key of a map column.
LEMMA JSONSetKey ==
    ASSUME NEW p \in Prop, IsMap(p), NEW k \in Key, NEW x \in Val, NEW v, InColumn(p, v)
    PROVE  /\ ExecJSON(p, JSONSet(k, x), v) = [v EXCEPT ![k] = x]
           /\ InColumn(p, ExecJSON(p, JSONSet(k, x), v))
<1>1. v \in MapValue
  BY DEF IsMap, InColumn
<1>2. [v EXCEPT ![k] = x] \in MapValue
  BY <1>1 DEF MapValue
<1> QED BY <1>2 DEF IsMap, InColumn, ExecJSON, JSONSet

\* Removing a key of a map column.
LEMMA JSONRemoveKey ==
    ASSUME NEW p \in Prop, IsMap(p), NEW k \in Key, NEW v, InColumn(p, v)
    PROVE  /\ ExecJSON(p, JSONRemove(k), v) = [v EXCEPT ![k] = None]
           /\ InColumn(p, ExecJSON(p, JSONRemove(k), v))
<1>1. v \in MapValue
  BY DEF IsMap, InColumn
<1>2. [v EXCEPT ![k] = None] \in MapValue
  BY <1>1 DEF MapValue
<1> QED BY <1>2 DEF IsMap, InColumn, ExecJSON, JSONRemove

\* Setting an element of a list column keeps its length.
LEMMA JSONSetElem ==
    ASSUME NEW p \in Prop, IsList(p), NEW i \in Int, NEW x \in Val, NEW v, InColumn(p, v)
    PROVE  /\ InColumn(p, ExecJSON(p, JSONSet(i, x), v))
           /\ Len(ExecJSON(p, JSONSet(i, x), v)) = Len(v)
<1>1. v \in ListValue /\ ~IsMap(p)
  BY DEF IsMap, IsList, InColumn
<1>2. CASE InRange(v, i)
  <2>1. Position(v, i) \in DOMAIN v
    BY <1>2 DEF InRange
  <2>2. ExecJSON(p, JSONSet(i, x), v) = ReplaceAt(v, Position(v, i), x)
    BY <1>1, <1>2 DEF ExecJSON, JSONSet
  <2> QED BY <1>1, <2>1, <2>2, ReplaceAtList DEF InColumn, IsList
<1>3. CASE ~InRange(v, i)
  BY <1>1, <1>3 DEF ExecJSON, JSONSet
<1> QED BY <1>2, <1>3

\* A list without its last element.
LEMMA FrontList ==
    ASSUME NEW v \in ListValue, v # <<>>
    PROVE  /\ Front(v) \in ListValue /\ Len(Front(v)) = Len(v) - 1
           /\ \A j \in DOMAIN Front(v) : j \in DOMAIN v /\ Front(v)[j] = v[j]
<1> DEFINE n == Len(v)
           w == SubSeq(v, 1, n - 1)
<1>1. v \in Seq(Val) /\ n \in Nat \ {0} /\ n = Len(v) /\ Front(v) = w
  BY DEF ListValue, Front
<1> HIDE DEF n
<1>2. w \in Seq(Val) /\ Len(w) = n - 1 /\ \A j \in 1..(n - 1) : w[j] = v[j]
  BY <1>1
<1> HIDE DEF w
<1>3. DOMAIN w = 1..(n - 1) /\ 1..(n - 1) \subseteq DOMAIN v
  BY <1>1, <1>2
<1> QED BY <1>1, <1>2, <1>3 DEF ListValue

\* Removing an element of a list column.
LEMMA JSONRemoveElem ==
    ASSUME NEW p \in Prop, IsList(p), NEW i \in Int, NEW v, InColumn(p, v)
    PROVE  InColumn(p, ExecJSON(p, JSONRemove(i), v))
<1>1. v \in ListValue /\ ~IsMap(p)
  BY DEF IsMap, IsList, InColumn
<1>2. CASE InRange(v, i)
  <2>1. Position(v, i) \in DOMAIN v
    BY <1>2 DEF InRange
  <2>2. ExecJSON(p, JSONRemove(i), v) = RemoveAt(v, Position(v, i))
    BY <1>1, <1>2 DEF ExecJSON, JSONRemove
  <2> QED BY <1>1, <2>1, <2>2, RemoveAtList DEF InColumn, IsList
<1>3. CASE ~InRange(v, i)
  <2>1. ExecJSON(p, JSONRemove(i), v) = IF v = <<>> THEN v ELSE Front(v)
    BY <1>1, <1>3 DEF ExecJSON, JSONRemove
  <2> QED BY <1>1, <2>1, FrontList DEF InColumn, IsList
<1> QED BY <1>2, <1>3

\* A list appended to a list is one.
LEMMA ListConcat ==
    ASSUME NEW p \in Prop, IsList(p), NEW l \in ListValue, NEW v, InColumn(p, v)
    PROVE  InColumn(p, v \o l)
<1>1. v \in ListValue
  BY DEF IsList, InColumn
<1> QED BY <1>1 DEF ListValue, InColumn, IsList

\* An element appended to a list column.
LEMMA ListAppend ==
    ASSUME NEW p \in Prop, IsList(p), NEW x \in Val, NEW v, InColumn(p, v)
    PROVE  InColumn(p, Append(v, x))
<1>1. v \in ListValue
  BY DEF IsList, InColumn
<1> QED BY <1>1 DEF ListValue, InColumn, IsList

\* A position the compiler addresses is the one every backend looks at.
LEMMA SubscriptIsIndex ==
    ASSUME NEW p \in Prop, NEW i \in 0..MaxListIndex
    PROVE  Subscript(p, i) = i
BY DEF Subscript, Wrap

------------------------------------------------------------------------------
(* The fold of an edit.  Its operations are counted, and a set of numbers  *)
(* has a least one: that is the induction.                                 *)

\* A set of naturals that is not empty has a least element.
LEMMA Least == ASSUME NEW T \in SUBSET Nat, T # {} PROVE \E n \in T : \A m \in T : n <= m
<1> DEFINE Less == {ss \in Nat \X Nat : ss[1] < ss[2]}
<1>1. IsWellFoundedOn(Less, Nat)
  BY NatLessThanWellFounded, Zenon DEF OpToRel
<1> HIDE DEF Less
<1>2. PICK n \in T : \A m \in T : ~(<<m, n>> \in Less)
  BY <1>1, WFMin, Zenon
<1>3. \A m \in T : ~(m < n)
  BY <1>2 DEF Less
<1> QED BY <1>3

\* What holds of 0, and of i + 1 when it holds of i, holds up to n.
LEMMA Counting ==
    ASSUME NEW n \in Nat, NEW T, 0 \in T, \A i \in 0..(n - 1) : i \in T => i + 1 \in T
    PROVE  0..n \subseteq T
<1> SUFFICES ASSUME (0..n) \ T # {} PROVE FALSE
  OBVIOUS
<1>1. PICK i \in (0..n) \ T : \A j \in (0..n) \ T : i <= j
  <2>1. (0..n) \ T \in SUBSET Nat
    OBVIOUS
  <2> QED BY <2>1, Least
<1>2. i # 0 /\ i - 1 \in 0..(n - 1)
  BY <1>1
<1>3. i - 1 \in T
  BY <1>1, <1>2
<1> QED BY <1>1, <1>2, <1>3

\* The maximum of a set that has one.
LEMMA MaxIs == ASSUME NEW S \in SUBSET Int, NEW m \in S, \A x \in S : x <= m PROVE Max(S) = m
<1>1. \A y \in S : m >= y
  OBVIOUS
<1>2. \A x \in S : (\A y \in S : x >= y) => x = m
  OBVIOUS
<1> QED BY <1>1, <1>2 DEF Max

\* One operation of an edit, as Exec runs it.
Run(p, o, x) == ExecJSON(p, [o EXCEPT !.at = Subscript(p, @)], x)

LEMMA RunAppend == ASSUME NEW p, NEW x, NEW y PROVE Run(p, JSONAppend(x), y) = Append(y, x)
  BY DEF Run, JSONAppend, ExecJSON, Subscript

\* The columns an edit goes through.
Runs(r, p, s, v) == r[0] = v /\ \A i \in 1..Len(s) : r[i] = Run(p, s[i], r[i - 1])

\* The function of sets of positions that FoldLeft is defined by.
Folds(g, p, v, s, D) ==
    g = [T \in SUBSET D |-> IF T = {} THEN v ELSE Run(p, s[Max(T)], g[T \ {Max(T)}])]

\* There is one, of as many positions as wanted.
LEMMA FoldExists == ASSUME NEW p, NEW v, NEW s, NEW n \in Nat PROVE \E g : Folds(g, p, v, s, 1..n)
<1> DEFINE T == {i \in Nat : \E g : Folds(g, p, v, s, 1..i)}
<1>1. 0 \in T
  <2> DEFINE g == [S \in SUBSET (1..0) |-> v]
  <2>1. Folds(g, p, v, s, 1..0)
    BY DEF Folds
  <2> HIDE DEF g
  <2> QED BY <2>1
<1>2. ASSUME NEW i \in 0..(n - 1), i \in T PROVE i + 1 \in T
  <2>1. PICK g : Folds(g, p, v, s, 1..i)
    BY <1>2
  <2> DEFINE h == [S \in SUBSET (1..(i + 1)) |->
                      IF i + 1 \in S THEN Run(p, s[i + 1], g[S \ {i + 1}]) ELSE g[S]]
  <2>2. ASSUME NEW S \in SUBSET (1..(i + 1))
        PROVE  h[S] = IF S = {} THEN v ELSE Run(p, s[Max(S)], h[S \ {Max(S)}])
    <3>1. CASE i + 1 \in S
      <4>1. Max(S) = i + 1
        BY <3>1, MaxIs
      <4>2. h[S \ {i + 1}] = g[S \ {i + 1}]
        OBVIOUS
      <4> QED BY <3>1, <4>1, <4>2
    <3>2. CASE i + 1 \notin S
      <4>1. S \in SUBSET (1..i) /\ h[S] = g[S]
        BY <3>2
      <4>2. g[S] = IF S = {} THEN v ELSE Run(p, s[Max(S)], g[S \ {Max(S)}])
        BY <2>1, <4>1 DEF Folds
      <4>3. i + 1 \notin S \ {Max(S)} /\ S \ {Max(S)} \in SUBSET (1..(i + 1))
        BY <3>2
      <4>4. h[S \ {Max(S)}] = g[S \ {Max(S)}]
        BY <4>3
      <4> QED BY <4>1, <4>2, <4>4
    <3> QED BY <3>1, <3>2
  <2>3. Folds(h, p, v, s, 1..(i + 1))
    BY <2>2 DEF Folds
  <2> HIDE DEF h
  <2> QED BY <2>3
<1> HIDE DEF T
<1>3. 0..n \subseteq T
  BY <1>1, <1>2, Counting
<1> QED BY <1>3 DEF T

\* An edit runs its operations one after the other, and leaves what the last one leaves.
LEMMA ExecRuns ==
    ASSUME NEW p, NEW v, NEW s, Len(s) \in Nat, DOMAIN s = 1..Len(s)
    PROVE  \E r : Runs(r, p, s, v) /\ Exec(p, EditJSON(s), v) = r[Len(s)]
<1> DEFINE g == CHOOSE h : Folds(h, p, v, s, DOMAIN s)
           r == [i \in 0..Len(s) |-> g[1..i]]
<1>1. Exec(p, EditJSON(s), v) = g[DOMAIN s]
  BY DEF Exec, EditJSON, FoldLeft, MapThenFoldSet, Folds, Run
<1>2. Folds(g, p, v, s, DOMAIN s)
  BY FoldExists
<1> HIDE DEF g
<1>3. r[0] = v
  <2>1. g[{}] = v
    BY <1>2 DEF Folds
  <2>2. 1..0 = {}
    OBVIOUS
  <2> QED BY <2>1, <2>2
<1>4. ASSUME NEW i \in 1..Len(s) PROVE r[i] = Run(p, s[i], r[i - 1])
  <2>1. Max(1..i) = i
    <3>1. 1..i \in SUBSET Int /\ i \in 1..i /\ \A x \in 1..i : x <= i
      OBVIOUS
    <3> QED BY <3>1, MaxIs
  <2>2. (1..i) \ {i} = 1..(i - 1) /\ 1..i # {}
    <3>1. i \in Nat /\ i >= 1
      OBVIOUS
    <3>2. \A j : j \in (1..i) \ {i} <=> j \in 1..(i - 1)
      BY <3>1
    <3>3. i \in 1..i
      BY <3>1
    <3>4. (1..i) \ {i} = 1..(i - 1)
      BY <3>2, Zenon
    <3> QED BY <3>3, <3>4
  <2>3. 1..i \in SUBSET (DOMAIN s)
    OBVIOUS
  <2>4. g[1..i] = Run(p, s[i], g[1..(i - 1)])
    BY <1>2, <2>1, <2>2, <2>3 DEF Folds
  <2> QED BY <2>4
<1> HIDE DEF r
<1>5. Runs(r, p, s, v)
  BY <1>3, <1>4 DEF Runs
<1>6. r[Len(s)] = g[DOMAIN s]
  BY DEF r
<1> QED BY <1>1, <1>5, <1>6

\* Whatever goes through the same columns ends where the edit does.
LEMMA ExecIs ==
    ASSUME NEW p, NEW v, NEW s, Len(s) \in Nat, DOMAIN s = 1..Len(s), NEW q, Runs(q, p, s, v)
    PROVE  Exec(p, EditJSON(s), v) = q[Len(s)]
<1>1. PICK r : Runs(r, p, s, v) /\ Exec(p, EditJSON(s), v) = r[Len(s)]
  BY ExecRuns
<1> DEFINE T == {i \in 0..Len(s) : r[i] = q[i]}
<1>2. 0 \in T
  BY <1>1 DEF Runs
<1>3. ASSUME NEW i \in 0..(Len(s) - 1), i \in T PROVE i + 1 \in T
  <2>1. r[i + 1] = Run(p, s[i + 1], r[i]) /\ q[i + 1] = Run(p, s[i + 1], q[i])
    BY <1>1 DEF Runs
  <2> QED BY <1>3, <2>1
<1> HIDE DEF T
<1>4. Len(s) \in T
  <2>1. 0..Len(s) \subseteq T
    BY <1>2, <1>3, Counting
  <2> QED BY <2>1
<1> QED BY <1>1, <1>4 DEF T

\* Two edits of a column compose (Folded): run together, they do what one after the other does.
LEMMA ExecConcat ==
    ASSUME NEW p, NEW v, NEW S, NEW a \in Seq(S), NEW b \in Seq(S)
    PROVE  Exec(p, EditJSON(a \o b), v) = Exec(p, EditJSON(b), Exec(p, EditJSON(a), v))
<1> DEFINE w == Exec(p, EditJSON(a), v)
<1>1. PICK ra : Runs(ra, p, a, v) /\ w = ra[Len(a)]
  BY ExecRuns
<1>2. PICK rb : Runs(rb, p, b, w) /\ Exec(p, EditJSON(b), w) = rb[Len(b)]
  BY ExecRuns
<1> HIDE DEF w
<1> DEFINE q == [i \in 0..(Len(a) + Len(b)) |-> IF i <= Len(a) THEN ra[i] ELSE rb[i - Len(a)]]
<1>3. Len(a \o b) = Len(a) + Len(b) /\ DOMAIN (a \o b) = 1..Len(a \o b)
  OBVIOUS
<1>4. ASSUME NEW i \in 1..Len(a \o b) PROVE q[i] = Run(p, (a \o b)[i], q[i - 1])
  <2>1. CASE i <= Len(a)
    BY <1>1, <1>3, <2>1 DEF Runs
  <2>2. CASE i > Len(a)
    <3>1. (a \o b)[i] = b[i - Len(a)] /\ i - Len(a) \in 1..Len(b)
      BY <1>3, <2>2
    <3>2. rb[i - Len(a)] = Run(p, b[i - Len(a)], rb[i - Len(a) - 1])
      BY <1>2, <3>1 DEF Runs
    <3>3. q[i - 1] = rb[i - Len(a) - 1]
      <4>1. CASE i - 1 = Len(a)
        BY <1>1, <1>2, <4>1 DEF Runs
      <4>2. CASE i - 1 > Len(a)
        BY <1>3, <4>2
      <4> QED BY <2>2, <4>1, <4>2
    <3> QED BY <1>3, <2>2, <3>1, <3>2, <3>3
  <2> QED BY <1>3, <2>1, <2>2
<1>5. q[0] = v
  BY <1>1 DEF Runs
<1>6. q[Len(a \o b)] = rb[Len(b)]
  <2>1. Len(a) \in Nat /\ Len(b) \in Nat
    OBVIOUS
  <2>2. q[Len(a) + Len(b)] = IF Len(b) = 0 THEN ra[Len(a)] ELSE rb[Len(b)]
    BY <2>1
  <2>3. rb[0] = ra[Len(a)]
    BY <1>1, <1>2 DEF Runs
  <2> QED BY <1>3, <2>2, <2>3
<1> HIDE DEF q
<1>7. Runs(q, p, a \o b, v)
  BY <1>4, <1>5 DEF Runs
<1>8. Exec(p, EditJSON(a \o b), v) = q[Len(a \o b)]
  <2> DEFINE s == a \o b
  <2>1. Len(s) \in Nat /\ DOMAIN s = 1..Len(s) /\ Runs(q, p, s, v)
    BY <1>3, <1>7
  <2> HIDE DEF s
  <2>2. Exec(p, EditJSON(s), v) = q[Len(s)]
    BY <2>1, ExecIs
  <2> QED BY <2>2 DEF s
<1> QED BY <1>2, <1>6, <1>8 DEF w

\* An edit of one operation.
LEMMA ExecOne == ASSUME NEW p, NEW v, NEW o PROVE Exec(p, EditJSON(<<o>>), v) = Run(p, o, v)
<1> DEFINE q == [i \in 0..1 |-> IF i = 0 THEN v ELSE Run(p, o, v)]
<1>1. Runs(q, p, <<o>>, v)
  BY DEF Runs
<1>2. q[Len(<<o>>)] = Run(p, o, v)
  OBVIOUS
<1> HIDE DEF q
<1>3. Len(<<o>>) \in Nat /\ DOMAIN <<o>> = 1..Len(<<o>>)
  OBVIOUS
<1>4. Exec(p, EditJSON(<<o>>), v) = q[Len(<<o>>)]
  BY <1>1, <1>3, ExecIs
<1> QED BY <1>2, <1>4

\* The elements of a list appended one by one are the list appended.
LEMMA ExecAppends ==
    ASSUME NEW p, NEW v \in ListValue, NEW l \in ListValue
    PROVE  Exec(p, EditJSON([i \in DOMAIN l |-> JSONAppend(l[i])]), v) = v \o l
<1> DEFINE s == [i \in DOMAIN l |-> JSONAppend(l[i])]
           q == [i \in 0..Len(l) |-> v \o SubSeq(l, 1, i)]
<1>1. Len(s) = Len(l) /\ DOMAIN s = 1..Len(s) /\ Len(s) \in Nat
  BY DEF ListValue
<1>2. ASSUME NEW i \in 1..Len(l) PROVE q[i] = Run(p, s[i], q[i - 1])
  <2>1. Run(p, s[i], q[i - 1]) = Append(q[i - 1], l[i])
    <3>1. s[i] = JSONAppend(l[i])
      BY DEF ListValue
    <3> HIDE DEF s, q
    <3> QED BY <3>1, RunAppend
  <2>2. SubSeq(l, 1, i) = Append(SubSeq(l, 1, i - 1), l[i])
    BY DEF ListValue
  <2>3. v \o Append(SubSeq(l, 1, i - 1), l[i]) = Append(v \o SubSeq(l, 1, i - 1), l[i])
    BY DEF ListValue
  <2>4. q[i] = v \o SubSeq(l, 1, i) /\ q[i - 1] = v \o SubSeq(l, 1, i - 1)
    BY DEF ListValue
  <2> HIDE DEF s, q
  <2> QED BY <2>1, <2>2, <2>3, <2>4
<1>3. q[0] = v /\ q[Len(l)] = v \o l
  BY DEF ListValue
<1> HIDE DEF s, q
<1>4. Runs(q, p, s, v)
  BY <1>1, <1>2, <1>3 DEF Runs
<1>5. Exec(p, EditJSON(s), v) = q[Len(s)]
  BY <1>1, <1>4, ExecIs
<1> QED BY <1>1, <1>3, <1>5 DEF s

------------------------------------------------------------------------------
(* What the handlers may rely on once their checks have passed.            *)

\* Checks in sequence pass when each of them does.
LEMMA ThenOk == ASSUME NEW a, NEW b, Then(a, b) = "ok" PROVE a = "ok" /\ b = "ok"
BY DEF Then

\* A literal that passed is one its arm takes.
LEMMA LiteralOk == ASSUME NEW S, NEW lit, LiteralError(S, lit) = "ok" PROVE lit \in S
BY DEF LiteralError

\* A literal a column's check accepts is one the column may hold.
LEMMA FieldLiteralFits ==
    ASSUME NEW p \in Prop, NEW lit \in FieldLiteral(p) PROVE InColumn(p, lit)
<1>1. Shape[p] \in {"scalar", "map", "list"}
  BY SchemaAssumption
<1> QED BY <1>1, CompilerAssumption DEF FieldLiteral, InColumn, ScalarValue

\* What a compiled test may rely on.
LEMMA TestOk ==
    ASSUME NEW p, NEW at, NEW want \in TestOp, NEW lit, TestError(p, at, want, lit) = "ok"
    PROVE  /\ p \notin wrote
           /\ want = "equal" => lit \in Val
BY ThenOk, LiteralOk DEF TestError, TestOp

\* What a field's handler may rely on.
LEMMA ColumnOk ==
    ASSUME NEW e, NEW sel, e.op \in EntryOp \ {"move"}, ColumnError(e, sel) = "ok"
    PROVE  /\ sel.of \in Undeclared \cup Prop
           /\ sel.of \in Prop =>
                /\ e.op \in TestOp \cup {"assign", "remove"}
                /\ e.op \in TestOp => TestError(sel.of, None, e.op, e.lit) = "ok"
                /\ e.op \in {"assign", "remove"} =>
                        MutableError(sel.of) = "ok" /\ ColumnOpError(e, sel.of) = "ok"
BY ThenOk, CompilerAssumption DEF ColumnError, EntryOp, TestOp

\* What the write of a whole column may rely on.
LEMMA ColumnOpOk ==
    ASSUME NEW e, NEW p, e.op \in {"assign", "remove"}, ColumnOpError(e, p) = "ok"
    PROVE  /\ WriteError(p, ColumnOp(e, p)) = "ok"
           /\ e.op = "assign" => p \notin Edge /\ e.lit \in FieldLiteral(p)
           /\ e.op = "remove" => p \in Nullable \/ (p \notin Edge /\ IsCollection(p))
BY ThenOk, LiteralOk DEF ColumnOpError

\* What an edge's handler may rely on.
LEMMA EdgeOk ==
    ASSUME NEW e, NEW sel, EdgeError(e, sel) = "ok", e.op \in EntryOp \ {"move"}
    PROVE  /\ e.op \in TestOp \cup {"assign"}
           /\ e.op \in TestOp => TestError(e.site, None, e.op, e.lit) = "ok"
           /\ e.op = "assign" => /\ MutableError(e.site) = "ok"
                                 /\ e.lit \in Val
                                 /\ WriteError(e.site, SetEdge(e.lit)) = "ok"
BY ThenOk, LiteralOk DEF EdgeError, EntryOp, TestOp

\* What a map entry's handler may rely on.
LEMMA MapOk ==
    ASSUME NEW e, NEW sel, MapError(e, sel) = "ok", e.op \in EntryOp \ {"move"}
    PROVE  \/ /\ sel.arm = "every" /\ e.op = "remove"
              /\ MutableError(e.site) = "ok"
              /\ WriteError(e.site, EditJSON(<<JSONClear>>)) = "ok"
           \/ /\ sel.arm = "mapKey" /\ sel.of # None
              /\ e.op \in TestOp
              /\ TestError(e.site, sel.of, e.op, e.lit) = "ok"
           \/ /\ sel.arm = "mapKey" /\ sel.of # None
              /\ e.op = "assign" /\ e.lit \in Val
              /\ MutableError(e.site) = "ok"
              /\ WriteError(e.site, EditJSON(<<JSONSet(sel.of, e.lit)>>)) = "ok"
           \/ /\ sel.arm = "mapKey" /\ sel.of # None
              /\ e.op = "remove"
              /\ MutableError(e.site) = "ok"
              /\ WriteError(e.site, EditJSON(<<JSONRemove(sel.of)>>)) = "ok"
BY ThenOk, LiteralOk DEF MapError, EntryOp, TestOp

\* What a list element's handler may rely on.
LEMMA ListOk ==
    ASSUME NEW e, NEW sel, ListError(e, sel) = "ok", e.op \in EntryOp \ {"move"}
    PROVE  \/ /\ sel.arm = "append" /\ e.op = "insert" /\ e.lit \in Val
              /\ MutableError(e.site) = "ok"
              /\ WriteError(e.site, EditJSON(<<JSONAppend(e.lit)>>)) = "ok"
           \/ /\ sel.arm = "index" /\ AddressableError(e.site, sel.of) = "ok"
              /\ e.op \in TestOp
              /\ TestError(e.site, sel.of, e.op, e.lit) = "ok"
           \/ /\ sel.arm = "index" /\ AddressableError(e.site, sel.of) = "ok"
              /\ e.op = "assign" /\ e.lit \in Val
              /\ MutableError(e.site) = "ok"
              /\ WriteError(e.site, EditJSON(<<JSONSet(sel.of, e.lit)>>)) = "ok"
           \/ /\ sel.arm = "index" /\ AddressableError(e.site, sel.of) = "ok"
              /\ e.op = "remove"
              /\ MutableError(e.site) = "ok"
              /\ WriteError(e.site, EditJSON(<<JSONRemove(sel.of)>>)) = "ok"
BY ThenOk, LiteralOk DEF ListError, EntryOp, TestOp

\* What the container's handler may rely on.
LEMMA ContainerOk ==
    ASSUME NEW s, NEW op \in EntryOp \ {"move"}, NEW lit, ContainerError(s, op, lit) = "ok"
    PROVE  /\ SiteKind(s) \notin {"root", "edge"}
           /\ op \in {"remove", "assign", "insert"}
           /\ op = "insert" => IsList(s)
           /\ op \in {"assign", "insert"} => lit \in FieldLiteral(s)
           /\ WriteError(s, ContainerOp(op, lit)) = "ok"
BY ThenOk, LiteralOk DEF ContainerError, EntryOp, TestOp

------------------------------------------------------------------------------
(* Type correctness.                                                       *)

\* A write leaves the two engines' rows rows.
LEMMA WriteTyped ==
    ASSUME PlanOK, EnginesOK, NEW p \in Prop, NEW op \in Op, NEW v, InColumn(p, v), Write(p, op, v)
    PROVE  /\ order' \in Seq(Prop) /\ wrote' \subseteq Prop
           /\ writes' \in [Prop -> Op \cup {NoWrite}]
           /\ planned' \in Row
<1>1. order' \in Seq(Prop) /\ wrote' \subseteq Prop
  BY DEF Write, Folded, Ordered, Written, PlanOK
<1>2. planned' \in Row
  BY RowExcept DEF Write, Folded, Ordered, Written, EnginesOK
<1>3. writes[p].kind = "edit" => writes[p].ops \in Seq(JSONOp)
  BY DEF PlanOK, Op, NoWrite
<1>4. op.kind = "edit" => op.ops \in Seq(JSONOp)
  BY DEF Op
<1>5. writes[p].kind = "edit" /\ op.kind = "edit" => EditJSON(writes[p].ops \o op.ops) \in Op
  BY <1>3, <1>4 DEF EditJSON, Op
<1>6. writes' \in [Prop -> Op \cup {NoWrite}]
  BY <1>5 DEF Write, Folded, Ordered, Written, PlanOK
<1> QED BY <1>1, <1>2, <1>6

\* So does a write of the reference engine alone.
LEMMA RefWriteTyped ==
    ASSUME EnginesOK, NEW p \in Prop, NEW v, InColumn(p, v), NEW miss \in BOOLEAN,
           NEW lost \in SUBSET {q \in Prop : Shape[q] = "scalar"}, RefWrite(p, miss, v, lost)
    PROVE  ref' \in Row /\ refOk' \in BOOLEAN
BY RowCleared DEF RefWrite, EnginesOK

\* A compiled test is a test.
LEMMA TestTyped ==
    ASSUME NEW p \in Prop, NEW at \in Key \cup Int \cup {None}, NEW want \in TestOp, NEW lit,
           want = "equal" => lit \in Val
    PROVE  TestOn(p, at, want, lit) \in Test
BY DEF TestOn, Test, TestOp

\* An operation on a column is one of the plan's.
LEMMA OpTyped ==
    /\ \A p \in Prop : \A v : InColumn(p, v) => SetColumn(v) \in Op
    /\ \A v \in Val : SetEdge(v) \in Op
    /\ ClearColumn \in Op /\ ClearEdge \in Op
    /\ \A o \in JSONOp : EditJSON(<<o>>) \in Op
<1>1. \A p \in Prop : \A v : InColumn(p, v) => SetColumn(v) \in Op
  BY InColumnIsColumn DEF Op, SetColumn
<1>2. \A v \in Val : SetEdge(v) \in Op
  BY DEF Op, SetEdge, Column, ScalarValue
<1>3. ClearColumn \in Op /\ ClearEdge \in Op
  BY DEF Op, ClearColumn, ClearEdge
<1>4. \A o \in JSONOp : EditJSON(<<o>>) \in Op
  BY DEF Op, EditJSON
<1> QED BY <1>1, <1>2, <1>3, <1>4

\* So is an edit of a collection.
LEMMA JSONOpTyped ==
    /\ JSONClear \in JSONOp
    /\ \A v \in Val : JSONAppend(v) \in JSONOp
    /\ \A at \in Key \cup Int, v \in Val : JSONSet(at, v) \in JSONOp
    /\ \A at \in Key \cup Int : JSONRemove(at) \in JSONOp
BY DEF JSONOp, JSONKind, JSONClear, JSONAppend, JSONSet, JSONRemove

\* So are the appends of a list's insert.
LEMMA AppendsTyped == ASSUME NEW l \in ListValue PROVE EditJSON(Appends(l)) \in Op
<1>1. \A i \in DOMAIN l : JSONAppend(l[i]) \in JSONOp
  BY JSONOpTyped DEF ListValue
<1>2. Appends(l) \in Seq(JSONOp)
  BY <1>1 DEF Appends, ListValue
<1> QED BY <1>2 DEF Op, EditJSON

\* So is the write of a whole column.
LEMMA ColumnOpTyped ==
    ASSUME NEW e, NEW p \in Prop, e.op \in {"assign", "remove"},
           e.op = "assign" => e.lit \in FieldLiteral(p)
    PROVE  ColumnOp(e, p) \in Op
BY OpTyped, JSONOpTyped, FieldLiteralFits DEF ColumnOp

\* The column a container entry leaves, and the operation it compiles to.
LEMMA ContainerOpTyped ==
    ASSUME NEW s \in Prop, NEW op \in {"remove", "assign", "insert"}, NEW lit,
           op \in {"assign", "insert"} => lit \in FieldLiteral(s), op = "insert" => IsList(s)
    PROVE  ContainerOp(op, lit) \in Op
<1>1. op = "insert" => lit \in ListValue
  BY CompilerAssumption DEF FieldLiteral, IsList
<1> QED BY <1>1, OpTyped, JSONOpTyped, FieldLiteralFits, AppendsTyped DEF ContainerOp

\* A recorded test leaves the plan a plan.
LEMMA RecordTestTyped ==
    ASSUME PlanOK, EnginesOK, NEW p \in Prop, NEW at \in Key \cup Int \cup {None},
           NEW want \in TestOp, NEW lit, want = "equal" => lit \in Val, NEW reached,
           RecordTest(p, at, want, lit, reached), row' = row, diverged' \subseteq Divergence
    PROVE  PlanOK' /\ EnginesOK'
BY TestTyped, SMTT(30) DEF RecordTest, RefTest, PlanOK, EnginesOK

\* The variables a write may leave in any state of their types.
SideOK ==
    /\ tests \subseteq Test /\ resized \subseteq Prop
    /\ touched \subseteq Prop \X Key /\ grown \subseteq Prop
    /\ diverged \subseteq Divergence

\* The plan and the engines are what the handlers keep.
LEMMA SideTyped == ASSUME PlanOK, EnginesOK PROVE SideOK
BY DEF PlanOK, EnginesOK, SideOK

\* A write with its guard leaves the plan and the engines typed.
LEMMA WriteStepTyped ==
    ASSUME PlanOK, EnginesOK, NEW p \in Prop, NEW op \in Op, NEW v, InColumn(p, v),
           NEW rv, InColumn(p, rv), NEW miss \in BOOLEAN,
           NEW lost \in SUBSET {q \in Prop : Shape[q] = "scalar"},
           Write(p, op, v), RefWrite(p, miss, rv, lost), SideOK', row' = row
    PROVE  PlanOK' /\ EnginesOK'
BY WriteTyped, RefWriteTyped DEF PlanOK, EnginesOK, SideOK

\* The same for a write that loses nothing, and for one that misses nothing.
LEMMA GuardedWriteTyped ==
    ASSUME PlanOK, EnginesOK, NEW p \in Prop, NEW op \in Op, NEW v, InColumn(p, v),
           NEW rv, InColumn(p, rv), NEW miss \in BOOLEAN,
           Write(p, op, v), RefWrite(p, miss, rv, {}), SideOK', row' = row
    PROVE  PlanOK' /\ EnginesOK'
BY WriteStepTyped

\* A write with neither guard nor divergence.
LEMMA PlainWriteTyped ==
    ASSUME PlanOK, EnginesOK, NEW p \in Prop, NEW op \in Op, NEW v, InColumn(p, v),
           NEW rv, InColumn(p, rv), Write(p, op, v), RefWrite(p, FALSE, rv, {}), SideOK', row' = row
    PROVE  PlanOK' /\ EnginesOK'
BY GuardedWriteTyped

\* A divergence that is recorded has a name.
LEMMA DivergeTyped ==
    ASSUME EnginesOK, NEW cond, NEW why \in Divergence, Diverge(cond, why)
    PROVE  diverged' \subseteq Divergence
BY DEF Diverge, EnginesOK

\* The handler of a field or a whole collection.
LEMMA AtColumnTyped ==
    ASSUME PlanOK, EnginesOK, NEW e, NEW sel, e.op \in EntryOp \ {"move"},
           ColumnError(e, sel) = "ok", AtColumn(e, sel.of), row' = row
    PROVE  PlanOK' /\ EnginesOK'
<1> DEFINE f == sel.of
<1>0. f \notin Undeclared \/ f \notin Prop
  BY CompilerAssumption
<1>1. CASE f \in Undeclared
  <2>1. UNCHANGED <<plan, engines>>
    BY <1>0, <1>1 DEF AtColumn, Resize
  <2> QED BY <2>1 DEF plan, engines, PlanOK, EnginesOK
<1>2. CASE f \in Prop /\ e.op \in TestOp
  <2>1. RecordTest(f, None, e.op, e.lit, TRUE) /\ diverged' = diverged
    BY <1>0, <1>2 DEF AtColumn, Resize, TestOp
  <2>2. e.op = "equal" => e.lit \in Val
    BY <1>2, ColumnOk, TestOk
  <2> QED BY <1>2, <2>1, <2>2, RecordTestTyped DEF EnginesOK
<1>3. CASE f \in Prop /\ e.op = "assign"
  <2>1. /\ Write(f, ColumnOp(e, f), e.lit)
        /\ RefWrite(f, FALSE, e.lit, Sibling[f])
        /\ Diverge(SiblingSet(f), "oneof sibling")
        /\ touched' = touched \cup ({f} \X Key)
        /\ UNCHANGED <<tests, resized, grown>>
    BY <1>0, <1>3 DEF AtColumn, Resize, TestOp
  <2>2. e.lit \in FieldLiteral(f)
    BY <1>3, ColumnOk, ColumnOpOk
  <2>3. ColumnOp(e, f) \in Op /\ InColumn(f, e.lit)
    BY <1>3, <2>2, ColumnOpTyped, FieldLiteralFits
  <2>4. diverged' \subseteq Divergence
    BY <2>1, DivergeTyped DEF Divergence
  <2>5. Sibling[f] \in SUBSET {q \in Prop : Shape[q] = "scalar"}
    BY <1>3, CompilerAssumption
  <2>6. SideOK'
    BY <1>3, <2>1, <2>4, SideTyped DEF SideOK
  <2> QED BY <1>3, <2>1, <2>3, <2>5, <2>6, WriteStepTyped
<1>4. CASE f \in Prop /\ e.op = "remove"
  <2>1. /\ Write(f, ColumnOp(e, f), Empty(f))
        /\ RefWrite(f, FALSE, Empty(f), {})
        /\ resized' \in {resized, resized \cup {f}}
        /\ touched' = touched \cup ({f} \X Key)
        /\ UNCHANGED <<tests, grown, diverged>>
    BY <1>0, <1>4 DEF AtColumn, Resize, TestOp
  <2>2. ColumnOp(e, f) \in Op /\ InColumn(f, Empty(f))
    BY <1>4, ColumnOpTyped, EmptyInColumn
  <2>3. SideOK'
    BY <1>4, <2>1, SideTyped DEF SideOK
  <2> HIDE DEF f
  <2> QED BY <1>4, <2>1, <2>2, <2>3, PlainWriteTyped
<1> QED BY <1>1, <1>2, <1>3, <1>4, ColumnOk

\* The handler of an edge.
LEMMA AtEdgeTyped ==
    ASSUME PlanOK, EnginesOK, NEW e, NEW sel, e.op \in EntryOp \ {"move"},
           e.site \in Prop, Shape[e.site] = "scalar",
           EdgeError(e, sel) = "ok", AtEdge(e), row' = row
    PROVE  PlanOK' /\ EnginesOK'
<1> DEFINE p == e.site
           set == ref[p] # None
<1>1. CASE e.op \in TestOp
  <2>1. /\ RecordTest(p, None, e.op, e.lit, set)
        /\ Diverge(~set /\ e.op = "absent", "edge path")
    BY <1>1 DEF AtEdge, TestOp
  <2>2. e.op = "equal" => e.lit \in Val
    BY <1>1, EdgeOk, TestOk
  <2>3. diverged' \subseteq Divergence
    BY <2>1, DivergeTyped DEF Divergence
  <2> QED BY <1>1, <2>1, <2>2, <2>3, RecordTestTyped
<1>2. CASE e.op = "assign"
  <2>1. /\ Write(p, SetEdge(e.lit), e.lit)
        /\ RefWrite(p, ~set /\ ~e.create, e.lit, Sibling[p])
        /\ Diverge(SiblingSet(p) \/ (~set /\ ~e.create),
                   IF SiblingSet(p) THEN "oneof sibling" ELSE "edge path")
        /\ UNCHANGED <<tests, resized, touched, grown>>
    BY <1>2 DEF AtEdge, TestOp
  <2>2. e.lit \in Val
    BY <1>2, EdgeOk
  <2>3. SetEdge(e.lit) \in Op /\ InColumn(p, e.lit)
    BY <2>2, OpTyped DEF InColumn, ScalarValue
  <2>4. diverged' \subseteq Divergence
    BY <2>1, DivergeTyped DEF Divergence
  <2>5. Sibling[p] \in SUBSET {q \in Prop : Shape[q] = "scalar"}
    BY CompilerAssumption
  <2>6. SideOK'
    BY <2>1, <2>4, SideTyped DEF SideOK
  <2> QED BY <2>1, <2>3, <2>5, <2>6, WriteStepTyped
<1> QED BY <1>1, <1>2, EdgeOk

\* The handler of a map entry.
LEMMA AtMapEntryTyped ==
    ASSUME PlanOK, EnginesOK, NEW e, NEW sel \in Selector, e.op \in EntryOp \ {"move"},
           e.site \in Prop, IsMap(e.site),
           MapError(e, sel) = "ok", AtMapEntry(e, sel), row' = row
    PROVE  PlanOK' /\ EnginesOK'
<1> DEFINE p == e.site
           k == sel.of
<1>1. InColumn(p, planned[p]) /\ InColumn(p, ref[p])
  BY RowColumn DEF EnginesOK
<1>2. CASE sel.arm = "every"
  <2>1. /\ Write(p, EditJSON(<<JSONClear>>), Empty(p))
        /\ RefWrite(p, FALSE, Empty(p), {})
        /\ resized' = resized \cup {p}
        /\ touched' = touched \cup ({p} \X Key)
        /\ UNCHANGED <<tests, grown, diverged>>
    BY <1>2 DEF AtMapEntry, Resize
  <2>2. EditJSON(<<JSONClear>>) \in Op /\ InColumn(p, Empty(p))
    BY OpTyped, JSONOpTyped, EmptyInColumn
  <2>3. SideOK'
    BY <2>1, SideTyped DEF SideOK
  <2> QED BY <2>1, <2>2, <2>3, PlainWriteTyped
<1>3. CASE sel.arm = "mapKey"
  <2>0. k \in Key
    BY <1>3, MapOk DEF Selector
  <2>1. CASE e.op \in TestOp
    <3>1. RecordTest(p, k, e.op, e.lit, TRUE) /\ diverged' = diverged
      BY <1>3, <2>1 DEF AtMapEntry, Resize, TestOp
    <3>2. e.op = "equal" => e.lit \in Val
      BY <1>3, <2>1, MapOk, TestOk DEF TestOp
    <3> QED BY <2>0, <2>1, <3>1, <3>2, RecordTestTyped DEF EnginesOK
  <2>2. CASE e.op = "assign"
    <3>1. e.lit \in Val
      BY <1>3, <2>2, MapOk DEF TestOp
    <3>2. /\ Write(p, EditJSON(<<JSONSet(k, e.lit)>>), ExecJSON(p, JSONSet(k, e.lit), planned[p]))
          /\ RefWrite(p, FALSE, ExecJSON(p, JSONSet(k, e.lit), ref[p]), {})
          /\ touched' = touched \cup {<<p, k>>}
          /\ UNCHANGED <<tests, resized, grown, diverged>>
      BY <1>3, <2>2 DEF AtMapEntry, Resize, TestOp
    <3>3. EditJSON(<<JSONSet(k, e.lit)>>) \in Op
      BY <2>0, <3>1, OpTyped, JSONOpTyped
    <3>4. /\ InColumn(p, ExecJSON(p, JSONSet(k, e.lit), planned[p]))
          /\ InColumn(p, ExecJSON(p, JSONSet(k, e.lit), ref[p]))
      BY <1>1, <2>0, <3>1, JSONSetKey
    <3>5. SideOK'
      BY <2>0, <3>2, SideTyped DEF SideOK
    <3> QED BY <3>2, <3>3, <3>4, <3>5, PlainWriteTyped
  <2>3. CASE e.op = "remove"
    <3> DEFINE missed == ~e.skip /\ ~Present(p, k, ref[p])
    <3>1. /\ Guard(p, k, e.skip)
          /\ Write(p, EditJSON(<<JSONRemove(k)>>), ExecJSON(p, JSONRemove(k), planned[p]))
          /\ RefWrite(p, missed, ExecJSON(p, JSONRemove(k), ref[p]), {})
          /\ Diverge(~e.skip /\ <<p, k>> \in touched, "late guard")
          /\ touched' = touched \cup {<<p, k>>}
          /\ UNCHANGED <<resized, grown>>
      BY <1>3, <2>3 DEF AtMapEntry, Resize, TestOp
    <3>2. tests' \subseteq Test
      BY <2>0, <3>1, TestTyped DEF Guard, PlanOK, TestOp
    <3>3. diverged' \subseteq Divergence
      BY <3>1, DivergeTyped DEF Divergence
    <3>4. EditJSON(<<JSONRemove(k)>>) \in Op
      BY <2>0, OpTyped, JSONOpTyped
    <3>5. /\ InColumn(p, ExecJSON(p, JSONRemove(k), planned[p]))
          /\ InColumn(p, ExecJSON(p, JSONRemove(k), ref[p]))
      BY <1>1, <2>0, JSONRemoveKey
    <3>6. touched' \subseteq Prop \X Key /\ resized' \subseteq Prop /\ grown' \subseteq Prop
      <4>1. touched' = touched \cup {<<p, k>>} /\ resized' = resized /\ grown' = grown
        BY <3>1
      <4> QED BY <2>0, <4>1, SideTyped DEF SideOK
    <3>7. missed \in BOOLEAN
      OBVIOUS
    <3>8. SideOK'
      BY <3>2, <3>3, <3>6 DEF SideOK
    <3> HIDE DEF missed
    <3> QED BY <3>1, <3>4, <3>5, <3>7, <3>8, GuardedWriteTyped
  <2> QED BY <1>3, <2>1, <2>2, <2>3, MapOk
<1> QED BY <1>2, <1>3, MapOk

\* The handler of a list element.
LEMMA AtListElemTyped ==
    ASSUME PlanOK, EnginesOK, NEW e, NEW sel \in Selector, e.op \in EntryOp \ {"move"},
           e.site \in Prop, IsList(e.site),
           ListError(e, sel) = "ok", AtListElem(e, sel), row' = row
    PROVE  PlanOK' /\ EnginesOK'
<1> DEFINE p == e.site
           i == sel.of
<1>1. InColumn(p, planned[p]) /\ InColumn(p, ref[p])
  BY RowColumn DEF EnginesOK
<1>2. CASE sel.arm = "append"
  <2>1. /\ Write(p, EditJSON(<<JSONAppend(e.lit)>>), Append(planned[p], e.lit))
        /\ RefWrite(p, FALSE, Append(ref[p], e.lit), {})
        /\ resized' = resized \cup {p}
        /\ UNCHANGED <<tests, touched, grown, diverged>>
    BY <1>2 DEF AtListElem, Resize
  <2>2. e.lit \in Val
    BY <1>2, ListOk
  <2>3. EditJSON(<<JSONAppend(e.lit)>>) \in Op
    BY <2>2, OpTyped, JSONOpTyped
  <2>4. InColumn(p, Append(planned[p], e.lit)) /\ InColumn(p, Append(ref[p], e.lit))
    BY <1>1, <2>2, ListAppend
  <2>5. SideOK'
    BY <2>1, SideTyped DEF SideOK
  <2> QED BY <2>1, <2>3, <2>4, <2>5, PlainWriteTyped
<1>3. CASE sel.arm = "index"
  <2>0. i \in 0..MaxListIndex
    <3>1. i \in Int
      BY <1>3, CompilerAssumption DEF Selector
    <3>2. AddressableError(p, i) = "ok"
      BY <1>3, ListOk
    <3> QED BY <3>1, <3>2, SchemaAssumption DEF AddressableError
  <2>1. CASE e.op \in TestOp
    <3>1. RecordTest(p, i, e.op, e.lit, TRUE) /\ diverged' = diverged
      BY <1>3, <2>1 DEF AtListElem, Resize, TestOp
    <3>2. e.op = "equal" => e.lit \in Val
      BY <1>3, <2>1, ListOk, TestOk DEF TestOp
    <3>3. i \in Key \cup Int \cup {None}
      BY <2>0
    <3>4. diverged' \subseteq Divergence
      BY <3>1 DEF EnginesOK
    <3> QED BY <2>1, <3>1, <3>2, <3>3, <3>4, RecordTestTyped
  <2>2. CASE e.op \in {"assign", "remove"}
    <3> DEFINE o == IF e.op = "assign" THEN JSONSet(i, e.lit) ELSE JSONRemove(i)
               missed == ~Present(p, i, ref[p])
    <3>1. e.op = "assign" => e.lit \in Val
      BY <1>3, ListOk DEF TestOp
    <3>2. o.at = i
      BY DEF JSONSet, JSONRemove
    <3>3. [o EXCEPT !.at = Subscript(p, @)] = o
      BY <2>0, SubscriptIsIndex DEF JSONSet, JSONRemove
    <3>4. /\ Guard(p, i, e.skip)
          /\ Write(p, EditJSON(<<o>>), ExecJSON(p, o, planned[p]))
          /\ RefWrite(p, ~e.skip /\ missed, IF missed THEN ref[p] ELSE ExecJSON(p, o, ref[p]), {})
          /\ Diverge(IF e.skip THEN missed ELSE p \in grown,
                     IF e.skip THEN "unguarded index" ELSE "late guard")
          /\ resized' \in {resized, resized \cup {p}}
          /\ UNCHANGED <<touched, grown>>
      BY <1>3, <2>2, <3>3 DEF AtListElem, Resize, TestOp
    <3>5. tests' \subseteq Test
      <4>1. i \in Key \cup Int \cup {None}
        BY <2>0
      <4>2. TestOn(p, i, "exists", None) \in Test
        BY <4>1, TestTyped DEF TestOp
      <4> QED BY <3>4, <4>2 DEF Guard, PlanOK
    <3>6. diverged' \subseteq Divergence
      BY <3>4, DivergeTyped DEF Divergence
    <3>7. EditJSON(<<o>>) \in Op
      BY <2>0, <2>2, <3>1, OpTyped, JSONOpTyped, SchemaAssumption
    <3>8. /\ InColumn(p, ExecJSON(p, o, planned[p]))
          /\ InColumn(p, IF missed THEN ref[p] ELSE ExecJSON(p, o, ref[p]))
      BY <1>1, <2>0, <2>2, <3>1, JSONSetElem, JSONRemoveElem, SchemaAssumption
    <3>9. (~e.skip /\ missed) \in BOOLEAN
      OBVIOUS
    <3> HIDE DEF o, missed
    <3>10. SideOK'
      BY <3>4, <3>5, <3>6, SideTyped DEF SideOK
    <3> QED BY <3>4, <3>7, <3>8, <3>9, <3>10, GuardedWriteTyped
  <2> QED BY <1>3, <2>1, <2>2, ListOk
<1> QED BY <1>2, <1>3, ListOk

\* The handler of the container.
LEMMA AtContainerTyped ==
    ASSUME PlanOK, EnginesOK, NEW s \in Prop, NEW op \in EntryOp \ {"move"}, NEW lit,
           ContainerError(s, op, lit) = "ok", AtContainer(s, op, lit), row' = row
    PROVE  PlanOK' /\ EnginesOK'
<1>1. InColumn(s, planned[s]) /\ InColumn(s, ref[s])
  BY RowColumn DEF EnginesOK
<1>2. ContainerOp(op, lit) \in Op
  BY ContainerOk, ContainerOpTyped
<1>3. CASE op = "remove"
  <2>1. /\ Write(s, ContainerOp(op, lit), Empty(s))
        /\ RefWrite(s, FALSE, Empty(s), {})
        /\ resized' = resized \cup {s}
        /\ touched' = touched \cup ({s} \X Key)
        /\ UNCHANGED <<tests, grown, diverged>>
    BY <1>3 DEF AtContainer, Resize
  <2>2. SideOK'
    BY <2>1, SideTyped DEF SideOK
  <2> QED BY <1>2, <2>1, <2>2, EmptyInColumn, PlainWriteTyped
<1>4. CASE op = "assign"
  <2>1. /\ Write(s, ContainerOp(op, lit), lit)
        /\ RefWrite(s, FALSE, lit, {})
        /\ touched' = touched \cup ({s} \X Key)
        /\ UNCHANGED <<tests, resized, grown, diverged>>
    BY <1>4 DEF AtContainer, Resize
  <2>2. InColumn(s, lit)
    BY <1>4, ContainerOk, FieldLiteralFits
  <2>3. SideOK'
    BY <2>1, SideTyped DEF SideOK
  <2> QED BY <1>2, <2>1, <2>2, <2>3, PlainWriteTyped
<1>5. CASE op = "insert"
  <2>1. /\ Write(s, ContainerOp(op, lit), planned[s] \o lit)
        /\ RefWrite(s, FALSE, ref[s] \o lit, {})
        /\ grown' = grown \cup {s}
        /\ UNCHANGED <<tests, resized, touched, diverged>>
    BY <1>5 DEF AtContainer, Resize
  <2>2. IsList(s) /\ lit \in ListValue
    BY <1>5, ContainerOk, CompilerAssumption DEF FieldLiteral, IsList
  <2>3. InColumn(s, planned[s] \o lit) /\ InColumn(s, ref[s] \o lit)
    BY <1>1, <2>2, ListConcat
  <2>4. SideOK'
    BY <2>1, SideTyped DEF SideOK
  <2> QED BY <1>2, <2>1, <2>3, <2>4, PlainWriteTyped
<1> QED BY <1>3, <1>4, <1>5, ContainerOk

------------------------------------------------------------------------------
(* Every step.                                                             *)

Outcome == Verdict \cup {"ok"}

\* Checks in sequence have an outcome.
LEMMA ThenTyped == ASSUME NEW a \in Outcome, NEW b \in Outcome PROVE Then(a, b) \in Outcome
BY DEF Then

\* Each single check has an outcome.
LEMMA CheckTyped ==
    /\ "ok" \in Outcome /\ "unsupported" \in Outcome /\ "IllegalArm" \in Outcome
    /\ "IllegalSelector" \in Outcome /\ "VacantTarget" \in Outcome
    /\ \A seg : SegmentError(seg) \in Outcome
    /\ \A p : MutableError(p) \in Outcome
    /\ \A S, lit : LiteralError(S, lit) \in Outcome
    /\ \A p, op : WriteError(p, op) \in Outcome
    /\ \A p, i : AddressableError(p, i) \in Outcome
    /\ \A d : DepthError(d) \in Outcome
    /\ \A e : VacantError(e) \in Outcome
BY DEF Outcome, Verdict, SegmentError, MutableError, LiteralError, WriteError,
       AddressableError, DepthError, VacantError

\* A test's checks have an outcome.
LEMMA TestErrorTyped == \A p, at, want, lit : TestError(p, at, want, lit) \in Outcome
<1> SUFFICES ASSUME NEW p, NEW at, NEW want, NEW lit PROVE TestError(p, at, want, lit) \in Outcome
  OBVIOUS
<1>1. (IF p \in Uuid /\ lit \in Short THEN "invalid" ELSE "ok") \in Outcome
  BY DEF Outcome, Verdict
<1>2. Then(LiteralError(Val, lit), IF p \in Uuid /\ lit \in Short THEN "invalid" ELSE "ok") \in Outcome
  BY <1>1, ThenTyped, CheckTyped
<1> QED BY <1>2, CheckTyped DEF TestError

\* The walk of a path has an outcome.
LEMMA WalkErrorTyped == ASSUME NEW s, NEW path \in Path PROVE WalkError(s, path) \in Outcome
<1>1. (IF Len(path) > 1 THEN "unsupported" ELSE "ok") \in Outcome
  BY CheckTyped
<1> QED BY <1>1, ThenTyped, CheckTyped DEF WalkError

\* The checks of a whole column have an outcome.
LEMMA ColumnOpErrorTyped ==
    ASSUME NEW e, NEW p, e.op \in {"assign", "remove"} PROVE ColumnOpError(e, p) \in Outcome
BY ThenTyped, CheckTyped DEF ColumnOpError

\* The checks of a target have an outcome.
LEMMA TargetErrorTyped ==
    ASSUME NEW e \in Entry, NEW sel PROVE TargetError(e, sel) \in Outcome
<1>1. e.op \in EntryOp
  BY DEF Entry
<1>2. e.op # "move" => ColumnError(e, sel) \in Outcome
  <2>1. e.op \in {"assign", "remove"} => Then(MutableError(sel.of), ColumnOpError(e, sel.of)) \in Outcome
    BY ThenTyped, CheckTyped, ColumnOpErrorTyped
  <2> QED BY <1>1, <2>1, CheckTyped, TestErrorTyped DEF ColumnError, EntryOp
<1>3. EdgeError(e, sel) \in Outcome
  BY ThenTyped, CheckTyped, TestErrorTyped DEF EdgeError
<1>4. MapError(e, sel) \in Outcome
  BY ThenTyped, CheckTyped, TestErrorTyped DEF MapError
<1>5. ListError(e, sel) \in Outcome
  BY ThenTyped, CheckTyped, TestErrorTyped DEF ListError
<1>6. SiteKind(e.site) \in {"root", "edge", "map", "list"}
  BY DEF SiteKind
<1>7. "DuplicateTarget" \in Outcome
  BY DEF Outcome, Verdict
<1> QED BY <1>2, <1>3, <1>4, <1>5, <1>6, <1>7, CheckTyped DEF TargetError

\* A refusal leaves the compiler typed.
LEMMA RefuseTyped ==
    ASSUME TypeOK, NEW err \in Outcome, Refuse(err), used' \in 0..MaxSteps PROVE TypeOK'
<1>1. ControlOK'
  BY CompilerAssumption DEF Refuse, ControlOK, Outcome
<1>2. PlanOK'
  BY DEF Refuse, PlanOK
<1>3. EnginesOK'
  BY DEF Refuse, EnginesOK, TypeOK
<1> QED BY <1>1, <1>2, <1>3 DEF TypeOK

\* A path that was walked ends at a site.
LEMMA WalkTyped ==
    ASSUME ControlOK, NEW path \in Path, WalkError(base, path) = "ok"
    PROVE  /\ Walk(base, path) \in Prop \cup {None}
           /\ Walk(base, path) # None => HasSite(Walk(base, path))
<1>1. CASE path = <<>>
  BY <1>1 DEF Walk, ControlOK
<1>2. CASE path # <<>>
  <2>1. SegmentError(path[1]) = "ok"
    BY <1>2, ThenOk DEF WalkError, Path
  <2> QED BY <1>2, <2>1 DEF SegmentError, Walk
<1> QED BY <1>1, <1>2

\* What is at a site has a kind.
LEMMA SiteTyped ==
    ASSUME NEW s \in Prop \cup {None}, s # None => HasSite(s)
    PROVE  /\ SiteKind(s) = "map" => s \in Prop /\ IsMap(s)
           /\ SiteKind(s) = "list" => s \in Prop /\ IsList(s)
           /\ SiteKind(s) = "edge" => s \in Prop /\ Shape[s] = "scalar"
           /\ SiteKind(s) \in {"root", "edge", "map", "list"}
           /\ SiteKind(s) = "root" => s = None
BY SchemaAssumption DEF SiteKind, HasSite, IsCollection, IsMap, IsList

\* A selector has a location, or the empty one.
LEMMA IdentTyped == ASSUME NEW s, NEW sel \in Selector PROVE Ident(s, sel) \in Location
<1>1. sel.arm = "mapKey" => sel.of \in Key \cup {None}
  BY DEF Selector
<1>2. sel.arm = "index" => sel.of \in Index
  BY DEF Selector
<1> QED BY <1>1, <1>2, CompilerAssumption DEF Ident, Nowhere, Location

\* A construct that starts is within the bound on them.
LEMMA UsedTyped == ASSUME TypeOK, Ready, used' = used + 1 PROVE used' \in 0..MaxSteps
BY CompilerAssumption DEF TypeOK, ControlOK, Ready

\* An entry that names no address.
LEMMA MisaddressedTyped == ASSUME TypeOK, Misaddressed PROVE TypeOK'
<1>1. "MessageTypeMismatch" \in Outcome /\ used' \in 0..MaxSteps
  BY CompilerAssumption DEF Outcome, Verdict, Misaddressed, NextEntry, Ready, TypeOK, ControlOK
<1> QED BY <1>1, RefuseTyped DEF Misaddressed

\* An entry with targets.
LEMMA OpenTargetsTyped ==
    ASSUME TypeOK, NEW path \in Path, NEW op \in EntryOp, NEW skip \in BOOLEAN,
           NEW create \in BOOLEAN, NEW lit \in Literal, OpenTargets(path, op, skip, create, lit)
    PROVE  TypeOK'
<1>1. used' \in 0..MaxSteps
  BY DEF OpenTargets, TypeOK, ControlOK
<1>2. CASE Refuse(WalkError(base, path))
  BY <1>1, <1>2, WalkErrorTyped, RefuseTyped
<1>3. CASE /\ WalkError(base, path) = "ok"
           /\ entry' = [op |-> op, skip |-> skip, lit |-> lit, site |-> Walk(base, path),
                        create |-> create \/ base # None, seen |-> {}]
           /\ UNCHANGED <<delta, plan, verdict, row, engines>>
  <2>1. ControlOK /\ PlanOK /\ EnginesOK
    BY DEF TypeOK
  <2>2. /\ Walk(base, path) \in Prop \cup {None}
        /\ Walk(base, path) # None => HasSite(Walk(base, path))
    BY <1>3, <2>1, WalkTyped
  <2>3. entry' \in Entry /\ entry'.site = Walk(base, path)
    BY <1>3, <2>2 DEF Entry
  <2>4. ControlOK'
    BY <1>1, <1>3, <2>1, <2>2, <2>3 DEF ControlOK, delta
  <2>5. PlanOK' /\ EnginesOK'
    BY <1>3, <2>1 DEF PlanOK, EnginesOK, plan, engines
  <2> QED BY <2>4, <2>5 DEF TypeOK
<1> QED BY <1>2, <1>3 DEF OpenTargets

\* An entry with container scope.
LEMMA ContainerTyped ==
    ASSUME TypeOK, NEW path \in Path, NEW op \in EntryOp \ {"move"}, NEW lit \in Literal,
           Container(path, op, lit)
    PROVE  TypeOK'
<1> DEFINE s == Walk(base, path)
           err == Then(WalkError(base, path), ContainerError(s, op, lit))
<1>0. ControlOK /\ PlanOK /\ EnginesOK /\ used' \in 0..MaxSteps
  BY UsedTyped DEF Container, NextEntry, TypeOK
<1>1. ContainerError(s, op, lit) \in Outcome
  <2>1. LiteralError(FieldLiteral(s), lit) \in Outcome /\ WriteError(s, ContainerOp(op, lit)) \in Outcome
    BY CheckTyped
  <2> QED BY <2>1, CheckTyped, ThenTyped DEF ContainerError
<1>2. err \in Outcome
  BY <1>1, WalkErrorTyped, ThenTyped
<1>3. CASE Refuse(err)
  BY <1>0, <1>2, <1>3, RefuseTyped
<1>4. CASE /\ err = "ok"
           /\ AtContainer(s, op, lit)
           /\ fresh' = FALSE
           /\ UNCHANGED <<base, depth, entry, verdict, row>>
  <2>1. WalkError(base, path) = "ok" /\ ContainerError(s, op, lit) = "ok"
    BY <1>4, ThenOk
  <2>2. s \in Prop
    BY <1>0, <2>1, WalkTyped, SiteTyped, ContainerOk DEF SiteKind
  <2>3. PlanOK' /\ EnginesOK'
    BY <1>0, <1>4, <2>1, <2>2, AtContainerTyped
  <2>4. ControlOK'
    BY <1>0, <1>4 DEF ControlOK
  <2> QED BY <2>3, <2>4 DEF TypeOK
<1> QED BY <1>3, <1>4 DEF Container

\* A nested document is opened one level down.
LEMMA NestTyped ==
    ASSUME TypeOK, NEW s \in Prop, HasSite(s), DepthError(depth + 1) = "ok", Nest(s),
           used' \in 0..MaxSteps
    PROVE  TypeOK'
<1>1. ControlOK'
  BY SchemaAssumption, CompilerAssumption DEF TypeOK, ControlOK, Nest, DepthError
<1>2. PlanOK' /\ EnginesOK'
  BY DEF TypeOK, PlanOK, EnginesOK, Nest, plan, engines
<1> QED BY <1>1, <1>2 DEF TypeOK

\* A document nested in a target.
LEMMA NestTargetTyped ==
    ASSUME TypeOK, NEW path \in Path, NEW sel \in Selector, NEW n \in 1..2, NestTarget(path, sel, n)
    PROVE  TypeOK'
<1> DEFINE inner == IF n # 1 THEN "unsupported" ELSE EnterError(Walk(base, path), sel)
           err == Then(WalkError(base, path), Then(inner, DepthError(depth + 1)))
<1>0. used' \in 0..MaxSteps
  BY UsedTyped DEF NestTarget, NextEntry
<1>1. inner \in Outcome
  BY CheckTyped DEF EnterError
<1>2. err \in Outcome
  BY <1>1, CheckTyped, WalkErrorTyped, ThenTyped
<1>3. CASE Refuse(err)
  BY <1>0, <1>2, <1>3, RefuseTyped
<1>4. CASE err = "ok" /\ Nest(sel.of)
  <2>1. inner = "ok" /\ DepthError(depth + 1) = "ok"
    BY <1>4, ThenOk
  <2>2. sel.of \in Prop /\ HasSite(sel.of)
    BY <2>1 DEF EnterError, SegmentError
  <2> QED BY <1>0, <1>4, <2>1, <2>2, NestTyped
<1> QED BY <1>3, <1>4 DEF NestTarget

\* A document nested in the container.
LEMMA NestContainerTyped ==
    ASSUME TypeOK, NEW path \in Path, NestContainer(path) PROVE TypeOK'
<1> DEFINE s == Walk(base, path)
           inner == IF SiteKind(s) \in {"root", "edge"} THEN "unsupported" ELSE "ok"
           err == Then(WalkError(base, path), Then(inner, DepthError(depth + 1)))
<1>0. used' \in 0..MaxSteps
  BY UsedTyped DEF NestContainer, NextEntry
<1>1. err \in Outcome
  <2>1. inner \in Outcome
    BY CheckTyped
  <2> QED BY <2>1, CheckTyped, WalkErrorTyped, ThenTyped
<1>2. CASE Refuse(err)
  BY <1>0, <1>1, <1>2, RefuseTyped
<1>3. CASE err = "ok" /\ Nest(s)
  <2>1. WalkError(base, path) = "ok" /\ inner = "ok" /\ DepthError(depth + 1) = "ok"
    BY <1>3, ThenOk
  <2>2. s \in Prop /\ HasSite(s)
    BY <2>1, WalkTyped DEF SiteKind, TypeOK
  <2> QED BY <1>0, <1>3, <2>1, <2>2, NestTyped
<1> QED BY <1>2, <1>3 DEF NestContainer

\* What the target of an entry is, once its checks have passed.
LEMMA TargetOk ==
    ASSUME ControlOK, NEW sel \in Selector, entry # None, TargetError(entry, sel) = "ok"
    PROVE  /\ entry \in Entry /\ entry.op \in EntryOp \ {"move"}
           /\ SiteKind(entry.site) \in {"root", "edge", "map", "list"}
           /\ SiteKind(entry.site) = "root" => ColumnError(entry, sel) = "ok"
           /\ SiteKind(entry.site) = "edge" =>
                EdgeError(entry, sel) = "ok" /\ entry.site \in Prop /\ Shape[entry.site] = "scalar"
           /\ SiteKind(entry.site) = "map" =>
                MapError(entry, sel) = "ok" /\ entry.site \in Prop /\ IsMap(entry.site)
           /\ SiteKind(entry.site) = "list" =>
                ListError(entry, sel) = "ok" /\ entry.site \in Prop /\ IsList(entry.site)
<1>1. entry \in Entry /\ entry.op \in EntryOp /\ entry.site \in Prop \cup {None}
  BY DEF ControlOK, Entry
<1>2. entry.site # None => HasSite(entry.site)
  BY DEF ControlOK
<1>3. entry.op # "move"
  BY DEF TargetError
<1> QED BY <1>1, <1>2, <1>3, SiteTyped DEF TargetError

\* A target of an entry.
LEMMA TargetTyped == ASSUME TypeOK, NEW sel \in Selector, Target(sel) PROVE TypeOK'
<1>0. ControlOK /\ PlanOK /\ EnginesOK /\ entry \in Entry /\ entry # None
  BY DEF TypeOK, ControlOK, Target
<1>1. used' \in 0..MaxSteps
  BY UsedTyped DEF Target
<1>2. CASE Refuse(TargetError(entry, sel))
  BY <1>0, <1>1, <1>2, TargetErrorTyped, RefuseTyped
<1>3. CASE TargetError(entry, sel) = "ok"
  <2>1. /\ entry' = [entry EXCEPT !.seen = @ \cup {Ident(entry.site, sel)}]
        /\ UNCHANGED <<delta, verdict, row>>
        /\ \/ SiteKind(entry.site) = "root" /\ AtColumn(entry, sel.of)
           \/ SiteKind(entry.site) = "edge" /\ AtEdge(entry)
           \/ SiteKind(entry.site) = "map" /\ AtMapEntry(entry, sel)
           \/ SiteKind(entry.site) = "list" /\ AtListElem(entry, sel)
    BY <1>3 DEF Target, Refuse
  <2>2. entry' \in Entry /\ entry'.site = entry.site
    BY <1>0, <2>1, IdentTyped DEF Entry
  <2>3. ControlOK'
    BY <1>0, <1>1, <2>1, <2>2 DEF ControlOK, delta
  <2>4. PlanOK' /\ EnginesOK'
    BY <1>0, <1>3, <2>1, TargetOk, AtColumnTyped, AtEdgeTyped, AtMapEntryTyped, AtListElemTyped
  <2> QED BY <2>3, <2>4 DEF TypeOK
<1> QED BY <1>2, <1>3 DEF Target

\* The initial states are typed.
LEMMA InitTyped == ASSUME Init PROVE TypeOK
<1>1. ControlOK
  BY CompilerAssumption DEF Init, ControlOK, Verdict
<1>2. PlanOK
  BY DEF Init, PlanOK
<1>3. EnginesOK
  BY CompilerAssumption DEF Init, EnginesOK
<1> QED BY <1>1, <1>2, <1>3 DEF TypeOK

\* Every step keeps the types.
LEMMA StepTyped == ASSUME TypeOK, [Next]_vars PROVE TypeOK'
<1>1. CASE Misaddressed
  BY <1>1, MisaddressedTyped
<1>2. CASE \E path \in Path, op \in EntryOp, skip, create \in BOOLEAN, lit \in Literal :
                OpenTargets(path, op, skip, create, lit)
  BY <1>2, OpenTargetsTyped
<1>3. CASE \E path \in Path, op \in EntryOp \ {"move"}, lit \in Literal : Container(path, op, lit)
  BY <1>3, ContainerTyped
<1>4. CASE \E path \in Path, sel \in Selector, n \in 1..2 : NestTarget(path, sel, n)
  BY <1>4, NestTargetTyped
<1>5. CASE \E path \in Path : NestContainer(path)
  BY <1>5, NestContainerTyped
<1>6. CASE \E sel \in Selector : Target(sel)
  BY <1>6, TargetTyped
<1>7. CASE CloseEntry \/ CloseDelta \/ Finish \/ UNCHANGED vars
  <2>1. ControlOK'
    <3>0. ControlOK
      BY DEF TypeOK
    <3>1. CASE CloseEntry
      BY <3>0, <3>1 DEF CloseEntry, ControlOK
    <3>2. CASE CloseDelta
      <4>1. depth' \in 0..MaxNest /\ (base' = None) = (depth' = 0) /\ base' \in {base, None}
        BY <3>0, <3>2, CompilerAssumption DEF CloseDelta, ControlOK
      <4> QED BY <3>0, <3>2, <4>1 DEF CloseDelta, ControlOK
    <3>3. CASE Finish
      BY <3>0, <3>3 DEF Finish, ControlOK, Verdict, delta
    <3>4. CASE UNCHANGED vars
      BY <3>0, <3>4 DEF vars, delta, ControlOK
    <3> QED BY <1>7, <3>1, <3>2, <3>3, <3>4
  <2>2. UNCHANGED <<plan, row, engines>>
    BY <1>7 DEF CloseEntry, CloseDelta, Finish, vars
  <2>3. PlanOK' /\ EnginesOK'
    BY <2>2 DEF TypeOK, PlanOK, EnginesOK, plan, engines
  <2> QED BY <2>1, <2>3 DEF TypeOK
<1> QED BY <1>1, <1>2, <1>3, <1>4, <1>5, <1>6, <1>7 DEF Next

\* Every variable always has its type, whatever the schema, the document and the
\* row: no step of the compiler leaves a delta site, an entry or an operation
\* that the next one has no case for, and nests are bounded by MaxNest.
THEOREM TypeCorrect == Spec => []TypeOK
<1>1. Init => TypeOK
  BY InitTyped
<1>2. TypeOK /\ [Next]_vars => TypeOK'
  BY StepTyped
<1> QED BY <1>1, <1>2, PTL DEF Spec
=============================================================================
