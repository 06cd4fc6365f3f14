--------------------------- MODULE PatchLiteralProofs ---------------------------
(***************************************************************************)
(* The properties of PatchLiteral, for every message type, column and      *)
(* literal.  What a message or a collection being filled has seen is what  *)
(* the literal has said in it (Held): an item that is not refused is then  *)
(* the first of its place and of its oneof, so nothing is replaced.        *)
(***************************************************************************)
EXTENDS PatchLiteral, TLAPS, FiniteSetTheorems, SequenceTheorems

------------------------------------------------------------------------------
(* Places.                                                                 *)

LEMMA AppendParts ==
    ASSUME NEW S, NEW s \in Seq(S), NEW k \in S
    PROVE  /\ Append(s, k) \in Seq(S) /\ Append(s, k) # <<>> /\ Len(Append(s, k)) = Len(s) + 1
           /\ Front(Append(s, k)) = s /\ Last(Append(s, k)) = k
<1>1. Append(s, k) \in Seq(S) /\ Len(Append(s, k)) = Len(s) + 1 /\ Len(s) \in Nat
  OBVIOUS
<1>2. Append(s, k) # <<>>
  BY <1>1
<1>3. Front(Append(s, k)) = s
  BY <1>1 DEF Front
<1>4. Last(Append(s, k)) = k
  BY <1>1 DEF Last
<1> QED BY <1>1, <1>2, <1>3, <1>4

LEMMA FrontLast ==
    ASSUME NEW S, NEW t \in Seq(S), t # <<>>
    PROVE  /\ Front(t) \in Seq(S) /\ Last(t) \in S /\ t = Append(Front(t), Last(t))
           /\ Len(Front(t)) = Len(t) - 1
           /\ \A i \in 1..(Len(t) - 1) : Front(t)[i] = t[i]
<1>1. Len(t) \in Nat \ {0} /\ \A i \in 1..Len(t) : t[i] \in S
  OBVIOUS
<1>2. Last(t) \in S
  BY <1>1 DEF Last
<1>3. /\ Front(t) \in Seq(S) /\ Len(Front(t)) = Len(t) - 1
      /\ \A i \in 1..(Len(t) - 1) : Front(t)[i] = t[i]
  <2> DEFINE n == Len(t) - 1
  <2>1. n \in Nat /\ 1 \in Int /\ \A i \in 1..n : t[i] \in S
    BY <1>1
  <2> HIDE DEF n
  <2>2. /\ SubSeq(t, 1, n) \in Seq(S)
        /\ Len(SubSeq(t, 1, n)) = IF 1 <= n THEN n - 1 + 1 ELSE 0
        /\ \A i \in 1..(n - 1 + 1) : SubSeq(t, 1, n)[i] = t[1 + i - 1]
    BY <2>1, SubSeqProperties
  <2>3. Len(SubSeq(t, 1, n)) = n
    BY <2>1, <2>2
  <2>4. ASSUME NEW i \in 1..n PROVE SubSeq(t, 1, n)[i] = t[i]
    <3>1. i \in 1..(n - 1 + 1) /\ 1 + i - 1 = i
      BY <2>1
    <3> QED BY <2>2, <3>1
  <2>5. Front(t) = SubSeq(t, 1, n)
    BY DEF Front, n
  <2> QED BY <2>2, <2>3, <2>4, <2>5 DEF n
<1>4. t = Append(Front(t), Last(t))
  <2>1. Front(t) = SubSeq(t, 1, Len(t) - 1) /\ Last(t) = t[Len(t)]
    BY DEF Front, Last
  <2>2. /\ Append(Front(t), Last(t)) \in Seq(S)
        /\ Len(Append(Front(t), Last(t))) = Len(t)
    BY <1>1, <1>2, <1>3
  <2>3. ASSUME NEW i \in 1..Len(t) PROVE Append(Front(t), Last(t))[i] = t[i]
    <3>1. CASE i = Len(t)
      BY <1>1, <1>2, <1>3, <2>1, <3>1
    <3>2. CASE i # Len(t)
      BY <1>1, <1>2, <1>3, <3>2
    <3> QED BY <3>1, <3>2
  <2> DEFINE a == Append(Front(t), Last(t))
  <2> HIDE DEF a
  <2>4. a \in Seq(S) /\ Len(a) = Len(t) /\ \A i \in 1..Len(t) : a[i] = t[i]
    BY <2>2, <2>3 DEF a
  <2>5. t = a
    BY <2>4
  <2> QED BY <2>5 DEF a
<1> QED BY <1>1, <1>2, <1>3, <1>4

\* The first places of a longer place are those of the shorter, and itself.
LEMMA PrefixOfAppend ==
    ASSUME NEW S, NEW s \in Seq(S), NEW k \in S, NEW n \in 0..Len(Append(s, k))
    PROVE  \/ n \in 0..Len(s) /\ SubSeq(Append(s, k), 1, n) = SubSeq(s, 1, n)
           \/ SubSeq(Append(s, k), 1, n) = Append(s, k)
<1>1. CASE n = Len(s) + 1
  BY <1>1
<1>2. CASE n # Len(s) + 1
  BY <1>2
<1> QED BY <1>1, <1>2

LEMMA WholePrefix == ASSUME NEW S, NEW s \in Seq(S) PROVE SubSeq(s, 1, Len(s)) = s
  OBVIOUS

------------------------------------------------------------------------------
(* The invariant.                                                          *)

\* The places the literal has an item for.
Spoken == {said[i].at : i \in DOMAIN said}

\* What a frame has seen is what the literal has said in it.
Opened(i) ==
    LET fr == frames[i] IN
    /\ fr.at \in Spoken /\ Len(fr.at) = i - 1
    /\ \A k \in Key : k \in fr.seen <=> Append(fr.at, k) \in Spoken
    /\ fr.oneofs = {Oneof[f] : f \in fr.seen \cap Field} \ (Synthetic \cup {None})
    /\ fr.form = "list" => \E n \in 0..(Len(said) - 1) : fr.seen = 1..n

\* No item is for a place before the one it is in.
Nests == \A i \in DOMAIN said : \A n \in 0..Len(said[i].at) : SubSeq(said[i].at, 1, n) \in Spoken

MadeOfSaid == made = {[at |-> said[i].at, is |-> said[i].arm] : i \in DOMAIN said}

Held ==
    /\ verdict \in Refusal => ~Legal /\ made = {}
    /\ verdict \notin Refusal =>
        /\ verdict = "begin" <=> said = <<>>
        /\ verdict = "begin" => frames = <<>> /\ made = {}
        /\ Legal /\ Nests /\ MadeOfSaid
        /\ \A i \in DOMAIN frames : Opened(i)

------------------------------------------------------------------------------
(* One more item.                                                          *)

LEMMA FillingTop ==
    ASSUME LiteralTypeOK, Held, verdict = "filling"
    PROVE  /\ frames \in Seq(Frame) /\ Len(frames) \in Nat \ {0}
           /\ Top \in Frame /\ Top = frames[Len(frames)] /\ Top.at \in Seq(Key)
           /\ Top.at \in Spoken /\ Len(Top.at) = Len(frames) - 1
           /\ \A k \in Key : k \in Top.seen <=> Append(Top.at, k) \in Spoken
           /\ Top.oneofs = {Oneof[f] : f \in Top.seen \cap Field} \ (Synthetic \cup {None})
           /\ Top.form = "list" => \E n \in 0..(Len(said) - 1) : Top.seen = 1..n
           /\ said \in Seq(Item) /\ Len(said) \in Nat \ {0}
           /\ Legal /\ Nests /\ MadeOfSaid
<1>1. frames \in Seq(Frame) /\ frames # <<>> /\ said \in Seq(Item)
  BY DEF LiteralTypeOK
<1>2. Len(frames) \in Nat \ {0} /\ Len(frames) \in DOMAIN frames
  BY <1>1
<1>3. Top = frames[Len(frames)] /\ Top \in Frame /\ Top.at \in Seq(Key)
  <2>1. Top = frames[Len(frames)]
    BY DEF Top, Last
  <2>2. Top \in Frame
    BY <1>1, <1>2, <2>1
  <2> QED BY <2>1, <2>2 DEF Frame
<1>4. "filling" \notin Refusal
  BY DEF Refusal
<1>5. Opened(Len(frames)) /\ Legal /\ Nests /\ MadeOfSaid /\ said # <<>>
  BY <1>2, <1>4 DEF Held
<1>6. Len(said) \in Nat \ {0}
  BY <1>1, <1>5
<1> QED BY <1>1, <1>2, <1>3, <1>5, <1>6 DEF Opened

LEMMA SpokenTyped ==
    ASSUME LiteralTypeOK, NEW j \in DOMAIN said
    PROVE  said[j] \in Item /\ said[j].at \in Seq(Key)
<1>1. said \in Seq(Item)
  BY DEF LiteralTypeOK
<1>2. said[j] \in Item
  BY <1>1
<1> QED BY <1>2 DEF Item

\* What is in a frame is what it has seen.
LEMMA InTop ==
    ASSUME LiteralTypeOK, Held, verdict = "filling", NEW a \in Spoken, a # <<>>, Front(a) = Top.at
    PROVE  Last(a) \in Top.seen /\ Last(a) \in Key /\ a = Append(Top.at, Last(a))
<1>1. a \in Seq(Key)
  BY SpokenTyped DEF Spoken
<1>2. a = Append(Top.at, Last(a)) /\ Last(a) \in Key
  BY <1>1, FrontLast
<1> QED BY <1>2, FillingTop

\* The items of one oneof.
LEMMA Rivalry ==
    ASSUME LiteralTypeOK, Held, verdict = "filling", NEW to \in Key, NEW a \in Spoken,
           Rivals(a, Append(Top.at, to))
    PROVE  \E g \in Top.seen \cap Field :
                to \in Field /\ a = Append(Top.at, g) /\ Oneof[g] # None /\ Oneof[g] = Oneof[to]
<1> DEFINE b == Append(Top.at, to)
<1>1. Front(b) = Top.at /\ Last(b) = to
  BY FillingTop, AppendParts
<1> HIDE DEF b
<1>2. /\ a # <<>> /\ Front(a) = Front(b) /\ {Last(a), Last(b)} \subseteq Field
      /\ Oneof[Last(a)] # None /\ Oneof[Last(a)] = Oneof[Last(b)]
  BY DEF Rivals, b
<1>3. Last(a) \in Top.seen /\ a = Append(Top.at, Last(a))
  BY <1>1, <1>2, InTop
<1> QED BY <1>1, <1>2, <1>3

LEMMA RivalsAre ==
    ASSUME LiteralTypeOK, Held, verdict = "filling", NEW to \in Field, NEW g \in Top.seen \cap Field,
           Oneof[g] # None, Oneof[g] = Oneof[to]
    PROVE  Append(Top.at, g) \in Spoken /\ Rivals(Append(Top.at, g), Append(Top.at, to))
<1>1. to \in Key /\ g \in Key
  BY DEF Key
<1>2. /\ Front(Append(Top.at, to)) = Top.at /\ Last(Append(Top.at, to)) = to
      /\ Append(Top.at, to) # <<>>
      /\ Front(Append(Top.at, g)) = Top.at /\ Last(Append(Top.at, g)) = g
      /\ Append(Top.at, g) # <<>>
  <2>1. Top.at \in Seq(Key)
    BY FillingTop
  <2> QED BY <1>1, <2>1, AppendParts
<1>3. Append(Top.at, g) \in Spoken
  BY <1>1, FillingTop
<1> QED BY <1>2, <1>3 DEF Rivals

\* Why an item is refused: it names nothing, a place or a oneof that is taken, or an arm that does
\* not fit.
Objection(to, f, s, arm) ==
    \/ to = None
    \/ to \in Top.seen
    \/ to \in Field /\ Oneof[to] \in Top.oneofs
    \/ ~Fits(arm, f, s)

\* Said adds one item.
LEMMA OneMore ==
    ASSUME NEW it, said \in Seq(Item), it \in Item, said' = Append(said, it)
    PROVE  /\ said' \in Seq(Item) /\ Len(said) \in Nat /\ Len(said') = Len(said) + 1
           /\ DOMAIN said = 1..Len(said) /\ DOMAIN said' = 1..(Len(said) + 1)
           /\ \A j \in DOMAIN said : said'[j] = said[j]
           /\ said'[Len(said) + 1] = it
           /\ Spoken' = Spoken \cup {it.at}
<1>1. /\ said' \in Seq(Item) /\ Len(said) \in Nat /\ Len(said') = Len(said) + 1
      /\ DOMAIN said = 1..Len(said) /\ DOMAIN said' = 1..(Len(said) + 1)
      /\ \A j \in DOMAIN said : said'[j] = said[j]
      /\ said'[Len(said) + 1] = it
  OBVIOUS
<1>2. Spoken' = Spoken \cup {it.at}
  <2>1. ASSUME NEW a \in Spoken' PROVE a \in Spoken \cup {it.at}
    <3>1. PICK j \in DOMAIN said' : a = said'[j].at
      BY DEF Spoken
    <3>2. j \in DOMAIN said \/ j = Len(said) + 1
      BY <1>1
    <3> QED BY <1>1, <3>1, <3>2 DEF Spoken
  <2>2. ASSUME NEW a \in Spoken PROVE a \in Spoken'
    <3>1. PICK j \in DOMAIN said : a = said[j].at
      BY DEF Spoken
    <3>2. j \in DOMAIN said' /\ said'[j] = said[j]
      BY <1>1
    <3> QED BY <3>1, <3>2 DEF Spoken
  <2>3. it.at \in Spoken'
    BY <1>1 DEF Spoken
  <2> QED BY <2>1, <2>2, <2>3
<1> QED BY <1>1, <1>2

\* A refused item makes the literal illegal.
LEMMA ObjectionIllegal ==
    ASSUME LiteralTypeOK, Held, verdict = "filling",
           NEW to \in Key \cup {None}, NEW f \in FieldShape, NEW s \in Site, NEW arm \in Arm,
           Objection(to, f, s, arm),
           said' = Append(said, [at |-> IF to = None THEN Top.at ELSE Append(Top.at, to),
                                 named |-> to # None, arm |-> arm, field |-> f, site |-> s])
    PROVE  ~Legal'
<1> DEFINE at == IF to = None THEN Top.at ELSE Append(Top.at, to)
           it == [at |-> at, named |-> to # None, arm |-> arm, field |-> f, site |-> s]
           m == Len(said) + 1
<1>1. at \in Seq(Key)
  BY FillingTop, AppendParts
<1>2. it \in Item
  BY <1>1 DEF Item
<1>3. /\ said' \in Seq(Item) /\ Len(said) \in Nat
      /\ DOMAIN said = 1..Len(said) /\ DOMAIN said' = 1..m
      /\ \A j \in DOMAIN said : said'[j] = said[j]
      /\ said'[m] = it
  BY <1>2, FillingTop, OneMore
<1>4. it.at = at /\ it.named = (to # None) /\ it.arm = arm /\ it.field = f /\ it.site = s
  OBVIOUS
<1> HIDE DEF it, at, m
<1>5. ASSUME NEW a \in Spoken, to # None, a = at \/ Rivals(a, at) PROVE ~Legal'
  <2>1. PICK j \in DOMAIN said : a = said[j].at
    BY DEF Spoken
  <2>2. j \in DOMAIN said' /\ m \in DOMAIN said' /\ j < m /\ said'[j].at = a /\ said'[m].at = at
    BY <1>3, <1>4, <2>1 DEF m
  <2>3. Legal' => said'[j].at # said'[m].at /\ ~Rivals(said'[j].at, said'[m].at)
    BY <2>2 DEF Legal
  <2> QED BY <1>5, <2>2, <2>3
<1>6. CASE to = None \/ ~Fits(arm, f, s)
  <2>1. m \in DOMAIN said'
    BY <1>3 DEF m
  <2>2. Legal' => said'[m].named /\ Fits(said'[m].arm, said'[m].field, said'[m].site)
    BY <2>1 DEF Legal
  <2> QED BY <1>3, <1>4, <1>6, <2>2
<1>7. CASE to # None /\ to \in Top.seen
  <2>1. at \in Spoken
    BY <1>7, FillingTop DEF at
  <2> QED BY <1>5, <1>7, <2>1
<1>8. CASE to # None /\ to \in Field /\ Oneof[to] \in Top.oneofs
  <2>1. PICK g \in Top.seen \cap Field : Oneof[g] = Oneof[to] /\ Oneof[g] # None
    BY <1>8, FillingTop
  <2>2. Append(Top.at, g) \in Spoken /\ Rivals(Append(Top.at, g), at)
    BY <1>8, <2>1, RivalsAre DEF at
  <2> QED BY <1>5, <1>8, <2>2
<1> QED BY <1>6, <1>7, <1>8 DEF Objection

\* Nothing is at a place without an item, nor in it.
LEMMA NothingUnder ==
    ASSUME LiteralTypeOK, Held, verdict = "filling", NEW b \in Seq(Key), b \notin Spoken
    PROVE  /\ Under(made, b) = {}
           /\ \A a \in Spoken : ~(Len(b) <= Len(a) /\ SubSeq(a, 1, Len(b)) = b)
<1>1. ASSUME NEW a \in Spoken, Len(b) <= Len(a), SubSeq(a, 1, Len(b)) = b PROVE FALSE
  <2>1. PICK j \in DOMAIN said : a = said[j].at
    BY DEF Spoken
  <2>2. a \in Seq(Key)
    BY <2>1, SpokenTyped
  <2>3. Len(b) \in 0..Len(a)
    BY <1>1, <2>2
  <2>4. SubSeq(a, 1, Len(b)) \in Spoken
    BY <2>1, <2>3, FillingTop DEF Nests
  <2> QED BY <1>1, <2>4
<1>2. ASSUME NEW p \in made, IsPrefix(b, p.at) PROVE FALSE
  <2>1. p.at \in Spoken
    BY FillingTop DEF MadeOfSaid, Spoken
  <2>2. Len(b) <= Len(p.at) /\ SubSeq(b, 1, Len(b)) = SubSeq(p.at, 1, Len(b))
    BY <1>2 DEF IsPrefix
  <2> QED BY <1>1, <2>1, <2>2, WholePrefix
<1> QED BY <1>1, <1>2 DEF Under

\* No field of the item's oneof has been seen.
LEMMA NoRivalSeen ==
    ASSUME LiteralTypeOK, Held, verdict = "filling", NEW to \in Field, NEW f, NEW s, NEW arm,
           ~Objection(to, f, s, arm), NEW g \in Top.seen \cap Field,
           Oneof[g] # None, Oneof[g] = Oneof[to]
    PROVE  FALSE
<1>1. to \notin Top.seen /\ Oneof[to] \notin Top.oneofs
  BY DEF Objection
<1>2. CASE Oneof[g] \in Synthetic
  <2>1. g = to
    BY <1>2, LiteralAssumption
  <2> QED BY <1>1, <2>1
<1>3. CASE Oneof[g] \notin Synthetic
  <2>1. Oneof[g] \in Top.oneofs
    BY <1>3, FillingTop
  <2> QED BY <1>1, <2>1
<1> QED BY <1>2, <1>3

\* An item that is not refused is the first of its place and of its oneof, and replaces nothing.
LEMMA FreshPlace ==
    ASSUME LiteralTypeOK, Held, verdict = "filling", NEW to \in Key, NEW f, NEW s, NEW arm,
           ~Objection(to, f, s, arm)
    PROVE  /\ Append(Top.at, to) \notin Spoken
           /\ \A a \in Spoken : ~Rivals(a, Append(Top.at, to))
           /\ Put(Append(Top.at, to), arm) = made \cup {[at |-> Append(Top.at, to), is |-> arm]}
<1> DEFINE at == Append(Top.at, to)
<1>1. at \notin Spoken
  BY FillingTop DEF Objection
<1>2. ASSUME NEW a \in Spoken, Rivals(a, at) PROVE FALSE
  <2>1. PICK g \in Top.seen \cap Field : to \in Field /\ Oneof[g] # None /\ Oneof[g] = Oneof[to]
    BY <1>2, Rivalry
  <2> QED BY <2>1, NoRivalSeen
<1>3. at \in Seq(Key) /\ Front(at) = Top.at /\ Last(at) = to
  BY FillingTop, AppendParts
<1>4. Under(made, at) = {}
  BY <1>1, <1>3, NothingUnder
<1>5. ASSUME NEW g \in Field \ {to}, to \in Field, Oneof[to] # None, Oneof[g] = Oneof[to]
      PROVE  Under(made, Append(Top.at, g)) = {}
  <2>1. g \in Key
    BY DEF Key
  <2>2. g \notin Top.seen
    BY <1>5, NoRivalSeen
  <2>3. Append(Top.at, g) \in Seq(Key) /\ Append(Top.at, g) \notin Spoken
    BY <2>1, <2>2, FillingTop, AppendParts
  <2> QED BY <2>3, NothingUnder
<1> HIDE DEF at
<1>6. Put(at, arm) = made \cup {[at |-> at, is |-> arm]}
  <2> DEFINE siblings == {g \in Field \ {to} : to \in Field /\ Oneof[to] # None /\ Oneof[g] = Oneof[to]}
  <2>1. Put(at, arm) = (made \ (Under(made, at) \cup UNION {Under(made, Append(Top.at, g)) : g \in siblings}))
                            \cup {[at |-> at, is |-> arm]}
    BY <1>3 DEF Put
  <2>2. UNION {Under(made, Append(Top.at, g)) : g \in siblings} = {}
    BY <1>5
  <2> QED BY <1>4, <2>1, <2>2
<1> QED BY <1>1, <1>2, <1>6 DEF at

\* What an item that is not refused leaves.
Added(to, f, s, arm) ==
    LET at == Append(Top.at, to)
        real == {Oneof[x] : x \in {to} \cap Field} \ (Synthetic \cup {None})
        top == [Top EXCEPT !.seen = @ \cup {to}, !.oneofs = @ \cup real]
    IN  /\ said' = Append(said, [at |-> at, named |-> TRUE, arm |-> arm, field |-> f, site |-> s])
        /\ made' = made \cup {[at |-> at, is |-> arm]}
        /\ frames' = Pushed(Front(frames) \o <<top>>, at, f, arm)
        /\ verdict' = verdict /\ prop' = prop /\ site' = site

\* The frames after it.
LEMMA FramesAfter ==
    ASSUME LiteralTypeOK, Held, verdict = "filling",
           NEW to \in Key, NEW f \in FieldShape, NEW s \in Site, NEW arm \in Scalar \cup Nested,
           Added(to, f, s, arm)
    PROVE  /\ frames' \in Seq(Frame) /\ frames' # <<>>
           /\ Len(frames') \in {Len(frames), Len(frames) + 1}
           /\ \A i \in 1..(Len(frames) - 1) : frames'[i] = frames[i]
           /\ LET top == frames'[Len(frames)] IN
                /\ top.at = Top.at /\ top.form = Top.form /\ top.field = Top.field
                /\ top.seen = Top.seen \cup {to}
                /\ top.oneofs = Top.oneofs \cup ({Oneof[x] : x \in {to} \cap Field} \ (Synthetic \cup {None}))
           /\ Len(frames') = Len(frames) + 1 <=> arm \in Nested
           /\ Len(frames') = Len(frames) + 1 =>
                    frames'[Len(frames) + 1] = Filling(arm, Append(Top.at, to), f)
<1> DEFINE real == {Oneof[x] : x \in {to} \cap Field} \ (Synthetic \cup {None})
           top == [Top EXCEPT !.seen = @ \cup {to}, !.oneofs = @ \cup real]
           fs == Front(frames) \o <<top>>
           new == Filling(arm, Append(Top.at, to), f)
<1>1. /\ frames \in Seq(Frame) /\ Len(frames) \in Nat \ {0} /\ frames # <<>> /\ Top \in Frame
      /\ Top.at \in Seq(Key)
  BY FillingTop
<1>2. real \subseteq Range(Oneof)
  BY LiteralAssumption DEF Range
<1> HIDE DEF real
<1>3. /\ top.at = Top.at /\ top.form = Top.form /\ top.field = Top.field
      /\ top.seen = Top.seen \cup {to} /\ top.oneofs = Top.oneofs \cup real
      /\ top \in Frame
  BY <1>1, <1>2 DEF Frame
<1> HIDE DEF top
<1>4. /\ fs \in Seq(Frame) /\ Len(fs) = Len(frames) /\ fs[Len(frames)] = top
      /\ \A i \in 1..(Len(frames) - 1) : fs[i] = frames[i]
  <2>1. /\ Front(frames) \in Seq(Frame) /\ Len(Front(frames)) = Len(frames) - 1
        /\ \A i \in 1..(Len(frames) - 1) : Front(frames)[i] = frames[i]
    BY <1>1, FrontLast
  <2> QED BY <1>1, <1>3, <2>1
<1>5. ASSUME arm \in Nested PROVE new \in Frame
  <2>1. Append(Top.at, to) \in Seq(Key)
    BY <1>1, AppendParts
  <2> QED BY <1>5, <2>1 DEF Filling, Frame
<1>6. frames' = IF arm \in Nested THEN Append(fs, new) ELSE fs
  BY DEF Added, Pushed, top, real
<1> HIDE DEF fs, new
<1>7. CASE arm \in Nested
  <2>1. /\ frames' \in Seq(Frame) /\ Len(frames') = Len(frames) + 1
        /\ frames'[Len(frames) + 1] = new
        /\ \A i \in 1..Len(frames) : frames'[i] = fs[i]
    BY <1>1, <1>4, <1>5, <1>6, <1>7
  <2>2. Len(frames) \in 1..Len(frames) /\ \A i \in 1..(Len(frames) - 1) : i \in 1..Len(frames)
    BY <1>1
  <2>3. frames' # <<>>
    BY <1>1, <2>1
  <2> QED BY <1>1, <1>3, <1>4, <1>7, <2>1, <2>2, <2>3 DEF new, real
<1>8. CASE arm \notin Nested
  <2>1. frames' = fs /\ Len(frames') = Len(frames) /\ frames' # <<>>
    BY <1>1, <1>4, <1>6, <1>8
  <2> QED BY <1>1, <1>3, <1>4, <1>8, <2>1 DEF real
<1> QED BY <1>7, <1>8

\* The frame of a list takes its next index, and what an arm fits is a scalar or nested.
LEMMA FitsTyped ==
    ASSUME NEW f \in FieldShape, NEW s \in Site, NEW arm \in Arm, Fits(arm, f, s)
    PROVE  arm \in Scalar \cup Nested
  BY DEF Fits, FieldShape, Scalar, Nested

LEMMA AddedTyped ==
    ASSUME LiteralTypeOK, Held, verdict = "filling",
           NEW to \in Key, NEW f \in FieldShape, NEW s \in Site, NEW arm \in Scalar \cup Nested,
           Added(to, f, s, arm)
    PROVE  LiteralTypeOK'
<1>1. Append(Top.at, to) \in Seq(Key)
  BY FillingTop, AppendParts
<1>2. said' \in Seq(Item)
  <2> DEFINE it == [at |-> Append(Top.at, to), named |-> TRUE, arm |-> arm, field |-> f, site |-> s]
  <2>1. it \in Item
    BY <1>1 DEF Item, Arm
  <2>2. said' = Append(said, it)
    BY DEF Added
  <2> HIDE DEF it
  <2> QED BY <2>1, <2>2, FillingTop
<1>3. \A p \in made' : p \in Place
  <2> DEFINE at == Append(Top.at, to)
  <2>1. made' = made \cup {[at |-> at, is |-> arm]} /\ at \in Seq(Key)
    BY <1>1 DEF Added
  <2> HIDE DEF at
  <2>2. [at |-> at, is |-> arm] \in Place
    BY <2>1 DEF Place
  <2> QED BY <2>1, <2>2 DEF LiteralTypeOK
<1>4. frames' \in Seq(Frame) /\ frames' # <<>>
  BY FramesAfter
<1>5. prop' = prop /\ site' = site /\ verdict' = "filling" /\ "filling" \notin Refusal
  BY DEF Added, Refusal
<1> QED BY <1>2, <1>3, <1>4, <1>5 DEF LiteralTypeOK

\* What the frames have seen is what has been said, with one item more.
LEMMA AddedOpened ==
    ASSUME LiteralTypeOK, Held, verdict = "filling",
           NEW to \in Key, NEW f \in FieldShape, NEW s \in Site, NEW arm \in Scalar \cup Nested,
           ~Objection(to, f, s, arm), Added(to, f, s, arm),
           Top.form = "list" => \E n \in 0..(Len(said) - 1) : Top.seen = 1..n /\ to = n + 1,
           Spoken' = Spoken \cup {Append(Top.at, to)}, Len(said') = Len(said) + 1,
           NEW i \in DOMAIN frames'
    PROVE  Opened(i)'
<1> DEFINE at == Append(Top.at, to)
           L == Len(frames)
<1>1. /\ L \in Nat \ {0} /\ frames \in Seq(Frame) /\ Top \in Frame /\ Len(Top.at) = L - 1
      /\ Top.at \in Seq(Key) /\ Len(said) \in Nat \ {0} /\ Top = frames[L]
  BY FillingTop
<1>2. at \in Seq(Key) /\ Len(at) = L /\ at \notin Spoken
  <2>1. at \in Seq(Key) /\ Len(at) = L
    BY <1>1, AppendParts
  <2> QED BY <2>1, FreshPlace
<1>3. frames' \in Seq(Frame) /\ Len(frames') \in {L, L + 1} /\ i \in 1..Len(frames')
  BY FramesAfter
<1>4. Spoken' = Spoken \cup {at} /\ Len(said') = Len(said) + 1
  OBVIOUS
<1>5. Opened(i)' <=>
        LET fr == frames'[i] IN
        /\ fr.at \in Spoken' /\ Len(fr.at) = i - 1
        /\ \A k \in Key : k \in fr.seen <=> Append(fr.at, k) \in Spoken'
        /\ fr.oneofs = {Oneof[x] : x \in fr.seen \cap Field} \ (Synthetic \cup {None})
        /\ fr.form = "list" => \E n \in 0..(Len(said') - 1) : fr.seen = 1..n
  BY DEF Opened
<1>6. CASE i \in 1..(L - 1)
  <2>1. frames'[i] = frames[i]
    BY <1>6, FramesAfter
  <2> DEFINE fr == frames[i]
  <2>2. i \in DOMAIN frames /\ fr \in Frame
    BY <1>1, <1>6
  <2>3. Opened(i)
    BY <2>2 DEF Held, Refusal
  <2>4. fr.at \in Seq(Key) /\ Len(fr.at) = i - 1
    BY <2>2, <2>3 DEF Frame, Opened
  <2>5. ASSUME NEW k \in Key PROVE Append(fr.at, k) # at
    <3> HIDE DEF fr
    <3>1. Len(Append(fr.at, k)) = i
      <4>1. Len(Append(fr.at, k)) = Len(fr.at) + 1
        BY <2>4, AppendParts
      <4> QED BY <1>6, <2>4, <4>1
    <3>2. Len(at) # i
      BY <1>1, <1>2, <1>6
    <3> QED BY <3>1, <3>2
  <2>6. fr.form = "list" => \E n \in 0..(Len(said') - 1) : fr.seen = 1..n
    <3>1. ASSUME NEW n \in 0..(Len(said) - 1) PROVE n \in 0..(Len(said') - 1)
      BY <1>1, <1>4
    <3> QED BY <2>3, <3>1 DEF Opened
  <2> HIDE DEF at, L
  <2> QED BY <1>4, <1>5, <2>1, <2>3, <2>5, <2>6 DEF Opened
<1>7. CASE i = L
  <2> DEFINE top == frames'[L]
             real == {Oneof[x] : x \in {to} \cap Field} \ (Synthetic \cup {None})
  <2>1. /\ top.at = Top.at /\ top.form = Top.form
        /\ top.seen = Top.seen \cup {to} /\ top.oneofs = Top.oneofs \cup real
    BY FramesAfter
  <2>2. /\ Top.at \in Spoken
        /\ \A k \in Key : k \in Top.seen <=> Append(Top.at, k) \in Spoken
        /\ Top.oneofs = {Oneof[x] : x \in Top.seen \cap Field} \ (Synthetic \cup {None})
    BY FillingTop
  <2>3. ASSUME NEW k \in Key PROVE Append(Top.at, k) = at <=> k = to
    BY <1>1, AppendParts
  <2>4. {Oneof[x] : x \in (Top.seen \cup {to}) \cap Field} =
            {Oneof[x] : x \in Top.seen \cap Field} \cup {Oneof[x] : x \in {to} \cap Field}
    OBVIOUS
  <2>5. top.oneofs = {Oneof[x] : x \in top.seen \cap Field} \ (Synthetic \cup {None})
    BY <2>1, <2>2, <2>4
  <2>6. top.form = "list" => \E n \in 0..(Len(said') - 1) : top.seen = 1..n
    <3>1. SUFFICES ASSUME Top.form = "list" PROVE \E n \in 0..(Len(said') - 1) : top.seen = 1..n
      BY <2>1
    <3>2. PICK n \in 0..(Len(said) - 1) : Top.seen = 1..n /\ to = n + 1
      BY <3>1
    <3>3. n + 1 \in 0..(Len(said') - 1) /\ 1..(n + 1) = 1..n \cup {n + 1}
      BY <1>1, <1>4
    <3> QED BY <2>1, <3>2, <3>3
  <2>7. top.at \in Spoken' /\ Len(top.at) = L - 1
    BY <1>1, <1>4, <2>1, <2>2
  <2>8. \A k \in Key : k \in top.seen <=> Append(top.at, k) \in Spoken'
    BY <1>4, <2>1, <2>2, <2>3
  <2> QED BY <1>5, <1>7, <2>5, <2>6, <2>7, <2>8
<1>8. CASE i = L + 1
  <2> DEFINE fr == frames'[L + 1]
  <2>1. fr = Filling(arm, at, f)
    BY <1>3, <1>8, FramesAfter
  <2>2. fr.at = at /\ fr.seen = {} /\ fr.oneofs = {}
    BY <2>1 DEF Filling
  <2>3. ASSUME NEW k \in Key PROVE Append(at, k) \notin Spoken'
    <3>1. /\ Len(Append(at, k)) = L + 1 /\ Append(at, k) # at
          /\ SubSeq(Append(at, k), 1, L) = at
      <4>1. Append(at, k) \in Seq(Key) /\ Len(Append(at, k)) = L + 1
        BY <1>2, AppendParts
      <4>2. Append(at, k) # at
        BY <1>1, <1>2, <4>1
      <4>3. SubSeq(Append(at, k), 1, L) = at
        BY <1>1, <1>2, <4>1
      <4> QED BY <4>1, <4>2, <4>3
    <3>2. Append(at, k) \notin Spoken
      <4>1. \A a \in Spoken : ~(Len(at) <= Len(a) /\ SubSeq(a, 1, Len(at)) = at)
        BY <1>2, NothingUnder
      <4> DEFINE b == Append(at, k)
      <4>2. SubSeq(b, 1, Len(at)) = at /\ Len(at) <= Len(b)
        BY <1>1, <1>2, <3>1
      <4> HIDE DEF at, b, L
      <4>3. b \notin Spoken
        BY <4>1, <4>2
      <4> QED BY <4>3 DEF b
    <3> QED BY <1>4, <3>1, <3>2
  <2>4. \E n \in 0..(Len(said') - 1) : {} = 1..n
    <3>1. 0 \in 0..(Len(said') - 1) /\ {} = 1..0
      BY <1>1, <1>4
    <3> QED BY <3>1
  <2>5. fr.oneofs = {Oneof[x] : x \in fr.seen \cap Field} \ (Synthetic \cup {None})
    BY <2>2
  <2>6. fr.at \in Spoken' /\ Len(fr.at) = (L + 1) - 1
    BY <1>1, <1>2, <1>4, <2>2
  <2>7. \A k \in Key : k \in fr.seen <=> Append(fr.at, k) \in Spoken'
    BY <2>2, <2>3
  <2>8. fr.form = "list" => \E n \in 0..(Len(said') - 1) : fr.seen = 1..n
    BY <2>2, <2>4
  <2> QED BY <1>5, <1>8, <2>5, <2>6, <2>7, <2>8
<1> QED BY <1>1, <1>3, <1>6, <1>7, <1>8

LEMMA AddedHeld ==
    ASSUME LiteralTypeOK, Held, verdict = "filling",
           NEW to \in Key, NEW f \in FieldShape, NEW s \in Site, NEW arm \in Arm,
           ~Objection(to, f, s, arm), Added(to, f, s, arm),
           Top.form = "list" => \E n \in 0..(Len(said) - 1) : Top.seen = 1..n /\ to = n + 1
    PROVE  LiteralTypeOK' /\ Held'
<1> DEFINE at == Append(Top.at, to)
           it == [at |-> at, named |-> TRUE, arm |-> arm, field |-> f, site |-> s]
           m == Len(said) + 1
<1>1. arm \in Scalar \cup Nested /\ Fits(arm, f, s)
  BY FitsTyped DEF Objection
<1>2. at \in Seq(Key) /\ it \in Item
  <2>1. at \in Seq(Key)
    BY FillingTop, AppendParts
  <2> QED BY <2>1 DEF Item
<1>3. /\ said' \in Seq(Item) /\ Len(said) \in Nat /\ Len(said') = m
      /\ DOMAIN said = 1..Len(said) /\ DOMAIN said' = 1..m
      /\ \A j \in DOMAIN said : said'[j] = said[j]
      /\ said'[m] = it
      /\ Spoken' = Spoken \cup {at}
  <2>1. said \in Seq(Item) /\ said' = Append(said, it)
    BY FillingTop DEF Added
  <2> HIDE DEF it
  <2>2. it.at = at
    BY DEF it
  <2> QED BY <1>2, <2>1, <2>2, OneMore
<1>4. it.at = at /\ it.named = TRUE /\ it.arm = arm /\ it.field = f /\ it.site = s
  OBVIOUS
<1>5. at \notin Spoken /\ \A a \in Spoken : ~Rivals(a, at)
  BY FreshPlace
<1>6. /\ Legal /\ Nests /\ MadeOfSaid /\ Top.at \in Spoken /\ Top.at \in Seq(Key)
  BY FillingTop
<1>7. LiteralTypeOK'
  BY <1>1, AddedTyped
<1>8. \A i \in DOMAIN frames' : Opened(i)'
  BY <1>1, <1>3, AddedOpened
<1>9. made' = made \cup {[at |-> at, is |-> arm]} /\ verdict' = "filling"
  BY DEF Added
<1> HIDE DEF it, at, m
<1>10. \A j \in DOMAIN said' : j \in DOMAIN said \/ j = m
  BY <1>3 DEF m
<1>11. m \in DOMAIN said' /\ m \notin DOMAIN said /\ \A j \in DOMAIN said : j \in DOMAIN said' /\ j < m
  BY <1>3 DEF m
<1>12. Legal'
  <2>1. ASSUME NEW j \in DOMAIN said'
        PROVE  said'[j].named /\ Fits(said'[j].arm, said'[j].field, said'[j].site)
    BY <1>1, <1>3, <1>4, <1>6, <1>10 DEF Legal
  <2>2. ASSUME NEW j \in DOMAIN said', NEW k \in DOMAIN said', j < k
        PROVE  said'[j].at # said'[k].at /\ ~Rivals(said'[j].at, said'[k].at)
    <3>1. j \in DOMAIN said
      BY <1>3, <1>10, <2>2 DEF m
    <3>2. CASE k \in DOMAIN said
      BY <1>3, <1>6, <2>2, <3>1, <3>2 DEF Legal
    <3>3. CASE k = m
      <4>1. said'[j].at \in Spoken
        BY <1>3, <3>1 DEF Spoken
      <4> QED BY <1>3, <1>4, <1>5, <3>3, <4>1
    <3> QED BY <1>10, <3>2, <3>3
  <2> QED BY <2>1, <2>2 DEF Legal
<1>13. Nests'
  <2>1. ASSUME NEW j \in DOMAIN said', NEW n \in 0..Len(said'[j].at)
        PROVE  SubSeq(said'[j].at, 1, n) \in Spoken'
    <3>1. CASE j \in DOMAIN said
      BY <1>3, <1>6, <2>1, <3>1 DEF Nests
    <3>2. CASE j = m
      <4>1. n \in 0..Len(Append(Top.at, to)) /\ said'[j].at = Append(Top.at, to)
        BY <1>3, <1>4, <2>1, <3>2 DEF at
      <4>2. \/ n \in 0..Len(Top.at) /\ SubSeq(said'[j].at, 1, n) = SubSeq(Top.at, 1, n)
            \/ SubSeq(said'[j].at, 1, n) = at
        BY <1>6, <4>1, PrefixOfAppend DEF at
      <4>3. ASSUME n \in 0..Len(Top.at) PROVE SubSeq(Top.at, 1, n) \in Spoken
        <5>1. PICK q \in DOMAIN said : Top.at = said[q].at
          BY <1>6 DEF Spoken
        <5> QED BY <1>6, <4>3, <5>1 DEF Nests
      <4> QED BY <1>3, <4>2, <4>3
    <3> QED BY <1>10, <3>1, <3>2
  <2> QED BY <2>1 DEF Nests
<1>14. MadeOfSaid'
  <2>1. \A x : (\E j \in DOMAIN said' : x = [at |-> said'[j].at, is |-> said'[j].arm]) <=>
               \/ \E j \in DOMAIN said : x = [at |-> said[j].at, is |-> said[j].arm]
               \/ x = [at |-> at, is |-> arm]
    BY <1>3, <1>4, <1>10, <1>11
  <2> QED BY <1>6, <1>9, <2>1 DEF MadeOfSaid
<1>15. said' # <<>>
  BY <1>3, <1>11
<1> QED BY <1>7, <1>8, <1>9, <1>12, <1>13, <1>14, <1>15 DEF Held, Refusal

LEMMA MaterializeHeld ==
    ASSUME LiteralTypeOK, Held, verdict = "filling", NEW error, NEW to \in Key \cup {None},
           NEW f \in FieldShape, NEW s \in Site, NEW arm \in Arm,
           Materialize(error, to, f, s, arm),
           error = "ok" => ~Objection(to, f, s, arm),
           error # "ok" => error \in Refusal /\ Objection(to, f, s, arm),
           Top.form = "list" => \E n \in 0..(Len(said) - 1) : Top.seen = 1..n /\ to = n + 1
    PROVE  LiteralTypeOK' /\ Held'
<1> DEFINE at == Append(Top.at, to)
           it == [at |-> IF to = None THEN Top.at ELSE at, named |-> to # None,
                  arm |-> arm, field |-> f, site |-> s]
<1>1. said' = Append(said, it) /\ prop' = prop /\ site' = site
  BY DEF Materialize
<1>2. CASE error = "ok"
  <2>1. ~Objection(to, f, s, arm) /\ to # None /\ to \in Key
    BY <1>2 DEF Objection
  <2>2. it = [at |-> at, named |-> TRUE, arm |-> arm, field |-> f, site |-> s]
    BY <2>1
  <2>3. Put(at, arm) = made \cup {[at |-> at, is |-> arm]}
    BY <2>1, FreshPlace
  <2>4. Added(to, f, s, arm)
    <3> HIDE DEF it
    <3> QED BY <1>1, <1>2, <2>2, <2>3 DEF Materialize, Added
  <2> QED BY <2>1, <2>4, AddedHeld
<1>3. CASE error # "ok"
  <2>1. ~Legal'
    BY <1>1, <1>3, ObjectionIllegal
  <2>2. it \in Item
    <3>1. (IF to = None THEN Top.at ELSE at) \in Seq(Key)
      BY FillingTop, AppendParts
    <3> QED BY <3>1 DEF Item
  <2> HIDE DEF it
  <2>3. said' \in Seq(Item)
    BY <1>1, <2>2, FillingTop
  <2>4. verdict' = error /\ made' = {} /\ frames' = <<>> /\ error \in Refusal
    BY <1>3 DEF Materialize
  <2>5. <<>> \in Seq(Frame) /\ verdict' # "filling"
    BY <2>4 DEF Refusal
  <2>6. LiteralTypeOK'
    BY <1>1, <2>3, <2>4, <2>5 DEF LiteralTypeOK, Verdict
  <2> QED BY <2>1, <2>4, <2>6 DEF Held
<1> QED BY <1>2, <1>3

LEMMA ArmErrorIs ==
    ASSUME NEW arm, NEW f, NEW s
    PROVE  /\ ArmError(arm, f, s) = "ok" <=> Fits(arm, f, s)
           /\ ArmError(arm, f, s) # "ok" => ArmError(arm, f, s) \in Refusal
  BY DEF ArmError, Refusal

LEMMA FillFieldHeld ==
    ASSUME LiteralTypeOK, Held, NEW n \in Name, NEW arm \in Arm, FillField(n, arm)
    PROVE  LiteralTypeOK' /\ Held'
<1> DEFINE to == ResolveField(n)
           f == IF to = None THEN Top.field ELSE Shape[to]
<1>1. /\ verdict = "filling" /\ Top.form = "message"
      /\ Materialize(FieldError(n, arm), to, f, "field", arm)
  BY DEF FillField
<1>2. to \in Field \cup {None}
  BY LiteralAssumption DEF ResolveField, Name
<1>3. f \in FieldShape
  BY <1>1, <1>2, FillingTop, LiteralAssumption DEF Frame
<1>4. FieldError(n, arm) = IF to = None THEN "VacantTarget"
                           ELSE IF to \in Top.seen \/ Oneof[to] \in Top.oneofs THEN "DuplicateTarget"
                           ELSE ArmError(arm, f, "field")
  BY DEF FieldError
<1> HIDE DEF to, f
<1>5. FieldError(n, arm) = "ok" => ~Objection(to, f, "field", arm)
  BY <1>4, ArmErrorIs DEF Objection
<1>6. FieldError(n, arm) # "ok" => FieldError(n, arm) \in Refusal /\ Objection(to, f, "field", arm)
  BY <1>2, <1>4, ArmErrorIs DEF Objection, Refusal
<1>7. to \in Key \cup {None} /\ "field" \in Site
  BY <1>2 DEF Key, Site
<1> QED BY <1>1, <1>3, <1>5, <1>6, <1>7, MaterializeHeld

LEMMA FillElementHeld ==
    ASSUME LiteralTypeOK, Held, NEW arm \in Arm, FillElement(arm)
    PROVE  LiteralTypeOK' /\ Held'
<1> DEFINE error == ArmError(arm, Top.field, "element")
           to == Cardinality(Top.seen) + 1
<1>1. /\ verdict = "filling" /\ Top.form = "list" /\ Materialize(error, to, Top.field, "element", arm)
  BY DEF FillElement
<1>2. PICK n \in 0..(Len(said) - 1) : Top.seen = 1..n
  BY <1>1, FillingTop
<1>3. to = n + 1
  <2>1. Cardinality(1..n) = n
    BY FS_Interval
  <2> QED BY <1>2, <2>1
<1> HIDE DEF to, error
<1>4. Len(said) < MaxItems /\ Len(said) \in Nat /\ MaxItems \in Nat
  BY <1>1, FillingTop, LiteralAssumption DEF Materialize
<1>5. to \in 1..MaxItems /\ to \notin Top.seen
  BY <1>2, <1>3, <1>4
<1>6. to \in Key /\ to # None /\ to \notin Field
  <2>1. to \in Nat
    BY <1>5
  <2> QED BY <1>5, <2>1, LiteralAssumption DEF Key
<1>7. Objection(to, Top.field, "element", arm) <=> ~Fits(arm, Top.field, "element")
  BY <1>5, <1>6 DEF Objection
<1>8. Top.field \in FieldShape /\ "element" \in Site
  BY <1>1, FillingTop DEF Frame, Site
<1>9. /\ error = "ok" => ~Objection(to, Top.field, "element", arm)
      /\ error # "ok" => error \in Refusal /\ Objection(to, Top.field, "element", arm)
  BY <1>7, ArmErrorIs DEF error
<1> QED BY <1>1, <1>2, <1>3, <1>6, <1>8, <1>9, MaterializeHeld

LEMMA FillEntryHeld ==
    ASSUME LiteralTypeOK, Held, NEW k \in MapKey \cup {Unknown}, NEW arm \in Arm, FillEntry(k, arm)
    PROVE  LiteralTypeOK' /\ Held'
<1> DEFINE to == MapKeyFor(k)
<1>1. /\ verdict = "filling" /\ Top.form = "map"
      /\ Materialize(EntryError(k, arm), to, Top.field, "mapValue", arm)
  BY DEF FillEntry
<1>2. to \in MapKey \cup {None} /\ to \notin Field
  BY LiteralAssumption DEF MapKeyFor
<1>3. EntryError(k, arm) = IF to = None THEN "IllegalKey"
                           ELSE IF to \in Top.seen THEN "DuplicateTarget"
                           ELSE ArmError(arm, Top.field, "mapValue")
  BY DEF EntryError
<1> HIDE DEF to
<1>4. Top.field \in FieldShape /\ to \in Key \cup {None} /\ "mapValue" \in Site
  BY <1>1, <1>2, FillingTop DEF Frame, Key, Site
<1>5. EntryError(k, arm) = "ok" => ~Objection(to, Top.field, "mapValue", arm)
  BY <1>2, <1>3, ArmErrorIs DEF Objection
<1>6. EntryError(k, arm) # "ok" =>
            EntryError(k, arm) \in Refusal /\ Objection(to, Top.field, "mapValue", arm)
  BY <1>2, <1>3, ArmErrorIs DEF Objection, Refusal
<1> QED BY <1>1, <1>4, <1>5, <1>6, MaterializeHeld

------------------------------------------------------------------------------
(* The rest of a literal.                                                  *)

LEMMA PropTyped == ASSUME LiteralTypeOK PROVE prop.shape \in FieldShape
  BY LiteralAssumption DEF LiteralTypeOK, Declared

\* The first item.
LEMMA BeginHeld ==
    ASSUME LiteralTypeOK, Held, NEW arm \in Arm, Begin(arm)
    PROVE  LiteralTypeOK' /\ Held'
<1> DEFINE it == [at |-> <<>>, named |-> TRUE, arm |-> arm, field |-> prop.shape, site |-> site]
<1>1. /\ verdict = "begin" /\ said' = <<it>> /\ prop' = prop /\ site' = site
  BY DEF Begin
<1>2. frames = <<>> /\ made = {}
  BY <1>1 DEF Held, Refusal
<1>3. it \in Item /\ prop.shape \in FieldShape
  BY PropTyped DEF Item, LiteralTypeOK
<1>4. it.at = <<>> /\ it.named = TRUE /\ it.arm = arm /\ it.field = prop.shape /\ it.site = site
  OBVIOUS
<1> HIDE DEF it
<1>5. said' \in Seq(Item) /\ said' # <<>> /\ Len(said') = 1 /\ DOMAIN said' = {1} /\ said'[1] = it
  BY <1>1, <1>3
<1>6. CASE ~Fits(arm, prop.shape, site)
  <2>1. verdict' = "IllegalArm" /\ made' = {} /\ frames' = frames
    BY <1>2, <1>6 DEF Begin
  <2>2. ~Legal'
    BY <1>4, <1>5, <1>6 DEF Legal
  <2>3. LiteralTypeOK'
    BY <1>1, <1>5, <2>1 DEF LiteralTypeOK, Verdict, Refusal
  <2> QED BY <2>1, <2>2, <2>3 DEF Held, Refusal
<1>7. CASE Fits(arm, prop.shape, site)
  <2>1. /\ made' = {[at |-> <<>>, is |-> arm]}
        /\ frames' = Pushed(<<>>, <<>>, prop.shape, arm)
        /\ verdict' = IF arm \in Nested THEN "filling" ELSE "made"
    BY <1>7 DEF Begin
  <2>2. arm \in Scalar \cup Nested
    BY <1>3, <1>7, FitsTyped DEF LiteralTypeOK
  <2>3. Spoken' = {<<>>}
    BY <1>4, <1>5 DEF Spoken
  <2>4. \A p \in made' : p \in Place
    <3>0. <<>> \in Seq(Key)
      OBVIOUS
    <3>1. PICK a \in Seq(Key) : a = <<>>
      BY <3>0
    <3>2. made' = {[at |-> a, is |-> arm]}
      BY <2>1, <3>1
    <3>3. [at |-> a, is |-> arm] \in Place
      BY <2>2 DEF Place
    <3> QED BY <3>2, <3>3
  <2>5. Legal'
    BY <1>4, <1>5, <1>7 DEF Legal
  <2>6. Nests'
    <3>1. ASSUME NEW n \in 0..Len(<<>>) PROVE SubSeq(<<>>, 1, n) = <<>>
      <4>1. n = 0
        OBVIOUS
      <4> QED BY <4>1
    <3> QED BY <1>4, <1>5, <2>3, <3>1 DEF Nests
  <2>7. MadeOfSaid'
    BY <1>4, <1>5, <2>1 DEF MadeOfSaid
  <2>8. CASE arm \in Nested
    <3> DEFINE new == Filling(arm, <<>>, prop.shape)
    <3>1. /\ new \in Frame /\ new.at = <<>> /\ new.seen = {} /\ new.oneofs = {}
      <4>1. <<>> \in Seq(Key)
        OBVIOUS
      <4> QED BY <1>3, <2>8, <4>1 DEF Filling, Frame
    <3>2. frames' = Append(<<>>, new) /\ verdict' = "filling"
      BY <2>1, <2>8 DEF Pushed
    <3> HIDE DEF new
    <3>3. frames' \in Seq(Frame) /\ frames' # <<>> /\ DOMAIN frames' = {1} /\ frames'[1] = new
      BY <3>1, <3>2
    <3>4. LiteralTypeOK'
      BY <1>1, <1>5, <2>4, <3>2, <3>3 DEF LiteralTypeOK, Verdict, Refusal
    <3>5. ASSUME NEW k \in Key PROVE Append(<<>>, k) # <<>>
      OBVIOUS
    <3>6. \E n \in 0..(Len(said') - 1) : {} = 1..n
      <4>1. 0 \in 0..(Len(said') - 1) /\ {} = 1..0
        BY <1>5
      <4> QED BY <4>1
    <3>7. Opened(1)'
      <4>1. /\ new.at \in Spoken' /\ Len(new.at) = 1 - 1
            /\ \A k \in Key : k \in new.seen <=> Append(new.at, k) \in Spoken'
        BY <2>3, <3>1, <3>5
      <4>2. new.oneofs = {Oneof[f] : f \in new.seen \cap Field} \ (Synthetic \cup {None})
        BY <3>1
      <4> QED BY <3>1, <3>3, <3>6, <4>1, <4>2 DEF Opened
    <3> QED BY <1>5, <2>5, <2>6, <2>7, <3>2, <3>3, <3>4, <3>7 DEF Held, Refusal
  <2>9. CASE arm \notin Nested
    <3>1. frames' = <<>> /\ verdict' = "made"
      BY <2>1, <2>9 DEF Pushed
    <3>2. LiteralTypeOK'
      BY <1>1, <1>5, <2>4, <3>1 DEF LiteralTypeOK, Verdict, Refusal
    <3> QED BY <1>5, <2>5, <2>6, <2>7, <3>1, <3>2 DEF Held, Refusal
  <2> QED BY <2>8, <2>9
<1> QED BY <1>6, <1>7

LEMMA SameSaid ==
    ASSUME said' = said
    PROVE  Spoken' = Spoken /\ (Legal' <=> Legal) /\ (Nests' <=> Nests)
           /\ (made' = made => (MadeOfSaid' <=> MadeOfSaid))
<1>1. Spoken' = Spoken
  BY DEF Spoken
<1> QED BY <1>1 DEF Legal, Nests, MadeOfSaid

LEMMA CloseKeeps == ASSUME LiteralTypeOK, Held, Close PROVE LiteralTypeOK' /\ Held'
<1>1. /\ verdict = "filling" /\ frames' = Front(frames)
      /\ verdict' = (IF Len(frames) = 1 THEN "made" ELSE "filling")
      /\ prop' = prop /\ site' = site /\ made' = made /\ said' = said
  BY DEF Close
<1>2. frames \in Seq(Frame) /\ Len(frames) \in Nat \ {0} /\ frames # <<>>
  BY <1>1, FillingTop
<1>3. /\ frames' \in Seq(Frame) /\ Len(frames') = Len(frames) - 1
      /\ \A i \in 1..(Len(frames) - 1) : frames'[i] = frames[i]
  BY <1>1, <1>2, FrontLast
<1>4. (frames' # <<>>) <=> Len(frames) # 1
  BY <1>2, <1>3
<1>5. LiteralTypeOK'
  BY <1>1, <1>3, <1>4 DEF LiteralTypeOK, Verdict, Refusal
<1>6. ASSUME NEW i \in DOMAIN frames' PROVE Opened(i)'
  <2>1. i \in 1..(Len(frames) - 1) /\ i \in DOMAIN frames
    BY <1>2, <1>3
  <2>2. Opened(i) /\ frames'[i] = frames[i]
    BY <1>1, <1>3, <2>1 DEF Held, Refusal
  <2> QED BY <1>1, <2>2, SameSaid DEF Opened
<1>7. Legal' /\ Nests' /\ MadeOfSaid' /\ said' # <<>> /\ verdict' \notin Refusal \cup {"begin"}
  BY <1>1, SameSaid DEF Held, Refusal
<1> QED BY <1>5, <1>6, <1>7 DEF Held

\* A step that leaves the literal as it is keeps what holds of it.
LEMMA StoreKeeps == ASSUME LiteralTypeOK, Held, Store PROVE LiteralTypeOK' /\ Held'
<1>1. /\ verdict = "made" /\ verdict' \in {"stored", "InvalidValue"}
      /\ prop' = prop /\ site' = site /\ made' = made /\ said' = said /\ frames' = frames
  BY DEF Store
<1>2. frames = <<>>
  BY <1>1 DEF LiteralTypeOK, Refusal
<1>3. LiteralTypeOK'
  BY <1>1, <1>2 DEF LiteralTypeOK, Verdict, Refusal
<1>4. DOMAIN frames' = {}
  BY <1>1, <1>2
<1>5. Legal' /\ Nests' /\ MadeOfSaid' /\ said' # <<>> /\ verdict' \notin Refusal \cup {"begin"}
  BY <1>1, SameSaid DEF Held, Refusal
<1> QED BY <1>3, <1>4, <1>5 DEF Held

LEMMA LiteralStutters ==
    ASSUME LiteralTypeOK, Held, UNCHANGED vars PROVE LiteralTypeOK' /\ Held'
<1>1. /\ verdict' = verdict /\ prop' = prop /\ site' = site /\ made' = made /\ said' = said
      /\ frames' = frames
  BY DEF vars
<1>2. LiteralTypeOK'
  BY <1>1 DEF LiteralTypeOK
<1>3. \A i : Opened(i)' <=> Opened(i)
  BY <1>1, SameSaid DEF Opened
<1> QED BY <1>1, <1>2, <1>3, SameSaid DEF Held

LEMMA LiteralNext ==
    ASSUME LiteralTypeOK, Held, [Next]_vars PROVE LiteralTypeOK' /\ Held'
  BY BeginHeld, FillFieldHeld, FillElementHeld, FillEntryHeld, CloseKeeps, StoreKeeps,
     LiteralStutters DEF Next

LEMMA LiteralInit == ASSUME Init PROVE LiteralTypeOK /\ Held
<1>1. /\ prop \in Props /\ site \in Site /\ frames = <<>> /\ made = {} /\ said = <<>>
      /\ verdict = "begin"
  BY DEF Init
<1>2. LiteralTypeOK
  BY <1>1 DEF LiteralTypeOK, Verdict, Refusal
<1>3. Legal /\ Nests /\ MadeOfSaid
  BY <1>1 DEF Legal, Nests, MadeOfSaid
<1> QED BY <1>1, <1>2, <1>3 DEF Held, Refusal

\* The invariant of the filling of a literal.
THEOREM LiteralHolds == Spec => [](LiteralTypeOK /\ Held)
<1>1. Init => LiteralTypeOK /\ Held
  BY LiteralInit
<1>2. LiteralTypeOK /\ Held /\ [Next]_vars => (LiteralTypeOK /\ Held)'
  BY LiteralNext
<1> QED BY <1>1, <1>2, PTL DEF Spec

------------------------------------------------------------------------------
(* What a literal comes to.                                                *)

\* Every variable of the filling has its type.
THEOREM LiteralTypeCorrect == Spec => []LiteralTypeOK
  BY LiteralHolds, PTL

\* A literal is refused exactly when it is not legal (materialize and the fills it calls).
THEOREM RefusedIsIllegal == Spec => []RefusedExactly
<1>1. Held => RefusedExactly
  BY DEF Held, RefusedExactly
<1> QED BY <1>1, LiteralHolds, PTL

\* What is made holds every item of the literal, and nothing else, and nothing is made of one that is
\* refused (materialize).
THEOREM NoItemLost == Spec => []NothingLost
<1>1. Held => NothingLost
  BY DEF Held, MadeOfSaid, NothingLost
<1> QED BY <1>1, LiteralHolds, PTL

\* The value of a column of bytes is bytes, or a collection of them, and nothing is below that.
BytesHeld ==
    prop.shape.kind = "bytes" =>
        /\ \A p \in made : Len(p.at) <= 1
        /\ frames # <<>> =>
                Len(frames) = 1 /\ Top.form \in {"list", "map"} /\ Top.field = prop.shape

LEMMA BytesItem ==
    ASSUME LiteralTypeOK, Held, BytesHeld, verdict = "filling", prop.shape.kind = "bytes",
           NEW error, NEW to, NEW f, NEW s, NEW arm,
           Materialize(error, to, f, s, arm), error = "ok" => to \in Key /\ arm \in Scalar
    PROVE  BytesHeld'
<1>1. CASE error # "ok"
  <2>1. made' = {} /\ frames' = <<>>
    BY <1>1 DEF Materialize
  <2> QED BY <2>1 DEF BytesHeld
<1>2. CASE error = "ok"
  <2> DEFINE real == {Oneof[x] : x \in {to} \cap Field} \ (Synthetic \cup {None})
             top == [Top EXCEPT !.seen = @ \cup {to}, !.oneofs = @ \cup real]
             at == Append(Top.at, to)
  <2>1. /\ frames \in Seq(Frame) /\ Len(frames) = 1 /\ Top \in Frame /\ Top.at \in Seq(Key)
        /\ Len(Top.at) = 0 /\ Top.form \in {"list", "map"} /\ Top.field = prop.shape
    <3>1. frames # <<>>
      BY DEF LiteralTypeOK
    <3>2. Len(frames) = 1 /\ Top.form \in {"list", "map"} /\ Top.field = prop.shape
      BY <3>1 DEF BytesHeld
    <3> QED BY <3>2, FillingTop
  <2>2. /\ made' = Put(at, arm) /\ prop' = prop
        /\ frames' = Pushed(Front(frames) \o <<top>>, at, f, arm)
    BY <1>2 DEF Materialize
  <2>3. arm \notin Nested
    BY <1>2 DEF Scalar, Nested
  <2>4. Len(at) = 1
    BY <1>2, <2>1, AppendParts
  <2>5. top.form = Top.form /\ top.field = Top.field
    BY <2>1 DEF Frame
  <2> HIDE DEF top, at
  <2>6. ASSUME NEW p \in made' PROVE Len(p.at) <= 1
    <3>1. p \in made \/ p = [at |-> at, is |-> arm]
      BY <2>2 DEF Put
    <3>2. CASE p \in made
      BY <3>2 DEF BytesHeld
    <3>3. CASE p = [at |-> at, is |-> arm]
      <4>1. p.at = at
        BY <3>3
      <4>2. Len(p.at) = 1
        BY <2>4, <4>1, Zenon
      <4> QED BY <4>2
    <3> QED BY <3>1, <3>2, <3>3
  <2>7. Len(frames') = 1 /\ frames'[1] = top
    <3>1. frames' = Front(frames) \o <<top>>
      BY <2>2, <2>3 DEF Pushed
    <3>2. Front(frames) = <<>>
      BY <2>1 DEF Front
    <3> QED BY <3>1, <3>2
  <2>8. Top' = top
    BY <2>7 DEF Top, Last
  <2> QED BY <2>1, <2>2, <2>5, <2>6, <2>7, <2>8 DEF BytesHeld
<1> QED BY <1>1, <1>2

LEMMA BytesNext == ASSUME LiteralTypeOK, Held, BytesHeld, [Next]_vars PROVE BytesHeld'
<1>1. prop' = prop
  BY DEF Next, vars, Begin, FillField, FillElement, FillEntry, Materialize, Close, Store
<1>2. SUFFICES ASSUME prop.shape.kind = "bytes" PROVE BytesHeld'
  BY <1>1 DEF BytesHeld
<1>3. ASSUME NEW arm \in Arm, Begin(arm) PROVE BytesHeld'
  <2>1. frames = <<>> /\ made = {}
    BY <1>3 DEF Begin, Held, Refusal
  <2>2. CASE ~Fits(arm, prop.shape, site)
    BY <1>3, <2>1, <2>2 DEF Begin, BytesHeld
  <2>3. CASE Fits(arm, prop.shape, site)
    <3>1. made' = {[at |-> <<>>, is |-> arm]} /\ frames' = Pushed(<<>>, <<>>, prop.shape, arm)
      BY <1>3, <2>3 DEF Begin
    <3>2. \A p \in made' : Len(p.at) <= 1
      BY <3>1
    <3>3. CASE arm \in Nested
      <4>1. arm \in {"list", "map"}
        BY <1>2, <2>3, <3>3, PropTyped DEF Fits, FieldShape, Scalar, Nested
      <4> DEFINE new == Filling(arm, <<>>, prop.shape)
      <4>2. frames' = Append(<<>>, new)
        BY <3>1, <3>3 DEF Pushed
      <4>3. new.form = arm /\ new.field = prop.shape
        BY DEF Filling
      <4> HIDE DEF new
      <4>4. Len(frames') = 1 /\ frames'[1] = new
        BY <4>2
      <4>5. Top' = new
        BY <4>4 DEF Top, Last
      <4> QED BY <1>1, <3>2, <4>1, <4>3, <4>4, <4>5 DEF BytesHeld
    <3>4. CASE arm \notin Nested
      <4>1. frames' = <<>>
        BY <3>1, <3>4 DEF Pushed
      <4> QED BY <3>2, <4>1 DEF BytesHeld
    <3> QED BY <3>3, <3>4
  <2> QED BY <2>2, <2>3
<1>4. ASSUME verdict = "filling" PROVE Top.form \in {"list", "map"} /\ Top.field = prop.shape
  BY <1>2, <1>4 DEF LiteralTypeOK, BytesHeld
<1>5. ASSUME NEW arm \in Arm, NEW s \in {"element", "mapValue"}, Fits(arm, prop.shape, s)
      PROVE  arm \in Scalar
  BY <1>2, <1>5 DEF Fits
<1>6. ASSUME NEW n \in Name, NEW arm \in Arm, FillField(n, arm) PROVE BytesHeld'
  BY <1>4, <1>6 DEF FillField
<1>7. ASSUME NEW arm \in Arm, FillElement(arm) PROVE BytesHeld'
  <2> DEFINE error == ArmError(arm, Top.field, "element")
             to == Cardinality(Top.seen) + 1
  <2>1. verdict = "filling" /\ Top.form = "list" /\ Materialize(error, to, Top.field, "element", arm)
    BY <1>7 DEF FillElement
  <2>2. error = "ok" => arm \in Scalar
    BY <1>4, <1>5, <2>1, ArmErrorIs
  <2>3. to \in Key
    <3>1. PICK n \in 0..(Len(said) - 1) : Top.seen = 1..n
      BY <2>1, FillingTop
    <3>2. Cardinality(1..n) = n
      BY FS_Interval
    <3>3. Len(said) < MaxItems /\ Len(said) \in Nat /\ MaxItems \in Nat
      BY <2>1, FillingTop, LiteralAssumption DEF Materialize
    <3>4. to \in 1..MaxItems
      BY <3>1, <3>2, <3>3
    <3> QED BY <3>4 DEF Key
  <2> HIDE DEF error, to
  <2> QED BY <1>2, <2>1, <2>2, <2>3, BytesItem
<1>8. ASSUME NEW k \in MapKey \cup {Unknown}, NEW arm \in Arm, FillEntry(k, arm) PROVE BytesHeld'
  <2>1. verdict = "filling" /\ Materialize(EntryError(k, arm), MapKeyFor(k), Top.field, "mapValue", arm)
    BY <1>8 DEF FillEntry
  <2>2. EntryError(k, arm) = "ok" => MapKeyFor(k) \in MapKey /\ arm \in Scalar
    <3>1. EntryError(k, arm) = "ok" => MapKeyFor(k) # None /\ ArmError(arm, Top.field, "mapValue") = "ok"
      BY DEF EntryError
    <3>2. MapKeyFor(k) \in MapKey \cup {None}
      BY DEF MapKeyFor
    <3> QED BY <1>4, <1>5, <2>1, <3>1, <3>2, ArmErrorIs
  <2> QED BY <1>2, <2>1, <2>2, BytesItem DEF Key
<1>9. CASE Close
  <2>1. Len(frames) = 1 /\ frames' = Front(frames) /\ made' = made
    BY <1>2, <1>9 DEF Close, BytesHeld, LiteralTypeOK
  <2>2. frames' = <<>>
    BY <1>9, <2>1, FillingTop DEF Front, Close
  <2> QED BY <1>1, <2>1, <2>2 DEF BytesHeld
<1>10. CASE Store \/ UNCHANGED vars
  BY <1>10 DEF Store, vars, BytesHeld, Top
<1> QED BY <1>3, <1>6, <1>7, <1>8, <1>9, <1>10 DEF Next

------------------------------------------------------------------------------
(* The value and the type it is generated for.                             *)

LEMMA UuidElem ==
    ASSUME NEW f \in FieldShape, NEW t
    PROVE  GoElem(f, t) = "uuid.UUID" <=> f.kind = "bytes" /\ t = "uuid"
<1>1. f.kind \in Kind
  BY DEF FieldShape
<1>2. CASE f.kind = "bytes"
  BY <1>2 DEF GoElem
<1>3. CASE f.kind # "bytes"
  BY <1>1, <1>3 DEF GoElem, Kind, Signed, Unsigned, Real
<1> QED BY <1>2, <1>3

\* checkOrmValue looks at all the bytes there are.
LEMMA CheckedIsFit ==
    ASSUME LiteralTypeOK, BytesHeld
    PROVE  ~CheckOrmValue <=> /\ GoElem(prop.shape, TypeOf(prop)) = "uuid.UUID"
                              /\ \E p \in made : p.is = "scalar"
<1>1. GoElem(prop.shape, TypeOf(prop)) = "uuid.UUID" <=> prop.shape.kind = "bytes" /\ TypeOf(prop) = "uuid"
  BY PropTyped, UuidElem
<1>2. ASSUME NEW p \in made
      PROVE  p.is = "scalar" <=> p.is \in Scalar /\ p.is # "sixteen"
  BY DEF Scalar
<1>3. prop.shape.kind = "bytes" => \A p \in made : Len(p.at) <= 1
  BY DEF BytesHeld
<1> QED BY <1>1, <1>2, <1>3 DEF CheckOrmValue

LEMMA SettledNext ==
    ASSUME LiteralTypeOK, Held, BytesHeld, UuidsFit, [Next]_vars PROVE UuidsFit'
<1>1. CASE Store
  <2>1. /\ prop' = prop /\ made' = made
        /\ verdict' = IF CheckOrmValue THEN "stored" ELSE "InvalidValue"
    BY <1>1 DEF Store
  <2>2. TypeOf(prop)' = TypeOf(prop)
    BY <2>1
  <2> QED BY <2>1, <2>2, CheckedIsFit DEF UuidsFit
<1>2. CASE UNCHANGED vars
  BY <1>2 DEF vars, UuidsFit
<1>3. CASE Close \/ \E arm \in Arm : Begin(arm)
  BY <1>3 DEF Close, Begin, UuidsFit
<1>4. ASSUME NEW arm \in Arm,
             FillElement(arm) \/ (\E n \in Name : FillField(n, arm))
                \/ \E k \in MapKey \cup {Unknown} : FillEntry(k, arm)
      PROVE  UuidsFit'
  <2>1. /\ \A n \in Name : FieldError(n, arm) \in Refusal \cup {"ok"}
        /\ ArmError(arm, Top.field, "element") \in Refusal \cup {"ok"}
        /\ \A k \in MapKey \cup {Unknown} : EntryError(k, arm) \in Refusal \cup {"ok"}
    BY DEF FieldError, EntryError, ArmError, Refusal
  <2>2. verdict' \in Refusal \cup {"filling"}
    BY <1>4, <2>1 DEF FillElement, FillField, FillEntry, Materialize
  <2> QED BY <2>2 DEF UuidsFit, Refusal
<1> QED BY <1>1, <1>2, <1>3, <1>4 DEF Next

\* A type that is deduced decays to the storage of the Go type.
LEMMA DeducedAgrees ==
    ASSUME NEW d \in Declared, d.type = "unspecified", d.shape.kind # "group"
    PROVE  Decay(TypeOf(d)) =
                IF d.shape.card = "map" THEN "message" ELSE GoStorage(GoElem(d.shape, TypeOf(d)))
<1> DEFINE f == d.shape
<1>1. f \in FieldShape /\ TypeOf(d) = DeduceType(f)
  BY DEF Declared, TypeOf
<1>2. f.kind \in Kind
  BY <1>1 DEF FieldShape
<1> HIDE DEF f
<1>3. CASE f.card = "map"
  <2>1. DeduceType(f) = "json"
    BY <1>3 DEF DeduceType, FieldKind
  <2>2. Decay("json") = "message"
    BY DEF Decay, Real, Signed, Unsigned
  <2> QED BY <1>1, <1>3, <2>1, <2>2 DEF f
<1>4. CASE f.card # "map" /\ f.kind = "message"
  <2>1. DeduceType(f) \in {"time", "json"}
    BY <1>4 DEF DeduceType, FieldKind
  <2>2. Decay("json") = "message" /\ Decay("time") = "message"
    BY DEF Decay, Real, Signed, Unsigned
  <2>3. GoElem(f, DeduceType(f)) \in {"time.Time", "struct"}
    BY <1>4 DEF GoElem, Signed, Unsigned, Real
  <2>4. GoStorage(GoElem(f, DeduceType(f))) = "message"
    BY <2>3 DEF GoStorage
  <2> QED BY <1>1, <1>4, <2>1, <2>2, <2>4 DEF f
<1>5. CASE f.card # "map" /\ f.kind # "message"
  <2>1. DeduceType(f) = f.kind
    BY <1>5 DEF DeduceType, FieldKind
  <2>2. Decay(f.kind) = GoStorage(GoElem(f, f.kind))
    <3>1. CASE f.kind \in {"bool", "string", "bytes"}
      BY <3>1 DEF Decay, GoStorage, GoElem, Real, Signed, Unsigned
    <3>2. CASE f.kind \in Signed \cup {"enum"}
      BY <3>2 DEF Decay, GoStorage, GoElem, Real, Signed, Unsigned
    <3>3. CASE f.kind \in Unsigned
      BY <3>3 DEF Decay, GoStorage, GoElem, Real, Signed, Unsigned
    <3>4. CASE f.kind \in Real
      BY <3>4 DEF Decay, GoStorage, GoElem, Real, Signed, Unsigned
    <3>5. f.kind # "group"
      BY DEF f
    <3> QED BY <1>2, <1>5, <3>1, <3>2, <3>3, <3>4, <3>5 DEF Kind
  <2> QED BY <1>1, <1>5, <2>1, <2>2 DEF f
<1> QED BY <1>3, <1>4, <1>5

\* The value and the type it is generated for fit (checkOrmValue, DeduceType, Decay, GoType).
THEOREM ValuesFitTypes == Spec => []ValueFits
<1>1. Init => BytesHeld /\ UuidsFit
  BY DEF Init, BytesHeld, UuidsFit
<1>2. LiteralTypeOK /\ Held /\ BytesHeld /\ UuidsFit /\ [Next]_vars => BytesHeld' /\ UuidsFit'
  BY BytesNext, SettledNext
<1>3. ASSUME LiteralTypeOK PROVE TypesAgree
  <2>1. prop \in Declared
    BY <1>3, LiteralAssumption DEF LiteralTypeOK
  <2> QED BY <2>1, DeducedAgrees DEF TypesAgree
<1>4. LiteralTypeOK /\ UuidsFit => ValueFits
  BY <1>3 DEF ValueFits
<1> QED BY <1>1, <1>2, <1>4, LiteralHolds, PTL DEF Spec
================================================================================
