----------------------------- MODULE PatchRequest -----------------------------
(***************************************************************************)
(* FromPatchRequest of ormpatch/frompatchreq.go, and the compilation of    *)
(* the document it answers.  A client fills the fields of a request        *)
(* message; the converter walks the props of the entity, finds each one's  *)
(* field by its number and makes an entry of what the client asked; the    *)
(* compiler then takes the entries one after the other.                    *)
(***************************************************************************)
EXTENDS PatchCompile, PatchSlots, FiniteSets, FiniteSetsExt

CONSTANTS
    Declared,   \* the props in declaration order
    NumberOf,   \* [Prop -> its number]
    Erased,     \* the prop that dates the erasing of a row, if any
    Illegal,    \* a value no arm of a literal holds
    Message     \* request messages: [numbers -> [prop, kind]]

\* The parser refuses a version that is immutable or not a time, and a second one; a message has
\* the field of a prop where the layout puts it.
ASSUME RequestAssumption ==
    /\ Declared \in Seq(Prop) /\ \A p \in Prop : \E i \in DOMAIN Declared : Declared[i] = p
    /\ \A i, j \in DOMAIN Declared : Declared[i] = Declared[j] => i = j
    /\ NumberOf \in [Prop -> Nat \ {0}]
    /\ \A p, q \in Prop : NumberOf[p] = NumberOf[q] => p = q
    /\ Erased \subseteq Prop \ (Version \cup Edge)
    /\ \A v, w \in Version : v = w
    /\ Version \cap (Immutable \cup Json) = {}
    /\ \A e \in Edge : TargetKey[e] \in TargetField[e]
    /\ Illegal \notin Val \cup {None} /\ None \notin Entry
    /\ \A m \in Message :
        /\ IsFiniteSet(DOMAIN m)
        /\ \A p \in Prop : PatchValueNumber(NumberOf[p]) \in DOMAIN m =>
                m[PatchValueNumber(NumberOf[p])] = [prop |-> p, kind |-> "value"]

VARIABLES
    msg,        \* the message the request is of
    req,        \* what the client put into its fields
    resolves,   \* an EdgeResolver was given
    conv,       \* the next of Declared
    doc,        \* the entries so far
    keys,       \* what the resolver has answered
    answer,     \* "converting", "nothing", "document", or the error
    sent        \* entries the compiler has closed

request == <<msg, req, resolves>>
conversion == <<conv, doc, keys, answer>>
reqVars == <<vars, request, conversion, sent>>

----------------------------------------------------------------------------
\* The request.

\* What a client may put into a field: presence is a value other than None, and a collection
\* has none.
Carried(f) ==
    IF f.kind = "flag" THEN BOOLEAN
    ELSE IF f.prop \in Edge THEN (IF IsList(f.prop) THEN ListLiteral ELSE Val \cup {None})
    ELSE CASE IsMap(f.prop) -> MapLiteral
           [] IsList(f.prop) -> ListLiteral
           [] OTHER -> Val \cup {None, Illegal}

\* The requests of R with one field more, in every way it may be filled.
Filled(m, n, R) ==
    {[i \in DOMAIN r \cup {n} |-> IF i = n THEN c ELSE r[i]] : r \in R, c \in Carried(m[n])}

Requests(m) == FoldSet(LAMBDA n, R : Filled(m, n, R), {<<>>}, DOMAIN m)

PatchProp(p) == p \notin Immutable \cup Erased

Companion(p) == PatchFlagOf(p \in Version, p \in Nullable)
ValueAt(p) == PatchValueNumber(NumberOf[p])
FlagAt(p) == PatchFlagNumber(NumberOf[p])

\* The message has fields where the entity says they are.
Found(p) ==
    /\ ValueAt(p) \in DOMAIN msg
    /\ Companion(p) # "none" => FlagAt(p) \in DOMAIN msg /\ msg[FlagAt(p)].kind = "flag"

Flag(p) == Companion(p) # "none" /\ req[FlagAt(p)]

RequestHas(p) == IF IsCollection(p) THEN req[ValueAt(p)] # Empty(p) ELSE req[ValueAt(p)] # None

----------------------------------------------------------------------------
\* The conversion.

Converting == answer = "converting" /\ conv <= Len(Declared)
P == Declared[conv]

Proceed(entries) ==
    /\ doc' = doc \o entries /\ conv' = conv + 1
    /\ UNCHANGED <<vars, request, answer, sent>>

Fail(why) ==
    /\ answer' = why /\ doc' = <<>>
    /\ UNCHANGED <<vars, request, conv, keys, sent>>

EntryFor(op, path, p, lit) == [op |-> op, path |-> path, of |-> p, lit |-> lit]

Omit == Converting /\ ~PatchProp(P) /\ Proceed(<<>>) /\ UNCHANGED keys

Asking == Converting /\ PatchProp(P) /\ Found(P)

Misplaced == Converting /\ PatchProp(P) /\ ~Found(P) /\ Fail("layout")

\* The version: a test of what the request carries, or nothing when it is forced.
VersionNotGiven == Asking /\ Companion(P) = "force" /\ ~Flag(P) /\ ~RequestHas(P) /\ Fail("version not given")

\* Mutant: a version that is forced and carried is stored.
VersionWriteStores ==
    /\ Asking /\ Companion(P) = "force" /\ Flag(P) /\ RequestHas(P)
    /\ Proceed(<<EntryFor("assign", <<>>, P, req[ValueAt(P)])>>) /\ UNCHANGED keys

VersionWrite == Asking /\ Companion(P) = "force" /\ Flag(P) /\ RequestHas(P) /\ Fail("version write")

\* Mutant: a version that is carried is no precondition.
VersionTestLost ==
    /\ Asking /\ Companion(P) = "force" /\ ~Flag(P) /\ RequestHas(P) /\ req[ValueAt(P)] # Illegal
    /\ Proceed(<<>>) /\ UNCHANGED keys

\* Mutant: the version only has to be there.
VersionTestExists ==
    /\ Asking /\ Companion(P) = "force" /\ ~Flag(P) /\ RequestHas(P) /\ req[ValueAt(P)] # Illegal
    /\ Proceed(<<EntryFor("exists", <<>>, P, None)>>) /\ UNCHANGED keys

VersionTest ==
    /\ Asking /\ Companion(P) = "force" /\ ~Flag(P) /\ RequestHas(P) /\ req[ValueAt(P)] # Illegal
    /\ Proceed(<<EntryFor("equal", <<>>, P, req[ValueAt(P)])>>) /\ UNCHANGED keys

VersionForced == Asking /\ Companion(P) = "force" /\ Flag(P) /\ ~RequestHas(P) /\ Proceed(<<>>) /\ UNCHANGED keys

\* Mutant: a prop that is nulled and carries a value is both removed and assigned.
NullBoth ==
    /\ Asking /\ Companion(P) = "null" /\ Flag(P)
    /\ Proceed(<<EntryFor("remove", <<>>, P, None)>> \o
               (IF RequestHas(P) /\ P \notin Edge THEN <<EntryFor("assign", <<>>, P, req[ValueAt(P)])>> ELSE <<>>))
    /\ UNCHANGED keys

\* The companion wins: what the value field carries is not looked at.
Null ==
    /\ Asking /\ Companion(P) = "null" /\ Flag(P)
    /\ Proceed(<<EntryFor("remove", <<>>, P, None)>>) /\ UNCHANGED keys

\* No entry is made of a prop the request does not ask about.
Unasked == Asking /\ Companion(P) # "force" /\ ~Flag(P) /\ ~RequestHas(P) /\ Proceed(<<>>) /\ UNCHANGED keys

Assigning == Asking /\ Companion(P) # "force" /\ ~Flag(P) /\ RequestHas(P)

RepeatedEdge == Assigning /\ P \in Edge /\ IsList(P) /\ Fail("repeated edge")

NoResolver == Assigning /\ P \in Edge /\ ~IsList(P) /\ ~resolves /\ Fail("no resolver")

\* The resolver finds no target, or answers what is not of the key's kind.
Unresolved ==
    /\ Assigning /\ P \in Edge /\ ~IsList(P) /\ resolves
    /\ \/ Fail("not resolved")
       \/ Fail("IllegalArm")

\* The resolver answers a key of the target.
Resolved ==
    /\ Assigning /\ P \in Edge /\ ~IsList(P) /\ resolves
    /\ \E k \in Val :
          /\ keys' = [keys EXCEPT ![P] = k]
          /\ Proceed(<<EntryFor("assign", <<P>>, TargetKey[P], k)>>)

IllegalValue ==
    /\ Asking /\ ~Flag(P) /\ RequestHas(P) /\ P \notin Edge /\ req[ValueAt(P)] = Illegal
    /\ Fail("IllegalArm")

AssignField ==
    /\ Assigning /\ P \notin Edge /\ req[ValueAt(P)] # Illegal
    /\ Proceed(<<EntryFor("assign", <<>>, P, req[ValueAt(P)])>>) /\ UNCHANGED keys

\* Mutant: a document without an entry is answered.
AnswerEmpty ==
    /\ answer = "converting" /\ conv > Len(Declared)
    /\ answer' = "document"
    /\ UNCHANGED <<vars, request, conv, doc, keys, sent>>

\* The request asks for nothing: there is no document, and not an empty one.
Answer ==
    /\ answer = "converting" /\ conv > Len(Declared)
    /\ answer' = IF doc = <<>> THEN "nothing" ELSE "document"
    /\ UNCHANGED <<vars, request, conv, doc, keys, sent>>

Convert ==
    \/ Omit \/ Misplaced
    \/ VersionNotGiven \/ VersionWrite \/ VersionTest \/ VersionForced
    \/ Null \/ Unasked
    \/ RepeatedEdge \/ NoResolver \/ Unresolved \/ Resolved
    \/ IllegalValue \/ AssignField
    \/ Answer

----------------------------------------------------------------------------
\* The compilation of the document.

Sending == answer = "document" /\ UNCHANGED <<request, conversion>>

Open ==
    /\ Sending /\ sent < Len(doc) /\ UNCHANGED sent
    /\ OpenTargets(doc[sent + 1].path, doc[sent + 1].op, FALSE, FALSE, doc[sent + 1].lit)

Take ==
    /\ Sending /\ sent < Len(doc) /\ UNCHANGED sent
    /\ entry # None /\ entry.seen = {}
    /\ Target([arm |-> "field", of |-> doc[sent + 1].of])

Close == Sending /\ CloseEntry /\ sent' = sent + 1

Compiled == Sending /\ sent = Len(doc) /\ Finish /\ UNCHANGED sent

RequestInit ==
    /\ Init
    /\ msg \in Message /\ req \in Requests(msg) /\ resolves \in BOOLEAN
    /\ conv = 1 /\ doc = <<>> /\ keys = [p \in Edge |-> None] /\ answer = "converting" /\ sent = 0

RequestNext == Convert \/ Open \/ Take \/ Close \/ Compiled

RequestSpec == RequestInit /\ [][RequestNext]_reqVars

----------------------------------------------------------------------------
\* Properties.

Asks(p) == PatchProp(p) /\ p \notin Version /\ (RequestHas(p) \/ Flag(p))
Forced == \A v \in Version : Flag(v)

\* Every variable of the conversion has its type.
RequestTypeOK ==
    /\ TypeOK
    /\ msg \in Message /\ resolves \in BOOLEAN
    /\ DOMAIN req = DOMAIN msg /\ \A n \in DOMAIN msg : req[n] \in Carried(msg[n])
    /\ conv \in 1..Len(Declared) + 1 /\ sent \in 0..Len(doc)
    /\ \A k \in DOMAIN doc : doc[k].op \in {"equal", "assign", "remove"} /\ doc[k].of \in Field
    /\ keys \in [Edge -> Val \cup {None}]
    /\ answer \in {"converting", "nothing", "document", "layout", "version not given", "version write",
                   "repeated edge", "no resolver", "not resolved", "IllegalArm"}

\* What the converter answers, the compiler takes (frompatchreq_test.go: every case runs the whole
\* way through): the document of a request is refused only for a value too short for its column,
\* or for the test of a version that is a repeated time, which the parser takes (prop.go:93).
ColumnOf(e) == IF e.path = <<>> THEN e.of ELSE e.path[1]
RequestCompiles ==
    \/ verdict \in {"compiling", "compiled"}
    \/ verdict = "invalid" /\ \E k \in DOMAIN doc : ~Storable(ColumnOf(doc[k]), doc[k].lit)
    \/ verdict = "unsupported" /\ \E v \in Version : IsCollection(v)

\* The statement a request ends in writes what the request asks for and nothing else: a companion
\* clears its column whatever the value says, a value or a resolved key is stored, and the version,
\* what is immutable and what is not asked about keep what the row has.
RowAsAsked ==
    verdict = "compiled" => \A p \in Prop :
        planned[p] = IF ~Asks(p) THEN row[p]
                     ELSE IF Flag(p) THEN None
                     ELSE IF p \in Edge THEN keys[p] ELSE req[ValueAt(p)]

\* The lock: the statement meets exactly the rows of the version the client read, or every row
\* when the client has forced it, whatever else the request asks for.
LockHolds ==
    verdict = "compiled" =>
        (Matches(tests, row) <=> Forced \/ \A v \in Version : row[v] = req[ValueAt(v)])

\* There is no document exactly when nothing is asked for and no version is to be asserted: a
\* caller may take it for a request that changes nothing.
NothingAsked ==
    answer \in {"nothing", "document"} =>
        (answer = "nothing" <=> Forced /\ \A p \in Prop : ~Asks(p))
=============================================================================
