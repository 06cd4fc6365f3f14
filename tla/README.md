# A TLA+ model of protobuf-orm

protobuf-orm reads annotated proto files into a graph of entities (`src/graph`)
and compiles patch documents against such an entity into one SQL-shaped UPDATE
(`src/ormpatch`). It runs no storage and no server: generators and servers built
on it do. So what can go wrong in it is about *agreement* (the compiled
statement against the document it was compiled from, the schema against the
graph), about *order* (entries of a document, messages of a file, files of a
program), and about *halves* (an entity, a file or a document of which the
second half is refused).

Line numbers below are of the files under `src/`.

## The system

| Component | State it keeps | Operations | Talks to |
|---|---|---|---|
| Schema parser, `graph/graph.go`, `entity.go`, `prop.go`, `field.go`, `edge.go`, `index.go` | the caller's `Graph`; during `Parse` its clone, the entity objects (shared by both), the recursion's stack, the commits staged for each entity | `Parse`, `ParseFiles`, `Clone`, `InPlaceMerge`, and inside `parseEntity`, `parseProp`, `parseIndex` | descriptors (read, and once written), the rpc options, whoever walks the graph |
| Rpc options, `graph/rpc.go` | which rpcs an entity has; defaults written into the descriptor's options | `parseRpcs`, `AddMany.Max` | called at the end of `parseEntity` |
| Request layout, `graph/patchreq.go` | the map from field number to slot while it is filled | `PatchProps`, `PatchFlagOf`, the number functions, `PatchLayout` | generators lay messages out with it, the conversion reads messages with it |
| Request conversion, `ormpatch/frompatchreq.go` | the entries so far | `FromPatchRequest` with an `EdgeResolver` callback | its document goes to the compiler |
| Patch compiler, `ormpatch/compile.go` | `tests`, `writes`, `order`, `wrote`, `resized` | `Compile`, `CompileWith`: `delta`, `entry`, `walk`, `container`, `targets`, `enter`, and the four places that write | `patch.NormalizeWith` before it, a backend after it |
| Plan, `ormpatch/plan.go`, `value.go` | tests, writes, JSON edits | read by backends | executed by the storage; in the tests by an interpreter (`agree_test.go`) |
| Reference engine, protobuf-patch (not in the repository) | a message | applies the same document | `doc.go` promises that the two agree |
| Literals, `ormpatch/value.go` | the messages and collections being filled, and for each the fields, oneofs or keys it has so far | `materialize`, `fillMessage`, `fillList`, `fillMap`, `checkOrmValue` | called at every write of the compiler |
| Option types, `ormpb/type.go`, `ref.go`; element types, `graph/elem.go` | none | `DeduceType`, `Decay` | the parser |
| Go type names, `graph/gogen` | none | `GoType`, `ParseFiles` | generators |
| Clients of a versioned row (README.md, *Version fields*; the server is not in the repository) | the row and its version; what each client read; the calls and their copies under way | Get, Patch, Apply, Erase, Add | the conversion and the compiler, then one UPDATE |

### What is hard

* *Order within a document.* The reference engine applies an entry to what the
  entries above it left; the statement evaluates every test and every position
  against the row as it was. The compiler must refuse exactly what tells these
  apart: a test of a written column, a position in a resized list, a whole write
  beside an edit.
* *Folding.* A statement sets a column once, so writes of one column are folded:
  edits compose, a whole write replaces, an edit over a whole write is refused.
* *Four write sites*, each of which has to ask for itself whether the column may
  be written, what a literal may be, what a miss means.
* *Two rule books.* The converter writes documents, the compiler has rules of
  its own for them; the two must fit.
* *The lock.* The optimistic lock is only a test in the WHERE clause; whether it
  is there is decided by two fields of the request that are set independently,
  and what it is worth by nobody else writing the version. Calls overlap, get
  lost, and are sent again.
* *Literals inside literals*: a field named in two ways, two members of a oneof,
  an element of another kind, at any depth, when what is around it is half built.
* *Recursive parsing.* An entity is in the staging graph before it is known to
  be one; entities parsed in the meantime link to it; when it fails it is
  withdrawn.
* *Two phases.* Options are normalised by commits that run when their entity is
  complete, on objects the caller's graph shares.
* *Arithmetic*: doubled field numbers against protobuf's band and cap, positions
  against a 32-bit subscript, nests against a limit.

### What makes each component correct

* Parser: the graph is closed under the edges of its entities; a failed file
  leaves it as it was; an accepted file has all of its entities in it and is
  found complete when parsed again; what the options say is what the graph
  answers, and invariants that combine options hold (a key is unique and
  immutable, a lock column cannot vanish from the request, a one-to-one relation
  is unique at both ends).
* Layout: a number means one field, forever; only entities whose numbers cannot
  be doubled are refused.
* Conversion: the row ends as the request asks, the lock holds unless forced,
  and the compiler takes every document the conversion answers.
* Compiler: the statement matches and leaves what the reference engine accepts
  and leaves; protected columns are in no statement; every operation is one its
  column has; nothing of a refused document survives.

## Modules

    RowPlan ------ PatchCompile ------ PatchClaims ---- MCPatch{Columns,Map,List,Edge}
                        |    \
                        |  PatchCompileProofs -- PatchAgreementProofs, PatchPlanProofs
                        |                                                |
    PatchSlots --- PatchRequest ------ MCRequest           PatchRequestProofs
       |
    PatchLayout -- PatchLayoutProofs,  MCPatchLayout
    SchemaRegistry <=implements= SchemaParse -- SchemaProofs, SchemaClaims -- MCSchema
    VersionedRow <=implements= OptimisticLock -- OptimisticLockProofs, MCLock
    FieldTypes -- PatchLiteral -- PatchLiteralProofs, MCValues

**RowPlan** has no behaviour. It says what a column may hold (a scalar or
nothing, a map, a list), what a `Test` asks of a row and what a `Write` leaves in
a column, JSON edits included. `plan.go` only describes these; what a backend
does is taken from the interpreter the repository tests the compiler with
(`agree_test.go`), down to the 32-bit subscript (`Subscript`), negative positions
that count from the end, and edits of a position that is not there: a remove drops
the last element (agree_test.go:158), and a set, where the interpreter panics
(agree_test.go:146), leaves the list as it was. The reference engine leaves it in
both cases, or aborts without SKIP. Only an edit that no guard protects gets there,
which is the disagreement "unguarded index".

**PatchCompile** is `compile.go`. The document is not fixed beforehand: each step
chooses the next construct of it, an entry with a path, an operation, an
`on_missing`, a literal; a selector; a nest; the end of an entry or of a delta.
So the behaviours are the compilations of every document of `MaxSteps`
constructs. The variables are the compiler's fields under their names, and the
delta and entry it is in. A construct is checked by an operator that answers the
error the code meets *first* (`TargetError`, `ContainerError`, ...), in the code's
order of checks, and a refused document leaves nothing (`Refuse`). Beside it, as
ghost state no guard reads, run the row under the writes so far (`planned`) and
the reference engine (`ref`, `refOk`). Four disagreements between the two are
deliberate or known; `diverged` records which of them a document has run into:

| name | where | what |
|---|---|---|
| oneof sibling | compile.go:467 | a write of a oneof member leaves the others' columns |
| edge path | compile.go:506 | the path through an edge is not asked whether it is set |
| late guard | compile.go:581 | the guard of a strict edit asks the row about what the document already wrote: a key that was assigned or removed, a position in a list an unrecorded insert has lengthened (compile.go:221) |
| unguarded index | compile.go:648 | with `SKIP` a position has no guard, and what a missing position does is the backend's |

Agreement exempts a document that has met one. How far such a document may lead the
two apart is `OnlySiblingsDiffer`: except for an unguarded index, the statement may
refuse a row or accept one, and may leave the siblings of a oneof member it writes
set; it writes no other value.

**PatchSlots** and **PatchLayout** are `graph/patchreq.go`: the numbering as
operators, and `PatchLayout` as the walk it is, one `put` a step.

**PatchRequest** is `frompatchreq.go` composed with the compiler. A client fills
the fields of a message (any combination of presence, values, companions; an
illegal value), the converter walks the props, one action for each branch of the
switch, and answers an error, nothing, or a document; `Open`, `Take`, `Close` and
`Compiled` then feed the document to PatchCompile's own actions.

**SchemaParse** is `Parse` and what is below it. Entities are objects on a `heap`
because the code shares them between the graph and its clones; `stack` is the
recursion of `parseEntity` through the targets of edges, one frame an entity
being built, with the errors and the field it is at. `Declare` is the forward
declaration, `Abandon` its withdrawal, `Complete` the keys, stamps, indexes, back
references, rpcs and the commits in their order, `Return` the merge or the error.
Files are parsed in any order and any of them again, up to `MaxParse` calls.

**SchemaRegistry** is what a graph promises to those who parse into it: a file is
accepted, with all its entities refer to, or nothing appears; an entity that is
there is never replaced and loses nothing. Its second action, `Unify`, is the
concession the code needs: an edge of an entity that is there may become unique
while another file is parsed, even one that is refused in the end. SchemaParse
implements it (`GraphIsRegistry`) under the mapping written out at its end: the
files accepted, the entities of `graph` with their objects' identity, the names
they refer to, and which props are unique. It is checked by the run `schema` and
proved for every schema.

**OptimisticLock** has what the compiler's statement is for: clients that read a
row with a version field and patch it, by a PatchRequest or by a document of their
own (the two doors of compile.go:756). A call is converted and compiled in one step
(`Prepare`), for neither reads anything another call may change, and executed as
one UPDATE in another (`Update`, or `Miss` when the WHERE clause meets no row).
`Converted` is the version's case of FromPatchRequest, all four cells of it;
`Compiled` is `mutable` for a document that assigns the version; that the
conversion really yields that test is `LockHolds` in PatchRequest. A call may be
lost, its client may send it again while the first copy is still on its way, and
somebody may erase the row, which takes no version. The server and the storage
are external: it stamps what nobody assigned (frompatchreq.go:131), and stamps
increase. What a row holds is a number, a new one for every change, so a version
that stands still while the content changes can be told.

**VersionedRow** is the promise: a row is changed by a client that has read what it
holds now, or by somebody who declined the lock, and those are counted. The lost
update is the step it does not have. OptimisticLock implements it
(`NoLostUpdate`): a change by a call that carries a version and is not forced must
be a `Replace`, everything else (forced, without a test, erased, added) an
`Override`. The variable `by` names whose change it was, so a Replace by one client
on the strength of what another has read is no step of VersionedRow.

**PatchLiteral** is `value.go`. The literal is chosen as it is read: an arm, then
the fields, elements or entries of whatever is on top of the stack of messages and
collections being filled. The value is the set of its places; `said` is the literal
itself, against which `RefusedExactly` and `NothingLost` measure it: all of its items
are in the value, or, once one is refused, none, for every caller of `materialize`
returns the error. **FieldTypes**
has the types of the column it is for: declared or deduced (`ormpb/type.go`), and
the Go type that is generated for it (`gogen`).

**PatchClaims** and **SchemaClaims** state sentences of the
repository's comments and documents that the code does not keep (see *Findings*).

An operator whose comment starts with *Mutant* is a wrong form of the one after
it: for every property of a run there is at least one bug it finds.

### Abstractions

* A document is taken after `patch.NormalizeWith`, which is a library's: ranges
  and `oneof` selectors that survive it are refused as in the code.
* A value is a model value. Values that cannot be stored (a UUID of another
  width) are the set `Short`; a value of no arm is `Illegal`. `materialize` is
  thus, in the compiler's modules, what it accepts, and not how a value is
  rendered; how it is built is PatchLiteral's.
* In PatchLiteral a scalar is of an arm its kind takes, and sixteen bytes long or
  not, or of one it does not take. The messages inside have one type, with a field
  of every shape.
* A name and the number it belongs to are one model value, except in the parser,
  where a reference has both and they can disagree.
* The text of an error is left out; which error is met first is not.

## Runs

Compilation, conversion, layout and parsing are functions that run to their end in
one goroutine: there is no scheduling to be fair about and no waiting, and what
would be liveness, that the recursion of the parser ends, is `NoReentry`: a frame
for every entity at most. In `lock` calls overlap, and nothing waits for another
call either: converting, compiling and one UPDATE are steps that are always possible,
so that a call is answered unless it is lost is plain and not stated. All runs are
safety runs, and no fairness is assumed: any call may stop anywhere.
`CHECK_DEADLOCK FALSE` everywhere, because a compilation, a conversion, a layout, a
literal and a bounded number of parses or calls end.

| run | bounds | asks |
|---|---|---|
| `patch_columns` | four scalar columns (nullable, UUID, immutable, version) and an immutable map, one disabled and two undeclared fields, 3 constructs, nest 1 | the plan's execution, one write per column, protected columns by every address, storable values |
| `patch_map` | a map of UUIDs with two keys, a nullable scalar, nests up to 2, 3 constructs | Agreement over keys, whole writes and edits; the nesting limit; what is not written is as in the row |
| `patch_list` | a list with indices -1, 0, 1, 3, 6 under a subscript limit of 2, rows of length 0 to 2, 3 constructs | Agreement, the plan's execution, operations that fit; positions and resizes: a wrapped subscript, a negative one, one out of range |
| `patch_edge` | a nullable and a NOT NULL edge addressed as fields and through the key, and a oneof of two scalars | Agreement, operations that fit; what may differ where Agreement is silent |
| `layout` | every pair out of 50 props (ten numbers at the bounds of band and cap, five kinds) and some triples, the real constants | types, no collision, numbers resolve, who is refused |
| `request` | every request to an entity of 8 props (a key, a nullable field, a version, a map, a list, an edge, a repeated edge, an erased field), with and without a resolver, rows of two versions and with the edge set or not; a message that lacks props | the row as asked, the lock, that the compiler takes it, when there is no document |
| `schema` | 3 messages in 2 files, 3 parses; cyclic and self edges, one, many or unique, with and without a back reference, an entity that may lack its key; one entity with every combination of the options of a field, of indexes, of rpc options; and a file with an entity of every rpc options that fails after it is built, and is parsed again | closed graph, staging, re-entry, re-parsing, one-to-one, that the graph is a registry; keys, versions and erased fields; rpcs, those of an entity built twice included |
| `lock` | two clients with a call each, one of which is sent twice; one erasure | no lost update (the refinement), a retry is applied once, a call is only turned away by a conflict |
| `values` | a root and three items, at any depth of messages, lists and maps; columns of all 18 kinds, and types that do not suit them | what is refused, that a literal is made whole or not at all, that the value fits the Go type |

The three other runs are the findings below. Agreement and UnwrittenAsInRow are proved for
every value of the constants, so they run where they say something new and not everywhere.

Why the bounds are enough for what they ask: a divergence between statement and
document needs an entry that writes and one that reads or writes the same column,
under the row's state before; a construct is a target of an entry, an entry with
container scope or a nest, so three give two interacting ones and one to lead
there or come after.
The subscript wraps at `MaxListIndex` = 2 as it would at 2^31-1, and index 6 is
the one that wraps onto a legal position. A back reference needs two entities, a
half-committed one a third; three parses are a failing one between two others.
A lost update needs two clients that have read the same row, and a third party
that writes without the lock is one of them with a forced call or the erasure; a
call applied twice needs two copies. Two items meet in one message, so a root, a
message inside it and two fields of that are four; a place is refused the same way
whatever is above it.
The layout's numbers are both sides of every bound its arithmetic has.

The proofs (below) lift every property of the passing runs off these bounds.

## Findings

Three runs check a sentence of the repository that the code does not keep, and TLC
finds what breaks it:

| run | what |
|---|---|
| `claim_guard_reads` | a document that assigns a map key in one entry and removes it strictly in the next compiles to a WHERE that asks for the key (compile.go:581), and misses a row without it, to which the reference engine applies the document; doc.go:60 says a document in which an entry reads what an earlier one wrote is refused |
| `claim_immutable` | a container entry writes a collection the schema marks immutable (compile.go:210); compile.go:759 says a rule enforced at one site only is not a rule |
| `claim_version_null` | a version field with proto's `optional` keyword is accepted and nullable (prop.go:91 asks the option, field.go:34 counts the keyword as well); patchreq.go:95 says a version field is validated to be non-nullable |

Other places where the modules say, as the code does, something else than its
documents:

* A write of a oneof member leaves the columns of its siblings as they are
  (compile.go:467), where the reference engine clears them and doc.go:110 says that
  what cannot be honoured is refused: the disagreement "oneof sibling".
* A `Parse` that fails may have marked an edge of the caller's graph unique
  (entity.go:264), where ARCHITECTURE.md:142 says it does not mutate the caller's
  graph: `Unify` in SchemaRegistry.
* Two entities that refer to each other, with a back reference, are accepted in one
  order of declaration and refused in the other (entity.go:224), where
  ARCHITECTURE.md:148 says circular references resolve.
* A version that is a repeated time is accepted (prop.go:93 asks its type only). The
  compiler does not test a repeated column, so such an entity can be patched by
  forced requests alone: the exception in `RequestCompiles`, which a proof of it
  without the exception ran into.
* A group is accepted as a field and panics in `GoType` (gogen.go:113), and a
  declared type need not suit its kind (prop.go:126, a TODO): a UUID declared for a
  string is checked by nobody, and generated as a string.
* An insert with container scope is not recorded as a resize, so an index after it
  compiles (compile.go:221; doc.go:88 says it is refused): `grown` in PatchCompile.
* An edge's path is entered whether or not the edge is set (compile.go:506;
  doc.go:49): the disagreement "edge path".
* A repeated edge is compiled as a list column, for `walk` and `enter` ask for a
  list first (compile.go:177), where plan.go:74 knows only `SetEdge` and
  `ClearEdge` for an edge and the converter refuses it (frompatchreq.go:150).
* Two undeclared fields selected by one entry are reported as one another's
  duplicate (compile.go:342).
* A version that is forced and carried is refused (frompatchreq.go:129); two
  comments, frompatchreq.go:71 and patchreq.go:103, say it is written.
* A message in which two props of one kind have each other's number is converted
  (frompatchreq.go:87).
* A repeated edge whose back reference becomes unique only by a later commit is
  accepted, although entity.go:239 refuses the pair when it sees it.
* The inverse of an edge may lead to a third entity (entity.go:251), and
  `Reverse` of that inverse does not lead back.
* `crud` writes its defaults into the descriptor (rpc.go:78), which prop.go:57 says
  must be treated as immutable; `rpcOpts` in SchemaParse is that descriptor, and
  RpcsAsDeclared shows that an entity that is built again from them, its file having
  failed the first time, has the rpcs its options declared.
* An erased field declared repeated is not nullable. KeyAndStamps names this, and
  the version of `claim_version_null`.

## Proofs

`tlapm` checks them for every value of the constants; what they assume of these
are the named ASSUMEs, which TLC evaluates in every run. Those are what the
descriptors and the storage guarantee (a field's number is positive and its own,
an option of a field is not on an edge) and that the names a module tells apart are
apart: `None` is no value (`NoneAssumption`), no field and no key. Two say more:

* `RequestAssumption`: the props are declared once each and have numbers of their own;
  there is one version at most, mutable and no JSON; an edge's key is a field of its target.
  And a message has the field of a prop at the number the layout gives it, which is
  what a generator makes of PatchLayout. It may lack any of the fields, and have
  others: it may be of an earlier schema, but not of one in which a number was
  another prop's (see *Findings*).
* `LiteralAssumption`: an `optional` field has a oneof of its own, the members of a
  oneof are not repeated, and fields, map keys and the positions of a list are told
  apart, as one place of a value holds one message, map or list.

Each state machine has one inductive invariant, and the properties follow from it:

| module | inductive invariant | theorems |
|---|---|---|
| PatchCompileProofs | `TypeOK` | `TypeCorrect` |
| PatchAgreementProofs | `Known`: `TypeOK`, `Agreement`, `UnwrittenAsInRow` | `PlanAgrees`, `UnwrittenKept` |
| PatchPlanProofs | each property by itself, over `TypeOK`; `NoPositionAfterShrink` with `ShrunkIsResized` | `PlanWritesOnce`, `ProtectedUnwritten`, `WritesStorable`, `WritesFit`, `PositionsBeforeShrink`, `PlanMeansDocument`; `DifferenceBounded` with `SiblingsApart` |
| PatchRequestProofs | `RequestInv`: `Conversion` of the document, `SendingHeld` of the plan | `DocumentOfRequest`, `RequestTypeCorrect`, `RequestsCompile`, `RequestWritesAsked`, `RequestLocks`, `RequestAsksNothing`; the refinement `RequestRunsCompiler` |
| PatchLiteralProofs | `LiteralTypeOK` and `Held`; on these, `BytesHeld` and `UuidsFit` | `LiteralTypeCorrect`, `RefusedIsIllegal`, `NoItemLost`, `ValuesFitTypes` |
| PatchLayoutProofs | `Inv`: `TypeOK`, `Placed`, `Progress` | `LayoutTypes`, `NoCollision`, `RefusedExactly`, `NumbersResolve` |
| SchemaProofs | `SchemaInv` | `SchemaTypeCorrect`, `RecursionEnds`, `StagedIsComplete`, `ParsedStays`, `GraphStaysClosed`, `SingularEndsAreUnique`, `KeyAndStampsHold`, `RpcsAreDeclared`; the refinement `ParserIsRegistry` |
| OptimisticLockProofs | `LockInv` | `LockTypeCorrect`, `GuardedAppliedOnce`, `ConflictsAreReal`; the refinement `LockKeepsPromise` |

**PatchCompileProofs**: `Spec => []TypeOK`. The type invariant is inductive; the
work is in showing that a construct whose checks pass hands its handler what the
handler relies on (`ColumnOk`, `EdgeOk`, `MapOk`, `ListOk`, `ContainerOk`), for it
is these checks that make `planned` a row. `MaxNest` comes with it.

Its first part has what the row operations return: an edit of a column leaves a
value of it, setting a position keeps a list's length, a position the compiler
addresses is the one every backend looks at (`SubscriptIsIndex`). And it has what
a fold is. `Exec` runs the edits of a column as a fold over a sequence of any
length, and the installed provers cannot use the library's induction theorems. So
the lemmas `Runs` to `ExecAppends` go by a minimal counterexample: if a run of
values of some length were not what is claimed, there would be a shortest one
(`NatLessThanWellFounded`), and its last step contradicts that. What comes of it is
`ExecAppends`: a write with one more edit leaves what that edit leaves in what the
write left.

**PatchAgreementProofs**: Agreement alone is not inductive: a test or a guard
is read from the row, while the reference engine reads the document so far. The
strengthening `UnwrittenAsInRow` says
what of the row is still there when a test is recorded: columns not written, map
entries not touched, lengths of lists not resized. Each handler keeps the three;
where it cannot, the document has met one of the four named disagreements, and
Agreement claims nothing of it. `diverged` only grows, so the exemption is for
that document and no other. For the third of the four, the run `claim_guard_reads`
shows that Agreement does not hold without the exemption.

**PatchPlanProofs**: the seven properties are about writes, and many actions lead to
one. `StepKinds` says once and for all what a step of the compiler is: it refuses
the document, or writes nothing (`Quiet`), or makes one write that has passed every
check of its handler (`Checked`). Each property is then a matter of
`Checked` alone. `NoPositionAfterShrink` needs that what shrank a list is recorded
(`ShrunkIsResized`), for it is `resized` that the handlers ask. `PlanMeansDocument`,
that the folded writes are the composition of the single ones, is `ExecAppends`.
`ProtectedUnwritten` is of the step, for what may write a protected column is a
matter of the entry that is open: one with targets has passed `mutable`
(`Permitted`). `DifferenceBounded` compares the row so far with the reference
engine's (`SiblingsApart`), which needs that a write does to the one what it does to
the other (`Mirrored`), whatever `diverged` says.

**PatchRequestProofs**: for every message, every order of the props and every request.
`Requests` folds over the fields of a message, which is a set: `RequestsTyped` goes
through its subsets by their number of elements, with `Counting` for the minimal
counterexample. Then in three parts:

* `Conversion` says what the document is: one entry for each prop behind the
  converter that the request makes one of (`Entered`, `EntryOf`), carrying what the
  column takes (`Apt`), no two of a column, and none once it is refused. One lemma
  for each branch of FromPatchRequest's switch.
* `RequestRunsCompiler` is the refinement: a step of the converter leaves the
  compiler's variables alone, and `Open`, `Take`, `Close` and `Compiled` are steps of
  it, since an entry converted is one it reads (`DocEntry`). So `TypeOK` and
  `ScalarsUnwritten` hold of requests because they hold of all documents.
* `SendingHeld` says what the plan is: the tests are those of the entries taken so
  far, a column holds what the entry on it wrote, and every other what the row has.
  `TakeOutcome` has the step that matters: the compiler takes an entry `Conversion`
  describes, or refuses it for one of the two reasons RequestCompiles leaves it.
  That no two entries are of a column is why none folds into another.

When the compiler is through, the plan is that of all entries, and `RowAsAsked` and
`LockHolds` only look at it.

**PatchLiteralProofs**: for every message type, and literals of any depth and size.
`RefusedExactly` says that checking item by item is checking the whole. What a frame
has seen is thus compared with what has been said: `Opened` has that the keys in
`seen` are those said at the frame's place, and `oneofs` the oneofs of these, a frame
at depth i having a place of i - 1 keys. An item is then refused because it is
unknown, does not fit, or repeats or rivals one said before (`ObjectionIllegal`),
and one that is not refused is at a place nobody has named (`FreshPlace`) and rivals
nobody (`NoRivalSeen`). That nothing is below a place before the place itself is
(`Nests`) is what makes the frame pushed for it begin with nothing seen
(`NothingUnder`). NothingLost is a conjunct of `Held`, `MadeOfSaid`. ValueFits is about
the value as checkOrmValue finds it, all of it, and needs that of a column of bytes
nothing is below the elements (`BytesHeld`); the rest is a comparison of the two
tables of types (`DeducedAgrees`).

**PatchLayoutProofs**: for every entity. That put's duplicate check is never met is not
inductive by itself, for it says nothing of the numbers already taken. `Placed`
says that every field's number is that of a prop behind the walk, `Progress` that
none of those is missing; two numbers that meet then have the same half and the
same parity, so the same prop and the same part. `RefusedExactly` needs that
FirstReserved is even and the last two bounds odd (`ParityAssumption`, true of
19000, 19999 and 2^29-1): otherwise a value could be refused and its companion
not. The comment at patchreq.go:158-166 argues the same in words.

**SchemaProofs**: for every set of files, any schema, and any number of parses. What
the run checks is mostly about `graph`, which one action changes; that `Return` is
safe rests on the objects, the clone and the stack, so `SchemaInv` is mostly about
those:

* Of every object, complete, half built or withdrawn: a prop is made of a field of
  its own that passed its checks and an edge points to an object of the right message
  (`PropsMade`); an inverse is an edge of the target, and two singular ends are
  unique (`InverseHeld`); a complete object has its key and rpcs (`KeyHeld`, with
  `RpcHeld` for the options that parsing writes).
* Of the calls: what is being built is staged under its name and is not complete, and
  its props are of the fields that were read (`CallsHeld`). `NoReentry` follows with
  `EnterTarget`'s guard, and so does that a field becomes a prop once.
* Of the clone: it extends the graph and has an entity for every message that was
  passed (`StagedHeld`), and refers to staged entities as long as no error is pending
  (`StagedComplete`). `Abandon` breaks the last part and leaves an error with whoever
  may refer to what it withdrew. So a file without errors is closed when
  `Return` merges it (`GraphHeld`).
* A file that was accepted finds the graph it left (`ReparseHeld`).

The refinement looks at the same steps from the graph: what is being built is not in
it (`BuildingUnseen`); completing an entity can make a prop of an object in the graph
unique and changes it no further (`CompleteUnifies`, Unify); Return is Accept, or
nothing when there are errors or the file was accepted before.

**OptimisticLockProofs**: for any number of clients, calls and copies. The heart of
`LockInv` is `HasRead`: a version somebody has read was given out before, and the
row has that version exactly when it holds the content that was read with it. It holds
of what clients have in view, of what their calls rely on (`ViewInv`, `CallInv`), and
of the statement of a call under way, which assigns no version and tests the one the
call relies on (`JobInv`); `AppliedInv` adds that a guarded call that was applied
has changed the row since. An UPDATE whose WHERE meets the row is then by a client
that has read what it holds, which is VersionedRow's `Replace`. That stamps increase
is what makes `HasRead` survive an update; nothing is assumed of who sends what again.

No property of a passing run is only model-checked: there is none of liveness, which
the prover does not do, and none that uses ENABLED. The three claims of *Findings* are
refuted, not proved.

The properties `Agreement` and `UnwrittenAsInRow` say nothing of the four
disagreements, in the proofs as in the runs; what DifferenceBounded says of three of
them is above. No definition is recursive. An operator
that answers the first error a check meets is a chain of IF, since the alternatives of
a CASE have no order.

## Not modelled

* What a database does beyond the interpreter of the tests: collations, the NULL
  of an SQL comparison, a missing JSON path under SKIP.
* `patch.NormalizeWith` and the limits it takes; Options other than the nest's.
* More than one row, and a statement that is not atomic: an UPDATE of one row is one
  step of any storage. What a server does besides compiling, executing and
  stamping.
* Erased and version fields together: erasing softly is one UPDATE by the server,
  and the repository does not say which.
* Defaults, IsOptional, element and proto types (`elem.go`, `proto-type.go`),
  `Ref.Access` (no caller), the accessors of entities, indexes and rpcs,
  `AddMany.Max`, `EntityOf` (a `Parse` into a new graph), names and import paths:
  tables and strings without state.
* What `patch.CheckArm`, `Scalar`, `ResolveField` and `MapKeyFor` do beyond what
  value.go relies on: closed enums, the widths of numbers, extension ranges.
* Generated code (`*.pb.go`), examples.

## Plan

Done in this order, the most consequential first: RowPlan and PatchCompile with
their proofs; SchemaParse; PatchLayout with its proofs; PatchRequest; OptimisticLock
and VersionedRow; PatchLiteral with FieldTypes; SchemaRegistry; the proofs of the
lock, the plan and the parser; the proofs of requests and literals.

What could be added, in the order of what it would say: the defaults of fields and
their element types (`elem.go`), and a schema that changes between the generation of
a client and its call, for which the repository states no rule yet.
