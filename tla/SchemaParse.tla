------------------------------ MODULE SchemaParse ------------------------------
(***************************************************************************)
(* The schema parser of graph/: Parse, parseEntity, parseProp, parseIndex  *)
(* and parseRpcs.  A caller parses files into one graph, one after the     *)
(* other, in any order, any of them again; a file's entities are staged in *)
(* a clone of the graph.  parseEntity recurses into the target of an edge  *)
(* that is not staged yet, so a stack holds the entities being built.      *)
(*                                                                         *)
(* Entities are objects, shared between the graph and its clones: an edge  *)
(* refers to its target, and an inverse to a prop of it, by the object and *)
(* not by its name.  A prop is known by its number, and a name by the      *)
(* number of the prop that bears it.                                       *)
(***************************************************************************)
EXTENDS Integers, Sequences, FiniteSets, SequencesExt

CONSTANTS
    None,
    Msg, File,
    MessagesOf,     \* [File -> its top-level messages, in order]
    Number,         \* the field numbers
    Schema,         \* the schemas whose parse is explored
    Desc,           \* [Schema -> what its messages declare]
    MaxParse        \* bound: calls of Parse

Choice == {"unset", "no", "yes"}        \* an option's HasX and GetX in one
Ref == [number : Number, name : Number]
Op == {"add", "get", "patch", "erase"}

\* What a message declares of one field.
FieldDesc ==
    [number : Number,
     decl : {"none", "field", "edge", "both"},      \* orm.field, orm.edge
     disabled : BOOLEAN,
     type : {"time", "message", "other"},
     message : Msg \cup {None},             \* the message the field holds, if it is of that kind
     repeated : BOOLEAN, presence : BOOLEAN, optional : BOOLEAN,
     key : BOOLEAN, version : BOOLEAN, erased : BOOLEAN,
     unique : Choice, nullable : Choice, immutable : Choice,
     from : Ref \cup {None}]

IndexDesc == [refs : Seq(Ref), unique : BOOLEAN, includesErased : BOOLEAN]

RpcDesc == [off : BOOLEAN, crud : BOOLEAN, op : [Op -> {"absent", "given", "disabled"}], many : BOOLEAN]

\* entity: the message carries orm.message, and it does not say disabled.
MessageDesc == [entity : BOOLEAN, fields : Seq(FieldDesc), indexes : Seq(IndexDesc), rpc : RpcDesc]

ASSUME ParseAssumption ==
    /\ None \notin Msg \cup File \cup Ref
    /\ MessagesOf \in [File -> Seq(Msg)]
    /\ Number \subseteq Nat \ {0}
    /\ Desc \in [Schema -> [Msg -> MessageDesc]]
    /\ \A s \in Schema, m \in Msg : \A i, j \in DOMAIN Desc[s][m].fields :
          Desc[s][m].fields[i].number = Desc[s][m].fields[j].number => i = j
    /\ \A s \in Schema, m \in Msg : \A d \in ToSet(Desc[s][m].fields) :
          /\ d.decl # "field" => ~d.key /\ ~d.version /\ ~d.erased
          /\ d.decl = "none" => {d.unique, d.nullable, d.immutable} = {"unset"} /\ ~d.disabled
          /\ d.decl # "edge" => d.from = None
    \* AddMany is an option of Add.
    /\ \A s \in Schema, m \in Msg : Desc[s][m].rpc.many => Desc[s][m].rpc.op["add"] # "absent"
    /\ MaxParse \in Nat

VARIABLES
    schema,     \* the schema being parsed
    rpcOpts,    \* the rpc options as the descriptors hold them now
    heap,       \* the entity objects built so far
    graph,      \* the caller's Entities: Msg -> an object, or 0
    staged,     \* Entities of the clone a Parse works on
    file,       \* the file being parsed, or None
    pos,        \* the next of its messages
    errs,       \* the errors of that Parse
    stack,      \* the calls of parseEntity that have not returned
    calls       \* Parse calls so far

VARIABLES
    parsed      \* auxiliary: the files some Parse answered without an error

vars == <<schema, rpcOpts, heap, graph, staged, file, pos, errs, stack, calls, parsed>>

----------------------------------------------------------------------------
\* The objects.

desc == Desc[schema]        \* the descriptors: what the messages declare

Prop == [number : Number, edge : BOOLEAN, unique : BOOLEAN, nullable : BOOLEAN, immutable : BOOLEAN,
         target : Nat, inverse : Nat \X (Number \cup {0})]
NoInverse == <<0, 0>>

\* key is the number of the key, 0 as long as none is found.
Entity == [msg : Msg, props : Seq(Prop), key : Number \cup {0}, indexes : Seq(Seq(Number)),
           rpcs : SUBSET (Op \cup {"addMany"})]

PropNumbers(o) == {p.number : p \in ToSet(heap[o].props)}
PropOf(o, n) == CHOOSE p \in ToSet(heap[o].props) : p.number = n
Edges(o) == {p \in ToSet(heap[o].props) : p.edge}
Source(o, n) == CHOOSE d \in ToSet(desc[heap[o].msg].fields) : d.number = n
Fields(o) == {d \in ToSet(desc[heap[o].msg].fields) : \E p \in ToSet(heap[o].props) : p.number = d.number /\ ~p.edge}

\* IsNullable of a field and of an edge.
IsNullable(o, p) ==
    LET d == Source(o, p.number)
    IN  /\ ~d.repeated
        /\ \/ p.nullable \/ d.optional
           \/ ~p.edge /\ d.presence /\ d.type # "time"

----------------------------------------------------------------------------
\* parseProp: the error a field meets before it becomes a prop.

\* Mutant: that the key will be made immutable is forgotten.
VersionErrorKeyless(d) ==
    IF ~d.version THEN "ok"
    ELSE IF "yes" \in {d.unique, d.nullable, d.immutable} THEN "version is unique, nullable or immutable"
    ELSE IF d.type # "time" THEN "version is no time"
    ELSE "ok"

VersionError(d) ==
    IF ~d.version THEN "ok"
    ELSE IF d.key THEN "version is key"
    ELSE IF "yes" \in {d.unique, d.nullable, d.immutable} THEN "version is unique, nullable or immutable"
    ELSE IF d.type # "time" THEN "version is no time"
    ELSE "ok"

ErasedError(d) ==
    IF ~d.erased THEN "ok"
    ELSE IF d.key THEN "erased is key"
    ELSE IF "yes" \in {d.unique, d.immutable} THEN "erased is unique or immutable"
    ELSE IF d.version THEN "erased is version"
    ELSE IF d.type # "time" THEN "erased is no time"
    ELSE IF d.nullable = "no" THEN "erased is not nullable"
    ELSE "ok"

FieldError(d) ==
    IF VersionError(d) # "ok" THEN VersionError(d)
    ELSE IF ErasedError(d) # "ok" THEN ErasedError(d)
    ELSE IF d.type = "message" THEN "field is message"
    ELSE "ok"

IsField(d) == d.decl \in {"none", "field"}

EdgeError(d) ==
    IF d.message = None THEN "edge to no message"
    ELSE IF staged[d.message] = 0 THEN (IF desc[d.message].entity THEN "ok" ELSE "edge to no entity")
    ELSE IF d.unique = "yes" /\ d.repeated THEN "repeated edge is unique"
    ELSE "ok"

PropError(d) ==
    CASE d.decl = "both" -> "field and edge"
      [] IsField(d) -> FieldError(d)
      [] d.decl = "edge" -> EdgeError(d)

NewProp(d) ==
    [number |-> d.number, edge |-> ~IsField(d),
     unique |-> d.unique = "yes", nullable |-> d.nullable = "yes" \/ d.erased, immutable |-> d.immutable = "yes",
     target |-> IF IsField(d) THEN 0 ELSE staged[d.message], inverse |-> NoInverse]

----------------------------------------------------------------------------
\* parseEntity, once its props are parsed.

Error(o, n, why) == [msg |-> heap[o].msg, at |-> n, why |-> why]

Keys(o) == {d \in Fields(o) : d.key}

KeyErrors(o) ==
    IF Cardinality(Keys(o)) = 1 /\ \A d \in Keys(o) : d.unique # "no" /\ d.nullable # "yes" /\ d.immutable # "no"
    THEN {} ELSE {Error(o, 0, "key")}

StampErrors(o) ==
    IF Cardinality({d \in Fields(o) : d.version}) > 1 \/ Cardinality({d \in Fields(o) : d.erased}) > 1
    THEN {Error(o, 0, "several stamps")} ELSE {}

HasErasedField(o) == \E d \in Fields(o) : d.erased

IndexOk(o, x) ==
    /\ x.refs # <<>>
    /\ \A r \in ToSet(x.refs) : r.number \in PropNumbers(o) /\ r.name = r.number
    /\ x.includesErased => x.unique /\ HasErasedField(o)

IndexErrors(o) ==
    {Error(o, 0, "index") : x \in {y \in ToSet(desc[heap[o].msg].indexes) : ~IndexOk(o, y)}}

\* The error of the back reference an edge declares.
BackRefError(o, p) ==
    LET d == Source(o, p.number)
        r == d.from
    IN  IF r = None THEN "ok"
        ELSE IF r.number \notin PropNumbers(p.target) THEN "no back reference"
        ELSE IF r.name # r.number THEN "back reference is named otherwise"
        ELSE IF ~PropOf(p.target, r.number).edge THEN "back reference is no edge"
        ELSE IF PropOf(p.target, r.number).unique /\ d.repeated THEN "back reference is unique"
        ELSE "ok"

BackRefErrors(o) ==
    {Error(o, p.number, BackRefError(o, p)) : p \in {q \in Edges(o) : BackRefError(o, q) # "ok"}}

\* The errors parseEntity answers: those of the first check that has any.
EntityErrors(o, propErrs) ==
    IF propErrs # {} THEN propErrs
    ELSE IF KeyErrors(o) # {} THEN KeyErrors(o)
    ELSE IF StampErrors(o) # {} THEN StampErrors(o)
    ELSE IF IndexErrors(o) # {} THEN IndexErrors(o)
    ELSE BackRefErrors(o)

Linked(o) == {p \in Edges(o) : Source(o, p.number).from # None}

\* Mutant: only the edge that declares the back reference is marked.
MarkedUniqueOneEnd(o) ==
    {<<o, d.number>> : d \in Keys(o)} \cup
    {<<o, p.number>> : p \in {q \in Linked(o) : ~Source(o, q.number).repeated /\
                                 ~Source(q.target, Source(o, q.number).from.number).repeated}}

\* The props the staged commits mark unique.
MarkedUnique(o) ==
    {<<o, d.number>> : d \in Keys(o)} \cup
    UNION {{<<o, p.number>>, <<p.target, Source(o, p.number).from.number>>} :
           p \in {q \in Linked(o) : ~Source(o, q.number).repeated /\
                                    ~Source(q.target, Source(o, q.number).from.number).repeated}}

MarkedImmutable(o) == {<<o, d.number>> : d \in Keys(o)}

\* Mutant: both ends of a one-to-one relation are made immutable, not the key alone.
NormalizedImmutable(o, x, p) ==
    [p EXCEPT !.unique = p.unique \/ <<x, p.number>> \in MarkedUnique(o),
              !.immutable = p.immutable \/ <<x, p.number>> \in MarkedUnique(o),
              !.inverse = IF x = o /\ p \in Linked(o) THEN <<p.target, Source(o, p.number).from.number>>
                          ELSE p.inverse]

\* A prop of object x after the entity o is linked and its commits are applied.
Normalized(o, x, p) ==
    [p EXCEPT !.unique = p.unique \/ <<x, p.number>> \in MarkedUnique(o),
              !.immutable = p.immutable \/ <<x, p.number>> \in MarkedImmutable(o),
              !.inverse = IF x = o /\ p \in Linked(o) THEN <<p.target, Source(o, p.number).from.number>>
                          ELSE p.inverse]

\* Mutant: what the options disable is cleared from them, which the next parse takes for absent.
RpcDefaultsClear(r) ==
    IF r.off \/ ~r.crud THEN r
    ELSE [r EXCEPT !.op = [x \in Op |-> IF r.op[x] = "disabled" THEN "absent" ELSE "given"]]

\* parseRpcs: the options it leaves in the descriptor, and the rpcs.
RpcDefaults(r) ==
    IF r.off \/ ~r.crud THEN r
    ELSE [r EXCEPT !.op = [x \in Op |-> IF r.op[x] = "absent" THEN "given" ELSE r.op[x]]]

Rpcs(r) ==
    IF r.off THEN {}
    ELSE {x \in Op : RpcDefaults(r).op[x] = "given"} \cup
         (IF r.many /\ RpcDefaults(r).op["add"] = "given" THEN {"addMany"} ELSE {})

----------------------------------------------------------------------------
Init ==
    /\ schema \in Schema /\ rpcOpts = [m \in Msg |-> desc[m].rpc]
    /\ heap = <<>>
    /\ graph = [m \in Msg |-> 0] /\ staged = [m \in Msg |-> 0]
    /\ file = None /\ pos = 1 /\ errs = {} /\ stack = <<>> /\ calls = 0
    /\ parsed = {}

Top == Last(stack)
Declared == desc[heap[Top.obj].msg].fields      \* the fields of the entity being built
InFields == stack # <<>> /\ Top.next <= Len(Declared)
Current == Declared[Top.next]
AtMessages == file # None /\ stack = <<>>
Message == MessagesOf[file][pos]

\* Mutant: the clone starts empty.
ParseAfresh(f) ==
    /\ file = None /\ calls < MaxParse
    /\ file' = f /\ staged' = [m \in Msg |-> 0] /\ pos' = 1 /\ errs' = {} /\ calls' = calls + 1
    /\ UNCHANGED <<schema, rpcOpts, heap, graph, stack, parsed>>

\* Mutant: messages are counted from 0.
ParseFromZero(f) ==
    /\ file = None /\ calls < MaxParse
    /\ file' = f /\ staged' = graph /\ pos' = 0 /\ errs' = {} /\ calls' = calls + 1
    /\ UNCHANGED <<schema, rpcOpts, heap, graph, stack, parsed>>

\* Parse is called: the graph is cloned.
Parse(f) ==
    /\ file = None /\ calls < MaxParse
    /\ file' = f /\ staged' = graph /\ pos' = 1 /\ errs' = {} /\ calls' = calls + 1
    /\ UNCHANGED <<schema, rpcOpts, heap, graph, stack, parsed>>

\* parseEntity of an entity that is there already, or of a message that is none.
PassMessage ==
    /\ AtMessages /\ pos <= Len(MessagesOf[file])
    /\ staged[Message] # 0 \/ ~desc[Message].entity
    /\ pos' = pos + 1
    /\ UNCHANGED <<schema, rpcOpts, heap, graph, staged, file, errs, stack, calls, parsed>>

\* Mutant: the entity is declared only once it is complete.
DeclareLate(m) ==
    LET o == Len(heap) + 1
    IN  /\ heap' = Append(heap, [msg |-> m, props |-> <<>>, key |-> 0, indexes |-> <<>>, rpcs |-> {}])
        /\ stack' = Append(stack, [obj |-> o, next |-> 1, errs |-> {}])
        /\ UNCHANGED <<schema, rpcOpts, staged, graph, file, pos, errs, calls, parsed>>

\* parseEntity begins: the entity is declared before its props are parsed.
Declare(m) ==
    LET o == Len(heap) + 1
    IN  /\ heap' = Append(heap, [msg |-> m, props |-> <<>>, key |-> 0, indexes |-> <<>>, rpcs |-> {}])
        /\ staged' = [staged EXCEPT ![m] = o]
        /\ stack' = Append(stack, [obj |-> o, next |-> 1, errs |-> {}])
        /\ UNCHANGED <<schema, rpcOpts, graph, file, pos, errs, calls, parsed>>

EnterMessage ==
    /\ AtMessages /\ pos <= Len(MessagesOf[file])
    /\ staged[Message] = 0 /\ desc[Message].entity
    /\ Declare(Message)

Parsable == Current.decl # "both" /\ ~Current.disabled
Targeted == ~IsField(Current) /\ Current.message # None

\* The target of an edge is not there yet: it is parsed first.
EnterTarget ==
    /\ InFields /\ Parsable /\ Targeted
    /\ staged[Current.message] = 0 /\ desc[Current.message].entity
    /\ Declare(Current.message)

\* The caller of the innermost parseProp goes on, with the errors it got.
Advanced(s, E) == [s EXCEPT ![Len(s)] = [obj |-> @.obj, next |-> @.next + 1, errs |-> @.errs \cup E]]

SkipField ==
    /\ InFields /\ Current.decl # "both" /\ Current.disabled
    /\ stack' = Advanced(stack, {})
    /\ UNCHANGED <<schema, rpcOpts, heap, graph, staged, file, pos, errs, calls, parsed>>

RefuseField ==
    /\ InFields /\ (Parsable \/ Current.decl = "both") /\ PropError(Current) # "ok"
    /\ stack' = Advanced(stack, {Error(Top.obj, Current.number, PropError(Current))})
    /\ UNCHANGED <<schema, rpcOpts, heap, graph, staged, file, pos, errs, calls, parsed>>

AddProp ==
    /\ InFields /\ Parsable /\ PropError(Current) = "ok"
    /\ Targeted => staged[Current.message] # 0
    /\ heap' = [heap EXCEPT ![Top.obj].props = Append(@, NewProp(Current))]
    /\ stack' = Advanced(stack, {})
    /\ UNCHANGED <<schema, rpcOpts, graph, staged, file, pos, errs, calls, parsed>>

Leaving == stack # <<>> /\ Top.next > Len(Declared)

\* Mutant: the declaration stays.
AbandonKeeps ==
    LET E == EntityErrors(Top.obj, Top.errs)
    IN  /\ Leaving /\ E # {}
        /\ IF Len(stack) = 1
           THEN stack' = <<>> /\ pos' = pos + 1 /\ errs' = errs \cup E
           ELSE stack' = Advanced(Front(stack), E) /\ UNCHANGED <<pos, errs>>
        /\ UNCHANGED <<schema, rpcOpts, heap, graph, staged, file, calls, parsed>>

\* parseEntity returns an error: the declaration is withdrawn.
Abandon ==
    LET E == EntityErrors(Top.obj, Top.errs)
    IN  /\ Leaving /\ E # {}
        /\ staged' = [staged EXCEPT ![heap[Top.obj].msg] = 0]
        /\ IF Len(stack) = 1
           THEN stack' = <<>> /\ pos' = pos + 1 /\ errs' = errs \cup E
           ELSE stack' = Advanced(Front(stack), E) /\ UNCHANGED <<pos, errs>>
        /\ UNCHANGED <<schema, rpcOpts, heap, graph, file, calls, parsed>>

\* parseEntity returns the entity: edges are linked, rpcs made, commits applied.
Complete ==
    LET o == Top.obj
        m == heap[o].msg
        Props(x) == [k \in DOMAIN heap[x].props |-> Normalized(o, x, heap[x].props[k])]
    IN  /\ Leaving /\ EntityErrors(o, Top.errs) = {}
        /\ heap' = [x \in DOMAIN heap |->
               IF x # o THEN [heap[x] EXCEPT !.props = Props(x)]
               ELSE [msg |-> m, props |-> Props(o), key |-> (CHOOSE d \in Keys(o) : TRUE).number,
                     indexes |-> [k \in DOMAIN desc[m].indexes |->
                         [j \in DOMAIN desc[m].indexes[k].refs |-> desc[m].indexes[k].refs[j].number]],
                     rpcs |-> Rpcs(rpcOpts[m])]]
        /\ rpcOpts' = [rpcOpts EXCEPT ![m] = RpcDefaults(@)]
        /\ stack' = Front(stack)
        /\ pos' = IF Len(stack) = 1 THEN pos + 1 ELSE pos
        /\ UNCHANGED <<schema, graph, staged, file, errs, calls, parsed>>

\* Mutant: what could be parsed is merged although there are errors.
ReturnMerges ==
    /\ AtMessages /\ pos > Len(MessagesOf[file])
    /\ file' = None
    /\ graph' = [m \in Msg |-> IF staged[m] # 0 THEN staged[m] ELSE graph[m]]
    /\ parsed' = IF errs = {} THEN parsed \cup {file} ELSE parsed
    /\ UNCHANGED <<schema, rpcOpts, heap, staged, pos, errs, stack, calls>>

\* Parse returns: the clone is merged into the graph if there is no error.
Return ==
    /\ AtMessages /\ pos > Len(MessagesOf[file])
    /\ file' = None
    /\ graph' = IF errs = {} THEN [m \in Msg |-> IF staged[m] # 0 THEN staged[m] ELSE graph[m]] ELSE graph
    /\ parsed' = IF errs = {} THEN parsed \cup {file} ELSE parsed
    /\ UNCHANGED <<schema, rpcOpts, heap, staged, pos, errs, stack, calls>>

Next ==
    \/ \E f \in File : Parse(f)
    \/ PassMessage
    \/ EnterMessage
    \/ EnterTarget
    \/ SkipField
    \/ RefuseField
    \/ AddProp
    \/ Abandon
    \/ Complete
    \/ Return

Spec == Init /\ [][Next]_vars

----------------------------------------------------------------------------
\* Properties.

\* Every variable has its type; a call on the stack builds an object of the heap.
TypeOK ==
    /\ schema \in Schema /\ rpcOpts \in [Msg -> RpcDesc]
    /\ heap \in Seq(Entity)
    /\ graph \in [Msg -> 0..Len(heap)] /\ staged \in [Msg -> 0..Len(heap)]
    /\ file \in File \cup {None} /\ parsed \subseteq File
    /\ pos \in Nat \ {0} /\ calls \in 0..MaxParse
    /\ \A e \in errs : e.msg \in Msg /\ e.at \in Number \cup {0}
    /\ \A k \in DOMAIN stack : stack[k].obj \in 1..Len(heap) /\ stack[k].next \in Nat \ {0}

InGraph == {graph[m] : m \in Msg} \ {0}
OnStack == {stack[k].obj : k \in DOMAIN stack}
FileOk(f) == errs = {} /\ \A k \in DOMAIN stack : stack[k].errs = {}

\* The caller's graph is closed: it has, under its name, the very object every edge of an entity
\* in it points to, and the inverse of an edge is an edge of that object.  parseEntity links to
\* forward declarations, which Abandon withdraws and only Return keeps out of the graph.
GraphClosed ==
    \A o \in InGraph :
        /\ graph[heap[o].msg] = o /\ heap[o].key # 0
        /\ \A p \in Edges(o) :
              /\ p.target \in InGraph
              /\ p.inverse # NoInverse =>
                    p.inverse[1] = p.target /\ \E q \in Edges(p.target) : q.number = p.inverse[2]

\* What is staged is either still being built or complete, and refers to a withdrawn declaration
\* only when an error is pending that keeps it out of the graph.
StagedComplete ==
    file # None => \A m \in Msg : staged[m] # 0 =>
        LET o == staged[m]
        IN  /\ heap[o].msg = m
            /\ o \in OnStack \/ heap[o].key # 0
            /\ FileOk(file) => \A p \in Edges(o) : staged[heap[p.target].msg] = p.target

\* parseEntity is never entered for an entity that is being built: cyclic edges end the recursion.
NoReentry == \A j, k \in DOMAIN stack : heap[stack[j].obj].msg = heap[stack[k].obj].msg => j = k

\* A file some Parse accepted has all its entities in the graph, and parsing it again finds no
\* error and stages nothing new.
ReparseFindsAll ==
    \A f \in parsed :
        /\ \A m \in ToSet(MessagesOf[f]) : desc[m].entity => graph[m] # 0
        /\ file = f => errs = {} /\ staged = graph

\* The key of an entity in the graph is unique and immutable.  The version field is neither, so it
\* appears in a PatchRequest, which leaves immutable props out, and its lock cannot vanish; only
\* the optional keyword makes it nullable.  The erased field is neither either, and it is nullable,
\* for being null is how it says that the row is still there, unless it is declared repeated.
KeyAndStamps ==
    \A o \in InGraph : \A p \in ToSet(heap[o].props) \ Edges(o) :
        LET d == Source(o, p.number)
        IN  /\ p.number = heap[o].key => p.unique /\ p.immutable
            /\ d.version => ~p.unique /\ ~p.immutable /\ (IsNullable(o, p) => d.optional)
            /\ d.erased => ~p.unique /\ ~p.immutable /\ (IsNullable(o, p) \/ d.repeated)

\* An edge and its back reference, both singular, are a one-to-one relation: both are unique.
OneToOne ==
    \A o \in InGraph : \A p \in Edges(o) :
        (p.inverse # NoInverse /\ ~Source(o, p.number).repeated
           /\ ~Source(p.target, p.inverse[2]).repeated)
        => p.unique /\ PropOf(p.target, p.inverse[2]).unique

\* The rpcs of an entity are the ones its options ask for, however often it was built before: a
\* parse that failed has written its defaults into the options the next one reads.
RpcsAsDeclared ==
    \A o \in InGraph :
        LET r == desc[heap[o].msg].rpc
        IN  /\ r.off => heap[o].rpcs = {}
            /\ ~r.off => \A x \in Op : x \in heap[o].rpcs <=> r.op[x] = "given" \/ (r.crud /\ r.op[x] = "absent")
            /\ ~r.off => ("addMany" \in heap[o].rpcs <=> r.many /\ "add" \in heap[o].rpcs)

----------------------------------------------------------------------------
\* The graph as its callers see it: by name, an entity but for what is unique, the names it refers
\* to, and what is unique.

\* An entity is not taken for the absence of one.
ASSUME NoneAssumption == None \notin Nat \X Entity

AnyUnique(o) ==
    [heap[o] EXCEPT !.props = [k \in DOMAIN heap[o].props |-> [heap[o].props[k] EXCEPT !.unique = FALSE]]]

ShapeOf(m) == IF graph[m] = 0 THEN None ELSE <<graph[m], AnyUnique(graph[m])>>
RefersTo(m) == IF graph[m] = 0 THEN {} ELSE {heap[p.target].msg : p \in Edges(graph[m])}
UniqueIn(m) == IF graph[m] = 0 THEN {} ELSE {p.number : p \in {q \in ToSet(heap[graph[m]].props) : q.unique}}

Registry == INSTANCE SchemaRegistry WITH
    accepted <- parsed,
    shape <- [m \in Msg |-> ShapeOf(m)],
    refers <- [m \in Msg |-> RefersTo(m)],
    unique <- [m \in Msg |-> UniqueIn(m)]

\* The parser, with its clone, its stack and its withdrawn declarations, implements the registry: a
\* file is in the graph entirely or not at all, whatever was built for it in the meantime, and an
\* entity that is in it is never replaced and loses nothing (Parse, Clone and InPlaceMerge).
GraphIsRegistry == Registry!Spec
=============================================================================
