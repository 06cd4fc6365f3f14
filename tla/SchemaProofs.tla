------------------------------ MODULE SchemaProofs ------------------------------
(***************************************************************************)
(* Theorems of SchemaParse, for every set of files, every schema and any   *)
(* number of calls of Parse.                                               *)
(***************************************************************************)
EXTENDS SchemaParse, FiniteSetTheorems, SequenceTheorems, TLAPS

------------------------------------------------------------------------------
(* The inductive invariant.  The properties speak of the graph, which only *)
(* Return changes; the invariant says of the objects, the staged entities  *)
(* and the calls under way what makes Return safe.                         *)

\* What the checks answer.
VersionAnswer == {"ok", "version is key", "version is unique, nullable or immutable", "version is no time"}
ErasedAnswer ==
    {"ok", "erased is key", "erased is unique or immutable", "erased is version", "erased is no time",
     "erased is not nullable"}
PropAnswer ==
    VersionAnswer \cup ErasedAnswer \cup
    {"field is message", "field and edge", "edge to no message", "edge to no entity", "repeated edge is unique"}
BackRefAnswer ==
    {"ok", "no back reference", "back reference is named otherwise", "back reference is no edge",
     "back reference is unique"}

\* An error of parseEntity.
ErrorRec ==
    [msg : Msg, at : Number \cup {0},
     why : PropAnswer \cup BackRefAnswer \cup {"key", "several stamps", "index"}]

\* A call of parseEntity that has not returned.
Frame == [obj : Nat \ {0}, next : Nat \ {0}, errs : SUBSET ErrorRec]

\* The types, with those of the calls.
TypeInv == TypeOK /\ errs \subseteq ErrorRec /\ stack \in Seq(Frame)

\* The fields of the message an object is of.
FieldsOf(o) == desc[heap[o].msg].fields

\* Prop p is made of field d, which passed its checks.
Made(p, d) ==
    /\ p.number = d.number /\ p.edge = ~IsField(d)
    /\ p.edge => d.message \in Msg /\ p.target \in DOMAIN heap /\ heap[p.target].msg = d.message
    /\ ~p.edge => /\ FieldError(d) = "ok" /\ p.nullable = (d.nullable = "yes" \/ d.erased)
                  /\ d.version \/ d.erased => ~p.unique /\ ~p.immutable

\* Every prop of every object built so far is made of a field of its own.
PropsMade ==
    \A o \in DOMAIN heap : LET ps == heap[o].props IN
        /\ \A i, j \in DOMAIN ps : ps[i].number = ps[j].number => i = j
        /\ \A i \in DOMAIN ps : \E d \in ToSet(FieldsOf(o)) : Made(ps[i], d)

\* An inverse is an edge of the target; two singular ends are both unique.
InverseHeld ==
    \A o \in DOMAIN heap : \A p \in Edges(o) : p.inverse # NoInverse =>
        /\ p.inverse[1] = p.target
        /\ \E q \in Edges(p.target) :
              /\ q.number = p.inverse[2]
              /\ (~Source(o, p.number).repeated /\ ~Source(p.target, q.number).repeated) => p.unique /\ q.unique

\* A complete object has its key and its rpcs.
KeyHeld ==
    \A o \in DOMAIN heap : heap[o].key # 0 =>
        /\ \A p \in ToSet(heap[o].props) \ Edges(o) : p.number = heap[o].key => p.unique /\ p.immutable
        /\ heap[o].rpcs = Rpcs(desc[heap[o].msg].rpc)

\* Reading the rpc options twice is reading them once.
RpcHeld == \A m \in Msg : rpcOpts[m] \in {desc[m].rpc, RpcDefaults(desc[m].rpc)}

\* What is being built is staged, is not complete, and has props of the fields
\* that were read.
CallsHeld ==
    /\ file = None => stack = <<>>
    /\ stack # <<>> => pos <= Len(MessagesOf[file]) /\ heap[stack[1].obj].msg = Message
    /\ \A k \in DOMAIN stack : LET o == stack[k].obj IN
        /\ o \in DOMAIN heap /\ heap[o].key = 0 /\ staged[heap[o].msg] = o
        /\ \A i \in DOMAIN heap[o].props : \E j \in 1..(stack[k].next - 1) :
                FieldsOf(o)[j].number = heap[o].props[i].number

\* What is staged extends the graph, and has the entities of the messages that were passed.
StagedHeld ==
    file # None =>
        /\ \A m \in Msg : graph[m] # 0 => staged[m] = graph[m]
        /\ FileOk(file) => \A i \in DOMAIN MessagesOf[file] :
               (i < pos /\ desc[MessagesOf[file][i]].entity) => staged[MessagesOf[file][i]] # 0

\* The graph has complete entities only, under their names, and what they refer to.
GraphHeld ==
    \A m \in Msg : graph[m] # 0 =>
        /\ heap[graph[m]].msg = m /\ heap[graph[m]].key # 0
        /\ \A p \in Edges(graph[m]) : graph[heap[p.target].msg] = p.target

\* A file that was accepted builds nothing when it is parsed again.
ReparseHeld == ReparseFindsAll /\ (file \in parsed => stack = <<>>)

\* The inductive invariant.
SchemaInv ==
    /\ TypeInv /\ PropsMade /\ InverseHeld /\ KeyHeld /\ RpcHeld
    /\ CallsHeld /\ NoReentry /\ StagedHeld /\ StagedComplete /\ GraphHeld /\ ReparseHeld

------------------------------------------------------------------------------
(* What is declared.                                                       *)

\* The descriptors have their types.
LEMMA DescTyped ==
    ASSUME schema \in Schema, NEW m \in Msg
    PROVE  /\ desc[m] \in MessageDesc /\ desc[m].fields \in Seq(FieldDesc)
           /\ desc[m].indexes \in Seq(IndexDesc) /\ desc[m].rpc \in RpcDesc
BY ParseAssumption DEF desc, MessageDesc

\* So has every field of a message.
LEMMA FieldTyped ==
    ASSUME schema \in Schema, NEW m \in Msg, NEW d \in ToSet(desc[m].fields)
    PROVE  /\ d \in FieldDesc /\ d.number \in Number /\ d.number # 0
           /\ d.message \in Msg \cup {None}
           /\ d.from # None => d.from.number \in Number
           /\ \E j \in 1..Len(desc[m].fields) : d = desc[m].fields[j]
<1>1. d \in FieldDesc /\ \E j \in 1..Len(desc[m].fields) : d = desc[m].fields[j]
  BY DescTyped DEF ToSet
<1> QED BY <1>1, ParseAssumption DEF FieldDesc, Ref

\* A field of a message is known by its number.
LEMMA FieldUnique ==
    ASSUME schema \in Schema, NEW m \in Msg, NEW c \in ToSet(desc[m].fields),
           NEW d \in ToSet(desc[m].fields), c.number = d.number
    PROVE  c = d
BY ParseAssumption DEF desc, ToSet

\* What the options of a field say of each other.
LEMMA FieldOptions ==
    ASSUME schema \in Schema, NEW m \in Msg, NEW d \in ToSet(desc[m].fields)
    PROVE  /\ d.decl # "field" => ~d.key /\ ~d.version /\ ~d.erased
           /\ d.decl # "edge" => d.from = None
BY ParseAssumption DEF desc

\* The objects have their types.
LEMMA ObjectTyped ==
    ASSUME TypeOK, NEW o \in DOMAIN heap
    PROVE  /\ o \in 1..Len(heap) /\ heap[o] \in Entity /\ heap[o].msg \in Msg
           /\ heap[o].props \in Seq(Prop) /\ heap[o].key \in Number \cup {0}
           /\ FieldsOf(o) \in Seq(FieldDesc)
           /\ \A p \in ToSet(heap[o].props) : \E i \in DOMAIN heap[o].props : p = heap[o].props[i]
           /\ \A i \in DOMAIN heap[o].props : heap[o].props[i] \in ToSet(heap[o].props)
<1>1. o \in 1..Len(heap) /\ heap[o] \in Entity
  BY DEF TypeOK
<1>2. heap[o].msg \in Msg /\ heap[o].props \in Seq(Prop) /\ heap[o].key \in Number \cup {0}
  BY <1>1 DEF Entity
<1> QED BY <1>1, <1>2, DescTyped DEF TypeOK, FieldsOf, ToSet

\* A prop's fields are what they are.
LEMMA PropTyped ==
    ASSUME NEW p \in Prop
    PROVE  /\ p.number \in Number /\ p.edge \in BOOLEAN /\ p.unique \in BOOLEAN /\ p.nullable \in BOOLEAN
           /\ p.immutable \in BOOLEAN /\ p.target \in Nat
           /\ p.inverse[1] \in Nat /\ p.inverse[2] \in Number \cup {0}
BY DEF Prop

\* The field a prop is made of is the one Source finds.
LEMMA SourceIs ==
    ASSUME TypeOK, PropsMade, NEW o \in DOMAIN heap, NEW p \in ToSet(heap[o].props)
    PROVE  /\ Source(o, p.number) \in ToSet(FieldsOf(o))
           /\ Source(o, p.number) \in FieldDesc
           /\ Made(p, Source(o, p.number))
           /\ p \in Prop
<1>1. PICK i \in DOMAIN heap[o].props : p = heap[o].props[i]
  BY ObjectTyped
<1>2. PICK d \in ToSet(FieldsOf(o)) : Made(p, d)
  BY <1>1 DEF PropsMade
<1>3. d.number = p.number
  BY <1>2 DEF Made
<1>4. heap[o].msg \in Msg /\ schema \in Schema
  BY ObjectTyped DEF TypeOK
<1>5. \A c \in ToSet(FieldsOf(o)) : c.number = p.number => c = d
  BY <1>3, <1>4, FieldUnique DEF FieldsOf
<1>6. Source(o, p.number) = d
  BY <1>3, <1>5 DEF Source, FieldsOf
<1>7. d \in FieldDesc
  BY <1>4, FieldTyped DEF FieldsOf
<1>8. p \in Prop
  BY <1>1, ObjectTyped
<1> QED BY <1>2, <1>6, <1>7, <1>8

\* A prop of an object is known by its number.
LEMMA PropUnique ==
    ASSUME TypeOK, PropsMade, NEW o \in DOMAIN heap, NEW p \in ToSet(heap[o].props),
           NEW q \in ToSet(heap[o].props), p.number = q.number
    PROVE  p = q
<1>1. PICK i \in DOMAIN heap[o].props : p = heap[o].props[i]
  BY ObjectTyped
<1>2. PICK j \in DOMAIN heap[o].props : q = heap[o].props[j]
  BY ObjectTyped
<1> QED BY <1>1, <1>2 DEF PropsMade

\* An edge points to an object, of the message its field holds.
LEMMA EdgeIs ==
    ASSUME TypeOK, PropsMade, NEW o \in DOMAIN heap, NEW p \in Edges(o)
    PROVE  /\ p \in ToSet(heap[o].props) /\ p.edge /\ p \in Prop /\ p.number \in Number
           /\ p.target \in DOMAIN heap /\ heap[p.target].msg \in Msg
           /\ Source(o, p.number) \in ToSet(FieldsOf(o))
           /\ heap[p.target].msg = Source(o, p.number).message
<1>1. p \in ToSet(heap[o].props) /\ p.edge
  BY DEF Edges
<1>2. Made(p, Source(o, p.number)) /\ p \in Prop /\ Source(o, p.number) \in ToSet(FieldsOf(o))
  BY <1>1, SourceIs
<1>3. p.target \in DOMAIN heap /\ heap[p.target].msg = Source(o, p.number).message
  BY <1>1, <1>2 DEF Made
<1>4. heap[p.target].msg \in Msg
  BY <1>3, ObjectTyped
<1> QED BY <1>1, <1>2, <1>3, <1>4, PropTyped

------------------------------------------------------------------------------
(* The calls of parseEntity.                                               *)

\* The innermost call.
LEMMA TopTyped ==
    ASSUME TypeInv, stack # <<>>
    PROVE  /\ Len(stack) \in DOMAIN stack /\ Top = stack[Len(stack)] /\ Top \in Frame
           /\ Len(stack) \in Nat \ {0} /\ DOMAIN stack = 1..Len(stack)
           /\ Top.obj \in DOMAIN heap /\ Top.next \in Nat \ {0} /\ Top.errs \subseteq ErrorRec
           /\ Declared = FieldsOf(Top.obj)
<1>1. stack \in Seq(Frame)
  BY DEF TypeInv
<1>2. Len(stack) \in DOMAIN stack /\ Top = stack[Len(stack)] /\ Len(stack) \in Nat \ {0}
  BY <1>1 DEF Top, Last
<1>3. Top \in Frame
  BY <1>1, <1>2
<1>4. Top.obj \in DOMAIN heap
  BY <1>2 DEF TypeInv, TypeOK
<1>5. DOMAIN stack = 1..Len(stack)
  BY <1>1
<1> QED BY <1>2, <1>3, <1>4, <1>5 DEF Frame, Declared, FieldsOf

\* The field it is at.
LEMMA CurrentTyped ==
    ASSUME TypeInv, InFields
    PROVE  /\ Current \in ToSet(FieldsOf(Top.obj)) /\ Current \in FieldDesc
           /\ Top.next \in DOMAIN FieldsOf(Top.obj) /\ Current = FieldsOf(Top.obj)[Top.next]
           /\ Current.number \in Number /\ Current.message \in Msg \cup {None}
<1>1. stack # <<>> /\ Top.next <= Len(Declared)
  BY DEF InFields
<1>2. Top.obj \in DOMAIN heap /\ Top.next \in Nat \ {0} /\ Declared = FieldsOf(Top.obj) /\ TypeOK
  BY <1>1, TopTyped DEF TypeInv
<1>3. FieldsOf(Top.obj) \in Seq(FieldDesc)
  BY <1>2, ObjectTyped
<1>4. Top.next \in DOMAIN FieldsOf(Top.obj) /\ Current = FieldsOf(Top.obj)[Top.next]
  BY <1>1, <1>2, <1>3 DEF Current
<1>5. heap[Top.obj].msg \in Msg /\ schema \in Schema
  BY <1>2, ObjectTyped DEF TypeOK
<1>6. Current \in ToSet(FieldsOf(Top.obj))
  BY <1>4 DEF ToSet
<1> QED BY <1>4, <1>5, <1>6, FieldTyped DEF FieldsOf

\* The errors of a call are added to its caller's, whose next field is the next.
LEMMA AdvancedIs ==
    ASSUME NEW s \in Seq(Frame), s # <<>>, NEW E \in SUBSET ErrorRec
    PROVE  /\ Advanced(s, E) \in Seq(Frame) /\ Len(Advanced(s, E)) = Len(s)
           /\ \A k \in 1..Len(s) :
                 /\ Advanced(s, E)[k].obj = s[k].obj
                 /\ Advanced(s, E)[k].next = IF k = Len(s) THEN s[k].next + 1 ELSE s[k].next
                 /\ Advanced(s, E)[k].errs = IF k = Len(s) THEN s[k].errs \cup E ELSE s[k].errs
<1> DEFINE n == Len(s)
           f == [obj |-> s[n].obj, next |-> s[n].next + 1, errs |-> s[n].errs \cup E]
<1>1. n \in 1..Len(s) /\ s[n] \in Frame
  OBVIOUS
<1>2. f \in Frame /\ f.obj = s[n].obj /\ f.next = s[n].next + 1 /\ f.errs = s[n].errs \cup E
  BY <1>1 DEF Frame
<1>3. Advanced(s, E) = [s EXCEPT ![n] = f]
  BY Zenon DEF Advanced
<1> HIDE DEF f
<1> DEFINE t == [s EXCEPT ![n] = f]
<1>4. t \in Seq(Frame) /\ Len(t) = Len(s)
  BY <1>1, <1>2
<1>5. \A k \in 1..Len(s) : t[k] = IF k = n THEN f ELSE s[k]
  BY <1>1, <1>2
<1> HIDE DEF t
<1>6. Advanced(s, E) = t
  BY <1>3 DEF t
<1> QED BY <1>2, <1>4, <1>5, <1>6

\* What is left of the stack when its innermost call returns.
LEMMA FrontIs ==
    ASSUME NEW s \in Seq(Frame), s # <<>>
    PROVE  /\ Front(s) \in Seq(Frame) /\ Len(Front(s)) = Len(s) - 1
           /\ \A k \in 1..(Len(s) - 1) : Front(s)[k] = s[k]
           /\ Front(s) = <<>> <=> Len(s) = 1
<1> DEFINE n == Len(s) - 1
           f == SubSeq(s, 1, n)
<1>1. 1 \in Int /\ n \in Nat /\ \A k \in 1..n : s[k] \in Frame
  OBVIOUS
<1> HIDE DEF n
<1>2. /\ f \in Seq(Frame)
      /\ Len(f) = IF 1 <= n THEN n - 1 + 1 ELSE 0
      /\ \A k \in 1..(n - 1 + 1) : f[k] = s[1 + k - 1]
  BY <1>1, SubSeqProperties
<1>3. f = <<>> <=> Len(f) = 0
  BY <1>2, EmptySeq
<1>4. Front(s) = f
  BY DEF Front, n
<1> HIDE DEF f
<1>5. Len(f) = n /\ \A k \in 1..n : f[k] = s[k]
  BY <1>1, <1>2
<1> QED BY <1>1, <1>2, <1>3, <1>4, <1>5 DEF n

\* What a call that goes on leaves on the stack.
LEMMA AdvanceTop ==
    ASSUME TypeInv, stack # <<>>, NEW E \in SUBSET ErrorRec, stack' = Advanced(stack, E)
    PROVE  /\ stack' \in Seq(Frame) /\ Len(stack') = Len(stack) /\ DOMAIN stack' = DOMAIN stack
           /\ \A k \in DOMAIN stack :
                 /\ stack'[k].obj = stack[k].obj
                 /\ stack'[k].next = IF k = Len(stack) THEN stack[k].next + 1 ELSE stack[k].next
                 /\ stack'[k].errs = IF k = Len(stack) THEN stack[k].errs \cup E ELSE stack[k].errs
<1>1. stack \in Seq(Frame) /\ DOMAIN stack = 1..Len(stack)
  BY DEF TypeInv
<1>2. stack' \in Seq(Frame) /\ Len(stack') = Len(stack)
  BY <1>1, AdvancedIs
<1>3. DOMAIN stack' = DOMAIN stack
  BY <1>1, <1>2
<1>4. \A k \in 1..Len(stack) :
          /\ stack'[k].obj = stack[k].obj
          /\ stack'[k].next = IF k = Len(stack) THEN stack[k].next + 1 ELSE stack[k].next
          /\ stack'[k].errs = IF k = Len(stack) THEN stack[k].errs \cup E ELSE stack[k].errs
  BY <1>1, AdvancedIs, Zenon
<1> QED BY <1>1, <1>2, <1>3, <1>4

\* What is still being built is not in the graph, and has no object twice.
LEMMA OnStackIs ==
    ASSUME TypeInv, CallsHeld, NoReentry, NEW k \in DOMAIN stack
    PROVE  /\ stack[k].obj \in DOMAIN heap /\ heap[stack[k].obj].key = 0
           /\ stack[k].obj # 0 /\ stack[k].obj \in 1..Len(heap)
           /\ staged[heap[stack[k].obj].msg] = stack[k].obj
           /\ heap[stack[k].obj].msg \in Msg
           /\ \A j \in DOMAIN stack : j # k => heap[stack[j].obj].msg # heap[stack[k].obj].msg
                                                /\ stack[j].obj # stack[k].obj
<1>1. /\ stack[k].obj \in DOMAIN heap /\ heap[stack[k].obj].key = 0
      /\ staged[heap[stack[k].obj].msg] = stack[k].obj
  BY DEF CallsHeld
<1>2. TypeOK
  BY DEF TypeInv
<1>3. stack[k].obj \in 1..Len(heap)
  BY <1>1, <1>2, ObjectTyped
<1>4. \A j \in DOMAIN stack : j # k => heap[stack[j].obj].msg # heap[stack[k].obj].msg
  BY DEF NoReentry
<1>5. heap[stack[k].obj].msg \in Msg
  BY <1>1, <1>2, ObjectTyped
<1> QED BY <1>1, <1>3, <1>4, <1>5

------------------------------------------------------------------------------
(* The errors.                                                             *)

\* What the checks of a field or an edge answer.
LEMMA PropErrorTyped ==
    ASSUME NEW d \in FieldDesc
    PROVE  PropError(d) \in PropAnswer
<1>1. VersionError(d) \in VersionAnswer
  BY DEF VersionError, VersionAnswer
<1>2. ErasedError(d) \in ErasedAnswer
  BY DEF ErasedError, ErasedAnswer
<1>3. FieldError(d) \in VersionAnswer \cup ErasedAnswer \cup {"field is message"}
  BY <1>1, <1>2 DEF FieldError, VersionAnswer
<1>4. "ok" \in VersionAnswer
  BY DEF VersionAnswer
<1>5. EdgeError(d) \in {"ok", "edge to no message", "edge to no entity", "repeated edge is unique"}
  BY DEF EdgeError
<1>6. d.decl \in {"none", "field", "edge", "both"}
  BY DEF FieldDesc
<1> QED BY <1>3, <1>4, <1>5, <1>6 DEF PropError, PropAnswer, IsField

\* What it means for a field to pass.
LEMMA FieldPasses ==
    ASSUME NEW d, FieldError(d) = "ok"
    PROVE  /\ d.version => ~d.key /\ d.unique # "yes" /\ d.nullable # "yes" /\ d.immutable # "yes" /\ d.type = "time"
           /\ d.erased => ~d.key /\ ~d.version /\ d.unique # "yes" /\ d.immutable # "yes" /\ d.type = "time"
<1>1. VersionError(d) = "ok" /\ ErasedError(d) = "ok"
  BY DEF FieldError
<1>2. d.version => ~d.key /\ d.unique # "yes" /\ d.nullable # "yes" /\ d.immutable # "yes" /\ d.type = "time"
  BY <1>1 DEF VersionError
<1>3. d.erased => ~d.key /\ ~d.version /\ d.unique # "yes" /\ d.immutable # "yes" /\ d.type = "time"
  BY <1>1 DEF ErasedError
<1> QED BY <1>2, <1>3

\* What it means for a field or an edge to become a prop.
LEMMA PropPasses ==
    ASSUME NEW d \in FieldDesc, PropError(d) = "ok"
    PROVE  /\ IsField(d) => FieldError(d) = "ok"
           /\ ~IsField(d) => d.message # None
<1>1. d.decl \in {"none", "field", "edge", "both"}
  BY DEF FieldDesc
<1>2. d.decl # "both"
  BY <1>1 DEF PropError, IsField
<1> QED BY <1>1, <1>2 DEF PropError, IsField, EdgeError

\* An error is a record of its type.
LEMMA ErrorTyped ==
    ASSUME TypeOK, NEW o \in DOMAIN heap, NEW n \in Number \cup {0}, 
           NEW why \in PropAnswer \cup BackRefAnswer \cup {"key", "several stamps", "index"}
    PROVE  Error(o, n, why) \in ErrorRec
BY ObjectTyped DEF Error, ErrorRec

\* An entity answers no error exactly if no check has any.
LEMMA NoErrors ==
    ASSUME NEW o, NEW E, EntityErrors(o, E) = {}
    PROVE  E = {} /\ KeyErrors(o) = {} /\ StampErrors(o) = {} /\ IndexErrors(o) = {} /\ BackRefErrors(o) = {}
BY DEF EntityErrors

\* The errors of an entity are records of their type.
LEMMA ErrorsTyped ==
    ASSUME TypeOK, PropsMade, NEW o \in DOMAIN heap, NEW E \in SUBSET ErrorRec
    PROVE  EntityErrors(o, E) \subseteq ErrorRec
<1>1. KeyErrors(o) \subseteq ErrorRec
  BY ErrorTyped DEF KeyErrors
<1>2. StampErrors(o) \subseteq ErrorRec
  BY ErrorTyped DEF StampErrors
<1>3. IndexErrors(o) \subseteq ErrorRec
  BY ErrorTyped DEF IndexErrors
<1>4. BackRefErrors(o) \subseteq ErrorRec
  <2>1. \A p \in Edges(o) : BackRefError(o, p) \in BackRefAnswer
    BY DEF BackRefError, BackRefAnswer
  <2>2. \A p \in Edges(o) : p.number \in Number
    BY SourceIs, PropTyped DEF Edges
  <2> QED BY <2>1, <2>2, ErrorTyped DEF BackRefErrors
<1> QED BY <1>1, <1>2, <1>3, <1>4 DEF EntityErrors

------------------------------------------------------------------------------
(* The initial states.                                                     *)

\* The invariant holds before anything is parsed.
LEMMA InitHolds == Init => SchemaInv
<1> SUFFICES ASSUME Init PROVE SchemaInv
  OBVIOUS
<1> USE DEF Init
<1>1. heap \in Seq(Entity) /\ Len(heap) = 0 /\ DOMAIN heap = {}
  OBVIOUS
<1>2. stack \in Seq(Frame) /\ DOMAIN stack = {}
  OBVIOUS
<1>3. rpcOpts \in [Msg -> RpcDesc]
  BY DescTyped
<1>4. MaxParse \in Nat /\ None \notin File
  BY ParseAssumption
<1>5. TypeOK
  BY <1>1, <1>2, <1>3, <1>4 DEF TypeOK
<1>6. TypeInv
  BY <1>2, <1>5 DEF TypeInv
<1>7. PropsMade /\ InverseHeld /\ KeyHeld
  BY <1>1 DEF PropsMade, InverseHeld, KeyHeld
<1>8. RpcHeld
  BY DEF RpcHeld
<1>9. CallsHeld /\ NoReentry
  BY <1>2 DEF CallsHeld, NoReentry
<1>10. StagedHeld /\ StagedComplete
  BY DEF StagedHeld, StagedComplete
<1>11. \A m \in Msg : graph[m] = 0
  OBVIOUS
<1>12. GraphHeld
  BY <1>11 DEF GraphHeld
<1>13. ReparseHeld
  BY DEF ReparseHeld, ReparseFindsAll
<1> QED BY <1>6, <1>7, <1>8, <1>9, <1>10, <1>12, <1>13 DEF SchemaInv

------------------------------------------------------------------------------
(* What the steps have in common.                                          *)

\* The types of what a step sets make the types of the next state.
LEMMA TypeNext ==
    ASSUME schema' \in Schema, rpcOpts' \in [Msg -> RpcDesc], heap' \in Seq(Entity),
           graph' \in [Msg -> 0..Len(heap')], staged' \in [Msg -> 0..Len(heap')],
           file' \in File \cup {None}, parsed' \subseteq File,
           pos' \in Nat \ {0}, calls' \in 0..MaxParse,
           errs' \subseteq ErrorRec, stack' \in Seq(Frame),
           \A k \in DOMAIN stack' : stack'[k].obj \in 1..Len(heap')
    PROVE  TypeInv'
<1>1. \A e \in errs' : e.msg \in Msg /\ e.at \in Number \cup {0}
  BY DEF ErrorRec
<1>2. \A k \in DOMAIN stack' : stack'[k] \in Frame
  OBVIOUS
<1>3. \A k \in DOMAIN stack' : stack'[k].next \in Nat \ {0}
  BY <1>2 DEF Frame
<1> QED BY <1>1, <1>3 DEF TypeInv, TypeOK

\* The parts of the invariant that speak of the objects alone.
ObjectsHeld == PropsMade /\ InverseHeld /\ KeyHeld

\* A step that builds nothing leaves the objects as they should be.
LEMMA ObjectsKept ==
    ASSUME ObjectsHeld, UNCHANGED <<schema, heap>>
    PROVE  ObjectsHeld'
<1>1. PropsMade'
  BY DEF ObjectsHeld, PropsMade, Made, FieldsOf, desc
<1>2. InverseHeld'
  BY DEF ObjectsHeld, InverseHeld, Source, Edges, desc
<1>3. KeyHeld'
  BY DEF ObjectsHeld, KeyHeld, Edges, desc
<1> QED BY <1>1, <1>2, <1>3 DEF ObjectsHeld

\* The options of the rpcs change in Complete alone.
LEMMA RpcsKept ==
    ASSUME RpcHeld, UNCHANGED <<schema, rpcOpts>>
    PROVE  RpcHeld'
BY DEF RpcHeld, desc

\* The graph stays as it should be when neither it nor the objects change.
LEMMA GraphKept ==
    ASSUME GraphHeld, UNCHANGED <<heap, graph>>
    PROVE  GraphHeld'
BY DEF GraphHeld, Edges

\* What a step says of the calls makes them what they should be in the next state.
LEMMA CallsNext ==
    ASSUME schema' = schema, file' # None,
           stack' # <<>> => pos' <= Len(MessagesOf[file']) /\ heap'[stack'[1].obj].msg = MessagesOf[file'][pos'],
           \A k \in DOMAIN stack' :
               /\ stack'[k].obj \in DOMAIN heap' /\ heap'[stack'[k].obj].key = 0
               /\ staged'[heap'[stack'[k].obj].msg] = stack'[k].obj
               /\ \A i \in DOMAIN heap'[stack'[k].obj].props : \E j \in 1..(stack'[k].next - 1) :
                     desc[heap'[stack'[k].obj].msg].fields[j].number = heap'[stack'[k].obj].props[i].number
    PROVE  CallsHeld'
BY DEF CallsHeld, Message, FieldsOf, desc

\* While a call is under way, its file was not accepted before.
LEMMA NotParsed ==
    ASSUME CallsHeld, ReparseHeld, stack # <<>>
    PROVE  file # None /\ file \notin parsed
BY DEF CallsHeld, ReparseHeld

\* A file that is not parsed yet leaves what is said of the files that are as it was.
LEMMA ReparseKept ==
    ASSUME ReparseHeld, UNCHANGED <<schema, graph, parsed, file>>, file \notin parsed
    PROVE  ReparseHeld'
BY DEF ReparseHeld, ReparseFindsAll, desc

------------------------------------------------------------------------------
(* The calls of Parse.                                                     *)

\* Parse: the clone is the graph, so it is complete and extends it.
LEMMA ParseHolds ==
    ASSUME SchemaInv, NEW f \in File, Parse(f)
    PROVE  SchemaInv'
<1> USE DEF Parse
<1>1. /\ TypeInv /\ TypeOK /\ ObjectsHeld /\ RpcHeld /\ GraphHeld /\ ReparseHeld
      /\ stack = <<>> /\ f # None
  BY ParseAssumption DEF SchemaInv, TypeInv, ObjectsHeld, CallsHeld
<1>2. DOMAIN stack' = {}
  BY <1>1
<1>3. TypeInv'
  <2>1. calls' \in 0..MaxParse /\ MaxParse \in Nat
    BY <1>1, ParseAssumption DEF TypeOK
  <2> QED BY <1>1, <1>2, <2>1, TypeNext DEF TypeInv, TypeOK
<1>4. ObjectsHeld' /\ RpcHeld' /\ GraphHeld'
  BY <1>1, ObjectsKept, RpcsKept, GraphKept
<1>5. CallsHeld' /\ NoReentry'
  BY <1>1, <1>2 DEF CallsHeld, NoReentry
<1>6. StagedHeld'
  <2>1. MessagesOf[f] \in Seq(Msg)
    BY ParseAssumption
  <2>2. \A i \in DOMAIN MessagesOf[f] : ~(i < 1)
    BY <2>1
  <2> QED BY <1>1, <2>2 DEF StagedHeld
<1>7. StagedComplete'
  <2>1. \A m \in Msg : staged'[m] # 0 =>
            /\ heap[graph[m]].msg = m /\ heap[graph[m]].key # 0 /\ staged'[m] = graph[m]
            /\ \A p \in Edges(graph[m]) : graph[heap[p.target].msg] = p.target
    BY <1>1 DEF GraphHeld
  <2> QED BY <2>1 DEF StagedComplete, Edges
<1>8. ReparseHeld'
  BY <1>1 DEF ReparseHeld, ReparseFindsAll, desc
<1> QED BY <1>3, <1>4, <1>5, <1>6, <1>7, <1>8 DEF SchemaInv, ObjectsHeld

\* A message that is passed is staged, or is no entity.
LEMMA PassHolds ==
    ASSUME SchemaInv, PassMessage
    PROVE  SchemaInv'
<1> USE DEF PassMessage, AtMessages
<1>1. /\ TypeInv /\ TypeOK /\ ObjectsHeld /\ RpcHeld /\ GraphHeld /\ ReparseHeld
      /\ stack = <<>> /\ StagedHeld /\ StagedComplete
  BY DEF SchemaInv, TypeInv, ObjectsHeld
<1>2. DOMAIN stack' = {}
  BY <1>1
<1>3. TypeInv'
  BY <1>1, <1>2, TypeNext DEF TypeInv, TypeOK
<1>4. ObjectsHeld' /\ RpcHeld' /\ GraphHeld'
  BY <1>1, ObjectsKept, RpcsKept, GraphKept
<1>5. CallsHeld' /\ NoReentry'
  BY <1>1, <1>2 DEF CallsHeld, NoReentry
<1>6. StagedHeld'
  <2>1. \A i \in DOMAIN MessagesOf[file] : i < pos + 1 => i < pos \/ i = pos
    <3>1. MessagesOf[file] \in Seq(Msg) /\ pos \in Nat
      BY <1>1, ParseAssumption DEF TypeOK
    <3>2. DOMAIN MessagesOf[file] \subseteq Nat
      BY <3>1
    <3> QED BY <3>1, <3>2
  <2>2. FileOk(file)' => FileOk(file)
    BY DEF FileOk
  <2> QED BY <1>1, <2>1, <2>2 DEF StagedHeld, Message, desc
<1>7. StagedComplete'
  BY <1>1 DEF StagedComplete, OnStack, FileOk, Edges
<1>8. ReparseHeld'
  BY <1>1 DEF ReparseHeld, ReparseFindsAll, desc
<1> QED BY <1>3, <1>4, <1>5, <1>6, <1>7, <1>8 DEF SchemaInv, ObjectsHeld

------------------------------------------------------------------------------
(* A field that becomes no prop.                                           *)

\* A call that goes on keeps its place and its object.
LEMMA GoingOn ==
    ASSUME SchemaInv, stack # <<>>, NEW E \in SUBSET ErrorRec, stack' = Advanced(stack, E),
           UNCHANGED <<schema, rpcOpts, heap, graph, staged, file, pos, errs, calls, parsed>>
    PROVE  SchemaInv'
<1>1. /\ TypeInv /\ TypeOK /\ ObjectsHeld /\ RpcHeld /\ GraphHeld /\ ReparseHeld
      /\ CallsHeld /\ NoReentry /\ StagedHeld /\ StagedComplete
  BY DEF SchemaInv, TypeInv, ObjectsHeld
<1>2. /\ stack' \in Seq(Frame) /\ Len(stack') = Len(stack) /\ DOMAIN stack' = DOMAIN stack
      /\ \A k \in DOMAIN stack :
            /\ stack'[k].obj = stack[k].obj
            /\ stack'[k].next = IF k = Len(stack) THEN stack[k].next + 1 ELSE stack[k].next
            /\ stack'[k].errs = IF k = Len(stack) THEN stack[k].errs \cup E ELSE stack[k].errs
  BY <1>1, AdvanceTop
<1>3. TypeInv'
  BY <1>1, <1>2, TypeNext DEF TypeInv, TypeOK
<1>4. ObjectsHeld' /\ RpcHeld' /\ GraphHeld'
  BY <1>1, ObjectsKept, RpcsKept, GraphKept
<1>5. \A k \in DOMAIN stack : \A j \in 1..(stack[k].next - 1) : j \in 1..(stack'[k].next - 1)
  <2>1. \A k \in DOMAIN stack : stack[k].next \in Nat /\ stack'[k].next \in {stack[k].next, stack[k].next + 1}
    BY <1>1, <1>2 DEF TypeOK
  <2> QED BY <2>1
<1>6. CallsHeld'
  <2>1. file # None
    BY <1>1, NotParsed
  <2>2. 1 \in DOMAIN stack /\ Len(stack) # 0
    BY <1>1, TopTyped
  <2>4. \A k \in DOMAIN stack :
            /\ stack[k].obj \in DOMAIN heap /\ heap[stack[k].obj].key = 0
            /\ staged[heap[stack[k].obj].msg] = stack[k].obj
            /\ \A i \in DOMAIN heap[stack[k].obj].props : \E j \in 1..(stack'[k].next - 1) :
                  desc[heap[stack[k].obj].msg].fields[j].number = heap[stack[k].obj].props[i].number
    BY <1>1, <1>5 DEF CallsHeld, FieldsOf
  <2>5. pos <= Len(MessagesOf[file]) /\ heap[stack[1].obj].msg = MessagesOf[file][pos]
    BY <1>1 DEF CallsHeld, Message
  <2>6. \A k \in DOMAIN stack' :
            /\ stack'[k].obj \in DOMAIN heap' /\ heap'[stack'[k].obj].key = 0
            /\ staged'[heap'[stack'[k].obj].msg] = stack'[k].obj
            /\ \A i \in DOMAIN heap'[stack'[k].obj].props : \E j \in 1..(stack'[k].next - 1) :
                  desc[heap'[stack'[k].obj].msg].fields[j].number = heap'[stack'[k].obj].props[i].number
    <3> TAKE k \in DOMAIN stack'
    <3>1. k \in DOMAIN stack /\ stack'[k].obj = stack[k].obj
      BY <1>2
    <3> QED BY <2>4, <3>1
  <2>7. pos' <= Len(MessagesOf[file']) /\ heap'[stack'[1].obj].msg = MessagesOf[file'][pos']
    <3>1. stack'[1].obj = stack[1].obj
      BY <1>2, <2>2
    <3> QED BY <2>5, <3>1
  <2>8. schema' = schema /\ file' # None
    BY <2>1
  <2> QED BY <2>6, <2>7, <2>8, CallsNext
<1>7. NoReentry'
  BY <1>1, <1>2, ZenonT(30) DEF NoReentry
<1>8. FileOk(file)' => FileOk(file)
  BY <1>2 DEF FileOk
<1>9. OnStack' = OnStack
  BY <1>2, ZenonT(30) DEF OnStack
<1>10. StagedHeld' /\ StagedComplete'
  BY <1>1, <1>8, <1>9 DEF StagedHeld, StagedComplete, Edges, desc
<1>11. ReparseHeld'
  BY <1>1, NotParsed, ReparseKept
<1> QED BY <1>3, <1>4, <1>6, <1>7, <1>10, <1>11 DEF SchemaInv, ObjectsHeld

\* A disabled field leaves nothing behind.
LEMMA SkipHolds ==
    ASSUME SchemaInv, SkipField
    PROVE  SchemaInv'
BY GoingOn DEF SkipField, InFields

\* A field that is refused leaves its error with the call.
LEMMA RefuseHolds ==
    ASSUME SchemaInv, RefuseField
    PROVE  SchemaInv'
<1>1. TypeInv /\ TypeOK /\ stack # <<>> /\ InFields
  BY DEF SchemaInv, TypeInv, RefuseField, InFields
<1>2. Top.obj \in DOMAIN heap /\ Current \in FieldDesc /\ Current.number \in Number
  BY <1>1, TopTyped, CurrentTyped
<1>3. Error(Top.obj, Current.number, PropError(Current)) \in ErrorRec
  BY <1>1, <1>2, PropErrorTyped, ErrorTyped
<1>4. {Error(Top.obj, Current.number, PropError(Current))} \in SUBSET ErrorRec
  BY <1>3
<1> QED BY <1>1, <1>4, GoingOn DEF RefuseField

------------------------------------------------------------------------------
(* A declaration.                                                          *)

\* A sequence and what is appended to it.
LEMMA Appended ==
    ASSUME NEW S, NEW s \in Seq(S), NEW e \in S
    PROVE  /\ Append(s, e) \in Seq(S) /\ Len(Append(s, e)) = Len(s) + 1 /\ Len(s) \in Nat
           /\ DOMAIN Append(s, e) = 1..(Len(s) + 1) /\ DOMAIN s = 1..Len(s)
           /\ \A i \in DOMAIN s : Append(s, e)[i] = s[i]
           /\ Append(s, e)[Len(s) + 1] = e
           /\ \A i \in 1..(Len(s) + 1) : i \in DOMAIN s \/ i = Len(s) + 1
           /\ Len(s) + 1 \notin DOMAIN s
OBVIOUS

\* The new object is blank, and the others stay.
LEMMA DeclaredHeap ==
    ASSUME TypeInv, NEW m \in Msg, Declare(m)
    PROVE  LET o == Len(heap) + 1 IN
           /\ heap' \in Seq(Entity) /\ Len(heap') = o /\ Len(heap) \in Nat /\ o # 0
           /\ DOMAIN heap' = 1..o /\ DOMAIN heap = 1..Len(heap) /\ o \notin DOMAIN heap /\ o \in DOMAIN heap'
           /\ \A x \in DOMAIN heap : x \in DOMAIN heap' /\ heap'[x] = heap[x]
           /\ \A x \in DOMAIN heap' : x \in DOMAIN heap \/ x = o
           /\ heap'[o].msg = m /\ heap'[o].props = <<>> /\ heap'[o].key = 0
<1> DEFINE e == [msg |-> m, props |-> <<>>, key |-> 0, indexes |-> <<>>, rpcs |-> {}]
<1>1. e \in Entity
  BY DEF Entity
<1>2. heap \in Seq(Entity) /\ heap' = Append(heap, e)
  BY DEF TypeInv, TypeOK, Declare
<1>3. e.msg = m /\ e.props = <<>> /\ e.key = 0
  OBVIOUS
<1> HIDE DEF e
<1> QED BY <1>1, <1>2, <1>3, Appended

\* The objects are as they should be after a declaration.
LEMMA DeclareObjects ==
    ASSUME TypeInv, ObjectsHeld, NEW m \in Msg, Declare(m)
    PROVE  ObjectsHeld'
<1> PICK o : o = Len(heap) + 1
  OBVIOUS
<1>1. /\ o \notin DOMAIN heap
      /\ \A x \in DOMAIN heap : x \in DOMAIN heap' /\ heap'[x] = heap[x]
      /\ \A x \in DOMAIN heap' : x \in DOMAIN heap \/ x = o
      /\ heap'[o].msg = m /\ heap'[o].props = <<>> /\ heap'[o].key = 0
  BY DeclaredHeap
<1>2. schema' = schema /\ TypeOK /\ PropsMade
  BY DEF Declare, TypeInv, ObjectsHeld
<1>3. ToSet(heap'[o].props) = {} /\ DOMAIN heap'[o].props = {}
  BY <1>1 DEF ToSet
<1>4. PropsMade'
  <2>1. ASSUME NEW x \in DOMAIN heap
        PROVE  LET ps == heap[x].props IN
               /\ \A i, j \in DOMAIN ps : ps[i].number = ps[j].number => i = j
               /\ \A i \in DOMAIN ps : \E d \in ToSet(desc[heap[x].msg].fields) : Made(ps[i], d) /\ Made(ps[i], d)'
    BY <1>1 DEF ObjectsHeld, PropsMade, Made, FieldsOf
  <2> QED BY <1>1, <1>2, <1>3, <2>1 DEF PropsMade, FieldsOf, desc
<1>5. \A x \in DOMAIN heap : Edges(x)' = Edges(x) /\ \A n : Source(x, n)' = Source(x, n)
  BY <1>1, <1>2 DEF Edges, Source, desc
<1>6. Edges(o)' = {}
  BY <1>3 DEF Edges
<1>7. InverseHeld'
  <2>1. ASSUME NEW x \in DOMAIN heap, NEW p \in Edges(x), p.inverse # NoInverse
        PROVE  /\ p.inverse[1] = p.target
               /\ \E q \in Edges(p.target)' :
                    /\ q.number = p.inverse[2]
                    /\ (~Source(x, p.number)'.repeated /\ ~Source(p.target, q.number)'.repeated) => p.unique /\ q.unique
    <3>1. p.target \in DOMAIN heap
      BY <1>2, EdgeIs
    <3>2. PICK q \in Edges(p.target) :
              /\ p.inverse[1] = p.target /\ q.number = p.inverse[2]
              /\ (~Source(x, p.number).repeated /\ ~Source(p.target, q.number).repeated) => p.unique /\ q.unique
      BY <2>1 DEF ObjectsHeld, InverseHeld
    <3>3. q \in Edges(p.target)' /\ Source(p.target, q.number)' = Source(p.target, q.number)
      BY <1>5, <3>1
    <3> QED BY <1>5, <3>2, <3>3
  <2> QED BY <1>1, <1>5, <1>6, <2>1 DEF InverseHeld
<1>8. KeyHeld'
  BY <1>1, <1>2, <1>5 DEF ObjectsHeld, KeyHeld, Edges, desc
<1> QED BY <1>4, <1>7, <1>8 DEF ObjectsHeld

\* A forward declaration is staged and on the stack, without props.
LEMMA DeclareHolds ==
    ASSUME SchemaInv, NEW m \in Msg, Declare(m), staged[m] = 0, file # None, file \notin parsed,
           stack = <<>> => pos <= Len(MessagesOf[file]) /\ MessagesOf[file][pos] = m
    PROVE  SchemaInv'
<1> PICK o : o = Len(heap) + 1
  OBVIOUS
<1>1. /\ TypeInv /\ TypeOK /\ PropsMade /\ ObjectsHeld /\ RpcHeld /\ GraphHeld /\ ReparseHeld
      /\ CallsHeld /\ NoReentry /\ StagedHeld /\ StagedComplete
  BY DEF SchemaInv, TypeInv, ObjectsHeld
<1>2. /\ heap' \in Seq(Entity) /\ Len(heap') = o /\ Len(heap) \in Nat /\ o # 0 /\ o \in Nat
      /\ DOMAIN heap' = 1..o /\ DOMAIN heap = 1..Len(heap) /\ o \notin DOMAIN heap /\ o \in DOMAIN heap'
      /\ \A x \in DOMAIN heap : x \in DOMAIN heap' /\ heap'[x] = heap[x]
      /\ heap'[o].msg = m /\ heap'[o].props = <<>> /\ heap'[o].key = 0
  BY <1>1, DeclaredHeap
<1>3. /\ staged' = [staged EXCEPT ![m] = o]
      /\ stack' = Append(stack, [obj |-> o, next |-> 1, errs |-> {}])
      /\ UNCHANGED <<schema, rpcOpts, graph, file, pos, errs, calls, parsed>>
  BY DEF Declare
<1>4. \A n \in Msg : staged'[n] = IF n = m THEN o ELSE staged[n]
  BY <1>1, <1>3 DEF TypeOK
<1> DEFINE e == [obj |-> o, next |-> 1, errs |-> {}]
<1>5. e \in Frame /\ e.obj = o /\ e.next = 1 /\ e.errs = {}
  BY <1>2 DEF Frame
<1> HIDE DEF e
<1>6. /\ stack' \in Seq(Frame) /\ Len(stack) \in Nat /\ Len(stack') = Len(stack) + 1
      /\ DOMAIN stack' = 1..(Len(stack) + 1) /\ DOMAIN stack = 1..Len(stack)
      /\ \A k \in DOMAIN stack : stack'[k] = stack[k]
      /\ stack'[Len(stack) + 1] = e
      /\ \A k \in 1..(Len(stack) + 1) : k \in DOMAIN stack \/ k = Len(stack) + 1
  <2>1. stack' = Append(stack, e) /\ stack \in Seq(Frame)
    BY <1>1, <1>3 DEF e, TypeInv
  <2> QED BY <2>1, <1>5, Appended
<1>7. \A k \in DOMAIN stack : /\ stack[k].obj \in DOMAIN heap /\ heap[stack[k].obj].msg \in Msg \ {m}
                              /\ staged'[heap[stack[k].obj].msg] = stack[k].obj
  <2> TAKE k \in DOMAIN stack
  <2>1. /\ stack[k].obj \in DOMAIN heap /\ heap[stack[k].obj].msg \in Msg /\ stack[k].obj # 0
        /\ staged[heap[stack[k].obj].msg] = stack[k].obj
    BY <1>1, OnStackIs
  <2> QED BY <1>4, <2>1
<1>8. TypeInv'
  <2>1. graph' \in [Msg -> 0..Len(heap')] /\ staged' \in [Msg -> 0..Len(heap')]
    BY <1>1, <1>2, <1>3 DEF TypeOK
  <2>2. \A k \in DOMAIN stack' : stack'[k].obj \in 1..Len(heap')
    BY <1>2, <1>5, <1>6, <1>7
  <2> QED BY <1>1, <1>2, <1>3, <1>6, <2>1, <2>2, TypeNext DEF TypeInv, TypeOK
<1>9. ObjectsHeld' /\ RpcHeld'
  BY <1>1, <1>3, DeclareObjects, RpcsKept
<1>10. CallsHeld'
  <2>1. ASSUME NEW k \in DOMAIN stack'
        PROVE  /\ stack'[k].obj \in DOMAIN heap' /\ heap'[stack'[k].obj].key = 0
               /\ staged'[heap'[stack'[k].obj].msg] = stack'[k].obj
               /\ \A i \in DOMAIN heap'[stack'[k].obj].props : \E j \in 1..(stack'[k].next - 1) :
                     desc[heap'[stack'[k].obj].msg].fields[j].number = heap'[stack'[k].obj].props[i].number
    <3>1. CASE k \in DOMAIN stack
      <4>1. /\ stack[k].obj \in DOMAIN heap /\ heap[stack[k].obj].key = 0
            /\ \A i \in DOMAIN heap[stack[k].obj].props : \E j \in 1..(stack[k].next - 1) :
                  desc[heap[stack[k].obj].msg].fields[j].number = heap[stack[k].obj].props[i].number
        BY <1>1, <3>1 DEF CallsHeld, FieldsOf
      <4>2. stack'[k] = stack[k] /\ heap'[stack[k].obj] = heap[stack[k].obj] /\ stack[k].obj \in DOMAIN heap'
        BY <1>2, <1>6, <3>1, <4>1
      <4> QED BY <1>7, <3>1, <4>1, <4>2
    <3>2. CASE k = Len(stack) + 1
      <4>1. DOMAIN heap'[o].props = {}
        BY <1>2
      <4> QED BY <1>2, <1>4, <1>5, <1>6, <3>2, <4>1
    <3> QED BY <1>6, <3>1, <3>2
  <2>2. pos' <= Len(MessagesOf[file']) /\ heap'[stack'[1].obj].msg = MessagesOf[file'][pos']
    <3>1. CASE stack = <<>>
      <4>1. stack'[1].obj = o
        BY <1>5, <1>6, <3>1
      <4> QED BY <1>2, <1>3, <3>1, <4>1
    <3>2. CASE stack # <<>>
      <4>1. 1 \in DOMAIN stack
        BY <1>1, <3>2, TopTyped
      <4>2. stack'[1] = stack[1] /\ stack[1].obj \in DOMAIN heap
        BY <1>6, <1>7, <4>1
      <4>3. heap'[stack'[1].obj].msg = heap[stack[1].obj].msg
        BY <1>2, <4>2
      <4> QED BY <1>1, <1>3, <3>2, <4>3 DEF CallsHeld, Message
    <3> QED BY <3>1, <3>2
  <2> QED BY <1>3, <2>1, <2>2, CallsNext
<1>11. NoReentry'
  <2>1. \A k \in DOMAIN stack : stack'[k] = stack[k] /\ heap'[stack[k].obj].msg = heap[stack[k].obj].msg
                                /\ heap[stack[k].obj].msg # m
    BY <1>2, <1>6, <1>7
  <2>2. heap'[stack'[Len(stack) + 1].obj].msg = m
    BY <1>2, <1>5, <1>6
  <2> QED BY <1>1, <1>6, <2>1, <2>2 DEF NoReentry
<1>12. FileOk(file)' => FileOk(file)
  BY <1>3, <1>6 DEF FileOk
<1>13. StagedHeld'
  BY <1>1, <1>2, <1>3, <1>4, <1>12 DEF StagedHeld, desc, TypeOK
<1>14. StagedComplete'
  <2>1. ASSUME NEW n \in Msg, staged'[n] # 0
        PROVE  /\ heap'[staged'[n]].msg = n
               /\ staged'[n] \in OnStack' \/ heap'[staged'[n]].key # 0
               /\ FileOk(file)' => \A p \in {q \in ToSet(heap'[staged'[n]].props) : q.edge} :
                                      staged'[heap'[p.target].msg] = p.target
    <3>1. CASE n = m
      <4>1. staged'[n] = o /\ ToSet(heap'[o].props) = {}
        BY <1>2, <1>4, <3>1 DEF ToSet
      <4>2. Len(stack) + 1 \in DOMAIN stack' /\ stack'[Len(stack) + 1].obj = o
        BY <1>5, <1>6
      <4>3. o \in OnStack'
        BY <4>2 DEF OnStack
      <4> QED BY <1>2, <3>1, <4>1, <4>3
    <3>2. CASE n # m
      <4>1. staged'[n] = staged[n] /\ staged[n] \in DOMAIN heap
        BY <1>1, <1>2, <1>4, <2>1, <3>2 DEF TypeOK
      <4>2. heap'[staged[n]] = heap[staged[n]]
        BY <1>2, <4>1
      <4>3. /\ heap[staged[n]].msg = n
            /\ staged[n] \in OnStack \/ heap[staged[n]].key # 0
            /\ FileOk(file) => \A p \in Edges(staged[n]) : staged[heap[p.target].msg] = p.target
        BY <1>1, <2>1, <4>1 DEF StagedComplete
      <4>4. OnStack \subseteq OnStack'
        BY <1>6 DEF OnStack
      <4>5. \A p \in Edges(staged[n]) : p.target \in DOMAIN heap /\ heap[p.target].msg \in Msg /\ p.target # 0
        BY <1>1, <1>2, <4>1, EdgeIs
      <4>6. \A p \in Edges(staged[n]) : staged[heap[p.target].msg] = p.target
                => staged'[heap'[p.target].msg] = p.target
        BY <1>2, <1>4, <4>5
      <4> QED BY <1>12, <4>1, <4>2, <4>3, <4>4, <4>6 DEF Edges
    <3> QED BY <3>1, <3>2
  <2> QED BY <1>3, <2>1 DEF StagedComplete, Edges
<1>15. GraphHeld'
  <2> SUFFICES ASSUME NEW n \in Msg, graph[n] # 0
               PROVE  /\ heap'[graph[n]].msg = n /\ heap'[graph[n]].key # 0
                      /\ \A p \in Edges(graph[n])' : graph[heap'[p.target].msg] = p.target
    BY <1>3 DEF GraphHeld, Edges
  <2>1. graph[n] \in DOMAIN heap
    BY <1>1, <1>2 DEF TypeOK
  <2>2. heap'[graph[n]] = heap[graph[n]]
    BY <1>2, <2>1
  <2>3. \A p \in Edges(graph[n]) : heap'[p.target] = heap[p.target]
    BY <1>1, <1>2, <2>1, EdgeIs
  <2> QED BY <1>1, <1>3, <2>2, <2>3 DEF GraphHeld, Edges
<1>16. ReparseHeld'
  BY <1>1, <1>3, ReparseKept
<1> QED BY <1>8, <1>9, <1>10, <1>11, <1>13, <1>14, <1>15, <1>16 DEF SchemaInv, ObjectsHeld

\* The declaration of a message of the file.
LEMMA EnterMessageHolds ==
    ASSUME SchemaInv, EnterMessage
    PROVE  SchemaInv'
<1>1. /\ file # None /\ stack = <<>> /\ pos <= Len(MessagesOf[file])
      /\ staged[Message] = 0 /\ desc[Message].entity /\ Declare(Message)
  BY DEF EnterMessage, AtMessages
<1>2. MessagesOf[file] \in Seq(Msg) /\ pos \in DOMAIN MessagesOf[file]
  BY <1>1, ParseAssumption DEF SchemaInv, TypeInv, TypeOK
<1>3. Message \in Msg /\ Message \in ToSet(MessagesOf[file])
  BY <1>2 DEF Message, ToSet
<1>4. file \notin parsed
  <2> SUFFICES ASSUME file \in parsed PROVE FALSE
    OBVIOUS
  <2>1. graph[Message] # 0 /\ staged = graph
    BY <1>1, <1>3 DEF SchemaInv, ReparseHeld, ReparseFindsAll
  <2> QED BY <1>1, <2>1
<1> QED BY <1>1, <1>3, <1>4, DeclareHolds DEF Message

\* The declaration of the target of an edge.
LEMMA EnterTargetHolds ==
    ASSUME SchemaInv, EnterTarget
    PROVE  SchemaInv'
<1>1. /\ InFields /\ stack # <<>> /\ Current.message # None
      /\ staged[Current.message] = 0 /\ Declare(Current.message)
  BY DEF EnterTarget, Targeted, InFields
<1>2. TypeInv /\ CallsHeld /\ ReparseHeld
  BY DEF SchemaInv
<1>3. Current.message \in Msg
  BY <1>1, <1>2, CurrentTyped
<1>4. file # None /\ file \notin parsed
  BY <1>1, <1>2, NotParsed
<1> QED BY <1>1, <1>3, <1>4, DeclareHolds

------------------------------------------------------------------------------
(* A prop.                                                                 *)

\* The prop a field is made into.
LEMMA NewPropIs ==
    ASSUME TypeInv, StagedComplete, file # None, InFields, PropError(Current) = "ok",
           Targeted => staged[Current.message] # 0
    PROVE  LET p == NewProp(Current) IN
           /\ p \in Prop /\ p.inverse = NoInverse /\ Made(p, Current)
           /\ p.edge => staged[heap[p.target].msg] = p.target
<1> PICK d : d = Current
  OBVIOUS
<1>1. /\ d \in FieldDesc /\ d.number \in Number /\ d.message \in Msg \cup {None}
      /\ d \in ToSet(FieldsOf(Top.obj)) /\ TypeOK /\ staged \in [Msg -> 0..Len(heap)]
      /\ Top.obj \in DOMAIN heap
  BY CurrentTyped, TopTyped DEF TypeInv, TypeOK, InFields
<1>2. (IsField(d) => FieldError(d) = "ok") /\ (~IsField(d) => d.message \in Msg)
  BY <1>1, PropPasses
<1>3. ~IsField(d) => /\ staged[d.message] \in DOMAIN heap
                     /\ heap[staged[d.message]].msg = d.message
  <2> SUFFICES ASSUME ~IsField(d)
               PROVE  staged[d.message] \in DOMAIN heap /\ heap[staged[d.message]].msg = d.message
    OBVIOUS
  <2>1. staged[d.message] # 0 /\ d.message \in Msg
    BY <1>1, <1>2, ParseAssumption DEF Targeted
  <2> QED BY <1>1, <2>1 DEF StagedComplete, TypeOK
<1>4. NoInverse \in Nat \X (Number \cup {0})
  BY DEF NoInverse
<1> DEFINE p == NewProp(d)
<1>5. /\ p.number = d.number /\ p.edge = ~IsField(d) /\ p.unique = (d.unique = "yes")
      /\ p.nullable = (d.nullable = "yes" \/ d.erased) /\ p.immutable = (d.immutable = "yes")
      /\ p.target = IF IsField(d) THEN 0 ELSE staged[d.message]
      /\ p.inverse = NoInverse
  BY DEF NewProp
<1>6. p \in Prop
  <2>1. d.erased \in BOOLEAN /\ IsField(d) \in BOOLEAN
    BY <1>1 DEF FieldDesc, IsField
  <2>2. p.target \in Nat
    BY <1>1, <1>2, <1>5
  <2>3. NewProp(d).target \in Nat /\ NewProp(d).inverse \in Nat \X (Number \cup {0})
    BY <1>4, <1>5, <2>2
  <2> QED BY <1>1, <2>1, <2>3 DEF NewProp, Prop
<1> HIDE DEF p
<1>7. Made(p, d)
  <2>1. IsField(d) /\ (d.version \/ d.erased) => d.unique # "yes" /\ d.immutable # "yes"
    BY <1>1, <1>2, FieldPasses
  <2> QED BY <1>2, <1>3, <1>5, <2>1 DEF Made
<1>8. p.edge => staged[heap[p.target].msg] = p.target
  BY <1>3, <1>5
<1> QED BY <1>5, <1>6, <1>7, <1>8 DEF p

\* The object that is built has one prop more, and the others stay.
LEMMA AddedProp ==
    ASSUME TypeInv, CallsHeld, StagedComplete, AddProp
    PROVE  LET o == Top.obj
               p == NewProp(Current)
           IN  /\ heap' \in Seq(Entity) /\ Len(heap') = Len(heap) /\ DOMAIN heap' = DOMAIN heap
               /\ o \in DOMAIN heap /\ heap[o].key = 0
               /\ \A x \in DOMAIN heap : x # o => heap'[x] = heap[x]
               /\ \A x \in DOMAIN heap : heap'[x].msg = heap[x].msg /\ heap'[x].key = heap[x].key
               /\ heap'[o].props = Append(heap[o].props, p)
               /\ DOMAIN heap'[o].props = 1..(Len(heap[o].props) + 1)
               /\ DOMAIN heap[o].props = 1..Len(heap[o].props) /\ Len(heap[o].props) \in Nat
               /\ \A i \in DOMAIN heap[o].props : heap'[o].props[i] = heap[o].props[i]
               /\ heap'[o].props[Len(heap[o].props) + 1] = p
               /\ ToSet(heap'[o].props) = ToSet(heap[o].props) \cup {p}
<1> PICK o : o = Top.obj
  OBVIOUS
<1> PICK p : p = NewProp(Current)
  OBVIOUS
<1>1. /\ TypeOK /\ stack # <<>> /\ file # None /\ heap \in Seq(Entity)
      /\ o \in DOMAIN heap /\ heap[o].key = 0 /\ InFields
  BY TopTyped DEF AddProp, InFields, CallsHeld, TypeInv, TypeOK
<1>2. p \in Prop
  BY <1>1, NewPropIs DEF AddProp
<1>3. heap[o].props \in Seq(Prop) /\ heap[o] \in Entity
  BY <1>1, ObjectTyped
<1> DEFINE ps == Append(heap[o].props, p)
<1>4. /\ ps \in Seq(Prop) /\ Len(heap[o].props) \in Nat
      /\ DOMAIN ps = 1..(Len(heap[o].props) + 1) /\ DOMAIN heap[o].props = 1..Len(heap[o].props)
      /\ \A i \in DOMAIN heap[o].props : ps[i] = heap[o].props[i]
      /\ ps[Len(heap[o].props) + 1] = p
      /\ \A i \in 1..(Len(heap[o].props) + 1) : i \in DOMAIN heap[o].props \/ i = Len(heap[o].props) + 1
  BY <1>2, <1>3, Appended
<1>5. heap' = [heap EXCEPT ![o] = [heap[o] EXCEPT !.props = ps]]
  BY <1>1 DEF AddProp
<1>6. ToSet(ps) = ToSet(heap[o].props) \cup {p}
  BY <1>4, SMTT(30) DEF ToSet
<1> HIDE DEF ps
<1> DEFINE e == [heap[o] EXCEPT !.props = ps]
<1>7. e \in Entity /\ e.props = ps /\ e.msg = heap[o].msg /\ e.key = heap[o].key
  BY <1>3, <1>4 DEF Entity
<1> HIDE DEF e
<1>8. heap' = [heap EXCEPT ![o] = e]
  BY <1>5 DEF e
<1>9. /\ heap' \in Seq(Entity) /\ Len(heap') = Len(heap) /\ DOMAIN heap' = DOMAIN heap
      /\ \A x \in DOMAIN heap : heap'[x] = IF x = o THEN e ELSE heap[x]
  BY <1>1, <1>7, <1>8
<1>10. ps = Append(heap[o].props, p)
  BY DEF ps
<1> QED BY <1>1, <1>4, <1>6, <1>7, <1>9, <1>10

\* The objects are as they should be with the new prop.
LEMMA AddObjects ==
    ASSUME TypeInv, ObjectsHeld, CallsHeld, StagedComplete, AddProp
    PROVE  ObjectsHeld'
<1> PICK o : o = Top.obj
  OBVIOUS
<1> PICK p : p = NewProp(Current)
  OBVIOUS
<1>1. /\ DOMAIN heap' = DOMAIN heap /\ o \in DOMAIN heap /\ heap[o].key = 0
      /\ \A x \in DOMAIN heap : x # o => heap'[x] = heap[x]
      /\ \A x \in DOMAIN heap : heap'[x].msg = heap[x].msg /\ heap'[x].key = heap[x].key
      /\ DOMAIN heap'[o].props = 1..(Len(heap[o].props) + 1)
      /\ DOMAIN heap[o].props = 1..Len(heap[o].props) /\ Len(heap[o].props) \in Nat
      /\ \A i \in DOMAIN heap[o].props : heap'[o].props[i] = heap[o].props[i]
      /\ heap'[o].props[Len(heap[o].props) + 1] = p
      /\ ToSet(heap'[o].props) = ToSet(heap[o].props) \cup {p}
  BY AddedProp
<1>2. /\ TypeOK /\ PropsMade /\ InverseHeld /\ KeyHeld /\ schema' = schema /\ schema \in Schema
      /\ InFields /\ stack # <<>> /\ file # None
  BY DEF TypeInv, TypeOK, ObjectsHeld, AddProp, InFields, CallsHeld
<1>3. p.inverse = NoInverse /\ Made(p, Current) /\ Current \in ToSet(FieldsOf(o))
  BY <1>2, NewPropIs, CurrentTyped DEF AddProp
<1>4. \A q, d : Made(q, d) => Made(q, d)'
  BY <1>1 DEF Made
<1>5. \A x : x \in DOMAIN heap => FieldsOf(x)' = FieldsOf(x)
  BY <1>1, <1>2 DEF FieldsOf, desc
<1>6. \A i \in DOMAIN heap[o].props : heap[o].props[i].number # p.number
  <2> SUFFICES ASSUME NEW i \in DOMAIN heap[o].props, heap[o].props[i].number = p.number
               PROVE  FALSE
    OBVIOUS
  <2>1. /\ Len(stack) \in DOMAIN stack /\ Top = stack[Len(stack)] /\ Top.next \in Nat \ {0}
        /\ Top.next \in DOMAIN FieldsOf(o) /\ Current = FieldsOf(o)[Top.next]
        /\ heap[o].msg \in Msg /\ FieldsOf(o) \in Seq(FieldDesc)
    BY <1>1, <1>2, TopTyped, CurrentTyped, ObjectTyped
  <2>2. PICK j \in 1..(Top.next - 1) : FieldsOf(o)[j].number = heap[o].props[i].number
    BY <2>1 DEF CallsHeld
  <2>3. j \in DOMAIN FieldsOf(o) /\ j # Top.next
    BY <2>1, <2>2
  <2>4. FieldsOf(o)[j].number = FieldsOf(o)[Top.next].number
    BY <1>3, <2>1, <2>2 DEF Made
  <2> QED BY <1>2, <2>1, <2>3, <2>4, ParseAssumption, ZenonT(30) DEF FieldsOf, desc
<1>7. PropsMade'
  <2>1. ASSUME NEW x \in DOMAIN heap
        PROVE  /\ \A i, j \in DOMAIN heap'[x].props : heap'[x].props[i].number = heap'[x].props[j].number => i = j
               /\ \A i \in DOMAIN heap'[x].props : \E d \in ToSet(FieldsOf(x)) : Made(heap'[x].props[i], d)
    <3>1. CASE x # o
      BY <1>1, <1>2, <3>1 DEF PropsMade
    <3>2. CASE x = o
      <4>1. \A i \in DOMAIN heap'[o].props : i \in DOMAIN heap[o].props \/ i = Len(heap[o].props) + 1
        BY <1>1
      <4>2. \A i, j \in DOMAIN heap[o].props : heap[o].props[i].number = heap[o].props[j].number => i = j
        BY <1>1, <1>2 DEF PropsMade
      <4>3. \A i \in DOMAIN heap[o].props : \E d \in ToSet(FieldsOf(o)) : Made(heap[o].props[i], d)
        BY <1>1, <1>2 DEF PropsMade
      <4>4. \A i, j \in DOMAIN heap'[o].props : heap'[o].props[i].number = heap'[o].props[j].number => i = j
        <5> SUFFICES ASSUME NEW i \in DOMAIN heap'[o].props, NEW j \in DOMAIN heap'[o].props,
                            heap'[o].props[i].number = heap'[o].props[j].number
                     PROVE  i = j
          OBVIOUS
        <5>1. \A k \in DOMAIN heap[o].props : heap'[o].props[k].number = heap[o].props[k].number
                                              /\ heap[o].props[k].number # p.number
          BY <1>1, <1>6
        <5>2. heap'[o].props[Len(heap[o].props) + 1].number = p.number
          BY <1>1
        <5>3. CASE i \in DOMAIN heap[o].props /\ j \in DOMAIN heap[o].props
          BY <4>2, <5>1, <5>3
        <5>4. CASE i \notin DOMAIN heap[o].props
          <6>1. i = Len(heap[o].props) + 1 /\ heap'[o].props[i].number = p.number
            BY <4>1, <5>2, <5>4
          <6>2. j \notin DOMAIN heap[o].props
            BY <5>1, <6>1
          <6> QED BY <4>1, <6>1, <6>2
        <5>5. CASE j \notin DOMAIN heap[o].props
          <6>1. j = Len(heap[o].props) + 1 /\ heap'[o].props[j].number = p.number
            BY <4>1, <5>2, <5>5
          <6>2. i \notin DOMAIN heap[o].props
            BY <5>1, <6>1
          <6> QED BY <4>1, <6>1, <6>2
        <5> QED BY <5>3, <5>4, <5>5
      <4>5. \A i \in DOMAIN heap'[o].props : \E d \in ToSet(FieldsOf(o)) : Made(heap'[o].props[i], d)
        BY <1>1, <1>3, <4>1, <4>3
      <4> QED BY <3>2, <4>4, <4>5
    <3> QED BY <3>1, <3>2
  <2> QED BY <1>1, <1>4, <1>5, <2>1 DEF PropsMade
<1>8. \A x \in DOMAIN heap : \A n : Source(x, n)' = Source(x, n)
  BY <1>1, <1>2 DEF Source, desc
<1>9. \A x \in DOMAIN heap : /\ Edges(x) \subseteq Edges(x)'
                             /\ \A q \in Edges(x)' : q \in Edges(x) \/ q = p
  BY <1>1 DEF Edges
<1>10. InverseHeld'
  <2>1. ASSUME NEW x \in DOMAIN heap, NEW r \in Edges(x)', r.inverse # NoInverse
        PROVE  /\ r.inverse[1] = r.target
               /\ \E q \in Edges(r.target)' :
                    /\ q.number = r.inverse[2]
                    /\ (~Source(x, r.number)'.repeated /\ ~Source(r.target, q.number)'.repeated) => r.unique /\ q.unique
    <3>1. r \in Edges(x)
      BY <1>3, <1>9, <2>1
    <3>2. PICK q \in Edges(r.target) :
              /\ r.inverse[1] = r.target /\ q.number = r.inverse[2]
              /\ (~Source(x, r.number).repeated /\ ~Source(r.target, q.number).repeated) => r.unique /\ q.unique
      BY <1>2, <2>1, <3>1 DEF InverseHeld
    <3>3. r.target \in DOMAIN heap
      BY <1>2, <3>1, EdgeIs
    <3>4. q \in Edges(r.target)' /\ Source(r.target, q.number)' = Source(r.target, q.number)
      BY <1>8, <1>9, <3>3
    <3> QED BY <1>8, <3>2, <3>4
  <2> QED BY <1>1, <2>1 DEF InverseHeld
<1>11. KeyHeld'
  <2>1. ASSUME NEW x \in DOMAIN heap, heap[x].key # 0
        PROVE  /\ heap'[x] = heap[x] /\ Edges(x)' = Edges(x)
               /\ desc'[heap'[x].msg] = desc[heap[x].msg]
    BY <1>1, <1>2, <2>1 DEF Edges, desc
  <2> QED BY <1>1, <1>2, <2>1 DEF KeyHeld
<1> QED BY <1>7, <1>10, <1>11 DEF ObjectsHeld

\* A prop that is added is made of the field the call is at.
LEMMA AddHolds ==
    ASSUME SchemaInv, AddProp
    PROVE  SchemaInv'
<1> PICK o : o = Top.obj
  OBVIOUS
<1> PICK p : p = NewProp(Current)
  OBVIOUS
<1>1. /\ TypeInv /\ TypeOK /\ PropsMade /\ ObjectsHeld /\ RpcHeld /\ GraphHeld /\ ReparseHeld
      /\ CallsHeld /\ NoReentry /\ StagedHeld /\ StagedComplete
  BY DEF SchemaInv, TypeInv, ObjectsHeld
<1>2. /\ heap' \in Seq(Entity) /\ Len(heap') = Len(heap) /\ DOMAIN heap' = DOMAIN heap
      /\ o \in DOMAIN heap /\ heap[o].key = 0
      /\ \A x \in DOMAIN heap : x # o => heap'[x] = heap[x]
      /\ \A x \in DOMAIN heap : heap'[x].msg = heap[x].msg /\ heap'[x].key = heap[x].key
      /\ ToSet(heap'[o].props) = ToSet(heap[o].props) \cup {p}
  BY <1>1, AddedProp
<1>3. /\ stack' = Advanced(stack, {}) /\ InFields /\ stack # <<>> /\ file # None /\ file \notin parsed
      /\ UNCHANGED <<schema, rpcOpts, graph, staged, file, pos, errs, calls, parsed>>
  BY <1>1, NotParsed DEF AddProp, InFields
<1>4. /\ stack' \in Seq(Frame) /\ Len(stack') = Len(stack) /\ DOMAIN stack' = DOMAIN stack
      /\ \A k \in DOMAIN stack :
            /\ stack'[k].obj = stack[k].obj
            /\ stack'[k].next = IF k = Len(stack) THEN stack[k].next + 1 ELSE stack[k].next
            /\ stack'[k].errs = IF k = Len(stack) THEN stack[k].errs \cup {} ELSE stack[k].errs
  BY <1>1, <1>3, AdvanceTop
<1>5. TypeInv'
  BY <1>1, <1>2, <1>3, <1>4, TypeNext DEF TypeInv, TypeOK
<1>6. ObjectsHeld' /\ RpcHeld'
  BY <1>1, <1>3, AddObjects, RpcsKept
<1>7. CallsHeld'
  <2>1. /\ DOMAIN heap'[o].props = 1..(Len(heap[o].props) + 1)
        /\ DOMAIN heap[o].props = 1..Len(heap[o].props) /\ Len(heap[o].props) \in Nat
        /\ \A i \in DOMAIN heap[o].props : heap'[o].props[i] = heap[o].props[i]
        /\ heap'[o].props[Len(heap[o].props) + 1] = p
    BY <1>1, AddedProp
  <2>2. /\ Len(stack) \in DOMAIN stack /\ Top = stack[Len(stack)] /\ Top.next \in Nat \ {0}
        /\ 1 \in DOMAIN stack /\ FieldsOf(o)[Top.next].number = p.number
    <3>1. Made(p, Current) /\ Current = FieldsOf(o)[Top.next]
      BY <1>1, <1>3, NewPropIs, CurrentTyped DEF AddProp
    <3> QED BY <1>1, <1>3, <3>1, TopTyped DEF Made
  <2>3. ASSUME NEW k \in DOMAIN stack
        PROVE  \A i \in DOMAIN heap'[stack[k].obj].props : \E j \in 1..(stack'[k].next - 1) :
                  desc[heap[stack[k].obj].msg].fields[j].number = heap'[stack[k].obj].props[i].number
    <3>1. /\ stack[k].next \in Nat /\ stack'[k].next \in Nat
          /\ \A j \in 1..(stack[k].next - 1) : j \in 1..(stack'[k].next - 1)
      <4>1. stack[k].next \in Nat /\ stack'[k].next \in {stack[k].next, stack[k].next + 1}
        BY <1>1, <1>4 DEF TypeOK
      <4> QED BY <4>1
    <3>2. \A i \in DOMAIN heap[stack[k].obj].props : \E j \in 1..(stack'[k].next - 1) :
                  desc[heap[stack[k].obj].msg].fields[j].number = heap[stack[k].obj].props[i].number
      BY <1>1, <3>1 DEF CallsHeld, FieldsOf
    <3>3. CASE k = Len(stack)
      <4>1. stack[k].obj = o /\ Top.next \in 1..(stack'[k].next - 1)
        BY <1>4, <2>2, <3>1, <3>3
      <4>2. \A i \in DOMAIN heap'[o].props : i \in DOMAIN heap[o].props \/ i = Len(heap[o].props) + 1
        BY <2>1
      <4>3. desc[heap[o].msg].fields[Top.next].number = p.number
        BY <2>2 DEF FieldsOf
      <4> QED BY <2>1, <3>2, <4>1, <4>2, <4>3, ZenonT(30)
    <3>4. CASE k # Len(stack)
      <4>1. stack[k].obj # stack[Len(stack)].obj
        BY <1>1, <2>2, <3>4, OnStackIs
      <4>2. stack[k].obj \in DOMAIN heap /\ stack[k].obj # o
        BY <1>1, <2>2, <4>1 DEF CallsHeld
      <4> QED BY <1>2, <3>2, <4>2
    <3> QED BY <3>3, <3>4
  <2>4. ASSUME NEW k \in DOMAIN stack'
        PROVE  /\ stack'[k].obj \in DOMAIN heap' /\ heap'[stack'[k].obj].key = 0
               /\ staged'[heap'[stack'[k].obj].msg] = stack'[k].obj
               /\ \A i \in DOMAIN heap'[stack'[k].obj].props : \E j \in 1..(stack'[k].next - 1) :
                     desc[heap'[stack'[k].obj].msg].fields[j].number = heap'[stack'[k].obj].props[i].number
    <3>1. /\ k \in DOMAIN stack /\ stack'[k].obj = stack[k].obj /\ stack[k].obj \in DOMAIN heap
          /\ heap[stack[k].obj].key = 0 /\ staged[heap[stack[k].obj].msg] = stack[k].obj
      BY <1>1, <1>4 DEF CallsHeld
    <3>2. heap'[stack[k].obj].msg = heap[stack[k].obj].msg /\ heap'[stack[k].obj].key = 0
      BY <1>2, <3>1
    <3>3. \A i \in DOMAIN heap'[stack'[k].obj].props : \E j \in 1..(stack'[k].next - 1) :
             desc[heap'[stack'[k].obj].msg].fields[j].number = heap'[stack'[k].obj].props[i].number
      BY <2>3, <3>1, <3>2, SMTT(30)
    <3>4. /\ stack'[k].obj \in DOMAIN heap' /\ heap'[stack'[k].obj].key = 0
          /\ staged'[heap'[stack'[k].obj].msg] = stack'[k].obj
      BY <1>2, <1>3, <3>1, <3>2
    <3> QED BY <3>3, <3>4
  <2>5. pos' <= Len(MessagesOf[file']) /\ heap'[stack'[1].obj].msg = MessagesOf[file'][pos']
    <3>1. stack'[1].obj = stack[1].obj /\ heap'[stack[1].obj].msg = heap[stack[1].obj].msg
      BY <1>1, <1>2, <1>4, <2>2 DEF CallsHeld
    <3> QED BY <1>1, <1>3, <3>1 DEF CallsHeld, Message
  <2> QED BY <1>3, <2>4, <2>5, CallsNext
<1>8. NoReentry'
  <2>1. \A k \in DOMAIN stack : heap'[stack'[k].obj].msg = heap[stack[k].obj].msg
    BY <1>1, <1>2, <1>4 DEF CallsHeld
  <2> QED BY <1>1, <1>4, <2>1 DEF NoReentry
<1>9. FileOk(file)' => FileOk(file)
  BY <1>3, <1>4 DEF FileOk
<1>10. OnStack' = OnStack
  BY <1>4 DEF OnStack
<1>11. StagedHeld'
  BY <1>1, <1>3, <1>9 DEF StagedHeld, desc
<1>12. \A x \in DOMAIN heap : /\ x # o => Edges(x)' = Edges(x)
                              /\ \A q \in Edges(x)' : q \in Edges(x) \/ (q = p /\ p.edge)
  BY <1>2 DEF Edges
<1>13. \A x \in DOMAIN heap : \A q \in Edges(x) : heap'[q.target].msg = heap[q.target].msg
  BY <1>1, <1>2, EdgeIs
<1>14. p.edge => staged[heap'[p.target].msg] = p.target
  BY <1>1, <1>2, <1>3, NewPropIs DEF AddProp, Made
<1>15. StagedComplete'
  <2>1. ASSUME NEW n \in Msg, NEW x, x = staged[n], x # 0
        PROVE  /\ heap'[x].msg = n
               /\ x \in OnStack' \/ heap'[x].key # 0
               /\ FileOk(file)' => \A q \in Edges(x)' : staged[heap'[q.target].msg] = q.target
    <3>1. x \in DOMAIN heap
      BY <1>1, <2>1 DEF TypeOK
    <3>2. /\ heap[x].msg = n
          /\ x \in OnStack \/ heap[x].key # 0
          /\ FileOk(file) => \A q \in Edges(x) : staged[heap[q.target].msg] = q.target
      BY <1>1, <1>3, <2>1 DEF StagedComplete
    <3>3. heap'[x].msg = n
      BY <1>2, <3>1, <3>2
    <3>4. x \in OnStack' \/ heap'[x].key # 0
      BY <1>2, <1>10, <3>1, <3>2
    <3> QED BY <1>9, <1>12, <1>13, <1>14, <3>1, <3>2, <3>3, <3>4
  <2> QED BY <1>3, <2>1 DEF StagedComplete, Edges
<1>16. GraphHeld'
  <2>1. ASSUME NEW n \in Msg, graph[n] # 0
        PROVE  /\ heap'[graph[n]].msg = n /\ heap'[graph[n]].key # 0
               /\ \A q \in Edges(graph[n])' : graph[heap'[q.target].msg] = q.target
    <3>1. /\ graph[n] \in DOMAIN heap /\ heap[graph[n]].msg = n /\ heap[graph[n]].key # 0
          /\ \A q \in Edges(graph[n]) : graph[heap[q.target].msg] = q.target
      BY <1>1, <2>1 DEF TypeOK, GraphHeld
    <3>2. PICK x : x = graph[n]
      OBVIOUS
    <3>3. x # o /\ Edges(x)' = Edges(x) /\ Edges(graph[n])' = Edges(x)'
      BY <1>2, <1>3, <1>12, <3>1, <3>2 DEF Edges
    <3> QED BY <1>2, <1>13, <3>1, <3>2, <3>3
  <2> QED BY <1>3, <2>1 DEF GraphHeld
<1>17. ReparseHeld'
  BY <1>1, <1>3, ReparseKept
<1> QED BY <1>5, <1>6, <1>7, <1>8, <1>11, <1>15, <1>16, <1>17 DEF SchemaInv, ObjectsHeld

------------------------------------------------------------------------------
(* An entity that is withdrawn.                                            *)

\* The innermost call is gone, and an error is pending.
LEMMA AbandonIs ==
    ASSUME SchemaInv, Abandon
    PROVE  /\ stack' \in Seq(Frame) /\ Len(stack) \in DOMAIN stack /\ 1 \in DOMAIN stack
           /\ stack # <<>> /\ Top = stack[Len(stack)]
           /\ \A k \in DOMAIN stack' :
                 /\ k \in DOMAIN stack /\ k # Len(stack)
                 /\ stack'[k].obj = stack[k].obj /\ stack[k].next \in Nat /\ stack'[k].next \in Nat
                 /\ stack'[k].next \in {stack[k].next, stack[k].next + 1}
           /\ \A k \in DOMAIN stack : k # Len(stack) => k \in DOMAIN stack'
           /\ stack' # <<>> => pos' = pos /\ 1 \in DOMAIN stack'
           /\ pos' \in Nat \ {0} /\ errs' \subseteq ErrorRec /\ ~FileOk(file)'
<1> PICK E : E = EntityErrors(Top.obj, Top.errs)
  OBVIOUS
<1>1. /\ TypeInv /\ TypeOK /\ PropsMade /\ stack # <<>> /\ stack \in Seq(Frame) /\ E # {}
      /\ errs \subseteq ErrorRec /\ pos \in Nat \ {0}
      /\ \A k \in DOMAIN stack : stack[k].next \in Nat
  BY DEF SchemaInv, TypeInv, TypeOK, Abandon, Leaving
<1>2. /\ Len(stack) \in DOMAIN stack /\ Len(stack) \in Nat \ {0} /\ DOMAIN stack = 1..Len(stack)
      /\ Top.obj \in DOMAIN heap /\ Top.errs \in SUBSET ErrorRec /\ Top = stack[Len(stack)]
      /\ 1 \in DOMAIN stack
  BY <1>1, TopTyped
<1>3. E \in SUBSET ErrorRec
  BY <1>1, <1>2, ErrorsTyped
<1>4. CASE Len(stack) = 1
  <2>1. stack' = <<>> /\ pos' = pos + 1 /\ errs' = errs \cup E
    BY <1>4 DEF Abandon
  <2>2. ~FileOk(file)'
    BY <1>1, <2>1 DEF FileOk
  <2>3. DOMAIN stack' = {} /\ stack' \in Seq(Frame)
    BY <2>1
  <2> QED BY <1>1, <1>2, <1>3, <1>4, <2>1, <2>2, <2>3
<1>5. CASE Len(stack) # 1
  <2> PICK s : s = Front(stack)
    OBVIOUS
  <2>1. /\ s \in Seq(Frame) /\ Len(s) = Len(stack) - 1 /\ s # <<>>
        /\ \A k \in 1..(Len(stack) - 1) : s[k] = stack[k]
    BY <1>1, <1>5, FrontIs
  <2>2. stack' = Advanced(s, E) /\ UNCHANGED <<pos, errs>>
    BY <1>5 DEF Abandon
  <2>3. /\ stack' \in Seq(Frame) /\ Len(stack') = Len(s)
        /\ \A k \in 1..Len(s) :
              /\ stack'[k].obj = s[k].obj
              /\ stack'[k].next = IF k = Len(s) THEN s[k].next + 1 ELSE s[k].next
              /\ stack'[k].errs = IF k = Len(s) THEN s[k].errs \cup E ELSE s[k].errs
    <3>1. stack' \in Seq(Frame) /\ Len(stack') = Len(s)
      BY <1>3, <2>1, <2>2, AdvancedIs
    <3>2. \A k \in 1..Len(s) :
              /\ Advanced(s, E)[k].obj = s[k].obj
              /\ Advanced(s, E)[k].next = IF k = Len(s) THEN s[k].next + 1 ELSE s[k].next
              /\ Advanced(s, E)[k].errs = IF k = Len(s) THEN s[k].errs \cup E ELSE s[k].errs
      BY <1>3, <2>1, AdvancedIs, Zenon
    <3> QED BY <2>2, <3>1, <3>2
  <2>4. DOMAIN stack' = 1..(Len(stack) - 1) /\ Len(s) \in DOMAIN stack'
    BY <1>2, <1>5, <2>1, <2>3
  <2>5. Len(s) \in 1..Len(s) /\ stack'[Len(s)].errs # {}
    <3>1. Len(s) \in 1..Len(s)
      BY <1>2, <1>5, <2>1
    <3>2. stack'[Len(s)].errs = s[Len(s)].errs \cup E
      BY <2>3, <3>1
    <3> QED BY <1>1, <3>1, <3>2
  <2>6. ~FileOk(file)'
    BY <2>4, <2>5 DEF FileOk
  <2>7. \A k \in DOMAIN stack' :
           /\ k \in DOMAIN stack /\ k # Len(stack)
           /\ stack'[k].obj = stack[k].obj
           /\ stack'[k].next \in {stack[k].next, stack[k].next + 1}
    <3> TAKE k \in DOMAIN stack'
    <3>1. k \in 1..Len(s) /\ k \in DOMAIN stack /\ k # Len(stack) /\ s[k] = stack[k]
      BY <1>2, <2>1, <2>4
    <3>2. stack'[k].obj = s[k].obj /\ stack'[k].next = IF k = Len(s) THEN s[k].next + 1 ELSE s[k].next
      BY <2>3, <3>1
    <3> QED BY <3>1, <3>2
  <2>8. \A k \in DOMAIN stack' : stack[k].next \in Nat /\ stack'[k].next \in Nat
    BY <1>1, <2>7
  <2> QED BY <1>1, <1>2, <1>5, <2>2, <2>3, <2>4, <2>6, <2>7, <2>8
<1> QED BY <1>4, <1>5

\* A withdrawn declaration leaves an error with whoever may refer to it.
LEMMA AbandonHolds ==
    ASSUME SchemaInv, Abandon
    PROVE  SchemaInv'
<1> PICK o : o = Top.obj
  OBVIOUS
<1> PICK m : m = heap[o].msg
  OBVIOUS
<1>1. /\ TypeInv /\ TypeOK /\ PropsMade /\ ObjectsHeld /\ RpcHeld /\ GraphHeld /\ ReparseHeld
      /\ CallsHeld /\ NoReentry /\ StagedHeld /\ StagedComplete
  BY DEF SchemaInv, TypeInv, ObjectsHeld
<1>2. /\ stack' \in Seq(Frame) /\ Len(stack) \in DOMAIN stack /\ 1 \in DOMAIN stack
      /\ stack # <<>> /\ Top = stack[Len(stack)]
      /\ \A k \in DOMAIN stack' :
            /\ k \in DOMAIN stack /\ k # Len(stack)
            /\ stack'[k].obj = stack[k].obj /\ stack[k].next \in Nat /\ stack'[k].next \in Nat
            /\ stack'[k].next \in {stack[k].next, stack[k].next + 1}
      /\ \A k \in DOMAIN stack : k # Len(stack) => k \in DOMAIN stack'
      /\ stack' # <<>> => pos' = pos /\ 1 \in DOMAIN stack'
      /\ pos' \in Nat \ {0} /\ errs' \subseteq ErrorRec /\ ~FileOk(file)'
  BY AbandonIs
<1>3. /\ staged' = [staged EXCEPT ![m] = 0] /\ file # None /\ file \notin parsed
      /\ UNCHANGED <<schema, rpcOpts, heap, graph, file, calls, parsed>>
  BY <1>1, <1>2, NotParsed DEF Abandon
<1>4. o \in DOMAIN heap /\ heap[o].key = 0 /\ staged[m] = o /\ m \in Msg /\ o # 0
  BY <1>1, <1>2, OnStackIs
<1>5. \A n \in Msg : staged'[n] = IF n = m THEN 0 ELSE staged[n]
  BY <1>1, <1>3, <1>4 DEF TypeOK
<1>6. \A k \in DOMAIN stack : k # Len(stack) => heap[stack[k].obj].msg \in Msg \ {m} /\ stack[k].obj # o
  BY <1>1, <1>2, OnStackIs
<1>7. TypeInv'
  <2>1. Len(heap) \in Nat
    BY <1>1 DEF TypeOK
  <2>2. staged' \in [Msg -> 0..Len(heap)]
    <3> PICK S : S = 0..Len(heap)
      OBVIOUS
    <3>1. staged \in [Msg -> S] /\ 0 \in S
      BY <1>1, <2>1 DEF TypeOK
    <3>2. [staged EXCEPT ![m] = 0] \in [Msg -> S]
      BY <3>1
    <3> QED BY <1>3, <3>2
  <2>3. \A k \in DOMAIN stack' : stack'[k].obj \in 1..Len(heap)
    BY <1>1, <1>2 DEF TypeOK
  <2> QED BY <1>1, <1>2, <1>3, <2>2, <2>3, TypeNext DEF TypeOK
<1>8. ObjectsHeld' /\ RpcHeld' /\ GraphHeld'
  BY <1>1, <1>3, ObjectsKept, RpcsKept, GraphKept
<1>9. CallsHeld'
  <2>1. ASSUME NEW k \in DOMAIN stack'
        PROVE  /\ stack'[k].obj \in DOMAIN heap' /\ heap'[stack'[k].obj].key = 0
               /\ staged'[heap'[stack'[k].obj].msg] = stack'[k].obj
               /\ \A i \in DOMAIN heap'[stack'[k].obj].props : \E j \in 1..(stack'[k].next - 1) :
                     desc[heap'[stack'[k].obj].msg].fields[j].number = heap'[stack'[k].obj].props[i].number
    <3>1. k \in DOMAIN stack /\ k # Len(stack) /\ stack'[k].obj = stack[k].obj
      BY <1>2
    <3>2. /\ stack[k].obj \in DOMAIN heap /\ heap[stack[k].obj].key = 0
          /\ staged[heap[stack[k].obj].msg] = stack[k].obj
          /\ \A i \in DOMAIN heap[stack[k].obj].props : \E j \in 1..(stack[k].next - 1) :
                desc[heap[stack[k].obj].msg].fields[j].number = heap[stack[k].obj].props[i].number
      BY <1>1, <3>1 DEF CallsHeld, FieldsOf
    <3>3. \A j \in 1..(stack[k].next - 1) : j \in 1..(stack'[k].next - 1)
      BY <1>2, SMTT(30)
    <3>4. staged'[heap[stack[k].obj].msg] = stack[k].obj
      BY <1>5, <1>6, <3>1, <3>2
    <3> QED BY <1>3, <3>1, <3>2, <3>3, <3>4
  <2>2. stack' # <<>> => /\ pos' <= Len(MessagesOf[file'])
                         /\ heap'[stack'[1].obj].msg = MessagesOf[file'][pos']
    <3>1. stack' # <<>> => stack'[1].obj = stack[1].obj /\ pos' = pos
      BY <1>2
    <3> QED BY <1>1, <1>2, <1>3, <3>1 DEF CallsHeld, Message
  <2> QED BY <1>3, <2>1, <2>2, CallsNext
<1>10. NoReentry'
  BY <1>1, <1>2, <1>3 DEF NoReentry
<1>11. StagedHeld'
  <2>1. \A n \in Msg : graph[n] # 0 => staged[n] = graph[n] /\ heap[graph[n]].key # 0
    BY <1>1, <1>3 DEF StagedHeld, GraphHeld
  <2>2. \A n \in Msg : graph[n] # 0 => staged'[n] = graph[n]
    BY <1>4, <1>5, <2>1
  <2> QED BY <1>2, <1>3, <2>2 DEF StagedHeld
<1>12. StagedComplete'
  <2>1. ASSUME NEW n \in Msg, staged'[n] # 0
        PROVE  /\ staged'[n] = staged[n] /\ heap[staged[n]].msg = n
               /\ staged[n] \in OnStack' \/ heap[staged[n]].key # 0
    <3>1. /\ n # m /\ staged'[n] = staged[n] /\ heap[staged[n]].msg = n
          /\ staged[n] \in OnStack \/ heap[staged[n]].key # 0
      BY <1>1, <1>3, <1>5, <2>1 DEF StagedComplete
    <3>2. \A k \in DOMAIN stack : stack[k].obj = staged[n] => k # Len(stack)
      BY <1>2, <3>1
    <3>3. CASE staged[n] \in OnStack
      <4>1. PICK k \in DOMAIN stack : stack[k].obj = staged[n]
        BY <3>3 DEF OnStack
      <4>2. k \in DOMAIN stack' /\ stack'[k].obj = staged[n]
        BY <1>2, <3>2, <4>1
      <4>3. staged[n] \in OnStack'
        BY <4>2 DEF OnStack
      <4> QED BY <3>1, <4>3
    <3> QED BY <3>1, <3>3
  <2> QED BY <1>2, <1>3, <2>1 DEF StagedComplete
<1>13. ReparseHeld'
  BY <1>1, <1>3, ReparseKept
<1> QED BY <1>7, <1>8, <1>9, <1>10, <1>11, <1>12, <1>13 DEF SchemaInv, ObjectsHeld

------------------------------------------------------------------------------
(* An entity that is complete.                                             *)

\* A function on the first numbers is a sequence.
LEMMA SequenceOf ==
    ASSUME NEW S, NEW n \in Nat, NEW f \in [1..n -> S]
    PROVE  f \in Seq(S) /\ Len(f) = n /\ DOMAIN f = 1..n
BY SeqDef

\* What linking and the commits make of a prop.
LEMMA NormalizedIs ==
    ASSUME NEW o, NEW x, NEW p \in Prop,
           x = o /\ p \in Linked(o) => Source(o, p.number).from.number \in Number
    PROVE  LET n == Normalized(o, x, p) IN
           /\ n \in Prop
           /\ n.number = p.number /\ n.edge = p.edge /\ n.nullable = p.nullable /\ n.target = p.target
           /\ n.unique <=> p.unique \/ <<x, p.number>> \in MarkedUnique(o)
           /\ n.immutable <=> p.immutable \/ <<x, p.number>> \in MarkedImmutable(o)
           /\ n.inverse = IF x = o /\ p \in Linked(o) THEN <<p.target, Source(o, p.number).from.number>>
                          ELSE p.inverse
<1> PICK u \in BOOLEAN : u <=> p.unique \/ <<x, p.number>> \in MarkedUnique(o)
  OBVIOUS
<1> PICK i \in BOOLEAN : i <=> p.immutable \/ <<x, p.number>> \in MarkedImmutable(o)
  OBVIOUS
<1> PICK v : v = IF x = o /\ p \in Linked(o) THEN <<p.target, Source(o, p.number).from.number>>
                 ELSE p.inverse
  OBVIOUS
<1>1. v \in Nat \X (Number \cup {0})
  BY DEF Prop
<1>2. u = (p.unique \/ <<x, p.number>> \in MarkedUnique(o)) /\ i = (p.immutable \/ <<x, p.number>> \in MarkedImmutable(o))
  BY Zenon
<1>3. Normalized(o, x, p) = [p EXCEPT !.unique = u, !.immutable = i, !.inverse = v]
  BY <1>2, Zenon DEF Normalized
<1>4. [p EXCEPT !.unique = u, !.immutable = i, !.inverse = v] \in Prop
  BY <1>1, ZenonT(30) DEF Prop
<1>5. LET n == [p EXCEPT !.unique = u, !.immutable = i, !.inverse = v] IN
      /\ n.number = p.number /\ n.edge = p.edge /\ n.nullable = p.nullable /\ n.target = p.target
      /\ n.unique = u /\ n.immutable = i /\ n.inverse = v
  BY DEF Prop
<1> QED BY <1>3, <1>4, <1>5

\* The back reference of an edge that is linked, and the prop it names.
LEMMA LinkedIs ==
    ASSUME TypeOK, PropsMade, NEW o \in DOMAIN heap, BackRefErrors(o) = {}, NEW p \in Linked(o)
    PROVE  LET r == Source(o, p.number).from IN
           /\ p \in Edges(o) /\ r.number \in Number
           /\ \E q \in Edges(p.target) : q.number = r.number
<1> PICK r : r = Source(o, p.number).from
  OBVIOUS
<1>1. p \in Edges(o) /\ r # None
  BY DEF Linked
<1>2. Source(o, p.number) \in ToSet(FieldsOf(o)) /\ p.target \in DOMAIN heap /\ heap[o].msg \in Msg /\ schema \in Schema
  BY <1>1, EdgeIs, ObjectTyped DEF TypeOK
<1>3. r.number \in Number
  BY <1>1, <1>2, FieldTyped DEF FieldsOf
<1>4. BackRefError(o, p) = "ok"
  BY <1>1 DEF BackRefErrors
<1>5. r.number \in PropNumbers(p.target) /\ PropOf(p.target, r.number).edge
  BY <1>1, <1>4 DEF BackRefError
<1>6. PropOf(p.target, r.number) \in ToSet(heap[p.target].props) /\ PropOf(p.target, r.number).number = r.number
  BY <1>5 DEF PropNumbers, PropOf
<1>7. PropOf(p.target, r.number) \in Edges(p.target)
  BY <1>5, <1>6 DEF Edges
<1> QED BY <1>1, <1>3, <1>6, <1>7

\* The linking marks no field unique but the key.
LEMMA MarkedField ==
    ASSUME TypeOK, PropsMade, NEW o \in DOMAIN heap, BackRefErrors(o) = {},
           NEW x \in DOMAIN heap, NEW p \in ToSet(heap[x].props), ~p.edge,
           <<x, p.number>> \in MarkedUnique(o) \cup MarkedImmutable(o)
    PROVE  x = o /\ Source(x, p.number).key
<1>1. \A y \in DOMAIN heap : \A q, r \in ToSet(heap[y].props) : q.number = r.number => q = r
  BY PropUnique, Zenon
<1>2. \A q \in Edges(o) : q.number # p.number \/ x # o
  BY <1>1 DEF Edges
<1>3. \A q \in Linked(o) : ~(x = q.target /\ p.number = Source(o, q.number).from.number)
  <2> SUFFICES ASSUME NEW q \in Linked(o), x = q.target, p.number = Source(o, q.number).from.number
               PROVE  FALSE
    OBVIOUS
  <2>1. PICK r \in Edges(x) : r.number = p.number
    BY LinkedIs
  <2> QED BY <1>1, <2>1 DEF Edges
<1>4. \A q \in Linked(o) : q \in Edges(o)
  BY DEF Linked
<1>5. PICK d \in Keys(o) : x = o /\ p.number = d.number
  BY <1>2, <1>3, <1>4 DEF MarkedUnique, MarkedImmutable
<1>6. d \in ToSet(desc[heap[o].msg].fields) /\ d.key
  BY <1>5 DEF Keys, Fields
<1>7. Source(x, p.number) \in ToSet(FieldsOf(x)) /\ Source(x, p.number).number = p.number
  BY SourceIs DEF Made
<1>8. heap[o].msg \in Msg /\ schema \in Schema
  BY ObjectTyped DEF TypeOK
<1>9. Source(x, p.number) = d
  BY <1>5, <1>6, <1>7, <1>8, FieldUnique DEF FieldsOf
<1> QED BY <1>5, <1>6, <1>9

\* An entity without errors has a key.
LEMMA KeyIs ==
    ASSUME TypeOK, NEW o \in DOMAIN heap, KeyErrors(o) = {}
    PROVE  LET d == CHOOSE c \in Keys(o) : TRUE IN d \in Keys(o) /\ d.number \in Number /\ d.number # 0
<1>1. Cardinality(Keys(o)) = 1
  BY DEF KeyErrors
<1>2. Keys(o) # {}
  BY <1>1, FS_EmptySet
<1>3. \A d \in Keys(o) : d \in ToSet(desc[heap[o].msg].fields)
  BY DEF Keys, Fields
<1>4. heap[o].msg \in Msg /\ schema \in Schema
  BY ObjectTyped DEF TypeOK
<1> QED BY <1>2, <1>3, <1>4, FieldTyped

\* The defaults are applied once, however often they are.
LEMMA RpcsIs ==
    ASSUME NEW r \in RpcDesc
    PROVE  /\ RpcDefaults(r) \in RpcDesc /\ RpcDefaults(RpcDefaults(r)) = RpcDefaults(r)
           /\ Rpcs(RpcDefaults(r)) = Rpcs(r)
           /\ Rpcs(r) \subseteq Op \cup {"addMany"}
<1> PICK f : f = [x \in Op |-> IF r.op[x] = "absent" THEN "given" ELSE r.op[x]]
  OBVIOUS
<1>1. f \in [Op -> {"absent", "given", "disabled"}] /\ \A x \in Op : f[x] # "absent"
  BY DEF RpcDesc
<1> PICK e : e = [r EXCEPT !.op = f]
  OBVIOUS
<1>2. e \in RpcDesc /\ e.off = r.off /\ e.crud = r.crud /\ e.many = r.many /\ e.op = f
  BY <1>1 DEF RpcDesc
<1>3. [x \in Op |-> IF e.op[x] = "absent" THEN "given" ELSE e.op[x]] = e.op
  BY <1>1, <1>2
<1>4. [e EXCEPT !.op = e.op] = e
  BY <1>2 DEF RpcDesc
<1>5. RpcDefaults(r) = IF r.off \/ ~r.crud THEN r ELSE e
  BY DEF RpcDefaults
<1>6. RpcDefaults(e) = e
  BY <1>3, <1>4, Zenon DEF RpcDefaults
<1>7. RpcDefaults(r) \in RpcDesc /\ RpcDefaults(RpcDefaults(r)) = RpcDefaults(r)
  BY <1>2, <1>5, <1>6
<1>8. RpcDefaults(r).off = r.off /\ RpcDefaults(r).many = r.many
  BY <1>2, <1>5
<1>9. Rpcs(RpcDefaults(r)) = Rpcs(r)
  BY <1>7, <1>8 DEF Rpcs
<1>10. Rpcs(r) \subseteq Op \cup {"addMany"}
  BY DEF Rpcs
<1> QED BY <1>7, <1>9, <1>10

\* The indexes of a message as its entity has them.
IndexesOf(m) ==
    [k \in DOMAIN desc[m].indexes |->
        [j \in DOMAIN desc[m].indexes[k].refs |-> desc[m].indexes[k].refs[j].number]]

\* They have their type.
LEMMA IndexesTyped ==
    ASSUME schema \in Schema, NEW m \in Msg
    PROVE  IndexesOf(m) \in Seq(Seq(Number))
<1> PICK x : x = desc[m].indexes
  OBVIOUS
<1>1. x \in Seq(IndexDesc)
  BY DescTyped
<1>2. ASSUME NEW k \in DOMAIN x
      PROVE  [j \in DOMAIN x[k].refs |-> x[k].refs[j].number] \in Seq(Number)
  <2> PICK r : r = x[k].refs
    OBVIOUS
  <2>1. x[k] \in IndexDesc
    BY <1>1
  <2>2. r \in Seq(Ref)
    BY <2>1 DEF IndexDesc
  <2>3. Len(r) \in Nat /\ DOMAIN r = 1..Len(r) /\ \A j \in DOMAIN r : r[j] \in Ref
    BY <2>2
  <2>4. \A j \in DOMAIN r : r[j].number \in Number
    BY <2>3 DEF Ref
  <2> QED BY <2>3, <2>4, SequenceOf
<1>3. Len(x) \in Nat /\ DOMAIN x = 1..Len(x)
  BY <1>1
<1>4. IndexesOf(m) \in [1..Len(x) -> Seq(Number)]
  BY <1>2, <1>3 DEF IndexesOf
<1> QED BY <1>3, <1>4, SequenceOf

\* What Complete needs to be safe.
LEMMA CompletedFrom ==
    ASSUME SchemaInv, Complete
    PROVE  LET o == Top.obj IN
           /\ TypeInv /\ TypeOK /\ PropsMade /\ InverseHeld /\ KeyHeld /\ ObjectsHeld
           /\ RpcHeld /\ GraphHeld /\ ReparseHeld
           /\ CallsHeld /\ NoReentry /\ StagedHeld /\ StagedComplete
           /\ o \in DOMAIN heap /\ heap[o].key = 0 /\ heap[o].msg \in Msg
           /\ Top.errs = {} /\ KeyErrors(o) = {} /\ BackRefErrors(o) = {}
           /\ stack # <<>> /\ file # None /\ file \notin parsed
           /\ UNCHANGED <<schema, graph, staged, file, errs, calls, parsed>>
<1>1. /\ TypeInv /\ TypeOK /\ PropsMade /\ InverseHeld /\ KeyHeld /\ ObjectsHeld
      /\ RpcHeld /\ GraphHeld /\ ReparseHeld
      /\ CallsHeld /\ NoReentry /\ StagedHeld /\ StagedComplete
  BY DEF SchemaInv, TypeInv, ObjectsHeld
<1>2. /\ EntityErrors(Top.obj, Top.errs) = {} /\ stack # <<>>
      /\ UNCHANGED <<schema, graph, staged, file, errs, calls, parsed>>
  BY DEF Complete, Leaving
<1>3. Top.errs = {} /\ KeyErrors(Top.obj) = {} /\ BackRefErrors(Top.obj) = {}
  BY <1>2, NoErrors
<1>4. Len(stack) \in DOMAIN stack /\ Top = stack[Len(stack)]
  BY <1>1, <1>2, TopTyped
<1>5. Top.obj \in DOMAIN heap /\ heap[Top.obj].key = 0 /\ heap[Top.obj].msg \in Msg
  BY <1>1, <1>4, OnStackIs
<1>6. file # None /\ file \notin parsed
  BY <1>1, <1>2, NotParsed
<1> QED BY <1>1, <1>2, <1>3, <1>5, <1>6

\* The objects after an entity is complete.
LEMMA CompletedHeap ==
    ASSUME SchemaInv, Complete
    PROVE  LET o == Top.obj
               N(x, k) == Normalized(o, x, heap[x].props[k])
           IN
           /\ heap' \in Seq(Entity) /\ Len(heap') = Len(heap) /\ DOMAIN heap' = DOMAIN heap
           /\ \A x \in DOMAIN heap :
                 /\ heap'[x].msg = heap[x].msg /\ DOMAIN heap'[x].props = DOMAIN heap[x].props
                 /\ \A k \in DOMAIN heap[x].props : heap'[x].props[k] = N(x, k)
                 /\ x # o => /\ heap'[x].key = heap[x].key /\ heap'[x].indexes = heap[x].indexes
                             /\ heap'[x].rpcs = heap[x].rpcs
                             /\ heap'[x] = [heap[x] EXCEPT !.props = [k \in DOMAIN heap[x].props |-> N(x, k)]]
           /\ heap'[o].key = (CHOOSE d \in Keys(o) : TRUE).number
           /\ heap'[o].rpcs = Rpcs(rpcOpts[heap[o].msg])
<1> PICK o : o = Top.obj
  OBVIOUS
<1> PICK m : m = heap[o].msg
  OBVIOUS
<1>1. /\ TypeInv /\ TypeOK /\ PropsMade /\ o \in DOMAIN heap /\ heap[o].key = 0 /\ m \in Msg
      /\ Top.errs = {} /\ KeyErrors(o) = {} /\ BackRefErrors(o) = {}
      /\ rpcOpts[m] \in RpcDesc /\ schema \in Schema /\ DOMAIN heap = 1..Len(heap) /\ Len(heap) \in Nat
  BY CompletedFrom DEF TypeOK
<1> DEFINE P(x) == [k \in DOMAIN heap[x].props |-> Normalized(o, x, heap[x].props[k])]
           e(x) == [heap[x] EXCEPT !.props = P(x)]
           c == [msg |-> m, props |-> P(o), key |-> (CHOOSE d \in Keys(o) : TRUE).number,
                 indexes |-> IndexesOf(m), rpcs |-> Rpcs(rpcOpts[m])]
<1>2. heap' = [x \in DOMAIN heap |-> IF x # o THEN e(x) ELSE c]
  BY DEF Complete, IndexesOf
<1>3. \A x \in DOMAIN heap : P(x) \in Seq(Prop)
  <2> TAKE x \in DOMAIN heap
  <2>1. heap[x].props \in Seq(Prop)
    BY <1>1, ObjectTyped
  <2>2. \A k \in DOMAIN heap[x].props : Normalized(o, x, heap[x].props[k]) \in Prop
    <3>1. \A p \in Linked(o) : Source(o, p.number).from.number \in Number
      BY <1>1, LinkedIs
    <3>2. \A k \in DOMAIN heap[x].props : heap[x].props[k] \in Prop
      BY <2>1
    <3> QED BY <3>1, <3>2, NormalizedIs
  <2>3. Len(heap[x].props) \in Nat /\ DOMAIN heap[x].props = 1..Len(heap[x].props)
    BY <2>1
  <2> QED BY <2>2, <2>3, SequenceOf
<1>4. \A x \in DOMAIN heap : DOMAIN P(x) = DOMAIN heap[x].props
                             /\ \A k \in DOMAIN heap[x].props : P(x)[k] = Normalized(o, x, heap[x].props[k])
  OBVIOUS
<1>5. c \in Entity
  <2>1. (CHOOSE d \in Keys(o) : TRUE).number \in Number
    BY <1>1, KeyIs
  <2>2. IndexesOf(m) \in Seq(Seq(Number)) /\ Rpcs(rpcOpts[m]) \subseteq Op \cup {"addMany"}
    BY <1>1, IndexesTyped, RpcsIs
  <2>3. P(o) \in Seq(Prop)
    BY <1>1, <1>3
  <2> HIDE DEF P
  <2> QED BY <1>1, <2>1, <2>2, <2>3 DEF Entity
<1> HIDE DEF P
<1>6. /\ c.msg = m /\ c.props = P(o) /\ c.key = (CHOOSE d \in Keys(o) : TRUE).number
      /\ c.rpcs = Rpcs(rpcOpts[m])
  OBVIOUS
<1>7. \A x \in DOMAIN heap : /\ e(x) \in Entity /\ e(x).msg = heap[x].msg /\ e(x).props = P(x)
                             /\ e(x).key = heap[x].key /\ e(x).indexes = heap[x].indexes
                             /\ e(x).rpcs = heap[x].rpcs
  <2> TAKE x \in DOMAIN heap
  <2>1. heap[x] \in Entity /\ P(x) \in Seq(Prop)
    BY <1>1, <1>3, ObjectTyped
  <2> QED BY <2>1 DEF Entity
<1> HIDE DEF c
<1>8. \A x \in DOMAIN heap : e(x) = [heap[x] EXCEPT !.props = [k \in DOMAIN heap[x].props |-> Normalized(o, x, heap[x].props[k])]]
  BY DEF P
<1> HIDE DEF e
<1>9. heap' \in [1..Len(heap) -> Entity]
  BY <1>1, <1>2, <1>5, <1>7
<1>10. heap' \in Seq(Entity) /\ Len(heap') = Len(heap) /\ DOMAIN heap' = DOMAIN heap
  BY <1>1, <1>9, SequenceOf
<1>11. heap'[o] = c /\ \A x \in DOMAIN heap : x # o => heap'[x] = e(x)
  BY <1>1, <1>2
<1> QED BY <1>1, <1>4, <1>6, <1>7, <1>8, <1>10, <1>11

\* What the completion of o leaves of prop p of object x.
PropLinked(o, x, p, n) ==
    /\ p \in Prop /\ n \in ToSet(heap'[x].props)
    /\ n.number = p.number /\ n.edge = p.edge /\ n.nullable = p.nullable /\ n.target = p.target
    /\ n.unique <=> p.unique \/ <<x, p.number>> \in MarkedUnique(o)
    /\ n.immutable <=> p.immutable \/ <<x, p.number>> \in MarkedImmutable(o)
    /\ n.inverse = IF x = o /\ p \in Linked(o) THEN <<p.target, Source(o, p.number).from.number>> ELSE p.inverse

\* All props of object x after the completion of o.
PropsLinked(o, x) ==
    /\ \A p \in ToSet(heap[x].props) : PropLinked(o, x, p, Normalized(o, x, p))
    /\ \A r \in ToSet(heap'[x].props) : \E p \in ToSet(heap[x].props) : r = Normalized(o, x, p)
    /\ \A p \in Edges(x) : Normalized(o, x, p) \in Edges(x)'
    /\ \A r \in Edges(x)' : \E p \in Edges(x) : r = Normalized(o, x, p)
    /\ \A n : Source(x, n)' = Source(x, n)

\* Every prop is what the linking makes of a prop that was there.
LEMMA CompletedProps ==
    ASSUME SchemaInv, Complete, NEW o, o = Top.obj, NEW x \in DOMAIN heap
    PROVE  PropsLinked(o, x)
<1>1. /\ TypeOK /\ PropsMade /\ o \in DOMAIN heap /\ BackRefErrors(o) = {} /\ schema' = schema
  BY CompletedFrom
<1>2. /\ DOMAIN heap' = DOMAIN heap /\ heap' \in Seq(Entity) /\ heap'[x].msg = heap[x].msg
      /\ DOMAIN heap'[x].props = DOMAIN heap[x].props
      /\ \A k \in DOMAIN heap[x].props : heap'[x].props[k] = Normalized(o, x, heap[x].props[k])
  BY CompletedHeap
<1>3. heap'[x].props \in Seq(Prop) /\ heap[x].props \in Seq(Prop)
  <2>1. heap'[x] \in Entity
    BY <1>2
  <2> QED BY <1>1, <2>1, ObjectTyped DEF Entity
<1>4. \A p \in ToSet(heap[x].props) : Normalized(o, x, p) \in ToSet(heap'[x].props)
  BY <1>2, <1>3 DEF ToSet
<1>5. \A r \in ToSet(heap'[x].props) : \E p \in ToSet(heap[x].props) : r = Normalized(o, x, p)
  BY <1>2, <1>3 DEF ToSet
<1>6. \A p \in Linked(o) : Source(o, p.number).from.number \in Number
  BY <1>1, LinkedIs
<1>7. \A p \in ToSet(heap[x].props) : PropLinked(o, x, p, Normalized(o, x, p))
  <2> TAKE p \in ToSet(heap[x].props)
  <2>1. p \in Prop
    BY <1>3 DEF ToSet
  <2> QED BY <1>4, <1>6, <2>1, NormalizedIs DEF PropLinked
<1>8. \A p \in Edges(x) : Normalized(o, x, p) \in Edges(x)'
  BY <1>4, <1>7 DEF Edges, PropLinked
<1>9. \A r \in Edges(x)' : \E p \in Edges(x) : r = Normalized(o, x, p)
  BY <1>5, <1>7 DEF Edges, PropLinked
<1>10. \A n : Source(x, n)' = Source(x, n)
  BY <1>1, <1>2 DEF Source, desc
<1> QED BY <1>5, <1>7, <1>8, <1>9, <1>10 DEF PropsLinked

\* The objects are as they should be once an entity is complete.
LEMMA CompleteObjects ==
    ASSUME SchemaInv, Complete
    PROVE  ObjectsHeld'
<1> PICK o : o = Top.obj
  OBVIOUS
<1>1. /\ TypeOK /\ PropsMade /\ InverseHeld /\ KeyHeld /\ RpcHeld
      /\ o \in DOMAIN heap /\ heap[o].key = 0 /\ heap[o].msg \in Msg
      /\ KeyErrors(o) = {} /\ BackRefErrors(o) = {} /\ schema' = schema
  BY CompletedFrom
<1>2. /\ DOMAIN heap' = DOMAIN heap
      /\ \A x \in DOMAIN heap :
            /\ heap'[x].msg = heap[x].msg /\ DOMAIN heap'[x].props = DOMAIN heap[x].props
            /\ \A k \in DOMAIN heap[x].props : heap'[x].props[k] = Normalized(o, x, heap[x].props[k])
            /\ x # o => heap'[x].key = heap[x].key /\ heap'[x].rpcs = heap[x].rpcs
      /\ heap'[o].key = (CHOOSE d \in Keys(o) : TRUE).number
      /\ heap'[o].rpcs = Rpcs(rpcOpts[heap[o].msg])
  BY CompletedHeap
<1>3. \A x \in DOMAIN heap : PropsLinked(o, x)
  BY CompletedProps
<1>4. \A x \in DOMAIN heap : \A p \in ToSet(heap[x].props) : PropLinked(o, x, p, Normalized(o, x, p))
  BY <1>3 DEF PropsLinked
<1>8. \A x \in DOMAIN heap : FieldsOf(x)' = FieldsOf(x)
  BY <1>1, <1>2 DEF FieldsOf, desc
<1>5. PropsMade'
  <2>1. ASSUME NEW x \in DOMAIN heap, NEW i \in DOMAIN heap[x].props
        PROVE  \E n, d : heap'[x].props[i] = n /\ d \in ToSet(FieldsOf(x)) /\ Made(n, d)'
    <3> PICK p : p = heap[x].props[i]
      OBVIOUS
    <3> PICK n : n = Normalized(o, x, p)
      OBVIOUS
    <3>1. p \in ToSet(heap[x].props) /\ heap'[x].props[i] = n
      BY <1>1, <1>2, <2>1, ObjectTyped
    <3> PICK d : d = Source(x, p.number)
      OBVIOUS
    <3>2. d \in ToSet(FieldsOf(x)) /\ Made(p, d)
      BY <1>1, <3>1, SourceIs
    <3>3. /\ n.number = p.number /\ n.edge = p.edge /\ n.nullable = p.nullable /\ n.target = p.target
          /\ n.unique <=> p.unique \/ <<x, p.number>> \in MarkedUnique(o)
          /\ n.immutable <=> p.immutable \/ <<x, p.number>> \in MarkedImmutable(o)
      <4>1. PropLinked(o, x, p, n)
        BY <1>4, <3>1
      <4> QED BY <4>1 DEF PropLinked
    <3>4. ~p.edge /\ (d.version \/ d.erased) => ~d.key
      BY <3>2, FieldPasses DEF Made
    <3>5. ~p.edge /\ (d.version \/ d.erased) => <<x, p.number>> \notin MarkedUnique(o) \cup MarkedImmutable(o)
      BY <1>1, <3>1, <3>4, MarkedField
    <3>6. Made(n, d)'
      <4>1. ASSUME p.edge
            PROVE  d.message \in Msg /\ n.target \in DOMAIN heap' /\ heap'[n.target].msg = d.message
        <5>1. d.message \in Msg /\ p.target \in DOMAIN heap /\ heap[p.target].msg = d.message
          BY <3>2, <4>1, Zenon DEF Made
        <5>2. n.target = p.target
          BY <3>3
        <5> QED BY <1>2, <5>1, <5>2
      <4>2. ASSUME ~p.edge, d.version \/ d.erased
            PROVE  ~n.unique /\ ~n.immutable
        BY <3>2, <3>3, <3>5, <4>2 DEF Made
      <4>3. p.number = d.number /\ p.edge = ~IsField(d)
        BY <3>2 DEF Made
      <4>4. ~p.edge => FieldError(d) = "ok" /\ p.nullable = (d.nullable = "yes" \/ d.erased)
        BY <3>2 DEF Made
      <4> QED BY <3>3, <4>1, <4>2, <4>3, <4>4 DEF Made
    <3> QED BY <3>1, <3>2, <3>6
  <2>2. ASSUME NEW x \in DOMAIN heap, NEW i \in DOMAIN heap[x].props, NEW j \in DOMAIN heap[x].props,
               heap'[x].props[i].number = heap'[x].props[j].number
        PROVE  i = j
    <3>1. \A k \in DOMAIN heap[x].props : heap'[x].props[k].number = heap[x].props[k].number
      <4> TAKE k \in DOMAIN heap[x].props
      <4> PICK p : p = heap[x].props[k]
        OBVIOUS
      <4>1. p \in ToSet(heap[x].props) /\ heap'[x].props[k] = Normalized(o, x, p)
        BY <1>1, <1>2, ObjectTyped
      <4>2. Normalized(o, x, p).number = p.number
        BY <1>4, <4>1 DEF PropLinked
      <4> QED BY <4>1, <4>2
    <3> QED BY <1>1, <2>2, <3>1 DEF PropsMade
  <2> QED BY <1>2, <1>8, <2>1, <2>2 DEF PropsMade
<1>6. InverseHeld'
  <2>1. ASSUME NEW x \in DOMAIN heap, NEW r \in Edges(x)', r.inverse # NoInverse
        PROVE  /\ r.inverse[1] = r.target
               /\ \E q \in Edges(r.target)' :
                    /\ q.number = r.inverse[2]
                    /\ (~Source(x, r.number)'.repeated /\ ~Source(r.target, q.number)'.repeated) => r.unique /\ q.unique
    <3>0. \A y \in DOMAIN heap : \A n : Source(y, n)' = Source(y, n)
      BY <1>3 DEF PropsLinked
    <3>1. PICK p \in Edges(x) : r = Normalized(o, x, p)
      BY <1>3 DEF PropsLinked
    <3>2. p \in ToSet(heap[x].props) /\ p.target \in DOMAIN heap
      BY <1>1, EdgeIs
    <3>3. /\ r.number = p.number /\ r.target = p.target
          /\ r.unique <=> p.unique \/ <<x, p.number>> \in MarkedUnique(o)
          /\ r.inverse = IF x = o /\ p \in Linked(o) THEN <<p.target, Source(o, p.number).from.number>>
                         ELSE p.inverse
      BY <1>4, <3>1, <3>2 DEF PropLinked
    <3>4. ASSUME NEW q \in Edges(p.target)
          PROVE  LET n == Normalized(o, p.target, q) IN
                 /\ n \in Edges(p.target)' /\ n.number = q.number
                 /\ n.unique <=> q.unique \/ <<p.target, q.number>> \in MarkedUnique(o)
      <4>1. q \in ToSet(heap[p.target].props)
        BY DEF Edges
      <4> QED BY <1>3, <1>4, <3>2, <4>1, ZenonT(30) DEF PropsLinked, PropLinked
    <3>5. CASE x = o /\ p \in Linked(o)
      <4> PICK b : b = Source(o, p.number).from.number
        OBVIOUS
      <4>1. PICK q \in Edges(p.target) : q.number = b
        BY <1>1, <3>5, LinkedIs
      <4>2. (~Source(x, r.number).repeated /\ ~Source(r.target, q.number).repeated)
                => <<x, p.number>> \in MarkedUnique(o) /\ <<p.target, q.number>> \in MarkedUnique(o)
        BY <3>3, <3>5, <4>1 DEF MarkedUnique
      <4>3. r.inverse[1] = r.target /\ r.inverse[2] = q.number
        BY <3>3, <3>5, <4>1
      <4> QED BY <3>0, <3>2, <3>3, <3>4, <4>1, <4>2, <4>3
    <3>6. CASE ~(x = o /\ p \in Linked(o))
      <4>1. r.inverse = p.inverse
        BY <3>3, <3>6
      <4>2. PICK q \in Edges(p.target) :
                /\ p.inverse[1] = p.target /\ q.number = p.inverse[2]
                /\ (~Source(x, p.number).repeated /\ ~Source(p.target, q.number).repeated) => p.unique /\ q.unique
        BY <1>1, <2>1, <4>1 DEF InverseHeld
      <4>3. PICK n \in Edges(p.target)' : n.number = q.number /\ (q.unique => n.unique)
        BY <3>4
      <4>4. p.unique => r.unique
        BY <3>3
      <4>5. Source(x, r.number)' = Source(x, p.number) /\ Source(r.target, n.number)' = Source(p.target, q.number)
        BY <3>0, <3>2, <3>3, <4>3
      <4> QED BY <3>3, <4>1, <4>2, <4>3, <4>4, <4>5
    <3> QED BY <3>5, <3>6
  <2> QED BY <1>2, <2>1 DEF InverseHeld
<1>7. KeyHeld'
  <2>1. ASSUME NEW x \in DOMAIN heap, heap'[x].key # 0
        PROVE  /\ \A r \in ToSet(heap'[x].props) \ Edges(x)' : r.number = heap'[x].key => r.unique /\ r.immutable
               /\ heap'[x].rpcs = Rpcs(desc[heap[x].msg].rpc)
    <3>1. ASSUME NEW r \in ToSet(heap'[x].props) \ Edges(x)', r.number = heap'[x].key
          PROVE  r.unique /\ r.immutable
      <4>1. PICK p \in ToSet(heap[x].props) : r = Normalized(o, x, p)
        BY <1>3, <3>1 DEF PropsLinked
      <4>2. /\ r.number = p.number /\ r.edge = p.edge
            /\ r.unique <=> p.unique \/ <<x, p.number>> \in MarkedUnique(o)
            /\ r.immutable <=> p.immutable \/ <<x, p.number>> \in MarkedImmutable(o)
        BY <1>4, <4>1 DEF PropLinked
      <4>3. p \notin Edges(x)
        BY <1>3, <3>1, <4>1 DEF PropsLinked
      <4>4. CASE x = o
        <5> PICK d : d = CHOOSE c \in Keys(o) : TRUE
          OBVIOUS
        <5>1. d \in Keys(o) /\ p.number = d.number
          BY <1>1, <1>2, <3>1, <4>2, <4>4, KeyIs
        <5>2. <<x, p.number>> \in MarkedUnique(o) /\ <<x, p.number>> \in MarkedImmutable(o)
          BY <4>4, <5>1 DEF MarkedUnique, MarkedImmutable
        <5> QED BY <4>2, <5>2
      <4>5. CASE x # o
        BY <1>1, <1>2, <2>1, <3>1, <4>2, <4>3, <4>5, ZenonT(30) DEF KeyHeld
      <4> QED BY <4>4, <4>5
    <3>2. heap'[x].rpcs = Rpcs(desc[heap[x].msg].rpc)
      <4>1. CASE x # o
        BY <1>1, <1>2, <2>1, <4>1 DEF KeyHeld
      <4>2. CASE x = o
        <5>1. desc[heap[o].msg].rpc \in RpcDesc
          BY <1>1, DescTyped DEF TypeOK
        <5> QED BY <1>1, <1>2, <4>2, <5>1, RpcsIs DEF RpcHeld
      <4> QED BY <4>1, <4>2
    <3> QED BY <3>1, <3>2
  <2> QED BY <1>1, <1>2, <2>1 DEF KeyHeld, desc
<1> QED BY <1>5, <1>6, <1>7 DEF ObjectsHeld

\* An entity that is complete has its key, and what refers to it is staged.
LEMMA CompleteHolds ==
    ASSUME SchemaInv, Complete
    PROVE  SchemaInv'
<1> PICK o : o = Top.obj
  OBVIOUS
<1> PICK m : m = heap[o].msg
  OBVIOUS
<1>1. /\ TypeInv /\ TypeOK /\ PropsMade /\ RpcHeld /\ GraphHeld /\ ReparseHeld
      /\ CallsHeld /\ NoReentry /\ StagedHeld /\ StagedComplete
      /\ o \in DOMAIN heap /\ heap[o].key = 0 /\ m \in Msg
      /\ Top.errs = {} /\ KeyErrors(o) = {}
      /\ stack # <<>> /\ file # None /\ file \notin parsed
      /\ UNCHANGED <<schema, graph, staged, file, errs, calls, parsed>>
  BY CompletedFrom
<1>2. /\ heap' \in Seq(Entity) /\ Len(heap') = Len(heap) /\ DOMAIN heap' = DOMAIN heap
      /\ \A x \in DOMAIN heap :
            /\ heap'[x].msg = heap[x].msg /\ DOMAIN heap'[x].props = DOMAIN heap[x].props
            /\ \A k \in DOMAIN heap[x].props : heap'[x].props[k] = Normalized(o, x, heap[x].props[k])
            /\ x # o => heap'[x].key = heap[x].key
      /\ heap'[o].key = (CHOOSE d \in Keys(o) : TRUE).number
  BY CompletedHeap
<1>3. heap'[o].key # 0
  BY <1>1, <1>2, KeyIs
<1>4. /\ stack' = Front(stack) /\ pos' = (IF Len(stack) = 1 THEN pos + 1 ELSE pos)
      /\ rpcOpts' = [rpcOpts EXCEPT ![m] = RpcDefaults(rpcOpts[m])]
  BY DEF Complete
<1>5. /\ Len(stack) \in DOMAIN stack /\ Top = stack[Len(stack)] /\ 1 \in DOMAIN stack
      /\ DOMAIN stack = 1..Len(stack) /\ Len(stack) \in Nat \ {0}
  BY <1>1, TopTyped
<1>6. /\ stack' \in Seq(Frame) /\ DOMAIN stack' = 1..(Len(stack) - 1)
      /\ \A k \in DOMAIN stack' : k \in DOMAIN stack /\ k # Len(stack) /\ stack'[k] = stack[k]
      /\ \A k \in DOMAIN stack : k # Len(stack) => k \in DOMAIN stack'
      /\ stack' = <<>> <=> Len(stack) = 1
  <2>1. stack \in Seq(Frame)
    BY <1>1 DEF TypeInv
  <2>2. /\ stack' \in Seq(Frame) /\ Len(stack') = Len(stack) - 1
        /\ \A k \in 1..(Len(stack) - 1) : stack'[k] = stack[k]
        /\ stack' = <<>> <=> Len(stack) = 1
    BY <1>1, <1>4, <2>1, FrontIs
  <2> QED BY <1>5, <2>2
<1>7. \A k \in DOMAIN stack' : stack[k].obj \in DOMAIN heap /\ stack[k].obj # o
  BY <1>1, <1>5, <1>6, OnStackIs
<1>8. TypeInv'
  <2>1. pos' \in Nat \ {0}
    BY <1>1, <1>4 DEF TypeOK
  <2>2. rpcOpts' \in [Msg -> RpcDesc]
    <3>1. rpcOpts \in [Msg -> RpcDesc] /\ RpcDefaults(rpcOpts[m]) \in RpcDesc
      BY <1>1, RpcsIs DEF TypeOK
    <3> QED BY <1>4, <3>1
  <2>3. \A k \in DOMAIN stack' : stack'[k].obj \in 1..Len(heap')
    BY <1>1, <1>2, <1>6 DEF TypeOK
  <2> QED BY <1>1, <1>2, <1>6, <2>1, <2>2, <2>3, TypeNext DEF TypeInv, TypeOK
<1>9. ObjectsHeld'
  BY CompleteObjects
<1>10. RpcHeld'
  <2>1. \A n \in Msg : rpcOpts'[n] = IF n = m THEN RpcDefaults(rpcOpts[m]) ELSE rpcOpts[n]
    BY <1>1, <1>4 DEF TypeOK
  <2>2. desc[m].rpc \in RpcDesc
    BY <1>1, DescTyped DEF TypeOK
  <2>3. RpcDefaults(rpcOpts[m]) = RpcDefaults(desc[m].rpc)
    BY <1>1, <2>2, RpcsIs DEF RpcHeld
  <2> QED BY <1>1, <2>1, <2>3 DEF RpcHeld, desc
<1>11. CallsHeld'
  <2>1. ASSUME NEW k \in DOMAIN stack'
        PROVE  /\ stack'[k].obj \in DOMAIN heap' /\ heap'[stack'[k].obj].key = 0
               /\ staged'[heap'[stack'[k].obj].msg] = stack'[k].obj
               /\ \A i \in DOMAIN heap'[stack'[k].obj].props : \E j \in 1..(stack'[k].next - 1) :
                     desc[heap'[stack'[k].obj].msg].fields[j].number = heap'[stack'[k].obj].props[i].number
    <3> PICK x : x = stack[k].obj
      OBVIOUS
    <3>1. k \in DOMAIN stack /\ stack'[k] = stack[k] /\ x \in DOMAIN heap /\ x # o
      BY <1>6, <1>7
    <3>2. /\ heap[x].key = 0 /\ staged[heap[x].msg] = x
          /\ \A i \in DOMAIN heap[x].props : \E j \in 1..(stack[k].next - 1) :
                desc[heap[x].msg].fields[j].number = heap[x].props[i].number
      BY <1>1, <3>1 DEF CallsHeld, FieldsOf
    <3>3. \A i \in DOMAIN heap[x].props : heap'[x].props[i].number = heap[x].props[i].number
      <4> TAKE i \in DOMAIN heap[x].props
      <4> PICK p : p = heap[x].props[i]
        OBVIOUS
      <4>1. p \in ToSet(heap[x].props) /\ heap'[x].props[i] = Normalized(o, x, p)
        BY <1>1, <1>2, <3>1, ObjectTyped
      <4>2. PropLinked(o, x, p, Normalized(o, x, p))
        BY <3>1, <4>1, CompletedProps DEF PropsLinked
      <4> QED BY <4>1, <4>2 DEF PropLinked
    <3>4. heap'[x].msg = heap[x].msg /\ heap'[x].key = 0 /\ DOMAIN heap'[x].props = DOMAIN heap[x].props
      BY <1>2, <3>1, <3>2
    <3> QED BY <1>1, <1>2, <3>1, <3>2, <3>3, <3>4
  <2>2. stack' # <<>> => /\ pos' <= Len(MessagesOf[file'])
                         /\ heap'[stack'[1].obj].msg = MessagesOf[file'][pos']
    <3> SUFFICES ASSUME stack' # <<>>
                 PROVE  /\ pos <= Len(MessagesOf[file])
                        /\ heap'[stack'[1].obj].msg = MessagesOf[file][pos]
      BY <1>1, <1>4, <1>6
    <3>1. 1 \in DOMAIN stack' /\ stack'[1] = stack[1] /\ stack[1].obj \in DOMAIN heap
      BY <1>5, <1>6, <1>7
    <3> QED BY <1>1, <1>2, <3>1 DEF CallsHeld, Message
  <2> QED BY <1>1, <2>1, <2>2, CallsNext
<1>12. NoReentry'
  <2>1. \A k \in DOMAIN stack' : k \in DOMAIN stack /\ heap'[stack'[k].obj].msg = heap[stack[k].obj].msg
    BY <1>2, <1>6, <1>7
  <2> QED BY <1>1, <2>1 DEF NoReentry
<1>13. FileOk(file)' => FileOk(file)
  <2>1. \A k \in DOMAIN stack : stack[k].errs = {} \/ (k \in DOMAIN stack' /\ stack'[k] = stack[k])
    BY <1>1, <1>5, <1>6
  <2> QED BY <1>1, <2>1 DEF FileOk
<1>14. StagedHeld'
  <2>1. MessagesOf[file] \in Seq(Msg) /\ pos \in Nat
    BY <1>1, ParseAssumption DEF TypeOK
  <2>2. ASSUME FileOk(file)', NEW i \in DOMAIN MessagesOf[file], i < pos', desc[MessagesOf[file][i]].entity
        PROVE  staged[MessagesOf[file][i]] # 0
    <3>1. CASE i < pos
      BY <1>1, <1>13, <2>2, <3>1 DEF StagedHeld
    <3>2. CASE i = pos
      <4>1. staged[heap[stack[1].obj].msg] = stack[1].obj /\ stack[1].obj # 0
        BY <1>1, <1>5, OnStackIs
      <4> QED BY <1>1, <3>2, <4>1 DEF CallsHeld, Message
    <3> QED BY <1>4, <2>1, <2>2, <3>1, <3>2
  <2> QED BY <1>1, <2>2 DEF StagedHeld, desc
<1>15. \A x \in DOMAIN heap : \A r \in Edges(x)' : \E p \in Edges(x) :
           r.target = p.target /\ heap'[r.target].msg = heap[p.target].msg
  <2> TAKE x \in DOMAIN heap
  <2> TAKE r \in Edges(x)'
  <2>1. PropsLinked(o, x)
    BY CompletedProps
  <2>2. PICK p \in Edges(x) : r = Normalized(o, x, p)
    BY <2>1 DEF PropsLinked
  <2>3. p \in ToSet(heap[x].props) /\ p.target \in DOMAIN heap
    BY <1>1, EdgeIs
  <2>4. r.target = p.target
    BY <2>1, <2>2, <2>3 DEF PropsLinked, PropLinked
  <2> QED BY <1>2, <2>3, <2>4
<1>16. StagedComplete'
  <2>1. ASSUME NEW n \in Msg, NEW x, x = staged[n], x # 0
        PROVE  /\ heap'[x].msg = n
               /\ x \in OnStack' \/ heap'[x].key # 0
               /\ FileOk(file)' => \A r \in Edges(x)' : staged[heap'[r.target].msg] = r.target
    <3>1. x \in DOMAIN heap
      BY <1>1, <2>1 DEF TypeOK
    <3>2. /\ heap[x].msg = n
          /\ x \in OnStack \/ heap[x].key # 0
          /\ FileOk(file) => \A q \in Edges(x) : staged[heap[q.target].msg] = q.target
      BY <1>1, <2>1 DEF StagedComplete
    <3>3. x \in OnStack /\ x # o => x \in OnStack'
      <4>1. \A k \in DOMAIN stack : stack[k].obj # o => k \in DOMAIN stack' /\ stack'[k].obj = stack[k].obj
        BY <1>5, <1>6
      <4> QED BY <4>1 DEF OnStack
    <3>4. heap'[x].msg = n
      BY <1>2, <3>1, <3>2
    <3>5. x \in OnStack' \/ heap'[x].key # 0
      BY <1>2, <1>3, <3>1, <3>2, <3>3
    <3>6. FileOk(file)' => \A r \in Edges(x)' : staged[heap'[r.target].msg] = r.target
      BY <1>13, <1>15, <3>1, <3>2
    <3> QED BY <3>4, <3>5, <3>6
  <2> QED BY <1>1, <2>1 DEF StagedComplete, Edges
<1>17. GraphHeld'
  <2>1. ASSUME NEW n \in Msg, NEW x, x = graph[n], x # 0
        PROVE  /\ heap'[x].msg = n /\ heap'[x].key # 0
               /\ \A r \in Edges(x)' : graph[heap'[r.target].msg] = r.target
    <3>1. /\ x \in DOMAIN heap /\ heap[x].msg = n /\ heap[x].key # 0
          /\ \A q \in Edges(x) : graph[heap[q.target].msg] = q.target
      BY <1>1, <2>1 DEF TypeOK, GraphHeld
    <3> QED BY <1>2, <1>3, <1>15, <3>1
  <2> QED BY <1>1, <2>1 DEF GraphHeld, Edges
<1>18. ReparseHeld'
  BY <1>1, ReparseKept
<1> QED BY <1>8, <1>9, <1>10, <1>11, <1>12, <1>14, <1>16, <1>17, <1>18 DEF SchemaInv, ObjectsHeld

------------------------------------------------------------------------------
(* The answers of Parse.                                                   *)

\* Return: what is merged is complete and closed, for no error is pending.
LEMMA ReturnHolds ==
    ASSUME SchemaInv, Return
    PROVE  SchemaInv'
<1> USE DEF Return, AtMessages
<1>1. /\ TypeInv /\ TypeOK /\ PropsMade /\ ObjectsHeld /\ RpcHeld /\ GraphHeld /\ ReparseHeld
      /\ CallsHeld /\ NoReentry /\ StagedHeld /\ StagedComplete /\ stack = <<>> /\ file # None
      /\ UNCHANGED <<schema, rpcOpts, heap, staged, pos, errs, stack, calls>>
  BY DEF SchemaInv, TypeInv, ObjectsHeld
<1>2. DOMAIN stack = {} /\ OnStack = {}
  BY <1>1 DEF OnStack
<1>3. file \in File /\ None \notin File /\ parsed \subseteq File /\ graph \in [Msg -> 0..Len(heap)]
      /\ staged \in [Msg -> 0..Len(heap)] /\ MessagesOf[file] \in Seq(Msg) /\ pos \in Nat
  BY <1>1, ParseAssumption DEF TypeOK
<1>4. errs = {} => graph' = staged
  <2> SUFFICES ASSUME errs = {} PROVE graph' = staged
    OBVIOUS
  <2>1. graph' = [m \in Msg |-> IF staged[m] # 0 THEN staged[m] ELSE graph[m]]
    OBVIOUS
  <2>2. \A m \in Msg : (IF staged[m] # 0 THEN staged[m] ELSE graph[m]) = staged[m]
    BY <1>1, <1>3 DEF StagedHeld
  <2> QED BY <1>3, <2>1, <2>2
<1>5. errs # {} => graph' = graph /\ parsed' = parsed
  OBVIOUS
<1>6. parsed' \subseteq File
  BY <1>3
<1>7. TypeInv'
  BY <1>1, <1>3, <1>4, <1>5, <1>6, TypeNext DEF TypeInv, TypeOK
<1>8. ObjectsHeld' /\ RpcHeld'
  BY <1>1, ObjectsKept, RpcsKept
<1>9. CallsHeld' /\ NoReentry' /\ StagedHeld' /\ StagedComplete'
  BY <1>1, <1>2 DEF CallsHeld, NoReentry, StagedHeld, StagedComplete
<1>10. errs = {} => FileOk(file)
  BY <1>2 DEF FileOk
<1>11. GraphHeld'
  <2>1. CASE errs = {}
    <3>1. \A m \in Msg : staged[m] # 0 =>
              /\ heap[staged[m]].msg = m /\ heap[staged[m]].key # 0
              /\ \A p \in Edges(staged[m]) : staged[heap[p.target].msg] = p.target
      BY <1>1, <1>2, <1>10, <2>1 DEF StagedComplete
    <3> QED BY <1>1, <1>4, <2>1, <3>1 DEF GraphHeld, Edges
  <2>2. CASE errs # {}
    BY <1>1, <1>5, <2>2, GraphKept
  <2> QED BY <2>1, <2>2
<1>12. ReparseHeld'
  <2>1. ASSUME NEW f \in parsed', NEW m \in ToSet(MessagesOf[f]), desc[m].entity
        PROVE  graph'[m] # 0
    <3>1. CASE f \in parsed
      <4>1. graph[m] # 0 /\ m \in Msg
        <5>1. MessagesOf[f] \in Seq(Msg)
          BY <1>3, <3>1, ParseAssumption
        <5> QED BY <1>1, <2>1, <3>1, <5>1 DEF ReparseHeld, ReparseFindsAll, ToSet
      <4> QED BY <1>1, <1>4, <1>5, <4>1 DEF StagedHeld
    <3>2. CASE f \notin parsed
      <4>1. f = file /\ errs = {}
        BY <2>1, <3>2
      <4>2. PICK i \in DOMAIN MessagesOf[file] : m = MessagesOf[file][i]
        BY <4>1, <2>1 DEF ToSet
      <4>3. i < pos
        BY <1>3
      <4>4. staged[m] # 0
        BY <1>1, <1>10, <2>1, <4>1, <4>2, <4>3 DEF StagedHeld
      <4> QED BY <1>4, <4>1, <4>4
    <3> QED BY <3>1, <3>2
  <2>2. file' \notin parsed'
    BY <1>3, <1>6
  <2> QED BY <1>1, <2>1, <2>2 DEF ReparseHeld, ReparseFindsAll, desc
<1> QED BY <1>7, <1>8, <1>9, <1>11, <1>12 DEF SchemaInv, ObjectsHeld

------------------------------------------------------------------------------
(* The theorems.                                                           *)

\* Every step keeps the invariant.
LEMMA NextHolds ==
    ASSUME SchemaInv, Next
    PROVE  SchemaInv'
<1>1. ASSUME NEW f \in File, Parse(f)
      PROVE  SchemaInv'
  BY <1>1, ParseHolds
<1>2. CASE PassMessage
  BY <1>2, PassHolds
<1>3. CASE EnterMessage
  BY <1>3, EnterMessageHolds
<1>4. CASE EnterTarget
  BY <1>4, EnterTargetHolds
<1>5. CASE SkipField
  BY <1>5, SkipHolds
<1>6. CASE RefuseField
  BY <1>6, RefuseHolds
<1>7. CASE AddProp
  BY <1>7, AddHolds
<1>8. CASE Abandon
  BY <1>8, AbandonHolds
<1>9. CASE Complete
  BY <1>9, CompleteHolds
<1>10. CASE Return
  BY <1>10, ReturnHolds
<1> QED BY <1>1, <1>2, <1>3, <1>4, <1>5, <1>6, <1>7, <1>8, <1>9, <1>10 DEF Next

\* A step that changes nothing keeps it as well.
LEMMA StutterHolds ==
    ASSUME SchemaInv, UNCHANGED vars
    PROVE  SchemaInv'
<1> USE DEF vars
<1>1. /\ TypeInv /\ ObjectsHeld /\ RpcHeld /\ GraphHeld /\ ReparseHeld
      /\ CallsHeld /\ NoReentry /\ StagedHeld /\ StagedComplete
  BY DEF SchemaInv, ObjectsHeld
<1>2. ObjectsHeld' /\ RpcHeld' /\ GraphHeld'
  BY <1>1, ObjectsKept, RpcsKept, GraphKept
<1>3. TypeInv'
  BY <1>1 DEF TypeInv, TypeOK
<1>4. CallsHeld' /\ NoReentry'
  <2>1. CallsHeld'
    BY <1>1, ZenonT(30) DEF CallsHeld, FieldsOf, Message, desc
  <2>2. NoReentry'
    BY <1>1 DEF NoReentry
  <2> QED BY <2>1, <2>2
<1>5. StagedHeld' /\ StagedComplete'
  BY <1>1 DEF StagedHeld, StagedComplete, FileOk, OnStack, Edges, desc
<1>6. ReparseHeld'
  BY <1>1 DEF ReparseHeld, ReparseFindsAll, desc
<1> QED BY <1>2, <1>3, <1>4, <1>5, <1>6 DEF SchemaInv, ObjectsHeld

\* The inductive invariant holds of every state the parser can be in.
THEOREM SchemaInvariant == Spec => []SchemaInv
<1>1. Init => SchemaInv
  BY InitHolds
<1>2. SchemaInv /\ [Next]_vars => SchemaInv'
  BY NextHolds, StutterHolds
<1> QED BY <1>1, <1>2, PTL DEF Spec

\* Every variable has its type, whatever is parsed (the types of graph.go and entity.go).
THEOREM SchemaTypeCorrect == Spec => []TypeOK
<1>1. SchemaInv => TypeOK
  BY DEF SchemaInv, TypeInv
<1> QED BY <1>1, SchemaInvariant, PTL

\* parseEntity never enters an entity that is being built: cyclic edges end the recursion.
THEOREM RecursionEnds == Spec => []NoReentry
<1>1. SchemaInv => NoReentry
  BY DEF SchemaInv
<1> QED BY <1>1, SchemaInvariant, PTL

\* What is staged is being built or complete, and refers to nothing withdrawn as long as the file
\* has no error.
THEOREM StagedIsComplete == Spec => []StagedComplete
<1>1. SchemaInv => StagedComplete
  BY DEF SchemaInv
<1> QED BY <1>1, SchemaInvariant, PTL

\* A file that was accepted is in the graph, and parsing it again changes nothing.
THEOREM ParsedStays == Spec => []ReparseFindsAll
<1>1. SchemaInv => ReparseFindsAll
  BY DEF SchemaInv, ReparseHeld
<1> QED BY <1>1, SchemaInvariant, PTL

\* An entity in the graph is an object that is complete.
LEMMA InGraphIs ==
    ASSUME SchemaInv, NEW o \in InGraph
    PROVE  /\ o \in DOMAIN heap /\ heap[o].key # 0 /\ heap[o].msg \in Msg /\ graph[heap[o].msg] = o
           /\ \A p \in Edges(o) : graph[heap[p.target].msg] = p.target
<1>1. PICK m \in Msg : o = graph[m] /\ o # 0
  BY DEF InGraph
<1>2. o \in DOMAIN heap
  BY <1>1 DEF SchemaInv, TypeInv, TypeOK
<1> QED BY <1>1, <1>2 DEF SchemaInv, GraphHeld

\* The graph is closed: an edge of it points to an object of it, and so does the inverse.
THEOREM GraphStaysClosed == Spec => []GraphClosed
<1>1. ASSUME SchemaInv, NEW o \in InGraph
      PROVE  /\ graph[heap[o].msg] = o /\ heap[o].key # 0
             /\ \A p \in Edges(o) :
                   /\ p.target \in InGraph
                   /\ p.inverse # NoInverse =>
                         p.inverse[1] = p.target /\ \E q \in Edges(p.target) : q.number = p.inverse[2]
  <2>1. /\ o \in DOMAIN heap /\ heap[o].key # 0 /\ graph[heap[o].msg] = o
        /\ \A p \in Edges(o) : graph[heap[p.target].msg] = p.target
        /\ TypeOK /\ PropsMade /\ InverseHeld
    BY <1>1, InGraphIs DEF SchemaInv, TypeInv
  <2>2. ASSUME NEW p \in Edges(o)
        PROVE  p.target \in InGraph
    <3>1. p.target \in DOMAIN heap /\ heap[p.target].msg \in Msg
      BY <2>1, EdgeIs
    <3>2. p.target # 0
      BY <2>1, <3>1, ObjectTyped
    <3> QED BY <2>1, <3>1, <3>2 DEF InGraph
  <2> QED BY <2>1, <2>2 DEF InverseHeld
<1>2. SchemaInv => GraphClosed
  BY <1>1 DEF GraphClosed
<1> QED BY <1>2, SchemaInvariant, PTL

\* Two singular ends of a relation are both unique.
THEOREM SingularEndsAreUnique == Spec => []OneToOne
<1>1. ASSUME SchemaInv, NEW o \in InGraph, NEW p \in Edges(o), p.inverse # NoInverse,
             ~Source(o, p.number).repeated, ~Source(p.target, p.inverse[2]).repeated
      PROVE  p.unique /\ PropOf(p.target, p.inverse[2]).unique
  <2>1. o \in DOMAIN heap /\ TypeOK /\ PropsMade /\ InverseHeld
    BY <1>1, InGraphIs DEF SchemaInv, TypeInv
  <2>2. PICK q \in Edges(p.target) : q.number = p.inverse[2] /\ p.unique /\ q.unique
    BY <1>1, <2>1 DEF InverseHeld
  <2>3. p.target \in DOMAIN heap /\ q \in ToSet(heap[p.target].props)
    BY <2>1, EdgeIs DEF Edges
  <2>4. \A r \in ToSet(heap[p.target].props) : r.number = p.inverse[2] => r = q
    BY <2>1, <2>2, <2>3, PropUnique
  <2>5. PropOf(p.target, p.inverse[2]) = q
    BY <2>2, <2>3, <2>4 DEF PropOf
  <2> QED BY <2>2, <2>5
<1>2. SchemaInv => OneToOne
  BY <1>1 DEF OneToOne
<1> QED BY <1>2, SchemaInvariant, PTL

\* The key is unique and immutable, and the stamps are neither.
THEOREM KeyAndStampsHold == Spec => []KeyAndStamps
<1>1. ASSUME SchemaInv, NEW o \in InGraph, NEW p \in ToSet(heap[o].props) \ Edges(o)
      PROVE  LET d == Source(o, p.number)
             IN  /\ p.number = heap[o].key => p.unique /\ p.immutable
                 /\ d.version => ~p.unique /\ ~p.immutable /\ (IsNullable(o, p) => d.optional)
                 /\ d.erased => ~p.unique /\ ~p.immutable /\ (IsNullable(o, p) \/ d.repeated)
  <2> PICK d : d = Source(o, p.number)
    OBVIOUS
  <2>1. o \in DOMAIN heap /\ heap[o].key # 0 /\ TypeOK /\ PropsMade /\ KeyHeld
    BY <1>1, InGraphIs DEF SchemaInv, TypeInv
  <2>2. Made(p, d) /\ ~p.edge
    BY <2>1, SourceIs DEF Edges
  <2>3. /\ FieldError(d) = "ok" /\ p.nullable = (d.nullable = "yes" \/ d.erased)
        /\ d.version \/ d.erased => ~p.unique /\ ~p.immutable
    BY <2>2 DEF Made
  <2>4. d.version => (IsNullable(o, p) => d.optional)
    BY <2>2, <2>3, FieldPasses DEF IsNullable
  <2>5. d.erased => IsNullable(o, p) \/ d.repeated
    BY <2>3 DEF IsNullable
  <2>6. p.number = heap[o].key => p.unique /\ p.immutable
    BY <2>1 DEF KeyHeld
  <2> QED BY <2>3, <2>4, <2>5, <2>6
<1>2. SchemaInv => KeyAndStamps
  BY <1>1 DEF KeyAndStamps
<1> QED BY <1>2, SchemaInvariant, PTL

\* The rpcs are those the options ask for, however often they were read.
THEOREM RpcsAreDeclared == Spec => []RpcsAsDeclared
<1>1. ASSUME NEW r \in RpcDesc
      PROVE  /\ r.off => Rpcs(r) = {}
             /\ ~r.off => \A x \in Op : x \in Rpcs(r) <=> r.op[x] = "given" \/ (r.crud /\ r.op[x] = "absent")
             /\ ~r.off => ("addMany" \in Rpcs(r) <=> r.many /\ "add" \in Rpcs(r))
  <2> PICK f : f = [x \in Op |-> IF r.op[x] = "absent" THEN "given" ELSE r.op[x]]
    OBVIOUS
  <2>1. r.op \in [Op -> {"absent", "given", "disabled"}] /\ "add" \in Op /\ "addMany" \notin Op
    BY DEF RpcDesc, Op
  <2>2. [r EXCEPT !.op = f].op = f
    BY DEF RpcDesc
  <2>3. RpcDefaults(r).op = IF r.off \/ ~r.crud THEN r.op ELSE f
    BY <2>2 DEF RpcDefaults
  <2>4. ~r.off => \A x \in Op : RpcDefaults(r).op[x] = "given" <=> r.op[x] = "given" \/ (r.crud /\ r.op[x] = "absent")
    BY <2>1, <2>3
  <2> QED BY <2>1, <2>4 DEF Rpcs
<1>2. ASSUME SchemaInv, NEW o \in InGraph
      PROVE  heap[o].rpcs = Rpcs(desc[heap[o].msg].rpc) /\ desc[heap[o].msg].rpc \in RpcDesc
  BY <1>2, InGraphIs, DescTyped DEF SchemaInv, TypeInv, TypeOK, KeyHeld
<1>3. SchemaInv => RpcsAsDeclared
  BY <1>1, <1>2 DEF RpcsAsDeclared
<1> QED BY <1>3, SchemaInvariant, PTL

------------------------------------------------------------------------------
(* The parser implements the registry.                                     *)

\* A prop is a function of the names of its fields.
LEMMA PropIsFunction ==
    ASSUME NEW p \in Prop
    PROVE  /\ p = [x \in DOMAIN p |-> p[x]]
           /\ DOMAIN p = {"number", "edge", "unique", "nullable", "immutable", "target", "inverse"}
BY DEF Prop

\* What a prop is but for being unique.
LEMMA NotUniqueIs ==
    ASSUME NEW p \in Prop
    PROVE  [p EXCEPT !.unique = FALSE] = [x \in DOMAIN p |-> IF x = "unique" THEN FALSE ELSE p[x]]
BY DEF Prop

\* Two props that differ in being unique at most are the same otherwise.
LEMMA SameButUnique ==
    ASSUME NEW p \in Prop, NEW q \in Prop,
           \A x \in {"number", "edge", "nullable", "immutable", "target", "inverse"} : p[x] = q[x]
    PROVE  [p EXCEPT !.unique = FALSE] = [q EXCEPT !.unique = FALSE]
BY PropIsFunction, NotUniqueIs

\* An entity but for what is unique is one.
LEMMA AnyUniqueTyped ==
    ASSUME TypeOK, NEW o \in DOMAIN heap
    PROVE  AnyUnique(o) \in Entity
<1> PICK ps : ps = heap[o].props
  OBVIOUS
<1> DEFINE f == [k \in DOMAIN ps |-> [ps[k] EXCEPT !.unique = FALSE]]
<1>1. heap[o] \in Entity /\ ps \in Seq(Prop)
  BY ObjectTyped
<1>2. \A k \in DOMAIN ps : [ps[k] EXCEPT !.unique = FALSE] \in Prop
  <2> TAKE k \in DOMAIN ps
  <2>1. ps[k] \in Prop
    BY <1>1
  <2> QED BY <2>1 DEF Prop
<1>3. Len(ps) \in Nat /\ DOMAIN ps = 1..Len(ps)
  BY <1>1
<1>4. f \in Seq(Prop)
  BY <1>2, <1>3, SequenceOf
<1>5. AnyUnique(o) = [heap[o] EXCEPT !.props = f]
  BY DEF AnyUnique
<1> HIDE DEF f
<1> QED BY <1>1, <1>4, <1>5 DEF Entity

\* The registry knows the entities in the graph.
LEMMA KnownIs == TypeOK => Registry!Known = {m \in Msg : graph[m] # 0}
<1> SUFFICES ASSUME TypeOK PROVE Registry!Known = {m \in Msg : graph[m] # 0}
  OBVIOUS
<1>1. ASSUME NEW m \in Msg, graph[m] # 0
      PROVE  ShapeOf(m) # None
  <2>1. graph[m] \in DOMAIN heap /\ graph[m] \in Nat
    BY <1>1 DEF TypeOK
  <2>2. <<graph[m], AnyUnique(graph[m])>> \in Nat \X Entity
    BY <2>1, AnyUniqueTyped
  <2> QED BY <1>1, <2>2, NoneAssumption DEF ShapeOf
<1>2. \A m \in Msg : graph[m] = 0 => ShapeOf(m) = None
  BY DEF ShapeOf
<1> QED BY <1>1, <1>2 DEF Registry!Known

\* An edge in the graph refers to an entity in the graph.
LEMMA RefersIs ==
    SchemaInv => \A m \in Msg : RefersTo(m) \subseteq {n \in Msg : graph[n] # 0}
<1> SUFFICES ASSUME SchemaInv, NEW m \in Msg, graph[m] # 0, NEW p \in Edges(graph[m])
             PROVE  heap[p.target].msg \in Msg /\ graph[heap[p.target].msg] # 0
  BY DEF RefersTo
<1>1. TypeOK /\ PropsMade /\ graph[m] \in DOMAIN heap /\ graph[heap[p.target].msg] = p.target
  BY DEF SchemaInv, TypeInv, TypeOK, GraphHeld
<1>2. p.target \in DOMAIN heap /\ heap[p.target].msg \in Msg
  BY <1>1, EdgeIs
<1> QED BY <1>1, <1>2, ObjectTyped

\* An entity in the graph, and those it refers to, are objects in the graph.
LEMMA GraphObjects ==
    ASSUME SchemaInv, NEW m \in Msg, graph[m] # 0
    PROVE  /\ graph[m] \in InGraph /\ graph[m] \in DOMAIN heap
           /\ \A p \in Edges(graph[m]) : p.target \in InGraph /\ p.target \in DOMAIN heap
<1>1. graph[m] \in InGraph
  BY DEF InGraph
<1>2. /\ TypeOK /\ PropsMade /\ graph[m] \in DOMAIN heap
      /\ \A p \in Edges(graph[m]) : graph[heap[p.target].msg] = p.target
  BY <1>1, InGraphIs DEF SchemaInv, TypeInv
<1>3. \A p \in Edges(graph[m]) : p.target \in DOMAIN heap /\ heap[p.target].msg \in Msg /\ p.target # 0
  <2> TAKE p \in Edges(graph[m])
  <2>1. p.target \in DOMAIN heap /\ heap[p.target].msg \in Msg
    BY <1>2, EdgeIs
  <2> QED BY <1>2, <2>1, ObjectTyped
<1> QED BY <1>1, <1>2, <1>3 DEF InGraph

\* A step that leaves the objects in the graph alone is none of the registry's.
LEMMA RegistryKept ==
    ASSUME SchemaInv, graph' = graph, parsed' = parsed, \A o \in InGraph : heap'[o] = heap[o]
    PROVE  UNCHANGED <<parsed, [m \in Msg |-> ShapeOf(m)], [m \in Msg |-> RefersTo(m)], [m \in Msg |-> UniqueIn(m)]>>
<1>1. ASSUME NEW m \in Msg
      PROVE  ShapeOf(m)' = ShapeOf(m) /\ RefersTo(m)' = RefersTo(m) /\ UniqueIn(m)' = UniqueIn(m)
  <2>1. CASE graph[m] = 0
    BY <2>1 DEF ShapeOf, RefersTo, UniqueIn
  <2>2. CASE graph[m] # 0
    <3>1. /\ heap'[graph[m]] = heap[graph[m]]
          /\ \A p \in Edges(graph[m]) : heap'[p.target] = heap[p.target]
      BY <2>2, GraphObjects
    <3>2. AnyUnique(graph[m])' = AnyUnique(graph[m])
      BY <3>1 DEF AnyUnique
    <3>3. Edges(graph[m])' = Edges(graph[m])
      BY <3>1 DEF Edges
    <3>4. {heap'[p.target].msg : p \in Edges(graph[m])'} = {heap[p.target].msg : p \in Edges(graph[m])}
      BY <3>1, <3>3
    <3> QED BY <2>2, <3>1, <3>2, <3>4 DEF ShapeOf, RefersTo, UniqueIn
  <2> QED BY <2>1, <2>2
<1> QED BY <1>1

\* Nothing that happens to an entity that is being built shows in the graph.
LEMMA BuildingUnseen ==
    ASSUME SchemaInv, \/ \E f \in File : Parse(f)
                      \/ PassMessage \/ EnterMessage \/ EnterTarget
                      \/ SkipField \/ RefuseField \/ AddProp \/ Abandon
    PROVE  graph' = graph /\ parsed' = parsed /\ \A o \in InGraph : heap'[o] = heap[o]
<1>1. TypeInv /\ CallsHeld /\ NoReentry
  BY DEF SchemaInv
<1>2. \A o \in InGraph : o \in DOMAIN heap /\ heap[o].key # 0
  BY InGraphIs
<1>3. CASE (\E f \in File : Parse(f)) \/ PassMessage \/ SkipField \/ RefuseField \/ Abandon
  BY <1>3 DEF Parse, PassMessage, SkipField, RefuseField, Abandon
<1>4. ASSUME NEW m \in Msg, Declare(m)
      PROVE  graph' = graph /\ parsed' = parsed /\ \A o \in InGraph : heap'[o] = heap[o]
  <2>1. \A x \in DOMAIN heap : heap'[x] = heap[x]
    BY <1>1, <1>4, DeclaredHeap
  <2> QED BY <1>2, <1>4, <2>1 DEF Declare
<1>5. CASE EnterMessage
  <2>1. Message \in Msg
    <3>1. file \in File /\ pos \in Nat \ {0} /\ pos <= Len(MessagesOf[file])
      BY <1>1, <1>5 DEF EnterMessage, AtMessages, TypeInv, TypeOK
    <3>2. MessagesOf[file] \in Seq(Msg)
      BY <3>1, ParseAssumption
    <3> QED BY <3>1, <3>2 DEF Message
  <2> QED BY <1>4, <1>5, <2>1 DEF EnterMessage
<1>6. CASE EnterTarget
  <2>1. Current.message \in Msg
    BY <1>1, <1>6, CurrentTyped DEF EnterTarget, Targeted
  <2> QED BY <1>4, <1>6, <2>1 DEF EnterTarget
<1>7. CASE AddProp
  <2>1. stack # <<>> /\ Len(stack) \in DOMAIN stack /\ Top = stack[Len(stack)]
    BY <1>1, <1>7, TopTyped DEF AddProp, InFields
  <2>2. heap[Top.obj].key = 0
    BY <1>1, <2>1, OnStackIs
  <2>3. \A o \in InGraph : o # Top.obj
    BY <1>2, <2>2
  <2> QED BY <1>2, <1>7, <2>3 DEF AddProp
<1> QED BY <1>3, <1>5, <1>6, <1>7

\* Completing an entity may make an edge of an entity in the graph unique, and changes it no further.
LEMMA CompleteUnifies ==
    ASSUME SchemaInv, Complete
    PROVE  Registry!Unify
<1> PICK o : o = Top.obj
  OBVIOUS
<1>1. TypeOK /\ PropsMade /\ o \in DOMAIN heap /\ heap[o].key = 0 /\ graph' = graph /\ parsed' = parsed
  BY CompletedFrom
<1>2. ASSUME NEW m \in Msg, graph[m] # 0
      PROVE  ShapeOf(m)' = ShapeOf(m) /\ RefersTo(m)' = RefersTo(m) /\ UniqueIn(m) \subseteq UniqueIn(m)'
  <2> PICK x : x = graph[m]
    OBVIOUS
  <2>1. /\ x \in DOMAIN heap /\ x # o
        /\ \A p \in Edges(x) : p.target \in DOMAIN heap
    BY <1>1, <1>2, GraphObjects, InGraphIs
  <2>2. /\ \A p \in ToSet(heap[x].props) : PropLinked(o, x, p, Normalized(o, x, p))
        /\ \A p \in Edges(x) : Normalized(o, x, p) \in Edges(x)'
        /\ \A r \in Edges(x)' : \E p \in Edges(x) : r = Normalized(o, x, p)
    BY <2>1, CompletedProps DEF PropsLinked
  <2>3. \A y \in DOMAIN heap : heap'[y].msg = heap[y].msg
    BY CompletedHeap
  <2>4. UniqueIn(m) \subseteq UniqueIn(m)'
    <3>1. ASSUME NEW p \in ToSet(heap[x].props), p.unique
          PROVE  \E q \in ToSet(heap'[x].props) : q.unique /\ q.number = p.number
      <4>1. PropLinked(o, x, p, Normalized(o, x, p))
        BY <2>2
      <4> QED BY <3>1, <4>1, Zenon DEF PropLinked
    <3> QED BY <1>1, <1>2, <3>1, ZenonT(30) DEF UniqueIn
  <2>5. RefersTo(m)' = RefersTo(m)
    <3>1. \A p \in Edges(x) : p \in ToSet(heap[x].props)
      BY DEF Edges
    <3>2. \A p \in Edges(x) : Normalized(o, x, p).target = p.target
      BY <2>2, <3>1 DEF PropLinked
    <3>3. {heap'[r.target].msg : r \in Edges(x)'} = {heap[p.target].msg : p \in Edges(x)}
      BY <2>1, <2>2, <2>3, <3>2
    <3> QED BY <1>1, <1>2, <3>3 DEF RefersTo
  <2>6. AnyUnique(x)' = AnyUnique(x)
    <3> PICK ps : ps = heap[x].props
      OBVIOUS
    <3> DEFINE N(k) == Normalized(o, x, ps[k])
               f == [k \in DOMAIN ps |-> N(k)]
               g == [k \in DOMAIN ps |-> [ps[k] EXCEPT !.unique = FALSE]]
    <3>0. heap'[x] = [heap[x] EXCEPT !.props = [k \in DOMAIN heap[x].props |-> Normalized(o, x, heap[x].props[k])]]
      BY <2>1, CompletedHeap
    <3>1. heap'[x] = [heap[x] EXCEPT !.props = f] /\ heap[x] \in Entity /\ ps \in Seq(Prop)
      BY <1>1, <2>1, <3>0, ObjectTyped
    <3>2. ASSUME NEW k \in DOMAIN ps
          PROVE  [f[k] EXCEPT !.unique = FALSE] = [ps[k] EXCEPT !.unique = FALSE]
      <4> PICK p : p = ps[k]
        OBVIOUS
      <4> PICK n : n = Normalized(o, x, p)
        OBVIOUS
      <4>1. p \in Prop /\ x # o
        BY <2>1, <3>1
      <4>2. <<x, p.number>> \notin MarkedImmutable(o)
        BY <4>1 DEF MarkedImmutable
      <4>3. /\ n \in Prop
            /\ n.number = p.number /\ n.edge = p.edge /\ n.nullable = p.nullable /\ n.target = p.target
            /\ n.immutable <=> p.immutable \/ <<x, p.number>> \in MarkedImmutable(o)
            /\ n.inverse = p.inverse
        <5>1. PropLinked(o, x, p, n)
          BY <2>2, <3>1 DEF ToSet
        <5>2. heap'[x] \in Entity
          BY <2>1, CompletedHeap
        <5>3. n \in Prop
          <6>1. heap'[x].props \in Seq(Prop)
            BY <5>2 DEF Entity
          <6>2. n \in ToSet(heap'[x].props)
            BY <5>1 DEF PropLinked
          <6> QED BY <6>1, <6>2 DEF ToSet
        <5>4. n.number = p.number /\ n.edge = p.edge /\ n.nullable = p.nullable /\ n.target = p.target
          BY <5>1 DEF PropLinked
        <5>5. n.immutable <=> p.immutable \/ <<x, p.number>> \in MarkedImmutable(o)
          BY <5>1 DEF PropLinked
        <5>6. n.inverse = p.inverse
          BY <4>1, <5>1 DEF PropLinked
        <5> QED BY <5>3, <5>4, <5>5, <5>6
      <4>4. n.immutable = p.immutable
        BY <4>1, <4>2, <4>3 DEF Prop
      <4>5. [n EXCEPT !.unique = FALSE] = [p EXCEPT !.unique = FALSE]
        <5>1. \A y \in {"number", "edge", "nullable", "immutable", "target", "inverse"} : n[y] = p[y]
          BY <4>3, <4>4
        <5> QED BY <4>1, <4>3, <5>1, SameButUnique, ZenonT(30)
      <4> QED BY <4>5
    <3> HIDE DEF N
    <3>3. heap'[x].props = f
      BY <3>1 DEF Entity
    <3>4. [k \in DOMAIN f |-> [f[k] EXCEPT !.unique = FALSE]] = g
      BY <3>2
    <3>5. AnyUnique(x)' = [heap'[x] EXCEPT !.props = g]
      BY <3>3, <3>4 DEF AnyUnique
    <3>6. AnyUnique(x) = [heap[x] EXCEPT !.props = g]
      BY DEF AnyUnique
    <3> HIDE DEF f, g
    <3>7. [[heap[x] EXCEPT !.props = f] EXCEPT !.props = g] = [heap[x] EXCEPT !.props = g]
      BY <3>1 DEF Entity
    <3> QED BY <3>1, <3>5, <3>6, <3>7
  <2> QED BY <1>1, <1>2, <2>4, <2>5, <2>6 DEF ShapeOf
<1>3. TypeOK'
  BY CompleteHolds DEF SchemaInv, TypeInv
<1>4. (TypeOK => Registry!Known = {m \in Msg : graph[m] # 0})'
  BY KnownIs, PTL
<1>5. Registry!Known = {m \in Msg : graph[m] # 0} /\ Registry!Known' = Registry!Known
  BY <1>1, <1>3, <1>4, KnownIs
<1> QED BY <1>1, <1>2, <1>5 DEF Registry!Unify, Registry!Keep

\* A file without errors comes to the graph at once, with all it refers to; any other not at all.
LEMMA ReturnAccepts ==
    ASSUME SchemaInv, Return
    PROVE  \/ \E f \in File : Registry!Accept(f)
           \/ UNCHANGED <<graph, heap, parsed>>
<1>1. /\ TypeOK /\ ReparseHeld /\ StagedHeld /\ heap' = heap /\ file # None /\ file \in File
  BY DEF SchemaInv, TypeInv, TypeOK, Return, AtMessages
<1>2. CASE errs # {}
  BY <1>2 DEF Return
<1>3. CASE errs = {} /\ file \in parsed
  <2>1. staged = graph
    BY <1>1, <1>3 DEF ReparseHeld, ReparseFindsAll
  <2>2. graph' = [m \in Msg |-> graph[m]]
    BY <1>3, <2>1 DEF Return
  <2> QED BY <1>1, <1>3, <2>2 DEF Return, TypeOK
<1>4. CASE errs = {} /\ file \notin parsed
  <2>1. graph' = [m \in Msg |-> IF staged[m] # 0 THEN staged[m] ELSE graph[m]] /\ parsed' = parsed \cup {file}
    BY <1>4 DEF Return
  <2>2. \A m \in Msg : graph[m] # 0 => graph'[m] = graph[m]
    BY <1>1, <2>1 DEF StagedHeld
  <2>3. SchemaInv'
    BY ReturnHolds
  <2>4. TypeOK'
    BY <2>3 DEF SchemaInv, TypeInv
  <2>5. /\ (TypeOK => Registry!Known = {m \in Msg : graph[m] # 0})'
        /\ (SchemaInv => \A m \in Msg : RefersTo(m) \subseteq {n \in Msg : graph[n] # 0})'
    BY KnownIs, RefersIs, PTL
  <2>6. Registry!Known = {m \in Msg : graph[m] # 0}
    BY <1>1, KnownIs
  <2>7. \A m \in Msg : graph[m] # 0 =>
            ShapeOf(m)' = ShapeOf(m) /\ RefersTo(m)' = RefersTo(m) /\ UniqueIn(m)' = UniqueIn(m)
    BY <1>1, <2>2 DEF ShapeOf, RefersTo, UniqueIn, AnyUnique, Edges
  <2>8. Registry!Keep
    BY <2>6, <2>7 DEF Registry!Keep
  <2>9. \A m \in Registry!Known' : RefersTo(m)' \subseteq Registry!Known'
    BY <2>3, <2>4, <2>5
  <2>10. Registry!Known' \subseteq Msg
    BY <2>4, <2>5
  <2>11. Registry!Accept(file)
    BY <1>4, <2>1, <2>8, <2>9, <2>10 DEF Registry!Accept
  <2> QED BY <1>1, <2>11
<1> QED BY <1>2, <1>3, <1>4

\* Every step of the parser is a step of the registry, or none.
LEMMA StepRegisters ==
    ASSUME SchemaInv, [Next]_vars
    PROVE  [Registry!Next]_<<parsed, [m \in Msg |-> ShapeOf(m)], [m \in Msg |-> RefersTo(m)], [m \in Msg |-> UniqueIn(m)]>>
<1>1. CASE UNCHANGED vars \/ UNCHANGED <<graph, heap, parsed>>
  BY <1>1, RegistryKept DEF vars
<1>2. CASE Complete
  BY <1>2, CompleteUnifies DEF Registry!Next
<1>3. CASE Return
  BY <1>1, <1>3, ReturnAccepts DEF Registry!Next
<1>4. CASE \/ \E f \in File : Parse(f)
           \/ PassMessage \/ EnterMessage \/ EnterTarget
           \/ SkipField \/ RefuseField \/ AddProp \/ Abandon
  BY <1>4, BuildingUnseen, RegistryKept
<1> QED BY <1>1, <1>2, <1>3, <1>4 DEF Next

\* The parser implements the registry: a file is in the graph entirely or not at all, and an entity
\* in it is never replaced and loses nothing (Parse, Clone and InPlaceMerge).
THEOREM ParserIsRegistry == Spec => GraphIsRegistry
<1>1. Init => Registry!Init
  <2> SUFFICES ASSUME Init PROVE Registry!Init
    OBVIOUS
  <2>1. \A m \in Msg : ShapeOf(m) = None /\ RefersTo(m) = {} /\ UniqueIn(m) = {}
    BY DEF Init, ShapeOf, RefersTo, UniqueIn
  <2> QED BY <2>1 DEF Init, Registry!Init
<1>2. SchemaInv /\ [Next]_vars =>
          [Registry!Next]_<<parsed, [m \in Msg |-> ShapeOf(m)], [m \in Msg |-> RefersTo(m)], [m \in Msg |-> UniqueIn(m)]>>
  BY StepRegisters
<1> QED BY <1>1, <1>2, SchemaInvariant, PTL DEF Spec, GraphIsRegistry, Registry!Spec
=============================================================================
