----------------------------- MODULE PatchLayout -----------------------------
(***************************************************************************)
(* PatchLayout of graph/patchreq.go: the fields of an entity's             *)
(* PatchRequest, put one after the other, or the first reason the entity   *)
(* cannot have one.                                                        *)
(***************************************************************************)
EXTENDS PatchSlots, Sequences

CONSTANTS
    Entity,         \* the entities: sequences of props, in declaration order
    FirstReserved, LastReserved,    \* 19000 and 19999 in the code
    MaxFieldNumber                  \* 2^29-1 in the code

PropDesc == [number : Nat \ {0}, immutable : BOOLEAN, erased : BOOLEAN, version : BOOLEAN, nullable : BOOLEAN]

\* protobuf gives the fields of a message distinct, positive numbers.
ASSUME EntityAssumption ==
    /\ Entity \subseteq Seq(PropDesc)
    /\ \A e \in Entity : \A i, j \in 1..Len(e) : e[i].number = e[j].number => i = j

ASSUME NumberAssumption ==
    /\ FirstReserved \in Nat /\ LastReserved \in Nat /\ MaxFieldNumber \in Nat
    /\ 1 < FirstReserved /\ FirstReserved <= LastReserved /\ LastReserved < MaxFieldNumber

\* The first reserved number is even and the others odd: both numbers of a prop are refused, or none.
ASSUME ParityAssumption ==
    FirstReserved % 2 = 0 /\ LastReserved % 2 = 1 /\ MaxFieldNumber % 2 = 1

VARIABLES
    ent,        \* the entity whose request is laid out
    at,         \* the prop that is next
    part,       \* which of its fields is next, or the ref
    slots,      \* the fields so far: [number, kind, prop]
    err         \* the reason there is no layout

vars == <<ent, at, part, slots, err>>

Taken == {s.number : s \in slots}

\* Mutant: the band ends one number early.
PutErrorShort(n) ==
    CASE n < 1 \/ n > MaxFieldNumber -> "not allowed"
      [] n >= FirstReserved /\ n < LastReserved - 1 -> "reserved"
      [] n \in Taken -> "duplicate"
      [] OTHER -> "ok"

PutError(n) ==
    CASE n < 1 \/ n > MaxFieldNumber -> "not allowed"
      [] n >= FirstReserved /\ n <= LastReserved -> "reserved"
      [] n \in Taken -> "duplicate"
      [] OTHER -> "ok"

\* put: the field takes its number, or there is no layout.
Put(n, kind, prop) ==
    \/ PutError(n) = "ok" /\ slots' = slots \cup {[number |-> n, kind |-> kind, prop |-> prop]} /\ err' = err
    \/ PutError(n) # "ok" /\ err' = PutError(n) /\ slots' = slots

Flag(p) == PatchFlagOf(p.version, p.nullable)

\* PatchProps leaves out what cannot be written, and the date of an erased row.
PatchProp(p) == ~p.immutable /\ ~p.erased

Running == err = "ok" /\ (part # "ref" => at <= Len(ent))

PutRef ==
    /\ Running /\ part = "ref"
    /\ Put(PatchRefNumber, "ref", 0)
    /\ part' = "value" /\ UNCHANGED <<ent, at>>

Omit ==
    /\ Running /\ part = "value" /\ ~PatchProp(ent[at])
    /\ at' = at + 1 /\ UNCHANGED <<ent, part, slots, err>>

\* Mutant: a prop without a companion passes over the next one, too.
PutValueSkips ==
    /\ Running /\ part = "value" /\ PatchProp(ent[at])
    /\ Put(PatchValueNumber(ent[at].number), "value", at)
    /\ IF Flag(ent[at]) = "none" THEN at' = at + 2 /\ part' = part ELSE at' = at /\ part' = "flag"
    /\ UNCHANGED ent

\* Mutant: only a version has a companion.
PutValueUnnulled ==
    /\ Running /\ part = "value" /\ PatchProp(ent[at])
    /\ Put(PatchValueNumber(ent[at].number), "value", at)
    /\ IF Flag(ent[at]) # "force" THEN at' = at + 1 /\ part' = part ELSE at' = at /\ part' = "flag"
    /\ UNCHANGED ent

PutValue ==
    /\ Running /\ part = "value" /\ PatchProp(ent[at])
    /\ Put(PatchValueNumber(ent[at].number), "value", at)
    /\ IF Flag(ent[at]) = "none" THEN at' = at + 1 /\ part' = part ELSE at' = at /\ part' = "flag"
    /\ UNCHANGED ent

PutFlag ==
    /\ Running /\ part = "flag"
    /\ Put(PatchFlagNumber(ent[at].number), "flag", at)
    /\ at' = at + 1 /\ part' = "value" /\ UNCHANGED ent

Init == ent \in Entity /\ at = 1 /\ part = "ref" /\ slots = {} /\ err = "ok"

Next == PutRef \/ Omit \/ PutValue \/ PutFlag

Spec == Init /\ [][Next]_vars

----------------------------------------------------------------------------
\* Properties.

Slot == [number : Nat, kind : {"ref", "value", "flag"}, prop : Nat]

\* Every variable has its type.
TypeOK ==
    /\ ent \in Entity /\ at \in 1..Len(ent) + 1
    /\ part \in {"ref", "value", "flag"}
    /\ part = "flag" => at <= Len(ent)
    /\ slots \subseteq Slot
    /\ err \in {"ok", "not allowed", "reserved", "duplicate"}

\* "Slots cannot collide" (patchreq.go:158): the duplicate check is never met.
NoDuplicate == err # "duplicate"

\* A request that comes back is read as it was written: a number means one thing, and of the
\* props the walk has passed each that may be written has its value's number, and its
\* companion's if it has one; no other has a number.
SlotsResolve ==
    /\ \A s, t \in slots : s.number = t.number => s = t
    /\ err = "ok" => \A i \in 1..at - 1 :
          /\ PatchProp(ent[i]) <=>
                \E s \in slots : s.kind = "value" /\ s.prop = i /\ s.number = PatchValueNumber(ent[i].number)
          /\ PatchProp(ent[i]) /\ Flag(ent[i]) # "none" <=>
                \E s \in slots : s.kind = "flag" /\ s.prop = i /\ s.number = PatchFlagNumber(ent[i].number)

\* "Doubling a prop number in [9500, 9999] lands in protobuf's reserved band, and one above
\* 268435455 overflows the cap" (patchreq.go:163-166), and nothing else refuses an entity.
Unnumberable(p) ==
    \/ FirstReserved \div 2 <= p.number /\ p.number <= LastReserved \div 2
    \/ p.number > MaxFieldNumber \div 2

RefusedByNumber ==
    /\ err # "ok" => \E i \in 1..Len(ent) : PatchProp(ent[i]) /\ Unnumberable(ent[i])
    /\ err = "ok" => \A i \in 1..at - 1 : PatchProp(ent[i]) => ~Unnumberable(ent[i])
=============================================================================
