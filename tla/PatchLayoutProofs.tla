--------------------------- MODULE PatchLayoutProofs ---------------------------
(***************************************************************************)
(* Proofs about the layout of a PatchRequest, for every entity and for     *)
(* every band and cap of the parity the code's have.  The check for a      *)
(* number that is taken is unreachable because every field's number tells  *)
(* which prop, or the ref, it was put for: the invariant Placed.           *)
(***************************************************************************)
EXTENDS PatchLayout, TLAPS

NumberOf(s) ==
    IF s.kind = "value" THEN PatchValueNumber(ent[s.prop].number) ELSE PatchFlagNumber(ent[s.prop].number)

\* Every field is the ref or has the number of a prop the walk has passed.
PlacedSlot(s) ==
    \/ s.kind = "ref" /\ s.prop = 0 /\ s.number = PatchRefNumber /\ part # "ref"
    \/ /\ s.kind # "ref" /\ s.prop \in 1..Len(ent) /\ PatchProp(ent[s.prop])
       /\ s.number = NumberOf(s)
       /\ s.kind = "flag" => Flag(ent[s.prop]) # "none"
       /\ s.prop < at \/ (s.prop = at /\ s.kind = "value" /\ part = "flag")
Placed == \A s \in slots : PlacedSlot(s)

\* The walk is between two fields, and has put those of the props behind it.
HasSlot(S, kind, i) == \E s \in S : s.kind = kind /\ s.prop = i
Progress ==
    /\ part = "ref" => at = 1 /\ slots = {} /\ err = "ok"
    /\ part = "flag" => PatchProp(ent[at]) /\ Flag(ent[at]) # "none"
    /\ err = "ok" /\ part = "flag" => HasSlot(slots, "value", at) /\ ~Unnumberable(ent[at])
    /\ err = "ok" => \A i \in 1..at - 1 : PatchProp(ent[i]) =>
          /\ HasSlot(slots, "value", i)
          /\ Flag(ent[i]) # "none" => HasSlot(slots, "flag", i)
          /\ ~Unnumberable(ent[i])
    /\ err # "ok" => err # "duplicate" /\ \E i \in 1..Len(ent) : PatchProp(ent[i]) /\ Unnumberable(ent[i])

Inv == TypeOK /\ Placed /\ Progress

\* The entity is a sequence of props with numbers of their own.
LEMMA EntityFacts ==
    ASSUME ent \in Entity
    PROVE  /\ Len(ent) \in Nat
           /\ \A i \in 1..Len(ent) :
                 /\ ent[i] \in PropDesc
                 /\ ent[i].number \in Nat /\ ent[i].number > 0
           /\ \A i, j \in 1..Len(ent) : ent[i].number = ent[j].number => i = j
  <1>1. ent \in Seq(PropDesc)
    BY EntityAssumption
  <1>2. Len(ent) \in Nat /\ \A i \in 1..Len(ent) : ent[i] \in PropDesc
    BY <1>1
  <1>3. \A i \in 1..Len(ent) : ent[i].number \in Nat /\ ent[i].number > 0
    BY <1>2 DEF PropDesc
  <1> QED
    BY <1>2, <1>3, EntityAssumption

\* A number of a prop is refused for what it is just when the prop's number is in half the band
\* or above half the cap (patchreq.go:163-166).
LEMMA Arithmetic ==
    ASSUME NEW n \in Nat, n > 0, NEW k, k = PatchValueNumber(n) \/ k = PatchFlagNumber(n)
    PROVE  (k < 1 \/ k > MaxFieldNumber \/ (k >= FirstReserved /\ k <= LastReserved))
           <=> ((FirstReserved \div 2 <= n /\ n <= LastReserved \div 2) \/ n > MaxFieldNumber \div 2)
  BY NumberAssumption, ParityAssumption DEF PatchValueNumber, PatchFlagNumber

\* A layout begins with the ref to put and nothing behind it.
LEMMA InitInv == Init => Inv
  <1> SUFFICES ASSUME Init PROVE Inv
    OBVIOUS
  <1>1. Len(ent) \in Nat
    BY EntityFacts DEF Init
  <1> QED
    BY <1>1 DEF Init, Inv, TypeOK, Placed, Progress

\* No other field has the number of the value, or of the companion, that comes next.
LEMMA Vacant ==
    ASSUME Inv, at \in 1..Len(ent)
    PROVE  /\ part = "value" => PatchValueNumber(ent[at].number) \notin Taken
           /\ part = "flag" => PatchFlagNumber(ent[at].number) \notin Taken
  <1> USE DEF PatchRefNumber, PatchValueNumber, PatchFlagNumber
  <1>1. ent \in Entity
    BY DEF Inv, TypeOK
  <1>2. SUFFICES ASSUME NEW s \in slots
                 PROVE  /\ part = "value" => PatchValueNumber(ent[at].number) # s.number
                        /\ part = "flag" => PatchFlagNumber(ent[at].number) # s.number
    BY DEF Taken
  <1>3. ent[at].number \in Nat /\ ent[at].number > 0
    BY <1>1, EntityFacts
  <1>4. CASE s.kind = "ref"
    <2>1. s.number = 1
      BY <1>4 DEF Inv, Placed, PlacedSlot
    <2> QED
      BY <2>1, <1>3
  <1>5. CASE s.kind # "ref"
    <2>1. /\ s.prop \in 1..Len(ent)
          /\ s.number = NumberOf(s)
          /\ s.prop < at \/ (s.prop = at /\ s.kind = "value" /\ part = "flag")
      BY <1>5 DEF Inv, Placed, PlacedSlot
    <2>2. s.kind \in {"value", "flag"} /\ at \in Nat
      <3>1. s \in Slot
        BY DEF Inv, TypeOK
      <3>2. s.kind \in {"ref", "value", "flag"}
        BY <3>1 DEF Slot
      <3>3. Len(ent) \in Nat
        BY <1>1, EntityFacts
      <3> QED
        BY <3>2, <3>3, <1>5
    <2>3. ent[s.prop].number \in Nat
      BY <2>1, <1>1, EntityFacts
    <2>4. CASE s.prop < at
      <3>1. ent[s.prop].number # ent[at].number
        BY <2>1, <2>2, <2>4, <1>1, EntityFacts
      <3> QED
        BY <3>1, <2>1, <2>2, <2>3, <1>3, SMTT(30) DEF NumberOf
    <2>5. CASE s.prop = at /\ s.kind = "value" /\ part = "flag"
      BY <2>5, <2>1, <1>3 DEF NumberOf
    <2> QED
      BY <2>1, <2>4, <2>5
  <1> QED
    BY <1>4, <1>5

\* The ref takes its number: no other field is there, and the number is in no band.
LEMMA RefInv == Inv /\ PutRef => Inv'
  <1> SUFFICES ASSUME Inv, PutRef PROVE Inv'
    OBVIOUS
  <1>1. ent' = ent /\ at' = at /\ at = 1 /\ part' = "value" /\ slots = {} /\ err = "ok" /\ ent \in Entity
    BY DEF PutRef, Running, Inv, TypeOK, Progress
  <1>2. PutError(PatchRefNumber) = "ok"
    BY <1>1, NumberAssumption DEF PutError, PatchRefNumber, Taken
  <1>3. slots' = {[number |-> PatchRefNumber, kind |-> "ref", prop |-> 0]} /\ err' = "ok"
    BY <1>1, <1>2 DEF PutRef, Put
  <1>4. TypeOK'
    BY <1>1, <1>3, EntityFacts DEF TypeOK, Slot, PatchRefNumber
  <1>5. Placed'
    BY <1>1, <1>3 DEF Placed, PlacedSlot
  <1>6. Progress'
    BY <1>1, <1>3 DEF Progress
  <1> QED
    BY <1>4, <1>5, <1>6 DEF Inv

\* put refuses a prop's number only for its arithmetic.
LEMMA PutErrorFacts ==
    ASSUME Inv, Running, at \in 1..Len(ent), NEW n,
           \/ part = "value" /\ n = PatchValueNumber(ent[at].number)
           \/ part = "flag" /\ n = PatchFlagNumber(ent[at].number)
    PROVE  /\ n \in Nat
           /\ PutError(n) = "ok" => ~Unnumberable(ent[at])
           /\ PutError(n) # "ok" => PutError(n) \in {"not allowed", "reserved"} /\ Unnumberable(ent[at])
  <1>1. n \notin Taken
    BY Vacant
  <1>2. ent[at].number \in Nat /\ ent[at].number > 0
    BY EntityFacts DEF Inv, TypeOK
  <1>3. n \in Nat
    BY <1>2 DEF PatchValueNumber, PatchFlagNumber
  <1>4. (n < 1 \/ n > MaxFieldNumber \/ (n >= FirstReserved /\ n <= LastReserved)) <=> Unnumberable(ent[at])
    BY <1>2, Arithmetic DEF Unnumberable
  <1> QED
    BY <1>1, <1>3, <1>4 DEF PutError

\* A prop that is left out leaves nothing behind.
LEMMA OmitInv == Inv /\ Omit => Inv'
  <1> SUFFICES ASSUME Inv, Omit PROVE Inv'
    OBVIOUS
  <1>1. /\ ent' = ent /\ at' = at + 1 /\ part' = part /\ slots' = slots /\ err' = err
        /\ part = "value" /\ err = "ok" /\ at \in 1..Len(ent) /\ ent \in Entity /\ Len(ent) \in Nat
    BY EntityFacts DEF Omit, Running, Inv, TypeOK
  <1>2. TypeOK'
    BY <1>1 DEF Inv, TypeOK
  <1>3. Placed'
    BY <1>1 DEF Inv, Placed, PlacedSlot, NumberOf
  <1>4. Progress'
    <2>1. \A i \in 1..at : PatchProp(ent[i]) => i \in 1..at - 1
      BY <1>1 DEF Omit
    <2> QED
      BY <2>1, <1>1 DEF Inv, Progress, HasSlot
  <1> QED
    BY <1>2, <1>3, <1>4 DEF Inv

\* The value of a prop is put, or the prop is one that cannot be numbered.
LEMMA ValueInv == Inv /\ PutValue => Inv'
  <1> SUFFICES ASSUME Inv, PutValue PROVE Inv'
    OBVIOUS
  <1> DEFINE last == Flag(ent[at]) = "none"
  <1>0. PICK new : new = [number |-> PatchValueNumber(ent[at].number), kind |-> "value", prop |-> at]
    OBVIOUS
  <1>a. new.number = PatchValueNumber(ent[at].number) /\ new.kind = "value" /\ new.prop = at
    BY <1>0
  <1>1. /\ ent' = ent /\ part = "value" /\ err = "ok" /\ at \in 1..Len(ent) /\ ent \in Entity /\ Len(ent) \in Nat
        /\ PatchProp(ent[at])
    BY EntityFacts DEF PutValue, Running, Inv, TypeOK
  <1>2. /\ last => at' = at + 1 /\ part' = "value"
        /\ ~last => at' = at /\ part' = "flag"
    BY <1>1 DEF PutValue
  <1>3. /\ new \in Slot
        /\ \/ slots' = slots \cup {new} /\ err' = "ok" /\ ~Unnumberable(ent[at])
           \/ slots' = slots /\ err' \in {"not allowed", "reserved"} /\ Unnumberable(ent[at])
    <2>1. Put(new.number, new.kind, at)
      BY <1>a, <1>1 DEF PutValue
    <2>2. Running /\ at \in 1..Len(ent)
      BY <1>1 DEF PutValue
    <2>3. /\ new.number \in Nat
          /\ PutError(new.number) = "ok" => ~Unnumberable(ent[at])
          /\ PutError(new.number) # "ok" =>
                PutError(new.number) \in {"not allowed", "reserved"} /\ Unnumberable(ent[at])
      BY <1>a, <1>1, <2>2, PutErrorFacts
    <2>4. new \in Slot
      <3>1. at \in Nat
        BY <1>1
      <3>2. PatchValueNumber(ent[at].number) \in Nat
        BY <1>a, <2>3, Zenon
      <3> QED
        BY <3>1, <3>2, <1>0 DEF Slot
    <2>5. [number |-> new.number, kind |-> new.kind, prop |-> at] = new
      BY <1>0
    <2> QED
      BY <2>1, <2>3, <2>4, <2>5, <1>1 DEF Put
  <1>4. TypeOK'
    <2>1. slots' \subseteq Slot
      BY <1>3 DEF Inv, TypeOK
    <2> QED
      <3>1. at' \in 1..Len(ent') + 1 /\ part' \in {"value", "flag"} /\ (part' = "flag" => at' <= Len(ent'))
        BY <1>1, <1>2
      <3> QED
        BY <2>1, <3>1, <1>1, <1>3 DEF TypeOK
  <1>5. Placed'
    <2>1. \A s \in slots : PlacedSlot(s)'
      BY <1>1, <1>2 DEF Inv, Placed, PlacedSlot, NumberOf, TypeOK
    <2>2. slots' = slots \cup {new} => PlacedSlot(new)'
      BY <1>a, <1>1, <1>2 DEF PlacedSlot, NumberOf
    <2> QED
      BY <1>3, <2>1, <2>2 DEF Placed
  <1>6. Progress'
    <2>1. CASE err' = "ok"
      <3>1. slots' = slots \cup {new} /\ ~Unnumberable(ent[at])
        BY <1>3, <2>1
      <3>2. HasSlot(slots', "value", at)
        BY <3>1, <1>a DEF HasSlot
      <3>3. \A i \in 1..at - 1 : PatchProp(ent[i]) =>
               HasSlot(slots', "value", i) /\ (Flag(ent[i]) # "none" => HasSlot(slots', "flag", i)) /\ ~Unnumberable(ent[i])
        BY <3>1, <1>1 DEF Inv, Progress, HasSlot
      <3>4. CASE last
        <4>1. \A i \in 1..at' - 1 : i = at \/ i \in 1..at - 1
          BY <3>4, <1>1, <1>2
        <4> QED
          BY <4>1, <3>1, <3>2, <3>3, <3>4, <2>1, <1>1, <1>2 DEF Progress, Unnumberable
      <3>5. CASE ~last
        BY <3>1, <3>2, <3>3, <3>5, <2>1, <1>1, <1>2 DEF Progress, Unnumberable
      <3> QED
        BY <3>4, <3>5
    <2>2. CASE err' # "ok"
      BY <2>2, <1>1, <1>2, <1>3 DEF Progress
    <2> QED
      BY <2>1, <2>2
  <1> QED
    BY <1>4, <1>5, <1>6 DEF Inv

\* The companion of a prop is put, or the prop is one that cannot be numbered.
LEMMA FlagInv == Inv /\ PutFlag => Inv'
  <1> SUFFICES ASSUME Inv, PutFlag PROVE Inv'
    OBVIOUS
  <1>0. PICK new : new = [number |-> PatchFlagNumber(ent[at].number), kind |-> "flag", prop |-> at]
    OBVIOUS
  <1>a. new.number = PatchFlagNumber(ent[at].number) /\ new.kind = "flag" /\ new.prop = at
    BY <1>0
  <1>1. /\ ent' = ent /\ part = "flag" /\ err = "ok" /\ at \in 1..Len(ent) /\ ent \in Entity /\ Len(ent) \in Nat
        /\ PatchProp(ent[at]) /\ Flag(ent[at]) # "none" /\ HasSlot(slots, "value", at)
        /\ at' = at + 1 /\ part' = "value"
    BY EntityFacts DEF PutFlag, Running, Inv, TypeOK, Progress
  <1>2. /\ new \in Slot
        /\ \/ slots' = slots \cup {new} /\ err' = "ok" /\ ~Unnumberable(ent[at])
           \/ slots' = slots /\ err' \in {"not allowed", "reserved"} /\ Unnumberable(ent[at])
    <2>1. Put(new.number, new.kind, at)
      BY <1>a, <1>1 DEF PutFlag
    <2>2. Running /\ at \in 1..Len(ent)
      BY <1>1 DEF PutFlag
    <2>3. /\ new.number \in Nat
          /\ PutError(new.number) = "ok" => ~Unnumberable(ent[at])
          /\ PutError(new.number) # "ok" =>
                PutError(new.number) \in {"not allowed", "reserved"} /\ Unnumberable(ent[at])
      BY <1>a, <1>1, <2>2, PutErrorFacts
    <2>4. new \in Slot
      <3>1. at \in Nat
        BY <1>1
      <3>2. PatchFlagNumber(ent[at].number) \in Nat
        BY <1>a, <2>3, Zenon
      <3> QED
        BY <3>1, <3>2, <1>0 DEF Slot
    <2>5. [number |-> new.number, kind |-> new.kind, prop |-> at] = new
      BY <1>0
    <2> QED
      BY <2>1, <2>3, <2>4, <2>5, <1>1 DEF Put
  <1>3. TypeOK'
    <2>1. slots' \subseteq Slot
      BY <1>2 DEF Inv, TypeOK
    <2> QED
      <3>1. at' \in 1..Len(ent') + 1 /\ part' = "value"
        BY <1>1
      <3> QED
        BY <2>1, <3>1, <1>1, <1>2 DEF TypeOK
  <1>4. Placed'
    <2>1. \A s \in slots : PlacedSlot(s)'
      BY <1>1 DEF Inv, Placed, PlacedSlot, NumberOf, TypeOK
    <2>2. slots' = slots \cup {new} => PlacedSlot(new)'
      BY <1>a, <1>1 DEF PlacedSlot, NumberOf
    <2> QED
      BY <1>2, <2>1, <2>2 DEF Placed
  <1>5. Progress'
    <2>1. CASE err' = "ok"
      <3>1. slots' = slots \cup {new} /\ ~Unnumberable(ent[at])
        BY <1>2, <2>1
      <3>2. HasSlot(slots', "value", at) /\ HasSlot(slots', "flag", at)
        BY <3>1, <1>a, <1>1 DEF HasSlot
      <3>3. \A i \in 1..at - 1 : PatchProp(ent[i]) =>
               HasSlot(slots', "value", i) /\ (Flag(ent[i]) # "none" => HasSlot(slots', "flag", i)) /\ ~Unnumberable(ent[i])
        BY <3>1, <1>1 DEF Inv, Progress, HasSlot
      <3> QED
        <4>1. \A i \in 1..at' - 1 : i = at \/ i \in 1..at - 1
          BY <1>1
        <4> QED
          BY <4>1, <3>1, <3>2, <3>3, <2>1, <1>1 DEF Progress, Unnumberable
    <2>2. CASE err' # "ok"
      BY <2>2, <1>1, <1>2 DEF Progress
    <2> QED
      BY <2>1, <2>2
  <1> QED
    BY <1>3, <1>4, <1>5 DEF Inv

\* Every step keeps what is known of the fields put so far.
LEMMA StepInv == Inv /\ [Next]_vars => Inv'
  <1>1. ASSUME Inv, UNCHANGED vars PROVE Inv'
    BY <1>1, ZenonT(30) DEF vars, Inv, TypeOK, Placed, PlacedSlot, Progress, HasSlot, NumberOf, Unnumberable
  <1> QED
    BY <1>1, RefInv, OmitInv, ValueInv, FlagInv DEF Next

\* The strengthening is an invariant of the layout.
THEOREM Invariant == Spec => []Inv
  BY InitInv, StepInv, PTL DEF Spec

\* Every variable of the layout has its type.
THEOREM LayoutTypes == Spec => []TypeOK
  <1>1. Inv => TypeOK
    BY DEF Inv
  <1> QED
    BY <1>1, Invariant, PTL

\* No two fields of a PatchRequest collide, whatever the entity: the check is never met.
THEOREM NoCollision == Spec => []NoDuplicate
  <1>1. Inv => NoDuplicate
    BY DEF Inv, Progress, NoDuplicate, TypeOK
  <1> QED
    BY <1>1, Invariant, PTL

\* An entity is refused a layout exactly for a prop numbered in half the band or above half the cap.
THEOREM RefusedExactly == Spec => []RefusedByNumber
  <1>1. Inv => RefusedByNumber
    BY DEF Inv, Progress, RefusedByNumber
  <1> QED
    BY <1>1, Invariant, PTL

\* A number tells the half of it and whether it is odd.
LEMMA Halves ==
    ASSUME NEW a \in Nat, NEW b \in Nat, NEW c \in {0, 1}, NEW d \in {0, 1}, 2 * a + c = 2 * b + d
    PROVE  a = b /\ c = d
  OBVIOUS

\* A field of the request is known by its number.
LEMMA SlotOf ==
    ASSUME Inv, NEW s \in slots, NEW t \in slots, s.number = t.number
    PROVE  s = t
  <1>1. ent \in Entity /\ s \in Slot /\ t \in Slot
    BY DEF Inv, TypeOK
  <1>2. PlacedSlot(s) /\ PlacedSlot(t)
    BY DEF Inv, Placed
  <1>3. s.kind = t.kind /\ s.prop = t.prop
    <2>1. s.kind \in {"ref", "value", "flag"} /\ t.kind \in {"ref", "value", "flag"}
      BY <1>1 DEF Slot
    <2>2. ASSUME NEW u \in {s, t}, u.kind # "ref"
          PROVE  /\ u.prop \in 1..Len(ent)
                 /\ ent[u.prop].number \in Nat /\ ent[u.prop].number > 0
                 /\ u.kind = "value" => u.number = 2 * ent[u.prop].number
                 /\ u.kind # "value" => u.number = 2 * ent[u.prop].number + 1
      <3>1. u.prop \in 1..Len(ent) /\ u.number = NumberOf(u)
        BY <1>2, <2>2 DEF PlacedSlot
      <3>2. ent[u.prop].number \in Nat /\ ent[u.prop].number > 0
        BY <3>1, <1>1, EntityFacts
      <3> QED
        BY <3>1, <3>2 DEF NumberOf, PatchValueNumber, PatchFlagNumber
    <2>3. \A u \in {s, t} : u.kind = "ref" => u.number = 1 /\ u.prop = 0
      BY <1>2 DEF PlacedSlot, PatchRefNumber
    <2>4. CASE s.kind = "ref" \/ t.kind = "ref"
      BY <2>1, <2>2, <2>3, <2>4
    <2>5. CASE s.kind # "ref" /\ t.kind # "ref"
      <3>1. s.kind = t.kind /\ ent[s.prop].number = ent[t.prop].number
        <4> DEFINE Odd(u) == IF u.kind = "value" THEN 0 ELSE 1
        <4>1. /\ ent[s.prop].number \in Nat /\ ent[t.prop].number \in Nat
              /\ s.number = 2 * ent[s.prop].number + Odd(s)
              /\ t.number = 2 * ent[t.prop].number + Odd(t)
          BY <2>2, <2>5
        <4>2. Odd(s) \in {0, 1} /\ Odd(t) \in {0, 1}
          OBVIOUS
        <4>3. 2 * ent[s.prop].number + Odd(s) = 2 * ent[t.prop].number + Odd(t)
          BY <4>1
        <4> HIDE DEF Odd
        <4>4. Odd(s) = Odd(t) /\ ent[s.prop].number = ent[t.prop].number
          BY <4>1, <4>2, <4>3, Halves
        <4>5. s.kind = t.kind
          BY <4>4, <2>1, <2>5 DEF Odd
        <4> QED
          BY <4>4, <4>5
      <3> QED
        BY <3>1, <2>2, <2>5, <1>1, EntityFacts
    <2> QED
      BY <2>4, <2>5
  <1> QED
    BY <1>1, <1>3 DEF Slot

\* What a client reads off the numbers: each names one field, and every prop behind the walk that
\* may be written has its own, with its companion's if it has one.
THEOREM NumbersResolve == Spec => []SlotsResolve
  <1>1. ASSUME Inv PROVE SlotsResolve
    <2>0. ent \in Entity /\ Len(ent) \in Nat /\ slots \subseteq Slot /\ at \in 1..Len(ent) + 1
      BY <1>1, EntityFacts DEF Inv, TypeOK
    <2>1. ASSUME NEW s \in slots, NEW t \in slots, s.number = t.number PROVE s = t
      BY <1>1, <2>0, <2>1, SlotOf
    <2>2. ASSUME err = "ok", NEW i \in 1..at - 1
          PROVE  /\ PatchProp(ent[i]) <=>
                       \E s \in slots : s.kind = "value" /\ s.prop = i /\ s.number = PatchValueNumber(ent[i].number)
                 /\ PatchProp(ent[i]) /\ Flag(ent[i]) # "none" <=>
                       \E s \in slots : s.kind = "flag" /\ s.prop = i /\ s.number = PatchFlagNumber(ent[i].number)
      <3>1. \A s \in slots : s.kind = "value" => s.number = PatchValueNumber(ent[s.prop].number) /\ PatchProp(ent[s.prop])
        BY <1>1 DEF Inv, Placed, PlacedSlot, NumberOf
      <3>2. \A s \in slots : s.kind = "flag" =>
               s.number = PatchFlagNumber(ent[s.prop].number) /\ PatchProp(ent[s.prop]) /\ Flag(ent[s.prop]) # "none"
        BY <1>1 DEF Inv, Placed, PlacedSlot, NumberOf
      <3>3. PatchProp(ent[i]) => HasSlot(slots, "value", i) /\ (Flag(ent[i]) # "none" => HasSlot(slots, "flag", i))
        BY <1>1, <2>2 DEF Inv, Progress
      <3> QED
        BY <3>1, <3>2, <3>3 DEF HasSlot
    <2> QED
      BY <2>1, <2>2 DEF SlotsResolve
  <1> QED
    BY <1>1, Invariant, PTL
=============================================================================
