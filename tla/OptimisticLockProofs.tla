------------------------- MODULE OptimisticLockProofs -------------------------
(***************************************************************************)
(* The optimistic lock, for any number of clients, calls and copies of a   *)
(* call.  Everything rests on one relation between a stamp and a content:  *)
(* the row has the version a client has read exactly as long as it holds   *)
(* what the client has read with it.                                       *)
(***************************************************************************)
EXTENDS OptimisticLock, FiniteSetTheorems, TLAPS

\* The copies of a call the row was changed by.
Done(k) == {i \in 1..MaxCopies : jobs[<<k, i>>].step = "done"}

\* A client has read stamp v with content b.
HasRead(c, v, b) ==
    /\ b \in seen[c] /\ b \in Nat /\ b <= content
    /\ v \in Stamp /\ v <= clock
    /\ (row # None /\ row.ver = v) <=> b = content

\* A row has the content there is, and a stamp that was given.
RowInv == row # None => row.ver <= clock /\ row.content = content

\* What a client holds it has read.
ViewInv == \A c \in Client : view[c] # None => HasRead(c, view[c].ver, view[c].content)

\* A call relies on what its client has read.
CallInv ==
    \A k \in Call : calls[k] # None /\ calls[k].ver # None => HasRead(k[1], calls[k].ver, calls[k].basis)

\* A copy that was sent is of a call that was made; a statement assigns no version, and tests the
\* one its call relies on; one that missed, or another copy that was applied, is one too late.
JobInv ==
    \A j \in Copy :
        /\ jobs[j].step # "unsent" => calls[j[1]] # None
        /\ jobs[j].step = "statement" => jobs[j].doc.writes = None
        /\ (jobs[j].step \in {"document", "statement"} /\ Guarded(calls[j[1]])) =>
               jobs[j].doc = Testing(calls[j[1]])
        /\ jobs[j].step = "missed" /\ Guarded(calls[j[1]]) => calls[j[1]].basis # content

\* A guarded call was applied once at most, and the row has changed since its client read it.
AppliedInv ==
    \A k \in Call :
        /\ applied[k] = Cardinality(Done(k))
        /\ (calls[k] # None /\ Guarded(calls[k]) /\ applied[k] > 0) =>
               applied[k] = 1 /\ calls[k].basis # content

\* The types; LockTypeOK with those of the copies of a call.
LockVars ==
    /\ row \in Row \cup {None} /\ clock \in Stamp
    /\ view \in [Client -> Row \cup {None}]
    /\ calls \in [Call -> Body \cup {None}]
    /\ jobs \in [Copy -> Job]
    /\ content \in Nat /\ seen \in [Client -> SUBSET Nat] /\ overrides \in Nat
    /\ by \in Client \cup {None}
    /\ erasures \in 0..MaxErase /\ applied \in [Call -> Nat]

\* The inductive invariant.
LockInv == LockVars /\ RowInv /\ ViewInv /\ CallInv /\ JobInv /\ AppliedInv

----------------------------------------------------------------------------
(* Reads and calls.                                                        *)

\* A change of the row leaves every read true of what it was a read of: a new content comes with a
\* new stamp, or with no row.
LEMMA ReadKept ==
    ASSUME LockVars, NEW c \in Client, NEW v, NEW b, HasRead(c, v, b),
           content' = content + 1, seen' = seen,
           \/ row' = None /\ clock' = clock
           \/ row' = [ver |-> clock + 1, content |-> content + 1] /\ clock' = clock + 1
    PROVE  HasRead(c, v, b)' /\ b # content'
BY DEF LockVars, HasRead, Stamp

\* What a change of the row leaves of the invariant.
LEMMA ChangeKept ==
    ASSUME LockVars, RowInv, ViewInv, CallInv, UNCHANGED <<view, calls, seen>>,
           content' = content + 1,
           \/ row' = None /\ clock' = clock
           \/ row' = [ver |-> clock + 1, content |-> content + 1] /\ clock' = clock + 1
    PROVE  RowInv' /\ ViewInv' /\ CallInv'
<1>1. RowInv'
  BY DEF LockVars, RowInv, Stamp
<1>2. ViewInv'
  BY ReadKept DEF ViewInv
<1>3. CallInv'
  BY ReadKept DEF CallInv, Call
<1> QED BY <1>1, <1>2, <1>3

\* A guarded call of the invariant has a basis, and it is not later than the content.
LEMMA GuardedBasis ==
    ASSUME LockVars, CallInv, NEW k \in Call, calls[k] # None, Guarded(calls[k])
    PROVE  calls[k].basis \in seen[k[1]] /\ calls[k].basis \in Nat /\ calls[k].basis <= content
BY DEF CallInv, HasRead, Guarded

\* What came too late stays too late: no content comes back.
LEMMA TooLateKept ==
    ASSUME LockVars, CallInv, JobInv, AppliedInv, UNCHANGED <<calls, jobs, applied>>,
           content' = content + 1
    PROVE  JobInv' /\ AppliedInv'
<1>1. \A k \in Call : calls[k] # None /\ Guarded(calls[k]) => calls[k].basis # content'
  BY GuardedBasis DEF LockVars
<1>2. JobInv'
  BY <1>1 DEF JobInv, Copy
<1>3. AppliedInv'
  BY <1>1 DEF AppliedInv, Done
<1> QED BY <1>2, <1>3

\* Bodies are bodies, and what they carry is what the client has read.
LEMMA BodiesTyped ==
    ASSUME NEW v \in Row \cup {None}, NEW b \in Bodies(v)
    PROVE  /\ b \in Body
           /\ b.ver # None => v # None /\ b.ver = v.ver /\ b.basis = v.content
<1>1. CASE \E a \in {"request", "document"} :
              b = [via |-> a, ver |-> None, force |-> FALSE, basis |-> None]
  BY <1>1 DEF Body
<1>2. CASE b = [via |-> "request", ver |-> None, force |-> TRUE, basis |-> None]
  BY <1>2 DEF Body
<1>3. CASE \E a \in {"request", "document"}, f \in BOOLEAN, r \in {v} \ {None} :
              b = [via |-> a, ver |-> r.ver, force |-> f, basis |-> r.content]
  BY <1>3 DEF Body, Row
<1> QED BY <1>1, <1>2, <1>3 DEF Bodies

\* A call as it is sent is a job no server has begun with.
LEMMA ReceivedTyped ==
    ASSUME NEW b \in Body
    PROVE  /\ Received(b) \in Job
           /\ Received(b).step \in {"request", "document"}
           /\ (Received(b).step = "document" /\ Guarded(b)) => Received(b).doc = Testing(b)
BY LockAssumption DEF Received, Body, Job, Doc, NoDoc, Testing, UnderWay, Guarded

\* The record of what was applied, for a job that was not and is not done.
LEMMA DoneKept ==
    ASSUME LockVars, NEW j \in Copy, NEW x, jobs' = [jobs EXCEPT ![j] = x],
           jobs[j].step # "done", x.step # "done", NEW k \in Call
    PROVE  Done(k)' = Done(k)
BY DEF LockVars, Done, Copy, Call

----------------------------------------------------------------------------
(* The initial state.                                                      *)

\* Nothing has been applied by no copy.
LEMMA NothingDone == Cardinality({}) = 0
BY FS_EmptySet

\* The invariant holds at the start.
LEMMA InitHolds == ASSUME Init PROVE LockInv
<1>1. LockVars
  BY LockAssumption DEF Init, LockVars, Row, Stamp, Job, Doc, NoDoc
<1>2. RowInv /\ ViewInv /\ CallInv /\ JobInv
  BY DEF Init, RowInv, ViewInv, CallInv, JobInv, Call, Copy
<1>3. AppliedInv
  <2>1. \A k \in Call : Done(k) = {}
    BY DEF Init, Done, Copy, Call
  <2> QED BY <2>1, NothingDone DEF Init, AppliedInv
<1> QED BY <1>1, <1>2, <1>3 DEF LockInv

----------------------------------------------------------------------------
(* The steps of the clients.                                               *)

\* A client that reads has read what the row holds.
LEMMA GetHolds == ASSUME LockInv, NEW c \in Client, Get(c) PROVE LockInv'
<1>0. LockVars /\ RowInv /\ ViewInv /\ CallInv /\ JobInv /\ AppliedInv
  BY DEF LockInv
<1>1. \A d \in Client : seen[d] \subseteq seen'[d]
  BY <1>0 DEF Get, LockVars
<1>2. LockVars'
  BY <1>0 DEF Get, LockVars
<1>3. RowInv' /\ JobInv' /\ AppliedInv'
  BY <1>0 DEF Get, RowInv, JobInv, AppliedInv, Done
<1>4. ViewInv' /\ CallInv'
  <2>1. ASSUME NEW d \in Client, NEW v, NEW b, HasRead(d, v, b) PROVE HasRead(d, v, b)'
    BY <1>1, <2>1 DEF Get, HasRead
  <2>2. HasRead(c, row.ver, row.content)'
    BY <1>0 DEF Get, HasRead, RowInv, LockVars, Row
  <2>3. ViewInv'
    BY <1>0, <2>1, <2>2 DEF Get, ViewInv, LockVars
  <2>4. CallInv'
    BY <1>0, <2>1 DEF Get, CallInv, Call
  <2> QED BY <2>3, <2>4
<1> QED BY <1>2, <1>3, <1>4 DEF LockInv

\* Nothing was applied of a call nobody made.
LEMMA UncalledUnapplied ==
    ASSUME JobInv, AppliedInv, NEW k \in Call, calls[k] = None PROVE applied[k] = 0
<1>1. Done(k) = {}
  BY DEF Done, JobInv, Copy
<1> QED BY <1>1, NothingDone DEF AppliedInv

\* A copy of a call is sent.
LEMMA SendHolds ==
    ASSUME LockInv, NEW j \in Copy, jobs[j].step = "unsent", NEW b \in Body,
           calls'[j[1]] = b, calls' \in [Call -> Body \cup {None}], CallInv',
           \A k \in Call : calls[k] # None => calls'[k] = calls[k],
           jobs' = [jobs EXCEPT ![j] = Received(b)],
           UNCHANGED <<row, clock, view, content, seen, overrides, by, erasures, applied>>
    PROVE  LockInv'
<1>0. LockVars /\ RowInv /\ ViewInv /\ CallInv /\ JobInv /\ AppliedInv
  BY DEF LockInv
<1>1. LockVars'
  BY <1>0, ReceivedTyped DEF LockVars
<1>2. RowInv' /\ ViewInv'
  BY <1>0 DEF RowInv, ViewInv, HasRead
<1>3. JobInv'
  BY <1>0, ReceivedTyped, NoneAssumption DEF JobInv, LockVars, Copy
<1>4. AppliedInv'
  <2>1. \A k \in Call : Done(k)' = Done(k)
    BY <1>0, DoneKept, ReceivedTyped
  <2>2. \A k \in Call : calls[k] = None => applied[k] = 0
    BY <1>0, UncalledUnapplied
  <2> QED BY <1>0, <2>1, <2>2 DEF AppliedInv, LockVars
<1> QED BY <1>1, <1>2, <1>3, <1>4 DEF LockInv

\* The first copy of a call, of which the client has read what it relies on.
LEMMA PatchHolds == ASSUME LockInv, NEW k \in Call, Patch(k) PROVE LockInv'
<1>0. LockVars /\ RowInv /\ ViewInv /\ CallInv /\ JobInv /\ AppliedInv
  BY DEF LockInv
<1>1. PICK b \in Bodies(view[k[1]]) :
          calls' = [calls EXCEPT ![k] = b] /\ jobs' = [jobs EXCEPT ![<<k, 1>>] = Received(b)]
  BY DEF Patch
<1>2. k[1] \in Client /\ view[k[1]] \in Row \cup {None}
  BY <1>0 DEF Call, LockVars
<1>3. b \in Body /\ (b.ver # None => HasRead(k[1], b.ver, b.basis))
  BY <1>0, <1>2, BodiesTyped DEF ViewInv
<1>4. /\ calls' \in [Call -> Body \cup {None}] /\ calls'[k] = b
      /\ \A l \in Call : calls[l] # None => calls'[l] = calls[l]
  BY <1>0, <1>1, <1>3 DEF LockVars, Patch
<1>5. CallInv'
  BY <1>0, <1>1, <1>3 DEF Patch, CallInv, HasRead, LockVars
<1>6. CASE <<k, 1>> \in Copy
  <2>1. jobs[<<k, 1>>].step = "unsent"
    BY <1>0, <1>6 DEF Patch, JobInv
  <2> QED BY <1>1, <1>3, <1>4, <1>5, <1>6, <2>1, SendHolds DEF Patch
<1>7. CASE <<k, 1>> \notin Copy
  <2>1. jobs' = jobs /\ Copy = {}
    BY <1>0, <1>1, <1>7, LockAssumption DEF LockVars, Copy
  <2>2. LockVars' /\ RowInv' /\ ViewInv' /\ JobInv'
    BY <1>0, <1>4, <2>1 DEF Patch, LockVars, RowInv, ViewInv, HasRead, JobInv
  <2>3. AppliedInv'
    <3>1. applied[k] = 0
      BY <1>0, UncalledUnapplied DEF Patch
    <3> QED BY <1>0, <1>1, <2>1, <3>1 DEF Patch, AppliedInv, LockVars, Done
  <2> QED BY <1>5, <2>2, <2>3 DEF LockInv
<1> QED BY <1>6, <1>7

\* A copy of a call says what the call said.
LEMMA RetryHolds == ASSUME LockInv, NEW j \in Copy, Retry(j) PROVE LockInv'
<1>0. LockVars /\ RowInv /\ ViewInv /\ CallInv /\ JobInv /\ AppliedInv
  BY DEF LockInv
<1>1. j[1] \in Call /\ <<j[1], j[2] - 1>> \in Copy
  BY LockAssumption DEF Retry, Copy
<1>2. calls[j[1]] # None /\ calls[j[1]] \in Body
  BY <1>0, <1>1 DEF Retry, JobInv, LockVars
<1>3. CallInv' /\ calls' \in [Call -> Body \cup {None}]
  BY <1>0 DEF Retry, CallInv, HasRead, LockVars
<1> QED BY <1>2, <1>3, SendHolds DEF Retry

\* A row that is erased or added again has a new content.
LEMMA EraseHolds == ASSUME LockInv, Erase PROVE LockInv'
<1>0. LockVars /\ RowInv /\ ViewInv /\ CallInv /\ JobInv /\ AppliedInv
  BY DEF LockInv
<1>1. LockVars'
  BY <1>0, LockAssumption DEF Erase, LockVars
<1>2. RowInv' /\ ViewInv' /\ CallInv'
  BY <1>0, ChangeKept DEF Erase
<1>3. JobInv' /\ AppliedInv'
  BY <1>0, TooLateKept DEF Erase
<1> QED BY <1>1, <1>2, <1>3 DEF LockInv

\* A row that is added is not older than the clock.
LEMMA AddHolds == ASSUME LockInv, Add PROVE LockInv'
<1>0. LockVars /\ RowInv /\ ViewInv /\ CallInv /\ JobInv /\ AppliedInv
  BY DEF LockInv
<1>1. row' = [ver |-> clock + 1, content |-> content + 1] /\ clock' = clock + 1 /\ content' = content + 1
  BY DEF Add, Stamped
<1>2. LockVars'
  BY <1>0, <1>1 DEF Add, LockVars, Row, Stamp
<1>3. RowInv' /\ ViewInv' /\ CallInv'
  BY <1>0, <1>1, ChangeKept DEF Add
<1>4. JobInv' /\ AppliedInv'
  BY <1>0, <1>1, TooLateKept DEF Add
<1> QED BY <1>2, <1>3, <1>4 DEF LockInv

----------------------------------------------------------------------------
(* The steps of the server.                                                *)

\* The server goes on with a copy without touching the row.
LEMMA JobStepHolds ==
    ASSUME LockInv, NEW j \in Copy, NEW x \in Job, jobs' = [jobs EXCEPT ![j] = x],
           jobs[j].step \in UnderWay, x.step \notin {"unsent", "done"},
           x.step = "statement" => x.doc.writes = None,
           (x.step \in {"document", "statement"} /\ Guarded(calls[j[1]])) => x.doc = Testing(calls[j[1]]),
           x.step = "missed" /\ Guarded(calls[j[1]]) => calls[j[1]].basis # content,
           UNCHANGED <<row, clock, view, calls, content, seen, overrides, by, erasures, applied>>
    PROVE  LockInv'
<1>0. LockVars /\ RowInv /\ ViewInv /\ CallInv /\ JobInv /\ AppliedInv
  BY DEF LockInv
<1>1. LockVars'
  BY <1>0 DEF LockVars
<1>2. RowInv' /\ ViewInv' /\ CallInv'
  BY <1>0 DEF RowInv, ViewInv, CallInv, HasRead
<1>3. JobInv'
  BY <1>0 DEF JobInv, LockVars, UnderWay
<1>4. AppliedInv'
  <2>1. \A k \in Call : Done(k)' = Done(k)
    BY <1>0, DoneKept DEF UnderWay
  <2> QED BY <1>0, <2>1 DEF AppliedInv
<1> QED BY <1>1, <1>2, <1>3, <1>4 DEF LockInv

\* What a copy is after its conversion.
LEMMA ConvertedTyped ==
    ASSUME NEW b \in Body
    PROVE  /\ Converted(b) \in Job
           /\ Converted(b).step \in {"document", "refused"}
           /\ Converted(b).step = "document" => Converted(b).doc = Testing(b)
BY LockAssumption, NoneAssumption DEF Converted, Body, Job, Doc, NoDoc, Testing, UnderWay, Over, Stamp

\* A statement's test is a version or none.
LEMMA CompiledTyped ==
    ASSUME NEW d \in Doc
    PROVE  /\ Compiled(d) \in Job /\ Compiled(d).doc = d
           /\ Compiled(d).step \in {"statement", "refused"}
           /\ Compiled(d).step = "statement" => d.writes = None
BY DEF Compiled, Job, UnderWay, Over

\* A call that is compiled asks for the version its client had read, or for none.
LEMMA PrepareHolds == ASSUME LockInv, NEW j \in Copy, Prepare(j) PROVE LockInv'
<1> DEFINE b == calls[j[1]]
           converted == IF jobs[j].step = "request" THEN Converted(b) ELSE jobs[j]
           x == IF converted.step = "document" THEN Compiled(converted.doc) ELSE converted
<1>0. LockVars /\ JobInv /\ j[1] \in Call
  BY DEF LockInv, Copy
<1>1. jobs' = [jobs EXCEPT ![j] = x] /\ jobs[j].step \in {"request", "document"}
  BY DEF Prepare
<1>2. b \in Body
  BY <1>0, <1>1 DEF LockVars, JobInv
<1>3. /\ converted \in Job /\ converted.step \in {"document", "refused"}
      /\ (converted.step = "document" /\ Guarded(b)) => converted.doc = Testing(b)
  BY <1>0, <1>1, <1>2, ConvertedTyped DEF LockVars, JobInv
<1>4. /\ x \in Job /\ x.step \in {"statement", "refused"}
      /\ x.step = "statement" => x.doc.writes = None
      /\ (x.step = "statement" /\ Guarded(b)) => x.doc = Testing(b)
  BY <1>3, CompiledTyped DEF Job
<1> HIDE DEF x
<1> QED BY <1>1, <1>4, JobStepHolds, ZenonT(30) DEF Prepare, UnderWay

\* A statement of a call that relies on its version meets the row exactly if the row holds what
\* the client has read.
LEMMA MeetsIsCurrent ==
    ASSUME LockVars, RowInv, CallInv, JobInv, NEW j \in Copy, jobs[j].step = "statement",
           Guarded(calls[j[1]])
    PROVE  Meets(jobs[j].doc) <=> calls[j[1]].basis = content
<1>1. j[1] \in Call /\ calls[j[1]] # None
  BY DEF JobInv, Copy
<1>2. jobs[j].doc.tests = {calls[j[1]].ver}
  <2>1. jobs[j].doc = Testing(calls[j[1]])
    BY DEF JobInv
  <2>2. {calls[j[1]].ver} \ {None} = {calls[j[1]].ver}
    BY DEF Guarded
  <2> QED BY <2>1, <2>2 DEF Testing
<1> QED BY <1>1, <1>2 DEF Meets, CallInv, HasRead, Guarded

\* A call whose WHERE meets no row changes nothing.
LEMMA MissHolds == ASSUME LockInv, NEW j \in Copy, Miss(j) PROVE LockInv'
<1> DEFINE x == [jobs[j] EXCEPT !.step = "missed"]
<1>0. LockVars /\ RowInv /\ CallInv /\ JobInv
  BY DEF LockInv
<1>1. jobs' = [jobs EXCEPT ![j] = x] /\ x \in Job /\ x.step = "missed"
  BY <1>0 DEF Miss, LockVars, Job, Over
<1>2. Guarded(calls[j[1]]) => calls[j[1]].basis # content
  BY <1>0, MeetsIsCurrent DEF Miss
<1> HIDE DEF x
<1> QED BY <1>1, <1>2, JobStepHolds DEF Miss, UnderWay

\* A call that is lost changes nothing.
LEMMA LoseHolds == ASSUME LockInv, NEW j \in Copy, Lose(j) PROVE LockInv'
<1> DEFINE x == [jobs[j] EXCEPT !.step = "lost"]
<1>1. jobs' = [jobs EXCEPT ![j] = x] /\ x \in Job /\ x.step = "lost"
  BY DEF Lose, LockInv, LockVars, Job, Over
<1> HIDE DEF x
<1> QED BY <1>1, JobStepHolds DEF Lose

\* The set of the copies that were applied, when one more is.
LEMMA DoneGrows ==
    ASSUME LockVars, NEW j \in Copy, jobs[j].step = "statement",
           jobs' = [jobs EXCEPT ![j].step = "done"]
    PROVE  /\ Cardinality(Done(j[1]))' = Cardinality(Done(j[1])) + 1
           /\ \A k \in Call \ {j[1]} : Done(k)' = Done(k)
<1>1. j = <<j[1], j[2]>> /\ j[1] \in Call /\ j[2] \in 1..MaxCopies
  BY DEF Copy
<1>2. \A k \in Call, i \in 1..MaxCopies : jobs'[<<k, i>>].step = IF <<k, i>> = j THEN "done" ELSE jobs[<<k, i>>].step
  BY DEF LockVars, Copy, Job
<1>3. \A k \in Call \ {j[1]} : Done(k)' = Done(k)
  BY <1>1, <1>2 DEF Done
<1>4. Done(j[1])' = Done(j[1]) \cup {j[2]} /\ j[2] \notin Done(j[1])
  BY <1>1, <1>2 DEF Done
<1>5. IsFiniteSet(Done(j[1]))
  <2>1. IsFiniteSet(1..MaxCopies)
    BY FS_Interval, LockAssumption
  <2>2. Done(j[1]) \in SUBSET (1..MaxCopies)
    BY DEF Done
  <2> QED BY <2>1, <2>2, FS_Subset
<1>6. Cardinality(Done(j[1]) \cup {j[2]}) = Cardinality(Done(j[1])) + 1
  BY <1>4, <1>5, FS_AddElement
<1> QED BY <1>3, <1>4, <1>6

\* An UPDATE applies its call, and a guarded one for the first time.
LEMMA UpdateHolds == ASSUME LockInv, NEW j \in Copy, Update(j) PROVE LockInv'
<1> DEFINE k == j[1]
<1>0. /\ LockVars /\ RowInv /\ ViewInv /\ CallInv /\ JobInv /\ AppliedInv
      /\ k \in Call /\ calls[k] # None /\ jobs[j].step = "statement"
  BY DEF LockInv, Update, JobInv, Copy
<1>1. row' = [ver |-> clock + 1, content |-> content + 1] /\ clock' = clock + 1 /\ content' = content + 1
  BY <1>0 DEF Update, Stamped, JobInv
<1>2. LockVars'
  <2>1. jobs' \in [Copy -> Job]
    BY <1>0 DEF Update, LockVars, Job, Over
  <2>2. applied' \in [Call -> Nat] /\ overrides' \in Nat
    BY <1>0 DEF Update, LockVars
  <2>3. by' \in Client \cup {None}
    BY <1>0 DEF Update, Call
  <2> QED BY <1>0, <1>1, <2>1, <2>2, <2>3 DEF Update, LockVars, Row, Stamp
<1>3. RowInv' /\ ViewInv' /\ CallInv'
  BY <1>0, <1>1, ChangeKept DEF Update
<1>4. \A l \in Call : calls[l] # None /\ Guarded(calls[l]) => calls[l].basis # content'
  BY <1>0, <1>1, GuardedBasis DEF LockVars
<1>5. JobInv'
  BY <1>0, <1>4 DEF Update, JobInv, LockVars, Copy, Job
<1>6. AppliedInv'
  <2>1. \A l \in Call : applied'[l] = IF l = k THEN applied[l] + 1 ELSE applied[l]
    BY <1>0 DEF Update, LockVars
  <2>2. \A l \in Call : applied'[l] = Cardinality(Done(l))'
    BY <1>0, <2>1, DoneGrows, ZenonT(30) DEF Update, AppliedInv
  <2>3. Guarded(calls[k]) => applied[k] = 0
    BY <1>0, MeetsIsCurrent DEF Update, AppliedInv, LockVars
  <2> QED BY <1>0, <1>4, <2>1, <2>2, <2>3 DEF Update, AppliedInv
<1> QED BY <1>2, <1>3, <1>5, <1>6 DEF LockInv

----------------------------------------------------------------------------
(* The invariant, and what follows from it.                                *)

\* Every step keeps the invariant.
LEMMA LockStep == ASSUME LockInv, [Next]_vars PROVE LockInv'
<1>1. CASE \E c \in Client : Get(c)
  BY <1>1, GetHolds
<1>2. CASE \E k \in Call : Patch(k)
  BY <1>2, PatchHolds
<1>3. ASSUME NEW j \in Copy, Retry(j) \/ Serve(j) \/ Lose(j) PROVE LockInv'
  BY <1>3, RetryHolds, PrepareHolds, UpdateHolds, MissHolds, LoseHolds DEF Serve
<1>4. CASE Erase \/ Add
  BY <1>4, EraseHolds, AddHolds
<1>5. CASE UNCHANGED vars
  BY <1>5 DEF vars, LockInv, LockVars, RowInv, ViewInv, CallInv, JobInv, AppliedInv, HasRead, Done
<1> QED BY <1>1, <1>2, <1>3, <1>4, <1>5 DEF Next

\* The invariant holds.
THEOREM LockInvariant == Spec => []LockInv
<1>1. Init => LockInv
  BY InitHolds
<1>2. LockInv /\ [Next]_vars => LockInv'
  BY LockStep
<1> QED BY <1>1, <1>2, PTL DEF Spec

\* No call is applied more often than it was sent.
LEMMA AppliedBound == ASSUME LockInv, NEW k \in Call PROVE applied[k] \in 0..MaxCopies
<1>1. IsFiniteSet(1..MaxCopies) /\ Cardinality(1..MaxCopies) = MaxCopies
  BY FS_Interval, LockAssumption
<1>2. Cardinality(Done(k)) <= MaxCopies
  BY <1>1, FS_Subset DEF Done
<1> QED BY <1>2, LockAssumption DEF LockInv, LockVars, AppliedInv

\* Every variable has its type (OptimisticLock!LockTypeOK), whatever the number of clients.
THEOREM LockTypeCorrect == Spec => []LockTypeOK
<1>1. LockInv => LockTypeOK
  BY AppliedBound DEF LockInv, LockVars, LockTypeOK
<1> QED BY <1>1, LockInvariant, PTL

\* A call that relies on its version is applied at most once, however many copies of it arrive and
\* in whatever order (OptimisticLock!AppliedOnce).
THEOREM GuardedAppliedOnce == Spec => []AppliedOnce
<1>1. LockInv => AppliedOnce
  BY DEF LockInv, AppliedInv, AppliedOnce, LockVars
<1> QED BY <1>1, LockInvariant, PTL

\* Such a call is turned away only by a row that is not what its client has read
\* (OptimisticLock!ConflictIsReal).
THEOREM ConflictsAreReal == Spec => []ConflictIsReal
<1>1. LockInv => ConflictIsReal
  BY DEF LockInv, JobInv, ConflictIsReal
<1> QED BY <1>1, LockInvariant, PTL

\* A step of the clients and the server is one of the promised row, or changes nothing of it: an
\* update of a call that relies on its version is by a client that has read what it replaces.
LEMMA StepRefines ==
    ASSUME LockInv, [Next]_vars PROVE [Promise!Next]_<<content, seen, overrides, by>>
<1>1. ASSUME NEW c \in Client, Get(c) PROVE Promise!See(c)
  BY <1>1 DEF Get, Promise!See
<1>2. ASSUME NEW k \in Call, Patch(k) PROVE UNCHANGED <<content, seen, overrides, by>>
  BY <1>2 DEF Patch
<1>3. ASSUME NEW j \in Copy, Update(j) PROVE Promise!Next
  <2>1. j[1] \in Call /\ j[1][1] \in Client /\ calls[j[1]] # None
    BY <1>3 DEF Update, LockInv, JobInv, Copy, Call
  <2>2. content' = content + 1 /\ seen' = seen
    BY <1>3 DEF Update, Stamped
  <2>3. CASE Guarded(calls[j[1]])
    <3>1. content \in seen[j[1][1]]
      BY <1>3, <2>1, <2>3, MeetsIsCurrent, GuardedBasis DEF LockInv, Update
    <3>2. Promise!Replace(j[1][1])
      BY <1>3, <2>2, <2>3, <3>1 DEF Update, Promise!Replace
    <3> QED BY <2>1, <3>2 DEF Promise!Next
  <2>4. CASE ~Guarded(calls[j[1]])
    BY <1>3, <2>2, <2>4 DEF Update, Promise!Next, Promise!Override
  <2> QED BY <2>3, <2>4
<1>4. ASSUME NEW j \in Copy, Retry(j) \/ Prepare(j) \/ Miss(j) \/ Lose(j)
      PROVE  UNCHANGED <<content, seen, overrides, by>>
  BY <1>4 DEF Retry, Prepare, Miss, Lose
<1>5. ASSUME Erase \/ Add PROVE Promise!Override
  BY <1>5 DEF Erase, Add, Stamped, Promise!Override
<1>6. CASE UNCHANGED vars
  BY <1>6 DEF vars
<1> QED BY <1>1, <1>2, <1>3, <1>4, <1>5, <1>6 DEF Next, Serve, Promise!Next

\* No update is lost (OptimisticLock!NoLostUpdate): the lock, with its requests and documents, its
\* copies that arrive twice, late or never, and its erased rows, implements VersionedRow.
THEOREM LockKeepsPromise == Spec => NoLostUpdate
<1>1. Init => Promise!Init
  BY DEF Init, Promise!Init
<1>2. LockInv /\ [Next]_vars => [Promise!Next]_<<content, seen, overrides, by>>
  BY StepRefines
<1> QED BY <1>1, <1>2, LockInvariant, PTL DEF Spec, NoLostUpdate, Promise!Spec
===============================================================================
