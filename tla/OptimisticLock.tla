---------------------------- MODULE OptimisticLock ----------------------------
(***************************************************************************)
(* Clients that read, patch and erase one row with a version field.  A     *)
(* patch is a PatchRequest, converted by FromPatchRequest, or a document   *)
(* of its own; either is compiled and executed as one UPDATE, and the      *)
(* version is a test in its WHERE clause.  Conversion and compilation read *)
(* no storage, so other calls may come between any two steps of a call.  A *)
(* call or its answer may be lost, and the client then sends it again.     *)
(*                                                                         *)
(* The server around Compile and its storage are not in the repository;    *)
(* they are as README.md (Version fields) and errors.go describe them.     *)
(* What a row holds is known by a number, a new one for every change.      *)
(***************************************************************************)
EXTENDS Integers

CONSTANTS
    Client,
    None,
    MaxCalls,   \* bound: patches a client makes
    MaxCopies,  \* bound: times it sends each of them
    Impatient,  \* bound: the clients that send a call again
    MaxErase    \* bound: erasures

ASSUME LockAssumption ==
    /\ None \notin Nat \cup Client /\ Impatient \subseteq Client
    /\ MaxCalls \in Nat /\ MaxCopies \in Nat /\ MaxErase \in Nat

VARIABLES
    row,        \* [ver, content], or None when it is erased
    clock,      \* the last stamp
    view,       \* [Client -> the row as the client read it last, or None]
    calls,      \* [Call -> what was asked, or None]
    jobs        \* [Copy -> how far the server is with it]

VARIABLES
    content, seen, overrides, by,   \* auxiliary: see VersionedRow
    erasures,   \* bound: so far
    applied     \* auxiliary: [Call -> the changes it made]

vars == <<row, clock, view, calls, jobs, content, seen, overrides, by, erasures, applied>>

----------------------------------------------------------------------------
\* Calls.

Stamp == Nat \ {0}
Row == [ver : Stamp, content : Nat]

Call == Client \X (1..MaxCalls)
Copy == Call \X (1..MaxCopies)

\* What a client says of the version.  A PatchRequest carries the version it has read (ver) or none,
\* and may force the field; a document may test the version it has read, and may assign it as well
\* (force).  basis is auxiliary: the content the client had read with ver.
Body == [via : {"request", "document"}, ver : Stamp \cup {None}, force : BOOLEAN, basis : Nat \cup {None}]

ASSUME NoneAssumption == None \notin Row \cup Body

Bodies(v) ==
    {[via |-> a, ver |-> None, force |-> FALSE, basis |-> None] : a \in {"request", "document"}} \cup
    {[via |-> "request", ver |-> None, force |-> TRUE, basis |-> None]} \cup
    {[via |-> a, ver |-> r.ver, force |-> f, basis |-> r.content] :
        a \in {"request", "document"}, f \in BOOLEAN, r \in {v} \ {None}}

\* The client relies on the lock: it says which version it has read, and does not decline.
Guarded(b) == b.ver # None /\ ~b.force

\* A document as far as the version goes: the versions it tests, and the one it assigns.
Doc == [tests : SUBSET Stamp, writes : Stamp \cup {None}]
Testing(b) == [tests |-> {b.ver} \ {None}, writes |-> None]
NoDoc == [tests |-> {}, writes |-> None]

UnderWay == {"request", "document", "statement"}
Over == {"done", "missed", "refused", "lost"}
Job == [step : {"unsent"} \cup UnderWay \cup Over, doc : Doc]

\* A call as it reaches the server.
Received(b) ==
    [step |-> b.via,
     doc |-> IF b.via = "request" THEN NoDoc
             ELSE [Testing(b) EXCEPT !.writes = IF b.force THEN b.ver ELSE None]]

\* Mutant: a forced request tests the version it does not carry.
ConvertedBlind(b) ==
    IF b.force = (b.ver # None) THEN [step |-> "refused", doc |-> NoDoc]
    ELSE [step |-> "document", doc |-> [tests |-> {b.ver}, writes |-> None]]

\* FromPatchRequest of the version field: a test of what the request carries, or nothing when it is
\* forced.  Neither of them, and both, are errors.
Converted(b) ==
    IF b.force = (b.ver # None) THEN [step |-> "refused", doc |-> NoDoc]
    ELSE [step |-> "document", doc |-> Testing(b)]

\* Mutant: only FromPatchRequest refuses to write the version.
CompiledOneDoor(d) == [step |-> "statement", doc |-> d]

\* Compile: a document that writes the version is refused; a test becomes a predicate.
Compiled(d) == [step |-> IF d.writes # None THEN "refused" ELSE "statement", doc |-> d]

\* Mutant: the predicate asks for a version later than the one tested.
MeetsLater(d) == row # None /\ \A v \in d.tests : row.ver > v

\* The WHERE clause of the statement, against the row as it stands.
Meets(d) == row # None /\ \A v \in d.tests : row.ver = v

----------------------------------------------------------------------------
Init ==
    /\ row = [ver |-> 1, content |-> 0] /\ clock = 1
    /\ view = [c \in Client |-> None]
    /\ calls = [k \in Call |-> None]
    /\ jobs = [j \in Copy |-> [step |-> "unsent", doc |-> NoDoc]]
    /\ content = 0 /\ seen = [c \in Client |-> {}] /\ overrides = 0 /\ by = None
    /\ erasures = 0 /\ applied = [k \in Call |-> 0]

\* Mutant: a write soon after another takes the same stamp, the version being a time.
StampedSoon(v) ==
    /\ clock' = clock /\ content' = content + 1
    /\ row' = [ver |-> IF v = None THEN clock ELSE v, content |-> content + 1]

\* The row is written: it holds a new content, and the server stamps a version nobody assigned.
Stamped(v) ==
    /\ clock' = clock + 1 /\ content' = content + 1
    /\ row' = [ver |-> IF v = None THEN clock' ELSE v, content |-> content + 1]

----------------------------------------------------------------------------
\* The clients.

Get(c) ==
    /\ row # None
    /\ view' = [view EXCEPT ![c] = row]
    /\ seen' = [seen EXCEPT ![c] = @ \cup {content}]
    /\ UNCHANGED <<row, clock, calls, jobs, content, overrides, by, erasures, applied>>

\* A client patches from what it read last.  The answer to a patch carries no row, so after a
\* change of its own that is out of date as well.
Patch(k) ==
    /\ calls[k] = None
    /\ k[2] > 1 => calls[<<k[1], k[2] - 1>>] # None
    /\ \E b \in Bodies(view[k[1]]) :
        /\ calls' = [calls EXCEPT ![k] = b]
        /\ jobs' = [jobs EXCEPT ![<<k, 1>>] = Received(b)]
    /\ UNCHANGED <<row, clock, view, content, seen, overrides, by, erasures, applied>>

\* The call is sent again, no answer having come in time; what was sent before may still arrive.
Retry(j) ==
    /\ jobs[j].step = "unsent" /\ j[2] > 1 /\ jobs[<<j[1], j[2] - 1>>].step # "unsent"
    /\ j[1][1] \in Impatient
    /\ jobs' = [jobs EXCEPT ![j] = Received(calls[j[1]])]
    /\ UNCHANGED <<row, clock, view, calls, content, seen, overrides, by, erasures, applied>>

\* Erase takes the row's key and nothing else: there is no version to test.
Erase ==
    /\ row # None /\ erasures < MaxErase
    /\ row' = None /\ erasures' = erasures + 1
    /\ content' = content + 1 /\ overrides' = overrides + 1 /\ by' = None
    /\ UNCHANGED <<clock, view, calls, jobs, seen, applied>>

\* The row is added again under the same key.
Add ==
    /\ row = None /\ Stamped(None) /\ overrides' = overrides + 1 /\ by' = None
    /\ UNCHANGED <<view, calls, jobs, seen, erasures, applied>>

----------------------------------------------------------------------------
\* The server.

\* A request is converted, and the document compiled.  Neither reads anything another call may change.
Prepare(j) ==
    /\ jobs[j].step \in {"request", "document"}
    /\ LET converted == IF jobs[j].step = "request" THEN Converted(calls[j[1]]) ELSE jobs[j]
       IN  jobs' = [jobs EXCEPT ![j] =
               IF converted.step = "document" THEN Compiled(converted.doc) ELSE converted]
    /\ UNCHANGED <<row, clock, view, calls, content, seen, overrides, by, erasures, applied>>

\* The UPDATE changes the row if it meets the WHERE clause, and stamps it.
Update(j) ==
    /\ jobs[j].step = "statement" /\ Meets(jobs[j].doc)
    /\ Stamped(jobs[j].doc.writes)
    /\ jobs' = [jobs EXCEPT ![j].step = "done"]
    /\ applied' = [applied EXCEPT ![j[1]] = @ + 1]
    /\ overrides' = IF Guarded(calls[j[1]]) THEN overrides ELSE overrides + 1
    /\ by' = IF Guarded(calls[j[1]]) THEN j[1][1] ELSE None
    /\ UNCHANGED <<view, calls, seen, erasures>>

\* It met no row: why, it does not say.
Miss(j) ==
    /\ jobs[j].step = "statement" /\ ~Meets(jobs[j].doc)
    /\ jobs' = [jobs EXCEPT ![j].step = "missed"]
    /\ UNCHANGED <<row, clock, view, calls, content, seen, overrides, by, erasures, applied>>

\* The call is lost on its way, or with the server that had it.
Lose(j) ==
    /\ jobs[j].step \in UnderWay
    /\ jobs' = [jobs EXCEPT ![j].step = "lost"]
    /\ UNCHANGED <<row, clock, view, calls, content, seen, overrides, by, erasures, applied>>

Serve(j) == Prepare(j) \/ Update(j) \/ Miss(j)

Next ==
    \/ \E c \in Client : Get(c)
    \/ \E k \in Call : Patch(k)
    \/ \E j \in Copy : Retry(j) \/ Serve(j) \/ Lose(j)
    \/ Erase \/ Add

Spec == Init /\ [][Next]_vars

----------------------------------------------------------------------------
\* Properties.

Promise == INSTANCE VersionedRow

\* A row is changed only by a client that has read what it holds, or by one that declined the lock:
\* no update of a client that relied on its version overwrites what it had not seen, whatever
\* requests, documents, erasures and retries come in between (errors.go, VersionWriteError).
NoLostUpdate == Promise!Spec

\* However often a call that relies on its version is sent, by a client that got no answer, it is
\* applied once: its own change is one the version it carries is not the version of.
AppliedOnce == \A k \in Call : calls[k] # None /\ Guarded(calls[k]) => applied[k] <= 1

\* A call that relies on its version is only turned away by a conflict: what its client had read is
\* not what the row holds any more.
ConflictIsReal ==
    \A j \in Copy : jobs[j].step = "missed" /\ Guarded(calls[j[1]]) => calls[j[1]].basis # content

\* Every variable has its type.
LockTypeOK ==
    /\ row \in Row \cup {None} /\ clock \in Stamp
    /\ view \in [Client -> Row \cup {None}]
    /\ calls \in [Call -> Body \cup {None}]
    /\ jobs \in [Copy -> Job]
    /\ content \in Nat /\ seen \in [Client -> SUBSET Nat] /\ overrides \in Nat
    /\ by \in Client \cup {None}
    /\ erasures \in 0..MaxErase /\ applied \in [Call -> 0..MaxCopies]
=============================================================================
