----------------------------- MODULE VersionedRow -----------------------------
(***************************************************************************)
(* What the version field promises (README.md, Version fields): a row is   *)
(* changed by somebody who has seen what it holds now, or by somebody who  *)
(* declines the lock and says so.  A change by a client that has only seen *)
(* an earlier content is the lost update, and is not in here.              *)
(***************************************************************************)
EXTENDS Integers

CONSTANTS Client, None

VARIABLES
    content,    \* what the row holds: every change makes a new one
    seen,       \* [Client -> the contents it has read]
    overrides,  \* changes made by those who declined the lock
    by          \* who made the last change: a client, or None of those

Init == content = 0 /\ seen = [c \in Client |-> {}] /\ overrides = 0 /\ by = None

See(c) ==
    /\ seen' = [seen EXCEPT ![c] = @ \cup {content}]
    /\ UNCHANGED <<content, overrides, by>>

Replace(c) ==
    /\ content \in seen[c]
    /\ content' = content + 1 /\ by' = c
    /\ UNCHANGED <<seen, overrides>>

Override ==
    /\ content' = content + 1 /\ overrides' = overrides + 1 /\ by' = None
    /\ UNCHANGED seen

Next == Override \/ \E c \in Client : See(c) \/ Replace(c)

Spec == Init /\ [][Next]_<<content, seen, overrides, by>>
=============================================================================
