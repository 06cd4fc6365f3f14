---------------------------- MODULE SchemaRegistry ----------------------------
(***************************************************************************)
(* What a graph promises those who parse into it: a file's entities appear *)
(* in it all at once, with all they refer to, or not at all, and an entity *)
(* that is there stays as it is.  The one thing that happens to it later   *)
(* is that an edge of it turns out to be one end of a one-to-one relation. *)
(***************************************************************************)
CONSTANTS Msg, File, None

VARIABLES
    accepted,   \* the files that were accepted
    shape,      \* [Msg -> the entity of that name but for what is unique, or None]
    refers,     \* [Msg -> the names it refers to]
    unique      \* [Msg -> the numbers of its unique props]

Known == {m \in Msg : shape[m] # None}

Init ==
    /\ accepted = {}
    /\ shape = [m \in Msg |-> None]
    /\ refers = [m \in Msg |-> {}] /\ unique = [m \in Msg |-> {}]

Keep ==
    \A m \in Known :
        /\ shape'[m] = shape[m] /\ refers'[m] = refers[m]
        /\ unique[m] \subseteq unique'[m]

Accept(f) ==
    /\ Keep
    /\ f \notin accepted /\ accepted' = accepted \cup {f}
    /\ \A m \in Known' : refers'[m] \subseteq Known'

\* An entity of a file that may not be accepted in the end refers back to one that is there.
Unify == Keep /\ Known' = Known /\ accepted' = accepted

Next == Unify \/ \E f \in File : Accept(f)

Spec == Init /\ [][Next]_<<accepted, shape, refers, unique>>
===============================================================================
