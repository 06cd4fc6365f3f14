------------------------------ MODULE PatchClaims ------------------------------
(***************************************************************************)
(* What the comments of ormpatch say of the compiler and the compiler does *)
(* not do.  Each definition is one such sentence; a run for it shows a     *)
(* document that breaks it.                                                *)
(***************************************************************************)
EXTENDS PatchCompile

\* "the two agree only while no entry reads a column an earlier entry wrote.
\* Compile detects that case and refuses it" (doc.go:60-62): a document the
\* reference engine applies to a row is not compiled to a statement that misses
\* it.  The guard that atMapEntry and atListElem record is such a read, and no
\* check precedes it.
GuardReadsRefused ==
    verdict = "compiled" /\ refOk /\ diverged \subseteq {"late guard"} => Matches(tests, row)

\* "a rule enforced at only one of them is not a rule" (compile.go:756-759): a
\* column the schema marks immutable is in no plan.
ImmutableUnwritten == wrote \cap Immutable = {}
=============================================================================
