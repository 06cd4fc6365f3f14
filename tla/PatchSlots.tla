------------------------------ MODULE PatchSlots ------------------------------
(***************************************************************************)
(* The numbers a PatchRequest's fields have (graph/patchreq.go): `ref` has *)
(* the first one, a prop numbered n the pair from 2n on.                   *)
(***************************************************************************)
EXTENDS Integers

PatchRefNumber == 1

\* Mutant: the number a value had before the band was shifted.
PatchValueNumberBefore(n) == n * 2 - 1

PatchValueNumber(n) == n * 2
PatchFlagNumber(n) == n * 2 + 1

\* The companion of a prop: a version is forced, any other prop that may be NULL is nulled.
PatchFlagOf(isVersion, isNullable) ==
    IF isVersion THEN "force" ELSE IF isNullable THEN "null" ELSE "none"
=============================================================================
