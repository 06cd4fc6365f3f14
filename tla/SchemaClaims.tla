----------------------------- MODULE SchemaClaims -----------------------------
(***************************************************************************)
(* What the documents, comments and tests of the repository say of the     *)
(* schema parser, where the parser does otherwise.                         *)
(***************************************************************************)
EXTENDS SchemaParse

\* patchreq.go: the companions of a nullable and of a version field "are exclusive by construction: a
\* version field is validated to be non-nullable, so no prop can want both".  parseProp asks the
\* option, and IsNullable proto's optional keyword as well.
VersionNeverNullable ==
    \A o \in InGraph : \A d \in Fields(o) : d.version => ~IsNullable(o, PropOf(o, d.number))
=============================================================================
