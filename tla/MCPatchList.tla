---------------------------- MODULE MCPatchList ----------------------------
(* An entity with one list column.                                         *)
EXTENDS PatchClaims

CONSTANTS tags, k1, v1, v2

MCShape == [p \in {tags} |-> "list"]
MCTargetField == [p \in {tags} |-> {tags}]
MCTargetKey == [p \in {tags} |-> tags]
MCNoTarget == [p \in {} |-> None]
MCSibling == [p \in {tags} |-> {}]
MCLists == {<<>>, <<v2>>}
MCInitRow == [{tags} -> {<<>>, <<v1>>, <<v1, v2>>}]
MCIndex == {-1, 0, 1, 3, 6}
=============================================================================
