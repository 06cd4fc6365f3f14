---------------------------- MODULE MCPatchMap ----------------------------
(* An entity with one map column, and a nullable scalar beside it.         *)
EXTENDS PatchClaims

CONSTANTS labels, desc, nope, k1, k2, v1, v2

MCProp == {labels, desc}
MCShape == [p \in MCProp |-> IF p = labels THEN "map" ELSE "scalar"]
MCField == MCProp \cup {nope}
MCNoTarget == [p \in {} |-> None]
MCSibling == [p \in MCProp |-> {}]
MCMaps == {m \in [{k1, k2} -> {v1, None}] : m[k2] = None}
MCInitRow == {r \in [MCProp -> {v1} \cup [{k1, k2} -> {v1, None}]] : r[desc] = v1 /\ r[labels] # v1}
=============================================================================
