---------------------------- MODULE MCPatchEdge ----------------------------
(* An entity of edges: parent nullable, owner not, and a oneof of two       *)
(* scalars.                                                                 *)
EXTENDS PatchClaims

CONSTANTS parent, owner, a, b, id, k1, v1, v2

MCProp == {parent, owner, a, b}
MCShape == [p \in MCProp |-> "scalar"]
MCField == MCProp \cup {id}
MCTargetField == [p \in {parent, owner} |-> {id, a}]
MCTargetKey == [p \in {parent, owner} |-> id]
MCSibling == [p \in MCProp |-> CASE p = a -> {b} [] p = b -> {a} [] OTHER -> {}]
MCInitRow == {r \in [MCProp -> {v1, None}] : r[owner] = v1 /\ r[b] = None /\ r[parent] # r[a]}
=============================================================================
