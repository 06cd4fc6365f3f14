---------------------------- MODULE MCPatchColumns ----------------------------
(* An entity of scalar columns, a nullable text, a NOT NULL UUID, an        *)
(* immutable key and the version, and an immutable map; one unmapped and    *)
(* two undeclared fields.                                                   *)
EXTENDS PatchClaims

CONSTANTS id, desc, uid, ver, labels, meta, nope, nada, k1, v1, v2

MCProp == {id, desc, uid, ver, labels}
MCShape == [p \in MCProp |-> IF p = labels THEN "map" ELSE "scalar"]
MCMaps == {[k \in {k1} |-> v1]}
MCField == MCProp \cup {meta, nope, nada}
MCUndeclared == {nope, nada}
MCNoTarget == [p \in {} |-> None]
MCSibling == [p \in MCProp |-> {}]
MCInitRow ==
    {(labels :> [k \in {k1} |-> m]) @@ [p \in MCProp |-> IF p = desc THEN d ELSE v1] :
        <<m, d>> \in {<<v1, None>>, <<None, v1>>}}
=============================================================================
