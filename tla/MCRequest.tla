------------------------------ MODULE MCRequest ------------------------------
(* An entity with a prop of every kind a request treats in a way of its own; *)
(* its version has the optional keyword.  Messages: the one of the entity,   *)
(* and one of the entity before its collections were added.                  *)
EXTENDS PatchRequest

CONSTANTS id, ver, name, labels, tags, owner, kids, gone, k1, k2, v1, v2

MCDeclared == <<id, name, ver, labels, tags, owner, kids, gone>>
MCProp == ToSet(MCDeclared)
MCShape == [p \in MCProp |-> CASE p = labels -> "map" [] p \in {tags, kids} -> "list" [] OTHER -> "scalar"]
MCNumber == [p \in MCProp |-> CHOOSE i \in 1..Len(MCDeclared) : MCDeclared[i] = p]
MCTarget == [p \in {owner, kids} |-> {id}]
MCTargetKey == [p \in {owner, kids} |-> id]
MCSibling == [p \in MCProp |-> {}]
MCInitRow ==
    {[p \in MCProp |-> CASE p = id -> v1 [] p = ver -> r [] p = owner -> o [] p \in {name, gone} -> None
                         [] p = labels -> [k \in Key |-> None] [] OTHER -> <<>>] :
        r \in {v1, v2}, o \in {None, v1}}
MCMapLiteral == {m \in [Key -> {None, v1}] : m[k2] = None}
MCListLiteral == {<<>>, <<v1>>}

\* The message a generator makes of an entity with these props.
MessageOf(props) ==
    LET values == {MCNumber[p] * 2 : p \in props}
        flags == {MCNumber[p] * 2 + 1 : p \in props \cap (Nullable \cup Version)}
        owns(n) == CHOOSE p \in props : n \in {MCNumber[p] * 2, MCNumber[p] * 2 + 1}
    IN  [n \in values \cup flags |-> [prop |-> owns(n), kind |-> IF n \in flags THEN "flag" ELSE "value"]]

MCMessage == {MessageOf(MCProp \ {id, gone}), MessageOf(MCProp \ {id, gone, labels, tags})}
=============================================================================
