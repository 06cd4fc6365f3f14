---------------------------- MODULE MCPatchLayout ----------------------------
(* Entities of up to three props, numbered at the bounds of the band and of  *)
(* the cap.                                                                  *)
EXTENDS PatchLayout

MCNumber == {1, 2, 3, 9499, 9500, 9999, 10000, 268435455, 268435456, 536870911}

MCTrait == {[immutable |-> FALSE, erased |-> FALSE, version |-> FALSE, nullable |-> n] : n \in BOOLEAN} \cup
           {[immutable |-> TRUE, erased |-> FALSE, version |-> FALSE, nullable |-> FALSE],
            [immutable |-> FALSE, erased |-> TRUE, version |-> FALSE, nullable |-> TRUE],
            [immutable |-> FALSE, erased |-> FALSE, version |-> TRUE, nullable |-> TRUE]}

MCProps == {[number |-> n, immutable |-> t.immutable, erased |-> t.erased, version |-> t.version,
             nullable |-> t.nullable] : n \in MCNumber, t \in MCTrait}

MCEntity ==
    {<<>>} \cup {<<p>> : p \in MCProps} \cup
    {e \in {<<p, q>> : p \in MCProps, q \in MCProps} : e[1].number # e[2].number} \cup
    {<<p, q, r>> : p \in {x \in MCProps : x.number = 1}, q \in {x \in MCProps : x.number = 2},
                   r \in {x \in MCProps : x.number \in {3, 9500}}}
=============================================================================
