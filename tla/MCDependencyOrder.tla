------------------------- MODULE MCDependencyOrder -------------------------
(* Two families of small configurations: three processes with lists that   *)
(* repeat names, name the process itself, a disabled or an absent one (4), *)
(* and every graph over four enabled processes.                            *)
EXTENDS DependencyOrder

Lists == UNION {[1..n -> 1..4] : n \in 0..2}

Untidy ==
    {[present |-> 1..3, enabled |-> e, depends |-> d] :
        e \in {{1, 2, 3}, {1, 3}}, d \in [1..3 -> Lists]}

Ascending(S) == SetToSortSeq(S, <)

Plain ==
    {[present |-> 1..4, enabled |-> 1..4, depends |-> [p \in 1..4 |-> Ascending(d[p])]] :
        d \in [1..4 -> SUBSET (1..4)]}

MCTables == Untidy \cup {g \in Plain : \A p \in 1..4 : ~Contains(g.depends[p], p)}
=============================================================================
