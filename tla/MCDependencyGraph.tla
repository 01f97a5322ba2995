------------------------- MODULE MCDependencyGraph -------------------------
(***************************************************************************)
(* Every graph of three services with dependency lists of length at most   *)
(* two (self-dependencies and repeated entries included), every assignment *)
(* of two priorities; one id (the largest) has no manifest.                *)
(***************************************************************************)
EXTENDS DependencyGraph

CONSTANT Absent     \* an id that no manifest has

Known == ServiceIds \ {Absent}

DependencyLists == UNION {[1..n -> Known] : n \in 0..2} \cup {<<Absent>>}

MCManifests(ids, deps, prio) ==
    [i \in DOMAIN ids |-> [service_id |-> ids[i], dependencies |-> deps[i],
                           startup_priority |-> prio[i]]]

MCInputs ==
    {MCManifests(<<1, 2, 3>>, deps, prio) :
        deps \in [1..3 -> DependencyLists], prio \in [1..3 -> 0..1]}
    \cup {MCManifests(<<1, 2, 1>>, deps, <<0, 0, 0>>) : deps \in [1..3 -> {<< >>, <<2>>, <<Absent>>}]}
    \cup {<< >>}
=============================================================================
