----------------------------- MODULE StartOrder -----------------------------
(***************************************************************************)
(* What a start order of services is: shared vocabulary of DependencyGraph *)
(* (which computes one, system-core/src/graph.rs) and ServiceManager       *)
(* (which walks one forwards to start and backwards to stop,               *)
(* system-core/src/manager.rs).                                            *)
(***************************************************************************)
EXTENDS Naturals, Sequences

(* Every name of the dependency list `list`, duplicates collapsed. *)
Names(list) == {list[i] : i \in 1..Len(list)}

(* `order` lists every member of ids exactly once. *)
Enumerates(order, ids) ==
    /\ order \in Seq(ids)
    /\ \A s \in ids : \E i \in 1..Len(order) : order[i] = s
    /\ \A i, j \in 1..Len(order) : order[i] = order[j] => i = j

(* Each service comes after all of its dependencies. *)
DependenciesFirst(order, deps) ==
    \A i \in 1..Len(order) :
        \A d \in Names(deps[order[i]]) : \E j \in 1..(i - 1) : order[j] = d

(* A start order of the services `ids` with dependency lists `deps`. *)
IsStartOrder(order, ids, deps) ==
    Enumerates(order, ids) /\ DependenciesFirst(order, deps)
=============================================================================
