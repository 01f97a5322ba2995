-------------------------- MODULE DependencyGraph --------------------------
(***************************************************************************)
(* DependencyGraph::new of system-core/src/graph.rs: validation of a list  *)
(* of service manifests and Kahn's topological sort, one action per        *)
(* iteration of the `while let Some(id) = queue.pop_front()` loop.         *)
(***************************************************************************)
EXTENDS Integers, Sequences, FiniteSets, StartOrder

CONSTANTS
    ServiceIds,     \* service_id strings, as naturals: their order is the code's string order
    Inputs          \* the manifest lists DependencyGraph::new may be called with

(* The fields of a ServiceManifest the graph reads. *)
Manifest == [service_id : ServiceIds,
             dependencies : Seq(ServiceIds),
             startup_priority : Nat]

ASSUME ServiceIdsAssumption == ServiceIds \subseteq Nat
ASSUME InputsAssumption == Inputs \subseteq Seq(Manifest)

VARIABLES
    manifests,      \* the argument
    pc,             \* "validate", "sort", "done"
    indegree,       \* unresolved dependency occurrences per service
    queue,          \* services whose dependencies are all in start_order
    start_order,
    result          \* "none" until done: "ok" or the GraphError

dgVars == <<manifests, pc, indegree, queue, start_order, result>>

(* The ids of the BTreeMap `map`, and the manifest stored under each. *)
Ids == {manifests[i].service_id : i \in 1..Len(manifests)}

ManifestOf(id) ==
    manifests[CHOOSE i \in 1..Len(manifests) : manifests[i].service_id = id]

Dependencies(id) == ManifestOf(id).dependencies

Priority(id) == ManifestOf(id).startup_priority

(* The occurrences of `dep` in the dependency list of `id`: a manifest may  *)
(* list a dependency twice, and then counts twice in its own in-degree and  *)
(* appears twice among the children of `dep`.                               *)
Occurrences(id, dep) ==
    {i \in 1..Len(Dependencies(id)) : Dependencies(id)[i] = dep}

DuplicateServiceId ==
    \E i, j \in 1..Len(manifests) :
        i # j /\ manifests[i].service_id = manifests[j].service_id

MissingDependency ==
    \E id \in Ids : ~(Names(Dependencies(id)) \subseteq Ids)

(* Mutant: ties broken by service_id alone. *)
BeforeById(a, b) == a < b

(* sort_by_key(|m| (m.startup_priority, m.service_id)). *)
Before(a, b) ==
    \/ Priority(a) < Priority(b)
    \/ Priority(a) = Priority(b) /\ a < b

(* u is the set S in that order. *)
SortedEnumeration(u, S) ==
    /\ \A s \in S : \E i \in 1..Len(u) : u[i] = s
    /\ \A i, j \in 1..Len(u) : i < j => Before(u[i], u[j])

DgInit ==
    /\ manifests \in Inputs
    /\ pc = "validate"
    /\ indegree = [id \in Ids |-> 0]
    /\ queue = << >>
    /\ start_order = << >>
    /\ result = "none"

Fail(error) ==
    /\ pc' = "done"
    /\ result' = error
    /\ UNCHANGED <<manifests, indegree, queue, start_order>>

(* Duplicate ids are found while filling the map, before the dependencies.  *)
RejectDuplicate ==
    /\ pc = "validate"
    /\ DuplicateServiceId
    /\ Fail("DuplicateServiceId")

RejectMissing ==
    /\ pc = "validate"
    /\ ~DuplicateServiceId
    /\ MissingDependency
    /\ Fail("MissingDependency")

(* The in-degrees and the initial ready list. *)
Prepare ==
    /\ pc = "validate"
    /\ ~DuplicateServiceId
    /\ ~MissingDependency
    /\ indegree' = [id \in Ids |-> Len(Dependencies(id))]
    /\ LET ready == {id \in Ids : Len(Dependencies(id)) = 0} IN
       \E u \in [1..Cardinality(ready) -> ready] :
           /\ SortedEnumeration(u, ready)
           /\ queue' = u
    /\ pc' = "sort"
    /\ UNCHANGED <<manifests, start_order, result>>

(* Mutant: the children of `id` deduplicated, so that a repeated dependency *)
(* is never fully resolved.                                                 *)
UnlockedOnce(id) == {c \in Ids : Occurrences(c, id) # {} /\ indegree[c] <= 1}

(* One occurrence of `id` is subtracted per child entry; a child is pushed  *)
(* when its in-degree reaches zero.                                         *)
Unlocked(id) ==
    {c \in Ids : /\ Occurrences(c, id) # {}
                 /\ indegree[c] <= Cardinality(Occurrences(c, id))}

(* Mutant: the children of `id` deduplicated, each decremented once. *)
DecrementedOnce(id) ==
    [c \in Ids |-> IF Occurrences(c, id) = {} \/ indegree[c] = 0
                   THEN indegree[c] ELSE indegree[c] - 1]

Decremented(id) ==
    [c \in Ids |-> LET n == Cardinality(Occurrences(c, id)) IN
                   IF indegree[c] <= n THEN 0 ELSE indegree[c] - n]

PopFront ==
    /\ pc = "sort"
    /\ queue # << >>
    /\ LET id == Head(queue) IN
       /\ start_order' = Append(start_order, id)
       /\ indegree' = Decremented(id)
       /\ \E u \in [1..Cardinality(Unlocked(id)) -> Unlocked(id)] :
              /\ SortedEnumeration(u, Unlocked(id))
              /\ queue' = Tail(queue) \o u
    /\ UNCHANGED <<manifests, pc, result>>

(* Mutant: no check for a cycle. *)
FinishUnchecked ==
    /\ pc = "sort"
    /\ queue = << >>
    /\ pc' = "done"
    /\ result' = "ok"
    /\ UNCHANGED <<manifests, indegree, queue, start_order>>

(* After the loop: fewer services ordered than mapped means a cycle. *)
Finish ==
    /\ pc = "sort"
    /\ queue = << >>
    /\ pc' = "done"
    /\ result' = IF Len(start_order) # Cardinality(Ids)
                 THEN "CircularDependency" ELSE "ok"
    /\ UNCHANGED <<manifests, indegree, queue, start_order>>

Done == pc = "done" /\ UNCHANGED dgVars

DgNext == RejectDuplicate \/ RejectMissing \/ Prepare \/ PopFront \/ Finish \/ Done

DgSpec == DgInit /\ [][DgNext]_dgVars

-----------------------------------------------------------------------------
(* The part of the input that is still in the way of `id`: the occurrences  *)
(* in its dependency list of services not yet ordered.                      *)
Unresolved(id) ==
    {i \in 1..Len(Dependencies(id)) : Dependencies(id)[i] \notin Names(start_order)}

DgTypeOK ==
    /\ manifests \in Seq(Manifest)
    /\ pc \in {"validate", "sort", "done"}
    /\ indegree \in [Ids -> Nat]
    /\ queue \in Seq(Ids)
    /\ start_order \in Seq(Ids)
    /\ result \in {"none", "ok", "DuplicateServiceId", "MissingDependency", "CircularDependency"}

(* The loop invariant of the sort: the in-degrees count what is unresolved, *)
(* exactly the services at zero have been queued, each once, and what has   *)
(* been ordered already respects the dependencies.                          *)
Sorting == pc = "sort" \/ result \in {"ok", "CircularDependency"}

Enqueued == start_order \o queue

LoopInv ==
    /\ ~DuplicateServiceId
    /\ ~MissingDependency
    /\ \A id \in Ids : indegree[id] = Cardinality(Unresolved(id))
    /\ \A id \in Ids : indegree[id] = 0 <=> id \in Names(Enqueued)
    /\ \A i, j \in 1..Len(Enqueued) : Enqueued[i] = Enqueued[j] => i = j
    /\ DependenciesFirst(start_order, [id \in Ids |-> Dependencies(id)])

(* INVARIANT the whole state is well formed and the bookkeeping of the      *)
(* sorting loop (graph.rs 92-112) is exact: saturating_sub never saturates, *)
(* and no service is queued twice or before its in-degree is really zero,   *)
(* even for manifests that list a dependency several times.                 *)
DgIndInv ==
    /\ DgTypeOK
    /\ pc = "done" <=> result # "none"
    /\ pc = "validate" => start_order = << >> /\ queue = << >>
    /\ result \in {"ok", "CircularDependency"} => queue = << >>
    /\ result = "ok" => Len(start_order) = Cardinality(Ids)
    /\ result = "CircularDependency" => Len(start_order) # Cardinality(Ids)
    /\ Sorting => LoopInv

(* INVARIANT an accepted list of manifests gets a start order: every        *)
(* service once, "dependencies before dependents" (graph.rs 124).           *)
ResultIsStartOrder ==
    result = "ok" =>
        IsStartOrder(start_order, Ids, [id \in Ids |-> Dependencies(id)])

(* INVARIANT CircularDependency is never a false alarm: the services named  *)
(* in the error are not empty and each waits for another one of them, so    *)
(* following those dependencies must run into a cycle (graph.rs 114-119).   *)
CycleIsReal ==
    result = "CircularDependency" =>
        LET remaining == Ids \ Names(start_order) IN
        /\ remaining # {}
        /\ \A id \in remaining : Names(Dependencies(id)) \cap remaining # {}

(* INVARIANT "startup_priority breaks ties deterministically" (graph.rs 67):*)
(* of two services with the same dependencies the one with the smaller      *)
(* (priority, id) starts first, whatever else the batch holds.              *)
TiesByPriority ==
    \A i, j \in 1..Len(start_order) :
        i < j /\ Names(Dependencies(start_order[i])) = Names(Dependencies(start_order[j]))
            => \/ Priority(start_order[i]) < Priority(start_order[j])
               \/ /\ Priority(start_order[i]) = Priority(start_order[j])
                  /\ start_order[i] < start_order[j]
=============================================================================
