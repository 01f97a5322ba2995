----------------------------- MODULE TaskGraph -----------------------------
(***************************************************************************)
(* The agent's task graph (aether-agent-core/src/task.rs) as operators on  *)
(* the set of live tasks: records with an id, the ids they depend on, what *)
(* they do, and the number of their insertion, which is also their order   *)
(* in the vector. Removing a task leaves the tasks that depend on it with  *)
(* a dangling dependency.                                                  *)
(***************************************************************************)
EXTENDS Integers, Sequences

Ids(tasks) == {t.id : t \in tasks}

(* TaskGraph::get followed by a walk over depends_on. *)
DependsOn(tasks, id) == UNION {t.deps : t \in {u \in tasks : u.id = id}}

(* Sets of ids that hold, with a live task, everything it depends on. *)
ClosedSets(tasks) ==
    LET known == Ids(tasks) \cup UNION {t.deps : t \in tasks}
    IN {S \in SUBSET known : \A id \in S : DependsOn(tasks, id) \subseteq S}

(* The walk over dependency edges reaches what no closed set around its     *)
(* start can leave out.                                                     *)
TransitivelyDependsOn(tasks, start, target) ==
    \A S \in ClosedSets(tasks) : start.deps \subseteq S => target \in S

(* Mutant: no live task can refer to a task that is not there yet. *)
InsertableUnchecked(tasks, task) == task.id \notin Ids(tasks) /\ task.deps \subseteq Ids(tasks)

(* The checks of TaskGraph::insert: no duplicate, no unknown dependency, no *)
(* live task that waits for this id already.                                *)
Insertable(tasks, task) ==
    /\ task.id \notin Ids(tasks)
    /\ task.deps \subseteq Ids(tasks)
    /\ ~\E t \in tasks : TransitivelyDependsOn(tasks, t, task.id)

Without(tasks, id) == {t \in tasks : t.id # id}

(* No set of live tasks in which every one waits for another of the set.    *)
AcyclicGraph(tasks) ==
    \A S \in (SUBSET Ids(tasks)) \ {{}} : \E id \in S : DependsOn(tasks, id) \cap S = {}
=============================================================================
