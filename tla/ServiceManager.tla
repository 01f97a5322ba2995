--------------------------- MODULE ServiceManager ---------------------------
(***************************************************************************)
(* The service manager of the system daemon (system-core/src/manager.rs)   *)
(* driving an arbitrary ServiceExecutor. The manager is called by one      *)
(* thread, so calls never overlap; but start_all, stop_all, poll_health    *)
(* and the daemon's start/restart request visit one service after another, *)
(* every visit may fail, and service processes may die at any time.        *)
(***************************************************************************)
EXTENDS Integers, Sequences, FiniteSets, StartOrder

CONSTANTS
    Services,           \* the services of the dependency graph
    Deps,               \* manifest.dependencies of each
    Order,              \* graph.start_order()
    RestartPolicy,      \* manifest.restart_policy of each
    RestartLimit,       \* manifest.restart_limit of each
    CountMax,           \* u32::MAX, where the counters saturate
    Pids,               \* process instances the executor may create
    NoHandle            \* Option::None of a handle

ASSUME DepsAssumption == Deps \in [Services -> Seq(Services)]
ASSUME OrderAssumption == IsStartOrder(Order, Services, Deps)
ASSUME PolicyAssumption ==
    /\ RestartPolicy \in [Services -> {"Never", "OnFailure", "Always"}]
    /\ CountMax \in Nat
    /\ RestartLimit \in [Services -> 0..CountMax]
ASSUME HandleAssumption == NoHandle \notin Pids

VARIABLES
    svc,        \* ManagedService record of each service
    live,       \* executor side: the processes that are alive
    op,         \* the call in progress: its kind, the services it visits, the next one
    reply,      \* the last call's result, if it was start_all or stop_all
    stop_err,   \* history: services whose last executor.stop failed
    auto        \* history: automatic restarts of each service

smVars == <<svc, live, op, reply, stop_err, auto>>

HealthStatus == {"Healthy", "Degraded", "Unhealthy"}

ManagedService == [status : {"Running", "Stopped", "Failed"},
                   health : HealthStatus,
                   handle : Pids \cup {NoHandle},
                   restarts : 0..CountMax]

Fresh == [status |-> "Stopped", health |-> "Unhealthy", handle |-> NoHandle,
          restarts |-> 0]

Idle == [kind |-> "idle", list |-> << >>, i |-> 1, ok |-> TRUE]

NoReply == [call |-> "none", ok |-> TRUE]

SmInit ==
    /\ svc = [s \in Services |-> Fresh]
    /\ live = {}
    /\ op = Idle
    /\ reply = NoReply
    /\ stop_err = {}
    /\ auto = [s \in Services |-> 0]

-----------------------------------------------------------------------------
(* The two primitives every operation is made of.                           *)

SaturatingInc(n) == IF n = CountMax THEN n ELSE n + 1

(* executor.start returns a new process. *)
FreshPids == {p \in Pids \ live : \A s \in Services : svc[s].handle # p}

DependenciesRunning(s) ==
    \A i \in 1..Len(Deps[s]) : svc[Deps[s][i]].status = "Running"

Started(record, pid) ==
    [record EXCEPT !.status = "Running", !.handle = pid, !.health = "Healthy"]

Stopped(record) ==
    [record EXCEPT !.status = "Stopped", !.handle = NoHandle, !.health = "Unhealthy"]

(* start_one, Ok: there is no check for a process that is already running,  *)
(* whose handle is overwritten.                                             *)
StartOk(s) ==
    /\ DependenciesRunning(s)
    /\ \E p \in FreshPids :
        /\ svc' = [svc EXCEPT ![s] = Started(@, p)]
        /\ live' = live \cup {p}
    /\ stop_err' = stop_err \ {s}

(* start_one, Err: a dependency is down, or the executor fails. *)
StartErr(s) == UNCHANGED <<svc, live, stop_err>>

(* stop_one, Ok: a service without a handle is only marked. *)
StopOk(s) ==
    /\ svc' = [svc EXCEPT ![s] = Stopped(@)]
    /\ live' = live \ {svc[s].handle}
    /\ stop_err' = stop_err \ {s}

(* stop_one, Err: the handle has been taken, nothing else is updated. *)
StopErr(s) ==
    /\ svc[s].handle # NoHandle
    /\ svc' = [svc EXCEPT ![s].handle = NoHandle]
    /\ live' = live
    /\ stop_err' = stop_err \cup {s}

(* restart_one after its stop_one succeeded: the restart is counted whether *)
(* or not start_one brings the service back.                                *)
Restarting(record) ==
    [Stopped(record) EXCEPT !.restarts = SaturatingInc(record.restarts)]

RestartOk(s) ==
    /\ DependenciesRunning(s)
    /\ \E p \in FreshPids :
        /\ svc' = [svc EXCEPT ![s] = Started(Restarting(@), p)]
        /\ live' = (live \ {svc[s].handle}) \cup {p}
    /\ stop_err' = stop_err \ {s}

RestartErr(s) ==
    \/ StopErr(s)
    \/ /\ svc' = [svc EXCEPT ![s] = Restarting(@)]
       /\ live' = live \ {svc[s].handle}
       /\ stop_err' = stop_err \ {s}

-----------------------------------------------------------------------------
(* Calls that visit one service.                                            *)

Return == op' = Idle /\ reply' = NoReply

StartOne(s) ==
    /\ op.kind = "idle"
    /\ StartOk(s) \/ StartErr(s)
    /\ Return
    /\ UNCHANGED auto

StopOne(s) ==
    /\ op.kind = "idle"
    /\ StopOk(s) \/ StopErr(s)
    /\ Return
    /\ UNCHANGED auto

RestartOne(s) ==
    /\ op.kind = "idle"
    /\ RestartOk(s) \/ RestartErr(s)
    /\ Return
    /\ UNCHANGED auto

(* The failed service's handle is dropped without executor.stop, so the two *)
(* stop_one calls on the restart path find nothing to stop and succeed.     *)
Failing(record) ==
    [record EXCEPT !.status = "Failed", !.health = "Unhealthy", !.handle = NoHandle]

(* Mutant: the limit compared with <=. *)
MayRestartOnceMore(s) ==
    RestartPolicy[s] # "Never" /\ svc[s].restarts <= RestartLimit[s]

MayRestart(s) ==
    RestartPolicy[s] # "Never" /\ svc[s].restarts < RestartLimit[s]

HandleFailure(s) ==
    /\ op.kind = "idle"
    /\ Return
    /\ \/ /\ ~MayRestart(s)
          /\ svc' = [svc EXCEPT ![s] = Failing(@)]
          /\ UNCHANGED <<live, stop_err, auto>>
       \/ /\ MayRestart(s)
          /\ auto' = [auto EXCEPT ![s] = @ + 1]
          /\ stop_err' = stop_err \ {s}
          /\ \/ /\ DependenciesRunning(s)
                /\ \E p \in FreshPids :
                    /\ svc' = [svc EXCEPT ![s] = Started(Restarting(Failing(@)), p)]
                    /\ live' = live \cup {p}
             \/ /\ svc' = [svc EXCEPT ![s] = Restarting(Failing(@))]
                /\ live' = live

-----------------------------------------------------------------------------
(* Calls that visit several services.                                       *)

(* Mutant: stopped in start order. *)
StartOrderAgain == Order

StopOrder == [i \in 1..Len(Order) |-> Order[Len(Order) + 1 - i]]

Begin(kind, list) ==
    /\ op.kind = "idle"
    /\ op' = [kind |-> kind, list |-> list, i |-> 1, ok |-> TRUE]
    /\ reply' = NoReply
    /\ UNCHANGED <<svc, live, stop_err, auto>>

(* Mutant: started in stop order. *)
StartAllBackwards == Begin("start_all", StopOrder)

StartAll == Begin("start_all", Order)

StopAll == Begin("stop_all", StopOrder)

PollHealth == Begin("poll_health", Order)

(* The start and restart requests of the daemon: the dependencies of s that *)
(* are down are started first, in the manifest's order, then s is restarted.*)
RequestStart(s) == Begin("request", Append(Deps[s], s))

Visited == op.list[op.i]

Advance == op' = [op EXCEPT !.i = @ + 1] /\ UNCHANGED reply

(* start_all: on an error everything is stopped again, in stop order, and   *)
(* the result of that is dropped.                                           *)
StartAllVisit ==
    /\ op.kind = "start_all"
    /\ op.i <= Len(op.list)
    /\ \/ StartOk(Visited) /\ Advance
       \/ /\ StartErr(Visited)
          /\ op' = [kind |-> "rollback", list |-> StopOrder, i |-> 1, ok |-> TRUE]
          /\ UNCHANGED reply
    /\ UNCHANGED auto

(* Mutant: the first error ends the loop. *)
StopAllVisitFailFast ==
    /\ op.kind \in {"stop_all", "rollback"}
    /\ op.i <= Len(op.list)
    /\ \/ StopOk(Visited) /\ Advance
       \/ /\ StopErr(Visited)
          /\ op' = [op EXCEPT !.i = Len(op.list) + 1, !.ok = FALSE]
          /\ UNCHANGED reply
    /\ UNCHANGED auto

(* stop_all: errors are remembered, the loop goes on. *)
StopAllVisit ==
    /\ op.kind \in {"stop_all", "rollback"}
    /\ op.i <= Len(op.list)
    /\ \/ StopOk(Visited) /\ Advance
       \/ /\ StopErr(Visited)
          /\ op' = [op EXCEPT !.i = @ + 1, !.ok = FALSE]
          /\ UNCHANGED reply
    /\ UNCHANGED auto

(* Mutant: the probe's answer updates the health only. *)
PollVisitHealthOnly ==
    /\ op.kind = "poll_health"
    /\ op.i <= Len(op.list)
    /\ IF svc[Visited].handle = NoHandle
       THEN UNCHANGED svc
       ELSE \E h \in HealthStatus : svc' = [svc EXCEPT ![Visited].health = h]
    /\ Advance
    /\ UNCHANGED <<live, stop_err, auto>>

(* A Running service that is found Unhealthy becomes Failed; a Failed one   *)
(* that is found Healthy again stays Failed.                                *)
Probed(record, h) ==
    [record EXCEPT !.health = h,
                   !.status = IF h = "Unhealthy" /\ @ = "Running" THEN "Failed" ELSE @]

(* poll_health: the probe's answer, or "Unhealthy" when the probe fails. *)
PollVisit ==
    /\ op.kind = "poll_health"
    /\ op.i <= Len(op.list)
    /\ IF svc[Visited].handle = NoHandle
       THEN UNCHANGED svc
       ELSE \E h \in HealthStatus : svc' = [svc EXCEPT ![Visited] = Probed(@, h)]
    /\ Advance
    /\ UNCHANGED <<live, stop_err, auto>>

(* Errors of starting a dependency are ignored. *)
RequestDependency ==
    /\ op.kind = "request"
    /\ op.i < Len(op.list)
    /\ \/ svc[Visited].status = "Running" /\ UNCHANGED <<svc, live, stop_err>>
       \/ svc[Visited].status # "Running" /\ (StartOk(Visited) \/ StartErr(Visited))
    /\ Advance
    /\ UNCHANGED auto

RequestRestart ==
    /\ op.kind = "request"
    /\ op.i = Len(op.list)
    /\ RestartOk(Visited) \/ RestartErr(Visited)
    /\ Return
    /\ UNCHANGED auto

FinishRequest ==
    /\ op.kind \in {"start_all", "stop_all", "rollback", "poll_health"}
    /\ op.i > Len(op.list)
    /\ op' = Idle
    /\ reply' = CASE op.kind = "rollback" -> [call |-> "start_all", ok |-> FALSE]
                 [] op.kind = "poll_health" -> NoReply
                 [] OTHER -> [call |-> op.kind, ok |-> op.ok]
    /\ UNCHANGED <<svc, live, stop_err, auto>>

(* A service process dies by itself. *)
Die(p) ==
    /\ p \in live
    /\ live' = live \ {p}
    /\ UNCHANGED <<svc, op, reply, stop_err, auto>>

Call ==
    \/ StartAll \/ StopAll \/ PollHealth
    \/ \E s \in Services : \/ StartOne(s) \/ StopOne(s) \/ RestartOne(s)
                           \/ HandleFailure(s) \/ RequestStart(s)

Step == StartAllVisit \/ StopAllVisit \/ PollVisit \/ RequestDependency \/ RequestRestart \/ FinishRequest

SmNext == Call \/ Step \/ \E p \in Pids : Die(p)

SmSpec == SmInit /\ [][SmNext]_smVars

-----------------------------------------------------------------------------
OpKinds == {"idle", "start_all", "stop_all", "rollback", "poll_health", "request"}

SmTypeOK ==
    /\ svc \in [Services -> ManagedService]
    /\ live \subseteq Pids
    /\ op \in [kind : OpKinds, list : Seq(Services), i : Nat \ {0}, ok : BOOLEAN]
    /\ reply \in [call : {"none", "start_all", "stop_all"}, ok : BOOLEAN]
    /\ stop_err \subseteq Services
    /\ auto \in [Services -> 0..CountMax]

(* A loop walks the list its kind stands for. *)
OpOK ==
    /\ op.i <= Len(op.list) + 1
    /\ op.kind # "idle" => reply = NoReply
    /\ op.kind = "start_all" => op.ok
    /\ op.kind \in {"start_all", "poll_health"} => op.list = Order
    /\ op.kind \in {"stop_all", "rollback"} => op.list = StopOrder

(* Whom a stop has reached: it is Stopped, or its executor.stop failed. *)
Down(s) ==
    \/ s \in stop_err
    \/ svc[s].status = "Stopped" /\ svc[s].handle = NoHandle

(* What a service that is reported Running may lack: its handle, but only   *)
(* because stop_one took it and executor.stop then failed.                  *)
RunningIsServed ==
    \A s \in Services :
        svc[s].status = "Running" =>
            /\ svc[s].health # "Unhealthy"
            /\ svc[s].handle # NoHandle \/ s \in stop_err

(* How far the loop in progress has got. *)
Progress ==
    \A j \in 1..(op.i - 1) :
        /\ op.kind = "start_all" => svc[op.list[j]].status = "Running"
        /\ op.kind \in {"stop_all", "rollback"} => Down(op.list[j])
        /\ op.kind = "stop_all" /\ op.ok => op.list[j] \notin stop_err

(* INVARIANT start_all is never stopped by its own order: whatever state    *)
(* the manager was in, when it visits a service all of the dependencies     *)
(* that start_one insists on are Running, so that only the executor can     *)
(* make it fail (manager.rs 133-144, 158-167).                              *)
StartAllUnblocked ==
    op.kind = "start_all" /\ op.i <= Len(op.list) => DependenciesRunning(Visited)

(* INVARIANT stop_all, and the rollback of start_all, never take a service  *)
(* away from a running dependent: when it is visited, all of its dependents *)
(* are down already or could not be stopped (manager.rs 190-204).           *)
StopsDependentsFirst ==
    op.kind \in {"stop_all", "rollback"} /\ op.i <= Len(op.list) =>
        \A s \in Services : Visited \in Names(Deps[s]) => Down(s)

(* INVARIANT when stop_all, or a start_all that failed, has returned, every *)
(* service is Stopped except those whose executor.stop failed in that very  *)
(* pass; and then stop_all has said so.                                     *)
NothingLeftRunning ==
    \/ reply.call = "stop_all"
    \/ reply.call = "start_all" /\ ~reply.ok
    => /\ \A s \in Services : Down(s)
       /\ reply.call = "stop_all" /\ reply.ok => stop_err = {}

(* INVARIANT a crash loop ends: over the life of the manager a service is   *)
(* restarted by handle_failure at most restart_limit times, and never under *)
(* the policy Never, whatever restarts were requested in between.           *)
BoundedAutoRestarts ==
    \A s \in Services :
        /\ auto[s] <= RestartLimit[s]
        /\ auto[s] <= svc[s].restarts
        /\ RestartPolicy[s] = "Never" => auto[s] = 0

(* INVARIANT the state is well formed and a loop that has visited a service *)
(* has left it Running (start_all) or Down (stop_all, rollback); a service  *)
(* reported Running is never reported Unhealthy, and has a handle unless    *)
(* its stop failed.                                                         *)
SmIndInv == SmTypeOK /\ OpOK /\ RunningIsServed /\ Progress

(* What the doc of start_all says: "if any service cannot start, previously *)
(* started services are stopped again" (manager.rs 131-132), and the error  *)
(* it returns: "startup failed; rolled back all services".                  *)
RolledBack ==
    reply.call = "start_all" /\ ~reply.ok =>
        \A s \in Services : svc[s].status # "Running"
=============================================================================
