---------------------------- MODULE Applications ----------------------------
(***************************************************************************)
(* The application manager (system/aether-application-manager/src/lib.rs): *)
(* the instances launched so far, the state recorded for each, and the     *)
(* processes themselves, which end on their own between two requests and   *)
(* are noticed by the next one.  An instance is a record; it has a child   *)
(* exactly while it is recorded as Running.                                *)
(***************************************************************************)
EXTENDS Integers, Sequences

CONSTANTS Apps,           \* the registered applications
          MaxInstances    \* bound on the instances ever launched

VARIABLES instances,      \* sequence of [app_id, state]
          process         \* instance -> "alive", "success" or "failure"

appVars == <<instances, process>>

AppsInit == instances = <<>> /\ process = <<>>

Running(recs, i) == recs[i].state = "Running"

\* try_wait on every child that is recorded as Running.
reap == [i \in DOMAIN instances |->
            [instances[i] EXCEPT !.state =
                IF @ # "Running" \/ process[i] = "alive" THEN @
                ELSE IF process[i] = "success" THEN "Exited" ELSE "Failed"]]

\* LAUNCH after reaping; the spawn may fail, which is recorded too.
launch(app, spawned) ==
    IF \E i \in DOMAIN reap : reap[i].app_id = app /\ Running(reap, i)
    THEN instances' = reap /\ UNCHANGED process
    ELSE /\ Len(instances) < MaxInstances
         /\ instances' = Append(reap, [app_id |-> app, state |-> IF spawned THEN "Running"
                                                                 ELSE "Failed"])
         /\ process' = Append(process, IF spawned THEN "alive" ELSE "failure")

(* Mutant: the record is closed, the process is not killed. *)
CloseWithoutKill(i) ==
    /\ instances' = [reap EXCEPT ![i].state = "Closed"]
    /\ UNCHANGED process

\* CLOSE of any known instance: a child is killed and waited for.
close_instance(i) ==
    /\ instances' = [reap EXCEPT ![i].state = "Closed"]
    /\ process' = [process EXCEPT ![i] = IF @ = "alive" THEN "failure" ELSE @]

\* "app.close" by application closes its running instance, if it has one.
close_app(app) ==
    LET live == {i \in DOMAIN reap : reap[i].app_id = app /\ Running(reap, i)}
    IN IF live = {} THEN instances' = reap /\ UNCHANGED process
       ELSE close_instance(CHOOSE i \in live : \A j \in live : i <= j)

\* Every query (app.status, system status, the context snapshot) reaps.
query == instances' = reap /\ UNCHANGED process

\* A process ends by itself.
exits(i, code) == /\ process[i] = "alive"
                  /\ process' = [process EXCEPT ![i] = code]
                  /\ UNCHANGED instances

-----------------------------------------------------------------------------
(* The single-instance policy of LAUNCH is about processes, not records: at *)
(* most one process of an application is alive, and none is alive that the  *)
(* manager has stopped tracking, however ends, launches, failed spawns and  *)
(* closes of finished instances interleave.                                 *)
OneProcessPerApp ==
    /\ \A i \in DOMAIN process : process[i] = "alive" => Running(instances, i)
    /\ \A i, j \in DOMAIN process :
          process[i] = "alive" /\ process[j] = "alive"
              /\ instances[i].app_id = instances[j].app_id => i = j
=============================================================================
