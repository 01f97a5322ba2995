----------------------------- MODULE Supervision -----------------------------
(***************************************************************************)
(* The supervisor process (services/aether-supervisor/src/main.rs and      *)
(* lib.rs): it starts one child, looks every 100 ms whether it has exited, *)
(* and starts it again after a growing delay, up to a limit.               *)
(***************************************************************************)
EXTENDS Integers

CONSTANTS MaxLimit,     \* bound on the restart limit
          base_ms,      \* 200 in the code
          max_ms        \* 10000 in the code

ASSUME SupervisionAssumption ==
    MaxLimit \in Nat /\ base_ms \in Nat /\ max_ms \in Nat /\ base_ms <= max_ms

VARIABLES policy,       \* the restart policy
          limit,        \* the restart limit
          sup,          \* the supervisor: "start", "loop", "backoff" or "gone"
          child,        \* "None" (no handle), "running" or "exited"
          restarts,     \* restarts made
          delay,        \* the last delay, 0 before the first
          shorter       \* history: a delay was below the one before it

supVars == <<policy, limit, sup, child, restarts, delay, shorter>>

RestartPolicies == {"Never", "OnFailure", "Always"}

SupInit == /\ policy \in RestartPolicies
           /\ limit \in 0..MaxLimit
           /\ sup = "start"
           /\ child = "None"
           /\ restarts = 0
           /\ delay = 0
           /\ shorter = FALSE

least(a, b) == IF a < b THEN a ELSE b

\* launch leaves the handle as it is when the spawn fails.
launch_child(ok) == child' = IF ok THEN "running" ELSE child

\* The first launch; only the policy Never gives up when it fails.
Start(ok) == /\ sup = "start"
             /\ launch_child(ok)
             /\ sup' = IF ~ ok /\ policy = "Never" THEN "gone" ELSE "loop"
             /\ UNCHANGED <<policy, limit, restarts, delay, shorter>>

\* The child ends by itself.
ChildExits == /\ child = "running"
              /\ child' = "exited"
              /\ UNCHANGED <<policy, limit, sup, restarts, delay, shorter>>

\* record_failure: the delay doubles up to its maximum; every exit counts.
record_failure == least(base_ms * 2 ^ least(restarts, 16), max_ms)

(* Mutant: one restart too many. *)
DecideOnceMore == IF policy = "Never" \/ restarts > limit THEN "GiveUp" ELSE "Launch"

decide == IF policy = "Never" \/ restarts >= limit THEN "GiveUp" ELSE "Launch"

\* The loop sees the exit, whatever the status, and waits or gives up.
Observe == /\ sup = "loop"
           /\ child = "exited"
           /\ child' = "None"
           /\ delay' = record_failure
           /\ shorter' = (shorter \/ record_failure < delay)
           /\ IF decide = "Launch" THEN sup' = "backoff" /\ restarts' = restarts + 1
              ELSE sup' = "gone" /\ UNCHANGED restarts
           /\ UNCHANGED <<policy, limit>>

\* The delay is over: the result of this launch is not looked at.
Relaunch(ok) == /\ sup = "backoff"
                /\ launch_child(ok)
                /\ sup' = "loop"
                /\ UNCHANGED <<policy, limit, restarts, delay, shorter>>

\* try_wait fails: the handle is dropped, the child may go on.
TryWaitFails == /\ sup = "loop"
                /\ child # "None"
                /\ child' = "None"
                /\ UNCHANGED <<policy, limit, sup, restarts, delay, shorter>>

SupNext == \/ \E ok \in BOOLEAN : Start(ok) \/ Relaunch(ok)
           \/ ChildExits \/ Observe \/ TryWaitFails

SupSpec == SupInit /\ [][SupNext]_supVars

\* The process runs its loop for as long as it lives, and its sleeps end.
SupFairSpec == /\ SupSpec
               /\ WF_supVars(\E ok \in BOOLEAN : Start(ok) \/ Relaunch(ok))
               /\ WF_supVars(Observe)

-----------------------------------------------------------------------------
(* The supervisor keeps within its policy: it never makes more restarts     *)
(* than the limit, with delays that do not shrink and stay within their     *)
(* bounds, and it leaves only when the policy forbids a restart or every    *)
(* one of them is used up.                                                  *)
RestartsAsPromised ==
    /\ restarts <= limit
    /\ ~ shorter
    /\ delay # 0 => delay \in base_ms..max_ms
    /\ sup = "gone" => policy = "Never" \/ restarts = limit

(* The child is kept alive according to the policy (lib.rs:3, "Keeps a      *)
(* managed child process alive according to its restart policy"): when the  *)
(* supervisor is about to launch it, at first or after an exit, it brings a *)
(* child up or gives up.  The loop does neither once the launch has failed: *)
(* it acts on an exit status only, and there is no handle to give it one.   *)
KeptAlive == sup \in {"start", "backoff"} ~> (child = "running" \/ sup = "gone")
=============================================================================
