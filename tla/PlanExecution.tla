---------------------------- MODULE PlanExecution ----------------------------
(***************************************************************************)
(* The daemon's planner (services/aether-agentd/src/planner.rs): it runs   *)
(* the steps of a plan one after the other against the control and surface *)
(* servers, retries a failed call as agent/aether-agent-runtime/src/       *)
(* recovery.rs decides, and stops at the first step that does not succeed. *)
(*                                                                         *)
(* A call may take effect although its answer is lost, late or unreadable, *)
(* and a retry of it takes effect again.  An attempt at a window operation *)
(* is up to two calls: the control plane's, and when that one does not     *)
(* answer ok the surface server's (intent.rs, execute_extended).  The      *)
(* context the pre-checks read is the snapshot taken before the plan, here *)
(* whether the plan's application was running then.                        *)
(***************************************************************************)
EXTENDS Integers, Sequences

CONSTANT MaxSteps       \* bound on the length of a plan (8 in the code)

VARIABLES plan,         \* the capabilities of the steps
          ctx,          \* was the application running when the plan was made?
          step,         \* the step under way
          attempt,      \* attempts made at it
          route,        \* the server the attempt's next call goes to
          effects,      \* step -> how often it took effect on the system
          results       \* the statuses reported so far

planVars == <<plan, ctx, step, attempt, route, effects, results>>

FailureKinds == {"Transient", "Permanent", "Unknown"}

\* One capability of each kind the planner treats differently.
Capabilities == {"AppList", "WindowClose", "AppLaunch", "FileCreate", "FileDelete"}

\* The capabilities with a second server to turn to.
has_fallback(cap) == cap = "WindowClose"

recovery_policy_for(cap) == IF cap \in {"AppList", "WindowClose"} THEN 3 ELSE 1

(* Mutant: one retry too many. *)
DecideLate(max_retries, made, kind) ==
    IF made > max_retries + 1 \/ kind = "Permanent" \/ (kind = "Unknown" /\ made > 1)
    THEN "Abort" ELSE "Retry"

decide_recovery(max_retries, made, kind) ==
    IF made > max_retries \/ kind = "Permanent" \/ (kind = "Unknown" /\ made > 1)
    THEN "Abort" ELSE "Retry"

\* High and critical capabilities need consent, which a plan never has.
ConfirmationPolicy(cap) == IF cap = "FileDelete" THEN "RequiresConsent" ELSE "AutoExecute"

precheck(cap) == CASE cap = "WindowClose" -> ctx
                   [] cap = "AppLaunch" -> ~ ctx
                   [] OTHER -> TRUE

PlanInit == /\ plan \in UNION {[1..n -> Capabilities] : n \in 1..MaxSteps}
            /\ ctx \in BOOLEAN
            /\ step = 1
            /\ attempt = 0
            /\ route = "control"
            /\ effects = [i \in DOMAIN plan |-> 0]
            /\ results = <<>>

steps_left == step <= Len(plan) /\ Len(results) = step - 1

\* A step ends the plan with status s.
stop_with(s) == /\ results' = Append(results, s)
                /\ UNCHANGED <<plan, ctx, step, attempt, route>>

\* Nothing has been called yet for this step.
at_start == steps_left /\ attempt = 0 /\ route = "control"

\* The arguments do not pass the capability's validation.
Reject == at_start /\ stop_with("Rejected") /\ UNCHANGED effects

Confirm == /\ at_start
           /\ ConfirmationPolicy(plan[step]) = "RequiresConsent"
           /\ stop_with("RequiresConsent")
           /\ UNCHANGED effects

Precheck == /\ at_start
            /\ ConfirmationPolicy(plan[step]) = "AutoExecute"
            /\ ~ precheck(plan[step])
            /\ stop_with("Failed")
            /\ UNCHANGED effects

may_call == /\ steps_left
            /\ ConfirmationPolicy(plan[step]) = "AutoExecute"
            /\ precheck(plan[step])

\* A call counts as one effect, if it was applied.
took_effect(applied) ==
    effects' = IF applied THEN [effects EXCEPT ![step] = @ + 1] ELSE effects

\* The call succeeds and its answer arrives: on to the next step.
Succeed == /\ may_call
           /\ took_effect(TRUE)
           /\ results' = Append(results, "Success")
           /\ step' = step + 1
           /\ attempt' = 0
           /\ route' = "control"
           /\ UNCHANGED <<plan, ctx>>

\* The control plane does not answer ok, whatever it did: the attempt turns to
\* the surface server.
FallBack(applied) ==
    /\ may_call
    /\ has_fallback(plan[step]) /\ route = "control"
    /\ took_effect(applied)
    /\ route' = "surface"
    /\ UNCHANGED <<plan, ctx, step, attempt, results>>

\* The attempt's last call fails with an error of this kind, before or after
\* taking effect: a lost answer is a timeout, one that does not decode any kind.
Fail(kind, applied) ==
    /\ may_call
    /\ has_fallback(plan[step]) => route = "surface"
    /\ took_effect(applied)
    /\ IF decide_recovery(recovery_policy_for(plan[step]), attempt + 1, kind) = "Retry"
       THEN /\ attempt' = attempt + 1
            /\ route' = "control"
            /\ UNCHANGED <<plan, ctx, step, results>>
       ELSE stop_with("Failed")

\* The result of execute.
plan_ok == results # <<>> /\ \A i \in DOMAIN results : results[i] = "Success"
finished == ~ steps_left

PlanNext == \/ Reject \/ Confirm \/ Precheck \/ Succeed
            \/ \E applied \in BOOLEAN :
                  \/ FallBack(applied)
                  \/ \E kind \in FailureKinds : Fail(kind, applied)

PlanSpec == PlanInit /\ [][PlanNext]_planVars

-----------------------------------------------------------------------------
(* How often a step may take effect: once for each call of each attempt its *)
(* policy allows.  The header of planner.rs promises less (lines 12-13:     *)
(* "Mutating capabilities ... are retried at most once, and only on         *)
(* transient errors"): closing, focusing, minimizing, maximizing and        *)
(* restoring a window fall under the three retries of the read-only         *)
(* capabilities, and an error of unknown kind is retried once too.          *)
MaxEffects(cap) ==
    LET attempts == 1 + recovery_policy_for(cap)
    IN  IF has_fallback(cap) THEN 2 * attempts ELSE attempts

(* The report of a plan is true of the system.  Nothing is done for a step  *)
(* behind one that did not succeed, or for one that was rejected or waits   *)
(* for consent; a step reported as a success took effect; a plan reported   *)
(* as ok did every step; and no step takes effect more often than its       *)
(* attempts make calls, lost answers, fallbacks and retries included.       *)
PlanReportIsTrue ==
    /\ \A i \in DOMAIN plan : effects[i] > 0 =>
          /\ \A j \in 1..(i - 1) : results[j] = "Success"
          /\ effects[i] <= MaxEffects(plan[i])
    /\ \A i \in DOMAIN results :
          CASE results[i] = "Success" -> effects[i] > 0
            [] results[i] \in {"Rejected", "RequiresConsent"} -> effects[i] = 0
            [] OTHER -> TRUE
    /\ finished /\ plan_ok => \A i \in DOMAIN plan : effects[i] > 0
=============================================================================
