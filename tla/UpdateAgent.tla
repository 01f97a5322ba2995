----------------------------- MODULE UpdateAgent -----------------------------
(***************************************************************************)
(* The update agent (update-agent/src/lib.rs) with its retry policies      *)
(* (retry-policy/src/lib.rs) and the engine that works on real files       *)
(* (update-agent/src/disk_engine.rs), driven by UpdateAgent::apply or by   *)
(* the loop of the daemon (update-agent/src/bin/agentd.rs). Every file     *)
(* operation may fail, and the agent's process may die between any two     *)
(* steps or in the middle of a copy: files survive, memory does not.       *)
(***************************************************************************)
EXTENDS Integers, Sequences

CONSTANTS
    Plans,          \* update plans; a plan id is target@timestamp, so plans do not share files
    Target,         \* the component a plan replaces: the file active/<target>
    Image,          \* the bytes of a plan's update: what its .sha256 file is the digest of
    Original,       \* the bytes of every target before any update
    Damaged,        \* payloads whose bytes are not those of any update
    Torn,           \* a file whose copy was interrupted
    Missing,        \* no such file, no such plan
    Policies,       \* tables step -> RetryPolicy: the ones an agent may be given
    BreakerMax      \* bound on the failures counted for the circuit breaker

Steps == {"Download", "Verify", "Stage", "Snapshot", "Apply"}
Targets == {Target[p] : p \in Plans}
Bytes == {Image[p] : p \in Plans} \cup {Original, Damaged}

ASSUME FileAssumption ==
    /\ DOMAIN Target = Plans /\ DOMAIN Image = Plans
    /\ Missing \notin Bytes /\ Torn \notin Bytes /\ Missing # Torn /\ Missing \notin Plans
    /\ \A p \in Plans : Image[p] # Damaged /\ Image[p] # Original
ASSUME PolicyAssumption ==
    /\ BreakerMax \in Nat
    /\ Policies \subseteq
         [Steps -> [max : Nat, fallback : BOOLEAN, grouped : BOOLEAN, threshold : 0..BreakerMax]]

VARIABLES
    payload,    \* payloads/<plan_id>.bin, fetched in advance by someone else
    sidecar,    \* staging/<plan_id>.sha256 is there
    bin,        \* staging/<plan_id>.bin
    staged,     \* staging/<plan_id>.staged
    active,     \* active/<target>
    snapshot,   \* snapshot/<target>
    policy,     \* PolicyEngine::policies, registered once
    status,     \* UpdateStatus: stage, current_plan, last_error is set
    failures,   \* PolicyEngine::group_failures of the one group
    drive,      \* who drives which steps, the current one, the attempts made at it
    began       \* history: the plan driven last and the active bytes it found

disk == <<payload, sidecar, bin, staged, active, snapshot>>
updVars == <<payload, sidecar, bin, staged, active, snapshot, policy, status, failures, drive, began>>

Stages == {"Idle", "Downloading", "Verifying", "Staging", "Applying", "Done", "Failed", "RolledBack"}

Idle == [by |-> "nobody", i |-> 1, attempt |-> 1]

NewStatus == [stage |-> "Idle", plan |-> Missing, last_error |-> FALSE]

UpdInit ==
    /\ payload = [p \in Plans |-> Missing]
    /\ sidecar = [p \in Plans |-> FALSE]
    /\ bin = [p \in Plans |-> Missing]
    /\ staged = [p \in Plans |-> Missing]
    /\ active \in [Targets -> {Original, Missing}]
    /\ snapshot = [t \in Targets |-> Missing]
    /\ policy \in Policies
    /\ status = NewStatus
    /\ failures = 0
    /\ drive = Idle
    /\ began = [plan |-> Missing, active |-> Missing]

-----------------------------------------------------------------------------
(* UpdateStatus::transition; `note` tells whether a message comes with it. *)
Transition(st, to, note) ==
    [st EXCEPT !.stage = to,
               !.last_error = CASE to = "Failed" -> @ \/ note
                                [] to \in {"Idle", "Downloading"} -> FALSE
                                [] OTHER -> @]

StageOf(step) ==
    CASE step = "Download" -> "Downloading"
      [] step = "Verify" -> "Verifying"
      [] step = "Stage" -> "Staging"
      [] OTHER -> "Applying"

(* The steps of UpdateAgent::apply, and of the daemon's own loop. *)
ApplySteps == <<"Snapshot", "Download", "Verify", "Stage", "Apply">>

(* Mutant: the snapshot is taken when the update is in place. *)
DaemonStepsSnapshotLast == <<"Download", "Verify", "Stage", "Apply", "Snapshot">>

DaemonSteps == <<"Download", "Verify", "Stage", "Snapshot", "Apply">>

StepsOf(by) == IF by = "apply" THEN ApplySteps ELSE DaemonSteps

StepAt(d) == StepsOf(d.by)[d.i]

Step == StepAt(drive)

(* The engine runs a step of plan p with success. *)
Download(p) ==
    /\ payload[p] # Missing
    /\ bin' = [bin EXCEPT ![p] = payload[p]]
    /\ UNCHANGED <<payload, sidecar, staged, active, snapshot>>

(* Mutant: the digest is not compared. *)
VerifyUnchecked(p) ==
    /\ bin[p] # Missing
    /\ sidecar[p]
    /\ UNCHANGED disk

Verify(p) ==
    /\ bin[p] # Missing
    /\ sidecar[p]
    /\ bin[p] = Image[p]
    /\ UNCHANGED disk

(* Mutant: the payload is read again after it was verified. *)
StageFromPayload(p) ==
    /\ bin[p] # Missing
    /\ staged' = [staged EXCEPT ![p] = payload[p]]
    /\ bin' = [bin EXCEPT ![p] = Missing]
    /\ UNCHANGED <<payload, sidecar, active, snapshot>>

StageFile(p) ==
    /\ bin[p] # Missing
    /\ staged' = [staged EXCEPT ![p] = bin[p]]
    /\ bin' = [bin EXCEPT ![p] = Missing]
    /\ UNCHANGED <<payload, sidecar, active, snapshot>>

(* Mutant: an existing snapshot is kept. *)
SnapshotOnce(p) ==
    /\ snapshot' = [snapshot EXCEPT ![Target[p]] =
                        IF active[Target[p]] = Missing \/ @ # Missing THEN @ ELSE active[Target[p]]]
    /\ UNCHANGED <<payload, sidecar, bin, staged, active>>

(* A target that is not installed yet has nothing to copy. *)
Snapshot(p) ==
    /\ snapshot' = [snapshot EXCEPT ![Target[p]] =
                        IF active[Target[p]] = Missing THEN @ ELSE active[Target[p]]]
    /\ UNCHANGED <<payload, sidecar, bin, staged, active>>

ApplyFile(p) ==
    /\ staged[p] # Missing
    /\ active' = [active EXCEPT ![Target[p]] = staged[p]]
    /\ staged' = [staged EXCEPT ![p] = Missing]
    /\ UNCHANGED <<payload, sidecar, bin, snapshot>>

EngineOk(p) ==
    \/ Step = "Download" /\ Download(p)
    \/ Step = "Verify" /\ Verify(p)
    \/ Step = "Stage" /\ StageFile(p)
    \/ Step = "Snapshot" /\ Snapshot(p)
    \/ Step = "Apply" /\ ApplyFile(p)

(* A copy that ends early, by an error or by the death of the process. *)
TornCopy ==
    /\ drive.by # "nobody" /\ status.plan # Missing
    /\ Step = "Snapshot" /\ active[Target[status.plan]] # Missing
    /\ snapshot' = [snapshot EXCEPT ![Target[status.plan]] = Torn]
    /\ UNCHANGED <<payload, sidecar, bin, staged, active>>

(* The engine refuses, or a file operation fails: writes and renames then   *)
(* leave no trace.                                                          *)
EngineErr == UNCHANGED disk \/ TornCopy

-----------------------------------------------------------------------------
(* PolicyEngine::decide after the attempt-th failure of a step.             *)
Broken(rp) ==
    rp.grouped /\ rp.threshold > 0 /\ failures >= rp.threshold

(* Mutant: a step whose attempts are used up is taken for replaced. *)
DecideFallback(rp, attempt) ==
    CASE Broken(rp) -> "CircuitBreak"
      [] attempt >= rp.max -> "Fallback"
      [] OTHER -> "Retry"

Decide(rp, attempt) ==
    CASE Broken(rp) -> "CircuitBreak"
      [] attempt >= rp.max -> IF rp.fallback THEN "Fallback" ELSE "GiveUp"
      [] OTHER -> "Retry"

CountFailure(rp) ==
    failures' = IF rp.grouped /\ ~Broken(rp) /\ failures < BreakerMax
                THEN failures + 1 ELSE failures

-----------------------------------------------------------------------------
(* accept: possible at any stage, the plan is simply replaced. *)
Accept(p) ==
    /\ drive.by = "nobody"
    /\ status' = [status EXCEPT !.plan = p]
    /\ UNCHANGED <<disk, policy, failures, drive, began>>

Begin(by, plan) ==
    /\ drive' = [by |-> by, i |-> 1, attempt |-> 1]
    /\ began' = [plan |-> plan, active |-> IF plan = Missing THEN Missing ELSE active[Target[plan]]]

BeginApply ==
    /\ drive.by = "nobody"
    /\ Begin("apply", status.plan)
    /\ UNCHANGED <<disk, policy, status, failures>>

(* agentd: a new agent, the plan it was given, its loop over run_step. *)
BeginDaemon(p) ==
    /\ drive.by = "nobody"
    /\ status' = [NewStatus EXCEPT !.plan = p]
    /\ failures' = 0
    /\ Begin("daemon", p)
    /\ UNCHANGED <<disk, policy>>

(* The next step; after the last one apply enters Done, the daemon's loop   *)
(* just ends.                                                               *)
Continue(st) ==
    IF drive.i < Len(StepsOf(drive.by))
    THEN /\ drive' = [drive EXCEPT !.i = @ + 1, !.attempt = 1]
         /\ status' = st
    ELSE /\ drive' = Idle
         /\ status' = IF drive.by = "apply" THEN Transition(st, "Done", FALSE) ELSE st

(* fail_and_rollback: the stages only, no file is touched. *)
FailAndRollback(st) ==
    /\ drive' = Idle
    /\ status' = Transition(Transition(st, "Failed", FALSE), "RolledBack", FALSE)

(* run_step, Ok. A policy with max_attempts 0 never gets to run its step. *)
RunStepOk ==
    /\ drive.by # "nobody"
    /\ drive.by = "apply" => policy[Step].max > 0
    /\ status.plan # Missing
    /\ EngineOk(status.plan)
    /\ Continue(Transition(status, StageOf(Step), FALSE))
    /\ UNCHANGED <<policy, failures, began>>

(* The status run_step leaves behind on Err: without a plan it returns      *)
(* before the transition to Failed.                                         *)
StepErr ==
    LET st == Transition(status, StageOf(Step), FALSE) IN
    IF status.plan = Missing THEN st ELSE Transition(st, "Failed", TRUE)

(* Mutant: the attempt is not counted. *)
RetrySameAttempt == drive' = drive /\ status' = StepErr

Retry == drive' = [drive EXCEPT !.attempt = @ + 1] /\ status' = StepErr

(* apply_with_retry after run_step failed. apply goes on to the next step   *)
(* when the decision is Fallback.                                           *)
RunStepErr ==
    /\ drive.by = "apply"
    /\ policy[Step].max > 0
    /\ EngineErr
    /\ CountFailure(policy[Step])
    /\ LET decision == Decide(policy[Step], drive.attempt) IN
       \/ decision = "Retry" /\ Retry
       \/ decision = "Fallback" /\ Continue(StepErr)
       \/ decision \in {"GiveUp", "CircuitBreak"} /\ FailAndRollback(StepErr)
    /\ UNCHANGED <<policy, began>>

(* apply_with_retry with max_attempts 0: gives up without running the step. *)
NoAttempts ==
    /\ drive.by = "apply"
    /\ policy[Step].max = 0
    /\ FailAndRollback(status)
    /\ UNCHANGED <<disk, policy, failures, began>>

(* The daemon does not retry. *)
DaemonStepErr ==
    /\ drive.by = "daemon"
    /\ EngineErr
    /\ FailAndRollback(StepErr)
    /\ UNCHANGED <<policy, failures, began>>

Reset ==
    /\ drive.by = "nobody"
    /\ status' = Transition(status, "Idle", FALSE)
    /\ UNCHANGED <<disk, policy, failures, drive, began>>

ResetBreakers ==
    /\ drive.by = "nobody"
    /\ failures' = 0
    /\ UNCHANGED <<disk, policy, status, drive, began>>

(* Whoever fetches payloads writes them, whole or damaged, and the digest.  *)
Fetch(p) ==
    /\ payload' \in {[payload EXCEPT ![p] = b] : b \in {Image[p], Damaged}}
    /\ sidecar' \in {sidecar, [sidecar EXCEPT ![p] = TRUE]}
    /\ UNCHANGED <<bin, staged, active, snapshot, policy, status, failures, drive, began>>

(* The process dies and a new agent comes up. *)
Crash ==
    /\ UNCHANGED disk \/ TornCopy
    /\ status' = NewStatus
    /\ failures' = 0
    /\ drive' = Idle
    /\ UNCHANGED <<policy, began>>

Drive == RunStepOk \/ RunStepErr \/ NoAttempts \/ DaemonStepErr

UpdNext ==
    \/ Drive \/ BeginApply \/ Reset \/ ResetBreakers \/ Crash
    \/ \E p \in Plans : Accept(p) \/ BeginDaemon(p) \/ Fetch(p)

(* A driver that has begun goes on: both are plain loops. *)
UpdSpec == UpdInit /\ [][UpdNext]_updVars /\ WF_updVars(Drive)

-----------------------------------------------------------------------------
Running == drive.by # "nobody"

(* The steps before the current one. *)
Did(d, step) == \E j \in 1..(d.i - 1) : StepsOf(d.by)[j] = step

Drives == [by : {"nobody", "apply", "daemon"}, i : 1..5, attempt : Nat]

UpdTypeOK ==
    /\ payload \in [Plans -> Bytes \cup {Missing}]
    /\ sidecar \in [Plans -> BOOLEAN]
    /\ bin \in [Plans -> Bytes \cup {Missing}]
    /\ staged \in [Plans -> Bytes \cup {Missing}]
    /\ active \in [Targets -> Bytes \cup {Missing}]
    /\ snapshot \in [Targets -> Bytes \cup {Missing, Torn}]
    /\ policy \in Policies
    /\ status \in [stage : Stages, plan : Plans \cup {Missing}, last_error : BOOLEAN]
    /\ failures \in 0..BreakerMax
    /\ drive \in Drives
    /\ began \in [plan : Plans \cup {Missing}, active : Bytes \cup {Missing}]

(* While a plan is driven it is the status's plan; what Verify accepted is  *)
(* what Stage renames and what Apply installs, and until then the active    *)
(* file is as it was found.                                                 *)
PipelineInv ==
    Running =>
        /\ began.plan = status.plan
        /\ drive.by = "daemon" \/ drive.attempt <= policy[Step].max \/ policy[Step].max = 0
        /\ status.plan = Missing => drive.i = 1
        /\ status.plan # Missing =>
             /\ active[Target[status.plan]] = began.active
             /\ Did(drive, "Verify") /\ ~Did(drive, "Stage") => bin[status.plan] = Image[status.plan]
             /\ Did(drive, "Stage") => staged[status.plan] = Image[status.plan]
             /\ Did(drive, "Snapshot") /\ began.active # Missing =>
                    snapshot[Target[status.plan]] = began.active

(* Bytes that no digest vouches for never become active: a target's active  *)
(* file is the original, absent, or the image of a plan for that target,    *)
(* whatever payloads are fetched and wherever the agent dies.               *)
OnlyVerifiedBytes ==
    \A t \in Targets :
        active[t] \in {Original, Missing} \cup {Image[p] : p \in {q \in Plans : Target[q] = t}}

(* UpdateStage::Done, "The update applied successfully": the plan that was  *)
(* driven is the one whose bytes are active.                                *)
DoneMeansInstalled ==
    status.stage = "Done" /\ ~Running =>
        began.plan # Missing /\ active[Target[began.plan]] = Image[began.plan]

(* UpdateStage::Failed and RolledBack: the active file is the one from      *)
(* before the update. fail_and_rollback restores nothing, so this rests on  *)
(* Apply being the last step and failing without a trace.                   *)
RollbackKeepsActive ==
    status.stage \in {"Failed", "RolledBack"} /\ began.plan # Missing =>
        active[Target[began.plan]] = began.active

(* At every moment, dead or alive, an active file that a drive has replaced *)
(* can be restored: the snapshot holds the whole of what the drive found.   *)
SnapshotHoldsPrevious ==
    began.plan # Missing /\ active[Target[began.plan]] # began.active =>
        began.active = Missing \/ snapshot[Target[began.plan]] = began.active

(* What OnlyVerifiedBytes and the rest need of the policies: only Download   *)
(* may have a fallback. A failed Download leaves nothing that the Verify     *)
(* after it would not refuse; every other step must not be skipped.          *)
SafeFallbacks ==
    \A table \in Policies, s \in Steps : table[s].fallback => s = "Download"

(* The inductive invariant of an agent with such policies.                   *)
UpdIndInv ==
    /\ UpdTypeOK
    /\ PipelineInv
    /\ OnlyVerifiedBytes
    /\ DoneMeansInstalled
    /\ RollbackKeepsActive
    /\ SnapshotHoldsPrevious

(* An update that begins ends, with success, with a rollback or with the    *)
(* death of its process: retries are bounded.                               *)
DriveEnds == Running ~> ~Running
=============================================================================
