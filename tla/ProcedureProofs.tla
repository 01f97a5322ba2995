-------------------------- MODULE ProcedureProofs ---------------------------
(***************************************************************************)
(* Proofs about work that is done step by step, any of which may fail: the *)
(* update pipeline (UpdateAgent), the plans of the agent daemon            *)
(* (PlanExecution) and the ticks of the background agent                   *)
(* (BackgroundAgent).  The parts share no state: each has its own          *)
(* invariant and its own specification.                                    *)
(***************************************************************************)
EXTENDS UpdateAgent, PlanExecution, BackgroundAgent, TLAPS

(* The index of a step in the two orders in which steps are driven.        *)
LEMMA StepTable ==
    ASSUME NEW d \in Drives, d.by # "nobody"
    PROVE  /\ StepAt(d) \in Steps
           /\ Len(StepsOf(d.by)) = 5
           /\ d.by = "apply" =>
                /\ (StepAt(d) = "Snapshot") <=> (d.i = 1)
                /\ (StepAt(d) = "Download") <=> (d.i = 2)
                /\ (StepAt(d) = "Verify") <=> (d.i = 3)
                /\ (StepAt(d) = "Stage") <=> (d.i = 4)
                /\ (StepAt(d) = "Apply") <=> (d.i = 5)
           /\ d.by = "daemon" =>
                /\ (StepAt(d) = "Download") <=> (d.i = 1)
                /\ (StepAt(d) = "Verify") <=> (d.i = 2)
                /\ (StepAt(d) = "Stage") <=> (d.i = 3)
                /\ (StepAt(d) = "Snapshot") <=> (d.i = 4)
                /\ (StepAt(d) = "Apply") <=> (d.i = 5)
<1>1. d.by \in {"apply", "daemon"} /\ d.i \in 1..5
  BY DEF Drives
<1>2. d.i = 1 \/ d.i = 2 \/ d.i = 3 \/ d.i = 4 \/ d.i = 5
  BY <1>1
<1>3. CASE d.by = "apply"
  <2>1. StepsOf(d.by) = <<"Snapshot", "Download", "Verify", "Stage", "Apply">>
    BY <1>3 DEF StepsOf, ApplySteps
  <2> QED BY <1>2, <1>3, <2>1 DEF StepAt, Steps
<1>4. CASE d.by = "daemon"
  <2>1. StepsOf(d.by) = <<"Download", "Verify", "Stage", "Snapshot", "Apply">>
    BY <1>4 DEF StepsOf, DaemonSteps
  <2> QED BY <1>2, <1>4, <2>1 DEF StepAt, Steps
<1> QED BY <1>1, <1>3, <1>4

(* Which steps come before the current one.                                *)
LEMMA DidTable ==
    ASSUME NEW d \in Drives, d.by # "nobody"
    PROVE  /\ d.by = "apply" =>
                /\ Did(d, "Snapshot") <=> d.i > 1
                /\ Did(d, "Verify") <=> d.i > 3
                /\ Did(d, "Stage") <=> d.i > 4
           /\ d.by = "daemon" =>
                /\ Did(d, "Verify") <=> d.i > 2
                /\ Did(d, "Stage") <=> d.i > 3
                /\ Did(d, "Snapshot") <=> d.i > 4
<1>1. d.by \in {"apply", "daemon"} /\ d.i \in 1..5
  BY DEF Drives
<1>2. \A j \in 1..5 : j = 1 \/ j = 2 \/ j = 3 \/ j = 4 \/ j = 5
  OBVIOUS
<1>3. CASE d.by = "apply"
  <2>1. StepsOf(d.by) = <<"Snapshot", "Download", "Verify", "Stage", "Apply">>
    BY <1>3 DEF StepsOf, ApplySteps
  <2> QED BY <1>1, <1>2, <1>3, <2>1 DEF Did
<1>4. CASE d.by = "daemon"
  <2>1. StepsOf(d.by) = <<"Download", "Verify", "Stage", "Snapshot", "Apply">>
    BY <1>4 DEF StepsOf, DaemonSteps
  <2> QED BY <1>1, <1>2, <1>4, <2>1 DEF Did
<1> QED BY <1>1, <1>3, <1>4

-----------------------------------------------------------------------------
(* What a step of the engine needs to know of the files.                   *)
LEMMA FileFacts ==
    /\ \A p \in Plans : Target[p] \in Targets /\ Image[p] \in Bytes
    /\ Missing \notin Plans /\ Missing \notin Bytes /\ Torn \notin Bytes
    /\ Original \in Bytes /\ Damaged \in Bytes
BY FileAssumption DEF Targets, Bytes

(* The initial state satisfies the invariant.                              *)
LEMMA InitInv == UpdInit => UpdIndInv
<1> SUFFICES ASSUME UpdInit PROVE UpdIndInv
  OBVIOUS
<1> USE FileFacts, PolicyAssumption
<1>1. UpdTypeOK
  BY DEF UpdInit, UpdTypeOK, Idle, NewStatus, Stages, Drives
<1>2. ~Running
  BY DEF UpdInit, Running, Idle
<1>3. OnlyVerifiedBytes
  BY DEF UpdInit, OnlyVerifiedBytes
<1> QED BY <1>1, <1>2, <1>3 DEF UpdInit, UpdIndInv, PipelineInv, DoneMeansInstalled, RollbackKeepsActive, SnapshotHoldsPrevious, NewStatus

(* Stages and error marks stay what they are through transitions.          *)
LEMMA TransitionType ==
    ASSUME NEW st \in [stage : Stages, plan : Plans \cup {Missing}, last_error : BOOLEAN],
           NEW to \in Stages, NEW note \in BOOLEAN
    PROVE  /\ Transition(st, to, note) \in [stage : Stages, plan : Plans \cup {Missing}, last_error : BOOLEAN]
           /\ Transition(st, to, note).stage = to
           /\ Transition(st, to, note).plan = st.plan
<1> DEFINE e == CASE to = "Failed" -> st.last_error \/ note
                  [] to \in {"Idle", "Downloading"} -> FALSE
                  [] OTHER -> st.last_error
<1>1. e \in BOOLEAN
  BY Zenon
<1>2. Transition(st, to, note) = [st EXCEPT !.stage = to, !.last_error = e]
  BY Zenon DEF Transition
<1> HIDE DEF e
<1> QED BY Zenon, <1>1, <1>2

Statuses == [stage : Stages, plan : Plans \cup {Missing}, last_error : BOOLEAN]

(* The status a failed step leaves behind.                                 *)
LEMMA StepErrType ==
    ASSUME UpdIndInv, Running
    PROVE  StepErr \in Statuses /\ StepErr.plan = status.plan
<1> DEFINE st == Transition(status, StageOf(Step), FALSE)
<1>1. StageOf(Step) \in Stages
  BY DEF StageOf, Stages
<1>2. status \in Statuses
  BY DEF UpdIndInv, UpdTypeOK, Statuses
<1>3. st \in Statuses /\ st.plan = status.plan
  BY Zenon, <1>1, <1>2, TransitionType DEF Statuses
<1>4. "Failed" \in Stages
  BY DEF Stages
<1>5. Transition(st, "Failed", TRUE) \in Statuses /\ Transition(st, "Failed", TRUE).plan = st.plan
  BY Zenon, <1>3, <1>4, TransitionType DEF Statuses
<1> QED BY <1>3, <1>5, Zenon DEF StepErr

(* The files are files of their plans and targets.                         *)
FilesOK ==
    /\ payload \in [Plans -> Bytes \cup {Missing}]
    /\ sidecar \in [Plans -> BOOLEAN]
    /\ bin \in [Plans -> Bytes \cup {Missing}]
    /\ staged \in [Plans -> Bytes \cup {Missing}]
    /\ snapshot \in [Targets -> Bytes \cup {Missing, Torn}]

(* A failed step of the engine changes at most the snapshot it was writing. *)
LEMMA EngineErrFacts ==
    ASSUME UpdIndInv, EngineErr
    PROVE  /\ UNCHANGED <<payload, sidecar, bin, staged, active>>
           /\ snapshot' \in [Targets -> Bytes \cup {Missing, Torn}]
           /\ \/ UNCHANGED snapshot
              \/ Running /\ status.plan # Missing /\ Step = "Snapshot"
<1>1. CASE UNCHANGED disk
  BY <1>1 DEF disk, UpdIndInv, UpdTypeOK
<1>2. CASE TornCopy
  BY Zenon, <1>2 DEF TornCopy, UpdIndInv, UpdTypeOK, Running
<1> QED BY <1>1, <1>2 DEF EngineErr

(* fail_and_rollback, after an error that changed at most the snapshot.    *)
LEMMA RollbackInv ==
    ASSUME UpdIndInv, Running, EngineErr, NEW st \in Statuses, st.plan = status.plan, FailAndRollback(st),
           failures' \in 0..BreakerMax, UNCHANGED <<policy, began>>
    PROVE  UpdIndInv'
<1>0. UpdTypeOK /\ PipelineInv /\ OnlyVerifiedBytes
  BY DEF UpdIndInv
<1>1. /\ UNCHANGED <<payload, sidecar, bin, staged, active>>
      /\ snapshot' \in [Targets -> Bytes \cup {Missing, Torn}]
  BY EngineErrFacts
<1>2. "Failed" \in Stages /\ "RolledBack" \in Stages
  BY DEF Stages
<1>3. Transition(st, "Failed", FALSE) \in Statuses /\ Transition(st, "Failed", FALSE).plan = st.plan
  BY Zenon, <1>2, TransitionType DEF Statuses
<1>4. status' \in Statuses /\ status'.stage = "RolledBack" /\ status'.plan = status.plan
  BY Zenon, <1>2, <1>3, TransitionType DEF Statuses, FailAndRollback
<1>5. drive' = Idle /\ Idle \in Drives /\ Idle.by = "nobody"
  BY DEF FailAndRollback, Idle, Drives
<1>6. UpdTypeOK'
  BY <1>0, <1>1, <1>4, <1>5 DEF UpdTypeOK, Statuses
<1>7. ~Running'
  BY Zenon, <1>5 DEF Running
<1>8. began.plan = status.plan /\ (status.plan # Missing => active[Target[status.plan]] = began.active)
  BY <1>0 DEF PipelineInv
<1>9. RollbackKeepsActive' /\ SnapshotHoldsPrevious'
  BY <1>1, <1>8 DEF RollbackKeepsActive, SnapshotHoldsPrevious
<1>10. OnlyVerifiedBytes'
  BY <1>0, <1>1 DEF OnlyVerifiedBytes
<1> QED BY <1>4, <1>6, <1>7, <1>9, <1>10 DEF UpdIndInv, PipelineInv, DoneMeansInstalled

(* The registered policy of every step.                                    *)
LEMMA PolicyType ==
    ASSUME UpdIndInv, NEW s \in Steps
    PROVE  /\ policy[s].max \in Nat
           /\ policy[s].fallback \in BOOLEAN
           /\ SafeFallbacks /\ policy[s].fallback => s = "Download"
BY PolicyAssumption DEF UpdIndInv, UpdTypeOK, SafeFallbacks

(* Counting a failure stays within the bound.                              *)
LEMMA CountType ==
    ASSUME UpdIndInv, NEW rp, CountFailure(rp)
    PROVE  failures' \in 0..BreakerMax
BY PolicyAssumption DEF UpdIndInv, UpdTypeOK, CountFailure

(* Another attempt at the same step.                                       *)
LEMMA RetryInv ==
    ASSUME UpdIndInv, drive.by = "apply", EngineErr, Retry, drive.attempt < policy[Step].max,
           failures' \in 0..BreakerMax, UNCHANGED <<policy, began>>
    PROVE  UpdIndInv'
<1>0. UpdTypeOK /\ PipelineInv /\ OnlyVerifiedBytes
  BY DEF UpdIndInv
<1>1. Running /\ drive \in Drives
  BY <1>0 DEF Running, UpdTypeOK
<1>2. status' \in Statuses /\ status'.plan = status.plan
  BY Zenon, <1>1, StepErrType DEF Retry
<1>3. drive' \in Drives /\ drive'.by = "apply" /\ drive'.i = drive.i /\ drive'.attempt = drive.attempt + 1
  BY <1>1 DEF Retry, Drives
<1>4. StepAt(drive') = Step /\ Step \in Steps
  BY Zenon, <1>1, <1>3, StepTable DEF Step, StepAt
<1>5. /\ UNCHANGED <<payload, sidecar, bin, staged, active>>
      /\ snapshot' \in [Targets -> Bytes \cup {Missing, Torn}]
      /\ UNCHANGED snapshot \/ Step = "Snapshot"
  BY EngineErrFacts
<1>6. UpdTypeOK'
  BY Zenon, <1>0, <1>2, <1>3, <1>5 DEF UpdTypeOK, Statuses
<1>7. /\ Did(drive', "Verify") <=> Did(drive, "Verify")
      /\ Did(drive', "Stage") <=> Did(drive, "Stage")
      /\ Did(drive', "Snapshot") => Did(drive, "Snapshot") /\ UNCHANGED snapshot
  BY <1>1, <1>3, <1>5, StepTable, DidTable DEF Step
<1>8. policy[Step].max \in Nat /\ drive.attempt \in Nat
  BY Zenon, <1>1, <1>4, PolicyType DEF Drives
<1>9. PipelineInv'
  <2>1. began'.plan = status'.plan
    BY Zenon, <1>0, <1>1, <1>2 DEF PipelineInv
  <2>2. drive'.attempt <= policy'[StepAt(drive')].max
    BY <1>3, <1>4, <1>8
  <2>3. status'.plan = Missing => drive'.i = 1
    BY Zenon, <1>0, <1>1, <1>2, <1>3 DEF PipelineInv
  <2>4. ASSUME status'.plan # Missing
        PROVE  /\ active'[Target[status'.plan]] = began'.active
               /\ Did(drive', "Verify") /\ ~Did(drive', "Stage") => bin'[status'.plan] = Image[status'.plan]
               /\ Did(drive', "Stage") => staged'[status'.plan] = Image[status'.plan]
               /\ Did(drive', "Snapshot") /\ began'.active # Missing =>
                      snapshot'[Target[status'.plan]] = began'.active
    <3>1. /\ active[Target[status.plan]] = began.active
          /\ Did(drive, "Verify") /\ ~Did(drive, "Stage") => bin[status.plan] = Image[status.plan]
          /\ Did(drive, "Stage") => staged[status.plan] = Image[status.plan]
          /\ Did(drive, "Snapshot") /\ began.active # Missing =>
                 snapshot[Target[status.plan]] = began.active
      BY Zenon, <1>0, <1>1, <1>2, <2>4 DEF PipelineInv
    <3> QED BY Zenon, <1>2, <1>5, <1>7, <3>1
  <2> QED BY <2>1, <2>2, <2>3, <2>4 DEF PipelineInv, Step
<1>10. RollbackKeepsActive' /\ SnapshotHoldsPrevious'
  BY <1>0, <1>1, <1>5 DEF RollbackKeepsActive, SnapshotHoldsPrevious, PipelineInv
<1>11. OnlyVerifiedBytes'
  BY <1>0, <1>5 DEF OnlyVerifiedBytes
<1>12. DoneMeansInstalled'
  BY <1>3 DEF DoneMeansInstalled, Running
<1> QED BY <1>6, <1>9, <1>10, <1>11, <1>12 DEF UpdIndInv

(* What has been done when a drive goes on, and which step did it last.    *)
LEMMA ForwardTable ==
    ASSUME NEW d \in Drives, NEW e \in Drives, NEW k \in 1..4,
           d.by # "nobody" /\ e.by = d.by /\ d.i = k /\ e.i = k + 1
    PROVE  /\ Did(e, "Verify") /\ ~Did(e, "Stage") => StepAt(d) = "Verify"
           /\ Did(e, "Stage") =>
                  \/ StepAt(d) = "Stage" /\ Did(d, "Verify") /\ ~Did(d, "Stage")
                  \/ StepAt(d) = "Snapshot" /\ Did(d, "Stage")
           /\ Did(e, "Snapshot") /\ StepAt(d) # "Snapshot" => Did(d, "Snapshot")
<1>1. d.by \in {"apply", "daemon"}
  BY DEF Drives
<1>2. CASE d.by = "apply"
  <2>1. /\ k = 3 => StepAt(d) = "Verify"
        /\ k = 4 => StepAt(d) = "Stage"
        /\ k = 1 => StepAt(d) = "Snapshot"
    BY <1>2, StepTable
  <2>2. Did(e, "Verify") /\ ~Did(e, "Stage") => k = 3
    BY <1>2, DidTable
  <2>3. Did(e, "Stage") => k = 4 \/ k > 4
    BY <1>2, DidTable
  <2>4. k = 4 => Did(d, "Verify") /\ ~Did(d, "Stage")
    BY <1>2, DidTable
  <2>5. k > 4 => k = 1 /\ Did(d, "Stage")
    BY <1>2, DidTable
  <2>6. Did(e, "Snapshot") /\ k # 1 => Did(d, "Snapshot")
    BY <1>2, DidTable
  <2> QED BY <2>1, <2>2, <2>3, <2>4, <2>5, <2>6, Zenon
<1>3. CASE d.by = "daemon"
  <2>1. /\ k = 2 => StepAt(d) = "Verify"
        /\ k = 3 => StepAt(d) = "Stage"
        /\ k = 4 => StepAt(d) = "Snapshot"
    BY <1>3, StepTable
  <2>2. Did(e, "Verify") /\ ~Did(e, "Stage") => k = 2
    BY <1>3, DidTable
  <2>3. Did(e, "Stage") => k = 3 \/ k > 3
    BY <1>3, DidTable
  <2>4. k = 3 => Did(d, "Verify") /\ ~Did(d, "Stage")
    BY <1>3, DidTable
  <2>5. k > 3 => k = 4 /\ Did(d, "Stage")
    BY <1>3, DidTable
  <2>6. Did(e, "Snapshot") /\ k # 4 => Did(d, "Snapshot")
    BY <1>3, DidTable
  <2> QED BY <2>1, <2>2, <2>3, <2>4, <2>5, <2>6, Zenon
<1> QED BY <1>1, <1>2, <1>3

(* What the files have to be for a drive to go on from a step that ended.  *)
FilesForward(p) ==
    /\ Step = "Verify" => UNCHANGED bin /\ bin[p] = Image[p]
    /\ Step = "Stage" => staged'[p] = bin[p]
    /\ Step = "Snapshot" => UNCHANGED <<bin, staged>> /\
           (active[Target[p]] # Missing => snapshot'[Target[p]] = active[Target[p]])
    /\ Step # "Snapshot" => UNCHANGED snapshot

(* The step is left for the next one: after success, or after a failed     *)
(* Download that has a fallback.                                           *)
LEMMA ForwardInv ==
    ASSUME UpdIndInv, Running, drive.i < 5, NEW st \in Statuses, st.plan = status.plan, Continue(st),
           status.plan # Missing, FilesOK', FilesForward(status.plan),
           failures' \in 0..BreakerMax, UNCHANGED <<policy, began, active>>
    PROVE  UpdIndInv'
<1>0. UpdTypeOK /\ PipelineInv /\ OnlyVerifiedBytes
  BY DEF UpdIndInv
<1>1. drive \in Drives /\ drive.by \in {"apply", "daemon"} /\ drive.i \in 1..4
  BY <1>0 DEF Running, UpdTypeOK, Drives
<1>2. drive' \in Drives /\ drive'.by = drive.by /\ drive'.i = drive.i + 1 /\ drive'.attempt = 1
  <2>1. Len(StepsOf(drive.by)) = 5
    BY <1>1, StepTable
  <2>2. drive' = [drive EXCEPT !.i = @ + 1, !.attempt = 1]
    BY <1>1, <2>1 DEF Continue
  <2>3. drive.i + 1 \in 1..5 /\ 1 \in Nat
    BY <1>1
  <2>4. drive' = [by |-> drive.by, i |-> drive.i + 1, attempt |-> 1]
    BY Zenon, <1>1, <2>2 DEF Drives
  <2> QED BY <1>1, <2>3, <2>4 DEF Drives
<1>3. status' = st
  <2>1. drive.i < Len(StepsOf(drive.by))
    BY Zenon, <1>1, StepTable
  <2> QED BY Zenon, <2>1 DEF Continue
<1>4. UpdTypeOK'
  BY <1>0, <1>2, <1>3 DEF UpdTypeOK, FilesOK, Statuses
<1>5. StepAt(drive') \in Steps /\ Step = StepAt(drive)
  BY Zenon, <1>1, <1>2, StepTable DEF Step
<1>6. policy[StepAt(drive')].max \in Nat
  BY Zenon, <1>5, PolicyType
<1>7. /\ began.plan = status.plan /\ active[Target[status.plan]] = began.active
      /\ Did(drive, "Verify") /\ ~Did(drive, "Stage") => bin[status.plan] = Image[status.plan]
      /\ Did(drive, "Stage") => staged[status.plan] = Image[status.plan]
      /\ Did(drive, "Snapshot") /\ began.active # Missing => snapshot[Target[status.plan]] = began.active
  BY Zenon, <1>0 DEF PipelineInv
<1>a. PICK k \in 1..4 : drive.i = k /\ drive'.i = k + 1
  BY Zenon, <1>1, <1>2
<1>8. /\ Did(drive', "Verify") /\ ~Did(drive', "Stage") => bin'[status.plan] = Image[status.plan]
      /\ Did(drive', "Stage") => staged'[status.plan] = Image[status.plan]
      /\ Did(drive', "Snapshot") /\ began.active # Missing => snapshot'[Target[status.plan]] = began.active
  BY Zenon, <1>1, <1>2, <1>5, <1>7, <1>a, ForwardTable DEF FilesForward
<1>9. PipelineInv'
  <2>1. Step' = StepAt(drive')
    BY DEF Step
  <2>2. drive'.attempt <= policy'[Step'].max \/ policy'[Step'].max = 0
    BY <1>2, <1>6, <2>1
  <2> QED BY Zenon, <1>3, <1>7, <1>8, <2>2 DEF PipelineInv
<1>10. RollbackKeepsActive' /\ SnapshotHoldsPrevious'
  BY <1>7 DEF RollbackKeepsActive, SnapshotHoldsPrevious
<1>11. OnlyVerifiedBytes'
  BY <1>0 DEF OnlyVerifiedBytes
<1>12. DoneMeansInstalled'
  BY <1>1, <1>2 DEF DoneMeansInstalled, Running
<1> QED BY <1>4, <1>9, <1>10, <1>11, <1>12 DEF UpdIndInv

(* What the steps before Apply do to the files when they succeed.          *)
LEMMA EngineOkFacts ==
    ASSUME UpdTypeOK, NEW p \in Plans, EngineOk(p), Step # "Apply"
    PROVE  UNCHANGED active /\ FilesOK' /\ FilesForward(p)
<1>1. FilesOK /\ active \in [Targets -> Bytes \cup {Missing}]
  BY DEF UpdTypeOK, FilesOK
<1>2. CASE Step = "Download" /\ Download(p)
  BY Zenon, <1>1, <1>2, FileFacts DEF Download, disk, FilesOK, FilesForward
<1>3. CASE Step = "Verify" /\ Verify(p)
  BY Zenon, <1>1, <1>3, FileFacts DEF Verify, disk, FilesOK, FilesForward
<1>4. CASE Step = "Stage" /\ StageFile(p)
  BY Zenon, <1>1, <1>4, FileFacts DEF StageFile, disk, FilesOK, FilesForward
<1>5. CASE Step = "Snapshot" /\ Snapshot(p)
  BY <1>1, <1>5, FileFacts DEF Snapshot, disk, FilesOK, FilesForward
<1> QED BY Zenon, <1>2, <1>3, <1>4, <1>5 DEF EngineOk

(* Every step of the engine that succeeds, Apply included.                 *)
LEMMA RunStepOkInv ==
    ASSUME UpdIndInv, RunStepOk
    PROVE  UpdIndInv'
<1>0. UpdTypeOK /\ PipelineInv /\ OnlyVerifiedBytes
  BY DEF UpdIndInv
<1> DEFINE p == status.plan
           st == Transition(status, StageOf(Step), FALSE)
<1>1. /\ Running /\ drive \in Drives /\ drive.by \in {"apply", "daemon"}
      /\ p \in Plans /\ p # Missing /\ status \in Statuses
  <2>1. drive \in Drives /\ status \in Statuses
    BY <1>0 DEF UpdTypeOK, Statuses
  <2>2. Running /\ p # Missing
    BY Zenon DEF RunStepOk, Running
  <2> QED BY <2>1, <2>2 DEF Running, Drives, Statuses
<1>2. st \in Statuses /\ st.plan = status.plan /\ Continue(st) /\ st.stage = StageOf(Step)
  <2>1. StageOf(Step) \in Stages
    BY DEF StageOf, Stages
  <2> QED BY Zenon, <2>1, <1>1, TransitionType DEF RunStepOk, Statuses
<1>3. failures' \in 0..BreakerMax /\ UNCHANGED <<policy, began>>
  BY Zenon, <1>0 DEF RunStepOk, UpdTypeOK
<1>4. EngineOk(p)
  BY DEF RunStepOk
<1> HIDE DEF st
<1>5. CASE Step # "Apply"
  <2>1. drive.i < 5
    BY <1>1, <1>5, StepTable DEF Step, Drives
  <2>2. /\ UNCHANGED active
        /\ FilesOK'
        /\ FilesForward(p)
    BY Zenon, <1>0, <1>1, <1>4, <1>5, EngineOkFacts
  <2> QED BY Zenon, <1>1, <1>2, <1>3, <2>1, <2>2, ForwardInv
<1>6. CASE Step = "Apply"
  <2>1. drive.i = 5 /\ Len(StepsOf(drive.by)) = 5
    BY <1>1, <1>6, StepTable DEF Step
  <2>2. /\ drive' = Idle
        /\ status' = IF drive.by = "apply" THEN Transition(st, "Done", FALSE) ELSE st
    <3>1. ~(drive.i < Len(StepsOf(drive.by)))
      BY <2>1
    <3> QED BY <1>2, <3>1, Zenon DEF Continue
  <2>3. "Done" \in Stages
    BY DEF Stages
  <2>4. /\ status' \in Statuses
        /\ status'.stage \in {"Done", "Applying"}
    <3>1. st.stage = "Applying"
      BY <1>2, <1>6 DEF StageOf
    <3>2. Transition(st, "Done", FALSE) \in Statuses /\ Transition(st, "Done", FALSE).stage = "Done"
      BY Zenon, <1>2, <2>3, TransitionType DEF Statuses
    <3> QED BY Zenon, <1>2, <2>2, <3>1, <3>2
  <2>5. ApplyFile(p)
    BY Zenon, <1>4, <1>6 DEF EngineOk
  <2>6. staged[p] = Image[p] /\ began.plan = p /\ active[Target[p]] = began.active
        /\ (began.active # Missing => snapshot[Target[p]] = began.active)
    BY <1>0, <1>1, <2>1, DidTable DEF PipelineInv
  <2>7. active' = [active EXCEPT ![Target[p]] = Image[p]] /\ UNCHANGED snapshot
    BY Zenon, <2>5, <2>6 DEF ApplyFile
  <2>8. UpdTypeOK'
    <3>1. Idle \in Drives
      BY DEF Idle, Drives
    <3>2. /\ UNCHANGED <<payload, sidecar, bin, snapshot>>
          /\ staged' \in [Plans -> Bytes \cup {Missing}]
          /\ active' \in [Targets -> Bytes \cup {Missing}]
      BY <1>0, <1>1, <2>5, FileFacts DEF ApplyFile, UpdTypeOK
    <3>3. status' \in Statuses /\ drive' \in Drives
      BY Zenon, <1>1, <1>3, <2>2, <2>4, <3>1
    <3> QED BY Zenon, <1>0, <1>3, <3>2, <3>3 DEF UpdTypeOK, Statuses
  <2>9. ~Running'
    BY Zenon, <2>2 DEF Running, Idle
  <2>10. active'[Target[p]] = Image[p]
    BY Zenon, <1>0, <1>1, <2>7, FileFacts DEF UpdTypeOK
  <2>11. OnlyVerifiedBytes'
    BY Zenon, <1>0, <1>1, <2>7, FileFacts DEF UpdTypeOK, OnlyVerifiedBytes
  <2>12. SnapshotHoldsPrevious'
    BY <1>3, <2>6, <2>7 DEF SnapshotHoldsPrevious
  <2>13. PipelineInv'
    BY Zenon, <2>9 DEF PipelineInv
  <2>14. DoneMeansInstalled' /\ RollbackKeepsActive'
    BY Zenon, <1>1, <1>3, <2>4, <2>6, <2>10 DEF DoneMeansInstalled, RollbackKeepsActive
  <2> QED BY <2>8, <2>11, <2>12, <2>13, <2>14 DEF UpdIndInv
<1> QED BY <1>5, <1>6

(* Every step that fails under apply.                                      *)
LEMMA RunStepErrInv ==
    ASSUME SafeFallbacks, UpdIndInv, RunStepErr
    PROVE  UpdIndInv'
<1>0. UpdTypeOK /\ PipelineInv /\ OnlyVerifiedBytes
  BY DEF UpdIndInv
<1>1. Running /\ drive \in Drives /\ drive.by = "apply" /\ EngineErr /\ Step \in Steps
  <2>1. drive \in Drives /\ drive.by = "apply" /\ EngineErr
    BY Zenon, <1>0 DEF RunStepErr, UpdTypeOK
  <2> QED BY Zenon, <2>1, StepTable DEF Running, Step
<1>2. failures' \in 0..BreakerMax /\ UNCHANGED <<policy, began>>
  BY Zenon, CountType DEF RunStepErr
<1>3. StepErr \in Statuses /\ StepErr.plan = status.plan
  BY Zenon, <1>1, StepErrType
<1> DEFINE decision == Decide(policy[Step], drive.attempt)
<1>4. CASE decision = "Retry" /\ Retry
  <2>1. ~(drive.attempt >= policy[Step].max)
    BY <1>4 DEF Decide
  <2>2. drive.attempt < policy[Step].max
    BY <1>1, <2>1, PolicyType DEF Drives
  <2> QED BY <1>1, <1>2, <1>4, <2>2, RetryInv
<1>5. CASE decision = "Fallback" /\ Continue(StepErr)
  <2>1. policy[Step].fallback
    BY Zenon, <1>5 DEF Decide
  <2>2. Step = "Download" /\ drive.i = 2
    BY Zenon, <1>1, <2>1, PolicyType, StepTable DEF Step
  <2>3. status.plan # Missing
    BY <1>0, <1>1, <2>2 DEF PipelineInv
  <2>4. UNCHANGED <<payload, sidecar, bin, staged, active, snapshot>>
    BY Zenon, <1>1, <2>2, EngineErrFacts
  <2>5. FilesOK' /\ FilesForward(status.plan)
    BY Zenon, <1>0, <2>2, <2>4 DEF UpdTypeOK, FilesOK, FilesForward
  <2> QED BY <1>1, <1>2, <1>3, <1>5, <2>2, <2>3, <2>4, <2>5, ForwardInv
<1>6. CASE FailAndRollback(StepErr)
  BY <1>1, <1>2, <1>3, <1>6, RollbackInv
<1> QED BY <1>4, <1>5, <1>6 DEF RunStepErr

(* A drive begins: what it finds is what it has to keep.                   *)
LEMMA BeginInv ==
    ASSUME UpdIndInv, NEW by \in {"apply", "daemon"}, status' \in Statuses, Begin(by, status'.plan),
           failures' \in 0..BreakerMax, UNCHANGED <<disk, policy>>
    PROVE  UpdIndInv'
<1>0. UpdTypeOK /\ OnlyVerifiedBytes
  BY Zenon DEF UpdIndInv
<1>1. /\ drive' = [by |-> by, i |-> 1, attempt |-> 1]
      /\ began' = [plan |-> status'.plan,
                   active |-> IF status'.plan = Missing THEN Missing ELSE active[Target[status'.plan]]]
  BY Zenon DEF Begin
<1>2. drive' \in Drives /\ drive'.by # "nobody" /\ drive'.i = 1 /\ drive'.attempt = 1
  BY <1>1 DEF Drives
<1>3. status'.plan \in Plans \cup {Missing}
  BY Zenon DEF Statuses
<1>4. began'.active \in Bytes \cup {Missing}
  BY Zenon, <1>0, <1>1, <1>3, FileFacts DEF UpdTypeOK
<1>5. UpdTypeOK'
  BY <1>0, <1>1, <1>2, <1>3, <1>4 DEF disk, UpdTypeOK, Statuses
<1>6. ~Did(drive', "Verify") /\ ~Did(drive', "Stage") /\ ~Did(drive', "Snapshot")
  BY <1>2, DidTable DEF Drives
<1>7. policy[StepAt(drive')].max \in Nat
  BY Zenon, <1>2, StepTable, PolicyType
<1>8. PipelineInv'
  <2>1. Step' = StepAt(drive')
    BY Zenon DEF Step
  <2>2. drive'.attempt <= policy'[Step'].max \/ policy'[Step'].max = 0
    BY <1>2, <1>7, <2>1
  <2>3. began'.plan = status'.plan
    BY Zenon, <1>1
  <2>4. status'.plan # Missing => active'[Target[status'.plan]] = began'.active
    BY Zenon, <1>1 DEF disk
  <2> QED BY Zenon, <1>2, <1>6, <2>2, <2>3, <2>4 DEF PipelineInv
<1>9. RollbackKeepsActive' /\ SnapshotHoldsPrevious'
  BY Zenon, <1>1, FileFacts DEF disk, RollbackKeepsActive, SnapshotHoldsPrevious
<1>10. OnlyVerifiedBytes' /\ DoneMeansInstalled'
  <2>1. Running'
    BY <1>2 DEF Running
  <2> QED BY Zenon, <1>0, <2>1 DEF disk, OnlyVerifiedBytes, DoneMeansInstalled
<1> QED BY Zenon, <1>5, <1>8, <1>9, <1>10 DEF UpdIndInv

(* The status is replaced while nothing is driven.                         *)
LEMMA StatusInv ==
    ASSUME UpdIndInv, status' \in Statuses, ~Running', UNCHANGED <<active, policy, began>>,
           drive' \in Drives, failures' \in 0..BreakerMax,
           FilesOK',
           status'.stage \in {status.stage, "Idle"},
           Running => status'.stage = "Idle",
           Running \/ UNCHANGED snapshot
    PROVE  UpdIndInv'
<1>1. UpdTypeOK'
  BY Zenon DEF UpdIndInv, UpdTypeOK, FilesOK, Statuses
<1>2. OnlyVerifiedBytes'
  BY Zenon DEF UpdIndInv, OnlyVerifiedBytes
<1>3. DoneMeansInstalled' /\ RollbackKeepsActive'
  BY Zenon DEF UpdIndInv, DoneMeansInstalled, RollbackKeepsActive
<1>4. SnapshotHoldsPrevious'
  <2>1. PipelineInv /\ SnapshotHoldsPrevious
    BY Zenon DEF UpdIndInv
  <2> QED BY Zenon, <2>1 DEF SnapshotHoldsPrevious, PipelineInv
<1>5. PipelineInv'
  BY Zenon DEF PipelineInv
<1> QED BY Zenon, <1>1, <1>2, <1>3, <1>4, <1>5 DEF UpdIndInv

(* What is fetched is not yet looked at.                                    *)
LEMMA UntouchedInv ==
    ASSUME UpdIndInv, payload' \in [Plans -> Bytes \cup {Missing}], sidecar' \in [Plans -> BOOLEAN],
           UNCHANGED <<bin, staged, active, snapshot, policy, status, failures, drive, began>>
    PROVE  UpdIndInv'
<1>1. UpdTypeOK'
  BY Zenon DEF UpdIndInv, UpdTypeOK
<1>2. PipelineInv'
  <2>1. Running' = Running /\ Step' = Step
    BY DEF Running, Step
  <2>2. PipelineInv
    BY DEF UpdIndInv
  <2> QED BY Zenon, <2>1, <2>2 DEF PipelineInv
<1>3. OnlyVerifiedBytes'
  BY Zenon DEF UpdIndInv, OnlyVerifiedBytes
<1>4. DoneMeansInstalled' /\ RollbackKeepsActive' /\ SnapshotHoldsPrevious'
  BY DEF UpdIndInv, DoneMeansInstalled, RollbackKeepsActive, SnapshotHoldsPrevious, Running
<1> QED BY Zenon, <1>1, <1>2, <1>3, <1>4 DEF UpdIndInv

(* Every step of the agent and of its surroundings keeps the invariant.    *)
LEMMA NextInv ==
    ASSUME SafeFallbacks, UpdIndInv, [UpdNext]_updVars
    PROVE  UpdIndInv'
<1>0. /\ status \in Statuses /\ NewStatus \in Statuses /\ Idle \in Drives /\ drive \in Drives
      /\ failures \in 0..BreakerMax /\ 0 \in 0..BreakerMax
      /\ NewStatus.stage = "Idle" /\ Idle.by = "nobody"
  <2>1. UpdTypeOK /\ BreakerMax \in Nat
    BY Zenon, PolicyAssumption DEF UpdIndInv
  <2>2. NewStatus \in Statuses /\ NewStatus.stage = "Idle"
    BY DEF NewStatus, Statuses, Stages
  <2>3. Idle \in Drives /\ Idle.by = "nobody"
    BY DEF Idle, Drives
  <2> QED BY <2>1, <2>2, <2>3 DEF UpdTypeOK, Statuses
<1>a. FilesOK
  BY DEF UpdIndInv, UpdTypeOK, FilesOK
<1>1. CASE RunStepOk
  BY <1>1, RunStepOkInv
<1>2. CASE RunStepErr
  BY <1>2, RunStepErrInv
<1>3. CASE NoAttempts
  <2>1. Running /\ EngineErr /\ FailAndRollback(status) /\ failures' \in 0..BreakerMax /\ UNCHANGED <<policy, began>>
    BY <1>0, <1>3 DEF NoAttempts, Running, EngineErr
  <2> QED BY Zenon, <1>0, <2>1, RollbackInv
<1>4. CASE DaemonStepErr
  <2>1. Running /\ EngineErr /\ FailAndRollback(StepErr) /\ failures' \in 0..BreakerMax /\ UNCHANGED <<policy, began>>
    BY <1>0, <1>4 DEF DaemonStepErr, Running
  <2> QED BY Zenon, <2>1, StepErrType, RollbackInv
<1>5. CASE BeginApply
  <2>1. status' \in Statuses /\ Begin("apply", status'.plan) /\ failures' \in 0..BreakerMax /\ UNCHANGED <<disk, policy>>
    BY <1>0, <1>5 DEF BeginApply
  <2> QED BY Zenon, <2>1, BeginInv
<1>6. ASSUME NEW p \in Plans, BeginDaemon(p) PROVE UpdIndInv'
  <2>1. status' \in Statuses /\ status'.plan = p
    BY Zenon, <1>0, <1>6 DEF BeginDaemon, NewStatus, Statuses
  <2>2. Begin("daemon", status'.plan) /\ failures' \in 0..BreakerMax /\ UNCHANGED <<disk, policy>>
    BY Zenon, <1>0, <1>6, <2>1 DEF BeginDaemon
  <2> QED BY <2>1, <2>2, BeginInv
<1>7. ASSUME NEW p \in Plans, Accept(p) PROVE UpdIndInv'
  <2>1. status' \in Statuses /\ status'.stage = status.stage
    BY <1>0, <1>7 DEF Accept, Statuses
  <2>2. ~Running' /\ ~Running /\ UNCHANGED <<active, snapshot, policy, began, drive, failures>>
    BY <1>7 DEF Accept, Running, disk
  <2>3. FilesOK'
    BY Zenon, <1>7, <1>a DEF Accept, disk, FilesOK
  <2> QED BY <1>0, <2>1, <2>2, <2>3, StatusInv
<1>8. CASE Reset
  <2>1. "Idle" \in Stages
    BY DEF Stages
  <2>2. status' \in Statuses /\ status'.stage = "Idle"
    BY Zenon, <1>0, <1>8, <2>1, TransitionType DEF Reset, Statuses
  <2>3. ~Running' /\ ~Running /\ UNCHANGED <<active, snapshot, policy, began, drive, failures>>
    BY <1>8 DEF Reset, Running, disk
  <2>4. FilesOK'
    BY Zenon, <1>8, <1>a DEF Reset, disk, FilesOK
  <2> QED BY <1>0, <2>2, <2>3, <2>4, StatusInv
<1>9. CASE ResetBreakers
  <2>1. ~Running' /\ ~Running /\ UNCHANGED <<active, snapshot, policy, began, drive, status>>
    BY Zenon, <1>9 DEF ResetBreakers, Running, disk
  <2>2. FilesOK'
    BY <1>9, <1>a DEF ResetBreakers, disk, FilesOK
  <2>3. failures' = 0
    BY Zenon, <1>9 DEF ResetBreakers
  <2> QED BY <1>0, <2>1, <2>2, <2>3, StatusInv
<1>10. CASE Crash
  <2>1. EngineErr
    BY <1>10 DEF Crash, EngineErr
  <2>2. /\ UNCHANGED <<payload, sidecar, bin, staged, active>>
        /\ snapshot' \in [Targets -> Bytes \cup {Missing, Torn}]
        /\ UNCHANGED snapshot \/ Running
    BY <2>1, EngineErrFacts
  <2>3. status' = NewStatus /\ failures' = 0 /\ drive' = Idle /\ UNCHANGED <<policy, began>>
    BY Zenon, <1>10 DEF Crash
  <2>4. FilesOK'
    BY <1>a, <2>2 DEF FilesOK
  <2>5. ~Running'
    BY <1>0, <2>3 DEF Running
  <2> QED BY <1>0, <2>2, <2>3, <2>4, <2>5, StatusInv
<1>11. ASSUME NEW p \in Plans, Fetch(p) PROVE UpdIndInv'
  <2>1. payload' \in [Plans -> Bytes \cup {Missing}] /\ sidecar' \in [Plans -> BOOLEAN]
    <3>1. PICK b \in {Image[p], Damaged} : payload' = [payload EXCEPT ![p] = b]
      BY <1>11 DEF Fetch
    <3>2. sidecar' = sidecar \/ sidecar' = [sidecar EXCEPT ![p] = TRUE]
      BY Zenon, <1>11 DEF Fetch
    <3>3. payload \in [Plans -> Bytes \cup {Missing}] /\ sidecar \in [Plans -> BOOLEAN]
      BY Zenon, <1>a DEF FilesOK
    <3> QED BY Zenon, <3>1, <3>2, <3>3, FileFacts
  <2>2. UNCHANGED <<bin, staged, active, snapshot, policy, status, failures, drive, began>>
    BY Zenon, <1>11 DEF Fetch
  <2> QED BY <2>1, <2>2, UntouchedInv
<1>12. CASE UNCHANGED updVars
  <2>1. payload' \in [Plans -> Bytes \cup {Missing}] /\ sidecar' \in [Plans -> BOOLEAN]
    BY <1>12, <1>a DEF updVars, FilesOK
  <2>2. UNCHANGED <<bin, staged, active, snapshot, policy, status, failures, drive, began>>
    BY <1>12 DEF updVars
  <2> QED BY <2>1, <2>2, UntouchedInv
<1> QED BY Zenon, <1>1, <1>2, <1>3, <1>4, <1>5, <1>6, <1>7, <1>8, <1>9, <1>10, <1>11, <1>12 DEF UpdNext, Drive

-----------------------------------------------------------------------------
(* UpdIndInv holds throughout, for every table of policies in which only   *)
(* Download has fallbacks, as in install_default_policies.                 *)
THEOREM UpdateInvariant ==
    ASSUME SafeFallbacks
    PROVE  UpdSpec => []UpdIndInv
<1>1. UpdInit => UpdIndInv
  BY InitInv
<1>2. UpdIndInv /\ [UpdNext]_updVars => UpdIndInv'
  BY NextInv
<1> QED BY <1>1, <1>2, PTL DEF UpdSpec

(* However payloads are damaged, operations fail and the agent dies, only  *)
(* images that Verify accepted replace an active file.                     *)
THEOREM OnlyVerifiedInstalled ==
    ASSUME SafeFallbacks
    PROVE  UpdSpec => []OnlyVerifiedBytes
<1>1. UpdIndInv => OnlyVerifiedBytes
  BY DEF UpdIndInv
<1> QED BY <1>1, UpdateInvariant, PTL

(* Done is reached only with the plan's image in place.                    *)
THEOREM DoneIsInstalled ==
    ASSUME SafeFallbacks
    PROVE  UpdSpec => []DoneMeansInstalled
<1>1. UpdIndInv => DoneMeansInstalled
  BY DEF UpdIndInv
<1> QED BY <1>1, UpdateInvariant, PTL

(* A failed update leaves the active file as it was found. *)
THEOREM FailureKeepsActive ==
    ASSUME SafeFallbacks
    PROVE  UpdSpec => []RollbackKeepsActive
<1>1. UpdIndInv => RollbackKeepsActive
  BY DEF UpdIndInv
<1> QED BY <1>1, UpdateInvariant, PTL

(* An update that replaced the active file leaves what it found in the     *)
(* snapshot.                                                               *)
THEOREM PreviousIsKept ==
    ASSUME SafeFallbacks
    PROVE  UpdSpec => []SnapshotHoldsPrevious
<1>1. UpdIndInv => SnapshotHoldsPrevious
  BY DEF UpdIndInv
<1> QED BY <1>1, UpdateInvariant, PTL

-----------------------------------------------------------------------------
(* The plan executor (PlanExecution): the report of a plan is true of the   *)
(* system, for a plan of any length.                                        *)

StepStatus == {"Success", "Failed", "Rejected", "RequiresConsent"}

\* How often a step may take effect, its fallbacks and retries included.
Bound(i) == MaxEffects(plan[i])

\* The calls already made at the step under way.
Made == IF has_fallback(plan[step])
        THEN 2 * attempt + (IF route = "surface" THEN 1 ELSE 0)
        ELSE attempt

PlanTypes ==
    /\ plan \in Seq(Capabilities)
    /\ step \in 1..(Len(plan) + 1)
    /\ attempt \in Nat
    /\ route \in {"control", "surface"}
    /\ effects \in [DOMAIN plan -> Nat]
    /\ results \in Seq(StepStatus)
    /\ Len(results) \in {step - 1, step}

\* Of the step under way.
Underway == /\ effects[step] <= Made /\ Made < Bound(step)
            /\ route = "surface" => has_fallback(plan[step])

(* The steps before the one under way succeeded and took effect, those      *)
(* behind it have not been touched.  While it is under way it took effect   *)
(* at most once in each call already made, and there is one call left       *)
(* within the policy; once it has stopped the plan its status is not a      *)
(* success.                                                                 *)
PlanInv ==
    /\ PlanTypes
    /\ \A i \in 1..(step - 1) : /\ results[i] = "Success"
                                /\ effects[i] > 0 /\ effects[i] <= Bound(i)
    /\ \A i \in DOMAIN plan : i > step => effects[i] = 0
    /\ steps_left => Underway
    /\ Len(results) = step =>
          /\ step <= Len(plan)
          /\ results[step] # "Success"
          /\ effects[step] <= Bound(step)
          /\ results[step] \in {"Rejected", "RequiresConsent"} => effects[step] = 0

(* A policy allows one retry or three, in two calls each for a window.      *)
LEMMA Policy == \A i : Bound(i) \in {2, 4, 8}
BY DEF Bound, MaxEffects, recovery_policy_for, has_fallback

(* The calls made are a number, zero when the step begins.                  *)
LEMMA MadeIsNat ==
    ASSUME attempt \in Nat
    PROVE  Made \in Nat /\ (attempt = 0 /\ route = "control" => Made = 0)
BY DEF Made

(* Nothing is done at the start.                                            *)
LEMMA PlanInitHolds == PlanInit => PlanInv
<1> SUFFICES ASSUME PlanInit PROVE PlanInv
  OBVIOUS
<1>1. PICK n \in 1..MaxSteps : plan \in [1..n -> Capabilities]
  BY DEF PlanInit
<1>2. n \in Nat /\ plan \in Seq(Capabilities) /\ Len(plan) = n /\ DOMAIN plan = 1..n
  BY <1>1
<1>3. PlanTypes
  BY <1>2 DEF PlanInit, PlanTypes
<1>4. effects[1] = 0 /\ \A i \in DOMAIN plan : effects[i] = 0
  BY <1>1, <1>2 DEF PlanInit
<1>5. Underway
  <2>1. attempt \in Nat /\ attempt = 0 /\ route = "control" /\ step = 1
    BY Zenon, <1>3 DEF PlanInit, PlanTypes
  <2>2. Made = 0
    BY Zenon, <2>1, MadeIsNat
  <2> QED BY <1>4, <2>1, <2>2, Policy DEF Underway
<1> QED BY <1>2, <1>3, <1>4, <1>5 DEF PlanInit, PlanInv

(* What a status at the end of the report leaves of it.                     *)
LEMMA Reported ==
    ASSUME PlanInv, steps_left, NEW s \in StepStatus
    PROVE  /\ step \in DOMAIN plan /\ step \in Nat /\ Len(plan) \in Nat
           /\ DOMAIN plan = 1..Len(plan)
           /\ Append(results, s) \in Seq(StepStatus)
           /\ Len(Append(results, s)) = step
           /\ Append(results, s)[step] = s
           /\ \A i \in 1..(step - 1) : Append(results, s)[i] = results[i]
<1>1. /\ plan \in Seq(Capabilities) /\ results \in Seq(StepStatus)
      /\ step \in 1..(Len(plan) + 1) /\ step <= Len(plan) /\ Len(results) = step - 1
  BY Zenon DEF PlanInv, PlanTypes, steps_left
<1>2. /\ step \in DOMAIN plan /\ step \in Nat /\ Len(plan) \in Nat
      /\ DOMAIN plan = 1..Len(plan)
  BY <1>1
<1> QED BY <1>1, <1>2

(* A step that ends the plan, having taken effect as often as it may.       *)
LEMMA StopKeeps ==
    ASSUME PlanInv, steps_left, NEW s \in StepStatus \ {"Success"}, stop_with(s),
           effects' \in [DOMAIN plan -> Nat],
           \A i \in DOMAIN plan \ {step} : effects'[i] = effects[i],
           effects'[step] <= Bound(step),
           s \in {"Rejected", "RequiresConsent"} => effects'[step] = 0
    PROVE  PlanInv'
<1>1. results' = Append(results, s) /\ UNCHANGED <<plan, ctx, step, attempt, route>>
  BY Zenon DEF stop_with
<1>2. /\ step \in DOMAIN plan /\ step \in Nat /\ Len(plan) \in Nat
      /\ DOMAIN plan = 1..Len(plan)
      /\ results' \in Seq(StepStatus) /\ Len(results') = step /\ results'[step] = s
      /\ \A i \in 1..(step - 1) : results'[i] = results[i]
  BY Zenon, <1>1, Reported
<1>3. PlanTypes'
  BY Zenon, <1>1, <1>2 DEF PlanInv, PlanTypes
<1>4. ~ steps_left'
  BY <1>1, <1>2 DEF steps_left
<1>5. \A i \in 1..(step - 1) : /\ i \in DOMAIN plan \ {step}
                               /\ results'[i] = "Success"
                               /\ effects'[i] > 0 /\ effects'[i] <= Bound(i)
  BY <1>2 DEF PlanInv
<1>6. \A i \in DOMAIN plan : i > step => effects'[i] = 0
  BY <1>2 DEF PlanInv
<1>7. \A i : Bound(i)' = Bound(i)
  BY Zenon, <1>1 DEF Bound
<1> QED BY <1>1, <1>2, <1>3, <1>4, <1>5, <1>6, <1>7 DEF PlanInv

(* What a call leaves of the effects: its step is one further at most.      *)
LEMMA Effect ==
    ASSUME PlanInv, steps_left, NEW applied \in BOOLEAN, took_effect(applied)
    PROVE  /\ effects' \in [DOMAIN plan -> Nat] /\ effects[step] \in Nat
           /\ applied => effects'[step] = effects[step] + 1
           /\ \A i \in DOMAIN plan \ {step} : effects'[i] = effects[i]
           /\ effects'[step] <= Made + 1 /\ effects'[step] <= Bound(step)
<1>1. step \in DOMAIN plan
  BY Zenon, Reported DEF StepStatus
<1>2. /\ effects \in [DOMAIN plan -> Nat] /\ attempt \in Nat
      /\ effects[step] <= Made /\ Made < Bound(step)
  BY Zenon DEF PlanInv, PlanTypes, Underway
<1>3. Made \in Nat /\ Bound(step) \in Nat
  BY <1>2, MadeIsNat, Policy
<1>4. CASE applied
  <2>1. effects' = [effects EXCEPT ![step] = @ + 1]
    BY Zenon, <1>4 DEF took_effect
  <2> QED BY <1>1, <1>2, <1>3, <2>1
<1>5. CASE ~ applied
  <2>1. effects' = effects
    BY Zenon, <1>5 DEF took_effect
  <2> QED BY <1>1, <1>2, <1>3, <1>5, <2>1
<1> QED BY Zenon, <1>4, <1>5

(* An answered call, after which the next step is under way.                *)
LEMMA SucceedKeeps ==
    ASSUME PlanInv, Succeed
    PROVE  PlanInv'
<1>1. steps_left /\ took_effect(TRUE)
  BY Zenon DEF Succeed, may_call
<1>2. /\ results' = Append(results, "Success") /\ step' = step + 1 /\ attempt' = 0
      /\ route' = "control" /\ plan' = plan
  BY Zenon DEF Succeed
<1>3. /\ step \in DOMAIN plan /\ step \in Nat /\ Len(plan) \in Nat
      /\ DOMAIN plan = 1..Len(plan)
      /\ results' \in Seq(StepStatus) /\ Len(results') = step /\ results'[step] = "Success"
      /\ \A i \in 1..(step - 1) : results'[i] = results[i]
  BY Zenon, <1>1, <1>2, Reported DEF StepStatus
<1>4. /\ effects' \in [DOMAIN plan -> Nat]
      /\ effects'[step] = effects[step] + 1 /\ effects[step] \in Nat
      /\ \A i \in DOMAIN plan \ {step} : effects'[i] = effects[i]
      /\ effects'[step] <= Bound(step)
  BY Zenon, <1>1, Effect
<1>5. PlanTypes'
  <2>1. step' \in 1..(Len(plan) + 1) /\ attempt' \in Nat /\ Len(results') = step' - 1
    BY <1>2, <1>3
  <2> QED BY Zenon, <1>2, <1>3, <1>4, <2>1 DEF PlanInv, PlanTypes
<1>6. \A i : Bound(i)' = Bound(i)
  BY <1>2 DEF Bound
<1>7. ASSUME NEW i \in 1..(step' - 1)
      PROVE  results'[i] = "Success" /\ effects'[i] > 0 /\ effects'[i] <= Bound(i)
  <2>1. CASE i = step
    BY <1>3, <1>4, <2>1
  <2>2. CASE i \in 1..(step - 1)
    <3>1. results[i] = "Success" /\ effects[i] > 0 /\ effects[i] <= Bound(i)
      BY Zenon, <2>2 DEF PlanInv
    <3>2. i \in DOMAIN plan \ {step}
      BY <1>3, <2>2
    <3> QED BY <1>3, <1>4, <2>2, <3>1, <3>2
  <2> QED BY <1>2, <1>3, <2>1, <2>2
<1>8. \A i \in DOMAIN plan : i > step => effects'[i] = 0
  BY <1>3, <1>4 DEF PlanInv
<1>9. steps_left' => effects'[step'] = 0
  BY <1>2, <1>3, <1>8 DEF steps_left
<1>10. \A i \in DOMAIN plan : i > step' => effects'[i] = 0
  BY <1>2, <1>3, <1>8
<1>11. Len(results') # step'
  BY <1>2, <1>3
<1>12. steps_left' => Underway'
  <2>1. Made' = 0
    BY <1>2 DEF Made
  <2> QED BY <1>2, <1>6, <1>9, <2>1, Policy DEF Underway
<1>13. (\A i \in 1..(step - 1) : /\ results[i] = "Success"
                                 /\ effects[i] > 0 /\ effects[i] <= Bound(i))'
  BY Zenon, <1>6, <1>7
<1>14. (\A i \in DOMAIN plan : i > step => effects[i] = 0)'
  BY <1>2, <1>10
<1> QED BY <1>5, <1>11, <1>12, <1>13, <1>14 DEF PlanInv

(* A call after which the same step is under way, one call further.         *)
LEMMA CallKeeps ==
    ASSUME PlanInv, steps_left, NEW applied \in BOOLEAN, took_effect(applied),
           UNCHANGED <<plan, ctx, step, results>>, attempt' \in Nat,
           route' \in {"control", "surface"}, route' = "surface" => has_fallback(plan[step]),
           Made' = Made + 1, Made' < Bound(step)
    PROVE  PlanInv'
<1>1. /\ step \in DOMAIN plan /\ step \in Nat /\ Len(plan) \in Nat
      /\ DOMAIN plan = 1..Len(plan)
  BY Zenon, Reported DEF StepStatus
<1>2. /\ effects' \in [DOMAIN plan -> Nat]
      /\ \A i \in DOMAIN plan \ {step} : effects'[i] = effects[i]
      /\ effects'[step] <= Made'
  BY Zenon, Effect
<1>3. \A i : Bound(i)' = Bound(i)
  BY Zenon DEF Bound
<1>4. PlanTypes'
  BY Zenon, <1>2 DEF PlanInv, PlanTypes
<1>5. \A i \in 1..(step - 1) : /\ i \in DOMAIN plan \ {step}
                               /\ results[i] = "Success"
                               /\ effects'[i] > 0 /\ effects'[i] <= Bound(i)
  <2>1. \A i \in 1..(step - 1) : i \in DOMAIN plan \ {step}
    BY <1>1
  <2> QED BY Zenon, <1>2, <2>1 DEF PlanInv
<1>6. \A i \in DOMAIN plan : i > step => effects'[i] = 0
  <2>1. \A i \in DOMAIN plan : i > step => i # step
    BY <1>1
  <2> QED BY Zenon, <1>2, <2>1 DEF PlanInv
<1>7. Len(results) # step
  BY <1>1 DEF steps_left
<1>8. Underway'
  BY Zenon, <1>2, <1>3 DEF Underway
<1> QED BY Zenon, <1>3, <1>4, <1>5, <1>6, <1>7, <1>8 DEF PlanInv

(* A control plane that does not answer ok leaves the attempt's second call.*)
LEMMA FallBackKeeps ==
    ASSUME PlanInv, NEW applied \in BOOLEAN, FallBack(applied)
    PROVE  PlanInv'
<1>1. /\ steps_left /\ took_effect(applied) /\ UNCHANGED <<plan, ctx, step, attempt, results>>
      /\ has_fallback(plan[step]) /\ route = "control" /\ route' = "surface"
  BY Zenon DEF FallBack, may_call
<1>2. attempt \in Nat /\ Made < Bound(step)
  BY Zenon, <1>1 DEF PlanInv, PlanTypes, Underway
<1>3. Made = 2 * attempt /\ Made' = 2 * attempt + 1
  BY <1>1, <1>2 DEF Made
<1>4. Made' = Made + 1 /\ Made' < Bound(step)
  BY <1>2, <1>3, Policy
<1> QED BY Zenon, <1>1, <1>2, <1>4, CallKeeps

(* A failed or unanswered call, which is retried or stops the plan.         *)
LEMMA FailKeeps ==
    ASSUME PlanInv, NEW kind, NEW applied \in BOOLEAN, Fail(kind, applied)
    PROVE  PlanInv'
<1>1. /\ steps_left /\ took_effect(applied)
      /\ has_fallback(plan[step]) => route = "surface"
  BY Zenon DEF Fail, may_call
<1>2. attempt \in Nat /\ (route = "surface" => has_fallback(plan[step]))
  BY Zenon, <1>1 DEF PlanInv, PlanTypes, Underway
<1>4. CASE decide_recovery(recovery_policy_for(plan[step]), attempt + 1, kind) = "Retry"
  <2>1. attempt' = attempt + 1 /\ route' = "control" /\ UNCHANGED <<plan, ctx, step, results>>
    BY Zenon, <1>4 DEF Fail
  <2>2. Made' = Made + 1
    BY <1>1, <1>2, <2>1 DEF Made
  <2>3. attempt + 1 <= recovery_policy_for(plan[step])
    BY <1>2, <1>4 DEF decide_recovery, recovery_policy_for
  <2>4. Made' < Bound(step)
    BY <1>2, <2>1, <2>3 DEF Made, Bound, MaxEffects, recovery_policy_for, has_fallback
  <2>5. attempt' \in Nat
    BY <1>2, <2>1
  <2> QED BY Zenon, <1>1, <2>1, <2>2, <2>4, <2>5, CallKeeps
<1>5. CASE ~ (decide_recovery(recovery_policy_for(plan[step]), attempt + 1, kind) = "Retry")
  <2>1. stop_with("Failed")
    BY <1>5 DEF Fail
  <2>2. /\ effects' \in [DOMAIN plan -> Nat]
        /\ \A i \in DOMAIN plan \ {step} : effects'[i] = effects[i]
        /\ effects'[step] <= Bound(step)
    BY Zenon, <1>1, Effect
  <2> QED BY Zenon, <1>1, <2>1, <2>2, StopKeeps DEF StepStatus
<1> QED BY <1>4, <1>5

(* Every step keeps the invariant.                                          *)
LEMMA PlanStepKeeps == PlanInv /\ [PlanNext]_planVars => PlanInv'
<1> SUFFICES ASSUME PlanInv, [PlanNext]_planVars PROVE PlanInv'
  OBVIOUS
<1>1. ASSUME at_start, UNCHANGED effects,
             NEW s \in StepStatus \ {"Success"}, stop_with(s)
      PROVE  PlanInv'
  <2>1. steps_left /\ attempt = 0 /\ route = "control"
    BY Zenon, <1>1 DEF at_start
  <2>2. step \in DOMAIN plan /\ effects \in [DOMAIN plan -> Nat] /\ attempt \in Nat
    BY Zenon, <2>1, Reported DEF StepStatus, PlanInv, PlanTypes
  <2>3. effects[step] <= Made /\ Made = 0
    BY Zenon, <2>1, <2>2, MadeIsNat DEF PlanInv, Underway
  <2>4. effects' \in [DOMAIN plan -> Nat] /\ effects'[step] = 0 /\ effects'[step] <= Bound(step)
    BY <1>1, <2>2, <2>3, Policy
  <2> QED BY Zenon, <1>1, <2>1, <2>4, StopKeeps
<1>2. CASE Reject
  BY Zenon, <1>1, <1>2 DEF Reject, StepStatus
<1>3. CASE Confirm
  BY <1>1, <1>3 DEF Confirm, StepStatus
<1>4. CASE Precheck
  BY <1>1, <1>4 DEF Precheck, StepStatus
<1>5. CASE Succeed
  BY <1>5, SucceedKeeps
<1>6. ASSUME NEW kind, NEW applied \in BOOLEAN, Fail(kind, applied) PROVE PlanInv'
  BY Zenon, <1>6, FailKeeps
<1>7. CASE UNCHANGED planVars
  BY <1>7 DEF planVars, PlanInv, PlanTypes, steps_left, Underway, Made, Bound
<1>8. ASSUME NEW applied \in BOOLEAN, FallBack(applied) PROVE PlanInv'
  BY Zenon, <1>8, FallBackKeeps
<1> QED BY <1>2, <1>3, <1>4, <1>5, <1>6, <1>7, <1>8 DEF PlanNext

(* Lost answers and retries included, the report of a plan of any length    *)
(* says what was done.                                                      *)
THEOREM PlansReportTruly == PlanSpec => []PlanReportIsTrue
<1>1. PlanInv => PlanReportIsTrue
  <2> SUFFICES ASSUME PlanInv PROVE PlanReportIsTrue
    OBVIOUS
  <2>1. /\ step \in Nat /\ Len(plan) \in Nat /\ Len(results) \in Nat
        /\ step >= 1 /\ step <= Len(plan) + 1 /\ attempt \in Nat
        /\ Len(results) = step - 1 \/ Len(results) = step
    BY DEF PlanInv, PlanTypes
  <2>2. \A i \in DOMAIN plan : i \in Nat /\ 1 <= i /\ i <= Len(plan) /\ effects[i] \in Nat
    BY DEF PlanInv, PlanTypes
  <2>3. DOMAIN results = 1..Len(results)
    BY DEF PlanInv, PlanTypes
  <2>4. ASSUME NEW i \in DOMAIN plan, effects[i] > 0
        PROVE  /\ \A j \in 1..(i - 1) : results[j] = "Success"
               /\ effects[i] <= Bound(i)
    <3>1. i \in Nat /\ 1 <= i /\ i <= Len(plan) /\ i <= step
      <4>1. i \in Nat /\ 1 <= i /\ i <= Len(plan) /\ effects[i] # 0
        BY <2>4, <2>2
      <4>2. ~ (i > step)
        BY <2>4, <4>1 DEF PlanInv
      <4> QED BY <2>1, <4>1, <4>2
    <3>2. \A j \in 1..(i - 1) : j \in 1..(step - 1)
      BY <2>1, <3>1
    <3>3. effects[i] <= Bound(i)
      <4>1. CASE i < step
        <5>1. i \in 1..(step - 1)
          BY <2>1, <3>1, <4>1
        <5> QED BY Zenon, <5>1 DEF PlanInv
      <4>2. CASE i = step /\ Len(results) = step
        BY Zenon, <4>2 DEF PlanInv
      <4>3. CASE i = step /\ Len(results) = step - 1
        <5>1. steps_left
          BY <2>1, <4>3 DEF steps_left
        <5>2. effects[i] <= Made /\ Made < Bound(i)
          BY <4>3, <5>1 DEF PlanInv, Underway
        <5>3. Bound(i) \in Nat /\ effects[i] \in Nat /\ Made \in Nat
          BY <2>1, <2>2, Policy, MadeIsNat
        <5> QED BY <5>2, <5>3
      <4> QED BY <2>1, <3>1, <4>1, <4>2, <4>3
    <3> QED BY <3>2, <3>3 DEF PlanInv
  <2>5. ASSUME NEW i \in DOMAIN results
        PROVE  /\ results[i] = "Success" => effects[i] > 0
               /\ results[i] \in {"Rejected", "RequiresConsent"} => effects[i] = 0
    <3>1. CASE i \in 1..(step - 1)
      BY Zenon, <3>1 DEF PlanInv
    <3>2. CASE i = step /\ Len(results) = step
      BY <3>2 DEF PlanInv
    <3>3. i \in Nat /\ 1 <= i /\ i <= Len(results)
      BY DEF PlanInv, PlanTypes
    <3>4. i \in 1..(step - 1) \/ (i = step /\ Len(results) = step)
      BY <2>1, <3>3
    <3> QED BY Zenon, <3>1, <3>2, <3>4
  <2>6. finished /\ plan_ok => \A i \in DOMAIN plan : effects[i] > 0
    <3> SUFFICES ASSUME finished, plan_ok, NEW i \in DOMAIN plan PROVE effects[i] > 0
      OBVIOUS
    <3>1. Len(results) # step
      <4> SUFFICES ASSUME Len(results) = step PROVE FALSE
        OBVIOUS
      <4>1. step \in DOMAIN results
        BY <2>1, <2>3
      <4> QED BY <4>1 DEF plan_ok, PlanInv
    <3>2. i \in 1..(step - 1)
      <4>1. Len(results) = step - 1 /\ i \in Nat /\ 1 <= i /\ i <= Len(plan)
        BY <2>1, <2>2, <3>1
      <4>2. ~ (step <= Len(plan))
        BY <4>1 DEF finished, steps_left
      <4> QED BY <2>1, <4>1, <4>2
    <3> QED BY Zenon, <3>2 DEF PlanInv
  <2> QED BY <2>4, <2>5, <2>6 DEF PlanReportIsTrue, Bound
<1> QED BY <1>1, PlanInitHolds, PlanStepKeeps, PTL DEF PlanSpec

-----------------------------------------------------------------------------
(* The background agent (BackgroundAgent), for a day of any length.         *)

(* Two minutes that follow each other are not the same time of day.         *)
LEMMA MinutesApart ==
    ASSUME NEW m \in Nat, m % DayMinutes = 0, (m + 1) % DayMinutes = 0
    PROVE  FALSE
<1> DEFINE p == m \div DayMinutes
           q == (m + 1) \div DayMinutes
<1>1. p \in Int /\ q \in Int /\ DayMinutes \in Int /\ DayMinutes >= 2
  BY BackgroundAssumption
<1>2. m = DayMinutes * p /\ m + 1 = DayMinutes * q
  BY BackgroundAssumption
<1> HIDE DEF p, q
<1>3. DayMinutes * (q - p) = 1
  BY <1>1, <1>2
<1>4. CASE q - p <= 0
  BY <1>1, <1>3, <1>4
<1>5. CASE q - p >= 1
  BY <1>1, <1>3, <1>5
<1> QED BY <1>1, <1>4, <1>5

(* The batches a host hands over: at most two events.                       *)
Batches == UNION {[1..n -> Events] : n \in 0..2}

(* What is true of the log, the last firing and the firings of this tick    *)
(* after any number of its events.                                          *)
Handled(s) ==
    /\ s = [log |-> s.log, last |-> s.last, fired |-> s.fired]
    /\ \/ s.fired = 0 /\ s.last = last_fired
       \/ /\ s.fired = 1 /\ s.last = clock /\ due_at(clock)
          /\ last_fired = Never \/ clock >= last_fired + 2

(* The workflow had its chance: it fired in this tick or less than a minute *)
(* of the clock before.                                                     *)
Offered(s) == s.fired = 1 \/ (last_fired # Never /\ clock < last_fired + 2)

(* Handling an event keeps both; a tick of the clock in the workflow's      *)
(* minute gives it its chance.                                              *)
LEMMA HandleKeeps ==
    ASSUME NEW s, NEW e \in Events, Handled(s), clock \in Nat,
           last_fired \in Nat \union {Never}
    PROVE  /\ Handled(handle(s, e))
           /\ Offered(s) => Offered(handle(s, e))
           /\ e.kind = "TimeTick" /\ due_at(clock) => Offered(handle(s, e))
           /\ e.kind # "TimeTick" => handle(s, e).fired = s.fired
<1>1. CASE e.kind = "SignalUpdate"
  <2>1. handle(s, e) = [s EXCEPT !.log = ingest(s.log, e.signal)]
    BY Zenon, <1>1 DEF handle
  <2>2. handle(s, e) = [log |-> ingest(s.log, e.signal), last |-> s.last, fired |-> s.fired]
    BY Zenon, <2>1 DEF Handled
  <2> QED BY <1>1, <2>2 DEF Handled, Offered
<1>2. CASE e.kind = "TimeTick"
  <2>1. handle(s, e) = plan_time_triggers(s)
    BY <1>2 DEF handle
  <2>2. CASE ~ due_at(clock) \/ (s.last # Never /\ clock < s.last + 2)
    BY Zenon, <2>1, <2>2 DEF plan_time_triggers, Handled, Offered, Never
  <2>3. CASE due_at(clock) /\ ~ (s.last # Never /\ clock < s.last + 2)
    <3>1. handle(s, e) = [log |-> s.log, last |-> clock, fired |-> s.fired + 1]
      BY Zenon, <2>1, <2>3 DEF plan_time_triggers, Handled
    <3> QED BY <1>2, <2>3, <3>1 DEF Handled, Offered, Never
  <2> QED BY <2>2, <2>3
<1>3. CASE e.kind = "WorkflowTrigger"
  BY Zenon, <1>3 DEF handle
<1>4. e.kind = "SignalUpdate" \/ e.kind = "TimeTick" \/ e.kind = "WorkflowTrigger"
  BY DEF Events
<1> QED BY <1>1, <1>2, <1>3, <1>4, Zenon

(* A batch has two events at most.                                          *)
LEMMA UpToTwo == \A l \in 0..2 : \A n \in 0..l : n = 0 \/ n = 1 \/ n = 2
OBVIOUS

(* So a whole batch does: the fold takes one step for each event.           *)
LEMMA EventsHandled ==
    ASSUME NEW events \in Batches, clock \in Nat, last_fired \in Nat \union {Never}
    PROVE  /\ Handled(after_events(events))
           /\ (\E i \in DOMAIN events : events[i].kind = "TimeTick") /\ due_at(clock)
                => Offered(after_events(events))
           /\ after_events(events).fired = 1
                => \E i \in DOMAIN events : events[i].kind = "TimeTick"
<1> DEFINE s0 == [log |-> signals, last |-> last_fired, fired |-> 0]
           Fold(f) == [n \in 0..Len(events) |->
                          IF n = 0 THEN s0 ELSE handle(f[n - 1], events[n])]
           h == CHOOSE f : f = Fold(f)
           g == [n \in 0..Len(events) |->
                    IF n = 0 THEN s0
                    ELSE IF n = 1 THEN handle(s0, events[1])
                    ELSE handle(handle(s0, events[1]), events[2])]
<1> HIDE DEF s0
<1>1. Len(events) \in 0..2
  BY DEF Batches
<1>2. \E f : f = Fold(f)
  <2>1. g = Fold(g)
    <3> SUFFICES ASSUME NEW n \in 0..Len(events) PROVE g[n] = Fold(g)[n]
      OBVIOUS
    <3>1. CASE n = 0
      BY <3>1
    <3>2. CASE n = 1
      BY <1>1, <3>2
    <3>3. CASE n = 2
      BY <1>1, <3>3
    <3>4. n = 0 \/ n = 1 \/ n = 2
      BY Zenon, <1>1, UpToTwo
    <3> QED BY Zenon, <3>1, <3>2, <3>3, <3>4
  <2> QED BY Zenon, <2>1
<1>3. h = Fold(h)
  BY Zenon, <1>2
<1>4. after_events(events) = h[Len(events)]
  BY Zenon DEF after_events, s0
<1> HIDE DEF h
<1>5. h[0] = s0
  BY <1>1, <1>3
<1>6. Len(events) >= 1 => h[1] = handle(s0, events[1])
  BY <1>1, <1>3, <1>5
<1>7. Len(events) = 2 => h[2] = handle(h[1], events[2])
  BY <1>1, <1>3
<1>8. Handled(s0) /\ s0.fired # 1
  BY DEF Handled, s0
<1> HIDE DEF g, Fold
<1>9. \A i \in DOMAIN events : i \in 1..Len(events) /\ events[i] \in Events
  BY DEF Batches
<1>10. CASE Len(events) = 0
  BY <1>4, <1>5, <1>8, <1>9, <1>10
<1>11. CASE Len(events) = 1
  <2>1. events[1] \in Events /\ DOMAIN events = {1}
    BY <1>9, <1>11 DEF Batches
  <2>2. after_events(events) = handle(s0, events[1])
    BY <1>4, <1>6, <1>11
  <2> QED BY Zenon, <1>8, <2>1, <2>2, HandleKeeps
<1>12. CASE Len(events) = 2
  <2>1. events[1] \in Events /\ events[2] \in Events /\ DOMAIN events = {1, 2}
    BY <1>9, <1>12 DEF Batches
  <2>2. /\ Handled(h[1])
        /\ events[1].kind = "TimeTick" /\ due_at(clock) => Offered(h[1])
        /\ events[1].kind # "TimeTick" => h[1].fired # 1
    <3>1. h[1] = handle(s0, events[1])
      BY <1>6, <1>12
    <3> QED BY Zenon, <1>8, <2>1, <3>1, HandleKeeps
  <2>3. /\ Handled(h[2])
        /\ Offered(h[1]) => Offered(h[2])
        /\ events[2].kind = "TimeTick" /\ due_at(clock) => Offered(h[2])
        /\ events[2].kind # "TimeTick" => h[2].fired = h[1].fired
    BY Zenon, <1>7, <1>12, <2>1, <2>2, HandleKeeps
  <2> QED BY Zenon, <1>4, <1>12, <2>1, <2>2, <2>3
<1>13. Len(events) = 0 \/ Len(events) = 1 \/ Len(events) = 2
  BY <1>1
<1> QED BY Zenon, <1>10, <1>11, <1>12, <1>13

(* The last firing was in a due minute, which it counts for, and is not     *)
(* before any other firing; nor is the clock before it until it is set      *)
(* back.  A symptom was planned exactly once when it is among the planned   *)
(* ones, and those found last are.                                          *)
BgInv ==
    /\ clock \in 0..MaxNow
    /\ last_fired \in Nat \union {Never}
    /\ firings \in [Minutes -> {0, 1}]
    /\ due \in SUBSET Minutes
    /\ last_fired # Never => /\ minute(last_fired) \in Minutes
                             /\ due_at(last_fired)
                             /\ firings[minute(last_fired)] = 1
    /\ \A m \in Minutes : firings[m] = 1 => last_fired # Never /\ 2 * m <= last_fired
    /\ ~ set_back => /\ last_fired # Never => last_fired <= clock
                     /\ \A m \in Minutes : m \in due <=> firings[m] = 1
    /\ plans \in [SymptomIds -> Nat]
    /\ \A s \in recipes : plans[s] = IF s \in planned_symptoms THEN 1 ELSE 0
    /\ symptoms \intersect recipes \subseteq planned_symptoms

(* A tick keeps the count of the firings.                                   *)
LEMMA TickFiresOnce ==
    ASSUME BgInv, NEW events \in Batches, tick(events)
    PROVE  /\ clock' \in 0..MaxNow
           /\ last_fired' \in Nat \union {Never}
           /\ firings' \in [Minutes -> {0, 1}]
           /\ due' \in SUBSET Minutes
           /\ last_fired' # Never => /\ minute(last_fired') \in Minutes
                                     /\ due_at(last_fired')
                                     /\ firings'[minute(last_fired')] = 1
           /\ \A m \in Minutes : firings'[m] = 1 => last_fired' # Never /\ 2 * m <= last_fired'
           /\ ~ set_back' => /\ last_fired' # Never => last_fired' <= clock'
                             /\ \A m \in Minutes : m \in due' <=> firings'[m] = 1
<1> DEFINE after == after_events(events)
           ticked == \E i \in DOMAIN events : events[i].kind = "TimeTick"
           now == minute(clock)
<1>1. /\ last_fired' = after.last
      /\ firings' = [firings EXCEPT ![now] = @ + after.fired]
      /\ due' = IF ticked /\ due_at(clock) THEN due \union {now} ELSE due
      /\ clock' = clock /\ set_back' = set_back
  BY Zenon DEF tick
<1>2. clock \in Nat /\ now \in Minutes /\ now \in Nat /\ clock \in {2 * now, 2 * now + 1}
  BY BackgroundAssumption DEF BgInv, minute, Minutes
<1>3. /\ Handled(after)
      /\ ticked /\ due_at(clock) => Offered(after)
      /\ after.fired = 1 => ticked
  BY Zenon, <1>2, EventsHandled DEF BgInv
<1> HIDE DEF after, ticked
<1>4. CASE after.fired = 1 /\ after.last = clock /\ due_at(clock)
             /\ (last_fired = Never \/ clock >= last_fired + 2)
  <2>1. firings[now] = 0
    BY <1>2, <1>4 DEF BgInv, Never
  <2>2. firings' = [firings EXCEPT ![now] = 1]
    BY <1>1, <1>4, <2>1
  <2>3. due' = due \union {now}
    BY Zenon, <1>1, <1>3, <1>4
  <2>4. \A m \in Minutes : firings'[m] = 1 => last_fired' # Never /\ 2 * m <= last_fired'
    <3> SUFFICES ASSUME NEW m \in Minutes, firings'[m] = 1
                 PROVE  last_fired' # Never /\ 2 * m <= last_fired'
      OBVIOUS
    <3>1. last_fired' = clock /\ clock # Never
      BY <1>1, <1>2, <1>4 DEF Never
    <3>2. CASE m = now
      BY <1>2, <3>1, <3>2
    <3>3. CASE m # now
      <4>1. firings[m] = 1
        BY Zenon, <2>2, <3>3 DEF BgInv
      <4>2. m \in Int /\ last_fired \in Nat /\ 2 * m <= last_fired /\ clock >= last_fired + 2
        BY <1>4, <4>1 DEF BgInv, Minutes
      <4> QED BY <1>2, <3>1, <4>2
    <3> QED BY <3>2, <3>3
  <2>5. \A m \in Minutes : ~ set_back => (m \in due' <=> firings'[m] = 1)
    BY Zenon, <1>2, <2>2, <2>3 DEF BgInv
  <2>6. last_fired' = clock /\ due_at(clock) /\ firings'[now] = 1
    BY Zenon, <1>1, <1>2, <1>4, <2>2 DEF BgInv
  <2>7. firings' \in [Minutes -> {0, 1}] /\ due' \in SUBSET Minutes
    BY Zenon, <1>2, <2>2, <2>3 DEF BgInv
  <2>8. clock' = clock /\ set_back' = set_back /\ clock \in 0..MaxNow
    BY Zenon, <1>1 DEF BgInv
  <2> QED BY <1>2, <2>4, <2>5, <2>6, <2>7, <2>8
<1>5. CASE after.fired = 0 /\ after.last = last_fired
  <2>1. firings' = firings
    BY <1>1, <1>2, <1>5 DEF BgInv
  <2>2. ASSUME ticked, due_at(clock), ~ set_back PROVE firings[now] = 1
    <3>1. last_fired # Never /\ last_fired \in Nat /\ last_fired <= clock /\ clock < last_fired + 2
      BY <1>3, <1>5, <2>2 DEF Offered, BgInv
    <3>2. minute(last_fired) = now \/ (minute(last_fired) \in Nat /\ now = minute(last_fired) + 1)
      BY <1>2, <3>1 DEF minute
    <3>3. CASE minute(last_fired) = now
      BY Zenon, <3>1, <3>3 DEF BgInv
    <3>4. CASE minute(last_fired) \in Nat /\ now = minute(last_fired) + 1
      BY Zenon, <2>2, <3>1, <3>4, MinutesApart DEF BgInv, due_at
    <3> QED BY Zenon, <3>2, <3>3, <3>4
  <2> QED BY Zenon, <1>1, <1>2, <1>5, <2>1, <2>2 DEF BgInv
<1> QED BY Zenon, <1>3, <1>4, <1>5 DEF Handled

(* Every step keeps the invariant.                                          *)
LEMMA BgStepKeeps == BgInv /\ [BgNext]_bgVars => BgInv'
<1> SUFFICES ASSUME BgInv, [BgNext]_bgVars PROVE BgInv'
  OBVIOUS
<1>1. ASSUME NEW events \in Batches, tick(events) PROVE BgInv'
  <2> DEFINE found == evaluate(after_events(events).log)
  <2>1. /\ symptoms' = found
        /\ planned_symptoms' = planned_symptoms \union new_plans(found)
        /\ plans' = [s \in SymptomIds |-> plans[s] + IF s \in new_plans(found) THEN 1 ELSE 0]
    BY Zenon, <1>1 DEF tick
  <2> HIDE DEF found
  <2>2. /\ plans' \in [SymptomIds -> Nat]
        /\ \A s \in recipes : plans'[s] = IF s \in planned_symptoms' THEN 1 ELSE 0
        /\ symptoms' \intersect recipes \subseteq planned_symptoms'
    BY <2>1 DEF BgInv, new_plans, recipes, SymptomIds
  <2> QED BY Zenon, <1>1, <2>2, TickFiresOnce DEF BgInv, minute, due_at
<1>2. CASE ClockAdvances
  BY <1>2, BackgroundAssumption DEF ClockAdvances, BgInv, Never
<1>3. ASSUME NEW t \in 0..MaxNow, ClockSetBack(t) PROVE BgInv'
  BY Zenon, <1>3 DEF ClockSetBack, BgInv
<1>4. CASE UNCHANGED bgVars
  BY Zenon, <1>4 DEF bgVars, BgInv
<1> QED BY Zenon, <1>1, <1>2, <1>3, <1>4 DEF BgNext, Batches

(* For every length of the day of two minutes or more and every limit of    *)
(* the log: the workflow fires once in its minute and a recovery is         *)
(* surfaced once.                                                           *)
THEOREM BackgroundActsOnce == BgSpec => []ActsOnce
<1>1. BgInit => BgInv
  <2> SUFFICES ASSUME BgInit PROVE BgInv
    OBVIOUS
  <2>1. clock \in 0..MaxNow /\ firings \in [Minutes -> {0, 1}]
    BY BackgroundAssumption DEF BgInit
  <2>2. \A m \in Minutes : firings[m] # 1 /\ m \notin due
    BY DEF BgInit
  <2>3. plans \in [SymptomIds -> Nat] /\ \A s \in recipes : plans[s] = 0 /\ s \notin planned_symptoms
    BY DEF BgInit, SymptomIds, recipes
  <2>4. last_fired = Never /\ symptoms = {} /\ due = {}
    BY Zenon DEF BgInit
  <2> QED BY <2>1, <2>2, <2>3, <2>4 DEF BgInv
<1>2. BgInv => ActsOnce
  BY DEF BgInv, ActsOnce, recipes
<1> QED BY <1>1, <1>2, BgStepKeeps, PTL DEF BgSpec
=============================================================================
