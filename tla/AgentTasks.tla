----------------------------- MODULE AgentTasks -----------------------------
(***************************************************************************)
(* The agent surface of the control daemon (the agent.* handlers of        *)
(* aether-system-core/src/main.rs over AgentStatus of aether-agent-core)   *)
(* and the executor that agent.execute runs (aether-agent-runtime).        *)
(*                                                                         *)
(* The daemon serves one request at a time. agent.execute stays in its     *)
(* handler until the executor has returned, and the executor's own         *)
(* requests go to a TCP port: the daemon's own one unless the caller names *)
(* another. What it sends to its own port waits in the listen backlog      *)
(* until the loop is free again.                                           *)
(***************************************************************************)
EXTENDS TaskGraph

CONSTANTS
    ProposalIds,        \* ids of proposals; the task of p has the id of p
    Offers,             \* <<id, kind>>: what is proposed under which id
    Observations,       \* ids of observations
    Ports,              \* where the executor sends: "own" or "other"
    MaxRetries,         \* max_retries of RecoveryPolicy::transient_default
    HistoryLimit,       \* MAX_TASK_HISTORY
    ObservationLimit,   \* OBSERVATION_LOG_LIMIT
    BacklogLimit,       \* connections the listening socket queues
    MaxTasks            \* bound on the tasks ever inserted

ASSUME AgentAssumption ==
    /\ MaxRetries \in Nat /\ BacklogLimit \in Nat /\ MaxTasks \in Nat
    /\ HistoryLimit \in Nat \ {0} /\ ObservationLimit \in Nat \ {0}
    /\ Ports \subseteq {"own", "other"}
    /\ Offers \subseteq ProposalIds \X {"write", "read", "local", "unsupported"}

VARIABLES
    observations,   \* the bounded observation log
    proposals,      \* pending proposals: id -> kind
    tasks,          \* the live tasks
    history,        \* the bounded history of finished tasks
    executing,      \* the handler's task and its attempt, or Idle
    backlog,        \* insertion numbers of the tasks whose requests wait
    created,        \* number of tasks inserted so far
    cancelled,      \* history: the tasks cancelled
    recorded,       \* history: everything ever put into history
    performed       \* history: how often each task's action was performed

statusVars == <<observations, proposals, tasks, history>>
atVars == <<statusVars, executing, backlog, created, cancelled, recorded, performed>>

(* What task_to_action makes of a task: an action that changes the system,  *)
(* one that reads, one the executor answers itself, or none.                *)
Kinds == {"write", "read", "local", "unsupported"}

NoExecution == [attempt |-> 0]
LoopIsFree == executing.attempt = 0

(* A log cut to its newest entries. *)
Bounded(s, limit) == IF Len(s) > limit THEN SubSeq(s, Len(s) - limit + 1, Len(s)) ELSE s

AtInit ==
    /\ observations = <<>>
    /\ proposals = <<>>
    /\ tasks = {}
    /\ history = <<>>
    /\ executing = NoExecution
    /\ backlog = <<>>
    /\ created = 0
    /\ cancelled = {}
    /\ recorded = <<>>
    /\ performed = [n \in 1..MaxTasks |-> 0]

-----------------------------------------------------------------------------
(* The handlers that only touch the status. *)

Observe(o) ==
    /\ LoopIsFree
    /\ observations' = Bounded(Append(observations, o), ObservationLimit)
    /\ UNCHANGED <<proposals, tasks, history, executing, backlog, created, cancelled, recorded, performed>>

(* agent.propose of a well-formed proposal: its evidence must be in the log *)
(* now. A pending one of the same id is replaced.                           *)
Propose(p, kind, evidence) ==
    /\ LoopIsFree
    /\ evidence \subseteq {observations[i] : i \in DOMAIN observations}
    /\ proposals' = [q \in DOMAIN proposals \cup {p} |-> IF q = p THEN kind ELSE proposals[q]]
    /\ UNCHANGED <<observations, tasks, history, executing, backlog, created, cancelled, recorded, performed>>

NewTask(id, kind, deps) == [id |-> id, kind |-> kind, deps |-> deps, number |-> created + 1]

RemoveProposal(p) == proposals' = [q \in DOMAIN proposals \ {p} |-> proposals[q]]

(* Mutant: an id that was finished before is taken for done. *)
ApproveOnce(p) ==
    /\ LoopIsFree
    /\ p \in DOMAIN proposals /\ created < MaxTasks
    /\ RemoveProposal(p)
    /\ LET task == NewTask(p, proposals[p], {})
           fresh == Insertable(tasks, task) /\ \A i \in DOMAIN history : history[i].task.id # p
       IN /\ tasks' = IF fresh THEN tasks \cup {task} ELSE tasks
          /\ created' = IF fresh THEN created + 1 ELSE created
    /\ UNCHANGED <<observations, history, executing, backlog, cancelled, recorded, performed>>

(* agent.approve: the proposal is gone whether or not its task is inserted. *)
Approve(p) ==
    /\ LoopIsFree
    /\ p \in DOMAIN proposals /\ created < MaxTasks
    /\ RemoveProposal(p)
    /\ LET task == NewTask(p, proposals[p], {})
       IN /\ tasks' = IF Insertable(tasks, task) THEN tasks \cup {task} ELSE tasks
          /\ created' = IF Insertable(tasks, task) THEN created + 1 ELSE created
    /\ UNCHANGED <<observations, history, executing, backlog, cancelled, recorded, performed>>

(* AgentStatus::insert_task as a runtime calls it, with dependencies: without  *)
(* any it does what Approve does.                                           *)
InsertTask(id, kind, deps) ==
    /\ LoopIsFree
    /\ created < MaxTasks
    /\ Insertable(tasks, NewTask(id, kind, deps))
    /\ tasks' = tasks \cup {NewTask(id, kind, deps)}
    /\ created' = created + 1
    /\ UNCHANGED <<observations, proposals, history, executing, backlog, cancelled, recorded, performed>>

(* agent.cancel: the task leaves the graph and enters no history. *)
Cancel(task) ==
    /\ LoopIsFree
    /\ tasks' = Without(tasks, task.id)
    /\ cancelled' = cancelled \cup {task.number}
    /\ UNCHANGED <<observations, proposals, history, executing, backlog, created, recorded, performed>>

RecordHistory(task, stage) ==
    LET entry == [task |-> task, stage |-> stage]
    IN /\ history' = Bounded(Append(history, entry), HistoryLimit)
       /\ recorded' = Append(recorded, entry)

-----------------------------------------------------------------------------
(* agent.execute and the executor. *)

(* Mutant: the task stays in the graph until it is finished. *)
ExecuteKeepsTask(task, port) ==
    /\ LoopIsFree
    /\ IF task.kind = "unsupported"
       THEN RecordHistory(task, "Failed") /\ UNCHANGED executing
       ELSE /\ executing' = [task |-> task, attempt |-> 1, port |-> port]
            /\ UNCHANGED <<history, recorded>>
    /\ UNCHANGED <<observations, proposals, tasks, backlog, created, cancelled, performed>>

(* The handler up to the first attempt: the task is taken out of the graph. *)
(* One without an action is recorded as failed at once.                     *)
Execute(task, port) ==
    /\ LoopIsFree
    /\ tasks' = Without(tasks, task.id)
    /\ IF task.kind = "unsupported"
       THEN RecordHistory(task, "Failed") /\ UNCHANGED executing
       ELSE /\ executing' = [task |-> task, attempt |-> 1, port |-> port]
            /\ UNCHANGED <<history, recorded>>
    /\ UNCHANGED <<observations, proposals, backlog, created, cancelled, performed>>

(* Mutant: every action is retried. *)
RetriesAlways(kind) == MaxRetries

(* recovery_policy_for: actions that change the system are not retried. *)
Retries(kind) == IF kind = "write" THEN 0 ELSE MaxRetries

(* Mutant: a transient failure is always worth another attempt. *)
MayRetryForever(task, attempt) == Retries(task.kind) > 0

(* decide_recovery of a failed request: ipc_request only fails with         *)
(* AgentError::Ipc, which is a transient failure.                           *)
MayRetry(task, attempt) == attempt <= Retries(task.kind)

(* The attempt counter saturates, here right above the last value that      *)
(* decide_recovery tells apart.                                             *)
NextAttempt(n) == IF n > MaxRetries + 1 THEN n ELSE n + 1

Finish(stage) ==
    /\ RecordHistory(executing.task, stage)
    /\ executing' = NoExecution

AfterFailure ==
    IF MayRetry(executing.task, executing.attempt)
    THEN executing' = [executing EXCEPT !.attempt = NextAttempt(@)] /\ UNCHANGED <<history, recorded>>
    ELSE Finish("Failed")

(* An action the executor answers itself. *)
AttemptLocal ==
    /\ ~LoopIsFree /\ executing.task.kind = "local"
    /\ performed' = [performed EXCEPT ![executing.task.number] = @ + 1]
    /\ Finish("Done")
    /\ UNCHANGED <<observations, proposals, tasks, backlog, created, cancelled>>

(* A request to the daemon's own port: the connection is queued, or refused *)
(* by a full backlog. Nobody accepts it while this handler waits, so the    *)
(* read times out.                                                          *)
AttemptOwnPort ==
    /\ ~LoopIsFree /\ executing.task.kind # "local" /\ executing.port = "own"
    /\ backlog' = IF Len(backlog) < BacklogLimit THEN Append(backlog, executing.task.number) ELSE backlog
    /\ AfterFailure
    /\ UNCHANGED <<observations, proposals, tasks, created, cancelled, performed>>

(* A request to another daemon: it may or may not perform the action, and   *)
(* the executor may or may not get an answer. Any answer counts as success, *)
(* a refusal too.                                                           *)
AttemptOtherPort(performs, answers) ==
    /\ ~LoopIsFree /\ executing.task.kind # "local" /\ executing.port = "other"
    /\ performed' = [performed EXCEPT ![executing.task.number] = @ + (IF performs THEN 1 ELSE 0)]
    /\ IF answers THEN Finish("Done") ELSE AfterFailure
    /\ UNCHANGED <<observations, proposals, tasks, backlog, created, cancelled>>

Attempt ==
    \/ AttemptLocal
    \/ AttemptOwnPort
    \/ \E performs, answers \in BOOLEAN : AttemptOtherPort(performs, answers)

(* The loop accepts a queued connection of the executor and serves its      *)
(* request, long after the executor has gone.                               *)
ServeQueued ==
    /\ LoopIsFree /\ backlog # <<>>
    /\ backlog' = Tail(backlog)
    /\ performed' = [performed EXCEPT ![Head(backlog)] = @ + 1]
    /\ UNCHANGED <<statusVars, executing, created, cancelled, recorded>>

AtNext ==
    \/ \E o \in Observations : Observe(o)
    \/ \E offer \in Offers, evidence \in SUBSET Observations : Propose(offer[1], offer[2], evidence)
    \/ \E p \in ProposalIds : Approve(p)
    \/ \E offer \in Offers, deps \in (SUBSET ProposalIds) \ {{}} : InsertTask(offer[1], offer[2], deps)
    \/ \E task \in tasks : Cancel(task)
    \/ \E task \in tasks, port \in Ports : Execute(task, port)
    \/ Attempt
    \/ ServeQueued

(* The handler runs to its end: connect and read are bounded by timeouts.   *)
AtFairness == WF_atVars(Attempt)

AtSpec == AtInit /\ [][AtNext]_atVars /\ AtFairness

-----------------------------------------------------------------------------
Live == {t.number : t \in tasks}
Executed == IF LoopIsFree THEN {} ELSE {executing.task.number}
Recorded == {recorded[i].task.number : i \in DOMAIN recorded}

(* The live tasks never wait for each other in a circle, whatever is        *)
(* removed and inserted again under the same id: TaskGraph::insert.         *)
NoTaskCycle == AcyclicGraph(tasks)

(* Every task ever inserted is in exactly one place: live, in the hands of  *)
(* the executor, cancelled, or recorded once; and what agent.history shows  *)
(* is the end of what was recorded, up to its limit.                        *)
EveryTaskOnce ==
    /\ Live \cup Executed \cup cancelled \cup Recorded = 1..created
    /\ Live \cap (Executed \cup cancelled \cup Recorded) = {}
    /\ Executed \cap (cancelled \cup Recorded) = {} /\ cancelled \cap Recorded = {}
    /\ \A i, j \in DOMAIN recorded : recorded[i].task.number = recorded[j].task.number => i = j
    /\ Len(history) = IF Len(recorded) < HistoryLimit THEN Len(recorded) ELSE HistoryLimit
    /\ \A i \in DOMAIN history : history[i] = recorded[Len(recorded) - Len(history) + i]

(* However the attempts end, an action that changes the system is performed *)
(* at most once per task, also by requests that outlive the executor; one   *)
(* that reads, at most once more than it may be retried.                    *)
NoRepeatedAction ==
    \A task \in {recorded[i].task : i \in DOMAIN recorded} \cup (IF LoopIsFree THEN {} ELSE {executing.task}) :
        performed[task.number] <= (IF task.kind = "write" THEN 1 ELSE MaxRetries + 1)

(* When a proposal is lost: it leaves the pending set only by agent.approve, *)
(* which has then made a task of it, or could not because a live task has   *)
(* that id or waits for it. The comment on agent.approve says more, that it *)
(* is removed "on success": the code removes it first, and an insert that   *)
(* is refused does not put it back.                                         *)
ApprovalIsAnswered ==
    [][\A p \in DOMAIN proposals \ DOMAIN proposals' :
           \/ p \in Ids(tasks')
           \/ \E t \in tasks' : TransitivelyDependsOn(tasks', t, p)]_atVars

(* The loop is free again some time after agent.execute: every attempt ends *)
(* and the retries are bounded (execute_with_recovery, decide_recovery).    *)
ExecutionEnds == ~LoopIsFree ~> LoopIsFree

(* "The task failed" (TaskStage::Failed): the action of a task recorded as  *)
(* failed is not performed. It is what the executor's comment, that the     *)
(* daemon drives it off the main loop, would give.                          *)
FailedIsNotPerformed ==
    \A i \in DOMAIN recorded : recorded[i].stage = "Failed" => performed[recorded[i].task.number] = 0
=============================================================================
