# Aether OS: specifications and proofs

TLA+ specifications of the parts of Aether OS whose correctness depends on order,
failure and interleaving; TLC configurations that check them on small instances;
and TLAPS proofs of the main safety properties for all instances. `PROJECT.json`
lists components, runs, the source lines behind every definition, the hazards the
properties are aimed at, and the theorems.

## 1. Inventory

Aether OS is a Rust userspace: PID 1 (`aether-init`) starts the control daemon
(`aether-system-core`), which starts services from manifests and answers JSON
requests on a TCP port; an agent daemon, a graphical shell and command-line tools
are clients of that port. Libraries under `agent/`, `system/`, `security/` hold
most of the state machines.

| Component | State | Operations | Hard behaviour | What makes it correct |
|---|---|---|---|---|
| Dependency graph (`system-core/graph.rs`) | in-degrees, queue, start order | `DependencyGraph::new` | duplicate, missing, repeated, cyclic dependencies | an accepted list is started dependencies first; a reported cycle is real |
| Service manager (`manager.rs`) | status, health, handle, restarts per service | start/stop/restart, `start_all`, `stop_all`, `poll_health`, `handle_failure` | any visit may fail half-way, processes die at any time | order of starting and stopping; nothing left running unreported; bounded crash loops |
| Control daemon (`main.rs`, `policy.rs`) | connection, stop flag, all shared status | one handler per command | one thread: requests after a shutdown line, blocked handlers | gate before handler; a daemon that ended has stopped its services |
| Audit log (`aether-security/audit.rs`) | hash chain, cap, age limit | `record`, `prune_older_than`, `verify_chain` | eviction at the cap, clock going back | the log is a gapless tail of what was recorded; verification tells tampering |
| Update agent and disk engine (`aether-update-agent`), update status (`aether-update-core`), retry policies (`aether-retry-policy`) | stage, plan, files on disk, breaker counters | accept, apply, run_step, rollback, reset | crashes between steps, torn copies, retries, fallbacks | only verified bytes become active; Done and RolledBack mean what they say |
| Agent tasks (`aether-agent-core`, `agent.*` handlers) | observations, proposals, task graph, history | observe, propose, approve, cancel, execute | ids used again, bounded logs, take-then-fail handlers | no cycle, no task lost or recorded twice |
| Action executor (`aether-agent-runtime/executor.rs`, `recovery.rs`) | attempt | `execute_with_recovery` | time-outs racing late service of a request | no changing action twice; every execution ends |
| Agent daemon and runtime host (`aether-agentd`, `aether-agent-runtime/host.rs`) | sessions, parked actions, tokens | `handle_request`: create, cancel, intent, grant, deny, stop | grants that come late, evictions, restarts | nothing of high risk runs without its own grant; nothing runs twice |
| Planner of the agent daemon (`planner.rs`) | step, attempt, results | `execute` with recovery | effects whose answer is lost | the report of a plan says what was done; effects are bounded |
| Agent memory (`memory_store.rs`, `lib.rs`) | three surfaces, files, temporary files | set, delete, flush, load | crash between write and rename | the last save is readable |
| Window manager, graphical shell, surface server, application manager | windows, stack, workspaces, two locks, sockets, child processes | keys, control requests, launches, closes | threads, processes that end at any moment | no window without its process, focus on top, one process per application |
| Device registry, pairing, remote deliveries (`aether-device-core`, `aether-device-runtime`) | pairing state per device, last sequence numbers | register, pair, complete, revoke, unregister, accept | late and repeated completions; lost, late, repeated messages | only a pairing begun and not revoked completes; in order and once |
| Supervisor (`aether-supervisor`) | child, back-off | launch, observe, relaunch | failed spawns, exits at any time | restarts within the limit and the delays; the child is kept alive |
| Background agent, automation, diagnostics | signals, last fired, planned symptoms | tick | ticks at any distance, clocks set back | fires once per minute, plans each new symptom once |
| Store (`aether-store`) | trust, entries, files, payload cache | set_trust, install, launch, uninstall, rehydrate | writes that fail, crashes between three files | what is listed and launched is one finished install |
| Voice session (`aether-voice`, `-stt`, `-tts`) | dialog state, recording, speech queue | start, stop, feed, tick, advance | start in the middle, failing engines | one reply to a wake, in order |
| Storage, credentials, transport, network, hardware, sandbox, signing, AI defence, vision, UI crates, shells, tools, SDKs, Python brain | none, one table, or pure functions | | | not modelled (section 8) |

Interaction: clients → control daemon (requests over TCP, one connection at a
time) → service manager, audit log, agent status, device registry (shared state
behind mutexes, all used by the one loop thread). `agent.execute` calls the
executor, which is itself a client of a control port. The update agent is a
process of its own that shares the disk with a fetcher. The agent daemon holds its
whole state behind one mutex. In the graphical shell the UI loop, one thread per
surface connection and the application processes share the window manager and the
table of sockets behind two locks.

## 2. How the project is organised

Each component has a module of its own. ServiceManager and AgentTasks are large and
have a run each. Of the others, those that share no state are put side by side in three
modules, each checked by one run: a behaviour picks a part (variable `part`) and runs
it while the others keep their initial values, so the state spaces add up.

| Composition | Parts |
|---|---|
| `SystemLayer` | DependencyGraph, ControlDaemon, UpdateAgent |
| `Shell` | Desktop, Workspaces |
| `Platform` | AgentMemory, PlanExecution, Devices, RemoteDelivery, Supervision, BackgroundAgent, AppStore, VoiceSession, AgentDaemon |

A composition extends its parts, so that the properties its run checks are the very
definitions the theorems are about. Components that do share state are composed where
they meet: ControlDaemon over AuditChain, AgentTasks over TaskGraph, AgentDaemon over
AgentHost, Desktop over WindowManager and Applications. The `MC` modules of single
components give the constants their values; the runs that expect a violation use
them, or the component's module itself. `ActionConsent` is an abstract specification,
which `AgentDaemon` implements.

Proofs are kept apart from the modules they are about, several components to a
proof module: `OrderProofs` (DependencyGraph, RemoteDelivery, Devices),
`ServiceProofs` (ServiceManager, Supervision), `ProcedureProofs` (UpdateAgent,
PlanExecution, BackgroundAgent), `AgentDaemonProofs` (AgentDaemon, AgentMemory),
`AgentTasksProofs` (TaskGraph, AgentTasks), `RecordProofs` (AuditChain and
ControlDaemon, AppStore, VoiceSession), `WindowManagerProofs` (WindowManager,
Workspaces) and `DesktopProofs` (Applications, Desktop).

## 3. Modules

**StartOrder** defines what a start order is; both following modules use it.

**DependencyGraph** (`graph.rs`) is `DependencyGraph::new` with one action per
iteration of the sorting loop: the two early errors (`RejectDuplicate`,
`RejectMissing`), `Prepare` for in-degrees and queue, `PopFront` for an iteration,
`Finish` for the order or the cycle error. Service ids are naturals because their
order breaks ties.

**ServiceManager** (`manager.rs`, and the start/stop/restart requests of
`main.rs`). `svc` holds the `ManagedService` records; `op` is the loop in
progress, so that processes may die and visits may fail between any two
services. The executor is an arbitrary choice of success and failure. `stop_err`
and `auto` are history variables for the properties. `stop_one` takes the handle
before it calls the executor, as in the code: a failed stop leaves a service
recorded Running without a handle. Its assumption `OrderAssumption` on the
constant `Order` is what theorem `AcceptedIsSorted` of the graph establishes.

**UpdateAgent** (`aether-update-agent/src/lib.rs`, `disk_engine.rs`,
`bin/agentd.rs`, `aether-update-core/src/state.rs`, `aether-retry-policy`). Files
are variables whose values are images, `Damaged`, `Torn` or `Missing`. `apply`
and the daemon's own loop drive the same steps in their different orders. A step
succeeds, or fails with no effect, or fails leaving a torn copy; a crash loses
the in-memory status and keeps the disk. The `policy` variable is chosen
initially among the retry tables a run offers. The `agentd` binary still
instantiates `NullApplyEngine`; the model drives the disk engine through its
loop, as its comments announce. Left out: attempt counter, history, audit lines.

**AuditChain** (`audit.rs`) holds the log's operations as operators over an
abstract hash; **ControlDaemon** (`main.rs`, `policy.rs`) is the loop:
`Connect`, `Request` (`gate`, handler, `record_audit`), `Disconnect`, where a
shutdown takes effect. `hist` (all that was ever recorded) and `broken` (an eviction
has cut the chain since it was last written anew) are history variables. `Commands` has one command for each class the gate and the
audit tell apart. A shutdown line sets the stop flag when it is read. What a
service request does is nondeterministic here since ServiceManager covers it; the
daemon's executor never fails to stop. `MaxEntries` is not 0: the code panics there
at the first record although the doc of the field calls 0 unbounded (section 8); the
daemon uses 4096.

**TaskGraph** (`task.rs`) holds insertion with its three checks and removal. The
live tasks are a set, since the code keeps them by id and no operation depends on
their order; a task transitively depends on an id if the id is in every set of ids
that holds its dependencies and, with a live task, the dependencies of that task
(`ClosedSets`), which is what the code's search with its visited list finds.
**AgentTasks** (`agent.*` handlers of `main.rs`, `AgentStatus`, the executor)
composes it with the daemon's loop. `executing` is the task in the handler's
hands; while there is one no other request is served (`LoopIsFree`). A request
of the executor goes to the daemon's own port, the default, or to another one.
On its own port it joins `backlog` and times out; `ServeQueued` performs it when
the loop is free. On another port action and answer may each be missing. A task
is abstracted to what `task_to_action` and `recovery_policy_for` make of it:
a changing action, a reading one, one answered locally, or none. Tasks carry an
insertion number, because ids are used again. `InsertTask` is the public
`insert_task` with dependencies, which the repository reserves for its runtime;
tasks made by `agent.approve` have none. Left out: read-only views, dry runs,
malformed requests (all without effect), and the effects of the actions.

**ActionConsent** is what the runtime host promises about actions: submitted, run,
parked, granted or dropped, and sessions that close for good. **AgentHost**
(`host.rs`, `session.rs`, `approval.rs`, `validator.rs`) has one action per
operation of the host; **AgentDaemon** (`aether-agentd/lib.rs`) offers them as
requests in any order, with ids the client may have kept from before a
cancellation, an eviction or a restart. `status`, `closed` and `high` read the fate
of every action off the tables; with them `Promise == INSTANCE ActionConsent` is
the refinement. Swallowed refusals (`advance_session(..).ok()`) are kept: a
rejected action leaves its session in Planning for ever. The creation time of an
approval never decreases, that is, the host's clock is not set back; ties are
broken either way, as a hash map does. `emitted` is a history of the events the host
emitted about each action. It is not the audit ring: that forgets its oldest events,
and `agent.memory.load` replaces it by a saved one (`agentd/lib.rs:1503-1505`,
`host.rs:905-914`, `audit.rs:143-156` of the runtime), so the ring may lack the request
of an approval just granted, or hold one answered in another life of the process. No
handler decides on it, which is why its contents are no variable and the properties
speak of what was emitted. Of the daemon's requests, flush and load of the memory are
AgentMemory and the chat's plans are PlanExecution. Left out: the progress line and
the read-only queries.

**WindowManager** (`aether-wm`) holds the calls on windows, stack, focus and
workspaces as operators over one record. **Workspaces** drives them in any order.
**Applications** (`aether-application-manager`) is the launch, reap and close
of processes. **Desktop** composes the three with the threads of the graphical
shell: a process connects and writes its one register line, its connection thread
creates the window, then registers its socket; the UI loop takes the window-manager
lock, sends Close over the socket; a process may end at any moment. **DesktopKeys** is the same with printable keys.

**AgentMemory** (`memory_store.rs`, `lib.rs`) writes each surface to a temporary
file and renames it, with errors and crashes at each point. **PlanExecution**
(`planner.rs`, `recovery.rs`, `confirmation.rs`, `intent.rs`) runs a plan of
capabilities step by step. An attempt at a window operation is up to two calls, to the
control plane and, when that does not answer ok, to the surface server (`route`); each
call takes effect or not, answers or not, and fails in one of the three kinds the retry
decision tells apart. `MaxEffects` is the most often a step can take effect. **Devices** (`device.*`
handlers, `registry.rs`, `pairing.rs`) has handlers that run one at a time while
acceptances from peers arrive late and outlive what they answer. **RemoteDelivery** (`aether-device-runtime`,
`remote.rs`) puts a network that loses, repeats and reorders in front of the
acceptance test; the peer has one counter for both kinds of message and a clock that
may be ahead of ours. **Supervision** (`aether-supervisor`) is the loop over one child;
every exit is a failure, since `main.rs` passes each one to `decide` as such,
whatever its status, and a launch that fails leaves no child. **BackgroundAgent** (`aether-background-agent`, `aether-diagnostics`,
`aether-automation`, `aether-recovery`) is one tick at a time, with two threshold rules
and the correlation rule of the default table, under a clock that advances by any
amount and may be set back. **AppStore** (`aether-store`) keeps three
files per application; a write that fails or is cut off leaves the old file or an
unreadable one; `removed` remembers what was uninstalled. **VoiceSession** (`aether-voice`, `aether-stt`, `aether-tts`) names
audio by the wake it follows, so that a stale recording is visible in a reply.
**Platform** puts these parts side by side.

Definitions commented "Mutant" are plausible mistakes; each property was seen to
fail when the definition after it is replaced by its mutant.

## 4. Runs

| Passing run | Distinct states | Shows |
|---|---|---|
| `service_manager` | 2,019,248 | over three services: `start_all` is never blocked by its own order, dependents stop first, nothing is left running unreported, automatic restarts are bounded |
| `system_layer` | 483,853 | over all lists of three manifests: the bookkeeping of the sort is exact (`DgIndInv`), accepted lists are sorted, reported cycles are real, ties go by priority; over the daemon's loop: the log is a gapless tail of what was recorded, verification fails exactly after an eviction, a prune cuts right before the first young entry, an ended daemon has stopped its services; of updates: verified bytes only, Done and RolledBack mean what they say, the replaced image is in the snapshot, every drive ends |
| `agent_tasks` | 595,728 | acyclic task graph, every task in exactly one place, no changing action twice, a proposal is lost only to a task in its way, executions end |
| `shell` | 389,241 | no orphan windows, focus on the topmost window, one process per application; window tables agree under every order of calls |
| `platform` | 246,423 | the last save is readable; plan reports are true; paired means begun; deliveries of a kind in order; restarts as promised; the background agent acts once; the store lists and launches one finished install; replies in order; the agent host's tables agree (`IndInv`), parked actions belong to sessions that wait for them, an approval is answered once, and the daemon implements ActionConsent (`Consent`) |

| Run that expects a violation | Property | Shows |
|---|---|---|
| `service_manager_rollback` | `RolledBack` | a failed `start_all` says it rolled back all services while one whose stop failed is still recorded Running |
| `update_fallback` | `DoneMeansInstalled` | with a fallback for Verify `apply` installs a damaged payload and reports Done |
| `agent_late_action` | `FailedIsNotPerformed` | a task recorded Failed is performed afterwards by the loop that was waiting for itself |
| `desktop_keys` | `KeyIsDelivered` | the loop that takes a key locks the window manager while it still holds it, and no key is delivered any more |
| `remote_order` | `InOrderPerPeer` | a proposal that an observation of the same peer has overtaken is taken after it |
| `supervisor_stalls` | `KeptAlive` | after a launch that fails the supervisor neither launches again nor gives up |
| `store_uninstall` | `UninstalledStaysGone` | an uninstalled application is listed again after a restart |

Each of the seven is described, with the text it contradicts, under `findings`. Six
more findings have no run of their own: there a passing property states what the code
does, and the finding quotes the text that says something else. They are eviction in
the audit log (`VerifyTellsEviction`), the head that is expired (`PruneCutsAtFirstYoung`),
retries of mutating capabilities (`PlanReportIsTrue`), acceptances that are not tied to
their begin (`PairedMeansBegun`), proposals that are gone although their approval
failed (`ApprovalIsAnswered`), and install records that cannot be read (`StoreIsTrue`).

## 5. Bounds

- Graph: three services give cycles of length 1 to 3, diamonds' edges, repeated
  entries; a fourth id is never defined.
- Service manager: three services, three process ids (symmetric), `CountMax` 1 so
  that counters saturate, limits 0 and 1.
- Update agent: two plans for one target, so that staging files and snapshots of
  an earlier drive are met by a later one; breaker at 2.
- Control daemon: a cap of two entries, four records, three clock readings:
  evictions, prunings of nothing, of part and of all, and clocks that go back.
- Agent tasks: two ids and three insertions are the least that can close a circle
  (insert a, insert b after a, remove a, insert a after b). One retry, a backlog
  of two, history and observation limits of one, so that every limit is met.
- Agent daemon: three sessions and three actions over a table of two parked ones:
  the third parked action evicts one, and every answer may come before or after.
- Shell: one application with two instances and one window being closed; two windows
  on three workspaces.
- Platform: plans of three steps; three devices for a registry of two; two messages
  of a peer before and after its restart, its clock up to one unit ahead; restart
  limits up to eight, past the point where the delay reaches its maximum; a signal
  log of two; three installs, so that a third meets the files of two before it;
  three wakes.

Deadlock is checked in `service_manager`, `system_layer`, `agent_tasks` and the
violation runs of their components; a control daemon that has ended stays as it is (`Ended`). `CHECK_DEADLOCK
FALSE` is used where the system or its bounded work may come to rest: the shell, the
platform, and the desktop with keys, remote deliveries, the supervisor and the store
on their own.

## 6. Fairness

- `WF_updVars(Drive)` in UpdateAgent, and the same of `Drive` in SystemLayer: the agent's thread goes on while it drives a
  plan; file operations return. Crashes and the fetcher are not fair.
- `WF_atVars(Attempt)` in AgentTasks: connect and read end, the read by its own
  time-out. Peers and the service of the backlog are not fair.
- `WF_deskVars(UiDeliver)` in DesktopKeys: the UI thread is scheduled and obtains a
  lock that is free. Only the UI loop itself keeps the lock across steps.
- `SupFairSpec` in Supervision: the supervisor's loop runs while its process lives, and
  its sleeps end. That a child exits is not fair.

No fairness is assumed in the other modules; their properties are safety.

## 7. Proofs

All theorems hold for all values of the constants that satisfy the stated
assumptions.

- **Start order** (OrderProofs). `DgIndInv` says that the in-degree of every service
  not yet placed counts exactly its dependency occurrences not yet placed, and
  that a service is in the queue iff its count is zero and it is not placed. It
  is inductive (`LoopIsExact`). At the end an order as long as the set of ids
  enumerates it (`AcceptedIsSorted`); otherwise every unplaced service waits for
  another unplaced one (`ReportedCycleIsReal`). So the answer is exact: a list that is
  accepted has a start order, and one refused for a missing or circular dependency has
  none (`VerdictIsExact`), since the first in such an order of the services that wait for
  each other would have a dependency behind it. For `TiesAreBrokenByPriority` the
  order and the queue behind it are looked at as one sequence (`Enqueued`), which is
  sorted by priority and id wherever dependencies are equal: a batch is sorted when
  it is appended, and a service it unlocks depends on the one just taken out, on
  which nothing queued before can depend. Assumptions: ids are naturals, inputs are
  sequences of manifests.
- **Service manager** (ServiceProofs). `StartAllUnblocked` is not inductive: it needs that
  all services visited so far are Running, which needs that a Running record is
  only left by a step of another call. `SmIndInv` adds progress of the loop, the shape
  of its list, and the relation between restart counts. Consequences:
  `WellFormed`, `StartAllIsUnblocked`, `StopIsDependentsFirst`, `StopIsComplete`,
  `RestartsAreBounded`. Assumptions: `Order` is a start order, limits at most
  `CountMax`, `NoHandle` is no process.
- **Updates** (ProcedureProofs). `UpdIndInv` relates, for each position of a drive, the files
  to the plan: after Verify the verified file holds the plan's image, after Stage
  the staged file does, after Snapshot the snapshot holds what the drive found.
  It is inductive under failures, torn copies, crashes, retries and breaker
  resets (`UpdateInvariant`); `OnlyVerifiedInstalled`, `DoneIsInstalled`,
  `FailureKeepsActive` and `PreviousIsKept` follow. They assume `SafeFallbacks`,
  that only Download may have a fallback; run `update_fallback` shows that it is needed.
- **Agent host** (AgentDaemonProofs). `ApprovalsMatchSessions` and `OneAnswer` are not inductive:
  that a parked action's session is not given another one needs that a session
  which was given an action never returns to Created or Ready, and that a denial
  does not meet a grant needs that what is parked has not been answered. `IndInv`
  adds these facts (`Fates`). Events are those the host emitted, not those a loaded ring
  holds, so the theorems stand whatever `agent.memory.load` brings back; it is inductive under every request, stop and
  restart (`HostInvariant`), for any number of sessions and actions and any bound
  of the table. From it follow `ParkedIsAwaited`, `AnsweredOnce`, and, step by step
  (a request is a step of ActionConsent or none), the refinement
  `DaemonKeepsConsent`. Assumptions: ids are numbers, the table has room for one.
- **Windows** (WindowManagerProofs). `WmInv` says of one manager, window by window and list by
  list, what `WindowTablesAgree` counts: the stack and each workspace list are
  injective, the stack holds exactly the windows, a window is on the list of the
  workspace it names and on no other, and the focused window can be seen. It adds
  that ids are below `next_id` and that workspace 0 exists, which moving windows off
  a destroyed workspace needs. One lemma per call; theorem `TablesStayInStep`, for
  any number of windows and workspaces. What `Vec::retain` returns is proved by the
  least counterexample. Since only `create` gives out an id, one above all those before
  (`StepIsFresh`), the id of a closed window never names another (`ClosedIdsStayClosed`).
- **Desktop** (DesktopProofs). `DeskInv` has one part per owner of state. `DeskWm` adds to `WmInv`
  that the focus is on the topmost window that shows, the only one with the flag, and
  that only minimized windows are hidden, as the shell has one workspace. `AppInv`: a
  live process has a record that says Running. `ShellInv`: every window was registered
  by some instance, and the removal of a window whose owner is gone or was told to close
  is in the channel or in a client's hands. Theorems `FocusStaysOnTop`,
  `LaunchedOnce`, `WindowsAreOwned`, for any applications, instances and bounds.
- **Tasks** (AgentTasksProofs). That an insertion closes no circle is `NoTaskCycle` for the set
  that holds the new task: if a circle went through it, the new id would be reached
  from one of its own dependencies, which `insert` refuses. `NoRepeatedAction` is
  not inductive, since a request that waits in the backlog may still be served:
  `SpentIsBounded` counts what a task's requests did and what those that wait may still
  do, and bounds both by the attempts made. `InOnePlace` and `HistoryIsEnd` are the two
  halves of `EveryTaskOnce`. Theorems `TasksStayAcyclic`, `TasksAreKeptOnce`,
  `ActionsAreNotRepeated` and, of steps, `ApprovalsAreAnswered`. Assumptions: limits
  are numbers, those of the history and of the observations not 0.
- **Plans** (ProcedureProofs). `PlanReportIsTrue` needs to know where the plan stands:
  the steps before the one under way succeeded and took effect, those behind it are
  untouched, and it has itself taken effect at most once in each call, of which there
  are one or two to an attempt and as many attempts as policy and kind of failure leave
  (`PlanInv`). The bound on effects is `MaxEffects`, what the code does. Theorem `PlansReportTruly`, for plans of
  any length.
- **Memory** (AgentDaemonProofs). `MemInv` adds that between the write and the rename of a
  surface the temporary file holds what is in memory. Theorem `SavesStayReadable`.
- **Background** (ProcedureProofs). `BgInv` adds that the last firing was in a due minute and
  not before any other firing, and that the planned symptoms are those planned once.
  A tick's events are folded, so a lemma follows the fold event by event. Theorem
  `BackgroundActsOnce`. Assumption: a day has two minutes at least, else two firings in
  a row would be in the same minute of the day.
- **Control daemon** (RecordProofs). `LogInv` says of the chain what `broken` stands for:
  a cut chain is not empty and none of its indices is 0, so it fails whatever the
  hashes are; one not cut verifies. Pruning writes the chain anew, and cuts it right
  before the first young entry. Theorems `VerifyFailsAfterEviction`,
  `LogKeepsRecentHistory`, `EndStopsServices` and, of steps, `PruningCutsAtFirstYoung`, for
  every hash function. What a verified log is worth is `LastHashPinsTheLog`: two logs that
  verify and end in the same hash have the same length and entries, unless two of the
  entries collide; from the last entry backwards, each hash fixes its entry and so the
  hash before it. Assumptions: clock readings are numbers and there is one, the cap is
  not 0.
- **Deliveries** (OrderProofs). `RemoteInv` adds the types to `DeliveredInOrder`, which
  says of each kind that its last number bounds every number taken; stamps may be ahead
  of the clock, and the age test saturates at 0 (`Saturating`). Theorem `PeerMessagesInOrder`, for any
  skew window and any traffic.
- **Store** (RecordProofs). `StoreInv` adds that a receipt on disk is one of a finished
  install, since it is the last file written, that nothing is listed while an
  install writes, and that what is listed is what the files say. Theorem
  `StoreStaysTrue`.
- **Voice** (RecordProofs). `VoiceInv` adds that recording, result and pending reply
  stem from the last wake, and that no reply to it is queued before its own.
  Theorem `RepliesStayInOrder`, for any number of wakes.
- **Supervisor** (ServiceProofs). `SupInv` adds that the delay used last is not above the
  next one, which rests on a lemma that doubling up to a cap never shrinks. Theorem
  `RestartsKeepThePromise`. Assumption: the least delay is not above the greatest.
- **Devices** (OrderProofs). `DevInv` adds that a pairing under way was begun. Theorem
  `PairedWasBegun`. Assumption: finitely many devices.

Every safety property the passing runs check has a theorem. Only model-checked are
the liveness properties `DriveEnds` and `ExecutionEnds` (liveness under fairness and
ENABLED are beyond the proof system), and the seven violations, which TLC shows by a
behaviour.

## 8. Not modelled

Most of the repository's lines are pure functions, data and text: sandbox
translation, signature checks, AI-defence classifiers, vision, rendering, widgets,
design tokens, prompts and their parsing, intent matching, capability and recipe
tables, JSON of requests and answers, command-line tools, SDKs and scripts. They
have no transitions to check, so the share of lines behind the definitions stays
small although the state machines among them are covered. The Python brain and
language models are external; what they answer is a free choice in PlanExecution and
AgentDaemon.

Tables with single-entry operations and one caller at a time (storage, credentials,
network snapshot, hardware registry) are left out too: each operation is one check
and one call. The device transport is a trait with in-memory backends.

The doc of `max_entries` (`audit.rs:110`) says "`0` means unbounded" and the code panics
there at the first record. The assumption on `MaxEntries` leaves this case out; it is
listed as a hazard.

Behaviours met while modelling that no property states, because no text we know of
promises otherwise:

- `start_one` on a running service replaces its handle; the first process is lost
  to the manager.
- A connection that stays open holds up every other one.
- `ipc_request` does not look at the answer's `ok`: a refused request is Done.
- A tick between the wake and the first loud buffer returns a voice session to
  listening; a reply that cannot be synthesised keeps it in Speaking.

`PROJECT.json` gives the reason for each component.
