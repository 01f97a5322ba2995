----------------------------- MODULE AgentHost -----------------------------
(***************************************************************************)
(* The agent runtime host: sessions with their state machine, the table of *)
(* actions parked for the user's approval, and the executor                *)
(* (agent/aether-agent-runtime/src/host.rs, session.rs, approval.rs,       *)
(* validator.rs).  Every operation runs to its end under the daemon's lock *)
(* and is one action here.                                                 *)
(*                                                                         *)
(* Sessions are named by their ordinal and actions by the order in which   *)
(* they are submitted; both ids are fresh uuids in the code.  `sessions`   *)
(* holds the states of the host's table: "None" is a session that does not *)
(* exist yet, "Forgotten" one that was lost with a restarted process.      *)
(*                                                                         *)
(* `emitted` is a history of what emit_audit recorded about approvals and  *)
(* the starts of executions.  The ring in which the host keeps the recent  *)
(* events is not a variable: nothing here reads it, it forgets its oldest  *)
(* events, and agent.memory.load replaces it by a saved one                *)
(* (restore_recent), so it may lack the request of a granted approval.     *)
(* What is saved and loaded is AgentMemory.                                *)
(***************************************************************************)
EXTENDS Integers, FiniteSets

CONSTANTS Sessions,               \* session ordinals
          Actions,                \* action ids
          NoSession,              \* the owner of an action not yet submitted
          max_sessions,
          max_pending_approvals

ASSUME HostAssumption == /\ Sessions \subseteq Nat /\ Actions \subseteq Nat
                         /\ NoSession \notin Sessions
                         /\ max_sessions \in Nat /\ max_pending_approvals \in Nat \ {0}

VARIABLES state,                  \* HostState
          sessions,               \* session -> SessionState
          pending_approvals,      \* the parked actions
          tokens,                 \* session -> actions with a cancellation token
          owner,                  \* action -> the session it was submitted for
          risk,                   \* action -> its risk level
          runs,                   \* action -> how often the executor ran it
          emitted                 \* action -> the AuditEvents ever emitted about it

hostVars == <<state, sessions, pending_approvals, tokens, owner, risk, runs, emitted>>

HostState == {"Ready", "Running", "Stopping", "Stopped"}
SessionState == {"None", "Created", "Ready", "Thinking", "Planning", "WaitingApproval",
                 "Executing", "Observing", "Completed", "Failed", "Cancelled", "Forgotten"}
ActionRisk == {"Low", "Medium", "High", "Critical"}
AuditEvents == {"ApprovalRequested", "ApprovalGranted", "ApprovalDenied", "ActionRequested"}
Refused == "Refused"

is_terminal(s) == s \in {"Completed", "Failed", "Cancelled"}

can_transition_to(s, next) ==
    <<s, next>> \in {<<"Created", "Ready">>, <<"Ready", "Thinking">>,
                     <<"Thinking", "Planning">>, <<"Planning", "Executing">>,
                     <<"Planning", "WaitingApproval">>, <<"WaitingApproval", "Executing">>,
                     <<"WaitingApproval", "Cancelled">>, <<"Executing", "Observing">>,
                     <<"Executing", "Failed">>, <<"Observing", "Completed">>,
                     <<"Observing", "Thinking">>, <<"Observing", "Failed">>}

\* The state a session moves to, or Refused.
advance_session(s, next) ==
    IF is_terminal(s) THEN Refused
    ELSE IF s = next \/ can_transition_to(s, next) THEN next
    ELSE Refused

\* `advance_session(..).ok()`: a refused transition is swallowed.
advance_or_stay(s, next) ==
    IF advance_session(s, next) = Refused THEN s ELSE advance_session(s, next)

advance_session_if_not(s, next) ==
    IF s = next \/ is_terminal(s) THEN s ELSE advance_session(s, next)

is_accepting == state \in {"Ready", "Running"}

transition_state(from, to) ==
    <<from, to>> \in {<<"Ready", "Running">>, <<"Running", "Stopping">>,
                      <<"Stopping", "Stopped">>}

Known == {s \in Sessions : sessions[s] \notin {"None", "Forgotten"}}
Unsubmitted == {a \in Actions : owner[a] = NoSession}

\* What validate decides from the risk; whether the fields, capabilities and
\* policy of an action pass is a free choice (submit_invalid).
requires_confirmation(r) == r \in {"High", "Critical"}

HostInit == /\ state = "Ready"
            /\ sessions = [s \in Sessions |-> "None"]
            /\ pending_approvals = {}
            /\ tokens = [s \in Sessions |-> {}]
            /\ owner = [a \in Actions |-> NoSession]
            /\ risk = [a \in Actions |-> "Low"]
            /\ runs = [a \in Actions |-> 0]
            /\ emitted = [a \in Actions |-> {}]

-----------------------------------------------------------------------------
(* Sessions *)

\* Every session ever created counts against the bound.
has_room == Cardinality(Known) < max_sessions

create_session(s) ==
    /\ is_accepting
    /\ has_room
    /\ sessions[s] = "None"
    /\ \A t \in Sessions : sessions[t] = "None" => s <= t
    /\ sessions' = [sessions EXCEPT ![s] = advance_session("Created", "Ready")]
    /\ state' = "Running"
    /\ UNCHANGED <<pending_approvals, tokens, owner, risk, runs, emitted>>

\* The table after cancel_session(s): tokens drained, unless terminal Cancelled.
cancelled(s) == IF is_terminal(sessions[s]) THEN sessions[s] ELSE "Cancelled"

cancel_session(s) ==
    /\ s \in Known
    /\ tokens' = [tokens EXCEPT ![s] = {}]
    /\ sessions' = [sessions EXCEPT ![s] = cancelled(s)]
    /\ UNCHANGED <<state, pending_approvals, owner, risk, runs, emitted>>

-----------------------------------------------------------------------------
(* Actions *)

\* The state of the session once the submitted action is about to be validated.
planning(s) ==
    advance_session(
        advance_session(advance_session_if_not(sessions[s], "Ready"), "Thinking"), "Planning")

\* What submit_action needs before it looks at the action, and what it records.
submitted(s, a, r) ==
    /\ is_accepting
    /\ s \in Known
    /\ planning(s) # Refused
    /\ a \in Unsubmitted
    /\ \A b \in Unsubmitted : a <= b
    /\ owner' = [owner EXCEPT ![a] = s]
    /\ risk' = [risk EXCEPT ![a] = r]

\* Submission refused before anything happened: the host is not accepting or
\* the session has left Ready.
submit_refused(s) ==
    /\ s \in Sessions
    /\ ~is_accepting \/ s \notin Known \/ planning(s) = Refused
    /\ UNCHANGED hostVars

\* The validator rejects the action.  Planning -> Failed is not a transition of
\* the session, and the refusal is swallowed.
submit_invalid(s, a, r) ==
    /\ submitted(s, a, r)
    /\ sessions' = [sessions EXCEPT ![s] = advance_or_stay(planning(s), "Failed")]
    /\ UNCHANGED <<state, pending_approvals, tokens, runs, emitted>>

\* The approvals evict_oldest_pending_approval may pick: the clock counts
\* milliseconds and the table is a hash map, so ties go either way.
oldest(P) == {p \in P : \A q \in P : p.created_at <= q.created_at}

(* Mutant: the table is one over its bound. *)
EvictLate ==
    IF Cardinality(pending_approvals) > max_pending_approvals
    THEN {pending_approvals \ {p} : p \in oldest(pending_approvals)}
    ELSE {pending_approvals}

\* The parked actions once there is room for one more.
after_eviction ==
    IF Cardinality(pending_approvals) >= max_pending_approvals
    THEN {pending_approvals \ {p} : p \in oldest(pending_approvals)}
    ELSE {pending_approvals}

\* The creation time of a new approval: that of the newest, or later.  Only the
\* order of the times matters.
now_ms == LET newest == {p \in pending_approvals :
                            \A q \in pending_approvals : q.created_at <= p.created_at}
          IN IF newest = {} THEN {0}
             ELSE UNION {{p.created_at, p.created_at + 1} : p \in newest}

\* A valid action of high risk is parked.
submit_parked(s, a, r) ==
    /\ submitted(s, a, r)
    /\ requires_confirmation(r)
    /\ sessions' = [sessions EXCEPT ![s] = advance_session(planning(s), "WaitingApproval")]
    /\ \E kept \in after_eviction, now \in now_ms :
          /\ pending_approvals' = kept \cup {[action |-> a, session |-> s, created_at |-> now]}
          /\ emitted' = [b \in Actions |->
                          IF b = a THEN emitted[b] \cup {"ApprovalRequested"}
                          ELSE IF \E p \in pending_approvals \ kept : p.action = b
                          THEN emitted[b] \cup {"ApprovalDenied"}
                          ELSE emitted[b]]
    /\ UNCHANGED <<state, tokens, runs>>

(* Mutant: a session that observed its action is made ready for the next. *)
ReadyAgain(s, ok) ==
    IF ok THEN "Ready"
    ELSE advance_session(advance_session(s, "Executing"), "Failed")

\* The state a session ends in after its action ran; ok is FALSE when the
\* executor returned an error.
after_execution(s, ok) ==
    IF ok THEN advance_session(advance_session(advance_session(s, "Executing"),
                                               "Observing"), "Completed")
    ELSE advance_session(advance_session(s, "Executing"), "Failed")

(* Mutant: the session is not asked whether it may execute. *)
ExecuteAnyway(s, st, a, ok) ==
    /\ sessions' = [sessions EXCEPT ![s] = after_execution(st, ok)]
    /\ tokens' = [tokens EXCEPT ![s] = @ \cup {a}]
    /\ runs' = [runs EXCEPT ![a] = @ + 1]
    /\ UNCHANGED state

\* The executor runs action a of session s, whose state is st.
execute_validated_action(s, st, a, ok) ==
    /\ advance_session(st, "Executing") # Refused
    /\ sessions' = [sessions EXCEPT ![s] = after_execution(st, ok)]
    /\ tokens' = [tokens EXCEPT ![s] = @ \cup {a}]
    /\ runs' = [runs EXCEPT ![a] = @ + 1]
    /\ UNCHANGED state

\* A valid action of low or medium risk is run at once.
submit_executed(s, a, r, ok) ==
    /\ submitted(s, a, r)
    /\ ~requires_confirmation(r)
    /\ execute_validated_action(s, planning(s), a, ok)
    /\ emitted' = [emitted EXCEPT ![a] = @ \cup {"ActionRequested"}]
    /\ UNCHANGED pending_approvals

-----------------------------------------------------------------------------
(* Approvals *)

\* The grant removes the parked action and runs it ...
approve_request(p, ok) ==
    /\ p \in pending_approvals
    /\ pending_approvals' = pending_approvals \ {p}
    /\ execute_validated_action(p.session, sessions[p.session], p.action, ok)
    /\ emitted' = [emitted EXCEPT ![p.action] = @ \cup {"ApprovalGranted", "ActionRequested"}]
    /\ UNCHANGED <<owner, risk>>

\* ... unless its session can no longer execute: the parked action is gone and
\* the grant is an error.
approve_too_late(p) ==
    /\ p \in pending_approvals
    /\ advance_session(sessions[p.session], "Executing") = Refused
    /\ pending_approvals' = pending_approvals \ {p}
    /\ emitted' = [emitted EXCEPT ![p.action] = @ \cup {"ApprovalGranted"}]
    /\ UNCHANGED <<state, sessions, tokens, owner, risk, runs>>

(* Mutant: the denied action stays parked. *)
DenyKeepsParked(p) ==
    /\ p \in pending_approvals
    /\ sessions' = [sessions EXCEPT ![p.session] = advance_or_stay(@, "Cancelled")]
    /\ emitted' = [emitted EXCEPT ![p.action] = @ \cup {"ApprovalDenied"}]
    /\ UNCHANGED <<state, pending_approvals, tokens, owner, risk, runs>>

deny_request(p) ==
    /\ p \in pending_approvals
    /\ pending_approvals' = pending_approvals \ {p}
    /\ sessions' = [sessions EXCEPT ![p.session] = advance_or_stay(@, "Cancelled")]
    /\ emitted' = [emitted EXCEPT ![p.action] = @ \cup {"ApprovalDenied"}]
    /\ UNCHANGED <<state, tokens, owner, risk, runs>>

cancel_action(s, a) ==
    /\ s \in Known
    /\ a \in tokens[s]
    /\ tokens' = [tokens EXCEPT ![s] = @ \ {a}]
    /\ UNCHANGED <<state, sessions, pending_approvals, owner, risk, runs, emitted>>

-----------------------------------------------------------------------------
(* The host *)

\* Only a running host can be stopped.  Every session is cancelled; the parked
\* actions stay in their table.
stop == /\ transition_state(state, "Stopping")
        /\ state' = "Stopped"
        /\ sessions' = [s \in Sessions |-> IF s \in Known THEN cancelled(s) ELSE sessions[s]]
        /\ tokens' = [s \in Sessions |-> {}]
        /\ UNCHANGED <<pending_approvals, owner, risk, runs, emitted>>

\* The daemon process dies and is started again: a new host, nothing kept.
restart == /\ state' = "Ready"
           /\ sessions' = [s \in Sessions |-> IF sessions[s] = "None" THEN "None"
                                              ELSE "Forgotten"]
           /\ pending_approvals' = {}
           /\ tokens' = [s \in Sessions |-> {}]
           /\ UNCHANGED <<owner, risk, runs, emitted>>
=============================================================================
