---------------------------- MODULE AgentDaemon ----------------------------
(***************************************************************************)
(* The request surface of the agent daemon over the runtime host           *)
(* (services/aether-agentd/src/lib.rs, handle_request).  One mutex guards  *)
(* the whole state, so a request is one action.  Requests of any client    *)
(* may come in any order, for sessions and approvals the client no longer  *)
(* has a current view of.  The progress line shown to the user is left     *)
(* out; the chat runs its plans past the host and is PlanExecution; the    *)
(* requests agent.memory.flush and agent.memory.load touch the memory, the *)
(* conversation and the audit ring, none of the host's tables, and are     *)
(* AgentMemory.                                                            *)
(***************************************************************************)
EXTENDS AgentHost

CONSTANT Risks          \* the risk levels submitted actions may have

ASSUME RisksAssumption == Risks \subseteq ActionRisk

adVars == hostVars

AdInit == HostInit

-----------------------------------------------------------------------------
SessionCreate == \E s \in Sessions : create_session(s)

SessionCancel == \E s \in Sessions : cancel_session(s)

\* agent.intent: submit_action and its outcomes.
Intent == \E s \in Sessions :
    \/ submit_refused(s)
    \/ \E a \in Actions, r \in Risks :
          \/ submit_invalid(s, a, r)
          \/ submit_parked(s, a, r)
          \/ \E ok \in BOOLEAN : submit_executed(s, a, r, ok)

ApprovalGrant == \E p \in pending_approvals :
    \/ \E ok \in BOOLEAN : approve_request(p, ok)
    \/ approve_too_late(p)

ApprovalDeny == \E p \in pending_approvals : deny_request(p)

ActionCancel == \E s \in Sessions, a \in Actions : cancel_action(s, a)

AdNext == \/ SessionCreate \/ SessionCancel \/ Intent \/ ApprovalGrant \/ ApprovalDeny
          \/ ActionCancel \/ stop \/ restart

AdSpec == AdInit /\ [][AdNext]_adVars

-----------------------------------------------------------------------------
(* Properties *)

(* The type invariant of the host. *)
TypeOK ==
    /\ state \in HostState
    /\ sessions \in [Sessions -> SessionState]
    /\ pending_approvals \subseteq [action: Actions, session: Sessions, created_at: Nat]
    /\ tokens \in [Sessions -> SUBSET Actions]
    /\ owner \in [Actions -> Sessions \cup {NoSession}]
    /\ risk \in [Actions -> ActionRisk]
    /\ runs \in [Actions -> Nat]
    /\ emitted \in [Actions -> SUBSET AuditEvents]

(* Whatever a client does with a stale list of approvals, a parked action   *)
(* is one that needs consent and has not run, it is parked once, and its    *)
(* session is waiting for it or was cancelled meanwhile.  A session that    *)
(* waits without a parked action is one whose approval was evicted, and the *)
(* table never exceeds its bound, cancelled sessions' entries included.     *)
ApprovalsMatchSessions ==
    /\ Cardinality(pending_approvals) <= max_pending_approvals
    /\ \A p \in pending_approvals :
          /\ owner[p.action] = p.session
          /\ requires_confirmation(risk[p.action])
          /\ runs[p.action] = 0
          /\ sessions[p.session] \in {"WaitingApproval", "Cancelled"}
          /\ \A q \in pending_approvals : q.session = p.session => q = p
    /\ \A a \in Actions :
          owner[a] \in Known /\ sessions[owner[a]] = "WaitingApproval" =>
              \/ \E p \in pending_approvals : p.action = a
              \/ "ApprovalDenied" \in emitted[a]

(* An approval is answered once: across restarts the host never emits both  *)
(* a grant and a denial (an eviction included) of one action, an action of  *)
(* high risk that reached the executor had its request and its grant        *)
(* emitted, and every cancellation token the host keeps belongs to an       *)
(* action that is already over, in a session that is over.                  *)
OneAnswer ==
    /\ \A a \in Actions :
          /\ ~({"ApprovalGranted", "ApprovalDenied"} \subseteq emitted[a])
          /\ requires_confirmation(risk[a]) /\ "ActionRequested" \in emitted[a] =>
                {"ApprovalRequested", "ApprovalGranted"} \subseteq emitted[a]
    /\ \A s \in Sessions : \A a \in tokens[s] :
          owner[a] = s /\ runs[a] = 1 /\ is_terminal(sessions[s])

\* What the two properties rest on: an action parked has been requested and not
\* answered, one not submitted has left no trace, and a session that was given
\* an action is never again one that takes one.
Fates ==
    /\ IsFiniteSet(pending_approvals)
    /\ \A p \in pending_approvals :
          /\ "ApprovalRequested" \in emitted[p.action]
          /\ "ApprovalGranted" \notin emitted[p.action]
          /\ "ApprovalDenied" \notin emitted[p.action]
    /\ \A a \in Actions :
          /\ runs[a] \in {0, 1}
          /\ owner[a] = NoSession => runs[a] = 0 /\ emitted[a] = {}
          /\ owner[a] # NoSession => sessions[owner[a]] \notin {"None", "Created", "Ready"}

(* The inductive invariant of the host: each of its requests, in whatever   *)
(* order they come, keeps the tables of sessions, parked actions, tokens    *)
(* and audit events in agreement with each other.                           *)
IndInv == TypeOK /\ ApprovalsMatchSessions /\ OneAnswer /\ Fates

-----------------------------------------------------------------------------
(* What the host promises: the actions' fates read off its tables. *)

status == [a \in Actions |->
              IF runs[a] = 1 THEN "executed"
              ELSE IF runs[a] > 1 THEN "repeated"
              ELSE IF \E p \in pending_approvals : p.action = a THEN "parked"
              ELSE IF owner[a] = NoSession THEN "new" ELSE "dropped"]
closed == {s \in Sessions : is_terminal(sessions[s]) \/ sessions[s] = "Forgotten"}
high == {a \in Actions : owner[a] # NoSession /\ requires_confirmation(risk[a])}

Promise == INSTANCE ActionConsent
    WITH closed <- closed, owner <- owner, high <- high, status <- status

(* The daemon implements ActionConsent: through cancellations, evictions,   *)
(* late grants, stops and restarts no action of high risk runs without the  *)
(* grant of its own approval, nothing runs for a session that is over, and  *)
(* nothing runs twice.                                                      *)
Consent == Promise!Spec
=============================================================================
