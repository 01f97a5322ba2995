------------------------- MODULE AgentDaemonProofs --------------------------
(***************************************************************************)
(* Proofs about the agent daemon.  The host's tables agree under every     *)
(* sequence of requests, for any number of sessions and actions and any    *)
(* bound of the approval table, and the daemon implements ActionConsent    *)
(* (AgentDaemon); what the daemon has saved stays readable (AgentMemory).  *)
(***************************************************************************)
EXTENDS AgentDaemon, AgentMemory, FiniteSetTheorems, TLAPS

(* The transitions the requests rely on, and the ones they are refused:     *)
(* advance_session and its two variants.                                    *)
LEMMA Transitions ==
    /\ advance_session("Created", "Ready") = "Ready"
    /\ advance_session("Planning", "WaitingApproval") = "WaitingApproval"
    /\ advance_session("Planning", "Executing") = "Executing"
    /\ advance_session("WaitingApproval", "Executing") = "Executing"
    /\ advance_session("Executing", "Observing") = "Observing"
    /\ advance_session("Executing", "Failed") = "Failed"
    /\ advance_session("Observing", "Completed") = "Completed"
    /\ advance_session("Cancelled", "Executing") = Refused
    /\ advance_session("Planning", "Failed") = Refused
    /\ advance_session("WaitingApproval", "Cancelled") = "Cancelled"
    /\ advance_session("Cancelled", "Cancelled") = Refused
    /\ Refused \notin SessionState
BY DEF advance_session, can_transition_to, is_terminal, Refused, SessionState

(* A rejected action leaves its session in Planning; a denial cancels the   *)
(* waiting session and leaves a cancelled one as it is.                     *)
LEMMA Swallowed ==
    /\ advance_or_stay("Planning", "Failed") = "Planning"
    /\ advance_or_stay("WaitingApproval", "Cancelled") = "Cancelled"
    /\ advance_or_stay("Cancelled", "Cancelled") = "Cancelled"
BY Transitions DEF advance_or_stay, SessionState, Refused

(* An execution ends its session: after_execution.                          *)
LEMMA Executed ==
    ASSUME NEW st \in {"Planning", "WaitingApproval"}, NEW ok \in BOOLEAN
    PROVE  after_execution(st, ok) \in {"Completed", "Failed"}
<1>1. advance_session(st, "Executing") = "Executing"
  BY Transitions
<1>2. CASE ok
  BY Zenon, <1>1, <1>2, Transitions DEF after_execution
<1>3. CASE ~ ok
  BY Zenon, <1>1, <1>3, Transitions DEF after_execution
<1> QED BY <1>2, <1>3

(* An action is only taken up for a session that has had none: planning.    *)
LEMMA PlanningFromReady ==
    ASSUME NEW s \in Sessions, sessions[s] \in SessionState, planning(s) # Refused
    PROVE  sessions[s] \in {"Created", "Ready"} /\ planning(s) = "Planning"
<1> DEFINE st == advance_session_if_not(sessions[s], "Ready")
<1>1. advance_session(Refused, "Thinking") = Refused /\ advance_session(Refused, "Planning") = Refused
  BY Zenon DEF advance_session, can_transition_to, is_terminal, Refused
<1>2. sessions[s] \notin {"Created", "Ready"} => st = Refused \/ is_terminal(st)
  BY DEF advance_session_if_not, advance_session, can_transition_to, is_terminal, Refused, SessionState
<1>3. is_terminal(st) => advance_session(st, "Thinking") = Refused
  BY DEF advance_session
<1>4. sessions[s] \in {"Created", "Ready"}
  BY Zenon, <1>1, <1>2, <1>3 DEF planning
<1>5. st = "Ready"
  BY Zenon, <1>4, Transitions DEF advance_session_if_not, is_terminal
<1>6. /\ advance_session("Ready", "Thinking") = "Thinking"
      /\ advance_session("Thinking", "Planning") = "Planning"
  BY DEF advance_session, can_transition_to, is_terminal
<1> QED BY Zenon, <1>4, <1>5, <1>6 DEF planning

(* The table of parked actions has room for one more after the eviction,    *)
(* and the time of the new entry is a number: after_eviction, now_ms.       *)
LEMMA Eviction ==
    ASSUME IndInv, NEW kept \in after_eviction
    PROVE  /\ kept \subseteq pending_approvals
           /\ IsFiniteSet(kept)
           /\ Cardinality(kept) < max_pending_approvals
<1> USE HostAssumption
<1>0. /\ IsFiniteSet(pending_approvals)
      /\ Cardinality(pending_approvals) \in Nat
      /\ Cardinality(pending_approvals) <= max_pending_approvals
  BY FS_CardinalityType DEF IndInv, Fates, ApprovalsMatchSessions
<1>1. CASE Cardinality(pending_approvals) >= max_pending_approvals
  <2>1. PICK p \in oldest(pending_approvals) : kept = pending_approvals \ {p}
    BY <1>1 DEF after_eviction
  <2>2. p \in pending_approvals
    BY Zenon, <2>1 DEF oldest
  <2>3. IsFiniteSet(kept) /\ Cardinality(kept) = Cardinality(pending_approvals) - 1
    BY Zenon, <2>1, <2>2, <1>0, FS_RemoveElement
  <2> QED BY <2>1, <2>3, <1>0
<1>2. CASE ~ (Cardinality(pending_approvals) >= max_pending_approvals)
  BY <1>0, <1>2 DEF after_eviction
<1> QED BY Zenon, <1>1, <1>2

LEMMA NewTime ==
    ASSUME TypeOK
    PROVE  now_ms \subseteq Nat
BY DEF now_ms, TypeOK

(* An action that is taken up has left no trace, and its session has no     *)
(* other action, parked action or token: the first half of submit_action.   *)
LEMMA Fresh ==
    ASSUME IndInv, NEW s \in Sessions, NEW a \in Actions, NEW r \in Risks, submitted(s, a, r)
    PROVE  /\ sessions[s] \in {"Created", "Ready"} /\ planning(s) = "Planning"
           /\ owner[a] = NoSession /\ runs[a] = 0 /\ emitted[a] = {}
           /\ \A b \in Actions : owner[b] # s
           /\ \A p \in pending_approvals : p.action # a /\ p.session # s
           /\ tokens[s] = {}
           /\ \A t \in Sessions : a \notin tokens[t]
           /\ owner' = [owner EXCEPT ![a] = s] /\ risk' = [risk EXCEPT ![a] = r]
           /\ r \in ActionRisk
<1> USE HostAssumption DEF IndInv
<1>1. sessions[s] \in {"Created", "Ready"} /\ planning(s) = "Planning"
  BY Zenon, PlanningFromReady DEF submitted, TypeOK
<1>2. owner[a] = NoSession /\ runs[a] = 0 /\ emitted[a] = {}
  BY Zenon DEF submitted, Unsubmitted, Fates
<1>3. \A b \in Actions : owner[b] # s
  BY <1>1 DEF Fates
<1>4. \A p \in pending_approvals : p.action # a /\ p.session # s
  BY Zenon, <1>2, <1>3 DEF ApprovalsMatchSessions, TypeOK
<1>5. \A b \in tokens[s] : is_terminal(sessions[s])
  BY DEF OneAnswer
<1>6. tokens[s] = {}
  BY <1>1, <1>5 DEF is_terminal
<1>7. \A t \in Sessions : a \notin tokens[t]
  BY <1>2 DEF OneAnswer
<1> QED BY Zenon, <1>1, <1>2, <1>3, <1>4, <1>6, <1>7, RisksAssumption DEF submitted

LEMMA InitHolds == AdInit => IndInv
<1> SUFFICES ASSUME AdInit PROVE IndInv
  OBVIOUS
<1> USE HostAssumption DEF AdInit, HostInit
<1>1. TypeOK
  BY DEF TypeOK, HostState, SessionState, ActionRisk
<1>2. IsFiniteSet(pending_approvals) /\ Cardinality(pending_approvals) = 0
  BY Zenon, FS_EmptySet
<1>3. ApprovalsMatchSessions
  BY <1>2 DEF ApprovalsMatchSessions, Known
<1>4. OneAnswer /\ Fates
  BY <1>2 DEF OneAnswer, Fates
<1> QED BY <1>1, <1>3, <1>4 DEF IndInv

LEMMA CreateKeeps ==
    ASSUME IndInv, NEW s \in Sessions, create_session(s)
    PROVE  IndInv'
<1> USE HostAssumption DEF IndInv, create_session
<1>1. sessions' = [sessions EXCEPT ![s] = "Ready"] /\ sessions[s] = "None"
  BY Zenon, Transitions
<1>2. \A b \in Actions : owner[b] # s
  BY <1>1 DEF Fates
<1>3. TypeOK'
  BY <1>1 DEF TypeOK, HostState, SessionState
<1>4. ApprovalsMatchSessions'
  BY <1>1, <1>2 DEF ApprovalsMatchSessions, TypeOK, Known
<1>5. OneAnswer'
  BY <1>1 DEF OneAnswer, TypeOK, is_terminal
<1>6. Fates'
  BY <1>1, <1>2 DEF Fates, TypeOK
<1> QED BY Zenon, <1>3, <1>4, <1>5, <1>6

LEMMA CancelKeeps ==
    ASSUME IndInv, NEW s \in Sessions, cancel_session(s)
    PROVE  IndInv'
<1> USE HostAssumption DEF IndInv, cancel_session
<1>1. /\ sessions' = [sessions EXCEPT ![s] = cancelled(s)]
      /\ is_terminal(cancelled(s)) /\ cancelled(s) \in SessionState
      /\ sessions[s] = "Cancelled" \/ sessions[s] = "WaitingApproval" => cancelled(s) = "Cancelled"
  BY Zenon DEF cancelled, is_terminal, SessionState
<1>2. cancelled(s) \notin {"WaitingApproval", "None", "Created", "Ready"}
  BY Zenon, <1>1 DEF is_terminal
<1>3. TypeOK'
  BY Zenon, <1>1 DEF TypeOK
<1>4. ApprovalsMatchSessions'
  <2>1. ASSUME NEW q \in pending_approvals'
        PROVE  sessions'[q.session] \in {"WaitingApproval", "Cancelled"}
    BY Zenon, <1>1 DEF ApprovalsMatchSessions, TypeOK
  <2>2. \A t \in Sessions : sessions'[t] = "WaitingApproval" => sessions[t] = "WaitingApproval"
    BY Zenon, <1>1, <1>2 DEF TypeOK
  <2> QED BY Zenon, <2>1, <2>2 DEF ApprovalsMatchSessions, Known
<1>5. OneAnswer'
  BY Zenon, <1>1 DEF OneAnswer, TypeOK
<1>6. Fates'
  BY <1>1, <1>2 DEF Fates, TypeOK
<1> QED BY Zenon, <1>3, <1>4, <1>5, <1>6

LEMMA InvalidKeeps ==
    ASSUME IndInv, NEW s \in Sessions, NEW a \in Actions, NEW r \in Risks, submit_invalid(s, a, r)
    PROVE  IndInv'
<1> USE HostAssumption DEF IndInv, submit_invalid
<1>0. submitted(s, a, r)
  OBVIOUS
<1> HIDE DEF IndInv
<1>1. /\ sessions[s] \in {"Created", "Ready"}
      /\ owner[a] = NoSession /\ runs[a] = 0 /\ emitted[a] = {}
      /\ \A b \in Actions : owner[b] # s
      /\ \A p \in pending_approvals : p.action # a /\ p.session # s
      /\ tokens[s] = {}
      /\ \A t \in Sessions : a \notin tokens[t]
      /\ owner' = [owner EXCEPT ![a] = s] /\ risk' = [risk EXCEPT ![a] = r]
      /\ r \in ActionRisk
  BY <1>0, Fresh
<1>2. sessions' = [sessions EXCEPT ![s] = "Planning"]
  BY Zenon, <1>0, Fresh, Swallowed
<1>3. emitted' = emitted
  BY <1>1
<1> USE DEF IndInv
<1>4. TypeOK'
  BY <1>1, <1>2, <1>3 DEF TypeOK, SessionState, AuditEvents
<1>5. ApprovalsMatchSessions'
  BY <1>1, <1>2, <1>3 DEF ApprovalsMatchSessions, TypeOK, Known
<1>6. OneAnswer'
  BY <1>1, <1>2, <1>3 DEF OneAnswer, TypeOK, is_terminal
<1>7. Fates'
  BY <1>1, <1>2, <1>3 DEF Fates, TypeOK
<1> QED BY Zenon, <1>4, <1>5, <1>6, <1>7

LEMMA ParkedKeeps ==
    ASSUME IndInv, NEW s \in Sessions, NEW a \in Actions, NEW r \in Risks, submit_parked(s, a, r)
    PROVE  IndInv'
<1> USE HostAssumption
<1>0. submitted(s, a, r) /\ requires_confirmation(r)
  BY Zenon DEF submit_parked
<1>1. /\ sessions[s] \in {"Created", "Ready"}
      /\ owner[a] = NoSession /\ runs[a] = 0 /\ emitted[a] = {}
      /\ \A b \in Actions : owner[b] # s
      /\ \A p \in pending_approvals : p.action # a /\ p.session # s
      /\ tokens[s] = {}
      /\ \A t \in Sessions : a \notin tokens[t]
      /\ owner' = [owner EXCEPT ![a] = s] /\ risk' = [risk EXCEPT ![a] = r]
      /\ r \in ActionRisk
  BY <1>0, Fresh
<1>2. sessions' = [sessions EXCEPT ![s] = "WaitingApproval"]
  BY Zenon, <1>0, Fresh, Transitions DEF submit_parked
<1>3. UNCHANGED <<state, tokens, runs>>
  BY DEF submit_parked
<1>4. PICK kept \in after_eviction, now \in now_ms :
         /\ pending_approvals' = kept \cup {[action |-> a, session |-> s, created_at |-> now]}
         /\ emitted' = [b \in Actions |->
                         IF b = a THEN emitted[b] \cup {"ApprovalRequested"}
                         ELSE IF \E p \in pending_approvals \ kept : p.action = b
                         THEN emitted[b] \cup {"ApprovalDenied"}
                         ELSE emitted[b]]
  BY DEF submit_parked
<1> DEFINE new == [action |-> a, session |-> s, created_at |-> now]
<1>5. /\ kept \subseteq pending_approvals
      /\ IsFiniteSet(kept) /\ Cardinality(kept) < max_pending_approvals
  BY Eviction
<1>6. new \in [action : Actions, session : Sessions, created_at : Nat]
  BY Zenon, NewTime DEF IndInv
<1>7. /\ IsFiniteSet(pending_approvals')
      /\ Cardinality(pending_approvals') <= max_pending_approvals
  <2>1. new \notin kept
    BY Zenon, <1>1, <1>5
  <2>2. IsFiniteSet(kept \cup {new}) /\ Cardinality(kept \cup {new}) = Cardinality(kept) + 1
    BY Zenon, <1>5, <2>1, FS_AddElement
  <2>3. Cardinality(kept) \in Nat
    BY <1>5, FS_CardinalityType
  <2> QED BY <1>4, <1>5, <2>2, <2>3
<1>8. emitted' \in [Actions -> SUBSET AuditEvents]
  <2>1. SUFFICES ASSUME NEW b \in Actions
                 PROVE  emitted'[b] \subseteq AuditEvents
    BY <1>4
  <2>2. emitted[b] \subseteq AuditEvents
    BY Zenon DEF IndInv, TypeOK
  <2>3. emitted'[b] \subseteq emitted[b] \cup {"ApprovalRequested", "ApprovalDenied"}
    BY Zenon, <1>4
  <2> QED BY <2>2, <2>3 DEF AuditEvents
<1>9. TypeOK'
  <2>1. /\ state' \in HostState /\ sessions' \in [Sessions -> SessionState]
        /\ owner' \in [Actions -> Sessions \cup {NoSession}] /\ risk' \in [Actions -> ActionRisk]
        /\ tokens' \in [Sessions -> SUBSET Actions] /\ runs' \in [Actions -> Nat]
    BY Zenon, <1>1, <1>2, <1>3 DEF IndInv, TypeOK, SessionState
  <2>2. pending_approvals' \subseteq [action : Actions, session : Sessions, created_at : Nat]
    BY Zenon, <1>4, <1>5, <1>6 DEF IndInv, TypeOK
  <2> QED BY Zenon, <1>8, <2>1, <2>2 DEF TypeOK
<1>10. /\ emitted'[a] = {"ApprovalRequested"}
       /\ \A p \in kept : emitted'[p.action] = emitted[p.action]
       /\ \A b \in Actions \ {a} : emitted'[b] \in {emitted[b], emitted[b] \cup {"ApprovalDenied"}}
       /\ \A b \in Actions : (\E p \in pending_approvals \ kept : p.action = b) =>
                                 "ApprovalDenied" \in emitted'[b]
  <2>1. /\ emitted'[a] = {"ApprovalRequested"}
        /\ \A b \in Actions \ {a} : emitted'[b] \in {emitted[b], emitted[b] \cup {"ApprovalDenied"}}
    BY Zenon, <1>1, <1>4
  <2>2. \A p \in kept : p.action \in Actions /\ p.action # a
    BY Zenon, <1>1, <1>5 DEF IndInv, TypeOK
  <2>3. \A p, q \in pending_approvals : p.action = q.action => p = q
    BY DEF IndInv, ApprovalsMatchSessions
  <2>4. \A p \in kept : emitted'[p.action] = emitted[p.action]
    BY Zenon, <1>4, <1>5, <2>2, <2>3
  <2>5. \A b \in Actions : (\E p \in pending_approvals \ kept : p.action = b) =>
                               "ApprovalDenied" \in emitted'[b]
    BY Zenon, <1>1, <1>4
  <2> QED BY Zenon, <2>1, <2>4, <2>5
<1>11. ApprovalsMatchSessions'
  <2>1. ASSUME NEW p \in pending_approvals'
        PROVE  /\ owner'[p.action] = p.session
               /\ requires_confirmation(risk'[p.action])
               /\ runs'[p.action] = 0
               /\ sessions'[p.session] \in {"WaitingApproval", "Cancelled"}
               /\ \A q \in pending_approvals' : q.session = p.session => q = p
    <3>1. CASE p = new
      BY Zenon, <1>0, <1>1, <1>2, <1>3, <1>4, <1>5, <3>1 DEF IndInv, TypeOK
    <3>2. CASE p \in kept
      BY <1>1, <1>2, <1>3, <1>4, <1>5, <3>2 DEF IndInv, TypeOK, ApprovalsMatchSessions
    <3> QED BY Zenon, <1>4, <3>1, <3>2
  <2>2. ASSUME NEW b \in Actions, owner'[b] \in Known', sessions'[owner'[b]] = "WaitingApproval"
        PROVE  \/ \E p \in pending_approvals' : p.action = b
               \/ "ApprovalDenied" \in emitted'[b]
    <3>1. CASE b = a
      <4>1. new \in pending_approvals' /\ new.action = b
        BY Zenon, <1>4, <3>1
      <4> QED BY Zenon, <4>1
    <3>2. CASE b # a
      <4>1. owner'[b] = owner[b] /\ owner[b] \in Sessions /\ owner[b] # s
        BY <1>1, <2>2, <3>2 DEF IndInv, TypeOK, Known
      <4>2. owner[b] \in Known /\ sessions[owner[b]] = "WaitingApproval"
        BY <1>2, <2>2, <4>1 DEF IndInv, TypeOK, Known
      <4>3. CASE \E p \in pending_approvals : p.action = b
        BY Zenon, <1>4, <1>10, <4>3
      <4>4. CASE "ApprovalDenied" \in emitted[b]
        BY Zenon, <1>10, <3>2, <4>4
      <4> QED BY Zenon, <4>2, <4>3, <4>4 DEF IndInv, ApprovalsMatchSessions
    <3> QED BY Zenon, <3>1, <3>2
  <2> QED BY Zenon, <1>7, <2>1, <2>2 DEF ApprovalsMatchSessions
<1>12. OneAnswer'
  <2>1. ASSUME NEW b \in Actions
        PROVE  /\ ~({"ApprovalGranted", "ApprovalDenied"} \subseteq emitted'[b])
               /\ requires_confirmation(risk'[b]) /\ "ActionRequested" \in emitted'[b] =>
                     {"ApprovalRequested", "ApprovalGranted"} \subseteq emitted'[b]
    <3>1. CASE b = a
      BY Zenon, <1>10, <3>1
    <3>2. CASE b # a
      <4>1. risk'[b] = risk[b]
        BY Zenon, <1>1, <3>2 DEF IndInv, TypeOK
      <4>2. CASE emitted'[b] = emitted[b]
        BY Zenon, <4>1, <4>2 DEF IndInv, OneAnswer
      <4>3. CASE emitted'[b] # emitted[b]
        <5>1. PICK p \in pending_approvals : p.action = b
          BY Zenon, <1>4, <3>2, <4>3
        <5>2. "ApprovalGranted" \notin emitted[b] /\ emitted'[b] = emitted[b] \cup {"ApprovalDenied"}
          BY Zenon, <1>10, <3>2, <4>3, <5>1 DEF IndInv, Fates
        <5> QED BY Zenon, <4>1, <5>2 DEF IndInv, OneAnswer
      <4> QED BY Zenon, <4>2, <4>3
    <3> QED BY Zenon, <3>1, <3>2
  <2>2. \A t \in Sessions : \A b \in tokens'[t] :
           owner'[b] = t /\ runs'[b] = 1 /\ is_terminal(sessions'[t])
    BY <1>1, <1>2, <1>3 DEF IndInv, OneAnswer, TypeOK
  <2> QED BY Zenon, <2>1, <2>2 DEF OneAnswer
<1>13. Fates'
  <2>1. ASSUME NEW p \in pending_approvals'
        PROVE  /\ "ApprovalRequested" \in emitted'[p.action]
               /\ "ApprovalGranted" \notin emitted'[p.action]
               /\ "ApprovalDenied" \notin emitted'[p.action]
    <3>1. CASE p = new
      BY Zenon, <1>10, <3>1
    <3>2. CASE p \in kept
      BY Zenon, <1>5, <1>10, <3>2 DEF IndInv, Fates
    <3> QED BY Zenon, <1>4, <3>1, <3>2
  <2>2. ASSUME NEW b \in Actions
        PROVE  /\ runs'[b] \in {0, 1}
               /\ owner'[b] = NoSession => runs'[b] = 0 /\ emitted'[b] = {}
               /\ owner'[b] # NoSession => sessions'[owner'[b]] \notin {"None", "Created", "Ready"}
    <3>1. CASE b = a
      BY Zenon, <1>1, <1>2, <1>3, <3>1 DEF IndInv, Fates, TypeOK
    <3>2. CASE b # a
      <4>1. owner[b] = NoSession => emitted'[b] = emitted[b]
        BY <1>4, <3>2 DEF IndInv, ApprovalsMatchSessions, TypeOK
      <4> QED BY Zenon, <1>1, <1>2, <1>3, <3>2, <4>1 DEF IndInv, Fates, TypeOK
    <3> QED BY Zenon, <3>1, <3>2
  <2> QED BY Zenon, <1>7, <2>1, <2>2 DEF Fates
<1> QED BY Zenon, <1>9, <1>11, <1>12, <1>13 DEF IndInv

LEMMA ExecutedKeeps ==
    ASSUME IndInv, NEW s \in Sessions, NEW a \in Actions, NEW r \in Risks, NEW ok \in BOOLEAN,
           submit_executed(s, a, r, ok)
    PROVE  IndInv'
<1> USE HostAssumption
<1>0. submitted(s, a, r) /\ ~ requires_confirmation(r)
  BY Zenon DEF submit_executed
<1>1. /\ sessions[s] \in {"Created", "Ready"}
      /\ owner[a] = NoSession /\ runs[a] = 0 /\ emitted[a] = {}
      /\ \A b \in Actions : owner[b] # s
      /\ \A p \in pending_approvals : p.action # a /\ p.session # s
      /\ tokens[s] = {}
      /\ \A t \in Sessions : a \notin tokens[t]
      /\ owner' = [owner EXCEPT ![a] = s] /\ risk' = [risk EXCEPT ![a] = r]
      /\ r \in ActionRisk
  BY <1>0, Fresh
<1> DEFINE st == after_execution("Planning", ok)
<1>2. sessions' = [sessions EXCEPT ![s] = st]
  BY Zenon, <1>0, Fresh DEF submit_executed, execute_validated_action
<1>3. st \in {"Completed", "Failed"}
  BY Executed
<1> HIDE DEF st
<1>4. /\ tokens' = [tokens EXCEPT ![s] = {a}] /\ runs' = [runs EXCEPT ![a] = 1]
      /\ UNCHANGED <<state, pending_approvals>>
  BY <1>1 DEF submit_executed, execute_validated_action
<1>5. emitted' = [emitted EXCEPT ![a] = {"ActionRequested"}] /\ {"ActionRequested"} \subseteq AuditEvents
  BY <1>1 DEF submit_executed, AuditEvents
<1> USE DEF IndInv
<1>6. TypeOK'
  BY Zenon, <1>1, <1>2, <1>3, <1>4, <1>5 DEF TypeOK, SessionState
<1>7. ApprovalsMatchSessions'
  <2>1. ASSUME NEW q \in pending_approvals'
        PROVE  /\ owner'[q.action] = q.session
               /\ requires_confirmation(risk'[q.action])
               /\ runs'[q.action] = 0
               /\ sessions'[q.session] \in {"WaitingApproval", "Cancelled"}
               /\ \A x \in pending_approvals' : x.session = q.session => x = q
    BY Zenon, <1>1, <1>2, <1>4 DEF TypeOK, ApprovalsMatchSessions
  <2>2. ASSUME NEW b \in Actions, owner'[b] \in Known', sessions'[owner'[b]] = "WaitingApproval"
        PROVE  \/ \E q \in pending_approvals' : q.action = b
               \/ "ApprovalDenied" \in emitted'[b]
    <3>1. b # a /\ owner[b] # s
      BY Zenon, <1>1, <1>2, <1>3, <2>2 DEF TypeOK
    <3>2. owner'[b] = owner[b] /\ emitted'[b] = emitted[b]
      BY Zenon, <1>1, <1>5, <3>1 DEF TypeOK
    <3>3. owner[b] \in Known /\ sessions[owner[b]] = "WaitingApproval"
      BY Zenon, <1>2, <2>2, <3>1, <3>2 DEF TypeOK, Known
    <3> QED BY Zenon, <1>4, <3>2, <3>3 DEF ApprovalsMatchSessions
  <2>3. Cardinality(pending_approvals') <= max_pending_approvals
    BY Zenon, <1>4 DEF ApprovalsMatchSessions
  <2> QED BY Zenon, <2>1, <2>2, <2>3 DEF ApprovalsMatchSessions
<1>8. OneAnswer'
  <2>1. ASSUME NEW b \in Actions
        PROVE  /\ ~({"ApprovalGranted", "ApprovalDenied"} \subseteq emitted'[b])
               /\ requires_confirmation(risk'[b]) /\ "ActionRequested" \in emitted'[b] =>
                     {"ApprovalRequested", "ApprovalGranted"} \subseteq emitted'[b]
    <3>1. CASE b = a
      BY <1>0, <1>1, <1>5, <3>1 DEF TypeOK
    <3>2. CASE b # a
      <4>1. emitted'[b] = emitted[b] /\ risk'[b] = risk[b]
        BY Zenon, <1>1, <1>5, <3>2 DEF TypeOK
      <4> QED BY Zenon, <4>1 DEF OneAnswer
    <3> QED BY Zenon, <3>1, <3>2
  <2>2. \A t \in Sessions : \A b \in tokens'[t] :
           owner'[b] = t /\ runs'[b] = 1 /\ is_terminal(sessions'[t])
    <3> SUFFICES ASSUME NEW t \in Sessions, NEW b \in tokens'[t]
                 PROVE  owner'[b] = t /\ runs'[b] = 1 /\ is_terminal(sessions'[t])
      BY Zenon
    <3>1. CASE t = s
      <4>1. b = a
        BY Zenon, <1>4, <3>1 DEF TypeOK
      <4>2. is_terminal(sessions'[s])
        BY Zenon, <1>2, <1>3 DEF TypeOK, is_terminal
      <4> QED BY Zenon, <1>1, <1>4, <3>1, <4>1, <4>2 DEF TypeOK
    <3>2. CASE t # s
      <4>1. tokens'[t] = tokens[t] /\ sessions'[t] = sessions[t]
        BY Zenon, <1>2, <1>4, <3>2 DEF TypeOK
      <4>2. b \in Actions /\ b # a
        BY Zenon, <1>1, <4>1 DEF TypeOK
      <4>3. owner'[b] = owner[b] /\ runs'[b] = runs[b]
        BY Zenon, <1>1, <1>4, <4>2 DEF TypeOK
      <4> QED BY Zenon, <4>1, <4>3 DEF OneAnswer
    <3> QED BY Zenon, <3>1, <3>2
  <2> QED BY Zenon, <2>1, <2>2 DEF OneAnswer
<1>9. Fates'
  BY <1>1, <1>2, <1>3, <1>4, <1>5 DEF Fates, TypeOK
<1> QED BY Zenon, <1>6, <1>7, <1>8, <1>9

(* The parts of the invariant that speak of one parked action.              *)
LEMMA ParkedFacts ==
    ASSUME IndInv, NEW p \in pending_approvals
    PROVE  /\ p \in [action : Actions, session : Sessions, created_at : Nat]
           /\ owner[p.action] = p.session /\ requires_confirmation(risk[p.action])
           /\ runs[p.action] = 0
           /\ sessions[p.session] \in {"WaitingApproval", "Cancelled"}
           /\ \A q \in pending_approvals \ {p} : q.session # p.session /\ q.action # p.action
           /\ "ApprovalRequested" \in emitted[p.action]
           /\ "ApprovalGranted" \notin emitted[p.action]
           /\ "ApprovalDenied" \notin emitted[p.action]
           /\ IsFiniteSet(pending_approvals \ {p})
           /\ Cardinality(pending_approvals \ {p}) <= max_pending_approvals
<1>1. /\ p \in [action : Actions, session : Sessions, created_at : Nat]
      /\ owner[p.action] = p.session /\ requires_confirmation(risk[p.action])
      /\ runs[p.action] = 0
      /\ sessions[p.session] \in {"WaitingApproval", "Cancelled"}
  BY Zenon DEF IndInv, TypeOK, ApprovalsMatchSessions
<1>2. \A q \in pending_approvals \ {p} : q.session # p.session /\ q.action # p.action
  BY Zenon DEF IndInv, ApprovalsMatchSessions
<1>3. /\ "ApprovalRequested" \in emitted[p.action]
      /\ "ApprovalGranted" \notin emitted[p.action]
      /\ "ApprovalDenied" \notin emitted[p.action]
  BY Zenon DEF IndInv, Fates
<1>4. IsFiniteSet(pending_approvals) /\ Cardinality(pending_approvals) \in Nat
  BY Zenon, FS_CardinalityType DEF IndInv, Fates
<1>5. /\ IsFiniteSet(pending_approvals \ {p})
      /\ Cardinality(pending_approvals \ {p}) = Cardinality(pending_approvals) - 1
  BY Zenon, <1>4, FS_RemoveElement
<1>6. Cardinality(pending_approvals \ {p}) <= max_pending_approvals
  BY <1>4, <1>5, HostAssumption DEF IndInv, ApprovalsMatchSessions
<1> QED BY Zenon, <1>1, <1>2, <1>3, <1>5, <1>6

LEMMA GrantKeeps ==
    ASSUME IndInv, NEW p \in pending_approvals, NEW ok \in BOOLEAN, approve_request(p, ok)
    PROVE  IndInv'
<1> USE HostAssumption
<1> DEFINE s == p.session
           a == p.action
<1>1. /\ s \in Sessions /\ a \in Actions
      /\ owner[a] = s /\ requires_confirmation(risk[a]) /\ runs[a] = 0
      /\ \A q \in pending_approvals \ {p} : q.session # s /\ q.action # a
      /\ "ApprovalRequested" \in emitted[a] /\ "ApprovalDenied" \notin emitted[a]
      /\ IsFiniteSet(pending_approvals \ {p})
      /\ Cardinality(pending_approvals \ {p}) <= max_pending_approvals
  BY Zenon, ParkedFacts
<1>2. sessions[s] = "WaitingApproval"
  BY Zenon, ParkedFacts, Transitions DEF approve_request, execute_validated_action
<1> DEFINE st == after_execution("WaitingApproval", ok)
<1>3. sessions' = [sessions EXCEPT ![s] = st]
  BY <1>2 DEF approve_request, execute_validated_action
<1>4. st \in {"Completed", "Failed"}
  BY Executed
<1>5. /\ tokens' = [tokens EXCEPT ![s] = @ \cup {a}] /\ runs' = [runs EXCEPT ![a] = 1]
      /\ pending_approvals' = pending_approvals \ {p}
      /\ UNCHANGED <<state, owner, risk>>
  BY <1>1 DEF approve_request, execute_validated_action
<1> DEFINE new == {"ApprovalGranted", "ActionRequested"}
<1>6. /\ emitted' = [emitted EXCEPT ![a] = @ \cup new]
      /\ new \subseteq AuditEvents
      /\ "ApprovalGranted" \in new /\ "ApprovalDenied" \notin new
  BY Zenon DEF approve_request, AuditEvents
<1> HIDE DEF st, new, s, a
<1> USE DEF IndInv
<1>7. TypeOK'
  <2>1. sessions' \in [Sessions -> SessionState] /\ runs' \in [Actions -> Nat]
    BY <1>1, <1>3, <1>4, <1>5 DEF TypeOK, SessionState
  <2>2. tokens' \in [Sessions -> SUBSET Actions]
    BY <1>1, <1>5 DEF TypeOK
  <2>3. emitted' \in [Actions -> SUBSET AuditEvents]
    BY <1>1, <1>6 DEF TypeOK
  <2> QED BY Zenon, <1>5, <2>1, <2>2, <2>3 DEF TypeOK
<1>8. ApprovalsMatchSessions'
  <2>1. ASSUME NEW q \in pending_approvals'
        PROVE  /\ owner'[q.action] = q.session
               /\ requires_confirmation(risk'[q.action])
               /\ runs'[q.action] = 0
               /\ sessions'[q.session] \in {"WaitingApproval", "Cancelled"}
               /\ \A x \in pending_approvals' : x.session = q.session => x = q
    BY Zenon, <1>1, <1>3, <1>5 DEF TypeOK, ApprovalsMatchSessions
  <2>2. ASSUME NEW b \in Actions, owner'[b] \in Known', sessions'[owner'[b]] = "WaitingApproval"
        PROVE  \/ \E q \in pending_approvals' : q.action = b
               \/ "ApprovalDenied" \in emitted'[b]
    <3>1. owner[b] \in Sessions /\ owner[b] # s /\ b # a
      BY Zenon, <1>1, <1>3, <1>4, <1>5, <2>2 DEF TypeOK, Known
    <3>2. owner[b] \in Known /\ sessions[owner[b]] = "WaitingApproval"
      BY Zenon, <1>3, <1>5, <2>2, <3>1 DEF TypeOK, Known
    <3>3. \/ \E q \in pending_approvals : q.action = b
          \/ "ApprovalDenied" \in emitted[b]
      BY Zenon, <3>2 DEF ApprovalsMatchSessions
    <3> QED BY <1>5, <1>6, <3>1, <3>3 DEF a
  <2> QED BY <1>1, <1>5, <2>1, <2>2 DEF ApprovalsMatchSessions
<1>9. OneAnswer'
  <2>1. ASSUME NEW b \in Actions
        PROVE  /\ ~({"ApprovalGranted", "ApprovalDenied"} \subseteq emitted'[b])
               /\ requires_confirmation(risk'[b]) /\ "ActionRequested" \in emitted'[b] =>
                     {"ApprovalRequested", "ApprovalGranted"} \subseteq emitted'[b]
    BY <1>1, <1>5, <1>6 DEF OneAnswer, TypeOK
  <2>2. \A t \in Sessions : \A b \in tokens'[t] :
           owner'[b] = t /\ runs'[b] = 1 /\ is_terminal(sessions'[t])
    <3> SUFFICES ASSUME NEW t \in Sessions, NEW b \in tokens'[t]
                 PROVE  owner'[b] = t /\ runs'[b] = 1 /\ is_terminal(sessions'[t])
      BY Zenon
    <3>1. t = s => is_terminal(sessions'[t])
      BY Zenon, <1>3, <1>4 DEF TypeOK, is_terminal
    <3>2. t # s => sessions'[t] = sessions[t]
      BY Zenon, <1>3 DEF TypeOK
    <3>3. CASE b \in tokens[t]
      <4>1. owner[b] = t /\ runs[b] = 1 /\ is_terminal(sessions[t]) /\ b \in Actions
        BY Zenon, <3>3 DEF OneAnswer, TypeOK
      <4>2. runs'[b] = 1
        BY Zenon, <1>5, <4>1 DEF TypeOK
      <4> QED BY Zenon, <1>5, <3>1, <3>2, <4>1, <4>2
    <3>4. CASE b \notin tokens[t]
      <4>1. t = s /\ b = a
        BY Zenon, <1>5, <3>4 DEF TypeOK
      <4> QED BY Zenon, <1>1, <1>5, <3>1, <4>1 DEF TypeOK
    <3> QED BY Zenon, <3>3, <3>4
  <2> QED BY Zenon, <2>1, <2>2 DEF OneAnswer
<1>10. Fates'
  BY <1>1, <1>3, <1>4, <1>5, <1>6 DEF Fates, TypeOK
<1> QED BY Zenon, <1>7, <1>8, <1>9, <1>10

LEMMA LateGrantKeeps ==
    ASSUME IndInv, NEW p \in pending_approvals, approve_too_late(p)
    PROVE  IndInv'
<1> USE HostAssumption
<1> DEFINE a == p.action
<1>1. /\ p.session \in Sessions /\ a \in Actions /\ owner[a] = p.session
      /\ \A q \in pending_approvals \ {p} : q.action # a
      /\ "ApprovalRequested" \in emitted[a] /\ "ApprovalDenied" \notin emitted[a]
      /\ IsFiniteSet(pending_approvals \ {p})
      /\ Cardinality(pending_approvals \ {p}) <= max_pending_approvals
  BY Zenon, ParkedFacts
<1>2. sessions[owner[a]] # "WaitingApproval"
  BY Zenon, <1>1, Transitions DEF approve_too_late, Refused
<1>3. /\ pending_approvals' = pending_approvals \ {p}
      /\ emitted' = [emitted EXCEPT ![a] = @ \cup {"ApprovalGranted"}]
      /\ UNCHANGED <<state, sessions, tokens, owner, risk, runs>>
  BY Zenon DEF approve_too_late
<1>4. owner[a] # NoSession
  BY Zenon, <1>1
<1> USE DEF IndInv
<1>5. TypeOK'
  BY Zenon, <1>1, <1>3 DEF TypeOK, AuditEvents
<1>6. ApprovalsMatchSessions'
  <2>1. \A b \in Actions : owner[b] \in Known /\ sessions[owner[b]] = "WaitingApproval" =>
           \/ \E q \in pending_approvals \ {p} : q.action = b
           \/ "ApprovalDenied" \in emitted[b]
    BY Zenon, <1>2 DEF ApprovalsMatchSessions
  <2> QED BY <1>1, <1>3, <2>1 DEF ApprovalsMatchSessions, TypeOK, Known
<1>7. OneAnswer'
  BY <1>1, <1>3 DEF OneAnswer, TypeOK
<1>8. Fates'
  BY Zenon, <1>1, <1>3, <1>4 DEF Fates, TypeOK
<1> QED BY Zenon, <1>5, <1>6, <1>7, <1>8

LEMMA DenyKeeps ==
    ASSUME IndInv, NEW p \in pending_approvals, deny_request(p)
    PROVE  IndInv'
<1> USE HostAssumption
<1> DEFINE s == p.session
           a == p.action
<1>1. /\ s \in Sessions /\ a \in Actions /\ owner[a] = s
      /\ \A q \in pending_approvals \ {p} : q.session # s /\ q.action # a
      /\ "ApprovalRequested" \in emitted[a] /\ "ApprovalGranted" \notin emitted[a]
      /\ IsFiniteSet(pending_approvals \ {p})
      /\ Cardinality(pending_approvals \ {p}) <= max_pending_approvals
  BY Zenon, ParkedFacts
<1>2. sessions' = [sessions EXCEPT ![s] = "Cancelled"]
  BY Zenon, ParkedFacts, Swallowed DEF deny_request
<1>3. /\ pending_approvals' = pending_approvals \ {p}
      /\ emitted' = [emitted EXCEPT ![a] = @ \cup {"ApprovalDenied"}]
      /\ UNCHANGED <<state, tokens, owner, risk, runs>>
  BY Zenon DEF deny_request
<1> HIDE DEF s, a
<1> USE DEF IndInv
<1>4. TypeOK'
  BY Zenon, <1>1, <1>2, <1>3 DEF TypeOK, SessionState, AuditEvents
<1>5. ApprovalsMatchSessions'
  <2>1. ASSUME NEW q \in pending_approvals'
        PROVE  /\ owner'[q.action] = q.session
               /\ requires_confirmation(risk'[q.action])
               /\ runs'[q.action] = 0
               /\ sessions'[q.session] \in {"WaitingApproval", "Cancelled"}
               /\ \A x \in pending_approvals' : x.session = q.session => x = q
    BY Zenon, <1>1, <1>2, <1>3 DEF TypeOK, ApprovalsMatchSessions
  <2>2. ASSUME NEW b \in Actions, owner'[b] \in Known', sessions'[owner'[b]] = "WaitingApproval"
        PROVE  \/ \E q \in pending_approvals' : q.action = b
               \/ "ApprovalDenied" \in emitted'[b]
    <3>1. owner[b] \in Known /\ sessions[owner[b]] = "WaitingApproval" /\ b # a
      BY Zenon, <1>1, <1>2, <1>3, <2>2 DEF TypeOK, Known
    <3>2. \/ \E q \in pending_approvals : q.action = b
          \/ "ApprovalDenied" \in emitted[b]
      BY Zenon, <3>1 DEF ApprovalsMatchSessions
    <3> QED BY <1>3, <3>1, <3>2 DEF a
  <2> QED BY Zenon, <1>1, <1>3, <2>1, <2>2 DEF ApprovalsMatchSessions
<1>6. OneAnswer'
  BY <1>1, <1>2, <1>3 DEF OneAnswer, TypeOK, is_terminal
<1>7. Fates'
  BY <1>1, <1>2, <1>3 DEF Fates, TypeOK
<1> QED BY <1>4, <1>5, <1>6, <1>7

LEMMA CancelActionKeeps ==
    ASSUME IndInv, NEW s \in Sessions, NEW a \in Actions, cancel_action(s, a)
    PROVE  IndInv'
<1> USE HostAssumption DEF IndInv, cancel_action
<1>1. runs[a] = 1 /\ owner[a] # NoSession
  BY Zenon DEF OneAnswer, TypeOK
<1>2. TypeOK'
  BY Zenon DEF TypeOK, AuditEvents
<1>3. ApprovalsMatchSessions'
  BY Zenon DEF ApprovalsMatchSessions, TypeOK, Known
<1>4. OneAnswer'
  BY DEF OneAnswer, TypeOK
<1>5. Fates'
  BY Zenon, <1>1 DEF Fates, TypeOK
<1> QED BY Zenon, <1>2, <1>3, <1>4, <1>5

LEMMA StopKeeps ==
    ASSUME IndInv, stop
    PROVE  IndInv'
<1> USE HostAssumption DEF IndInv, stop
<1>1. /\ sessions' \in [Sessions -> SessionState]
      /\ \A s \in Sessions :
            /\ sessions'[s] # "WaitingApproval"
            /\ sessions[s] \in {"WaitingApproval", "Cancelled"} => sessions'[s] = "Cancelled"
            /\ sessions'[s] \in {"None", "Created", "Ready"} => sessions'[s] = sessions[s]
  BY Zenon DEF TypeOK, Known, cancelled, is_terminal, SessionState
<1>2. TypeOK'
  BY Zenon, <1>1 DEF TypeOK, HostState
<1>3. ApprovalsMatchSessions'
  BY Zenon, <1>1 DEF ApprovalsMatchSessions, TypeOK, Known
<1>4. OneAnswer'
  BY Zenon DEF OneAnswer
<1>5. Fates'
  BY Zenon, <1>1 DEF Fates, TypeOK
<1> QED BY Zenon, <1>2, <1>3, <1>4, <1>5

LEMMA RestartKeeps ==
    ASSUME IndInv, restart
    PROVE  IndInv'
<1> USE HostAssumption DEF IndInv, restart
<1>1. IsFiniteSet(pending_approvals') /\ Cardinality(pending_approvals') = 0
  BY FS_EmptySet
<1>2. /\ sessions' \in [Sessions -> SessionState]
      /\ \A s \in Sessions : /\ sessions'[s] \in {"None", "Forgotten"}
                             /\ sessions'[s] = "None" => sessions[s] = "None"
  BY DEF TypeOK, SessionState
<1>3. TypeOK'
  BY Zenon, <1>2 DEF TypeOK, HostState
<1>4. ApprovalsMatchSessions'
  BY <1>1, <1>2 DEF ApprovalsMatchSessions, Known
<1>5. OneAnswer'
  BY Zenon DEF OneAnswer
<1>6. Fates'
  BY Zenon, <1>1, <1>2 DEF Fates, TypeOK
<1> QED BY <1>3, <1>4, <1>5, <1>6

LEMMA StepKeeps == IndInv /\ [AdNext]_adVars => IndInv'
<1> SUFFICES ASSUME IndInv, [AdNext]_adVars PROVE IndInv'
  OBVIOUS
<1>1. CASE SessionCreate
  BY <1>1, CreateKeeps DEF SessionCreate
<1>2. CASE SessionCancel
  BY Zenon, <1>2, CancelKeeps DEF SessionCancel
<1>3. CASE UNCHANGED adVars
  BY <1>3 DEF IndInv, TypeOK, ApprovalsMatchSessions, OneAnswer, Fates, Known, adVars, hostVars
<1>4. CASE Intent
  <2>1. PICK s \in Sessions :
           \/ submit_refused(s)
           \/ \E a \in Actions, r \in Risks :
                 \/ submit_invalid(s, a, r)
                 \/ submit_parked(s, a, r)
                 \/ \E ok \in BOOLEAN : submit_executed(s, a, r, ok)
    BY <1>4 DEF Intent
  <2>2. CASE submit_refused(s)
    BY Zenon, <1>3, <2>2 DEF submit_refused, adVars
  <2> QED BY Zenon, <2>1, <2>2, InvalidKeeps, ParkedKeeps, ExecutedKeeps
<1>5. CASE ApprovalGrant
  BY <1>5, GrantKeeps, LateGrantKeeps DEF ApprovalGrant
<1>6. CASE ApprovalDeny
  BY Zenon, <1>6, DenyKeeps DEF ApprovalDeny
<1>7. CASE ActionCancel
  BY <1>7, CancelActionKeeps DEF ActionCancel
<1>8. CASE stop
  BY <1>8, StopKeeps
<1>9. CASE restart
  BY <1>9, RestartKeeps
<1> QED BY Zenon, <1>1, <1>2, <1>3, <1>4, <1>5, <1>6, <1>7, <1>8, <1>9 DEF AdNext

(* The tables of the host agree in every reachable state.                   *)
THEOREM HostInvariant == AdSpec => []IndInv
BY InitHolds, StepKeeps, PTL DEF AdSpec

(* A parked action needs consent, has not run, is parked once and belongs   *)
(* to a session that waits for it or was cancelled; the table keeps its     *)
(* bound.                                                                   *)
THEOREM ParkedIsAwaited == AdSpec => []ApprovalsMatchSessions
<1>1. IndInv => ApprovalsMatchSessions
  BY DEF IndInv
<1> QED BY <1>1, HostInvariant, PTL

(* An approval is granted or denied, never both, and no action of high risk *)
(* reaches the executor without a grant that was emitted before.            *)
THEOREM AnsweredOnce == AdSpec => []OneAnswer
<1>1. IndInv => OneAnswer
  BY DEF IndInv
<1> QED BY <1>1, HostInvariant, PTL

-----------------------------------------------------------------------------
(* The refinement *)

Parked(a) == \E p \in pending_approvals : p.action = a

(* The fate of an action, read off the tables.                              *)
LEMMA StatusOf ==
    ASSUME IndInv
    PROVE  /\ status \in [Actions -> Promise!Statuses]
           /\ \A a \in Actions :
                 status[a] = IF runs[a] = 1 THEN "executed" ELSE IF Parked(a) THEN "parked"
                             ELSE IF owner[a] = NoSession THEN "new" ELSE "dropped"
<1>1. \A a \in Actions :
         status[a] = IF runs[a] = 1 THEN "executed" ELSE IF Parked(a) THEN "parked"
                     ELSE IF owner[a] = NoSession THEN "new" ELSE "dropped"
  BY DEF IndInv, Fates, status, Parked
<1>2. status = [a \in Actions |-> status[a]]
  BY DEF status
<1> QED BY Zenon, <1>1, <1>2 DEF Promise!Statuses

(* The same in the next state.                                              *)
LEMMA StatusNext ==
    ASSUME IndInv'
    PROVE  /\ status' \in [Actions -> Promise!Statuses]
           /\ \A a \in Actions :
                 status'[a] = IF runs'[a] = 1 THEN "executed" ELSE IF Parked(a)' THEN "parked"
                              ELSE IF owner'[a] = NoSession THEN "new" ELSE "dropped"
<1>1. \A a \in Actions :
         status'[a] = IF runs'[a] = 1 THEN "executed" ELSE IF Parked(a)' THEN "parked"
                      ELSE IF owner'[a] = NoSession THEN "new" ELSE "dropped"
  BY DEF IndInv, Fates, status, Parked
<1>2. status' = [a \in Actions |-> status'[a]]
  BY DEF status
<1> QED BY Zenon, <1>1, <1>2 DEF Promise!Statuses

LEMMA InitRefines == AdInit => Promise!Init
<1> SUFFICES ASSUME AdInit PROVE Promise!Init
  OBVIOUS
<1> USE DEF AdInit, HostInit
<1>1. closed = {}
  BY DEF closed, is_terminal
<1>2. high = {}
  BY Zenon DEF high
<1>3. status = [a \in Actions |-> "new"]
  BY DEF status
<1> QED BY Zenon, <1>1, <1>2, <1>3 DEF Promise!Init

(* A step that leaves owners, risks and executions alone, closes sessions   *)
(* for good and parks nothing is a Close of the promise.                    *)
LEMMA CloseStep ==
    ASSUME IndInv, IndInv', UNCHANGED <<owner, risk, runs>>,
           closed \subseteq closed', pending_approvals' \subseteq pending_approvals
    PROVE  Promise!Next
<1>1. closed' \in SUBSET Sessions
  BY Zenon DEF closed
<1>2. high' = high
  BY Zenon DEF high
<1>3. status' \in [Actions -> Promise!Statuses]
  BY Zenon, StatusNext
<1>4. ASSUME NEW b \in Actions
      PROVE  status'[b] = status[b] \/ (status[b] = "parked" /\ status'[b] = "dropped")
  <2>1. Parked(b)' => Parked(b)
    BY Zenon DEF Parked
  <2>2. Parked(b) => owner[b] # NoSession
    BY HostAssumption DEF Parked, IndInv, TypeOK, ApprovalsMatchSessions
  <2> QED BY <2>1, <2>2, StatusOf, StatusNext
<1>5. Promise!Close
  BY Zenon, <1>1, <1>2, <1>3, <1>4 DEF Promise!Close, Promise!Drop
<1> QED BY Zenon, <1>5 DEF Promise!Next

(* What a submission does to owners and to the actions that need consent.   *)
LEMMA SubmitStep ==
    ASSUME IndInv, NEW s \in Sessions, NEW a \in Actions, NEW r \in Risks, submitted(s, a, r)
    PROVE  /\ Promise!Submit(a, s, requires_confirmation(r))
           /\ requires_confirmation(r) \in BOOLEAN
           /\ \A b \in Actions \ {a} : owner'[b] = owner[b]
           /\ owner'[a] = s /\ owner'[a] # NoSession
           /\ ~ Parked(a) /\ runs[a] = 0
<1>1. /\ sessions[s] \in {"Created", "Ready"}
      /\ owner[a] = NoSession /\ runs[a] = 0
      /\ \A p \in pending_approvals : p.action # a
      /\ owner' = [owner EXCEPT ![a] = s] /\ risk' = [risk EXCEPT ![a] = r]
  BY Fresh
<1>2. status[a] = "new"
  BY <1>1, StatusOf DEF Parked
<1>3. s \notin closed
  BY Zenon, <1>1 DEF closed, is_terminal
<1>4. high' = IF requires_confirmation(r) THEN high \cup {a} ELSE high
  BY <1>1, HostAssumption DEF high, IndInv, TypeOK
<1>5. requires_confirmation(r) \in BOOLEAN
  BY DEF requires_confirmation
<1>6. /\ \A b \in Actions \ {a} : owner'[b] = owner[b]
      /\ owner'[a] = s /\ owner'[a] # NoSession
  BY <1>1, HostAssumption DEF IndInv, TypeOK
<1> QED BY Zenon, <1>1, <1>2, <1>3, <1>4, <1>5, <1>6 DEF Promise!Submit, Parked

LEMMA InvalidRefines ==
    ASSUME IndInv, IndInv', NEW s \in Sessions, NEW a \in Actions, NEW r \in Risks,
           submit_invalid(s, a, r)
    PROVE  Promise!Next
<1>1. submitted(s, a, r) /\ UNCHANGED <<runs, pending_approvals>>
  BY Zenon DEF submit_invalid
<1>2. closed' = closed
  <2>1. /\ sessions[s] \in {"Created", "Ready"}
        /\ sessions' = [sessions EXCEPT ![s] = "Planning"]
    BY Zenon, <1>1, Fresh, Swallowed DEF submit_invalid
  <2> QED BY Zenon, <2>1 DEF closed, is_terminal, IndInv, TypeOK
<1>3. status' = [status EXCEPT ![a] = "dropped"]
  <2>1. \A b \in Actions : status'[b] = IF b = a THEN "dropped" ELSE status[b]
    BY <1>1, SubmitStep, StatusOf, StatusNext DEF Parked
  <2> QED BY Zenon, <2>1, StatusOf, StatusNext
<1>4. Promise!Refuse(a, s, requires_confirmation(r))
  BY Zenon, <1>1, <1>2, <1>3, SubmitStep DEF Promise!Refuse
<1>5. requires_confirmation(r) \in BOOLEAN
  BY Zenon, <1>1, SubmitStep
<1> QED BY <1>4, <1>5 DEF Promise!Next

LEMMA ParkedRefines ==
    ASSUME IndInv, IndInv', NEW s \in Sessions, NEW a \in Actions, NEW r \in Risks,
           submit_parked(s, a, r)
    PROVE  Promise!Next
<1>1. submitted(s, a, r) /\ requires_confirmation(r) /\ UNCHANGED runs
  BY Zenon DEF submit_parked
<1>2. PICK kept \in after_eviction, now \in now_ms :
         pending_approvals' = kept \cup {[action |-> a, session |-> s, created_at |-> now]}
  BY Zenon DEF submit_parked
<1>3. kept \subseteq pending_approvals
  BY Zenon, Eviction
<1>4. closed' = closed
  <2>1. /\ sessions[s] \in {"Created", "Ready"}
        /\ sessions' = [sessions EXCEPT ![s] = "WaitingApproval"]
    BY Zenon, <1>1, Fresh, Transitions DEF submit_parked
  <2> QED BY Zenon, <2>1 DEF closed, is_terminal, IndInv, TypeOK
<1>5. status'[a] = "parked"
  <2>1. [action |-> a, session |-> s, created_at |-> now] \in pending_approvals'
    BY Zenon, <1>2
  <2>2. Parked(a)'
    BY Zenon, <2>1 DEF Parked
  <2>3. runs[a] = 0
    BY <1>1, SubmitStep
  <2>4. runs'[a] # 1
    BY <1>1, <2>3
  <2>5. status'[a] = IF runs'[a] = 1 THEN "executed" ELSE IF Parked(a)' THEN "parked"
                     ELSE IF owner'[a] = NoSession THEN "new" ELSE "dropped"
    BY Zenon, StatusNext
  <2> QED BY Zenon, <2>2, <2>4, <2>5
<1>6. ASSUME NEW b \in Actions \ {a}
      PROVE  status'[b] = status[b] \/ (status[b] = "parked" /\ status'[b] = "dropped")
  <2>1. Parked(b)' => Parked(b)
    BY <1>2, <1>3 DEF Parked
  <2>2. Parked(b) => owner[b] # NoSession
    BY HostAssumption DEF Parked, IndInv, TypeOK, ApprovalsMatchSessions
  <2>3. owner'[b] = owner[b]
    BY Zenon, <1>1, SubmitStep
  <2> QED BY Zenon, <1>1, <2>1, <2>2, <2>3, StatusOf, StatusNext
<1>7. Promise!Submit(a, s, TRUE)
  BY Zenon, <1>1, SubmitStep DEF Promise!Submit
<1>8. status' \in [Actions -> Promise!Statuses]
  BY Zenon, StatusNext
<1>9. Promise!Park(a, s)
  BY Zenon, <1>4, <1>5, <1>6, <1>7, <1>8 DEF Promise!Park, Promise!Drop
<1> QED BY Zenon, <1>9 DEF Promise!Next

LEMMA ExecutedRefines ==
    ASSUME IndInv, IndInv', NEW s \in Sessions, NEW a \in Actions, NEW r \in Risks,
           NEW ok \in BOOLEAN, submit_executed(s, a, r, ok)
    PROVE  Promise!Next
<1>1. submitted(s, a, r) /\ ~ requires_confirmation(r) /\ UNCHANGED pending_approvals
  BY DEF submit_executed
<1>2. closed' = closed \cup {s}
  <2>1. sessions' = [sessions EXCEPT ![s] = after_execution("Planning", ok)]
    BY Zenon, <1>1, Fresh DEF submit_executed, execute_validated_action
  <2>2. is_terminal(after_execution("Planning", ok))
    BY Executed DEF is_terminal
  <2> QED BY Zenon, <2>1, <2>2 DEF closed, IndInv, TypeOK
<1>3. runs' = [runs EXCEPT ![a] = 1]
  <2>1. runs[a] = 0
    BY <1>1, SubmitStep
  <2> QED BY <2>1 DEF submit_executed, execute_validated_action
<1>4. status' = [status EXCEPT ![a] = "executed"]
  <2>1. \A b \in Actions : status'[b] = IF b = a THEN "executed" ELSE status[b]
    BY <1>1, <1>3, SubmitStep, StatusOf, StatusNext, SMTT(60) DEF Parked, IndInv, TypeOK
  <2> QED BY Zenon, <2>1, StatusOf, StatusNext
<1>5. Promise!Submit(a, s, FALSE)
  BY Zenon, <1>1, SubmitStep DEF Promise!Submit
<1>6. Promise!Run(a, s)
  BY Zenon, <1>2, <1>4, <1>5 DEF Promise!Run
<1> QED BY <1>6 DEF Promise!Next

LEMMA GrantRefines ==
    ASSUME IndInv, IndInv', NEW p \in pending_approvals, NEW ok \in BOOLEAN, approve_request(p, ok)
    PROVE  Promise!Next
<1> DEFINE a == p.action
<1>1. /\ a \in Actions /\ p.session \in Sessions /\ owner[a] = p.session /\ runs[a] = 0
      /\ \A q \in pending_approvals \ {p} : q.action # a
  BY Zenon, ParkedFacts
<1>2. sessions[owner[a]] = "WaitingApproval"
  BY Zenon, <1>1, ParkedFacts, Transitions DEF approve_request, execute_validated_action
<1>3. /\ sessions' = [sessions EXCEPT ![owner[a]] = after_execution("WaitingApproval", ok)]
      /\ runs' = [runs EXCEPT ![a] = 1]
      /\ pending_approvals' = pending_approvals \ {p}
      /\ UNCHANGED <<owner, risk>>
  BY <1>1, <1>2, SMTT(60) DEF approve_request, execute_validated_action
<1>4. is_terminal(after_execution("WaitingApproval", ok))
  BY Zenon, Executed DEF is_terminal
<1>5. owner[a] \notin closed /\ closed' = closed \cup {owner[a]}
  BY <1>1, <1>2, <1>3, <1>4 DEF closed, is_terminal, IndInv, TypeOK
<1>6. status[a] = "parked"
  BY <1>1, StatusOf DEF Parked
<1>7. \A b \in Actions \ {a} : Parked(b)' <=> Parked(b)
  BY Zenon, <1>3 DEF Parked
<1>8. status' = [status EXCEPT ![a] = "executed"]
  <2>1. \A b \in Actions : status'[b] = IF b = a THEN "executed" ELSE status[b]
    BY <1>1, <1>3, <1>7, StatusOf, StatusNext DEF IndInv, TypeOK
  <2> QED BY Zenon, <2>1, StatusOf, StatusNext
<1>9. high' = high
  BY Zenon, <1>3 DEF high
<1>10. Promise!Grant(a)
  BY <1>3, <1>5, <1>6, <1>8, <1>9 DEF Promise!Grant
<1> QED BY Zenon, <1>1, <1>10 DEF Promise!Next

(* Every request maps to a step of the promise or to none.                  *)
LEMMA StepRefines ==
    ASSUME IndInv, IndInv', [AdNext]_adVars
    PROVE  [Promise!Next]_Promise!vars
<1>1. CASE SessionCreate
  <2>1. PICK s \in Sessions : create_session(s)
    BY Zenon, <1>1 DEF SessionCreate
  <2>2. /\ sessions[s] = "None" /\ sessions' = [sessions EXCEPT ![s] = "Ready"]
        /\ UNCHANGED <<pending_approvals, owner, risk, runs>>
    BY Zenon, <2>1, Transitions DEF create_session
  <2>3. closed' = closed
    BY <2>2 DEF closed, is_terminal, IndInv, TypeOK
  <2>4. high' = high /\ status' = status
    BY <2>2 DEF high, status
  <2> QED BY <2>2, <2>3, <2>4 DEF Promise!vars
<1>2. CASE SessionCancel
  <2>1. PICK s \in Sessions : cancel_session(s)
    BY <1>2 DEF SessionCancel
  <2>2. closed \subseteq closed'
    BY Zenon, <2>1 DEF cancel_session, cancelled, closed, is_terminal, IndInv, TypeOK
  <2> QED BY <2>1, <2>2, CloseStep DEF cancel_session
<1>3. CASE UNCHANGED adVars
  <2>1. closed' = closed /\ high' = high /\ status' = status
    BY <1>3 DEF adVars, hostVars, closed, high, status
  <2> QED BY Zenon, <1>3, <2>1 DEF adVars, hostVars, Promise!vars
<1>4. CASE Intent
  <2>1. PICK s \in Sessions :
           \/ submit_refused(s)
           \/ \E a \in Actions, r \in Risks :
                 \/ submit_invalid(s, a, r)
                 \/ submit_parked(s, a, r)
                 \/ \E ok \in BOOLEAN : submit_executed(s, a, r, ok)
    BY <1>4 DEF Intent
  <2>2. CASE submit_refused(s)
    BY <1>3, <2>2 DEF submit_refused, adVars
  <2> QED BY <2>1, <2>2, InvalidRefines, ParkedRefines, ExecutedRefines
<1>5. CASE ApprovalGrant
  <2>1. PICK p \in pending_approvals :
           (\E ok \in BOOLEAN : approve_request(p, ok)) \/ approve_too_late(p)
    BY Zenon, <1>5 DEF ApprovalGrant
  <2>2. CASE approve_too_late(p)
    <3>1. closed' = closed
      BY <2>2 DEF approve_too_late, closed
    <3> QED BY Zenon, <2>2, <3>1, CloseStep DEF approve_too_late
  <2> QED BY <2>1, <2>2, GrantRefines
<1>6. CASE ApprovalDeny
  <2>1. PICK p \in pending_approvals : deny_request(p)
    BY Zenon, <1>6 DEF ApprovalDeny
  <2>2. /\ p.session \in Sessions
        /\ sessions' = [sessions EXCEPT ![p.session] = "Cancelled"]
    BY Zenon, <2>1, ParkedFacts, Swallowed DEF deny_request
  <2>3. closed \subseteq closed'
    BY <2>2 DEF closed, is_terminal, IndInv, TypeOK
  <2> QED BY <2>1, <2>3, CloseStep DEF deny_request
<1>7. CASE ActionCancel
  <2>1. PICK s \in Sessions, a \in Actions : cancel_action(s, a)
    BY <1>7 DEF ActionCancel
  <2>2. closed' = closed
    BY <2>1 DEF cancel_action, closed
  <2> QED BY <2>1, <2>2, CloseStep DEF cancel_action
<1>8. CASE stop
  <2>1. closed \subseteq closed'
    BY Zenon, <1>8 DEF stop, cancelled, Known, closed, is_terminal, IndInv, TypeOK
  <2> QED BY <1>8, <2>1, CloseStep DEF stop
<1>9. CASE restart
  <2>1. closed \subseteq closed'
    BY <1>9 DEF restart, closed, is_terminal, IndInv, TypeOK
  <2> QED BY Zenon, <1>9, <2>1, CloseStep DEF restart
<1> QED BY Zenon, <1>1, <1>2, <1>3, <1>4, <1>5, <1>6, <1>7, <1>8, <1>9 DEF AdNext

(* The daemon implements ActionConsent: no action of high risk runs without *)
(* the grant of its own approval, nothing runs for a session that is over,  *)
(* and nothing runs twice.                                                  *)
THEOREM DaemonKeepsConsent == AdSpec => Consent
<1>1. AdInit => Promise!Init
  BY InitRefines
<1>2. IndInv /\ IndInv' /\ [AdNext]_adVars => [Promise!Next]_Promise!vars
  BY StepRefines
<1> QED BY <1>1, <1>2, HostInvariant, PTL DEF AdSpec, Consent, Promise!Spec

-----------------------------------------------------------------------------
(* The memory files (AgentMemory).                                          *)

(* Between the write and the rename of a surface its temporary file holds   *)
(* what is in memory, and no request changes the memory in between.         *)
MemInv ==
    /\ memory \in [Names -> Int]
    /\ files \in [Names -> Int]
    /\ tmps \in [Names -> Int]
    /\ written = files
    /\ flushing = <<>> \/ \E k \in 1..3 : flushing \in {<<k, "write">>, <<k, "rename">>}
    /\ \A k \in 1..3 : flushing = <<k, "rename">> => tmps[Surfaces[k]] = memory[Surfaces[k]]

(* The three surfaces are the names of their files.                         *)
LEMMA SurfaceNames == /\ Names = {"conversation", "working", "audit_recent"}
                      /\ \A k \in 1..3 : Surfaces[k] \in Names
                      /\ \A j, k \in 1..3 : Surfaces[j] = Surfaces[k] => j = k
<1>1. Surfaces[1] = "conversation" /\ Surfaces[2] = "working" /\ Surfaces[3] = "audit_recent"
  BY DEF Surfaces
<1>2. Names = {Surfaces[1], Surfaces[2], Surfaces[3]}
  BY DEF Names
<1> QED BY <1>1, <1>2

(* Every step of the daemon keeps the invariant.                            *)
LEMMA MemStepKeeps == MemInv /\ [MemNext]_memVars => MemInv'
<1> SUFFICES ASSUME MemInv, [MemNext]_memVars PROVE MemInv'
  OBVIOUS
<1> USE SurfaceNames DEF MemInv
<1>0. \A k \in 1..3 : /\ next_surface(k) # <<k, "rename">> /\ \A j \in 1..3 : next_surface(k) # <<j, "rename">>
                      /\ next_surface(k) = <<>> \/ \E j \in 1..3 : next_surface(k) = <<j, "write">>
  BY DEF next_surface
<1>1. ASSUME NEW s \in Names, NEW content \in 1..MaxContent, Remember(s, content) PROVE MemInv'
  BY <1>1 DEF Remember
<1>2. CASE FlushBegin
  BY <1>2 DEF FlushBegin
<1>3. ASSUME NEW k \in 1..3, SaveWrite(k) PROVE MemInv'
  BY Zenon, <1>3 DEF SaveWrite
<1>4. ASSUME NEW k \in 1..3, NEW left \in {tmps[Surfaces[k]], Torn}, SaveWriteFails(k, left) PROVE MemInv'
  BY <1>0, <1>4 DEF SaveWriteFails, Torn
<1>5. ASSUME NEW k \in 1..3, SaveRename(k) PROVE MemInv'
  <2>1. tmps[Surfaces[k]] = memory[Surfaces[k]]
    BY <1>5 DEF SaveRename
  <2>2. written' = files' /\ files' \in [Names -> Int] /\ tmps' \in [Names -> Int]
    BY <1>5, <2>1 DEF SaveRename, Missing
  <2> QED BY Zenon, <1>0, <1>5, <2>2 DEF SaveRename
<1>6. ASSUME NEW k \in 1..3, NEW removed \in BOOLEAN, SaveRenameFails(k, removed) PROVE MemInv'
  BY <1>0, <1>6 DEF SaveRenameFails, Missing
<1>7. CASE Crash
  BY <1>7 DEF Crash, Torn
<1>8. ASSUME NEW unread \in SUBSET Names, load_persisted(unread) PROVE MemInv'
  BY Zenon, <1>8 DEF load_persisted, decoded
<1>9. CASE UNCHANGED memVars
  BY <1>9 DEF memVars
<1> HIDE DEF MemInv
<1> QED BY Zenon, <1>1, <1>2, <1>3, <1>4, <1>5, <1>6, <1>7, <1>8, <1>9 DEF MemNext

(* A surface's file is what its last successful save wrote, whatever fails  *)
(* or stops in the flushes after it (memory_store.rs, save).                *)
THEOREM SavesStayReadable == MemSpec => []LastSaveIsReadable
<1>1. MemInit => MemInv
  BY SurfaceNames DEF MemInit, MemInv, Missing
<1>2. MemInv => LastSaveIsReadable
  BY DEF MemInv, LastSaveIsReadable
<1> QED BY <1>1, <1>2, MemStepKeeps, PTL DEF MemSpec
=============================================================================
