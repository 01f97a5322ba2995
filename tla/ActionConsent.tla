--------------------------- MODULE ActionConsent ---------------------------
(***************************************************************************)
(* What the agent runtime host promises about the actions it is given,     *)
(* whatever sessions, approval tables and evictions it is built from.      *)
(*                                                                         *)
(* A session is a ticket for one action.  A submitted action is run at     *)
(* once, parked until the user answers, or dropped; a parked one is run by *)
(* the grant of its own approval or dropped.  An action of high risk is    *)
(* never run without having been parked first, nothing is run for a closed *)
(* session, and nothing that was run or dropped is ever run again.         *)
(***************************************************************************)
CONSTANTS Sessions, Actions, NoSession

VARIABLES closed,      \* sessions that are over
          owner,       \* the session an action was submitted for
          high,        \* the submitted actions that need the user's consent
          status       \* what has become of each action

vars == <<closed, owner, high, status>>

Statuses == {"new", "parked", "executed", "dropped"}

Init == /\ closed = {}
        /\ owner = [a \in Actions |-> NoSession]
        /\ high = {}
        /\ status = [a \in Actions |-> "new"]

\* The action arrives for session s, with its risk.
Submit(a, s, risky) == /\ status[a] = "new"
                       /\ s \notin closed
                       /\ owner' = [owner EXCEPT ![a] = s]
                       /\ high' = IF risky THEN high \cup {a} ELSE high

\* Refused by validation.
Refuse(a, s, risky) == /\ Submit(a, s, risky)
                       /\ status' = [status EXCEPT ![a] = "dropped"]
                       /\ closed' \in {closed, closed \cup {s}}

\* Run without asking: only when the risk is low.  The session is used up.
Run(a, s) == /\ Submit(a, s, FALSE)
             /\ status' = [status EXCEPT ![a] = "executed"]
             /\ closed' = closed \cup {s}

\* Parked actions that may turn into dropped ones in a step.
Drop(others) ==
    \A b \in others : \/ status'[b] = status[b]
                      \/ status[b] = "parked" /\ status'[b] = "dropped"

\* Parked; to make room, parked actions of others may be dropped.
Park(a, s) == /\ Submit(a, s, TRUE)
              /\ status' \in [Actions -> Statuses]
              /\ status'[a] = "parked"
              /\ Drop(Actions \ {a})
              /\ UNCHANGED closed

\* The user grants the approval of a, whose session is still open.
Grant(a) == /\ status[a] = "parked"
            /\ owner[a] \notin closed
            /\ status' = [status EXCEPT ![a] = "executed"]
            /\ closed' = closed \cup {owner[a]}
            /\ UNCHANGED <<owner, high>>

\* Parked actions are dropped and sessions closed: a denial, a cancelled
\* session, a grant that came too late, a stopped or restarted host.
Close == /\ closed' \in SUBSET Sessions
         /\ closed \subseteq closed'
         /\ status' \in [Actions -> Statuses]
         /\ Drop(Actions)
         /\ UNCHANGED <<owner, high>>

Next == \/ \E a \in Actions, s \in Sessions :
              \/ \E risky \in BOOLEAN : Refuse(a, s, risky)
              \/ Run(a, s)
              \/ Park(a, s)
        \/ \E a \in Actions : Grant(a)
        \/ Close

Spec == Init /\ [][Next]_vars
=============================================================================
