---------------------------- MODULE SystemLayer ----------------------------
(***************************************************************************)
(* Three parts of the system layer that share no state, side by side: the  *)
(* order services are started in, the control daemon with its audit log,   *)
(* and the update agent.  The variable part says which of them a behaviour *)
(* is about; the others keep their initial values, so the states add up    *)
(* instead of multiplying.                                                 *)
(***************************************************************************)
EXTENDS DependencyGraph, ControlDaemon, UpdateAgent

VARIABLE part           \* the part this behaviour is about

vars == <<part, dgVars, cdVars, updVars>>

Parts == {"graph", "control", "update"}

Init == /\ part \in Parts
        /\ DgInit /\ (part # "graph" => manifests = <<>>)
        /\ CdInit
        /\ UpdInit
        /\ part # "update" => /\ active = [t \in Targets |-> Missing]
                              /\ policy = CHOOSE p \in Policies : TRUE

\* The daemon's process has come to its end.
Ended == part = "control" /\ shutting_down /\ UNCHANGED vars

Next == \/ part = "graph" /\ DgNext /\ UNCHANGED <<part, cdVars, updVars>>
        \/ part = "control" /\ CdNext /\ UNCHANGED <<part, dgVars, updVars>>
        \/ part = "update" /\ UpdNext /\ UNCHANGED <<part, dgVars, cdVars>>
        \/ Ended

\* The update agent's fairness; in the other parts it drives no plan.
Spec == Init /\ [][Next]_vars /\ WF_vars(Drive /\ UNCHANGED <<part, dgVars, cdVars>>)
=============================================================================
