------------------------------- MODULE Shell -------------------------------
(***************************************************************************)
(* The graphical shell: the desktop, whose threads work on a window        *)
(* manager of one workspace, and a window manager on its own with all its  *)
(* workspaces, side by side.  The variable part says which of the two a    *)
(* behaviour is about; the other keeps its initial value, so the states    *)
(* add up instead of multiplying.                                          *)
(***************************************************************************)
EXTENDS Desktop, Workspaces

VARIABLE part           \* the part this behaviour is about

vars == <<part, deskVars, desk>>

Init == part \in {"desktop", "workspaces"} /\ DeskInit /\ WsInit

Next == \/ part = "desktop" /\ DeskNext /\ UNCHANGED <<part, desk>>
        \/ part = "workspaces" /\ WsNext /\ UNCHANGED <<part, deskVars>>

Spec == Init /\ [][Next]_vars
=============================================================================
