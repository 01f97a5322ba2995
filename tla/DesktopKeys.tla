---------------------------- MODULE DesktopKeys ----------------------------
(***************************************************************************)
(* The second half of a printable key in the shell's UI loop: the loop     *)
(* locks the window manager for the focused window and writes the key to   *)
(* that window's client.  The threads are scheduled fairly and a lock that *)
(* is free is eventually obtained.                                         *)
(***************************************************************************)
EXTENDS Desktop

CONSTANT MaxInbox       \* bound on the keys a client has not read

\* The lock is not recursive: a guard the loop itself still holds blocks it.
UiDeliver ==
    /\ ui = "typing"
    /\ wm_lock = "free"
    /\ inbox' = [i \in Instances |->
                    IF /\ wm.focused \in clients /\ registered[i] = wm.focused /\ alive(i)
                       /\ Len(inbox[i]) < MaxInbox
                    THEN Append(inbox[i], "key") ELSE inbox[i]]
    /\ ui' = "loop"
    /\ UNCHANGED <<appVars, wm, wm_lock, thread, registered, clients, closing, commands>>

KeysNext == DeskNext \/ UiDeliver

KeysSpec == DeskInit /\ [][KeysNext]_deskVars /\ WF_deskVars(UiDeliver)

(* A key that was typed gets past the UI loop: it is forwarded to the       *)
(* focused application if there is one, and the loop goes on.               *)
KeyIsDelivered == ui = "typing" ~> ui = "loop"
=============================================================================
