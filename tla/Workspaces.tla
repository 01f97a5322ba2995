----------------------------- MODULE Workspaces -----------------------------
(***************************************************************************)
(* The whole interface of the window manager (graphics/aether-wm/src/      *)
(* lib.rs), workspaces included, in any order of calls.  The shell creates *)
(* no workspace itself; this is what a caller of the library may rely on.  *)
(***************************************************************************)
EXTENDS WindowManager

CONSTANTS MaxWindows,     \* bound on the windows ever created
          MaxWorkspaces   \* bound on the workspaces, the first one included

VARIABLE desk             \* the window manager

WsInit == desk = new

\* The calls that name a window, which may be gone or not yet there.
WindowCall(w) ==
    desk' \in {focus(desk, w), minimize(desk, w), maximize(desk, w), restore(desk, w),
               close(desk, w)}

WorkspaceCall(k) ==
    desk' \in {destroy_workspace(desk, k), activate_workspace(desk, k)}

Move(w, k) == desk' = move_window_to_workspace(desk, w, k)

Create == desk.next_id < MaxWindows /\ desk' = create(desk, "app")

Cycle == desk' = cycle_focus(desk)

CreateWorkspace == /\ Cardinality(DOMAIN desk.workspaces) < MaxWorkspaces
                   /\ desk' = create_workspace(desk)

WsNext == \/ Create \/ Cycle \/ CreateWorkspace
          \/ \E w \in 1..MaxWindows : WindowCall(w)
          \/ \E w \in 1..MaxWindows, k \in 0..MaxWorkspaces : Move(w, k)
          \/ \E k \in 0..MaxWorkspaces : WorkspaceCall(k)

WsSpec == WsInit /\ [][WsNext]_desk

-----------------------------------------------------------------------------
(* Every order of calls leaves the five tables of the manager in step: each *)
(* window is once in the stacking order and once in the list of the         *)
(* workspace it says it is on, and of no other, none is listed that was     *)
(* closed, the active workspace exists, and the focused window exists and   *)
(* can be seen.                                                             *)
WindowTablesAgree == TablesAgree(desk)
=============================================================================
