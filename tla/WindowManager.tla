--------------------------- MODULE WindowManager ---------------------------
(***************************************************************************)
(* The window manager (graphics/aether-wm/src/lib.rs): a table of windows, *)
(* the stacking order, the focused window and the workspaces, each kept in *)
(* a place of its own and brought in step by every operation.              *)
(*                                                                         *)
(* The manager is the record m; an operation is an operator from m to the  *)
(* manager after it.  Where a window lies on the screen, its title and the *)
(* events for the bus are left out.                                        *)
(***************************************************************************)
EXTENDS Integers, Sequences, FiniteSets, Functions

NoWindow == 0
Ids(m) == DOMAIN m.windows

new == [windows |-> <<>>, stack |-> <<>>, focused |-> NoWindow, next_id |-> 0,
        active_workspace |-> 0, workspaces |-> [k \in {0} |-> <<>>]]

\* Vec::retain: the windows of s in their order, without window id.
without(s, id) ==
    LET kept[n \in 0..Len(s)] ==
            IF n = 0 THEN <<>>
            ELSE IF s[n] = id THEN kept[n - 1] ELSE Append(kept[n - 1], s[n])
    IN kept[Len(s)]

\* The windows that may be shown and focused.
showing(m) == {w \in Ids(m) : m.windows[w].visible /\ m.windows[w].state # "Minimized"}

\* The one of these windows that is top-most in the stack, or NoWindow.
topmost(m, among) ==
    LET places == {i \in 1..Len(m.stack) : m.stack[i] \in among}
    IN IF places = {} THEN NoWindow
       ELSE m.stack[CHOOSE i \in places : \A j \in places : j <= i]

\* Focus moves to window id, or to none.
give_focus(m, id) ==
    IF id = NoWindow THEN [m EXCEPT !.focused = NoWindow]
    ELSE [m EXCEPT !.focused = id, !.windows[id].focused = TRUE]

\* A window that gets the focus is shown; the others lose it.
raised(win) == [win EXCEPT !.focused = TRUE, !.visible = TRUE,
                           !.state = IF @ = "Minimized" THEN "Normal" ELSE @]
unfocused(win) == [win EXCEPT !.focused = FALSE]

-----------------------------------------------------------------------------
create(m, app) ==
    LET id == m.next_id + 1
        win == [app_id |-> app, state |-> "Normal", focused |-> TRUE, visible |-> TRUE,
                workspace_id |-> m.active_workspace]
    IN [m EXCEPT !.next_id = id,
                 !.stack = Append(@, id),
                 !.focused = id,
                 !.windows = [w \in Ids(m) \cup {id} |->
                                 IF w = id THEN win
                                 ELSE unfocused(m.windows[w])],
                 !.workspaces[m.active_workspace] = Append(@, id)]

(* Mutant: the window is not raised. *)
FocusInPlace(m, id) ==
    IF id \notin Ids(m) THEN m
    ELSE [m EXCEPT !.focused = id,
                   !.windows = [w \in Ids(m) |->
                       IF w = id THEN raised(m.windows[w])
                       ELSE unfocused(m.windows[w])]]

focus(m, id) ==
    IF id \notin Ids(m) THEN m
    ELSE [m EXCEPT !.stack = Append(without(@, id), id),
                   !.focused = id,
                   !.windows = [w \in Ids(m) |->
                       IF w = id THEN raised(m.windows[w])
                       ELSE unfocused(m.windows[w])]]

minimize(m, id) ==
    IF id \notin Ids(m) THEN m
    ELSE LET n == [m EXCEPT !.windows[id] = [@ EXCEPT !.state = "Minimized",
                                                      !.visible = FALSE,
                                                      !.focused = FALSE]]
         IN IF m.focused # id THEN n ELSE give_focus(n, topmost(n, showing(n)))

maximize(m, id) ==
    IF id \notin Ids(m) THEN m
    ELSE focus([m EXCEPT !.windows[id] = [@ EXCEPT !.state = "Maximized",
                                                   !.visible = TRUE]], id)

restore(m, id) ==
    IF id \notin Ids(m) THEN m
    ELSE LET was == m.windows[id]
         IN focus([m EXCEPT !.windows[id] =
                       [was EXCEPT !.state = "Normal",
                                   !.visible = was.state = "Minimized" \/ was.visible]], id)

close(m, id) ==
    IF id \notin Ids(m) THEN m
    ELSE LET n == [m EXCEPT !.windows = [w \in Ids(m) \ {id} |-> m.windows[w]],
                            !.stack = without(@, id),
                            !.workspaces[m.windows[id].workspace_id] = without(@, id)]
         IN IF m.focused # id THEN n ELSE give_focus(n, topmost(n, showing(n)))

\* The next showing window by id, or the first.
cycle_focus(m) ==
    LET visible == showing(m)
        later == {w \in visible : w > m.focused}
        first(S) == CHOOSE w \in S : \A v \in S : w <= v
    IN IF visible = {} THEN m
       ELSE focus(m, IF later # {} THEN first(later) ELSE first(visible))

-----------------------------------------------------------------------------
(* Workspaces *)

create_workspace(m) ==
    LET used == DOMAIN m.workspaces
        id == 1 + CHOOSE k \in used : \A j \in used : j <= k
    IN [m EXCEPT !.workspaces = [k \in used \cup {id} |->
                                    IF k = id THEN <<>> ELSE m.workspaces[k]]]

destroy_workspace(m, id) ==
    IF id = 0 \/ id \notin DOMAIN m.workspaces THEN m
    ELSE LET moved == m.workspaces[id]
         IN [m EXCEPT !.workspaces = [k \in DOMAIN m.workspaces \ {id} |->
                                         IF k = 0 THEN m.workspaces[k] \o moved
                                         ELSE m.workspaces[k]],
                      !.windows = [w \in Ids(m) |->
                                      IF w \in Range(moved)
                                      THEN [m.windows[w] EXCEPT !.workspace_id = 0]
                                      ELSE m.windows[w]],
                      !.active_workspace = IF @ = id THEN 0 ELSE @]

\* Hides the windows of the workspace that was active, shows those of the new
\* one and focuses the top-most of them.
activate_workspace(m, id) ==
    IF id \notin DOMAIN m.workspaces THEN m
    ELSE LET old == Range(m.workspaces[m.active_workspace])
             shown == Range(m.workspaces[id])
             n == [m EXCEPT !.active_workspace = id,
                            !.windows = [w \in Ids(m) |->
                                CASE w \in shown -> [m.windows[w] EXCEPT !.visible = TRUE]
                                  [] w \in old \ shown /\ m.windows[w].state # "Minimized"
                                       -> [m.windows[w] EXCEPT !.visible = FALSE]
                                  [] OTHER -> m.windows[w]]]
         IN give_focus(n, topmost(n, {w \in showing(n) : n.windows[w].workspace_id = id}))

(* Mutant: the window stays in the list of the workspace it leaves. *)
MoveKeepsOld(m, w, target) ==
    IF target \notin DOMAIN m.workspaces \/ w \notin Ids(m) THEN m
    ELSE [m EXCEPT !.windows[w].workspace_id = target,
                   !.workspaces[target] = Append(@, w)]

move_window_to_workspace(m, w, target) ==
    IF target \notin DOMAIN m.workspaces \/ w \notin Ids(m) THEN m
    ELSE LET out == [m.workspaces EXCEPT ![m.windows[w].workspace_id] = without(@, w)]
         IN [m EXCEPT !.windows[w].workspace_id = target,
                      !.workspaces = [out EXCEPT ![target] = Append(out[target], w)]]

-----------------------------------------------------------------------------
(* The tables of a manager agree. *)
TablesAgree(m) ==
    /\ Range(m.stack) = Ids(m) /\ IsInjective(m.stack)
    /\ m.active_workspace \in DOMAIN m.workspaces
    /\ \A w \in Ids(m), k \in DOMAIN m.workspaces :
          Cardinality({i \in 1..Len(m.workspaces[k]) : m.workspaces[k][i] = w})
              = IF m.windows[w].workspace_id = k THEN 1 ELSE 0
    /\ \A w \in Ids(m) : m.windows[w].workspace_id \in DOMAIN m.workspaces
    /\ \A k \in DOMAIN m.workspaces : Range(m.workspaces[k]) \subseteq Ids(m)
    /\ m.focused # NoWindow =>
          m.focused \in Ids(m) /\ m.windows[m.focused].focused
              /\ m.focused \in showing(m)
=============================================================================
