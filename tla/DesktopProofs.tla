--------------------------- MODULE DesktopProofs ----------------------------
(***************************************************************************)
(* The desktop, for any set of applications and any number of instances,   *)
(* commands and closing clients: the focus is on the window on top, an     *)
(* application has one process, and no window is left behind.              *)
(*                                                                         *)
(* The inductive invariant DeskInv has one part per owner of the state.    *)
(* DeskWm: the tables agree (WmInv), the focused window is the top-most    *)
(* showing one and the only one with the flag, and, as the shell has one   *)
(* workspace, only minimized windows are hidden.  AppInv: the records and  *)
(* the processes of the application manager.  ShellInv: who registered     *)
(* each window, and that the removal of a window whose owner is gone or    *)
(* was told to close is in the channel or in the hands of a client.        *)
(***************************************************************************)
EXTENDS Desktop, WindowManagerProofs, TLAPS

(* On one workspace: the focused window is the top-most showing one and the *)
(* only one with the flag, and only minimized windows are hidden.           *)
Flags(m, x) == \A w \in Ids(m) : m.windows[w].focused <=> w = x
Hidden(m, S) == \A w \in S : m.windows[w].state # "Minimized" => m.windows[w].visible

DeskWm(A, m) == /\ WmInv(A, m)
                /\ DOMAIN m.workspaces = {0}
                /\ IsTop(m.stack, showing(m), m.focused)
                /\ Flags(m, m.focused)
                /\ Hidden(m, Ids(m))

(* A window pushed on the stack is on top of those it is among.             *)
LEMMA LastIsTop ==
    ASSUME NEW I, NEW s \in Seq(I), NEW S, NEW x \in S
    PROVE  IsTop(Append(s, x), S, x)
<1> DEFINE r == Append(s, x)
<1>1. Len(r) = Len(s) + 1 /\ r[Len(s) + 1] = x /\ Len(s) \in Nat
  OBVIOUS
<1> HIDE DEF r
<1>2. Len(r) \in 1..Len(r) /\ r[Len(r)] = x /\ \A q \in 1..Len(r) : ~ (q > Len(r))
  BY <1>1
<1>3. IsTop(r, S, x)
  BY Zenon, <1>2 DEF IsTop
<1> QED BY Zenon, <1>3 DEF r

(* Losing another window, from what shows or from the stack, leaves the     *)
(* top-most one.                                                            *)
LEMMA TopStays ==
    ASSUME NEW I, NEW s \in Seq(I), NEW S, NEW x, NEW id, IsTop(s, S, x), x # id
    PROVE  IsTop(s, S \ {id}, x) /\ IsTop(without(s, id), S \ {id}, x)
<1>1. IsTop(s, S \ {id}, x)
  BY Zenon DEF IsTop
<1> DEFINE r == without(s, id)
<1>2. r \in Seq(I)
  BY Zenon, WithoutKeeps
<1>3. PICK f : KeptBy(s, id, Len(s), r, f)
  BY Zenon, WithoutKeeps
<1> HIDE DEF r
<1>4. CASE x = NoWindow /\ \A i \in 1..Len(s) : s[i] \notin S
  <2>1. \A i \in 1..Len(r) : r[i] \notin S
    BY Zenon, <1>3, <1>4 DEF KeptBy
  <2> QED BY Zenon, <1>1, <1>4, <2>1 DEF IsTop, r
<1>5. CASE \E p \in 1..Len(s) : /\ s[p] = x /\ x \in S
                                /\ \A q \in 1..Len(s) : q > p => s[q] \notin S
  <2>1. PICK p \in 1..Len(s) : /\ s[p] = x /\ x \in S
                               /\ \A q \in 1..Len(s) : q > p => s[q] \notin S
    BY Zenon, <1>5
  <2>2. PICK i \in 1..Len(r) : f[i] = p
    BY Zenon, <1>3, <2>1 DEF KeptBy
  <2>3. r[i] = x
    BY Zenon, <1>3, <2>1, <2>2 DEF KeptBy
  <2>4. \A q \in 1..Len(r) : q > i => r[q] \notin S
    <3> SUFFICES ASSUME NEW q \in 1..Len(r), q > i PROVE r[q] \notin S
      OBVIOUS
    <3>1. f[q] > p /\ f[q] \in 1..Len(s)
      BY Zenon, <1>3, <2>2 DEF KeptBy
    <3> QED BY Zenon, <1>3, <2>1, <3>1 DEF KeptBy
  <2>5. IsTop(r, S \ {id}, x)
    BY Zenon, <2>1, <2>3, <2>4 DEF IsTop
  <2> QED BY Zenon, <1>1, <2>5 DEF r
<1> QED BY Zenon, <1>4, <1>5 DEF IsTop

(* Focus given to the top-most window, when no other has the flag.          *)
LEMMA GiveFocusToTop ==
    ASSUME NEW A, NEW m, WmTables(A, m), DOMAIN m.workspaces = {0}, Hidden(m, Ids(m)),
           NEW x, IsTop(m.stack, showing(m), x),
           \A w \in Ids(m) : m.windows[w].focused => w = x
    PROVE  DeskWm(A, give_focus(m, x))
<1> DEFINE n == give_focus(m, x)
<1>1. x = NoWindow \/ x \in showing(m)
  BY Zenon DEF IsTop
<1>2. /\ WmInv(A, n) /\ Ids(n) = Ids(m) /\ n.focused = x /\ n.stack = m.stack
      /\ n.workspaces = m.workspaces
      /\ x # NoWindow => n.windows = [m.windows EXCEPT ![x] = [m.windows[x] EXCEPT !.focused = TRUE]]
      /\ x = NoWindow => n.windows = m.windows
  BY <1>1, GiveFocusKeeps
<1> HIDE DEF n
<1>3. m.windows \in [Ids(m) -> Win(A)] /\ Ids(m) \subseteq Nat \ {0}
  BY DEF WmTables, WindowsOk, Ids
<1>4. ASSUME NEW w \in Ids(m)
      PROVE  /\ n.windows[w].visible = m.windows[w].visible
             /\ n.windows[w].state = m.windows[w].state
             /\ n.windows[w].focused <=> w = x
  <2>1. CASE x = NoWindow
    <3>1. n.windows[w] = m.windows[w] /\ w # x
      BY Zenon, <1>2, <1>3, <2>1 DEF NoWindow
    <3> QED BY <3>1
  <2>2. CASE x # NoWindow
    <3>1. x \in Ids(m)
      BY Zenon, <1>1, <2>2 DEF showing
    <3>2. CASE w # x
      <4>1. n.windows[w] = m.windows[w]
        BY Zenon, <1>2, <1>3, <2>2, <3>2
      <4> QED BY Zenon, <3>2, <4>1
    <3>3. CASE w = x
      <4>1. n.windows[x] = [m.windows[x] EXCEPT !.focused = TRUE] /\ m.windows[x] \in Win(A)
        BY Zenon, <1>2, <1>3, <2>2, <3>1
      <4>2. LET q == [m.windows[x] EXCEPT !.focused = TRUE]
            IN  q.state = m.windows[x].state /\ q.focused = TRUE /\ q.visible = m.windows[x].visible
        BY <4>1, SetFocused
      <4> QED BY <3>3, <4>1, <4>2, Zenon
    <3> QED BY Zenon, <3>2, <3>3
  <2> QED BY Zenon, <2>1, <2>2
<1>5. showing(n) = showing(m)
  BY Zenon, <1>2, <1>4 DEF showing
<1>6. Hidden(n, Ids(n)) /\ Flags(n, n.focused)
  BY Zenon, <1>2, <1>4 DEF Hidden, Flags
<1> QED BY Zenon, <1>2, <1>5, <1>6 DEF DeskWm, n

(* focus puts its window on top, whatever the flags were before.            *)
LEMMA FocusOnTop ==
    ASSUME NEW A, NEW m, WmTables(A, m), DOMAIN m.workspaces = {0}, NEW id \in Ids(m),
           Hidden(m, Ids(m) \ {id})
    PROVE  DeskWm(A, focus(m, id))
<1> DEFINE n == focus(m, id)
<1>1. /\ WmInv(A, n) /\ n.focused = id /\ Ids(n) = Ids(m)
      /\ n.stack = Append(without(m.stack, id), id) /\ n.workspaces = m.workspaces
      /\ \A w \in Ids(m) : n.windows[w] = IF w = id THEN raised(m.windows[w])
                                          ELSE unfocused(m.windows[w])
  BY FocusKeeps
<1> HIDE DEF n
<1>2. \A w \in Ids(m) : m.windows[w] \in Win(A)
  BY DEF WmTables, WindowsOk, Ids
<1>3. n.windows[id].focused /\ n.windows[id].visible /\ n.windows[id].state # "Minimized"
  <2>1. n.windows[id] = raised(m.windows[id])
    BY Zenon, <1>1
  <2> QED BY Zenon, <1>2, <2>1, RaisedShows
<1>4. ASSUME NEW w \in Ids(m), w # id
      PROVE  /\ ~ n.windows[w].focused
             /\ n.windows[w].visible = m.windows[w].visible
             /\ n.windows[w].state = m.windows[w].state
  <2>1. n.windows[w] = unfocused(m.windows[w]) /\ m.windows[w] \in Win(A)
    BY <1>1, <1>2, <1>4, Zenon
  <2> QED BY <2>1, Unfocused, Zenon
<1>5. Flags(n, n.focused) /\ Hidden(n, Ids(n))
  BY Zenon, <1>1, <1>3, <1>4 DEF Flags, Hidden
<1>6. id \in showing(n)
  BY Zenon, <1>1, <1>3 DEF showing
<1>7. IsTop(n.stack, showing(n), n.focused)
  <2>1. without(m.stack, id) \in Seq(Ids(m))
    BY Zenon, WithoutRange DEF WmTables, StackOk, Ids
  <2> QED BY Zenon, <1>1, <1>6, <2>1, LastIsTop
<1> QED BY Zenon, <1>1, <1>5, <1>7 DEF DeskWm, n

-----------------------------------------------------------------------------
(* The calls of the shell, one by one.                                      *)
LEMMA DeskFocus ==
    ASSUME NEW A, NEW m, DeskWm(A, m), NEW id
    PROVE  DeskWm(A, focus(m, id))
<1>1. CASE id \in Ids(m)
  <2>1. Hidden(m, Ids(m) \ {id}) /\ WmTables(A, m) /\ DOMAIN m.workspaces = {0}
    BY DEF DeskWm, Hidden, WmInv
  <2> QED BY Zenon, <1>1, <2>1, FocusOnTop
<1>2. CASE id \notin Ids(m)
  BY Zenon, <1>2 DEF focus
<1> QED BY Zenon, <1>1, <1>2

LEMMA DeskMinimize ==
    ASSUME NEW A, NEW m, DeskWm(A, m), NEW id
    PROVE  DeskWm(A, minimize(m, id))
<1>1. CASE id \notin Ids(m)
  BY Zenon, <1>1 DEF minimize
<1>2. CASE id \in Ids(m)
  <2> DEFINE q == [m.windows[id] EXCEPT !.state = "Minimized", !.visible = FALSE,
                                        !.focused = FALSE]
             n == SetWindow(m, id, q)
  <2>1. minimize(m, id) = IF m.focused # id THEN n ELSE give_focus(n, topmost(n, showing(n)))
    BY <1>2, Zenon DEF minimize, SetWindow
  <2>2. m.windows[id] \in Win(A) /\ WmTables(A, m) /\ DOMAIN m.workspaces = {0} /\ WmInv(A, m)
    BY Zenon, <1>2 DEF DeskWm, WmInv, WmTables, WindowsOk, Ids
  <2>3. /\ q \in Win(A) /\ q.workspace_id = m.windows[id].workspace_id
        /\ q.state = "Minimized" /\ ~ q.focused
    BY <2>2, MinimizedLook, Zenon
  <2> HIDE DEF q
  <2>4. /\ WmTables(A, n) /\ Ids(n) = Ids(m) /\ n.focused = m.focused /\ n.stack = m.stack
        /\ n.workspaces = m.workspaces /\ n.windows[id] = q
        /\ \A w \in Ids(m) \ {id} : n.windows[w] = m.windows[w]
    <3>1. OnlyLook(A, m, n, id) /\ n.windows[id] = q
      BY <1>2, <2>2, <2>3, OneLook
    <3> HIDE DEF n
    <3> QED BY Zenon, <3>1 DEF OnlyLook
  <2> HIDE DEF n
  <2>5. showing(n) = showing(m) \ {id}
    BY Zenon, <1>2, <2>3, <2>4 DEF showing
  <2>6. Hidden(n, Ids(n))
    BY Zenon, <2>3, <2>4 DEF DeskWm, Hidden
  <2>7. m.stack \in Seq(DOMAIN m.windows)
    BY Zenon, <2>2 DEF WmTables, StackOk
  <2>8. CASE m.focused # id
    <3>0. IsTop(m.stack, showing(m), m.focused)
      BY Zenon DEF DeskWm
    <3>1. IsTop(n.stack, showing(n), n.focused)
      <4>1. IsTop(m.stack, showing(m) \ {id}, m.focused)
        BY Zenon, <2>7, <2>8, <3>0, TopStays
      <4> QED BY Zenon, <2>4, <2>5, <4>1
    <3>2. Flags(n, n.focused)
      BY <2>3, <2>4, <2>8 DEF DeskWm, Flags
    <3>3. WmInv(A, n)
      BY Zenon, <2>1, <2>2, <2>8, MinimizeKeeps
    <3> QED BY Zenon, <2>1, <2>2, <2>4, <2>6, <2>8, <3>1, <3>2, <3>3 DEF DeskWm
  <2>9. CASE m.focused = id
    <3> DEFINE x == topmost(n, showing(n))
    <3>1. IsTop(n.stack, showing(n), x)
      BY Zenon, <2>4, <2>7, TopmostIsTop
    <3>2. \A w \in Ids(n) : ~ n.windows[w].focused
      BY Zenon, <2>3, <2>4, <2>9 DEF DeskWm, Flags
    <3> HIDE DEF x
    <3>3. DeskWm(A, give_focus(n, x))
      BY Zenon, <2>2, <2>4, <2>6, <3>1, <3>2, GiveFocusToTop
    <3> QED BY Zenon, <2>1, <2>9, <3>3 DEF x
  <2> QED BY Zenon, <2>8, <2>9
<1> QED BY Zenon, <1>1, <1>2

LEMMA DeskShown ==
    ASSUME NEW A, NEW m, DeskWm(A, m), NEW id \in Ids(m), NEW x \in States, NEW b \in BOOLEAN
    PROVE  DeskWm(A, focus(SetWindow(m, id, Shown(m.windows[id], x, b)), id))
<1> DEFINE n == SetWindow(m, id, Shown(m.windows[id], x, b))
<1>1. /\ WmTables(A, n) /\ Ids(n) = Ids(m) /\ n.workspaces = m.workspaces
      /\ \A w \in Ids(m) \ {id} : n.windows[w] = m.windows[w]
  <2>1. OnlyLook(A, m, n, id)
    BY Zenon, ShownThenFocused DEF DeskWm
  <2> HIDE DEF n
  <2> QED BY Zenon, <2>1 DEF OnlyLook
<1> HIDE DEF n
<1>2. Hidden(n, Ids(n) \ {id}) /\ DOMAIN n.workspaces = {0}
  BY Zenon, <1>1 DEF DeskWm, Hidden
<1>3. DeskWm(A, focus(n, id))
  BY Zenon, <1>1, <1>2, FocusOnTop
<1> QED BY Zenon, <1>3 DEF n

LEMMA DeskMaximize ==
    ASSUME NEW A, NEW m, DeskWm(A, m), NEW id
    PROVE  DeskWm(A, maximize(m, id))
<1>1. CASE id \notin Ids(m)
  BY Zenon, <1>1 DEF maximize
<1>2. CASE id \in Ids(m)
  <2>1. TRUE \in BOOLEAN /\ "Maximized" \in States
    BY Zenon DEF States
  <2>2. DeskWm(A, focus(SetWindow(m, id, Shown(m.windows[id], "Maximized", TRUE)), id))
    BY Zenon, <1>2, <2>1, DeskShown
  <2> QED BY <1>2, <2>2, MaximizeIs, Zenon
<1> QED BY <1>1, <1>2

LEMMA DeskRestore ==
    ASSUME NEW A, NEW m, DeskWm(A, m), NEW id
    PROVE  DeskWm(A, restore(m, id))
<1>1. CASE id \notin Ids(m)
  BY <1>1 DEF restore
<1>2. CASE id \in Ids(m)
  <2>1. PICK b \in BOOLEAN :
            restore(m, id) = focus(SetWindow(m, id, Shown(m.windows[id], "Normal", b)), id)
    BY <1>2, RestoreIs, Zenon DEF DeskWm
  <2>2. "Normal" \in States
    BY DEF States
  <2>3. DeskWm(A, focus(SetWindow(m, id, Shown(m.windows[id], "Normal", b)), id))
    BY <1>2, <2>2, DeskShown, Zenon
  <2> QED BY <2>1, <2>3, Zenon
<1> QED BY <1>1, <1>2

LEMMA DeskClose ==
    ASSUME NEW A, NEW m, DeskWm(A, m), NEW id
    PROVE  DeskWm(A, close(m, id)) /\ Ids(close(m, id)) = Ids(m) \ {id}
             /\ close(m, id).next_id = m.next_id
<1>1. CASE id \notin Ids(m)
  BY Zenon, <1>1 DEF close
<1>2. CASE id \in Ids(m)
  <2> DEFINE n == Dropped(m, id)
  <2>1. close(m, id) = IF m.focused # id THEN n ELSE give_focus(n, topmost(n, showing(n)))
    BY <1>2, Zenon DEF close, Dropped
  <2>2. WmTables(A, m) /\ DOMAIN m.workspaces = {0} /\ WmInv(A, m)
    BY Zenon DEF DeskWm, WmInv
  <2>3. /\ WmTables(A, n) /\ Ids(n) = Ids(m) \ {id} /\ n.focused = m.focused
        /\ \A w \in Ids(n) : n.windows[w] = m.windows[w]
        /\ n.stack = without(m.stack, id) /\ DOMAIN n.workspaces = DOMAIN m.workspaces
    BY <1>2, <2>2, DropKeeps
  <2>0. n.next_id = m.next_id
    BY Zenon, <2>2 DEF Dropped, WmTables, IsManager
  <2> HIDE DEF n
  <2>4. showing(n) = showing(m) \ {id}
    BY Zenon, <2>3 DEF showing
  <2>5. Hidden(n, Ids(n))
    BY Zenon, <2>3 DEF DeskWm, Hidden
  <2>6. m.stack \in Seq(DOMAIN m.windows)
    BY Zenon, <2>2 DEF WmTables, StackOk
  <2>7. CASE m.focused # id
    <3>1. IsTop(n.stack, showing(n), n.focused)
      BY <2>3, <2>4, <2>6, <2>7, TopStays DEF DeskWm
    <3>2. Flags(n, n.focused)
      BY Zenon, <2>3, <2>7 DEF DeskWm, Flags
    <3>3. WmInv(A, n)
      BY Zenon, <2>1, <2>2, <2>7, CloseKeeps
    <3> QED BY Zenon, <2>0, <2>1, <2>2, <2>3, <2>5, <2>7, <3>1, <3>2, <3>3 DEF DeskWm
  <2>8. CASE m.focused = id
    <3> DEFINE x == topmost(n, showing(n))
    <3>1. IsTop(n.stack, showing(n), x)
      <4>1. n.stack \in Seq(DOMAIN n.windows)
        BY Zenon, <2>3 DEF WmTables, StackOk
      <4> QED BY Zenon, <4>1, TopmostIsTop
    <3>2. \A w \in Ids(n) : ~ n.windows[w].focused
      BY Zenon, <2>3, <2>8 DEF DeskWm, Flags
    <3>3. x = NoWindow \/ x \in showing(n)
      BY Zenon, <2>3, TopmostAmong
    <3> HIDE DEF x
    <3>4. DeskWm(A, give_focus(n, x))
      BY Zenon, <2>2, <2>3, <2>5, <3>1, <3>2, GiveFocusToTop
    <3>5. Ids(give_focus(n, x)) = Ids(n)
      BY Zenon, <2>3, <3>3, GiveFocusKeeps
    <3>6. give_focus(n, x).next_id = n.next_id
      BY <2>3 DEF give_focus, WmTables, IsManager
    <3> QED BY Zenon, <2>0, <2>1, <2>3, <2>8, <3>4, <3>5, <3>6 DEF x
  <2> QED BY Zenon, <2>7, <2>8
<1> QED BY Zenon, <1>1, <1>2

LEMMA DeskCycle ==
    ASSUME NEW A, NEW m, DeskWm(A, m)
    PROVE  DeskWm(A, cycle_focus(m))
<1>1. cycle_focus(m) = m \/ \E w \in showing(m) : cycle_focus(m) = focus(m, w)
  BY Zenon, CycleIs DEF DeskWm, WmInv
<1> QED BY <1>1, DeskFocus

LEMMA DeskCreate ==
    ASSUME NEW A, NEW m, DeskWm(A, m), NEW app \in A
    PROVE  /\ DeskWm(A, create(m, app))
           /\ Ids(create(m, app)) = Ids(m) \union {m.next_id + 1}
           /\ create(m, app).next_id = m.next_id + 1
<1> DEFINE n == create(m, app)
           id == m.next_id + 1
<1>1. /\ WmInv(A, n)
      /\ Ids(n) = Ids(m) \union {id} /\ n.next_id = id /\ n.focused = id
      /\ n.stack = Append(m.stack, id) /\ n.windows[id] = NewWin(m, app)
      /\ \A w \in Ids(m) : n.windows[w] = unfocused(m.windows[w])
      /\ DOMAIN n.workspaces = DOMAIN m.workspaces
  BY CreateKeeps DEF DeskWm
<1>2. /\ \A w \in Ids(m) : m.windows[w] \in Win(A)
      /\ m.next_id \in Nat /\ Ids(m) \subseteq 1..m.next_id /\ m.stack \in Seq(Ids(m))
  BY Zenon DEF DeskWm, WmInv, WmTables, WindowsOk, StackOk, Ids
<1> HIDE DEF n
<1>3. id \notin Ids(m)
  BY <1>2
<1> HIDE DEF id
<1>4. n.windows[id].focused /\ n.windows[id].visible /\ n.windows[id].state # "Minimized"
  BY <1>1 DEF NewWin
<1>5. ASSUME NEW w \in Ids(m)
      PROVE  /\ ~ n.windows[w].focused
             /\ n.windows[w].visible = m.windows[w].visible
             /\ n.windows[w].state = m.windows[w].state
  BY <1>1, <1>2, Unfocused, Zenon
<1>6. Flags(n, n.focused)
  BY <1>1, <1>3, <1>4, <1>5 DEF Flags
<1>7. Hidden(n, Ids(n))
  BY Zenon, <1>1, <1>4, <1>5 DEF Hidden, DeskWm
<1>8. IsTop(n.stack, showing(n), n.focused)
  <2>1. id \in showing(n)
    BY Zenon, <1>1, <1>4 DEF showing
  <2> QED BY <1>1, <1>2, <2>1, LastIsTop
<1> QED BY Zenon, <1>1, <1>6, <1>7, <1>8 DEF DeskWm, n, id

-----------------------------------------------------------------------------
(* With one workspace, activating it shows what was showing.                *)
LEMMA DeskActivate ==
    ASSUME NEW A, NEW m, DeskWm(A, m), NEW id
    PROVE  /\ DeskWm(A, activate_workspace(m, id))
           /\ Ids(activate_workspace(m, id)) = Ids(m)
           /\ activate_workspace(m, id).next_id = m.next_id
<1>1. CASE id \notin DOMAIN m.workspaces
  BY Zenon, <1>1 DEF activate_workspace
<1>2. CASE id \in DOMAIN m.workspaces
  <2> DEFINE old == Range(m.workspaces[m.active_workspace])
             shown == Range(m.workspaces[id])
             v == [w \in Ids(m) |->
                      CASE w \in shown -> [m.windows[w] EXCEPT !.visible = TRUE]
                        [] w \in old \ shown /\ m.windows[w].state # "Minimized"
                             -> [m.windows[w] EXCEPT !.visible = FALSE]
                        [] OTHER -> m.windows[w]]
             n == [m EXCEPT !.active_workspace = id, !.windows = v]
             S == {w \in showing(n) : n.windows[w].workspace_id = id}
  <2>0. WmTables(A, m) /\ DOMAIN m.workspaces = {0} /\ id = 0 /\ Hidden(m, Ids(m))
          /\ IsTop(m.stack, showing(m), m.focused) /\ Flags(m, m.focused)
    BY Zenon, <1>2 DEF DeskWm, WmInv
  <2>1. activate_workspace(m, id) = give_focus(n, topmost(n, S))
    BY <1>2, Zenon DEF activate_workspace
  <2>a. \A w \in Ids(m) : m.windows[w].workspace_id = 0 /\ w \in shown
    BY Zenon, <2>0 DEF WmTables, WorkspacesOk, Ids
  <2>2. ASSUME NEW w \in Ids(m)
        PROVE  /\ v[w] \in Win(A) /\ v[w].workspace_id = m.windows[w].workspace_id
               /\ v[w].visible = TRUE /\ v[w].state = m.windows[w].state
               /\ v[w].focused = m.windows[w].focused
    <3>1. m.windows[w] \in Win(A) /\ TRUE \in BOOLEAN
      BY Zenon, <2>0 DEF WmTables, WindowsOk, Ids
    <3>2. w \in shown
      BY Zenon, <2>a
    <3>3. v[w] = [m.windows[w] EXCEPT !.visible = TRUE]
      BY <3>2, Zenon
    <3> HIDE DEF v
    <3>4. LET q == [m.windows[w] EXCEPT !.visible = TRUE]
          IN /\ q \in Win(A)
             /\ q.workspace_id = m.windows[w].workspace_id
             /\ q.visible = TRUE
             /\ q.state = m.windows[w].state
             /\ q.focused = m.windows[w].focused
      BY Zenon, <3>1, SetVisible
    <3> QED BY <3>3, <3>4, Zenon
  <2>3. v = [w \in Ids(m) |-> v[w]]
    BY Zenon
  <2> HIDE DEF v
  <2>10. n = [m EXCEPT !.active_workspace = id, !.windows = v]
    OBVIOUS
  <2> HIDE DEF n
  <2>4. n = [windows |-> v, stack |-> m.stack, focused |-> m.focused,
             next_id |-> m.next_id, active_workspace |-> id, workspaces |-> m.workspaces]
    BY Zenon, <2>0, <2>10 DEF WmTables, IsManager
  <2>5. /\ IsManager(n) /\ n.windows = v /\ n.stack = m.stack
        /\ n.next_id = m.next_id /\ n.active_workspace = id /\ n.workspaces = m.workspaces
    BY Zenon, <2>4 DEF IsManager
  <2>6. v \in [Ids(m) -> Win(A)]
    BY Zenon, <2>2, <2>3
  <2>7. WmTables(A, n)
    BY Zenon, <1>2, <2>0, <2>2, <2>5, <2>6, SameTables
  <2>8. Ids(n) = Ids(m)
    BY Zenon, <2>5, <2>6 DEF Ids
  <2>9. showing(n) = showing(m)
    <3>1. \A w \in Ids(m) : m.windows[w].state # "Minimized" => m.windows[w].visible
      BY <2>0 DEF Hidden
    <3> QED BY Zenon, <2>2, <2>5, <2>8, <3>1 DEF showing
  <2>11. S = showing(m)
    <3>1. \A w \in showing(n) : n.windows[w].workspace_id = id
      BY Zenon, <2>0, <2>2, <2>5, <2>8, <2>a DEF showing
    <3> QED BY Zenon, <2>9, <3>1
  <2> HIDE DEF S
  <2> DEFINE x == topmost(n, S)
  <2>12. m.stack \in Seq(DOMAIN m.windows)
    BY <2>0 DEF WmTables, StackOk
  <2>13. IsTop(m.stack, showing(m), x)
    <3>1. IsTop(n.stack, S, x)
      BY Zenon, <2>5, <2>12, TopmostIsTop
    <3> QED BY Zenon, <2>5, <2>11, <3>1
  <2> HIDE DEF x
  <2>14. x = m.focused
    BY Zenon, <2>0, <2>12, <2>13, TopIsUnique
  <2>15. Hidden(n, Ids(n))
    BY Zenon, <2>2, <2>5, <2>8 DEF Hidden
  <2>16. \A w \in Ids(n) : n.windows[w].focused => w = x
    BY Zenon, <2>0, <2>2, <2>5, <2>8, <2>14 DEF Flags
  <2>17. DeskWm(A, give_focus(n, x))
    BY <2>0, <2>5, <2>7, <2>9, <2>13, <2>15, <2>16, GiveFocusToTop
  <2>18. x = NoWindow \/ x \in showing(n)
    BY Zenon, <2>9, <2>13 DEF IsTop
  <2>19. Ids(give_focus(n, x)) = Ids(n)
    BY Zenon, <2>7, <2>18, GiveFocusKeeps
  <2>20. give_focus(n, x).next_id = n.next_id
    BY <2>5 DEF give_focus, IsManager
  <2> QED BY Zenon, <2>1, <2>5, <2>8, <2>17, <2>19, <2>20 DEF x
<1> QED BY Zenon, <1>1, <1>2

(* The shell starts with the empty manager.                                 *)
LEMMA DeskNew == ASSUME NEW A PROVE DeskWm(A, new) /\ Ids(new) = {}
<1>1. WmInv(A, new)
  BY Zenon, NewKeeps
<1>2. /\ new.windows = <<>> /\ new.stack = <<>> /\ new.focused = NoWindow
      /\ new.workspaces = [k \in {0} |-> <<>>]
  BY Zenon DEF new
<1>3. Ids(new) = {}
  BY <1>2 DEF Ids
<1>4. Len(new.stack) = 0
  BY <1>2
<1>5. IsTop(new.stack, showing(new), new.focused)
  BY <1>2, <1>4 DEF IsTop
<1> QED BY <1>1, <1>2, <1>3, <1>5 DEF DeskWm, Flags, Hidden

(* The window and the last id given out change only where they are said to. *)
SameIds(m, n) == Ids(n) = Ids(m) /\ n.next_id = m.next_id

(* The windows stay the same under every call but create and close.         *)
LEMMA FocusSameIds ==
    ASSUME NEW A, NEW m, WmTables(A, m), NEW id
    PROVE  SameIds(m, focus(m, id))
<1>1. CASE id \notin Ids(m)
  BY Zenon, <1>1 DEF focus, SameIds
<1>2. CASE id \in Ids(m)
  <2>1. focus(m, id).next_id = m.next_id
    BY Zenon, <1>2 DEF focus, WmTables, IsManager
  <2>2. Ids(focus(m, id)) = Ids(m)
    BY Zenon, <1>2, FocusKeeps
  <2> QED BY Zenon, <2>1, <2>2 DEF SameIds
<1> QED BY Zenon, <1>1, <1>2

LEMMA MinimizeSameIds ==
    ASSUME NEW A, NEW m, WmTables(A, m), NEW id
    PROVE  SameIds(m, minimize(m, id))
<1>1. CASE id \notin Ids(m)
  BY Zenon, <1>1 DEF minimize, SameIds
<1>2. CASE id \in Ids(m)
  <2> DEFINE q == [m.windows[id] EXCEPT !.state = "Minimized", !.visible = FALSE,
                                        !.focused = FALSE]
             n == SetWindow(m, id, q)
             x == topmost(n, showing(n))
  <2>1. minimize(m, id) = IF m.focused # id THEN n ELSE give_focus(n, x)
    BY <1>2, Zenon DEF minimize, SetWindow
  <2> HIDE DEF q
  <2>2. Ids(n) = Ids(m) /\ n.next_id = m.next_id /\ IsManager(n)
    BY DEF SetWindow, WmTables, IsManager, Ids
  <2> HIDE DEF n, x
  <2>3. Ids(give_focus(n, x)) = Ids(n) /\ give_focus(n, x).next_id = n.next_id
    BY Zenon, <2>2 DEF give_focus, IsManager, Ids
  <2> QED BY Zenon, <2>1, <2>2, <2>3 DEF SameIds
<1> QED BY <1>1, <1>2

LEMMA ShownSameIds ==
    ASSUME NEW A, NEW m, WmInv(A, m), NEW id \in Ids(m), NEW x \in States, NEW b \in BOOLEAN
    PROVE  SameIds(m, focus(SetWindow(m, id, Shown(m.windows[id], x, b)), id))
<1> DEFINE n == SetWindow(m, id, Shown(m.windows[id], x, b))
<1>1. OnlyLook(A, m, n, id)
  BY Zenon, ShownThenFocused
<1> HIDE DEF n
<1>2. SameIds(n, focus(n, id))
  BY Zenon, <1>1, FocusSameIds DEF OnlyLook
<1> QED BY Zenon, <1>1, <1>2 DEF SameIds, OnlyLook, n

LEMMA MaximizeSameIds ==
    ASSUME NEW A, NEW m, WmInv(A, m), NEW id
    PROVE  SameIds(m, maximize(m, id)) /\ SameIds(m, restore(m, id))
<1>1. CASE id \notin Ids(m)
  BY Zenon, <1>1 DEF maximize, restore, SameIds
<1>2. CASE id \in Ids(m)
  <2>1. TRUE \in BOOLEAN /\ "Maximized" \in States /\ "Normal" \in States
    BY Zenon DEF States
  <2>2. SameIds(m, focus(SetWindow(m, id, Shown(m.windows[id], "Maximized", TRUE)), id))
    BY Zenon, <1>2, <2>1, ShownSameIds
  <2>3. PICK b \in BOOLEAN :
            restore(m, id) = focus(SetWindow(m, id, Shown(m.windows[id], "Normal", b)), id)
    BY <1>2, RestoreIs, Zenon
  <2>4. SameIds(m, focus(SetWindow(m, id, Shown(m.windows[id], "Normal", b)), id))
    BY <1>2, <2>1, ShownSameIds, Zenon
  <2>5. maximize(m, id) = focus(SetWindow(m, id, Shown(m.windows[id], "Maximized", TRUE)), id)
    BY <1>2, MaximizeIs, Zenon
  <2> QED BY <2>2, <2>3, <2>4, <2>5, Zenon
<1> QED BY Zenon, <1>1, <1>2

LEMMA CycleSameIds ==
    ASSUME NEW A, NEW m, WmTables(A, m)
    PROVE  SameIds(m, cycle_focus(m))
<1>1. cycle_focus(m) = m \/ \E w \in showing(m) : cycle_focus(m) = focus(m, w)
  BY Zenon, CycleIs
<1> QED BY Zenon, <1>1, FocusSameIds DEF SameIds

-----------------------------------------------------------------------------
(* The application manager: a process is alive only while its record says   *)
(* Running, and no application has two of them.                             *)
Instance == [app_id : Apps, state : {"Running", "Exited", "Failed", "Closed"}]
Ends == {"success", "failure"}

AppInv == /\ instances \in Seq(Instance)
          /\ process \in Seq({"alive"} \union Ends)
          /\ Len(process) = Len(instances)
          /\ OneProcessPerApp

(* Reaping changes no record of a process that is alive.                    *)
LEMMA ReapKeeps ==
    ASSUME AppInv
    PROVE  /\ reap \in Seq(Instance) /\ Len(reap) = Len(instances)
           /\ \A i \in 1..Len(instances) :
                 /\ reap[i].app_id = instances[i].app_id
                 /\ process[i] = "alive" => Running(reap, i)
<1>1. /\ DOMAIN instances = 1..Len(instances) /\ Len(instances) \in Nat
      /\ DOMAIN process = 1..Len(instances)
  BY DEF AppInv
<1>2. ASSUME NEW i \in 1..Len(instances)
      PROVE  /\ reap[i] \in Instance
             /\ reap[i].app_id = instances[i].app_id
             /\ process[i] = "alive" => Running(reap, i)
  <2>1. instances[i] \in Instance /\ (process[i] = "alive" => instances[i].state = "Running")
    BY <1>1 DEF AppInv, OneProcessPerApp, Running
  <2>2. reap[i] = [instances[i] EXCEPT !.state =
                IF instances[i].state # "Running" \/ process[i] = "alive" THEN instances[i].state
                ELSE IF process[i] = "success" THEN "Exited" ELSE "Failed"]
    BY Zenon, <1>1 DEF reap
  <2> QED BY Zenon, <2>1, <2>2 DEF Instance, Running
<1>3. reap \in [1..Len(instances) -> Instance]
  BY Zenon, <1>1, <1>2 DEF reap
<1>4. reap \in Seq(Instance) /\ Len(reap) = Len(instances)
  BY <1>1, <1>3
<1> QED BY Zenon, <1>2, <1>4

(* An instance marked Closed together with its process.                     *)
LEMMA CloseOne ==
    ASSUME AppInv, NEW i \in DOMAIN instances, close_instance(i)
    PROVE  AppInv'
<1>1. /\ DOMAIN instances = 1..Len(instances) /\ Len(instances) \in Nat
      /\ DOMAIN process = 1..Len(instances) /\ i \in 1..Len(instances)
  BY DEF AppInv
<1>2. /\ reap \in Seq(Instance) /\ Len(reap) = Len(instances)
      /\ \A j \in 1..Len(instances) :
            /\ reap[j].app_id = instances[j].app_id
            /\ process[j] = "alive" => Running(reap, j)
  BY Zenon, ReapKeeps
<1>3. DOMAIN reap = 1..Len(instances)
  BY <1>2
<1> DEFINE q == [reap[i] EXCEPT !.state = "Closed"]
<1>4. instances' = [reap EXCEPT ![i] = q]
  BY DEF close_instance
<1>5. q \in Instance /\ q.app_id = reap[i].app_id
  <2>1. reap[i] \in Instance
    BY <1>1, <1>2
  <2> QED BY Zenon, <2>1 DEF Instance
<1> HIDE DEF q
<1>6. /\ instances' \in Seq(Instance) /\ Len(instances') = Len(instances)
      /\ \A j \in 1..Len(instances) : instances'[j].app_id = instances[j].app_id
      /\ \A j \in 1..Len(instances) : j # i => instances'[j] = reap[j]
  BY <1>1, <1>2, <1>3, <1>4, <1>5
<1>7. /\ process' \in Seq({"alive"} \union Ends) /\ Len(process') = Len(process)
      /\ process'[i] # "alive"
      /\ \A j \in 1..Len(instances) : j # i => process'[j] = process[j]
  BY <1>1 DEF close_instance, AppInv, Ends
<1>8. DOMAIN process' = 1..Len(instances)
  BY <1>1, <1>7 DEF AppInv
<1>9. OneProcessPerApp'
  BY Zenon, <1>1, <1>2, <1>6, <1>7, <1>8 DEF AppInv, OneProcessPerApp, Running
<1> QED BY <1>6, <1>7, <1>9 DEF AppInv

(* A request that only reaps.                                               *)
LEMMA ReapOnly == ASSUME AppInv, instances' = reap, UNCHANGED process PROVE AppInv'
<1>1. DOMAIN process = 1..Len(instances)
  BY DEF AppInv
<1>2. OneProcessPerApp'
  BY <1>1, ReapKeeps DEF OneProcessPerApp, AppInv, Running
<1> QED BY <1>2, ReapKeeps DEF AppInv

(* LAUNCH starts a process only when, after reaping, none is running.       *)
LEMMA LaunchKeeps ==
    ASSUME AppInv, NEW app \in Apps, NEW spawned \in BOOLEAN, launch(app, spawned)
    PROVE  AppInv'
<1>1. CASE \E i \in DOMAIN reap : reap[i].app_id = app /\ Running(reap, i)
  BY Zenon, <1>1, ReapOnly DEF launch
<1>2. CASE ~ \E i \in DOMAIN reap : reap[i].app_id = app /\ Running(reap, i)
  <2>1. /\ DOMAIN instances = 1..Len(instances) /\ Len(instances) \in Nat
        /\ DOMAIN process = 1..Len(instances) /\ Len(process) = Len(instances)
    BY DEF AppInv
  <2>2. /\ reap \in Seq(Instance) /\ Len(reap) = Len(instances)
        /\ \A j \in 1..Len(instances) :
              /\ reap[j].app_id = instances[j].app_id
              /\ process[j] = "alive" => Running(reap, j)
    BY Zenon, ReapKeeps
  <2>3. \A j \in 1..Len(instances) : process[j] = "alive" => reap[j].app_id # app
    <3>1. DOMAIN reap = 1..Len(instances)
      BY <2>2
    <3> QED BY Zenon, <1>2, <2>2, <3>1
  <2> DEFINE q == [app_id |-> app, state |-> IF spawned THEN "Running" ELSE "Failed"]
             p == IF spawned THEN "alive" ELSE "failure"
             n == Len(instances) + 1
  <2>4. instances' = Append(reap, q) /\ process' = Append(process, p)
    BY Zenon, <1>2 DEF launch
  <2>5. q \in Instance /\ q.app_id = app /\ p \in {"alive"} \union Ends
    BY DEF Instance, Ends
  <2>6. p = "alive" => q.state = "Running"
    OBVIOUS
  <2> HIDE DEF p, q
  <2>7. /\ instances' \in Seq(Instance) /\ Len(instances') = n /\ instances'[n] = q
        /\ \A j \in 1..Len(instances) : instances'[j] = reap[j]
    BY <2>1, <2>2, <2>4, <2>5
  <2>8. /\ process' \in Seq({"alive"} \union Ends) /\ Len(process') = n /\ process'[n] = p
        /\ \A j \in 1..Len(instances) : process'[j] = process[j]
    BY <2>1, <2>4, <2>5 DEF AppInv
  <2>9. DOMAIN process' = 1..n /\ \A j \in 1..n : j \in 1..Len(instances) \/ j = n
    BY <2>1, <2>8
  <2>10. OneProcessPerApp'
    <3>1. \A i \in 1..n : process'[i] = "alive" => instances'[i].state = "Running"
      BY Zenon, <2>2, <2>6, <2>7, <2>8, <2>9 DEF Running
    <3>2. ASSUME NEW i \in 1..n, NEW j \in 1..n, process'[i] = "alive", process'[j] = "alive",
                 instances'[i].app_id = instances'[j].app_id
          PROVE  i = j
      <4>1. CASE i = n /\ j = n
        BY Zenon, <4>1
      <4>2. CASE i = n /\ j \in 1..Len(instances)
        BY Zenon, <2>2, <2>3, <2>5, <2>7, <2>8, <3>2, <4>2
      <4>3. CASE j = n /\ i \in 1..Len(instances)
        BY Zenon, <2>2, <2>3, <2>5, <2>7, <2>8, <3>2, <4>3
      <4>4. CASE i \in 1..Len(instances) /\ j \in 1..Len(instances)
        BY Zenon, <2>1, <2>2, <2>7, <2>8, <3>2, <4>4 DEF AppInv, OneProcessPerApp
      <4> QED BY Zenon, <2>9, <4>1, <4>2, <4>3, <4>4
    <3> QED BY Zenon, <2>9, <3>1, <3>2 DEF OneProcessPerApp, Running
  <2> QED BY Zenon, <2>7, <2>8, <2>10 DEF AppInv
<1> QED BY Zenon, <1>1, <1>2

(* A process ends by itself.                                                *)
LEMMA ExitsKeeps ==
    ASSUME AppInv, NEW i \in DOMAIN process, NEW code \in Ends, exits(i, code)
    PROVE  AppInv'
<1>1. DOMAIN process = 1..Len(instances) /\ code # "alive"
  BY DEF AppInv, Ends
<1>2. /\ process' \in Seq({"alive"} \union Ends) /\ Len(process') = Len(process)
      /\ process'[i] # "alive" /\ instances' = instances
      /\ \A j \in 1..Len(instances) : j # i => process'[j] = process[j]
  BY <1>1 DEF exits, AppInv, Ends
<1>3. DOMAIN process' = 1..Len(instances)
  BY <1>1, <1>2 DEF AppInv
<1>4. OneProcessPerApp'
  BY Zenon, <1>1, <1>2, <1>3 DEF AppInv, OneProcessPerApp, Running
<1> QED BY <1>2, <1>4 DEF AppInv

-----------------------------------------------------------------------------
(* "app.close" closes a record that exists.                                 *)
LEMMA CloseAppKeeps ==
    ASSUME AppInv, NEW app \in Apps, close_app(app)
    PROVE  AppInv'
<1> DEFINE live == {i \in DOMAIN reap : reap[i].app_id = app /\ Running(reap, i)}
<1>1. CASE live = {}
  BY Zenon, <1>1, ReapOnly DEF close_app
<1>2. CASE live # {}
  <2>1. DOMAIN reap = DOMAIN instances /\ DOMAIN instances \subseteq Nat
    BY DEF reap, AppInv
  <2> DEFINE i == CHOOSE i \in live : \A j \in live : i <= j
  <2>2. i \in live
    <3>1. \E k \in live : \A j \in live : k <= j
      <4>1. live \in SUBSET Nat
        BY Zenon, <2>1
      <4> HIDE DEF live
      <4> QED BY Zenon, <1>2, <4>1, LeastNat
    <3> QED BY Zenon, <3>1
  <2>3. close_instance(i)
    BY Zenon, <1>2 DEF close_app
  <2>4. i \in DOMAIN instances
    BY Zenon, <2>1, <2>2
  <2> HIDE DEF i
  <2> QED BY Zenon, <2>3, <2>4, CloseOne
<1> QED BY Zenon, <1>1, <1>2

(* Ranges of the sequences the shell sends over.                            *)
LEMMA RangeAppend ==
    ASSUME NEW I, NEW s \in Seq(I), NEW x \in I
    PROVE  Append(s, x) \in Seq(I) /\ Range(Append(s, x)) = Range(s) \union {x}
<1> DEFINE r == Append(s, x)
<1>1. /\ r \in Seq(I) /\ Len(r) = Len(s) + 1 /\ Len(s) \in Nat /\ r[Len(s) + 1] = x
      /\ \A i \in 1..Len(s) : r[i] = s[i]
  OBVIOUS
<1>2. DOMAIN r = 1..Len(r) /\ DOMAIN s = 1..Len(s)
  BY <1>1
<1> HIDE DEF r
<1>3. \A i \in DOMAIN s : i \in DOMAIN r /\ r[i] = s[i]
  BY <1>1, <1>2
<1>4. Len(s) + 1 \in DOMAIN r
  BY <1>1, <1>2
<1>5. \A i \in DOMAIN r : i \in DOMAIN s \/ i = Len(s) + 1
  BY <1>1, <1>2
<1>6. Range(r) = Range(s) \union {x}
  BY Zenon, <1>1, <1>3, <1>4, <1>5 DEF Range
<1> QED BY Zenon, <1>1, <1>6 DEF r

LEMMA RangeTail ==
    ASSUME NEW I, NEW s \in Seq(I), s # <<>>
    PROVE  /\ Tail(s) \in Seq(I) /\ Head(s) \in I
           /\ \A x \in Range(s) : x = Head(s) \/ x \in Range(Tail(s))
<1>1. /\ Tail(s) \in Seq(I) /\ Len(Tail(s)) = Len(s) - 1 /\ Len(s) \in Nat /\ Len(s) > 0
      /\ Head(s) = s[1]
  OBVIOUS
<1>2. \A i \in 1..Len(s) - 1 : Tail(s)[i] = s[i + 1]
  BY <1>1
<1>3. DOMAIN Tail(s) = 1..(Len(s) - 1) /\ DOMAIN s = 1..Len(s)
  BY <1>1
<1>4. ASSUME NEW x \in Range(s) PROVE x = Head(s) \/ x \in Range(Tail(s))
  <2>1. PICK i \in 1..Len(s) : s[i] = x
    BY Zenon, <1>3 DEF Range
  <2>2. CASE i = 1
    BY Zenon, <1>1, <2>1, <2>2
  <2>3. CASE i # 1
    <3>1. i - 1 \in 1..(Len(s) - 1) /\ (i - 1) + 1 = i
      BY <1>1, <2>3
    <3>2. Tail(s)[i - 1] = x
      BY <1>2, <2>1, <3>1
    <3> QED BY Zenon, <1>3, <3>1, <3>2 DEF Range
  <2> QED BY Zenon, <2>2, <2>3
<1>5. Head(s) \in I
  BY <1>1
<1> QED BY Zenon, <1>1, <1>4, <1>5

LEMMA RangeSubSeq ==
    ASSUME NEW I, NEW s \in Seq(I), NEW n \in 1..Len(s)
    PROVE  /\ SubSeq(s, n + 1, Len(s)) \in Seq(I)
           /\ Range(SubSeq(s, n + 1, Len(s))) \subseteq Range(s)
<1> DEFINE r == SubSeq(s, n + 1, Len(s))
<1>1. /\ r \in Seq(I) /\ Len(r) = Len(s) - n /\ Len(s) \in Nat
  OBVIOUS
<1>2. \A i \in 1..Len(s) - n : r[i] = s[n + i]
  BY <1>1
<1> HIDE DEF r
<1>3. DOMAIN r = 1..(Len(s) - n) /\ DOMAIN s = 1..Len(s)
  BY <1>1
<1>4. \A i \in DOMAIN r : n + i \in DOMAIN s /\ r[i] = s[n + i]
  BY <1>1, <1>2, <1>3
<1>5. Range(r) \subseteq Range(s)
  BY Zenon, <1>4 DEF Range
<1> QED BY Zenon, <1>1, <1>5 DEF r

(* The lowest window of an application is a window.                         *)
LEMMA FoundIsNat ==
    ASSUME NEW A, WmTables(A, wm), NEW app
    PROVE  find_by_app(app) \in Nat
<1> DEFINE at == {k \in 1..Len(wm.stack) : wm.windows[wm.stack[k]].app_id = app}
<1>1. wm.stack \in Seq(Nat)
  <2>1. wm.stack \in Seq(Ids(wm)) /\ Ids(wm) \subseteq 1..wm.next_id /\ wm.next_id \in Nat
    BY Zenon DEF WmTables, StackOk, WindowsOk, Ids
  <2> QED BY <2>1, SeqOver
<1>2. CASE at = {}
  BY Zenon, <1>2 DEF find_by_app, NoWindow
<1>3. CASE at # {}
  <2> DEFINE k == CHOOSE k \in at : \A j \in at : k <= j
  <2>1. find_by_app(app) = wm.stack[k]
    BY Zenon, <1>3 DEF find_by_app
  <2>2. at \in SUBSET Nat /\ at \subseteq 1..Len(wm.stack)
    OBVIOUS
  <2>3. k \in at
    <3>1. \E i \in at : \A j \in at : i <= j
      <4> HIDE DEF at
      <4> QED BY Zenon, <1>3, <2>2, LeastNat
    <3> QED BY Zenon, <3>1
  <2>4. k \in 1..Len(wm.stack)
    BY Zenon, <2>2, <2>3
  <2> HIDE DEF k
  <2> QED BY <1>1, <2>1, <2>4
<1> QED BY Zenon, <1>2, <1>3

-----------------------------------------------------------------------------
(* The shell: the types of what passes between its threads, the owner of    *)
(* each window, and what is under way for a window whose owner is gone or   *)
(* was told to close.                                                       *)
Threads == {"none", "requested", "registering", "open", "gone"}
Unborn == {"none", "requested"}
Lines == {"registered", "close"}

ShellTypes == /\ thread \in [Instances -> Threads]
              /\ registered \in [Instances -> Nat]
              /\ inbox \in [Instances -> Seq(Lines)]
              /\ closing \subseteq Nat
              /\ commands \in Seq(Nat)

Unregistered == \A i \in Instances : /\ registered[i] <= wm.next_id
                                     /\ thread[i] \in Unborn => /\ registered[i] = NoWindow
                                                                /\ inbox[i] = <<>>

Owner == \A w \in Ids(wm) : \E i \in Instances : registered[i] = w

UnderWay(i) == registered[i] \in Ids(wm) =>
    /\ thread[i] = "gone" => registered[i] \in Range(commands)
    /\ "close" \in Range(inbox[i]) => registered[i] \in Range(commands) \union closing

ShellInv == ShellTypes /\ Unregistered /\ Owner /\ \A i \in Instances : UnderWay(i)

DeskInv == AppInv /\ DeskWm(Apps, wm) /\ ShellInv

(* A connection is that of an instance the manager has a record of.         *)
Known == \A i \in Instances : thread[i] # "none" => i \in DOMAIN instances

(* An empty channel or inbox holds nothing.                                 *)
LEMMA EmptyRange == Range(<<>>) = {}
BY DEF Range

(* A change of the window manager that keeps the windows, and one that only *)
(* removes some.                                                            *)
LEMMA FewerWindows ==
    ASSUME ShellInv, Ids(wm') \subseteq Ids(wm), wm'.next_id = wm.next_id,
           UNCHANGED <<thread, registered, inbox, closing, commands>>
    PROVE  ShellInv'
<1>1. ShellTypes'
  BY Zenon DEF ShellInv, ShellTypes
<1>2. Unregistered'
  BY DEF ShellInv, Unregistered
<1>3. Owner'
  BY Zenon DEF ShellInv, Owner
<1>4. \A i \in Instances : UnderWay(i)'
  BY Zenon DEF ShellInv, UnderWay
<1> QED BY Zenon, <1>1, <1>2, <1>3, <1>4 DEF ShellInv

(* A connection is opened; nothing is registered on it yet.                 *)
LEMMA ConnectKeeps ==
    ASSUME DeskInv, NEW i \in Instances, Connect(i)
    PROVE  DeskInv'
<1>0. AppInv' /\ DeskWm(Apps, wm')
  BY DEF Connect, appVars, DeskInv, AppInv, OneProcessPerApp, Running
<1>1. /\ thread' = [thread EXCEPT ![i] = "requested"] /\ thread[i] = "none"
      /\ UNCHANGED <<wm, registered, inbox, closing, commands>>
  BY Zenon DEF Connect
<1>2. thread'[i] = "requested" /\ \A j \in Instances : j # i => thread'[j] = thread[j]
  BY Zenon, <1>1 DEF DeskInv, ShellInv, ShellTypes
<1>3. ShellTypes'
  BY Zenon, <1>1 DEF DeskInv, ShellInv, ShellTypes, Threads
<1>4. Unregistered'
  BY Zenon, <1>1, <1>2 DEF DeskInv, ShellInv, Unregistered, Unborn
<1>5. Owner'
  BY Zenon, <1>1 DEF DeskInv, ShellInv, Owner
<1>6. \A j \in Instances : thread'[j] = "gone" => thread[j] = "gone"
  BY <1>2
<1>7. \A j \in Instances : UnderWay(j)'
  BY Zenon, <1>1, <1>6 DEF DeskInv, ShellInv, UnderWay
<1> QED BY Zenon, <1>0, <1>3, <1>4, <1>5, <1>7 DEF DeskInv, ShellInv

(* The new window has an id no instance has registered.                     *)
LEMMA RegisterCreateKeeps ==
    ASSUME DeskInv, Known, NEW i \in Instances, RegisterCreate(i)
    PROVE  DeskInv'
<1> DEFINE id == wm.next_id + 1
<1>1. AppInv'
  BY DEF RegisterCreate, appVars, DeskInv, AppInv, OneProcessPerApp, Running
<1>2. instances[i].app_id \in Apps
  <2>1. i \in DOMAIN instances /\ instances \in Seq(Instance)
    BY DEF RegisterCreate, Known, DeskInv, AppInv
  <2>2. instances[i] \in Instance
    BY <2>1
  <2> QED BY Zenon, <2>2 DEF Instance
<1>3. DeskWm(Apps, wm') /\ Ids(wm') = Ids(wm) \union {id} /\ wm'.next_id = id
  BY Zenon, <1>2, DeskCreate DEF RegisterCreate, DeskInv
<1>4. wm.next_id \in Nat /\ Ids(wm) \subseteq 1..wm.next_id
  BY Zenon DEF DeskInv, DeskWm, WmInv, WmTables, WindowsOk, Ids
<1>5. /\ registered' = [registered EXCEPT ![i] = id]
      /\ thread' = [thread EXCEPT ![i] = "registering"] /\ thread[i] = "requested"
      /\ UNCHANGED <<inbox, closing, commands>>
  BY Zenon DEF RegisterCreate
<1>6. ShellTypes'
  BY <1>4, <1>5 DEF DeskInv, ShellInv, ShellTypes, Threads
<1>7. registered'[i] = id /\ thread'[i] = "registering"
  BY Zenon, <1>5 DEF DeskInv, ShellInv, ShellTypes
<1>8. \A j \in Instances : j # i => registered'[j] = registered[j] /\ thread'[j] = thread[j]
  BY Zenon, <1>5 DEF DeskInv, ShellInv, ShellTypes
<1>9. Unregistered'
  <2> SUFFICES ASSUME NEW j \in Instances
               PROVE  /\ registered'[j] <= wm'.next_id
                      /\ thread'[j] \in Unborn => registered'[j] = NoWindow /\ inbox'[j] = <<>>
    BY Zenon DEF Unregistered
  <2>1. CASE j = i
    BY <1>3, <1>4, <1>7, <2>1 DEF Unborn
  <2>2. CASE j # i
    <3>1. registered[j] \in Nat /\ registered[j] <= wm.next_id
      BY Zenon DEF DeskInv, ShellInv, ShellTypes, Unregistered
    <3>2. registered'[j] <= wm'.next_id
      BY <1>3, <1>4, <1>8, <2>2, <3>1
    <3> QED BY Zenon, <1>5, <1>8, <2>2, <3>2 DEF DeskInv, ShellInv, Unregistered
  <2> QED BY Zenon, <2>1, <2>2
<1>10. Owner'
  <2> SUFFICES ASSUME NEW w \in Ids(wm') PROVE \E j \in Instances : registered'[j] = w
    BY Zenon DEF Owner
  <2>1. CASE w = id
    BY Zenon, <1>7, <2>1
  <2>2. CASE w \in Ids(wm)
    <3>1. PICK j \in Instances : registered[j] = w
      BY Zenon, <2>2 DEF DeskInv, ShellInv, Owner
    <3>2. registered[i] = 0 /\ w # 0
      BY <1>4, <1>5, <2>2 DEF DeskInv, ShellInv, Unregistered, Unborn, NoWindow
    <3> QED BY Zenon, <1>8, <3>1, <3>2
  <2> QED BY Zenon, <1>3, <2>1, <2>2
<1>11. ASSUME NEW j \in Instances PROVE UnderWay(j)'
  <2>1. CASE j = i
    <3>1. inbox'[i] = <<>>
      BY Zenon, <1>5 DEF DeskInv, ShellInv, Unregistered, Unborn
    <3> QED BY Zenon, <1>7, <2>1, <3>1, EmptyRange DEF UnderWay
  <2>2. CASE j # i
    <3>1. registered[j] # id
      BY <1>4 DEF DeskInv, ShellInv, ShellTypes, Unregistered
    <3>2. UnderWay(j)
      BY DEF DeskInv, ShellInv
    <3> HIDE DEF id
    <3> QED BY Zenon, <1>3, <1>5, <1>8, <2>2, <3>1, <3>2 DEF UnderWay
  <2> QED BY Zenon, <2>1, <2>2
<1> QED BY Zenon, <1>1, <1>3, <1>6, <1>9, <1>10, <1>11 DEF DeskInv, ShellInv

LEMMA RegisterReplyKeeps ==
    ASSUME DeskInv, NEW i \in Instances, RegisterReply(i)
    PROVE  DeskInv'
<1>0. AppInv' /\ DeskWm(Apps, wm')
  BY DEF RegisterReply, appVars, DeskInv, AppInv, OneProcessPerApp, Running
<1>1. /\ inbox' = [inbox EXCEPT ![i] = Append(inbox[i], "registered")]
      /\ thread' = [thread EXCEPT ![i] = "open"] /\ thread[i] = "registering"
      /\ UNCHANGED <<wm, registered, closing, commands>>
  BY DEF RegisterReply
<1>2. inbox[i] \in Seq(Lines) /\ "registered" \in Lines
  BY DEF DeskInv, ShellInv, ShellTypes, Lines
<1>3. /\ Append(inbox[i], "registered") \in Seq(Lines)
      /\ Range(Append(inbox[i], "registered")) = Range(inbox[i]) \union {"registered"}
  BY <1>2, RangeAppend
<1>4. ShellTypes'
  BY Zenon, <1>1, <1>3 DEF DeskInv, ShellInv, ShellTypes, Threads
<1>5. /\ inbox'[i] = Append(inbox[i], "registered") /\ thread'[i] = "open"
      /\ \A j \in Instances : j # i => inbox'[j] = inbox[j] /\ thread'[j] = thread[j]
  BY Zenon, <1>1 DEF DeskInv, ShellInv, ShellTypes
<1>6. Unregistered'
  BY Zenon, <1>1, <1>5 DEF DeskInv, ShellInv, Unregistered, Unborn
<1>7. Owner'
  BY <1>1 DEF DeskInv, ShellInv, Owner
<1>8. \A j \in Instances : "close" \in Range(inbox'[j]) => "close" \in Range(inbox[j])
  <2> SUFFICES ASSUME NEW j \in Instances, "close" \in Range(inbox'[j])
               PROVE  "close" \in Range(inbox[j])
    OBVIOUS
  <2>1. CASE j = i
    <3>1. "close" \in Range(inbox[i]) \union {"registered"}
      BY <1>3, <1>5, <2>1, Zenon
    <3>2. "close" # "registered"
      OBVIOUS
    <3> QED BY <2>1, <3>1, <3>2, Zenon
  <2>2. CASE j # i
    BY Zenon, <1>5, <2>2
  <2> QED BY Zenon, <2>1, <2>2
<1>9. \A j \in Instances : thread'[j] = "gone" => thread[j] = "gone"
  BY Zenon, <1>5
<1>10. \A j \in Instances : UnderWay(j)'
  BY Zenon, <1>1, <1>8, <1>9 DEF DeskInv, ShellInv, UnderWay
<1> QED BY Zenon, <1>0, <1>4, <1>6, <1>7, <1>10 DEF DeskInv, ShellInv

(* A poll drops lines; a process that read "close" ends.                    *)
LEMMA PollKeeps ==
    ASSUME DeskInv, NEW i \in Instances, Poll(i)
    PROVE  DeskInv'
<1>0. AppInv'
  <2>1. CASE Head(inbox[i]) = "close"
    <3>1. exits(i, "success") /\ i \in DOMAIN process /\ "success" \in Ends
      BY Zenon, <2>1 DEF Poll, alive, Ends
    <3> QED BY Zenon, <3>1, ExitsKeeps DEF DeskInv
  <2>2. CASE Head(inbox[i]) # "close"
    BY Zenon, <2>2 DEF Poll, appVars, DeskInv, AppInv, OneProcessPerApp, Running
  <2> QED BY Zenon, <2>1, <2>2
<1>1. PICK n \in 1..Len(inbox[i]) :
          inbox' = [inbox EXCEPT ![i] = SubSeq(inbox[i], n + 1, Len(inbox[i]))]
  BY Zenon DEF Poll
<1>2. UNCHANGED <<wm, thread, registered, closing, commands>> /\ inbox[i] # <<>>
  BY DEF Poll
<1>3. inbox[i] \in Seq(Lines)
  BY DEF DeskInv, ShellInv, ShellTypes
<1> DEFINE r == SubSeq(inbox[i], n + 1, Len(inbox[i]))
<1>4. r \in Seq(Lines) /\ Range(r) \subseteq Range(inbox[i])
  BY <1>3, RangeSubSeq
<1>5. inbox' = [inbox EXCEPT ![i] = r]
  BY <1>1
<1> HIDE DEF r
<1>6. ShellTypes'
  BY <1>2, <1>4, <1>5 DEF DeskInv, ShellInv, ShellTypes
<1>7. inbox'[i] = r /\ \A j \in Instances : j # i => inbox'[j] = inbox[j]
  BY Zenon, <1>5 DEF DeskInv, ShellInv, ShellTypes
<1>8. Unregistered'
  BY Zenon, <1>2, <1>7 DEF DeskInv, ShellInv, Unregistered
<1>9. Owner'
  BY Zenon, <1>2 DEF DeskInv, ShellInv, Owner
<1>10. \A j \in Instances : "close" \in Range(inbox'[j]) => "close" \in Range(inbox[j])
  BY Zenon, <1>4, <1>7
<1>11. \A j \in Instances : UnderWay(j)'
  BY Zenon, <1>2, <1>10 DEF DeskInv, ShellInv, UnderWay
<1> QED BY Zenon, <1>0, <1>2, <1>6, <1>8, <1>9, <1>11 DEF DeskInv, ShellInv

-----------------------------------------------------------------------------
(* The thread that ends leaves a Close command behind.                      *)
LEMMA DisconnectKeeps ==
    ASSUME DeskInv, NEW i \in Instances, Disconnect(i)
    PROVE  DeskInv'
<1>0. AppInv' /\ DeskWm(Apps, wm')
  BY DEF Disconnect, appVars, DeskInv, AppInv, OneProcessPerApp, Running
<1>1. /\ inbox' = [inbox EXCEPT ![i] = <<>>]
      /\ thread' = [thread EXCEPT ![i] = "gone"]
      /\ commands' = Append(commands, registered[i])
      /\ UNCHANGED <<wm, registered, closing>>
  BY DEF Disconnect
<1>2. commands \in Seq(Nat) /\ registered[i] \in Nat /\ <<>> \in Seq(Lines)
  BY DEF DeskInv, ShellInv, ShellTypes
<1>3. commands' \in Seq(Nat) /\ Range(commands') = Range(commands) \union {registered[i]}
  <2>1. commands' = Append(commands, registered[i])
    BY Zenon, <1>1
  <2>2. Range(Append(commands, registered[i])) = Range(commands) \union {registered[i]}
    BY <1>2, RangeAppend
  <2>3. Append(commands, registered[i]) \in Seq(Nat)
    BY <1>2
  <2> QED BY Zenon, <2>1, <2>2, <2>3
<1>4. ShellTypes'
  BY Zenon, <1>1, <1>2, <1>3 DEF DeskInv, ShellInv, ShellTypes, Threads
<1>5. /\ inbox'[i] = <<>> /\ thread'[i] = "gone"
      /\ \A j \in Instances : j # i => inbox'[j] = inbox[j] /\ thread'[j] = thread[j]
  BY Zenon, <1>1 DEF DeskInv, ShellInv, ShellTypes
<1>6. Unregistered'
  BY Zenon, <1>1, <1>5 DEF DeskInv, ShellInv, Unregistered, Unborn
<1>7. Owner'
  BY Zenon, <1>1 DEF DeskInv, ShellInv, Owner
<1>8. ASSUME NEW j \in Instances PROVE UnderWay(j)'
  <2>1. CASE j = i
    BY Zenon, <1>1, <1>3, <1>5, <2>1, EmptyRange DEF UnderWay
  <2>2. CASE j # i
    BY Zenon, <1>1, <1>3, <1>5, <2>2 DEF UnderWay, DeskInv, ShellInv
  <2> QED BY <2>1, <2>2
<1> QED BY Zenon, <1>0, <1>4, <1>6, <1>7, <1>8 DEF DeskInv, ShellInv

(* A client that was told has its window in closing.                        *)
LEMMA NotifyCloseKeeps ==
    ASSUME DeskInv, NEW w \in Nat, w # NoWindow, notify_close(w)
    PROVE  DeskInv'
<1>0. AppInv' /\ DeskWm(Apps, wm')
  BY Zenon DEF notify_close, appVars, DeskInv, AppInv, OneProcessPerApp, Running
<1>1. /\ inbox' = [i \in Instances |-> IF w \in clients /\ registered[i] = w /\ alive(i)
                                     THEN Append(inbox[i], "close") ELSE inbox[i]]
      /\ closing' = closing \union {w}
      /\ UNCHANGED <<wm, thread, registered, commands>>
  BY Zenon DEF notify_close
<1>2. ASSUME NEW i \in Instances
      PROVE  /\ inbox'[i] \in Seq(Lines)
             /\ inbox'[i] = inbox[i] \/ registered[i] = w
  <2>1. inbox[i] \in Seq(Lines) /\ "close" \in Lines
    BY DEF DeskInv, ShellInv, ShellTypes, Lines
  <2>2. Append(inbox[i], "close") \in Seq(Lines)
    BY Zenon, <2>1, RangeAppend
  <2>3. inbox'[i] = inbox[i] \/ (registered[i] = w /\ inbox'[i] = Append(inbox[i], "close"))
    BY Zenon, <1>1
  <2> QED BY Zenon, <2>1, <2>2, <2>3
<1>3. inbox' \in [Instances -> Seq(Lines)]
  BY Zenon, <1>1, <1>2
<1>4. ShellTypes'
  BY Zenon, <1>1, <1>3 DEF DeskInv, ShellInv, ShellTypes
<1>5. Unregistered'
  BY Zenon, <1>1, <1>2 DEF DeskInv, ShellInv, Unregistered
<1>6. Owner'
  BY <1>1 DEF DeskInv, ShellInv, Owner
<1>7. ASSUME NEW j \in Instances PROVE UnderWay(j)'
  <2>1. CASE registered[j] = w
    BY Zenon, <1>1, <2>1 DEF UnderWay, DeskInv, ShellInv
  <2>2. CASE registered[j] # w
    <3>1. inbox'[j] = inbox[j]
      BY Zenon, <1>2, <2>2
    <3> QED BY Zenon, <1>1, <3>1 DEF UnderWay, DeskInv, ShellInv
  <2> QED BY Zenon, <2>1, <2>2
<1> QED BY Zenon, <1>0, <1>4, <1>5, <1>6, <1>7 DEF DeskInv, ShellInv

(* The id goes from closing to the channel in one step.                     *)
LEMMA SendCloseKeeps ==
    ASSUME DeskInv, NEW w, SendClose(w)
    PROVE  DeskInv'
<1>0. AppInv' /\ DeskWm(Apps, wm')
  BY DEF SendClose, appVars, DeskInv, AppInv, OneProcessPerApp, Running
<1>1. /\ w \in closing /\ closing' = closing \ {w}
      /\ commands' = Append(commands, w)
      /\ UNCHANGED <<wm, thread, registered, inbox>>
  BY DEF SendClose
<1>2. commands \in Seq(Nat) /\ w \in Nat
  BY Zenon, <1>1 DEF DeskInv, ShellInv, ShellTypes
<1>3. commands' \in Seq(Nat) /\ Range(commands') = Range(commands) \union {w}
  BY <1>1, <1>2, RangeAppend
<1>4. ShellTypes'
  BY Zenon, <1>1, <1>3 DEF DeskInv, ShellInv, ShellTypes
<1>5. Unregistered'
  BY <1>1 DEF DeskInv, ShellInv, Unregistered
<1>6. Owner'
  BY Zenon, <1>1 DEF DeskInv, ShellInv, Owner
<1>7. \A j \in Instances : UnderWay(j)'
  BY Zenon, <1>1, <1>3 DEF DeskInv, ShellInv, UnderWay
<1> QED BY Zenon, <1>0, <1>4, <1>5, <1>6, <1>7 DEF DeskInv, ShellInv

(* The command that leaves the channel removes its window.                  *)
LEMMA UiCommandKeeps ==
    ASSUME DeskInv, UiCommand
    PROVE  DeskInv'
<1> DEFINE c == Head(commands)
<1>0. AppInv'
  BY DEF UiCommand, appVars, DeskInv, AppInv, OneProcessPerApp, Running
<1>1. /\ commands # <<>> /\ commands' = Tail(commands) /\ wm' = close(wm, c)
      /\ UNCHANGED <<closing, thread, registered, inbox>>
  BY DEF UiCommand
<1>2. commands \in Seq(Nat)
  BY DEF DeskInv, ShellInv, ShellTypes
<1>3. commands' \in Seq(Nat) /\ \A x \in Range(commands) : x = c \/ x \in Range(commands')
  BY Zenon, <1>1, <1>2, RangeTail
<1> HIDE DEF c
<1>4. DeskWm(Apps, wm') /\ Ids(wm') = Ids(wm) \ {c} /\ wm'.next_id = wm.next_id
  BY Zenon, <1>1, DeskClose DEF DeskInv
<1>5. ShellTypes'
  BY Zenon, <1>1, <1>3 DEF DeskInv, ShellInv, ShellTypes
<1>6. Unregistered'
  BY Zenon, <1>1, <1>4 DEF DeskInv, ShellInv, Unregistered
<1>7. Owner'
  BY Zenon, <1>1, <1>4 DEF DeskInv, ShellInv, Owner
<1>8. \A j \in Instances : UnderWay(j)'
  BY Zenon, <1>1, <1>3, <1>4 DEF DeskInv, ShellInv, UnderWay
<1> QED BY Zenon, <1>0, <1>4, <1>5, <1>6, <1>7, <1>8 DEF DeskInv, ShellInv

(* The steps that leave the windows as they are, or remove some.            *)
LEMMA ManagerOnly ==
    ASSUME DeskInv, DeskWm(Apps, wm'), Ids(wm') \subseteq Ids(wm), wm'.next_id = wm.next_id,
           UNCHANGED <<appVars, ui, wm_lock, thread, registered, clients, inbox, closing, commands>>
    PROVE  DeskInv'
<1>1. AppInv'
  BY DEF appVars, DeskInv, AppInv, OneProcessPerApp, Running
<1>2. ShellInv'
  BY FewerWindows DEF DeskInv
<1> QED BY Zenon, <1>1, <1>2 DEF DeskInv

(* Steps of System Core, which leave the shell as it is.                    *)
LEMMA AppsOnly == ASSUME DeskInv, AppInv', UNCHANGED shellVars PROVE DeskInv'
<1>1. ShellInv' /\ DeskWm(Apps, wm)'
  BY Zenon, FewerWindows DEF DeskInv, shellVars
<1> QED BY <1>1 DEF DeskInv

(* One case per action.                                                     *)
LEMMA DeskStepKeeps == DeskInv /\ Known /\ [DeskNext]_deskVars => DeskInv'
<1> SUFFICES ASSUME DeskInv, Known, [DeskNext]_deskVars PROVE DeskInv'
  OBVIOUS
<1>0. DeskWm(Apps, wm) /\ AppInv /\ WmInv(Apps, wm) /\ WmTables(Apps, wm)
  BY DEF DeskInv, DeskWm, WmInv
<1>1. ASSUME NEW app \in Apps, NEW spawned \in BOOLEAN, Launch(app, spawned) PROVE DeskInv'
  BY Zenon, <1>0, <1>1, LaunchKeeps, AppsOnly DEF Launch
<1>2. ASSUME NEW app \in Apps, CloseApp(app) PROVE DeskInv'
  BY Zenon, <1>0, <1>2, CloseAppKeeps, AppsOnly DEF CloseApp
<1>3. ASSUME NEW app \in Apps, ControlCloseApp(app) PROVE DeskInv'
  BY Zenon, <1>0, <1>3, FoundIsNat, NotifyCloseKeeps DEF ControlCloseApp
<1>4. ASSUME NEW i \in Instances,
             Connect(i) \/ RegisterCreate(i) \/ RegisterReply(i) \/ Poll(i) \/ Disconnect(i)
      PROVE  DeskInv'
  BY Zenon, <1>4, ConnectKeeps, RegisterCreateKeeps, RegisterReplyKeeps, PollKeeps, DisconnectKeeps
<1>5. ASSUME NEW i \in Instances, CloseInstance(i) PROVE DeskInv'
  BY Zenon, <1>0, <1>5, CloseOne, AppsOnly DEF CloseInstance
<1>6. ASSUME NEW i \in Instances, Exit(i, "failure") PROVE DeskInv'
  <2>1. "failure" \in Ends /\ i \in DOMAIN process /\ exits(i, "failure") /\ UNCHANGED shellVars
    BY Zenon, <1>6 DEF Ends, Exit, alive
  <2> QED BY Zenon, <1>0, <2>1, ExitsKeeps, AppsOnly
<1>7. ASSUME NEW w \in Instances, Control(w) PROVE DeskInv'
  <2>1. /\ DeskWm(Apps, focus(wm, w)) /\ DeskWm(Apps, minimize(wm, w))
        /\ DeskWm(Apps, maximize(wm, w))
    BY Zenon, <1>0, DeskFocus, DeskMinimize, DeskMaximize
  <2>2. /\ SameIds(wm, focus(wm, w)) /\ SameIds(wm, minimize(wm, w))
        /\ SameIds(wm, maximize(wm, w))
    BY Zenon, <1>0, FocusSameIds, MinimizeSameIds, MaximizeSameIds
  <2>3. DeskWm(Apps, wm') /\ SameIds(wm, wm')
    BY Zenon, <1>7, <2>1, <2>2 DEF Control
  <2> QED BY Zenon, <1>7, <2>3, ManagerOnly DEF Control, SameIds
<1>8. ASSUME NEW w \in Instances, notify_close(w) PROVE DeskInv'
  <2>1. w \in Nat /\ w # NoWindow
    BY DEF Instances, NoWindow
  <2> QED BY Zenon, <1>8, <2>1, NotifyCloseKeeps
<1>9. ASSUME NEW w \in Instances, SendClose(w) PROVE DeskInv'
  BY Zenon, <1>9, SendCloseKeeps
<1>10. CASE Query
  BY Zenon, <1>0, <1>10, ReapOnly, AppsOnly DEF Query, query
<1>11. ASSUME NEW m, UiKey(m), DeskWm(Apps, m), SameIds(wm, m) PROVE DeskInv'
  BY Zenon, <1>11, ManagerOnly DEF UiKey, SameIds
<1>12. CASE UiTab
  BY Zenon, <1>0, <1>11, <1>12, DeskCycle, CycleSameIds DEF UiTab
<1>13. CASE UiMinimize
  BY Zenon, <1>0, <1>11, <1>13, DeskMinimize, MinimizeSameIds DEF UiMinimize
<1>14. CASE UiMaximize
  <2>1. /\ DeskWm(Apps, restore(wm, wm.focused)) /\ DeskWm(Apps, maximize(wm, wm.focused))
        /\ SameIds(wm, restore(wm, wm.focused)) /\ SameIds(wm, maximize(wm, wm.focused))
    BY Zenon, <1>0, DeskRestore, DeskMaximize, MaximizeSameIds
  <2>2. UiKey(restore(wm, wm.focused)) \/ UiKey(maximize(wm, wm.focused))
    BY Zenon, <1>14 DEF UiMaximize
  <2> QED BY Zenon, <1>11, <2>1, <2>2
<1>15. CASE UiClose
  <2>1. DeskWm(Apps, wm') /\ Ids(wm') \subseteq Ids(wm) /\ wm'.next_id = wm.next_id
    BY <1>0, <1>15, DeskClose DEF UiClose, UiKey
  <2> QED BY Zenon, <1>15, <2>1, ManagerOnly DEF UiClose, UiKey
<1>16. CASE UiChar
  <2>1. AppInv'
    BY Zenon, <1>16 DEF UiChar, appVars, DeskInv, AppInv, OneProcessPerApp, Running
  <2>2. ShellInv' /\ DeskWm(Apps, wm)'
    BY <1>16, FewerWindows DEF DeskInv, UiChar
  <2> QED BY Zenon, <2>1, <2>2 DEF DeskInv
<1>17. CASE UiCommand
  BY Zenon, <1>17, UiCommandKeeps
<1>18. ASSUME NEW k \in 0..1, UiWorkspace(k) PROVE DeskInv'
  BY Zenon, <1>0, <1>11, <1>18, DeskActivate DEF UiWorkspace, SameIds
<1>19. CASE UNCHANGED deskVars
  <2>1. AppInv' /\ UNCHANGED shellVars
    BY <1>19 DEF deskVars, appVars, DeskInv, AppInv, OneProcessPerApp, Running
  <2> QED BY Zenon, <2>1, AppsOnly
<1> QED BY Zenon, <1>1, <1>2, <1>3, <1>4, <1>5, <1>6, <1>7, <1>8, <1>9, <1>10, <1>12, <1>13, <1>14,
           <1>15, <1>16, <1>17, <1>18, <1>19 DEF DeskNext

(* Records are only added, and only a process that has one connects.        *)
LEMMA KnownKeeps == DeskInv /\ Known /\ [DeskNext]_deskVars => Known'
<1> SUFFICES ASSUME DeskInv, Known, [DeskNext]_deskVars PROVE Known'
  OBVIOUS
<1>0. /\ AppInv /\ thread \in [Instances -> Threads] /\ DOMAIN process = DOMAIN instances
      /\ DOMAIN reap = DOMAIN instances
  BY DEF DeskInv, AppInv, ShellInv, ShellTypes, reap
<1>1. ASSUME DOMAIN instances \subseteq DOMAIN instances', UNCHANGED shellVars PROVE Known'
  BY Zenon, <1>1 DEF Known, shellVars
<1>2. ASSUME NEW app \in Apps, NEW spawned \in BOOLEAN, Launch(app, spawned) PROVE Known'
  <2>1. instances' = reap \/ \E q : instances' = Append(reap, q)
    BY Zenon, <1>2 DEF Launch, launch
  <2>2. reap \in Seq(Instance)
    BY Zenon, <1>0, ReapKeeps
  <2>3. \A q : DOMAIN reap \subseteq DOMAIN Append(reap, q)
    BY <2>2
  <2> QED BY Zenon, <1>0, <1>1, <1>2, <2>1, <2>3 DEF Launch
<1>3. ASSUME NEW i, close_instance(i), UNCHANGED shellVars PROVE Known'
  <2>1. DOMAIN instances' = DOMAIN reap
    BY Zenon, <1>3 DEF close_instance
  <2> QED BY Zenon, <1>0, <1>1, <1>3, <2>1
<1>4. ASSUME NEW app \in Apps, CloseApp(app) PROVE Known'
  BY Zenon, <1>0, <1>1, <1>3, <1>4 DEF CloseApp, close_app
<1>5. CASE Query
  BY Zenon, <1>0, <1>1, <1>5 DEF Query, query
<1>6. ASSUME UNCHANGED <<thread, instances>> PROVE Known'
  BY Zenon, <1>6 DEF Known
<1>7. ASSUME NEW i \in Instances, UNCHANGED instances, i \in DOMAIN instances,
             \E v : thread' = [thread EXCEPT ![i] = v]
      PROVE  Known'
  <2>1. \A j \in Instances : j # i => thread'[j] = thread[j]
    BY Zenon, <1>0, <1>7
  <2> QED BY Zenon, <1>7, <2>1 DEF Known
<1>8. ASSUME NEW i \in Instances,
             Connect(i) \/ RegisterCreate(i) \/ RegisterReply(i) \/ Disconnect(i)
      PROVE  Known'
  <2>1. i \in DOMAIN instances
    BY <1>0, <1>8 DEF Connect, RegisterCreate, RegisterReply, Disconnect, alive, Known
  <2>2. UNCHANGED instances /\ \E v : thread' = [thread EXCEPT ![i] = v]
    BY Zenon, <1>8 DEF Connect, RegisterCreate, RegisterReply, Disconnect, appVars
  <2> QED BY Zenon, <1>7, <2>1, <2>2
<1>9. ASSUME NEW i \in Instances, Poll(i) \/ Exit(i, "failure") PROVE Known'
  BY Zenon, <1>6, <1>9 DEF Poll, Exit, exits, appVars, shellVars
<1>10. ASSUME NEW w, Control(w) \/ notify_close(w) \/ SendClose(w) PROVE Known'
  BY Zenon, <1>6, <1>10 DEF Control, notify_close, SendClose, appVars
<1>11. ASSUME NEW m, UiKey(m) PROVE Known'
  BY Zenon, <1>6, <1>11 DEF UiKey, appVars
<1>12. CASE UiChar \/ UiCommand
  BY Zenon, <1>6, <1>12 DEF UiChar, UiCommand, appVars
<1>13. CASE UNCHANGED deskVars
  BY Zenon, <1>6, <1>13 DEF deskVars, shellVars, appVars
<1> QED BY Zenon, <1>2, <1>3, <1>4, <1>5, <1>8, <1>9, <1>10, <1>11, <1>12, <1>13
        DEF DeskNext, CloseInstance, ControlCloseApp, UiTab, UiMinimize, UiMaximize, UiClose, UiWorkspace

(* Nothing is running and there are no windows.                             *)
LEMMA DeskStart == DeskInit => DeskInv
<1> SUFFICES ASSUME DeskInit PROVE DeskInv
  OBVIOUS
<1>1. AppInv
  BY DEF DeskInit, AppsInit, AppInv, OneProcessPerApp
<1>2. DeskWm(Apps, wm) /\ Ids(wm) = {} /\ wm.next_id = 0
  BY DeskNew DEF DeskInit, new
<1>3. <<>> \in Seq(Lines) /\ <<>> \in Seq(Nat)
  OBVIOUS
<1>4. ShellTypes
  BY Zenon, <1>3 DEF DeskInit, ShellTypes, Threads, NoWindow
<1>5. Unregistered /\ Owner /\ \A i \in Instances : UnderWay(i)
  BY <1>2 DEF DeskInit, Unregistered, Owner, UnderWay, NoWindow
<1> QED BY Zenon, <1>1, <1>2, <1>4, <1>5 DEF DeskInv, ShellInv

(* The invariant holds throughout.                                          *)
LEMMA DeskAlways == DeskSpec => []DeskInv
<1>1. DeskInit => Known
  BY Zenon DEF DeskInit, Known
<1> QED BY <1>1, DeskStart, DeskStepKeeps, KnownKeeps, PTL DEF DeskSpec

(* Keys, control requests and closes in every order leave the focus on the  *)
(* window on top, for any number of applications, instances and windows.    *)
THEOREM FocusStaysOnTop == DeskSpec => []FocusIsTopmost
<1>1. DeskInv => FocusIsTopmost
  <2> SUFFICES ASSUME DeskInv PROVE FocusIsTopmost
    OBVIOUS
  <2>1. TablesAgree(wm)
    BY Zenon, InvAgrees DEF DeskInv, DeskWm
  <2>2. wm.stack \in Seq(DOMAIN wm.windows)
    BY DEF DeskInv, DeskWm, WmInv, WmTables, StackOk
  <2>3. IsTop(wm.stack, showing(wm), topmost(wm, showing(wm)))
    BY Zenon, <2>2, TopmostIsTop
  <2>4. wm.focused = topmost(wm, showing(wm))
    BY Zenon, <2>2, <2>3, TopIsUnique DEF DeskInv, DeskWm
  <2> QED BY Zenon, <2>1, <2>4 DEF FocusIsTopmost, DeskInv, DeskWm, Flags
<1> QED BY <1>1, DeskAlways, PTL

(* However launches, ends and closes interleave, an application has at most *)
(* one process, and the application manager tracks it.                      *)
THEOREM LaunchedOnce == DeskSpec => []OneProcessPerApp
<1>1. DeskInv => OneProcessPerApp
  BY Zenon DEF DeskInv, AppInv
<1> QED BY <1>1, DeskAlways, PTL

(* Every window keeps an owner, and one whose owner is gone or was told to  *)
(* close has its removal under way.                                         *)
THEOREM WindowsAreOwned == DeskSpec => []NoOrphanWindow
<1>1. DeskInv => NoOrphanWindow
  BY DEF DeskInv, ShellInv, Owner, UnderWay, NoOrphanWindow
<1> QED BY <1>1, DeskAlways, PTL
=============================================================================
