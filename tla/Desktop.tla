------------------------------ MODULE Desktop ------------------------------
(***************************************************************************)
(* The desktop: the shell (graphics/aether-graphical-shell/src/main.rs and *)
(* surface_server.rs) around the window manager, and the applications that *)
(* System Core launches and closes.  The shell is a UI loop that decodes   *)
(* keys, one surface-server thread per connection, the window manager      *)
(* behind one mutex, the map of client sockets behind another, and the     *)
(* channel of Close commands from the threads to the loop.  A process uses *)
(* apps/aether-surface/src/lib.rs: it opens one connection, writes one     *)
(* register line on it, and ends when it is told to close, by itself, or   *)
(* because System Core kills it.                                           *)
(***************************************************************************)
EXTENDS WindowManager, Applications

CONSTANTS MaxCommands,    \* bound on the Close commands in the channel
          MaxClosing      \* bound on the control clients closing at a time

VARIABLES wm,             \* the window manager
          ui,             \* "loop", or "typing" while a key is being forwarded
          wm_lock,        \* "free", or "ui" while the loop keeps it across steps
          thread,         \* instance -> its connection: none, requested, registering,
                          \* open, gone
          registered,     \* instance -> its window, as its thread knows it
          clients,        \* windows with a socket in the map
          inbox,          \* instance -> lines sent to it and not yet read
          closing,        \* windows a control client's thread is closing
          commands        \* the channel of Close commands

shellVars == <<wm, ui, wm_lock, thread, registered, clients, inbox, closing, commands>>
deskVars == <<shellVars, appVars>>

Instances == 1..MaxInstances

DeskInit == /\ AppsInit
            /\ wm = new
            /\ ui = "loop"
            /\ wm_lock = "free"
            /\ thread = [i \in Instances |-> "none"]
            /\ registered = [i \in Instances |-> NoWindow]
            /\ clients = {}
            /\ inbox = [i \in Instances |-> <<>>]
            /\ closing = {}
            /\ commands = <<>>

alive(i) == i \in DOMAIN process /\ process[i] = "alive"

-----------------------------------------------------------------------------
(* System Core: app.launch, app.close, app.status *)

Launch(app, spawned) == launch(app, spawned) /\ UNCHANGED shellVars
CloseInstance(i) == i \in DOMAIN instances /\ close_instance(i) /\ UNCHANGED shellVars
CloseApp(app) == close_app(app) /\ UNCHANGED shellVars
Query == query /\ UNCHANGED shellVars

-----------------------------------------------------------------------------
(* A process and the thread of its connection *)

\* The process ends, whatever its connection was doing.
Exit(i, code) == alive(i) /\ exits(i, code) /\ UNCHANGED shellVars

\* Surface::connect: a process connects once and writes its register line.
Connect(i) ==
    /\ alive(i)
    /\ thread[i] = "none"
    /\ thread' = [thread EXCEPT ![i] = "requested"]
    /\ UNCHANGED <<appVars, wm, ui, wm_lock, registered, clients, inbox, closing, commands>>

\* "register", for any such line the thread reads, the process alive or not:
\* the window is created under the lock ...
RegisterCreate(i) ==
    /\ thread[i] = "requested"
    /\ wm_lock = "free"
    /\ wm' = create(wm, instances[i].app_id)
    /\ registered' = [registered EXCEPT ![i] = wm.next_id + 1]
    /\ thread' = [thread EXCEPT ![i] = "registering"]
    /\ UNCHANGED <<appVars, ui, wm_lock, clients, inbox, closing, commands>>

\* ... and its socket enters the map after the lock was released.
RegisterReply(i) ==
    /\ thread[i] = "registering"
    /\ clients' = clients \cup {registered[i]}
    /\ inbox' = [inbox EXCEPT ![i] = Append(@, "registered")]
    /\ thread' = [thread EXCEPT ![i] = "open"]
    /\ UNCHANGED <<appVars, wm, ui, wm_lock, registered, closing, commands>>

\* connect and poll: one read may return several lines, and the reader that
\* buffered them is dropped after the first.  A close ends the process.
Poll(i) ==
    /\ alive(i)
    /\ inbox[i] # <<>>
    /\ \E n \in 1..Len(inbox[i]) : inbox' = [inbox EXCEPT ![i] = SubSeq(@, n + 1, Len(@))]
    /\ IF Head(inbox[i]) = "close" THEN exits(i, "success") ELSE UNCHANGED appVars
    /\ UNCHANGED <<wm, ui, wm_lock, thread, registered, clients, closing, commands>>

(* Mutant: the thread ends without a Close command. *)
DisconnectSilently(i) ==
    /\ thread[i] = "open"
    /\ ~ alive(i)
    /\ thread' = [thread EXCEPT ![i] = "gone"]
    /\ inbox' = [inbox EXCEPT ![i] = <<>>]
    /\ UNCHANGED <<appVars, wm, ui, wm_lock, registered, clients, closing, commands>>

\* The thread sees the end of the stream and asks for the window's removal.
Disconnect(i) ==
    /\ thread[i] = "open"
    /\ ~ alive(i)
    /\ Len(commands) < MaxCommands
    /\ commands' = Append(commands, registered[i])
    /\ thread' = [thread EXCEPT ![i] = "gone"]
    /\ inbox' = [inbox EXCEPT ![i] = <<>>]
    /\ UNCHANGED <<appVars, wm, ui, wm_lock, registered, clients, closing>>

-----------------------------------------------------------------------------
(* Control clients: requests for a window by its id, which may be stale *)

\* window.focus, window.minimize and window.maximize.
Control(w) ==
    /\ wm_lock = "free"
    /\ wm' \in {focus(wm, w), minimize(wm, w), maximize(wm, w)}
    /\ UNCHANGED <<appVars, ui, wm_lock, thread, registered, clients, inbox, closing, commands>>

\* window.close: the client is told if its socket is in the map, ...
notify_close(w) ==
    /\ Cardinality(closing) < MaxClosing
    /\ inbox' = [i \in Instances |-> IF w \in clients /\ registered[i] = w /\ alive(i)
                                     THEN Append(inbox[i], "close") ELSE inbox[i]]
    /\ clients' = clients \ {w}
    /\ closing' = closing \cup {w}
    /\ UNCHANGED <<appVars, wm, ui, wm_lock, thread, registered, commands>>

\* ... then the window's removal is queued.
SendClose(w) ==
    /\ w \in closing
    /\ Len(commands) < MaxCommands
    /\ closing' = closing \ {w}
    /\ commands' = Append(commands, w)
    /\ UNCHANGED <<appVars, wm, ui, wm_lock, thread, registered, clients, inbox>>

\* window.close by application: the lowest window of that application.
find_by_app(app) ==
    LET at == {k \in 1..Len(wm.stack) : wm.windows[wm.stack[k]].app_id = app}
    IN IF at = {} THEN NoWindow ELSE wm.stack[CHOOSE k \in at : \A j \in at : k <= j]

ControlCloseApp(app) ==
    /\ wm_lock = "free"
    /\ find_by_app(app) # NoWindow
    /\ notify_close(find_by_app(app))

-----------------------------------------------------------------------------
(* The UI loop *)

\* A key of the loop that changes the window manager to m.
UiKey(m) ==
    /\ ui = "loop"
    /\ wm_lock = "free"
    /\ wm' = m
    /\ UNCHANGED <<appVars, ui, wm_lock, thread, registered, clients, inbox, closing, commands>>

UiTab == UiKey(cycle_focus(wm))
UiMinimize == wm.focused # NoWindow /\ UiKey(minimize(wm, wm.focused))
UiMaximize == /\ wm.focused # NoWindow
              /\ UiKey(IF wm.windows[wm.focused].state = "Maximized"
                       THEN restore(wm, wm.focused) ELSE maximize(wm, wm.focused))
\* F4 removes the window; its client is not told.
UiClose == wm.focused # NoWindow /\ UiKey(close(wm, wm.focused))
UiWorkspace(k) == UiKey(activate_workspace(wm, k))

\* A printable key: the guard taken for handle_key lives to the end of the
\* `if let` whose body locks the window manager again.
UiChar ==
    /\ ui = "loop"
    /\ wm_lock = "free"
    /\ ui' = "typing"
    /\ wm_lock' = "ui"
    /\ UNCHANGED <<appVars, wm, thread, registered, clients, inbox, closing, commands>>

\* The loop takes the next Close command.
UiCommand ==
    /\ ui = "loop"
    /\ wm_lock = "free"
    /\ commands # <<>>
    /\ wm' = close(wm, Head(commands))
    /\ commands' = Tail(commands)
    /\ UNCHANGED <<appVars, ui, wm_lock, thread, registered, clients, inbox, closing>>

DeskNext == \/ \E app \in Apps : \/ \E spawned \in BOOLEAN : Launch(app, spawned)
                                 \/ CloseApp(app) \/ ControlCloseApp(app)
            \/ \E i \in Instances : \/ Connect(i) \/ RegisterCreate(i) \/ RegisterReply(i)
                                    \/ Poll(i) \/ Disconnect(i)
                                    \/ CloseInstance(i) \/ Exit(i, "failure")
            \/ \E w \in Instances : Control(w) \/ notify_close(w) \/ SendClose(w)
            \/ Query
            \/ UiTab \/ UiMinimize \/ UiMaximize \/ UiClose \/ UiChar \/ UiCommand
            \/ \E k \in 0..1 : UiWorkspace(k)

DeskSpec == DeskInit /\ [][DeskNext]_deskVars

-----------------------------------------------------------------------------
(* Properties *)

(* No window is left behind.  A window belongs to the thread of a launched  *)
(* process; once that process has ended, by itself, told to or killed by    *)
(* app.close, its thread has still to notice or the removal of the window   *)
(* is in the channel (surface_server.rs: the Close sent at the end of a     *)
(* thread), whatever order requests, keys and ends came in.  A process that *)
(* was told to close has its window's removal in the channel or in the      *)
(* hands of the thread that told it.                                        *)
NoOrphanWindow ==
    \A w \in Ids(wm) : \E i \in Instances :
        /\ registered[i] = w
        /\ thread[i] = "gone" => w \in Range(commands)
        /\ "close" \in Range(inbox[i]) => w \in Range(commands) \cup closing

(* The window that gets the keys is the one the user sees on top, and the   *)
(* only one that window.list reports as focused, after every mix of keys,   *)
(* control requests and closes by ids that may be stale.                    *)
FocusIsTopmost ==
    /\ TablesAgree(wm)
    /\ wm.focused = topmost(wm, showing(wm))
    /\ \A w \in Ids(wm) : wm.windows[w].focused <=> w = wm.focused
=============================================================================
