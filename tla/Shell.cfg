SPECIFICATION Spec
CONSTANTS
    Apps = {"notes"}
    MaxInstances = 2
    MaxCommands = 1
    MaxClosing = 1
    MaxWindows = 2
    MaxWorkspaces = 3
INVARIANT NoOrphanWindow
INVARIANT FocusIsTopmost
INVARIANT OneProcessPerApp
INVARIANT WindowTablesAgree
CHECK_DEADLOCK FALSE
