SPECIFICATION KeysSpec
CONSTANTS
    Apps = {"notes"}
    MaxInstances = 1
    MaxCommands = 1
    MaxClosing = 1
    MaxInbox = 2
PROPERTY KeyIsDelivered
CHECK_DEADLOCK FALSE
