SPECIFICATION SmSpec
CONSTANTS
    a = a
    b = b
    c = c
    p1 = p1
    p2 = p2
    p3 = p3
    NoHandle = NoHandle
    Services <- MCServices
    Deps <- MCDeps
    Order <- MCOrder
    RestartPolicy <- MCPolicy
    RestartLimit <- MCLimit
    CountMax = 1
    Pids <- MCPids
SYMMETRY PidSymmetry
INVARIANT RolledBack
