SPECIFICATION RemoteSpec
CONSTANTS
    MaxSeq = 2
    MaxAhead = 1
    MaxTime = 2
    MaxInFlight = 2
    skew_ms = 1
INVARIANT InOrderPerPeer
CHECK_DEADLOCK FALSE
