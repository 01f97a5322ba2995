SPECIFICATION Spec
CONSTANTS
    MaxContent = 1
    MaxSteps = 3
    Devices = {"phone", "tablet", "laptop"}
    DEVICE_REGISTRY_LIMIT = 2
    MaxSeq = 2
    MaxAhead = 1
    MaxTime = 2
    MaxInFlight = 2
    skew_ms = 1
    MaxLimit = 8
    base_ms = 200
    max_ms = 10000
    LogLimit = 2
    DayMinutes = 2
    MaxNow = 5
    Publishers = {"p", "q"}
    MaxInstalls = 3
    MaxWakes = 3
    Sessions = {1, 2, 3}
    Actions = {1, 2, 3}
    NoSession = 0
    Risks = {"Low", "High"}
    max_sessions = 3
    max_pending_approvals = 2
INVARIANT LastSaveIsReadable
INVARIANT PlanReportIsTrue
INVARIANT PairedMeansBegun
INVARIANT DeliveredInOrder
INVARIANT RestartsAsPromised
INVARIANT ActsOnce
 
INVARIANT RepliesInOrder
INVARIANT IndInv
INVARIANT ApprovalsMatchSessions
INVARIANT OneAnswer
PROPERTY Consent
CHECK_DEADLOCK FALSE
