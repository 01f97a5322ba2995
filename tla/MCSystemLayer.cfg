SPECIFICATION Spec
CONSTANTS
    ServiceIds = {1, 2, 3, 4}
    Absent = 4
    Inputs <- MCInputs
    Hash <- MCHash
    Genesis = "genesis"
    MaxEntries = 2
    MaxAge = 1
    Managed = {s1}
    Times = {0, 1, 2}
    MaxRecords = 4
    p1 = p1
    p2 = p2
    t1 = t1
    img1 = img1
    img2 = img2
    Plans <- MCPlans
    Target <- MCTarget
    Image <- MCImage
    Policies <- MCPolicies
    Original = original
    Damaged = damaged
    Torn = torn
    Missing = missing
    BreakerMax = 2
INVARIANT DgIndInv
INVARIANT ResultIsStartOrder
INVARIANT CycleIsReal
INVARIANT TiesByPriority
INVARIANT VerifyTellsEviction
INVARIANT LogIsRecentHistory
INVARIANT EndedMeansStopped
INVARIANT UpdIndInv
INVARIANT OnlyVerifiedBytes
INVARIANT DoneMeansInstalled
INVARIANT RollbackKeepsActive
INVARIANT SnapshotHoldsPrevious
PROPERTY PruneCutsAtFirstYoung
PROPERTY DriveEnds
