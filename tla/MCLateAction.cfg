SPECIFICATION AtSpec
CONSTANTS
    a = a
    b = b
    o = o
    ProposalIds <- MCProposalIds
    Offers <- MCOffers
    Observations <- MCObservations
    Ports = {"own"}
    MaxRetries = 1
    HistoryLimit = 1
    ObservationLimit = 1
    BacklogLimit = 2
    MaxTasks = 3
INVARIANT FailedIsNotPerformed
