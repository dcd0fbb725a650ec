SPECIFICATION FairSpec
CONSTANTS
    Environments <- Scenarios
    Clients = {"q1", "q2"}
    Emails = {"e1"}
    Passwords = {"old", "new"}
    Keys = {"k1", "k2"}
    Subjects = {"x1", "x2"}
    SubjectEmail <- SameAddress
    MaxAttempts = 2
    MaxSends = 2
    Plans = {"payg", "pro"}
    Servers = {1}
    Dispatchers = {"d1", "d2"}
    CapServers = 1
    Collectors = {"c1", "c2"}
    Senders = {"s1", "s2"}
    Producers = {"u1", "u2"}
    TicksPerCent = 2
    Window = 2
    LastTick = 4
    Workspaces = {1, 2}
    Billed = 1
    Artifacts = {"d"}
    Uploads = {"p1", "p2"}
INVARIANTS SessionsRestOnCredentials FactorBehindEverySession ProofsAreSpentOnce VerifiedPasswordIsProven BillingFollowsProvider RemovedHasNothing UsageIsBilledOnce ArtifactsFollowOwners
PROPERTIES RemovalSettles
CHECK_DEADLOCK FALSE
