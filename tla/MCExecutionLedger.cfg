SPECIFICATION FairSpec
CONSTANTS
    h1 = h1
    Executions = {e1}
    Workers = {w1, w2}
    Hosts = {h1}
    HostOf <- MCHostOf
    Lease = 2
    MaxDelay = 2
    MaxFaults = 3
INVARIANTS FinishedByLatestClaim SilentHolderLosesLease
PROPERTIES ImplementsFencedJob QueuedSettles
