SPECIFICATION FairSpec
CONSTANTS
    d1 = d1
    d2 = d2
    d3 = d3
    c1 = c1
    c2 = c2
    c3 = c3
    w1 = w1
    w2 = w2
    Deployments = {d1, d2, d3}
    Contracts = {c1, c2, c3}
    Unsupported = {c1}
    ContractOf <- MCContractOf
    MaxExecutions = 3
    Workers = {w1, w2}
    MaxRevision = 3
    MaxHosts = 2
    Environments <- MCEnvironments
CHECK_DEADLOCK FALSE
INVARIANTS PhaseFollowsExecution SpendIsReserved ApprovedContractStands
PROPERTIES ReceiptedWorkIsNotRepeated QueuedSettles
