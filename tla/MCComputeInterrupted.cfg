SPECIFICATION FairSpec
CONSTANTS
    a1 = a1
    a2 = a2
    d1 = d1
    x1 = x1
    x2 = x2
    o1 = o1
    Appliers = {a1, a2}
    Destroyers = {d1}
    Exposers = {x1, x2}
    Operators = {o1}
    NumReplicas = 1
    NumNetworks = 1
    MaxOps = 1
    Environments <- MCStopped
PROPERTIES DestroyResumes
CHECK_DEADLOCK FALSE
