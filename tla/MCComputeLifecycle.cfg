SPECIFICATION Spec
CONSTANTS
    a1 = a1
    a2 = a2
    d1 = d1
    x1 = x1
    x2 = x2
    o1 = o1
    Appliers = {a1, a2}
    Destroyers = {d1}
    Exposers = {x1, x2}
    Operators = {o1}
    NumReplicas = 1
    NumNetworks = 2
    MaxOps = 2
    Environments <- MCEnvironments
INVARIANTS DestroyedLeavesNothing OneServerPerReplica
PROPERTIES DestroyedIsFinal
CHECK_DEADLOCK FALSE
