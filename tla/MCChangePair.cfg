SPECIFICATION Spec
CONSTANTS
    r1 = r1
    r2 = r2
    s1 = s1
    s2 = s2
    w1 = w1
    w2 = w2
    Releases = {r1, r2}
    Migrating = {r2}
    Scales = {s1, s2}
    Workers = {w1, w2}
    Authorizers = {h1}
    BaseVersion = v0
    ScaleTo = 2
    MaxLeases = 3
    Environments <- TwoAppliers
INVARIANTS CommittedTookEffect
PROPERTIES OneWriter
CHECK_DEADLOCK FALSE
