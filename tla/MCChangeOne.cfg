SPECIFICATION FairSpec
CONSTANTS
    r1 = r1
    r2 = r2
    s1 = s1
    s2 = s2
    w1 = w1
    w2 = w2
    Releases = {r1, r2}
    Migrating = {r2}
    Scales = {s1, s2}
    Workers = {w1}
    Authorizers = {h1}
    BaseVersion = v0
    ScaleTo = 2
    MaxLeases = 5
    Environments <- OneApplier
INVARIANTS RejectedLeftNoTrace
PROPERTIES RevertedRestored RevertedStaysOut ScaleKeepsRelease AuthorizedSettles
CHECK_DEADLOCK FALSE
