SPECIFICATION Spec
CONSTANTS
    Agents = {"a", "b"}
    Workers = {"w"}
    MaxCredentials = 4
    Environments <- Access
    Changes = {"c"}
    Policies = {"p"}
    Allowed <- OnlyFirst
    Covers <- OnlyC
    Humans = {"m"}
    Handlers = {"h", "i"}
    MaxRoutes = 2
    MaxRevision = 2
INVARIANTS FamilyNeverForks RevokedIsCutOff RouteMatchesGrant QueuedWasAuthorized
CHECK_DEADLOCK FALSE
