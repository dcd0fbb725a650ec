SPECIFICATION FairSpec
CONSTANTS
    Runs = {1, 2, 3}
    Workers = {w1, w2}
    QueueLimit = 2
    StepLimit = 2
    Agents = {a1, a2}
    Temporary = {a1}
    Environments <- MCEnvironments
PROPERTIES SavedWorkStands RepeatIsHarmless RunsSettle
CHECK_DEADLOCK FALSE
