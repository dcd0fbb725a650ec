---------------------------- MODULE MCNodeRuntime ----------------------------
EXTENDS NodeRuntime

CONSTANTS h1, h2, r1, r2

MCArtifactOf == [a |-> "A", a2 |-> "A", b |-> "B"]

D(rel, reps, leased) == [rel |-> rel, reps |-> reps, leased |-> leased]

Base == [hosts |-> {h1}, tokens |-> 1, wishes |-> {}, changes |-> 0, restarts |-> 0,
         requests |-> 0, plan |-> FALSE, faults |-> {}, left |-> 0]

\* Tokens drawn by workers that die, hosts that boot late, revocation.
Enrollment == [Base EXCEPT !.hosts = {h1, h2}, !.tokens = 3, !.left = 1,
                           !.faults = {"reply", "late", "revoke"}]
\* Requests while releases follow each other and scale.
Traffic == [Base EXCEPT !.wishes = {D("a", 2, FALSE), D("b", 1, FALSE)},
                        !.changes = 2, !.requests = 2, !.faults = {"launch"}, !.left = 1]
\* Restarts and a temporary scale, while replicas exit or the node dies.
Trouble == [Base EXCEPT !.wishes = {D("a", 1, FALSE), D("a", 2, TRUE)}, !.changes = 2,
                        !.restarts = 1, !.faults = {"exit", "crash", "launch"}, !.left = 2]
\* Answers of the gateway are lost around restarts; services fail.
Lossy == [Base EXCEPT !.wishes = {D("a", 1, FALSE), D("a2", 1, FALSE)}, !.changes = 2,
                      !.restarts = 2, !.plan = TRUE, !.faults = {"report", "services"},
                      !.left = 2]

MCEnvironments == {Enrollment, Traffic, Trouble, Lossy}
==============================================================================
