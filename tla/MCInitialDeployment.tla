------------------------ MODULE MCInitialDeployment ------------------------
(***************************************************************************)
(* Proposals for one System name, each with a contract of its own.  d1 is  *)
(* one that failed on its compute class before classes were checked.       *)
(***************************************************************************)
EXTENDS InitialDeployment

CONSTANTS d1, d2, d3, c1, c2, c3, w1, w2

MCContractOf == [d \in Deployments |-> CASE d = d1 -> c1 [] d = d2 -> c2 [] d = d3 -> c3]

\* Two proposals race for the name and for the last unit of spend; workers
\* die, the provider fails, the host is destroyed, payment lapses, somebody
\* registers Systems.
Crashing == [deployments |-> {d2, d3}, workers |-> {w1, w2}, executions |-> 2, limit |-> 1,
             requesters |-> {"human"}, destroy |-> {"failed"}, paid |-> TRUE,
             faults |-> {"crash", "host", "load", "engine", "foreign", "billing"},
             once |-> {}, left |-> 2]

\* One proposal whose workers stall past their leases, and whose host is destroyed.
Stalling == [deployments |-> {d2}, workers |-> {w1, w2}, executions |-> 2, limit |-> 1,
             requesters |-> {"human"}, destroy |-> {"failed", "running"}, paid |-> TRUE,
             faults |-> {"pause", "host", "engine"}, once |-> {"pause"}, left |-> 2]

\* A worker stalls past its lease while two proposals take turns.
Overtaking == [Stalling EXCEPT !.deployments = {d2, d3}, !.limit = 2, !.destroy = {},
                               !.faults = {"pause", "load"}]

\* Two corrections of the legacy proposal, which is retried as well.
Correcting == [deployments |-> {d1, d2, d3}, workers |-> {w1}, executions |-> 3, limit |-> 2,
               requesters |-> {"human"}, destroy |-> {}, paid |-> TRUE,
               faults |-> {"engine"}, once |-> {}, left |-> 2]

\* The host is destroyed under a running deployment.
Destroying == [deployments |-> {d2}, workers |-> {w1}, executions |-> 2, limit |-> 1,
               requesters |-> {"human", "agent"}, destroy |-> {"failed", "running"},
               paid |-> TRUE, faults |-> {"crash", "host"}, once |-> {}, left |-> 2]

MCEnvironments == {Crashing, Stalling, Overtaking, Correcting, Destroying}
=============================================================================
