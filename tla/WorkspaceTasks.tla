---------------------------- MODULE WorkspaceTasks ----------------------------
(***************************************************************************)
(* Tasks for external agents, internal/controlplane/workspace_activity.go: *)
(* queued by a member or by the hosted operator, claimed by one connected  *)
(* agent, finished by that agent.  An id is derived from the operation key *)
(* when there is one, so that creating it again finds it.                  *)
(***************************************************************************)
EXTENDS TLC

CONSTANTS
    Agents,    \* connected installations
    Temporary  \* those with an expiry, revoked when their task is finished

VARIABLES
    tasks,   \* workspace_tasks, by id
    revoked  \* installations

Anyone == "anyone"

TasksInit == tasks = <<>> /\ revoked = {}

createWorkspaceTask(id) ==
    /\ IF id \in DOMAIN tasks
       THEN UNCHANGED tasks
       ELSE \E a \in (Agents \ revoked) \union {Anyone} :
              tasks' = (id :> [st |-> "queued", by |-> Anyone, target |-> a]) @@ tasks
    /\ UNCHANGED revoked

\* An agent has at most one working task, by a unique index.
ClaimWorkspaceTask(id, a) ==
    /\ a \notin revoked
    /\ tasks[id].st = "queued" /\ tasks[id].target \in {a, Anyone}
    /\ \A t \in DOMAIN tasks : tasks[t].by = a => tasks[t].st # "working"
    /\ tasks' = [tasks EXCEPT ![id].st = "working", ![id].by = a]
    /\ UNCHANGED revoked

FinishWorkspaceTask(id, a, st) ==
    /\ a \notin revoked
    /\ tasks[id].st = "working" /\ tasks[id].by = a
    /\ tasks' = [tasks EXCEPT ![id].st = st]
    /\ revoked' = IF a \in Temporary THEN revoked \union {a} ELSE revoked

changeTask ==
    \E id \in DOMAIN tasks, a \in Agents :
        \/ ClaimWorkspaceTask(id, a)
        \/ \E st \in {"completed", "failed"} : FinishWorkspaceTask(id, a, st)
===============================================================================
