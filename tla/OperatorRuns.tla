----------------------------- MODULE OperatorRuns -----------------------------
(***************************************************************************)
(* The hosted operator: the runs of one conversation, the workers that     *)
(* answer them (operator_runtime.go over operator_store.go), and the tasks *)
(* they queue for external agents (workspace_activity.go).                 *)
(*                                                                         *)
(* A run is identified by its request id.  A statement on the database is  *)
(* one step; an operatorEvent, which changes nothing but the log and has   *)
(* the fence of the statement next to it, is part of that step.            *)
(*                                                                         *)
(* The messages of a run are abstracted to its last answer: its number,    *)
(* the kinds of tool it calls and how many results follow it.  The model   *)
(* provider is any answer of env.answers; its call ids are unique.         *)
(***************************************************************************)
EXTENDS WorkspaceTasks, Naturals, Sequences, FiniteSets, SequencesExt

CONSTANTS
    Runs,         \* request ids; 120 an hour in the code
    Workers,
    QueueLimit,   \* queued messages per conversation, 4
    StepLimit,    \* model steps per run, 20
    Environments  \* records [runs, answers, faults, left]

VARIABLES
    order,    \* the runs by created_at
    status,   \* operator_runs: status, checkpoint and steps, lease
    saved,
    steps,
    lease,
    started,  \* operator_tool_calls: the rows, and those with a result
    results,
    scratch,  \* operator_working_context: the commands in /scratch
    done,     \* writes that tools performed, with the claim that did
    granted,  \* the member and the hosted installation may act
    me,       \* the workers
    issued,   \* lease tokens drawn
    env

rows == <<order, status, saved, steps, lease>>
external == <<tasks, revoked>>
calls == <<started, results, scratch, done, external>>
vars == <<rows, calls, granted, me, issued, env>>

Settled == {"completed", "failed", "cancelled"}
NoLease == [token |-> 0, live |-> FALSE]
NoMessages == [answer |-> 0, calls |-> <<>>, replies |-> 0, begun |-> FALSE]
Idle == [pc |-> "idle"]

Init ==
    /\ env \in Environments
    /\ order = <<>>
    /\ status = [r \in Runs |-> "none"]
    /\ saved = [r \in Runs |-> NoMessages]
    /\ steps = [r \in Runs |-> 0]
    /\ lease = [r \in Runs |-> NoLease]
    /\ started = {} /\ results = {} /\ scratch = {} /\ done = {}
    /\ TasksInit
    /\ granted = TRUE
    /\ me = [w \in Workers |-> Idle]
    /\ issued = 0

With(st) == {r \in Runs : status[r] = st}

\* A fault of kind f happens; the budget of faults is shared.
Fault(f) ==
    /\ f \in env.faults /\ env.left > 0
    /\ env' = [env EXCEPT !.left = @ - 1]

-----------------------------------------------------------------------------
(* The conversation's owner.                                                *)

\* created_at is when the transaction began, before it waited for the lock of
\* the conversation: the run may come before those already there.
EnqueueOperatorWithOptions(r) ==
    /\ r \in env.runs /\ status[r] = "none"
    /\ Cardinality(With("queued")) < QueueLimit
    /\ \E i \in 1 .. Len(order) + 1 : order' = InsertAt(order, i, r)
    /\ status' = [status EXCEPT ![r] = "queued"]
    /\ UNCHANGED <<saved, steps, lease, calls, granted, me, issued, env>>

cancelOperator ==
    LET ids == With("queued") \union With("running") IN
    /\ Fault("cancel")
    /\ ids # {}
    /\ status' = [r \in Runs |-> IF r \in ids THEN "cancelled" ELSE status[r]]
    /\ lease' = [r \in Runs |-> IF r \in ids THEN NoLease ELSE lease[r]]
    /\ UNCHANGED <<order, saved, steps, calls, granted, me, issued>>

\* The member leaves, or the hosted agent's installation is revoked.
Revoke ==
    /\ Fault("revoke") /\ granted
    /\ granted' = FALSE
    /\ UNCHANGED <<rows, calls, me, issued>>

-----------------------------------------------------------------------------
(* Claims and leases.                                                       *)

Before(r, q) ==
    \E i, j \in 1 .. Len(order) : i < j /\ order[i] = r /\ order[j] = q

\* Mutant: runs whose worker died are not looked for.
ClaimableQueued(r) ==
    /\ status[r] = "queued"
    /\ With("running") = {}
    /\ \A q \in With("queued") : ~Before(q, r)

Claimable(r) ==
    \/ status[r] = "running" /\ ~lease[r].live
    \/ /\ status[r] = "queued"
       /\ With("running") = {}
       /\ \A q \in With("queued") : ~Before(q, r)

claimOperator(w) ==
    /\ me[w] = Idle
    /\ \E r \in Runs :
        /\ Claimable(r)
        /\ \A q \in Runs : Claimable(q) => ~Before(q, r)
        /\ status' = [status EXCEPT ![r] = "running"]
        /\ lease' = [lease EXCEPT ![r] = [token |-> issued + 1, live |-> TRUE]]
        /\ me' = [me EXCEPT ![w] =
               [pc |-> "principal", run |-> r, token |-> issued + 1,
                messages |-> saved[r], steps |-> steps[r], copy |-> {}]]
    /\ issued' = issued + 1
    /\ UNCHANGED <<order, saved, steps, calls, granted, env>>

\* Mutant: any live lease of the run will do.
LeasedByAny(w) ==
    /\ status[me[w].run] = "running"
    /\ lease[me[w].run].live

\* WHERE id=$1 AND lease_token=$2 AND status='running' AND lease_expires_at>now()
Fenced(w) ==
    /\ status[me[w].run] = "running"
    /\ lease[me[w].run] = [token |-> me[w].token, live |-> TRUE]

\* No worker renews the lease any more: its process died.
Orphaned(r) == \A w \in Workers : me[w] # Idle => me[w].token # lease[r].token

\* 45 seconds pass without a renewal, because nobody renews it or because the
\* worker's process or its connection stands still.
LeaseExpires(r) ==
    /\ status[r] = "running" /\ lease[r].live
    /\ IF Orphaned(r) THEN UNCHANGED env ELSE Fault("stall")
    /\ lease' = [lease EXCEPT ![r].live = FALSE]
    /\ UNCHANGED <<order, status, saved, steps, calls, granted, me, issued>>

-----------------------------------------------------------------------------
(* A worker's run.                                                          *)

At(w, pc) == me[w].pc = pc
Goto(w, pc) == me' = [me EXCEPT ![w].pc = pc]
Call(w) == <<me[w].run, me[w].messages.answer, me[w].messages.replies + 1>>
Tool(w) == me[w].messages.calls[me[w].messages.replies + 1]
Pending(m) == m.replies < Len(m.calls)

\* The member still belongs to the workspace, the hosted agent's grant stands.
checkPrincipal == granted

operatorHasFollowup(w) == With("queued") \ {me[w].run} # {}

\* A fenced save of the worker's messages, after which it goes on at pc.
operatorCheckpoint(w, m, n, pc) ==
    LET r == me[w].run IN
    IF Fenced(w)
    THEN /\ saved' = [saved EXCEPT ![r] = m]
         /\ steps' = [steps EXCEPT ![r] = n]
         /\ me' = [me EXCEPT ![w].pc = pc, ![w].messages = m, ![w].steps = n]
    ELSE /\ Goto(w, "failed")
         /\ UNCHANGED <<saved, steps>>

operatorPrincipal(w) ==
    /\ At(w, "principal")
    /\ Goto(w, CASE ~checkPrincipal -> "failed"
                 [] me[w].messages.begun -> "loop"
                 [] OTHER -> "begin")
    /\ UNCHANGED <<rows, calls, granted, issued, env>>

\* The first checkpoint: instructions, notes, evidence and history.
Begin(w) ==
    /\ At(w, "begin")
    /\ operatorCheckpoint(w, [me[w].messages EXCEPT !.begun = TRUE], me[w].steps, "loop")
    /\ UNCHANGED <<order, status, lease, calls, granted, issued, env>>

\* The head of the loop, and of the loop over the calls of an answer.
NextStep(w) ==
    LET m == me[w].messages IN
    /\ At(w, "loop")
    /\ Goto(w, CASE me[w].steps >= StepLimit \/ ~checkPrincipal -> "failed"
                 [] OTHER ->
                    CASE operatorHasFollowup(w) -> "finish"
                      [] Pending(m) -> "tool"
                      [] m.answer > 0 /\ m.calls = <<>> -> "finish"
                      [] OTHER -> "step")
    /\ UNCHANGED <<rows, calls, granted, issued, env>>

CountStep(w) ==
    /\ At(w, "step")
    /\ operatorCheckpoint(w, me[w].messages, me[w].steps + 1, "model")
    /\ UNCHANGED <<order, status, lease, calls, granted, issued, env>>

\* The provider answers, or all attempts fail.
complete(w) ==
    /\ At(w, "model")
    /\ \/ /\ \E cs \in env.answers :
               me' = [me EXCEPT ![w].pc = "answered",
                      ![w].messages = [begun |-> TRUE, answer |-> @.answer + 1,
                                       calls |-> cs, replies |-> 0]]
          /\ UNCHANGED env
       \/ Fault("model") /\ Goto(w, "failed")
    /\ UNCHANGED <<rows, calls, granted, issued>>

SaveAnswer(w) ==
    /\ At(w, "answered")
    /\ operatorCheckpoint(w, me[w].messages, me[w].steps, "after")
    /\ UNCHANGED <<order, status, lease, calls, granted, issued, env>>

AfterAnswer(w) ==
    /\ At(w, "after")
    /\ Goto(w, IF operatorHasFollowup(w) \/ me[w].messages.calls = <<>>
               THEN "finish" ELSE "loop")
    /\ UNCHANGED <<rows, calls, granted, issued, env>>

\* The end of a run: an answer, a yield to the next message, or a failure whose
\* own error is dropped.
finishOperator(w, outcome) ==
    LET r == me[w].run IN
    /\ IF Fenced(w)
       THEN /\ status' = [status EXCEPT ![r] = outcome]
            /\ lease' = [lease EXCEPT ![r] = NoLease]
            /\ me' = [me EXCEPT ![w] = Idle]
       ELSE /\ me' = [me EXCEPT ![w] = IF outcome = "failed" THEN Idle
                                       ELSE [@ EXCEPT !.pc = "failed"]]
            /\ UNCHANGED <<status, lease>>
    /\ UNCHANGED <<order, saved, steps, calls, granted, issued, env>>

Finish(w) ==
    \/ At(w, "finish") /\ finishOperator(w, "completed")
    \/ At(w, "failed") /\ finishOperator(w, "failed")

-----------------------------------------------------------------------------
(* executeTool.                                                             *)

\* Mutant: every tool is taken to be repeatable.
AlwaysRetrySafe(tool) == TRUE

RetrySafe(tool) == tool \in {"read", "task"}

\* What the policy or the arguments rule out is answered at once ("refused"); what
\* an earlier attempt recorded is used again.
LookUpCall(w) ==
    LET c == Call(w) IN
    /\ At(w, "tool")
    /\ Goto(w, CASE Tool(w) = "refused" -> "reply"
                 [] ~checkPrincipal -> "failed"
                 [] c \in results -> "reply"
                 [] c \in started /\ ~RetrySafe(Tool(w)) -> "reply"
                 [] OTHER -> "start")
    /\ UNCHANGED <<rows, calls, granted, issued, env>>

StartCall(w) ==
    LET c == Call(w) IN
    /\ At(w, "start")
    /\ IF Fenced(w) /\ (c \notin started \/ RetrySafe(Tool(w)))
       THEN started' = started \union {c} /\ Goto(w, "call")
       ELSE UNCHANGED started /\ Goto(w, "failed")
    /\ UNCHANGED <<rows, results, scratch, done, external, granted, issued, env>>

\* A shell command begins with a copy of the files; any other tool acts.
callTool(w) ==
    LET c == Call(w) IN
    /\ At(w, "call")
    /\ IF Tool(w) = "bash"
       THEN me' = [me EXCEPT ![w].pc = "command", ![w].copy = scratch]
       ELSE Goto(w, "record")
    /\ IF Tool(w) = "task" THEN createWorkspaceTask(c) ELSE UNCHANGED external
    /\ done' = IF Tool(w) = "write" THEN done \union {<<c, me[w].token>>} ELSE done
    /\ UNCHANGED <<rows, started, results, scratch, granted, issued, env>>

\* The files as the command left them replace what is stored.
saveOperatorScratch(w) ==
    /\ At(w, "command")
    /\ scratch' = IF Fenced(w) THEN me[w].copy \union {Call(w)} ELSE scratch
    /\ me' = [me EXCEPT ![w].pc = "record", ![w].copy = {}]
    /\ UNCHANGED <<rows, started, results, done, external, granted, issued, env>>

RecordResult(w) ==
    /\ At(w, "record")
    /\ IF Fenced(w)
       THEN results' = results \union {Call(w)} /\ Goto(w, "reply")
       ELSE UNCHANGED results /\ Goto(w, "failed")
    /\ UNCHANGED <<rows, started, scratch, done, external, granted, issued, env>>

SaveReply(w) ==
    LET m == [me[w].messages EXCEPT !.replies = @ + 1] IN
    /\ At(w, "reply")
    /\ operatorCheckpoint(w, m, me[w].steps, IF Pending(m) THEN "loop" ELSE "step")
    /\ UNCHANGED <<order, status, lease, calls, granted, issued, env>>

executeTool(w) ==
    \/ LookUpCall(w) \/ StartCall(w) \/ callTool(w)
    \/ saveOperatorScratch(w) \/ RecordResult(w) \/ SaveReply(w)

-----------------------------------------------------------------------------
\* The context of the run ends: the heartbeat met a lost lease, ten minutes are
\* over, or a statement failed.
Interrupt(w) ==
    /\ me[w] # Idle /\ ~At(w, "failed")
    /\ IF Fenced(w) THEN Fault("timeout") ELSE UNCHANGED env
    /\ Goto(w, "failed")
    /\ UNCHANGED <<rows, calls, granted, issued>>

\* The control plane stops and is started again.
Crash(w) ==
    /\ Fault("crash") /\ me[w] # Idle
    /\ me' = [me EXCEPT ![w] = Idle]
    /\ UNCHANGED <<rows, calls, granted, issued>>

work(w) ==
    \/ operatorPrincipal(w) \/ Begin(w) \/ NextStep(w) \/ CountStep(w)
    \/ complete(w) \/ SaveAnswer(w) \/ AfterAnswer(w) \/ Finish(w) \/ executeTool(w)

Agent ==
    /\ changeTask
    /\ UNCHANGED <<rows, started, results, scratch, done, granted, me, issued, env>>

Next ==
    \/ \E r \in Runs : EnqueueOperatorWithOptions(r) \/ LeaseExpires(r)
    \/ cancelOperator \/ Revoke \/ Agent
    \/ \E w \in Workers : claimOperator(w) \/ work(w) \/ Interrupt(w) \/ Crash(w)

Spec == Init /\ [][Next]_vars

\* The workers' goroutines are scheduled, and started again with the control
\* plane; the lease of a process that died runs out.
FairSpec ==
    /\ Spec
    /\ \A w \in Workers : WF_vars(claimOperator(w)) /\ WF_vars(work(w))
    /\ \A r \in Runs : WF_vars(Orphaned(r) /\ LeaseExpires(r))

-----------------------------------------------------------------------------
(* Properties.                                                              *)

Grows(old, new) ==
    /\ old.begun => new.begun
    /\ \/ new.answer > old.answer
       \/ /\ new.answer = old.answer /\ new.calls = old.calls
          /\ new.replies >= old.replies

\* "Cancelled or superseded workers cannot append events, checkpoint, or finish a
\* run" (docs/workspace-agent.md): no step takes back an answer or a reply that a
\* checkpoint holds, the files of an earlier command or a count of steps, and a
\* run that is over stays as it ended.
SavedWorkStands ==
    [][/\ \A r \in Runs : /\ Grows(saved[r], saved'[r]) /\ steps[r] <= steps'[r]
                          /\ status[r] \in Settled =>
                                status'[r] = status[r] /\ saved'[r] = saved[r]
       /\ scratch \subseteq scratch']_vars

Rank(st) == CASE st = "queued" -> 0 [] st = "working" -> 1 [] OTHER -> 2

\* "A write with an uncertain outcome is not automatically repeated"
\* (docs/workspace-agent.md), and repeating what the policies call safe does no
\* harm: a tool that is not safe to repeat acts once, whatever the crashes and
\* stalls of workers, and a task is not put back by the retry that finds it.
RepeatIsHarmless ==
    [][/\ \A d \in done' \ done : \A e \in done : e[1] # d[1]
       /\ \A t \in DOMAIN tasks :
            /\ t \in DOMAIN tasks'
            /\ \/ Rank(tasks[t].st) < Rank(tasks'[t].st)
               \/ tasks'[t] = tasks[t]]_vars

\* Every message gets its turn: a queued run is completed, failed or cancelled,
\* whatever happens to the workers and to the runs before it.
RunsSettle ==
    \A r \in Runs : status[r] = "queued" ~> status[r] \in Settled
===============================================================================
