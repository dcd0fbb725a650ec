---------------------------- MODULE ChangeEngine ----------------------------
(***************************************************************************)
(* Applying Changes to one System: sdk/change.go, with the part of the     *)
(* node agent (cmd/canter-node/main.go) and of the node gateway            *)
(* (sdk/node_gateway.go) that a Change waits for.                          *)
(*                                                                         *)
(* A Change is an immutable plan and an ordered program of operations.     *)
(* ApplyChange reads it, takes the System's execution lease, and runs the  *)
(* program, saving the whole object with an unconditional PUT around each  *)
(* operation.  A failed operation leads to compensation.  Any process may  *)
(* apply any Change at any time: the dispatcher, a CLI, an agent.          *)
(*                                                                         *)
(* The lease's clock is abstract: a lease is "live" until its holder       *)
(* closes it or it expires.  It expires when its holder is gone, or when   *)
(* the holder is paused for longer than the lease (fault "pause").  An     *)
(* expired lease that its own holder's heartbeat revives is not a separate *)
(* case: whatever was refused meanwhile is a "heartbeat" or "read" fault.  *)
(* A request to m1 that fails may have taken effect if it was a write.     *)
(***************************************************************************)
EXTENDS Naturals, Sequences

CONSTANTS
    Releases,    \* Changes that roll out a release of their own
    Migrating,   \* those of them that carry an expand-only migration
    Scales,      \* Changes that set the replica count to ScaleTo
    Workers,     \* processes that call ApplyChange
    Authorizers, \* processes that call AuthorizeChange
    BaseVersion, \* the release that runs at the start, with one replica
    ScaleTo,
    MaxLeases,   \* bound on execution leases handed out
    Environments \* what a behaviour consists of, and what may go wrong in it

ASSUME ChangeAssumption ==
    /\ Migrating \subseteq Releases
    /\ Releases \cap Scales = {}
    /\ BaseVersion \notin Releases
ASSUME BoundAssumption == ScaleTo \in Nat \ {0, 1} /\ MaxLeases \in Nat

Environment ==
    [changes : SUBSET (Releases \cup Scales), workers : SUBSET Workers, left : Nat,
     faults : SUBSET {"crash", "pause", "heartbeat", "store", "read", "cancel",
                      "timeout", "launch", "migration", "verify"}]

ASSUME EnvironmentAssumption == Environments \subseteq Environment

VARIABLES
    stored,   \* m1: the Change objects
    manifest, \* m1: releases/<version>.json, the replica count it records
    desired,  \* m1: the desired release
    observed, \* m1: what the node last reported
    node,     \* the node: desired release and action fetched, fleet running
    lease,    \* m1: the System's execution lease
    lapsed,   \* fencing tokens whose lease ran out while they were current
    caught,   \* those of them whose holder was between an Assert and its PUT
    failed,   \* Changes whose execution the dispatcher recorded failed
    action,   \* m1: the single runtime-action request slot
    result,   \* m1: runtime-action results by Change
    migrated, \* the database's ledger of applied migrations
    me,       \* the appliers
    reading,  \* the authorizers: the Change each has read as drafted
    env       \* the Changes drafted, the appliers at work, the faults left

vars == <<stored, manifest, desired, observed, node, lease, lapsed, caught,
          failed, action, result, migrated, me, reading, env>>
leases == <<lease, lapsed, caught>>
fleet == <<observed, node>>
runtime == <<action, result, migrated>>

Changes == Releases \cup Scales
Versions == Releases \cup {BaseVersion}
Release == [ver : Versions, rep : 1..ScaleTo]
None == "none"
Terminal == {"committed", "rejected", "reverted", "escalated"}
Resumable == {"authorized", "applying", "verifying", "compensating"}
Phases == Terminal \cup Resumable \cup {"absent", "drafted"}

(***************************************************************************)
(* The operation program a draft compiles.  Operations run in order, so    *)
(* their phases are given by how many are completed and the phase of the   *)
(* next one.                                                               *)
(***************************************************************************)
Operations(c) ==
    IF c \in Scales
      THEN <<"state.assert", "release.scale", "release.wait-replicas",
             "http.verify">>
      ELSE <<"state.assert">>
           \o (IF c \in Migrating THEN <<"database.expand-migration">> ELSE <<>>)
           \o <<"release.set-desired", "release.wait-healthy", "http.verify">>

Change == [phase : Phases, done : 0..5, op : {"pending", "running", "failed"},
           base : Versions, rel : Release, from : 1..ScaleTo]

Absent == [phase |-> "absent", done |-> 0, op |-> "pending",
           base |-> BaseVersion, rel |-> [ver |-> BaseVersion, rep |-> 1],
           from |-> 1]

Finished(c, x) == x.done = Len(Operations(c))
Current(c, x) == Operations(c)[x.done + 1]

operationCompleted(c, x, kind) == \E i \in 1..x.done : Operations(c)[i] = kind

\* A mutant of operationReached: an operation that has started but not
\* completed is taken for one that was never reached.
ReachedIfCompleted(c, x, kind) == operationCompleted(c, x, kind)
operationReached(c, x, kind) ==
    \/ operationCompleted(c, x, kind)
    \/ ~Finished(c, x) /\ Current(c, x) = kind /\ x.op # "pending"

Base == [ver |-> BaseVersion, rep |-> 1]
NoRelease == [ver |-> None, rep |-> 0]
NoAction == [id |-> None, token |-> 0]
NoResult == [id |-> None, phase |-> None]
\* ctx is the context of an applier's requests: its caller's, one that is
\* cancelled or past its deadline, or the one compensation gets of its own.
Idle == [pc |-> "idle", id |-> None, loc |-> Absent, tok |-> 0, lost |-> FALSE,
         ctx |-> "caller"]

Init ==
    /\ stored = [c \in Changes |-> Absent]
    /\ manifest = [v \in Versions |-> 1]
    /\ desired = Base
    /\ observed = [phase |-> "running", desired |-> Base, running |-> Base]
    /\ node = [snap |-> NoRelease, act |-> NoAction, ran |-> NoResult,
               active |-> Base]
    /\ lease = [token |-> 0, id |-> None, live |-> FALSE]
    /\ lapsed = {}
    /\ caught = {}
    /\ failed = {}
    /\ action = NoAction
    /\ result = [c \in Changes |-> None]
    /\ migrated = {}
    /\ me = [w \in Workers |-> Idle]
    /\ reading = [a \in Authorizers |-> None]
    /\ env \in Environments

Fault(kind) == kind \in env.faults /\ env.left > 0 /\ env' = [env EXCEPT !.left = @ - 1]
NoFault == UNCHANGED env

-----------------------------------------------------------------------------
(***************************************************************************)
(* Drafting and authorizing.                                               *)
(***************************************************************************)
Healthy == observed.phase = "running"

currentReplicas == observed.desired.rep

\* DraftChange: the candidate inherits the observed replica count, and the
\* count is recorded in the candidate's release manifest.
DraftChange(c) ==
    /\ c \in Releases \cap env.changes
    /\ stored[c].phase = "absent"
    /\ Healthy
    /\ manifest' = [manifest EXCEPT ![c] = currentReplicas]
    /\ stored' = [stored EXCEPT ![c] =
                    [Absent EXCEPT !.phase = "drafted",
                                   !.base = observed.running.ver,
                                   !.rel = [ver |-> c, rep |-> currentReplicas],
                                   !.from = currentReplicas]]
    /\ UNCHANGED <<desired, fleet, leases, failed, runtime, me, reading, env>>

\* DraftScaleChange: only the desired release is copied; no manifest changes.
DraftScaleChange(c) ==
    /\ c \in Scales \cap env.changes
    /\ stored[c].phase = "absent"
    /\ Healthy
    /\ desired.rep = observed.running.rep
    /\ desired.rep = observed.desired.rep
    /\ desired.rep # ScaleTo
    /\ stored' = [stored EXCEPT ![c] =
                    [Absent EXCEPT !.phase = "drafted",
                                   !.base = observed.running.ver,
                                   !.rel = [desired EXCEPT !.rep = ScaleTo],
                                   !.from = desired.rep]]
    /\ UNCHANGED <<manifest, desired, fleet, leases, failed, runtime, me,
                   reading, env>>

\* AuthorizeChange reads the object, then saves it unconditionally.
AuthorizeRead(a, c) ==
    /\ reading[a] = None
    /\ stored[c].phase = "drafted"
    /\ reading' = [reading EXCEPT ![a] = c]
    /\ UNCHANGED <<stored, manifest, desired, fleet, leases, failed, runtime,
                   me, env>>

AuthorizeChange(a, c) ==
    /\ reading[a] = c
    /\ reading' = [reading EXCEPT ![a] = None]
    /\ stored' = [stored EXCEPT ![c] =
                    [@ EXCEPT !.phase = "authorized", !.done = 0,
                              !.op = "pending"]]
    /\ UNCHANGED <<manifest, desired, fleet, leases, failed, runtime, me, env>>

-----------------------------------------------------------------------------
(***************************************************************************)
(* The execution lease.                                                    *)
(***************************************************************************)

\* A request made in the applier's context is answered, or it fails: for a
\* cancelled context always.
Cancelled(w) == me[w].ctx = "cancelled"
Answered(w) == ~Cancelled(w) /\ NoFault
ReadFails(w) == (Cancelled(w) /\ NoFault) \/ Fault("read")

\* changeLeaseGuard.Assert: it fails when the lease is lost, when a heartbeat
\* failed before, and when the lease cannot be read.
Held(w) == lease.token = me[w].tok /\ lease.live
AssertOK(w) == Held(w) /\ ~me[w].lost /\ Answered(w)
AssertFails(w) ==
    \/ (~Held(w) \/ me[w].lost) /\ NoFault
    \/ ReadFails(w)

\* Close is conditional on the lease object being the guard's own.
Close(w) ==
    lease' = IF lease.token = me[w].tok THEN [lease EXCEPT !.live = FALSE]
                                        ELSE lease

\* ApplyChange returns.  With an error, the dispatcher's runOne records the
\* execution failed, and enqueueing the Change again does not requeue it.
Return(w, err) ==
    /\ Close(w)
    /\ me' = [me EXCEPT ![w] = Idle]
    /\ failed' = IF err THEN failed \cup {me[w].id} ELSE failed
    /\ UNCHANGED <<lapsed, caught>>

Go(w, pc, loc) ==
    /\ me' = [me EXCEPT ![w].pc = pc, ![w].loc = loc]
    /\ UNCHANGED <<leases, failed>>

Put(w, loc) == stored' = [stored EXCEPT ![me[w].id] = loc]

\* saveChange.
Saved(w, loc) == Put(w, loc) /\ Answered(w)
SaveFails(w, loc) ==
    \/ UNCHANGED stored /\ Cancelled(w) /\ NoFault
    \/ (UNCHANGED stored \/ Put(w, loc)) /\ Fault("store")

\* With its error checked, a failure ends ApplyChange.
SaveThen(w, pc, loc) ==
    \/ Saved(w, loc) /\ Go(w, pc, loc)
    \/ SaveFails(w, loc) /\ Return(w, TRUE)

\* As ApplyChange's last act.
SaveAndReturn(w, loc, err) ==
    \/ Saved(w, loc) /\ Return(w, err)
    \/ SaveFails(w, loc) /\ Return(w, TRUE)

\* With its error ignored.
SaveIgnored(w, loc) == Saved(w, loc) \/ SaveFails(w, loc)

\* The heartbeat fails; the guard remembers and every later Assert fails.
HeartbeatFails(w) ==
    /\ me[w].tok # 0
    /\ ~me[w].lost
    /\ Fault("heartbeat")
    /\ me' = [me EXCEPT ![w].lost = TRUE]
    /\ UNCHANGED <<stored, manifest, desired, fleet, leases, failed, runtime,
                   reading>>

\* The lease runs out: nobody renews it, or its holder was paused.
LeaseExpires ==
    /\ lease.live
    /\ IF \E w \in Workers : me[w].tok = lease.token /\ ~me[w].lost
         THEN Fault("pause")
         ELSE NoFault
    /\ lease' = [lease EXCEPT !.live = FALSE]
    /\ lapsed' = lapsed \cup {lease.token}
    /\ caught' = IF \E w \in Workers : /\ me[w].tok = lease.token
                                       /\ me[w].pc \in {"put", "putBase"}
                   THEN caught \cup {lease.token} ELSE caught
    /\ UNCHANGED <<stored, manifest, desired, fleet, failed, runtime, me, reading>>

\* The dispatcher could not renew its claim and cancels the context, or
\* compensation's own minute is over.
CancelContext(w) ==
    /\ me[w].pc # "idle"
    /\ ~Cancelled(w)
    /\ Fault("cancel")
    /\ me' = [me EXCEPT ![w].ctx = "cancelled"]
    /\ UNCHANGED <<stored, manifest, desired, fleet, leases, failed, runtime,
                   reading>>

-----------------------------------------------------------------------------
(***************************************************************************)
(* ApplyChange.                                                            *)
(***************************************************************************)

\* InspectChange and the phase checks, before the lease is taken.
ApplyChange(w, c) ==
    /\ w \in env.workers
    /\ me[w].pc = "idle"
    /\ stored[c].phase \in Resumable
    /\ me' = [me EXCEPT ![w] = [Idle EXCEPT !.pc = "acquire", !.id = c,
                                            !.loc = stored[c]]]
    /\ UNCHANGED <<stored, manifest, desired, fleet, leases, failed, runtime,
                   reading, env>>

\* A mutant of LeaseFree: an unexpired lease is taken over.
LeaseFreeAlways == TRUE
\* A mutant of LeaseFree: a lease that ran out, rather than being closed, is
\* never taken over.
LeaseFreeIfClosed == ~lease.live /\ lease.token \notin lapsed
LeaseFree == ~lease.live

\* acquireChangeLease: a conditional write over a lease that is absent or
\* has run out; a live lease is an error, and so is a store that fails.
acquireChangeLease(w) ==
    /\ me[w].pc = "acquire"
    /\ \/ /\ LeaseFree
          /\ lease.token < MaxLeases
          /\ Answered(w)
          /\ lease' = [token |-> lease.token + 1, id |-> me[w].id, live |-> TRUE]
          /\ me' = [me EXCEPT
                      ![w].tok = lease.token + 1,
                      ![w].pc = IF me[w].loc.phase = "compensating"
                                  THEN "compensate" ELSE "next"]
          /\ UNCHANGED <<lapsed, caught, failed>>
       \/ lease.live /\ NoFault /\ Return(w, TRUE)
       \/ ReadFails(w) /\ Return(w, TRUE)
    /\ UNCHANGED <<stored, manifest, desired, fleet, runtime, reading>>

\* The loop head: assert the lease before the next operation.
NextOperation(w) ==
    /\ me[w].pc = "next"
    /\ ~Finished(me[w].id, me[w].loc)
    /\ \/ AssertOK(w) /\ Go(w, "start", me[w].loc)
       \/ AssertFails(w) /\ Return(w, TRUE)
    /\ UNCHANGED <<stored, manifest, desired, fleet, runtime, reading>>

StartOperation(w) ==
    LET c == me[w].id
        verifying == Current(c, me[w].loc) = "http.verify"
    IN  /\ me[w].pc = "start"
        /\ SaveThen(w, "execute",
             [me[w].loc EXCEPT !.op = "running",
                               !.phase = IF verifying THEN "verifying"
                                                      ELSE "applying"])
        /\ UNCHANGED <<manifest, desired, fleet, runtime, reading>>

\* An operation succeeded: record it completed.
Completed(w) ==
    /\ me[w].pc = "completed"
    /\ SaveThen(w, "next", [me[w].loc EXCEPT !.op = "pending", !.done = @ + 1])
    /\ UNCHANGED <<manifest, desired, fleet, runtime, reading>>

\* An operation failed: record it, and compensate, in a context of its own,
\* whether or not that worked.
Failed(w) ==
    LET loc == [me[w].loc EXCEPT !.op = "failed"]
    IN  /\ me[w].pc = "failed"
        /\ SaveIgnored(w, loc)
        /\ me' = [me EXCEPT ![w].pc = "compensate", ![w].loc = loc,
                            ![w].ctx = "recovery"]
        /\ UNCHANGED <<leases, failed>>
        /\ UNCHANGED <<manifest, desired, fleet, runtime, reading>>

\* After the loop.  The lease is not asserted again.
Commit(w) ==
    /\ me[w].pc = "next"
    /\ Finished(me[w].id, me[w].loc)
    /\ SaveAndReturn(w, [me[w].loc EXCEPT !.phase = "committed"], FALSE)
    /\ UNCHANGED <<manifest, desired, fleet, runtime, reading>>

-----------------------------------------------------------------------------
(***************************************************************************)
(* executeChangeOperation, one action per kind of operation.               *)
(***************************************************************************)
Executing(w, kind) ==
    /\ me[w].pc = "execute"
    /\ Current(me[w].id, me[w].loc) = kind

Outcome(w, ok) == Go(w, IF ok THEN "completed" ELSE "failed", me[w].loc)

\* A mutant of BaseHolds: the running version is not compared.
BaseHoldsAnyVersion(c, p) == Healthy
\* Production has not moved since the Change was planned.
BaseHolds(c, p) ==
    /\ Healthy
    /\ observed.running.ver = p.base
    /\ c \in Scales => observed.running.rep = p.from

StateAssert(w) ==
    /\ Executing(w, "state.assert")
    /\ \/ Answered(w) /\ Outcome(w, BaseHolds(me[w].id, me[w].loc))
       \/ ReadFails(w) /\ Outcome(w, FALSE)
    /\ UNCHANGED <<stored, manifest, desired, fleet, runtime, reading>>

\* The request replaces whatever is in the slot.
RequestMigration(w) ==
    LET request == [id |-> me[w].id, token |-> me[w].tok]
    IN  /\ Executing(w, "database.expand-migration")
        /\ \/ action' = request /\ Answered(w) /\ Go(w, "await", me[w].loc)
           \/ UNCHANGED action /\ Cancelled(w) /\ NoFault /\ Outcome(w, FALSE)
           \/ action' \in {action, request} /\ Fault("store") /\ Outcome(w, FALSE)
        /\ UNCHANGED <<stored, manifest, desired, fleet, result, migrated, reading>>

\* A mutant of Succeeded: any result counts as success.
SucceededAnyResult(r) == r # None
Succeeded(r) == r = "completed"

\* waitRuntimeAction polls for the result; it has no deadline of its own and
\* stops only when a poll fails or its caller's context is cancelled.
waitRuntimeAction(w) ==
    /\ me[w].pc = "await"
    /\ \/ /\ result[me[w].id] # None
          /\ Answered(w)
          /\ Outcome(w, Succeeded(result[me[w].id]))
       \/ ReadFails(w) /\ Outcome(w, FALSE)
    /\ UNCHANGED <<stored, manifest, desired, fleet, runtime, reading>>

\* release.set-desired and release.scale: assert the lease, then PUT.
AssertDesired(w) ==
    /\ Executing(w, "release.set-desired") \/ Executing(w, "release.scale")
    /\ \/ AssertOK(w) /\ Go(w, "put", me[w].loc)
       \/ AssertFails(w) /\ Outcome(w, FALSE)
    /\ UNCHANGED <<stored, manifest, desired, fleet, runtime, reading>>

PutDesired(w) ==
    /\ me[w].pc = "put"
    /\ \/ desired' = me[w].loc.rel /\ Answered(w) /\ Outcome(w, TRUE)
       \/ UNCHANGED desired /\ Cancelled(w) /\ NoFault /\ Outcome(w, FALSE)
       \/ desired' \in {desired, me[w].loc.rel} /\ Fault("store") /\ Outcome(w, FALSE)
    /\ UNCHANGED <<stored, manifest, fleet, runtime, reading>>

\* A mutant of Reached: any healthy release will do.
ReachedAnyVersion(rel, replicas) == Healthy
\* What waitReleaseVersion and waitReleaseReplicas wait for.
Reached(rel, replicas) ==
    /\ Healthy
    /\ observed.running.ver = rel.ver
    /\ replicas => observed.desired.rep = rel.rep /\ observed.running.rep = rel.rep

\* What they give up on.
LaunchFailed(rel) ==
    observed.phase = "release-failed" /\ observed.desired.ver = rel.ver

\* The deadline passes first.  That is a fault only while the release waited
\* for is still the desired one: no other is ever reached.
TimedOut(rel, replicas) ==
    /\ ~Reached(rel, replicas)
    /\ IF desired = rel THEN Fault("timeout") ELSE NoFault

WaitRelease(w) ==
    LET p == me[w].loc
        scale == Executing(w, "release.wait-replicas")
    IN  /\ scale \/ Executing(w, "release.wait-healthy")
        /\ \/ Reached(p.rel, scale) /\ Answered(w) /\ Outcome(w, TRUE)
           \/ /\ \/ LaunchFailed(p.rel) /\ Answered(w)
                 \/ TimedOut(p.rel, scale)
                 \/ ReadFails(w)
              /\ Outcome(w, FALSE)
        /\ UNCHANGED <<stored, manifest, desired, fleet, runtime, reading>>

\* The response contract is met or not; which is up to the application.
HTTPVerify(w) ==
    /\ Executing(w, "http.verify")
    /\ \/ Answered(w) /\ Outcome(w, TRUE)
       \/ ((Cancelled(w) /\ NoFault) \/ Fault("verify")) /\ Outcome(w, FALSE)
    /\ UNCHANGED <<stored, manifest, desired, fleet, runtime, reading>>

-----------------------------------------------------------------------------
(***************************************************************************)
(* compensateChange.                                                       *)
(***************************************************************************)
Mutated(c, x) ==
    \/ operationCompleted(c, x, "database.expand-migration")
    \/ operationReached(c, x, "release.set-desired")
    \/ operationReached(c, x, "release.scale")

\* Nothing was changed: the Change is rejected.  Otherwise the intention to
\* compensate is saved, and a failure to save it is ignored.
compensateChange(w) ==
    LET c == me[w].id
        p == me[w].loc
        compensating == [p EXCEPT !.phase = "compensating"]
    IN  /\ me[w].pc = "compensate"
        /\ \/ ~Mutated(c, p) /\ SaveAndReturn(w, [p EXCEPT !.phase = "rejected"], TRUE)
           \/ Mutated(c, p) /\ SaveIgnored(w, compensating)
                            /\ Go(w, "restore", compensating)
        /\ UNCHANGED <<manifest, desired, fleet, runtime, reading>>

Restores(w) ==
    \/ operationReached(me[w].id, me[w].loc, "release.scale")
    \/ operationReached(me[w].id, me[w].loc, "release.set-desired")

\* A compensation that finishes one begun by an earlier call returns no error.
Reverted(w) ==
    SaveAndReturn(w, [me[w].loc EXCEPT !.phase = "reverted"], me[w].ctx # "caller")

GiveUp(w) == Go(w, "escalate", [me[w].loc EXCEPT !.phase = "escalated"])

\* The error of the last save is ignored, and the call returns one anyway.
Escalate(w) ==
    /\ me[w].pc = "escalate"
    /\ SaveAndReturn(w, me[w].loc, TRUE)
    /\ UNCHANGED <<manifest, desired, fleet, runtime, reading>>

\* The lease is asserted before desired state is restored.
AssertRestore(w) ==
    /\ me[w].pc = "restore"
    /\ \/ ~Restores(w) /\ Reverted(w)
       \/ /\ Restores(w)
          /\ \/ AssertOK(w) /\ Go(w, "putBase", me[w].loc)
             \/ AssertFails(w) /\ GiveUp(w)
          /\ UNCHANGED stored
    /\ UNCHANGED <<manifest, desired, fleet, runtime, reading>>

\* A mutant of Restored: the candidate is put back instead of the base.
RestoredCandidate(c, p) == p.rel
\* A scale restores its own release at the old count; a release restores the
\* base version's recorded manifest, whatever the count was when it started.
Restored(c, p) ==
    IF c \in Scales THEN [p.rel EXCEPT !.rep = p.from]
                    ELSE [ver |-> p.base, rep |-> manifest[p.base]]

\* For a release this reads the base's manifest first; either request may fail.
PutBase(w) ==
    LET base == Restored(me[w].id, me[w].loc)
    IN  /\ me[w].pc = "putBase"
        /\ \/ desired' = base /\ Answered(w) /\ Go(w, "waitBase", me[w].loc)
           \/ UNCHANGED desired /\ ReadFails(w) /\ GiveUp(w)
           \/ desired' \in {desired, base} /\ Fault("store") /\ GiveUp(w)
        /\ UNCHANGED <<stored, manifest, fleet, runtime, reading>>

WaitBase(w) ==
    LET base == Restored(me[w].id, me[w].loc)
        scale == me[w].id \in Scales
    IN  /\ me[w].pc = "waitBase"
        /\ \/ Reached(base, scale) /\ ~Cancelled(w) /\ Reverted(w)
           \/ /\ \/ LaunchFailed(base) /\ Answered(w)
                 \/ TimedOut(base, scale)
                 \/ ReadFails(w)
              /\ GiveUp(w)
              /\ UNCHANGED stored
        /\ UNCHANGED <<manifest, desired, fleet, runtime, reading>>

\* The process dies; its lease is left to expire.
Crash(w) ==
    /\ me[w].pc # "idle"
    /\ Fault("crash")
    /\ me' = [me EXCEPT ![w] = Idle]
    /\ UNCHANGED <<stored, manifest, desired, fleet, leases, failed, runtime,
                   reading>>

-----------------------------------------------------------------------------
(***************************************************************************)
(* The node.  One reconciliation fetches a snapshot, runs the runtime      *)
(* action in it, and brings the fleet to the desired release in it.        *)
(***************************************************************************)
ActionValid == lease.token = action.token /\ lease.id = action.id /\ lease.live

\* NodeSnapshot: an action is handed out only with its own live lease and
\* while it has no result.
NodeSnapshot ==
    /\ node.snap = NoRelease
    /\ node' = [node EXCEPT
                  !.snap = desired,
                  !.act = IF action # NoAction /\ ActionValid
                             /\ result[action.id] = None
                            THEN action ELSE NoAction]
    /\ UNCHANGED <<stored, manifest, desired, observed, leases, failed, runtime,
                   me, reading, env>>

\* reconcileRuntimeAction checks the lease copy it was given, so it can refuse
\* only a lease that has run out, not one that was closed or replaced.  The
\* driver commits the migration and its ledger row together; it may report
\* failure without or, killed by its deadline, after that commit.
ExecuteAction ==
    /\ node.act # NoAction
    /\ \/ /\ node.act.token \in lapsed
          /\ node' = [node EXCEPT !.act = NoAction]
          /\ NoFault /\ UNCHANGED migrated
       \/ /\ node.act.token \notin lapsed
          /\ node' = [node EXCEPT !.act = NoAction,
                                  !.ran = [id |-> node.act.id, phase |-> "completed"]]
          /\ migrated' = migrated \cup {node.act.id}
          /\ NoFault
       \/ /\ node' = [node EXCEPT !.act = NoAction,
                                  !.ran = [id |-> node.act.id, phase |-> "failed"]]
          /\ migrated' \in {migrated, migrated \cup {node.act.id}}
          /\ Fault("migration")
    /\ UNCHANGED <<stored, manifest, desired, observed, leases, failed, action,
                   result, me, reading>>

\* PutNodeRuntimeActionResult: refused unless the slot still holds the action
\* and the action's lease is live.
PutNodeRuntimeActionResult ==
    /\ node.ran # NoResult
    /\ node' = [node EXCEPT !.ran = NoResult]
    /\ result' = IF action.id = node.ran.id /\ ActionValid
                   THEN [result EXCEPT ![node.ran.id] = node.ran.phase]
                   ELSE result
    /\ UNCHANGED <<stored, manifest, desired, observed, leases, failed, action,
                   migrated, me, reading, env>>

\* reconcileReleaseFleet: new replicas are started and healthy before traffic
\* moves; a launch failure leaves the fleet as it is.
ReconcileFleet ==
    /\ node.snap # NoRelease /\ node.act = NoAction /\ node.ran = NoResult
    /\ \/ /\ node' = [node EXCEPT !.snap = NoRelease, !.active = node.snap]
          /\ observed' = [phase |-> "running", desired |-> node.snap,
                          running |-> node.snap]
          /\ NoFault
       \/ /\ node.active # node.snap
          /\ node' = [node EXCEPT !.snap = NoRelease]
          /\ observed' = [phase |-> "release-failed", desired |-> node.snap,
                          running |-> node.active]
          /\ Fault("launch")
    /\ UNCHANGED <<stored, manifest, desired, leases, failed, runtime, me, reading>>

NodeStep ==
    NodeSnapshot \/ ExecuteAction \/ PutNodeRuntimeActionResult \/ ReconcileFleet

WorkerStep(w) ==
    \/ acquireChangeLease(w) \/ NextOperation(w) \/ StartOperation(w)
    \/ Completed(w) \/ Failed(w) \/ Commit(w)
    \/ StateAssert(w) \/ RequestMigration(w) \/ waitRuntimeAction(w)
    \/ AssertDesired(w) \/ PutDesired(w) \/ WaitRelease(w) \/ HTTPVerify(w)
    \/ compensateChange(w) \/ AssertRestore(w) \/ PutBase(w) \/ WaitBase(w)
    \/ Escalate(w)

Next ==
    \/ \E c \in Changes : DraftChange(c) \/ DraftScaleChange(c)
    \/ \E a \in Authorizers, c \in Changes :
         AuthorizeRead(a, c) \/ AuthorizeChange(a, c)
    \/ \E w \in Workers, c \in Changes : ApplyChange(w, c)
    \/ \E w \in Workers : WorkerStep(w) \/ Crash(w) \/ HeartbeatFails(w) \/ CancelContext(w)
    \/ LeaseExpires
    \/ NodeStep

Spec == Init /\ [][Next]_vars

\* The dispatcher applies a Change again while its execution is claimable: not
\* once a call of ApplyChange has returned an error.
Dispatch(w) == \E c \in Changes \ failed : ApplyChange(w, c)

\* Every loop of ApplyChange advances, the node keeps reconciling, an
\* abandoned lease runs out, and an idle dispatcher claims what is claimable.
Fairness ==
    /\ \A w \in Workers : WF_vars(WorkerStep(w)) /\ WF_vars(Dispatch(w))
    /\ WF_vars(LeaseExpires /\ NoFault)
    /\ WF_vars(NodeStep)

FairSpec == Spec /\ Fairness

-----------------------------------------------------------------------------
\* A committed Change took effect: ApplyChange reports "committed" only after
\* the whole program ran, and its migration is in the database's ledger.
CommittedTookEffect ==
    \A c \in Changes : stored[c].phase = "committed" =>
        Finished(c, stored[c]) /\ (c \in Migrating => c \in migrated)

\* The Change failed at its migration: waitRuntimeAction gave the wait up, or
\* the node reported a failure.
AtMigration(c, x) ==
    ~Finished(c, x) /\ Current(c, x) = "database.expand-migration" /\ x.op = "failed"

\* A rejected release left no trace: compensateChange says "rejected" rather
\* than "reverted" only if neither the database nor desired state was touched.
\* The one exception, stated by AtMigration: a migration that failed or was no
\* longer waited for when the Change was rejected may be in the database, then
\* or later, because compensation asks only whether the operation completed.
\* A candidate that the node cannot launch, or that does not verify, is undone,
\* not handed to a human: where one such failure is all that happens, no release
\* Change ends "escalated".
RejectedLeftNoTrace ==
    \A c \in Releases :
        /\ stored[c].phase = "rejected" =>
              /\ desired # stored[c].rel /\ node.active # stored[c].rel
              /\ c \in migrated => AtMigration(c, stored[c])
        /\ env.faults \subseteq {"launch", "verify"} => stored[c].phase # "escalated"

\* When a Change becomes "reverted", desired state is back at the version and
\* the replica count it started from, and the node has reported that version
\* healthy.  Two cases are left out, where compensation restores something else.
\* A scale planned during a rollout carries the version desired then, not its
\* base.  And a release goes back to the count recorded with the base release,
\* which a scale committed since does not change.
RevertedRestored ==
    [][\A c \in Changes :
         LET x == stored[c]
         IN  x.phase # "reverted" /\ stored'[c].phase = "reverted" =>
               /\ c \in Releases \/ x.rel.ver = x.base =>
                     desired.ver = x.base /\ observed.running.ver = x.base
               /\ c \in Scales \/ manifest[x.base] = x.from =>
                     desired.rep = x.from]_vars

\* A scale Change keeps the release that is desired: neither applying nor
\* undoing it changes the version, only the replica count.  That is so for a
\* scale planned while the running release was the desired one; one planned
\* during a rollout puts that rollout's release back after it was reverted.
\* Crashes, timeouts and failing requests are left out where a release Change
\* takes part: an applier that resumes does not assert the base again, and a
\* rollout that was abandoned leaves its release desired or running.
ScaleKeepsRelease ==
    [][\A w \in Workers :
         /\ me[w].pc \in {"put", "putBase"} /\ me[w].id \in Scales
         /\ me[w].loc.rel.ver = me[w].loc.base
         /\ env.faults \subseteq {"launch", "verify"} \/ env.changes \subseteq Scales
         /\ desired' # desired
         => desired'.ver = desired.ver]_vars

\* A terminal Change is never written again: applying or authorizing it once
\* more changes neither its phase nor any operation.
TerminalIsFinal ==
    [][\A c \in Changes :
         stored[c].phase \in Terminal => stored'[c] = stored[c]]_vars

\* Desired state is written only by an applier that holds the System's live
\* execution lease: a Change does not mutate it while another one executes.  The
\* exception is an applier whose lease ran out after its Assert and before its
\* PUT, which is not conditional; it writes that once, and its next Assert fails.
OneWriter ==
    [][desired' # desired =>
         \E w \in Workers : /\ me[w].pc \in {"put", "putBase"}
                            /\ Held(w) \/ me[w].tok \in caught
                            /\ me'[w] # me[w]]_vars

\* Once a release Change is rejected or reverted, its candidate does not take
\* traffic again.  Waits and requests that fail are left out, and crashes while
\* another Change may step in: compensation then starts with the node on its way
\* to the candidate, and takes the old report of the base for the base being back.
\* Scale Changes are left out too: one planned during the rollout puts it back.
RevertedStaysOut ==
    [][\A c \in Releases :
         /\ env.faults \cap {"timeout", "read", "store", "cancel"} = {}
         /\ "crash" \in env.faults => env.changes = {c}
         /\ env.changes \subseteq Releases
         /\ stored[c].phase \in {"rejected", "reverted"}
         /\ node'.active.ver = c
         => node.active.ver = c]_vars

\* An applier waits for a runtime action that no node will take any more.
Stranded == \E w \in Workers : me[w].pc = "await" /\ me[w].tok \in lapsed

\* Every authorized Change reaches a terminal phase or its execution is recorded
\* failed, whatever crashes or fails.  The exception is Stranded: when lost
\* heartbeats let the lease run out, the node refuses the action, and
\* waitRuntimeAction, which has no deadline, holds up the dispatcher for ever.
AuthorizedSettles ==
    \A c \in Changes :
        stored[c].phase = "authorized"
            ~> stored[c].phase \in Terminal \/ c \in failed \/ Stranded
=============================================================================
