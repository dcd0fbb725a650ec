----------------------------- MODULE VPSRequests -----------------------------
(***************************************************************************)
(* Standalone virtual servers of the billed workspace: a person approves a *)
(* draft, which reserves spend; dispatchers create the server, keep it and *)
(* remove it when it is deleted or expires.                                *)
(*                                                                         *)
(* A dispatcher holds a session advisory lock per server.  The lock is lost *)
(* with its connection while the dispatcher goes on, and its writes go     *)
(* through other connections with no condition on what the row says.  The  *)
(* host behind the row has the life cycle that ComputeLifecycle models in  *)
(* detail.  Here it is the durable record, with the steps that leave record *)
(* and provider apart: an attempt is recorded before the server is created, *)
(* an exposure before its security group is made, and a server is deleted  *)
(* before the record says so, and is listed until it is gone.              *)
(***************************************************************************)
EXTENDS WorkspaceBilling

CONSTANTS Dispatchers,   \* VPSDispatcher goroutines of all replicas
          CapServers     \* servers the workspace's usage cap has room for

VARIABLES vm,         \* workspace_vps
          rsv,        \* usage_reservations of the servers
          reserved,   \* workspace_usage_caps.reserved_cents, in servers
          host,       \* the host's record in the object store, and its server
          job,        \* what each dispatcher is at
          faults      \* faults that may still happen (a bound)

vpsVars == <<vm, rsv, reserved, host, job, faults>>

NoVM == [phase |-> "none", del |-> FALSE, expired |-> FALSE]
\* res is the phase of the resource's intent ("tried": an attempt to create it
\* is recorded; "made": the server is attached), exp that of the exposure
\* ("asked": no group is made yet), listed whether State.Resources names the
\* server; server is the provider's ("going": its deletion was accepted).
NoHost == [state |-> "absent", res |-> "pending", exp |-> "none", listed |-> FALSE,
           server |-> "none"]
ReadyHost == [state |-> "ready", res |-> "made", exp |-> "open", listed |-> TRUE,
              server |-> "up"]
NoJob == [at |-> "idle", vm |-> 0, doc |-> "none", locked |-> FALSE]

Only(x) == UNCHANGED <<env, billVars, x>>

DraftVPS(v, open) ==
    /\ May("vps") /\ open /\ v \in env.vms
    /\ vm[v].phase = "none" /\ host[v] = NoHost
    /\ vm' = [vm EXCEPT ![v].phase = "drafted"]
    /\ Only(<<rsv, reserved, host, job, faults>>)

\* Payment is checked before the transaction that approves.
askApproval(v, open) ==
    /\ May("vps") /\ open /\ requireBillingPayment
    /\ vm[v].phase = "drafted"
    /\ [op |-> "approve", plan |-> "none", end |-> v] \notin asked
    /\ asked' = asked \cup {[op |-> "approve", plan |-> "none", end |-> v]}
    /\ UNCHANGED <<env, bill, provider, hold, calls, sample, vpsVars>>

ApproveVPS(v) ==
    LET r == [op |-> "approve", plan |-> "none", end |-> v]
    IN /\ r \in asked /\ asked' = asked \ {r}
       /\ \/ /\ vm[v].phase = "drafted" /\ reserved < CapServers
             /\ vm' = [vm EXCEPT ![v].phase = "queued"]
             /\ rsv' = [rsv EXCEPT ![v] = "reserved"]
             /\ reserved' = reserved + 1
          \/ UNCHANGED <<vm, rsv, reserved>>      \* refused, or approved before
       /\ UNCHANGED <<env, bill, provider, hold, calls, sample, host, job, faults>>

Approved(v) == vm[v].phase \notin {"none", "drafted"}

requestDeletion(v) ==
    /\ May("vps delete") /\ Approved(v) /\ ~vm[v].del
    /\ vm' = [vm EXCEPT ![v].del = TRUE]
    /\ Only(<<rsv, reserved, host, job, faults>>)

ExpireVPS(v) ==
    /\ May("vps expiry") /\ Approved(v) /\ ~vm[v].expired
    /\ vm' = [vm EXCEPT ![v].expired = TRUE]
    /\ Only(<<rsv, reserved, host, job, faults>>)

-----------------------------------------------------------------------------
(* Reconcile.                                                              *)

\* A mutant of save: the row is replaced, delete_requested included.
saveAll(v, phase) ==
    vm' = IF vm[v].phase = "none" THEN vm ELSE [vm EXCEPT ![v] = [NoVM EXCEPT !.phase = phase]]

\* The row is rewritten whole, whatever it says by now; delete_requested is
\* a column of its own.  A row that was deleted is not brought back.
save(v, phase) ==
    vm' = IF vm[v].phase = "none" THEN vm ELSE [vm EXCEPT ![v].phase = phase]

Working(d, at) == job[d].at = at
Go(d, at) == job' = [job EXCEPT ![d].at = at]
Return(d) == job' = [job EXCEPT ![d] = NoJob]

\* The session lock is taken, then the document and delete_requested read.
lockVPS(d, v) ==
    /\ May("reconcile") /\ job[d] = NoJob
    /\ Approved(v) /\ vm[v].phase # "deleted"
    /\ \A e \in Dispatchers : ~(job[e].vm = v /\ job[e].locked)
    /\ job' = [job EXCEPT ![d] =
          [at |-> IF vm[v].del \/ vm[v].expired \/ vm[v].phase = "deleting"
                  THEN "remove" ELSE vm[v].phase,
           vm |-> v, doc |-> vm[v].phase, locked |-> TRUE]]
    /\ Only(<<vm, rsv, reserved, host, faults>>)

keepReady(d) ==
    /\ Working(d, "ready")
    /\ save(job[d].vm, "ready") /\ Return(d)
    /\ Only(<<rsv, reserved, host, faults>>)

\* Payment is asked for once more; without it the request is cancelled.
startCreating(d) ==
    /\ Working(d, "queued")
    /\ \/ requireBillingPayment /\ save(job[d].vm, "creating") /\ Go(d, "creating")
       \/ save(job[d].vm, "deleting") /\ Return(d)
    /\ Only(<<rsv, reserved, host, faults>>)

Host(d) == host[job[d].vm]
Record(d, h) == host' = [host EXCEPT ![job[d].vm] = h]
Elsewhere == Only(<<vm, rsv, reserved, faults>>)

\* An error of the host's life cycle: the row is to be removed, this time or
\* again.
GiveUp(d) == save(job[d].vm, "deleting") /\ Return(d) /\ Only(<<rsv, reserved, faults>>)

\* ApplyVPS: the intent is written if the host has no record.
applyIntent(d) ==
    /\ Working(d, "creating")
    /\ Record(d, IF Host(d).state = "absent" THEN [Host(d) EXCEPT !.state = "creating"]
                 ELSE Host(d))
    /\ Go(d, "intended")
    /\ Elsewhere

\* A server that is listed is used; an attempt is recorded before the server is
\* created, and one of somebody else that left no server is ambiguous.
reconcileCreation(d) ==
    LET h == Host(d)
    IN /\ Working(d, "intended")
       /\ \/ /\ h.state = "ready" /\ Go(d, "exposing")
             /\ UNCHANGED host /\ Elsewhere
          \/ /\ h.state = "creating" /\ h.server # "none" /\ Go(d, "created")
             /\ UNCHANGED host /\ Elsewhere
          \/ /\ h.state = "creating" /\ h.server = "none" /\ h.res = "pending"
             /\ Record(d, [h EXCEPT !.res = "tried"]) /\ Go(d, "acquired")
             /\ Elsewhere
          \/ /\ h.state = "creating" /\ h.server = "none" /\ h.res = "tried"
             /\ Record(d, [h EXCEPT !.state = "escalated"]) /\ GiveUp(d)

CreateManaged(d) ==
    /\ Working(d, "acquired")
    /\ Record(d, [Host(d) EXCEPT !.server = "up"])
    /\ Go(d, "created")
    /\ Elsewhere

\* The server is attached, boots and is ready, unless the record has moved on:
\* then it is deleted if a Destroy has escalated, and left to the Destroy if not.
attachServer(d) ==
    LET h == Host(d)
    IN /\ Working(d, "created")
       /\ \/ /\ h.state = "creating" /\ Go(d, "exposing")
             /\ Record(d, [h EXCEPT !.state = "ready", !.res = "made", !.listed = TRUE])
             /\ Elsewhere
          \/ /\ h.state = "ready" /\ Go(d, "exposing")
             /\ UNCHANGED host /\ Elsewhere
          \/ /\ h.state = "escalated" /\ h.res # "destroyed"
             /\ Record(d, [h EXCEPT !.res = "destroyed", !.listed = FALSE,
                                    !.server = IF @ = "up" THEN "going" ELSE @])
             /\ GiveUp(d)
          \/ /\ h.state \in {"destroying", "destroyed"}
                \/ (h.state = "escalated" /\ h.res = "destroyed")
             /\ UNCHANGED host /\ GiveUp(d)

\* exposeSpecTCP: an intent of somebody else without a group is ambiguous.
exposeSpecTCP(d) ==
    LET h == Host(d)
    IN /\ Working(d, "exposing") /\ h.state = "ready"
       /\ \/ /\ h.exp = "none" /\ Go(d, "asked")
             /\ Record(d, [h EXCEPT !.exp = "asked"]) /\ Elsewhere
          \/ /\ h.exp = "open" /\ Go(d, "applied")
             /\ UNCHANGED host /\ Elsewhere
          \/ /\ h.exp = "asked"
             /\ Record(d, [h EXCEPT !.state = "escalated"]) /\ GiveUp(d)

ExposeManagedTCP(d) ==
    LET h == Host(d)
    IN /\ Working(d, "asked") /\ h.state = "ready" /\ h.server = "up"
       /\ Record(d, [h EXCEPT !.exp = "open"])
       /\ Go(d, "applied")
       /\ Elsewhere

\* The deadline passes, a call fails, the host's record says otherwise, or the
\* address or the key of the new server cannot be verified.
Refused(d) ==
    \/ Working(d, "intended") /\ Host(d).state \notin {"creating", "ready"}
    \/ job[d].at \in {"exposing", "asked"} /\ Host(d).state # "ready"

failProvisioning(d) ==
    /\ job[d].at \in {"creating", "intended", "acquired", "exposing", "asked", "applied"}
    /\ faults' = IF Refused(d) THEN faults ELSE faults - 1
    /\ Refused(d) \/ faults > 0
    /\ save(job[d].vm, "deleting") /\ Return(d)
    /\ Only(<<rsv, reserved, host>>)

saveReady(d) ==
    /\ Working(d, "applied")
    /\ save(job[d].vm, "ready") /\ Return(d)
    /\ Only(<<rsv, reserved, host, faults>>)

startRemoval(d) ==
    /\ Working(d, "remove")
    /\ save(job[d].vm, "deleting") /\ Go(d, "removing")
    /\ Only(<<rsv, reserved, host, faults>>)

\* A host with no record gets a tombstone, so that no late create finds room.
tombstone(h) == IF h.state = "absent" THEN [h EXCEPT !.state = "destroyed"] ELSE h

\* Destroy takes the host over, unless it is destroyed already.
destroyIntent(d) ==
    LET h == tombstone(Host(d))
    IN /\ Working(d, "removing")
       /\ Record(d, IF h.state = "destroyed" THEN h ELSE [h EXCEPT !.state = "destroying"])
       /\ Go(d, IF h.state = "destroyed" THEN "checking" ELSE "destroying")
       /\ Elsewhere

\* What Destroy cannot tell from a call that is still on its way: an exposure
\* with no group or no server left to look at, or a server that is not listed.
Unresolved(h) ==
    \/ h.exp = "asked" \/ (h.exp = "open" /\ h.server = "none")
    \/ h.res \in {"tried", "made"} /\ h.server = "none"

Escalated(h) == [h EXCEPT !.state = IF @ = "destroying" THEN "escalated" ELSE @]

deleteServer(d) ==
    /\ Working(d, "destroying")
    /\ \/ Unresolved(Host(d)) /\ Record(d, Escalated(Host(d))) /\ GiveUp(d)
       \/ /\ ~Unresolved(Host(d))
          /\ Record(d, [Host(d) EXCEPT !.server = IF @ = "up" THEN "going" ELSE @])
          /\ Go(d, "deleted")
          /\ Elsewhere

\* The deleted server, the deleted group and the end of the Destroy are three
\* writes; stopping between them is like stopping before them, as the server is
\* gone by then in either case.
recordDestroyed(d) ==
    /\ Working(d, "deleted")
    /\ \/ /\ Host(d).state = "destroying" /\ Go(d, "checking")
          /\ Record(d, [Host(d) EXCEPT !.state = "destroyed", !.res = "destroyed"])
          /\ Elsewhere
       \/ Host(d).state # "destroying" /\ UNCHANGED host /\ GiveUp(d)

\* A mutant of Verified: the deletion was accepted, so the server is gone.
VerifiedByAcceptance(h) == TRUE

\* Every server that State.Resources names is asked for.
Verified(h) == h.listed => h.server = "none"

DestroyVPS(d) ==
    /\ Working(d, "checking")
    /\ \/ Verified(Host(d)) /\ Go(d, "destroyed") /\ UNCHANGED host /\ Elsewhere
       \/ ~Verified(Host(d)) /\ UNCHANGED host /\ GiveUp(d)

\* A server whose deletion was accepted goes away.
ServerGone(v) ==
    /\ host[v].server = "going"
    /\ host' = [host EXCEPT ![v].server = "none"]
    /\ Only(<<vm, rsv, reserved, job, faults>>)

\* A call of DestroyVPS fails or its two minutes are over; the error of a lookup
\* or of the deletion, which may have been accepted, escalates.
failRemoval(d) ==
    /\ job[d].at \in {"removing", "destroying", "deleted", "checking"} /\ faults > 0
    /\ faults' = faults - 1
    /\ \/ UNCHANGED host
       \/ Working(d, "destroying") /\ Record(d, Escalated(Host(d)))
       \/ /\ Working(d, "destroying") /\ ~Unresolved(Host(d)) /\ Host(d).server = "up"
          /\ Record(d, [Escalated(Host(d)) EXCEPT !.server = "going"])
    /\ save(job[d].vm, "deleting") /\ Return(d)
    /\ Only(<<rsv, reserved>>)

releaseReservation(d) ==
    /\ Working(d, "destroyed")
    /\ LET v == job[d].vm
       IN IF rsv[v] = "reserved"
          THEN rsv' = [rsv EXCEPT ![v] = "released"] /\ reserved' = reserved - 1
          ELSE UNCHANGED <<rsv, reserved>>
    /\ Go(d, "released")
    /\ Only(<<vm, host, faults>>)

saveDeleted(d) ==
    /\ Working(d, "released")
    /\ save(job[d].vm, "deleted") /\ Return(d)
    /\ Only(<<rsv, reserved, host, faults>>)

\* The connection that holds the lock dies; the dispatcher does not notice.
LoseLock(d) ==
    /\ job[d].locked /\ faults > 0
    /\ faults' = faults - 1
    /\ job' = [job EXCEPT ![d].locked = FALSE]
    /\ Only(<<vm, rsv, reserved, host>>)

\* The process stops, or a statement fails, between two steps.
StopDispatcher(d) ==
    /\ job[d] # NoJob /\ faults > 0
    /\ faults' = faults - 1
    /\ Return(d)
    /\ Only(<<vm, rsv, reserved, host>>)

Reconcile(d) ==
    \/ \E v \in Servers : lockVPS(d, v)
    \/ keepReady(d) \/ startCreating(d)
    \/ applyIntent(d) \/ reconcileCreation(d) \/ CreateManaged(d) \/ attachServer(d)
    \/ exposeSpecTCP(d) \/ ExposeManagedTCP(d) \/ saveReady(d) \/ failProvisioning(d)
    \/ startRemoval(d) \/ destroyIntent(d) \/ deleteServer(d) \/ recordDestroyed(d)
    \/ DestroyVPS(d) \/ releaseReservation(d) \/ saveDeleted(d)

VPSStep(open) ==
    \/ \E v \in Servers :
          \/ DraftVPS(v, open) \/ askApproval(v, open) \/ ApproveVPS(v)
          \/ requestDeletion(v) \/ ExpireVPS(v) \/ ServerGone(v)
    \/ \E d \in Dispatchers : Reconcile(d) \/ failRemoval(d) \/ LoseLock(d) \/ StopDispatcher(d)

VPSInit ==
    /\ vm = [v \in Servers |-> [NoVM EXCEPT !.phase = IF v \in env.up THEN "ready" ELSE "none"]]
    /\ rsv = [v \in Servers |-> IF v \in env.up THEN "reserved" ELSE "none"]
    /\ reserved = Cardinality(env.up)
    /\ host = [v \in Servers |-> IF v \in env.up THEN ReadyHost ELSE NoHost]
    /\ job = [d \in Dispatchers |-> NoJob]
    /\ faults = env.faults

-----------------------------------------------------------------------------

\* A server whose row says deleted, or went with its workspace, is gone for
\* good: nothing runs, nothing can still be created for it, and no spend is
\* held.  Dispatchers that lost their lock while creating do not change that,
\* thanks to the tombstone (sdk/vps.go:172), and two that remove the same
\* server give its spend back once (vps.go:474).  The row waits until the
\* provider has removed the server (sdk/vps.go:188); only one that was never
\* attached, and is not in State.Resources, may still be on its way out.
RemovedHasNothing ==
    /\ \A v \in Servers : vm[v].phase \in {"deleted", "none"} =>
          /\ host[v].server # "up"
          /\ host[v].listed => host[v].server = "none"
          /\ vm[v].phase = "deleted" => host[v].state = "destroyed"
          /\ rsv[v] # "reserved"
    /\ reserved = Cardinality({v \in Servers : rsv[v] = "reserved"})

\* A server that is to go does go, row and reservation included, whatever a
\* dispatcher with a stale document writes over the row meanwhile, and although
\* dispatchers stop and lose their locks.  The exception: a Destroy that finds
\* neither the server nor a record of its end, or an exposure it cannot look
\* at, escalates (sdk/client.go:1049 and 1063), and so does every later one.
\* A create or an exposure that was interrupted leaves that behind, and so does
\* a Destroy interrupted after the server is gone.
RemovalSettles ==
    \A v \in Servers :
        (vm[v].del \/ vm[v].expired) ~>
            \/ vm[v].phase \in {"deleted", "none"}
            \/ host[v].state = "escalated" /\ Unresolved(host[v])

=============================================================================
