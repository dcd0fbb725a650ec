-------------------------- MODULE ComputeLifecycle --------------------------
(***************************************************************************)
(* The compute life cycle of one system: Client.Apply, Client.Destroy and  *)
(* Client.ExposeSystemHost of the sdk, run by any number of processes that  *)
(* share nothing but one object in the m1 store (state.json) and the       *)
(* compute provider.                                                       *)
(*                                                                         *)
(* Every write of state.json is a read followed by a PutJSONIfMatch on the *)
(* etag read, so each read-modify-write is one step here: it takes effect  *)
(* only if the object did not change in between.  What is not atomic is    *)
(* the gap between a client's writes: it keeps the state it last wrote in  *)
(* memory (me[p].snap) and talks to the provider with it.  A client can be *)
(* arbitrarily late, and Interrupt makes it stop anywhere.                 *)
(*                                                                         *)
(* Abstractions.  An operation id is the number of the creation intent.    *)
(* An attempt id is the network cursor plus one, unique in an operation    *)
(* because the cursor grows between two attempts.  An exposure intent is   *)
(* made at most once per operation, so the operation number stands for its *)
(* id too.  CreationIntent.Phase guards nothing that State.Phase does not  *)
(* and is left out.  Deadlines are not timed: a wait may end at any time.  *)
(***************************************************************************)
EXTENDS Integers, FiniteSets, FiniteSetsExt

CONSTANTS
    Appliers,     \* clients that run Apply
    Destroyers,   \* clients that run Destroy
    Exposers,     \* clients that run ExposeSystemHost
    Operators,    \* clients that run RecoverSystemHostExposure
    NumReplicas,  \* spec.Compute.Replicas
    NumNetworks,  \* eligible networks of the provider
    MaxOps,       \* bound on creation intents
    Environments  \* who takes part in a behaviour, and what may go wrong in it

Clients == Appliers \cup Destroyers \cup Exposers \cup Operators
Replicas == 1..NumReplicas
Servers == 1..(MaxOps * NumReplicas * NumNetworks)
Policies == 1..(2 * MaxOps)

ASSUME ReplicaAssumption == NumReplicas \in Nat \ {0}
ASSUME NetworkAssumption == NumNetworks \in Nat \ {0}
ASSUME BoundAssumption == MaxOps \in Nat \ {0}

Environment == [clients : SUBSET Clients, left : Nat,
                faults : SUBSET {"interrupt", "lostReply", "hidden", "exhausted", "boot", "lookup"}]

ASSUME EnvironmentAssumption == Environments \subseteq Environment

VARIABLES
    st,      \* the durable State object
    me,      \* what each client holds in memory
    server,  \* the provider's servers
    policy,  \* the provider's security groups
    env      \* who takes part, the kinds of fault and how many are left

vars == <<st, me, server, policy, env>>

-----------------------------------------------------------------------------
(* The durable state. *)

StatePhases == {"absent", "creating", "ready", "failed", "escalated",
                "cleanup", "destroying", "destroyed"}
ResourcePhases == {"pending", "creating", "attached", "active", "ready",
                   "cleaning", "destroyed"}
ExposurePhases == {"none", "creating", "ready", "escalated", "cleaning",
                   "destroying", "destroyed"}

\* ComputeResourceIntent; entry is this replica's element of State.Resources.
Resource == [phase: ResourcePhases, attempt: 0..(NumNetworks + 1),
             id: Servers \cup {0}, net: 1..(NumNetworks + 1),
             entry: {"none", "live", "deleted"}]
Exposure == [phase: ExposurePhases, unresolved: BOOLEAN, srv: Servers \cup {0}]
State == [phase: StatePhases, op: 0..MaxOps, res: [Replicas -> Resource],
          x: Exposure, pols: SUBSET Policies]

Pending(net) ==
    [phase |-> "pending", attempt |-> 0, id |-> 0, net |-> net, entry |-> "none"]
NoExposure == [phase |-> "none", unresolved |-> FALSE, srv |-> 0]
NewState(phase, op) ==
    [phase |-> phase, op |-> op, res |-> [r \in Replicas |-> Pending(1)],
     x |-> NoExposure, pols |-> {}]
Absent == NewState("absent", 0)

\* A client between calls, and the locals of a running one: snap is the code's
\* state variable, srv its server (or policy), pols Destroy's policies map.
Idle == [pc |-> "idle", snap |-> Absent, idx |-> 1, srv |-> 0,
         prior |-> "pending", pols |-> {}, recover |-> FALSE]

Init ==
    /\ st = Absent
    /\ me = [p \in Clients |-> Idle]
    /\ server = [s \in Servers |-> [status |-> "none", op |-> 0, r |-> 1, full |-> FALSE]]
    /\ policy = [q \in Policies |-> [status |-> "none", at |-> 0]]
    /\ env \in Environments

-----------------------------------------------------------------------------
(* The provider. *)

Exists(s) == s \in Servers /\ server[s].status \in {"hidden", "listed"}

\* FindManagedServers: exact matches by name and operation metadata.
Listed(op, r) ==
    {s \in Servers : server[s].status = "listed" /\ server[s].op = op /\ server[s].r = r}

\* What reconcileManagedServer and ownedServersForDestroy gather: the listing,
\* and the recorded server if a direct read still finds it.
Matches(op, r, id) == Listed(op, r) \cup {s \in {id} : Exists(s)}

Delete(S) ==
    server' = [s \in Servers |-> IF s \in S /\ Exists(s)
                                 THEN [server[s] EXCEPT !.status = "gone"]
                                 ELSE server[s]]

\* findSecurityGroups: the name and owner are those of the system, not of an
\* operation.
Groups == {q \in Policies : policy[q].status = "listed"}

\* FindManagedTCPExposure(server): an error if the server has no port or the
\* policy is duplicated or partial, otherwise the policy or nothing.
ExposureError(s) ==
    \/ ~Exists(s)
    \/ Cardinality(Groups) > 1
    \/ \E q \in Groups : policy[q].at # s

\* DeleteSecurityPolicy: refused (409) while a live port uses the group.
Detached(q) == ~Exists(policy[q].at)
DeletePolicy(q) == policy' = [policy EXCEPT ![q].status = "gone"]

Fault(kind) == kind \in env.faults /\ env.left > 0 /\ env' = [env EXCEPT !.left = @ - 1]
NoFault == UNCHANGED env

-----------------------------------------------------------------------------
(* Steps shared by the handlers. *)

Go(p, pc) == me' = [me EXCEPT ![p].pc = pc]
Return(p) == me' = [me EXCEPT ![p] = Idle]

\* A write of state.json that the client keeps as its own copy.
Persist(p, new, pc) ==
    /\ st' = new
    /\ me' = [me EXCEPT ![p].snap = new, ![p].pc = pc]

\* mutateCreationState's fence, for the whole state and for one attempt.
CreationFence(p) ==
    st.op = me[p].snap.op /\ st.phase \notin {"destroying", "destroyed"}
AttemptFence(p) ==
    LET r == me[p].idx  attempt == me[p].snap.res[r].attempt
    IN  CreationFence(p) /\ (attempt = 0 \/ st.res[r].attempt = attempt)

EscalateCreation(p) ==
    /\ st' = IF CreationFence(p) /\ st.phase = "creating"
             THEN [st EXCEPT !.phase = "escalated"] ELSE st
    /\ Return(p)

\* The client stops for good: it crashes, its context ends, or a call to the
\* provider or to m1 fails where the code just returns.
Interrupt(p) ==
    /\ me[p].pc # "idle"
    /\ Fault("interrupt")
    /\ Return(p)
    /\ UNCHANGED <<st, server, policy>>

\* The provider finishes accepting a request: the object shows up in listings.
Appear ==
    /\ \/ /\ \E s \in Servers : /\ server[s].status = "hidden"
                                /\ server' = [server EXCEPT ![s].status = "listed"]
          /\ UNCHANGED policy
       \/ /\ \E q \in Policies : /\ policy[q].status = "hidden"
                                 /\ policy' = [policy EXCEPT ![q].status = "listed"]
          /\ UNCHANGED server
    /\ UNCHANGED <<st, me, env>>

-----------------------------------------------------------------------------
(* Apply. *)

\* validateCreationIntent, as far as the code itself can break it.
ValidCreationIntent ==
    \A r \in Replicas : st.res[r].net > NumNetworks => st.res[r].phase = "pending"

Apply(p) ==
    /\ p \in Appliers \cap env.clients /\ me[p].pc = "idle"
    /\ \/ /\ st.phase \in {"absent", "destroyed"} /\ st.op < MaxOps
          /\ Persist(p, NewState("creating", st.op + 1), "reconcile")
       \/ /\ st.phase = "creating" /\ ValidCreationIntent
          /\ Persist(p, st, "reconcile")
    /\ UNCHANGED <<server, policy, env>>

\* reconcileManagedServer and the choice it leads to.  A server that is not
\* visible while its create is in flight is waited for until the grace ends.
ReconcileServer(p) ==
    LET r == me[p].idx
        mine == me[p].snap.res[r]
        found == Matches(me[p].snap.op, r, mine.id)
    IN  /\ me[p].pc = "reconcile" /\ r \in Replicas
        /\ \/ /\ mine.phase = "ready"
              /\ me' = [me EXCEPT ![p].idx = r + 1]
              /\ UNCHANGED st
           \/ /\ mine.phase # "ready" /\ mine.net > NumNetworks
              /\ Return(p)
              /\ UNCHANGED st
           \/ /\ mine.phase # "ready" /\ mine.net <= NumNetworks
              /\ \/ Cardinality(found) > 1 /\ EscalateCreation(p)
                 \/ found = {} /\ mine.phase = "creating" /\ EscalateCreation(p)
                 \/ found = {} /\ mine.phase # "creating" /\ Go(p, "acquire") /\ UNCHANGED st
                 \/ \E s \in found :
                      /\ found = {s}
                      /\ me' = [me EXCEPT ![p].srv = s, ![p].pc =
                                  IF mine.phase = "creating" THEN "attach" ELSE "wait"]
                      /\ UNCHANGED st
        /\ UNCHANGED <<server, policy, env>>

\* Mutant: whatever is not ready may be attempted again.
AttemptFreeAgain(r) == st.res[r].phase # "ready"

AttemptFree(r) == st.res[r].phase = "pending"

\* acquireResourceCreateAttempt: the write every create is preceded by.
AcquireAttempt(p) ==
    LET r == me[p].idx
        won == /\ st.op = me[p].snap.op /\ st.phase = "creating"
               /\ AttemptFree(r)
    IN  /\ me[p].pc = "acquire"
        /\ \/ /\ won
              /\ Persist(p, [st EXCEPT !.res[r].phase = "creating",
                                       !.res[r].attempt = st.res[r].net], "create")
           \/ ~won /\ Return(p) /\ UNCHANGED st
        /\ UNCHANGED <<server, policy, env>>

\* CreateManaged: the request is accepted or refused, the reply arrives or is
\* lost, an accepted server may be missing from listings for a while, and its
\* network may have no address left.  With the cursor past the last network the
\* client panics on NetworkIDs[cursor].
CreateManaged(p) ==
    LET net == me[p].snap.res[me[p].idx].net
        reply(s) == me' = [me EXCEPT ![p].pc = "created", ![p].srv = s]
        accept(s, status, full) ==
            server' = [server EXCEPT ![s] = [status |-> status, op |-> me[p].snap.op,
                                             r |-> me[p].idx, full |-> full]]
    IN  /\ me[p].pc = "create"
        /\ \/ net > NumNetworks /\ Return(p) /\ NoFault /\ UNCHANGED server
           \/ net <= NumNetworks /\ Fault("lostReply") /\ reply(0) /\ UNCHANGED server
           \/ /\ net <= NumNetworks
              /\ \E s \in Servers :
                   /\ server[s].status = "none"
                   /\ \A t \in 1..(s - 1) : server[t].status # "none"
                   /\ \/ accept(s, "listed", FALSE) /\ reply(s) /\ NoFault
                      \/ accept(s, "listed", TRUE) /\ reply(s) /\ Fault("exhausted")
                      \/ accept(s, "listed", FALSE) /\ reply(0) /\ Fault("lostReply")
                      \/ accept(s, "hidden", FALSE) /\ (reply(s) \/ reply(0)) /\ Fault("hidden")
        /\ UNCHANGED <<st, policy>>

\* The lookup after the create: without a reply the client waits for the server
\* to show up and escalates when it does not.
Created(p) ==
    LET found == Listed(me[p].snap.op, me[p].idx)
    IN  /\ me[p].pc = "created"
        /\ \/ Cardinality(found) > 1 /\ EscalateCreation(p)
           \/ found = {} /\ me[p].srv = 0 /\ EscalateCreation(p)
           \/ found = {} /\ me[p].srv # 0 /\ Go(p, "attach") /\ UNCHANGED st
           \/ \E s \in found : /\ found = {s}
                               /\ me' = [me EXCEPT ![p].srv = s, ![p].pc = "attach"]
                               /\ UNCHANGED st
        /\ UNCHANGED <<server, policy, env>>

PersistResourceAttachment(p) ==
    LET r == me[p].idx
        fenced == AttemptFence(p) /\ st.phase = "creating"
    IN  /\ me[p].pc = "attach"
        /\ \/ /\ fenced /\ st.res[r].phase = "creating"
              /\ Persist(p, [st EXCEPT !.res[r].phase = "attached",
                                       !.res[r].id = me[p].srv,
                                       !.res[r].entry = "live"], "wait")
           \/ /\ fenced /\ st.res[r].phase \in {"attached", "active", "ready"}
              /\ st.res[r].id = me[p].srv
              /\ Persist(p, st, "wait")
           \/ /\ ~(fenced /\ \/ st.res[r].phase = "creating"
                             \/ /\ st.res[r].phase \in {"attached", "active", "ready"}
                                /\ st.res[r].id = me[p].srv)
              /\ Go(p, "cleanup") /\ UNCHANGED st
        /\ UNCHANGED <<server, policy, env>>

Active(s) == Exists(s) /\ ~server[s].full

\* WaitActive; a server whose network has no address left is deleted at once.
WaitActive(p) ==
    LET s == me[p].srv
    IN  /\ me[p].pc = "wait"
        /\ \/ Active(s) /\ Go(p, "active") /\ UNCHANGED server
           \/ Exists(s) /\ server[s].full /\ Go(p, "exhausted") /\ Delete({s})
           \/ ~Exists(s) /\ Return(p) /\ UNCHANGED server
        /\ UNCHANGED <<st, policy, env>>

PersistExhaustedNetwork(p) ==
    LET r == me[p].idx
        fenced == /\ AttemptFence(p) /\ st.phase = "creating"
                  /\ st.res[r].id = me[p].srv
                  /\ st.res[r].phase \in {"attached", "active"}
    IN  /\ me[p].pc = "exhausted"
        /\ \/ fenced /\ Persist(p, [st EXCEPT !.res[r] = Pending(st.res[r].net + 1)], "reconcile")
           \/ ~fenced /\ Return(p) /\ UNCHANGED st
        /\ UNCHANGED <<server, policy, env>>

\* persistResourceActive; if another client already made the resource ready,
\* this one gives up.
PersistResourceActive(p) ==
    LET r == me[p].idx
        fenced == /\ AttemptFence(p) /\ st.phase = "creating"
                  /\ st.res[r].id = me[p].srv
                  /\ st.res[r].phase \in {"attached", "active", "ready"}
    IN  /\ me[p].pc = "active"
        /\ \/ /\ fenced /\ st.res[r].phase # "ready"
              /\ Persist(p, [st EXCEPT !.res[r].phase = "active", !.res[r].entry = "live"], "proof")
           \/ fenced /\ st.res[r].phase = "ready" /\ Return(p) /\ UNCHANGED st
           \/ ~fenced /\ Go(p, "cleanup") /\ UNCHANGED st
        /\ UNCHANGED <<server, policy, env>>

\* waitForProof: the server reports that it booted, or that it could not.
WaitForProof(p) ==
    /\ me[p].pc = "proof"
    /\ \/ Go(p, "proved") /\ NoFault /\ UNCHANGED st
       \/ /\ Fault("boot")
          /\ st' = IF CreationFence(p) /\ st.phase = "creating"
                   THEN [st EXCEPT !.phase = "failed"] ELSE st
          /\ Return(p)
    /\ UNCHANGED <<server, policy>>

PersistResourceReady(p) ==
    LET r == me[p].idx
        fenced == /\ AttemptFence(p) /\ st.phase = "creating"
                  /\ st.res[r].phase \in {"active", "ready"}
    IN  /\ me[p].pc = "proved"
        /\ \/ fenced /\ Persist(p, [st EXCEPT !.res[r].phase = "ready"], "reconcile")
           \/ ~fenced /\ Return(p) /\ UNCHANGED st
        /\ UNCHANGED <<server, policy, env>>

PersistCreationReady(p) ==
    /\ me[p].pc = "reconcile" /\ me[p].idx > NumReplicas
    /\ st' = IF /\ CreationFence(p) /\ st.phase = "creating"
                /\ \A r \in Replicas : st.res[r].phase = "ready"
             THEN [st EXCEPT !.phase = "ready"] ELSE st
    /\ Return(p)
    /\ UNCHANGED <<server, policy, env>>

-----------------------------------------------------------------------------
(* cleanupComputeAfterFence: a client whose attempt was taken over deletes   *)
(* its server, but only under the cleanup phase it writes first.             *)

ClaimCleanup(p) ==
    LET r == me[p].idx
        claim == /\ st.op = me[p].snap.op
                 /\ st.res[r].attempt = me[p].snap.res[r].attempt
                 /\ st.res[r].phase # "destroyed"
                 /\ st.phase = "escalated"
    IN  /\ me[p].pc = "cleanup"
        /\ \/ /\ claim
              /\ st' = [st EXCEPT !.phase = "cleanup", !.res[r].phase = "cleaning",
                                  !.res[r].id = me[p].srv]
              /\ me' = [me EXCEPT ![p].prior = st.res[r].phase, ![p].pc = "cleaning"]
           \/ ~claim /\ Return(p) /\ UNCHANGED st
        /\ UNCHANGED <<server, policy, env>>

\* The delete works, or fails; a failure may hide a delete that worked.
CleanupDelete(p) ==
    /\ me[p].pc = "cleaning"
    /\ \/ Delete({me[p].srv}) /\ Go(p, "cleaned") /\ NoFault
       \/ /\ Fault("lostReply") /\ Go(p, "uncleaned")
          /\ Delete({me[p].srv}) \/ UNCHANGED server
    /\ UNCHANGED <<st, policy>>

\* Mutant: the second write of a cleanup is fenced by the operation alone.
CleanupFenceByOperation(p) == st.op = me[p].snap.op

CleanupFence(p) ==
    LET r == me[p].idx
    IN  /\ st.phase = "cleanup" /\ st.op = me[p].snap.op
        /\ st.res[r].attempt = me[p].snap.res[r].attempt
        /\ st.res[r].phase = "cleaning" /\ st.res[r].id = me[p].srv

FinishCleanup(p) ==
    LET r == me[p].idx
    IN  /\ me[p].pc \in {"cleaned", "uncleaned"}
        /\ st' = IF CleanupFence(p)
                 THEN [st EXCEPT !.phase = "escalated", !.res[r].entry = "none",
                                 !.res[r].phase = IF me[p].pc = "cleaned"
                                                  THEN "destroyed" ELSE me[p].prior]
                 ELSE st
        /\ Return(p)
        /\ UNCHANGED <<server, policy, env>>

-----------------------------------------------------------------------------
(* Destroy. *)

Unresolved(x) == x.unresolved \/ x.phase \in {"creating", "destroying", "cleaning"}

\* The fence: from here on no client but a Destroy may write the state.
Destroy(p) ==
    /\ p \in Destroyers \cap env.clients /\ me[p].pc = "idle"
    /\ st.phase \notin {"absent", "destroyed"}
    /\ \/ /\ st.phase # "destroying" /\ st.x.phase = "none"
          /\ Persist(p, [st EXCEPT !.phase = "destroying"], "d-exposure")
       \/ /\ st.phase # "destroying" /\ st.x.phase # "none"
          /\ Persist(p, [st EXCEPT !.phase = "destroying", !.x.phase = "destroying",
                                   !.x.unresolved = Unresolved(st.x)], "d-exposure")
       \/ st.phase = "destroying" /\ Persist(p, st, "d-exposure")
    /\ UNCHANGED <<server, policy, env>>

\* mutateDestroyState's fence.
DestroyFence(p) == st.phase = "destroying" /\ st.op = me[p].snap.op

EscalateDestroy(p) ==
    /\ st' = IF ~DestroyFence(p) THEN st
             ELSE IF st.x.phase = "none" THEN [st EXCEPT !.phase = "escalated"]
             ELSE [st EXCEPT !.phase = "escalated", !.x.phase = "escalated"]
    /\ Return(p)

PersistDestroy(p, new, pc) ==
    \/ DestroyFence(p) /\ Persist(p, new, pc)
    \/ ~DestroyFence(p) /\ Return(p) /\ UNCHANGED st

ExposureInFlight(x, known) == Groups = {} /\ x.unresolved /\ known = {}

DestroyExposure(p) ==
    LET x == me[p].snap.x
        known == me[p].snap.pols
    IN  /\ me[p].pc = "d-exposure"
        /\ \/ x.phase = "none" /\ Go(p, "d-resource") /\ NoFault /\ UNCHANGED st
           \/ x.phase # "none" /\ ExposureError(x.srv) /\ EscalateDestroy(p) /\ NoFault
           \/ x.phase # "none" /\ Fault("lookup") /\ EscalateDestroy(p)
           \/ /\ x.phase # "none" /\ ~ExposureError(x.srv) /\ NoFault
              /\ IF ExposureInFlight(x, known)
                 THEN EscalateDestroy(p)
                 ELSE /\ me' = [me EXCEPT ![p].pc = "d-resource", ![p].pols = known \cup Groups]
                      /\ UNCHANGED st
    /\ UNCHANGED <<server, policy>>

\* Mutant: an attempt without a recorded server is taken to have none.
ResourceUnresolvedById(res, owned) ==
    res.phase # "destroyed" /\ owned = {} /\ res.id # 0

ResourceUnresolved(res, owned) ==
    res.phase # "destroyed" /\ owned = {} /\ (res.phase = "creating" \/ res.id # 0)

\* ownedServersForDestroy and the deletes.
DestroyResource(p) ==
    LET r == me[p].idx
        mine == me[p].snap.res[r]
        owned == Matches(me[p].snap.op, r, mine.id)
        unresolved == ResourceUnresolved(mine, owned)
    IN  /\ me[p].pc = "d-resource" /\ r \in Replicas
        /\ \/ unresolved /\ EscalateDestroy(p) /\ NoFault /\ UNCHANGED server
           \/ Fault("lookup") /\ EscalateDestroy(p) /\ UNCHANGED server
           \/ ~unresolved /\ Delete(owned) /\ Go(p, "d-deleted") /\ NoFault /\ UNCHANGED st
           \/ /\ owned # {} /\ Fault("lostReply") /\ EscalateDestroy(p)
              /\ Delete(owned) \/ UNCHANGED server
        /\ UNCHANGED policy

ResourceDestroyed(p) ==
    LET r == me[p].idx
        entry == IF st.res[r].entry = "none" THEN "none" ELSE "deleted"
        new == [st EXCEPT !.res[r].phase = "destroyed", !.res[r].entry = entry]
    IN  /\ me[p].pc = "d-deleted"
        /\ \/ /\ DestroyFence(p)
              /\ st' = new
              /\ me' = [me EXCEPT ![p].snap = new, ![p].idx = r + 1, ![p].pc = "d-resource"]
           \/ ~DestroyFence(p) /\ Return(p) /\ UNCHANGED st
        /\ UNCHANGED <<server, policy, env>>

DestroyPolicy(p) ==
    /\ me[p].pc = "d-resource" /\ me[p].idx > NumReplicas
    /\ \E q \in me[p].pols :
         /\ q = Min(me[p].pols)
         /\ \/ /\ Detached(q) /\ DeletePolicy(q) /\ NoFault
               /\ me' = [me EXCEPT ![p].srv = q, ![p].pc = "d-policy"]
               /\ UNCHANGED st
            \/ /\ \/ ~Detached(q) /\ NoFault
                  \/ Fault("lookup")
               /\ EscalateDestroy(p) /\ UNCHANGED policy
    /\ UNCHANGED server

PolicyDestroyed(p) ==
    LET new == [st EXCEPT !.pols = @ \ {me[p].srv}]
    IN  /\ me[p].pc = "d-policy"
        /\ \/ /\ DestroyFence(p)
              /\ st' = new
              /\ me' = [me EXCEPT ![p].snap = new, ![p].pc = "d-resource",
                                  ![p].pols = @ \ {me[p].srv}]
           \/ ~DestroyFence(p) /\ Return(p) /\ UNCHANGED st
        /\ UNCHANGED <<server, policy, env>>

\* The last two writes: the exposure intent is closed, then the state.
DestroyFinish(p) ==
    /\ me[p].pc = "d-resource" /\ me[p].idx > NumReplicas /\ me[p].pols = {}
    /\ \/ /\ me[p].snap.x.phase \notin {"none", "destroyed"}
          /\ PersistDestroy(p, [st EXCEPT !.x.phase = "destroyed",
                                          !.x.unresolved = FALSE], "d-resource")
       \/ /\ me[p].snap.x.phase \in {"none", "destroyed"}
          /\ st' = IF DestroyFence(p) THEN [st EXCEPT !.phase = "destroyed"] ELSE st
          /\ Return(p)
    /\ UNCHANGED <<server, policy, env>>

-----------------------------------------------------------------------------
(* ExposeSystemHost and, with recover, RecoverSystemHostExposure.            *)

\* mutateExposureState's fence.
ExposureFence(p) ==
    /\ CreationFence(p)
    /\ st.x.phase \notin {"none", "destroying", "destroyed"}

EscalateExposure(p) ==
    /\ st' = IF ExposureFence(p) /\ st.phase = "ready" /\ st.x.phase = "creating"
             THEN [st EXCEPT !.phase = "escalated", !.x.phase = "escalated"] ELSE st
    /\ Return(p)

\* exposeSpecTCP up to its first provider mutation.  Only the client that wrote
\* the intent, or a human recovery of an escalated one, may create a policy.
Expose(p, recover) ==
    LET host == st.res[1]
        recoverable == /\ recover /\ st.phase = "escalated"
                       /\ st.x.phase = "escalated" /\ st.x.unresolved
        complete(q, rec) ==
            /\ me' = [me EXCEPT ![p].snap = st, ![p].pc = "x-complete",
                                ![p].srv = q, ![p].recover = rec]
            /\ UNCHANGED st
        escalate == /\ me' = me
                    /\ st' = [st EXCEPT !.phase = "escalated", !.x.phase = "escalated"]
    IN  /\ p \in env.clients \cap (IF recover THEN Operators ELSE Exposers)
        /\ me[p].pc = "idle"
        /\ st.phase = "ready" \/ recoverable
        /\ NumReplicas = 1 /\ host.entry = "live"
        /\ \/ /\ st.x.phase = "none" /\ NoFault
              /\ Persist(p, [st EXCEPT !.x = [phase |-> "creating", unresolved |-> TRUE,
                                              srv |-> host.id]], "x-ensure")
           \/ /\ st.x.phase # "none" /\ NoFault
              /\ \E q \in st.pols : st.pols = {q} /\ complete(q, recoverable)
           \/ /\ st.x.phase = "creating" /\ st.pols = {}
              /\ \/ (ExposureError(st.x.srv) \/ Groups = {}) /\ NoFault /\ escalate
                 \/ Fault("lookup") /\ escalate
                 \/ /\ ~ExposureError(st.x.srv) /\ NoFault
                    /\ \E q \in Groups : complete(q, FALSE)
           \/ /\ recoverable /\ st.pols = {} /\ NoFault
              /\ \/ ~ExposureError(st.x.srv) /\ \E q \in Groups : complete(q, TRUE)
                 \/ /\ Cardinality(Groups) <= 1
                    /\ ExposureError(st.x.srv) \/ Groups = {}
                    /\ me' = [me EXCEPT ![p].snap = st, ![p].pc = "x-ensure",
                                        ![p].recover = TRUE]
                    /\ UNCHANGED st
        /\ UNCHANGED <<server, policy>>

\* ExposeManagedTCP, first part: the port and the groups already there.
ExposeLookup(p) ==
    /\ me[p].pc = "x-ensure"
    /\ \/ ~Exists(me[p].snap.x.srv) /\ Return(p) /\ UNCHANGED st
       \/ Exists(me[p].snap.x.srv) /\ Cardinality(Groups) > 1 /\ EscalateExposure(p)
       \/ /\ Exists(me[p].snap.x.srv) /\ Cardinality(Groups) <= 1
          /\ me' = [me EXCEPT ![p].pc = "x-group", ![p].pols = Groups]
          /\ UNCHANGED st
    /\ UNCHANGED <<server, policy, env>>

\* Second part: the group.  After a failed create the groups are read again.
ExposeGroup(p) ==
    LET use(q) == me' = [me EXCEPT ![p].pc = "x-attach", ![p].srv = q] /\ UNCHANGED st
    IN  /\ me[p].pc = "x-group"
        /\ \/ /\ me[p].pols # {}
              /\ \E q \in me[p].pols : use(q)
              /\ NoFault /\ UNCHANGED policy
           \/ /\ me[p].pols = {}
              /\ \E q \in Policies :
                   /\ policy[q].status = "none"
                   /\ \A t \in 1..(q - 1) : policy[t].status # "none"
                   /\ \/ /\ policy' = [policy EXCEPT ![q].status = "listed"]
                         /\ use(q) /\ NoFault
                      \/ /\ Fault("lostReply") /\ UNCHANGED policy
                         /\ IF Cardinality(Groups) = 1 THEN use(Min(Groups)) ELSE EscalateExposure(p)
                      \/ /\ Fault("hidden") /\ policy' = [policy EXCEPT ![q].status = "hidden"]
                         /\ IF Cardinality(Groups) = 1 THEN use(Min(Groups)) ELSE EscalateExposure(p)
        /\ UNCHANGED server

\* Third part: the rule and the port, both gone if the group or the server is.
ExposeAttach(p) ==
    LET q == me[p].srv  s == me[p].snap.x.srv
    IN  /\ me[p].pc = "x-attach"
        /\ \/ /\ policy[q].status # "gone" /\ Exists(s) /\ NoFault
              /\ policy' = [policy EXCEPT ![q].at = s]
              /\ Go(p, "x-complete") /\ UNCHANGED st
           \/ policy[q].status # "gone" /\ ~Exists(s) /\ NoFault /\ Return(p) /\ UNCHANGED <<st, policy>>
           \/ policy[q].status = "gone" /\ NoFault /\ EscalateExposure(p) /\ UNCHANGED policy
           \/ Fault("lostReply") /\ EscalateExposure(p) /\ UNCHANGED policy
        /\ UNCHANGED server

CompleteExposure(p) ==
    LET q == me[p].srv
        recovering == /\ me[p].recover /\ st.phase = "escalated"
                      /\ st.x.phase = "escalated" /\ st.x.unresolved
        fenced == /\ ExposureFence(p)
                  /\ recovering \/ (st.phase = "ready" /\ st.x.phase \in {"creating", "ready"})
        closed == [st EXCEPT !.x.phase = "ready", !.x.unresolved = FALSE]
    IN  /\ me[p].pc = "x-complete"
        /\ \/ fenced /\ q \in st.pols /\ st' = closed /\ Return(p)
           \/ /\ fenced /\ q \notin st.pols
              /\ st' = [closed EXCEPT !.phase = "ready", !.pols = @ \cup {q}] /\ Return(p)
           \/ ~fenced /\ Go(p, "x-cleanup") /\ UNCHANGED st
        /\ UNCHANGED <<server, policy, env>>

\* cleanupExposureAfterFence.
ClaimExposureCleanup(p) ==
    LET claim == /\ st.op = me[p].snap.op /\ st.x.phase \notin {"none", "destroyed"}
                 /\ st.x.unresolved /\ st.phase = "escalated"
    IN  /\ me[p].pc = "x-cleanup"
        /\ \/ /\ claim
              /\ st' = [st EXCEPT !.phase = "cleanup", !.x.phase = "cleaning"]
              /\ Go(p, "x-cleaning")
           \/ ~claim /\ Return(p) /\ UNCHANGED st
        /\ UNCHANGED <<server, policy, env>>

ExposureCleanupDelete(p) ==
    /\ me[p].pc = "x-cleaning"
    /\ \/ Detached(me[p].srv) /\ DeletePolicy(me[p].srv) /\ Go(p, "x-cleaned") /\ NoFault
       \/ ~Detached(me[p].srv) /\ Go(p, "x-uncleaned") /\ NoFault /\ UNCHANGED policy
    /\ UNCHANGED <<st, server>>

FinishExposureCleanup(p) ==
    LET fenced == st.phase = "cleanup" /\ st.op = me[p].snap.op /\ st.x.phase = "cleaning"
        done == me[p].pc = "x-cleaned"
    IN  /\ me[p].pc \in {"x-cleaned", "x-uncleaned"}
        /\ st' = IF ~fenced THEN st
                 ELSE [st EXCEPT !.phase = "escalated", !.x.unresolved = ~done,
                                 !.x.phase = IF done THEN "destroyed" ELSE "escalated",
                                 !.pols = @ \ {me[p].srv}]
        /\ Return(p)
        /\ UNCHANGED <<server, policy, env>>

-----------------------------------------------------------------------------
ApplyStep(p) ==
    \/ ReconcileServer(p) \/ AcquireAttempt(p) \/ CreateManaged(p) \/ Created(p)
    \/ PersistResourceAttachment(p) \/ WaitActive(p) \/ PersistExhaustedNetwork(p)
    \/ PersistResourceActive(p) \/ WaitForProof(p) \/ PersistResourceReady(p)
    \/ PersistCreationReady(p)
    \/ ClaimCleanup(p) \/ CleanupDelete(p) \/ FinishCleanup(p)

DestroyStep(p) ==
    \/ DestroyExposure(p) \/ DestroyResource(p) \/ ResourceDestroyed(p)
    \/ DestroyPolicy(p) \/ PolicyDestroyed(p) \/ DestroyFinish(p)

ExposeStep(p) ==
    \/ ExposeLookup(p) \/ ExposeGroup(p) \/ ExposeAttach(p) \/ CompleteExposure(p)
    \/ ClaimExposureCleanup(p) \/ ExposureCleanupDelete(p) \/ FinishExposureCleanup(p)

ClientStep(p) == ApplyStep(p) \/ DestroyStep(p) \/ ExposeStep(p)

Next ==
    \/ \E p \in Clients :
         \/ Apply(p) \/ Destroy(p) \/ Expose(p, FALSE) \/ Expose(p, TRUE)
         \/ ClientStep(p) \/ Interrupt(p)
    \/ Appear

Spec == Init /\ [][Next]_vars

\* A running client goes on (every wait in it has a deadline), a Destroy that
\* did not succeed is asked for again, and what the provider accepted shows up.
Fairness ==
    /\ \A p \in Clients : WF_vars(ClientStep(p))
    /\ \A p \in Destroyers : WF_vars(Destroy(p))
    /\ WF_vars(Appear)
FairSpec == Spec /\ Fairness

-----------------------------------------------------------------------------
\* A client that may still send a create for operation op, replica r.
MayCreate(op, r) ==
    \E p \in Clients : me[p].pc = "create" /\ me[p].snap.op = op /\ me[p].idx = r

\* An operator's recovery of an exposure and a Destroy take part in the same
\* behaviour.  A recovery is fenced by the exposure operation alone: it may
\* complete after an escalated Destroy and set the state back to "ready", or
\* create a group that the Destroy did not see.
RecoveryMeetsDestroy ==
    env.clients \cap Operators # {} /\ env.clients \cap Destroyers # {}

\* Nothing outlives a Destroy that reports success: every server that exists,
\* and every create still to be sent, belongs to the operation in state.json,
\* and that operation is not destroyed, whoever takes part.  No security group
\* is left either, unless a recovery meets the Destroy.
DestroyedLeavesNothing ==
    /\ \A s \in Servers : Exists(s) => server[s].op = st.op /\ st.phase # "destroyed"
    /\ \A op \in 1..MaxOps, r \in Replicas :
         MayCreate(op, r) => op = st.op /\ st.phase # "destroyed"
    /\ st.phase = "destroyed" /\ ~RecoveryMeetsDestroy =>
         \A q \in Policies : policy[q].status \notin {"hidden", "listed"}

\* No replica is ever paid for twice: over all operations and clients at most
\* one server exists for it, counting the creates still to be sent, whoever
\* takes part.  Unless a recovery meets a Destroy, a state that says ready names
\* that server, and if its exposure intent is ready too, a complete policy is
\* recorded and attached to it.
OneServerPerReplica ==
    \A r \in Replicas :
      LET live == {s \in Servers : Exists(s) /\ server[s].r = r}
      IN  /\ Cardinality(live) <= 1
          /\ (\E op \in 1..MaxOps : MayCreate(op, r)) => live = {}
          /\ st.phase = "ready" /\ ~RecoveryMeetsDestroy =>
                /\ st.res[r].id \in live
                /\ st.x.phase = "ready" =>
                     \E q \in st.pols \cap Groups : policy[q].at = st.x.srv

\* Destroyed is final for an operation: only a new creation intent leaves it,
\* and a late client of the operation cannot delete its replacement's server.
DestroyedIsFinal ==
    [][/\ st.phase = "destroyed" /\ st' # st => st'.phase = "creating" /\ st'.op = st.op + 1
       /\ \A s \in Servers : Exists(s) /\ ~Exists(s)' =>
            \E p \in Clients : me[p].snap.op = server[s].op /\ me'[p] # me[p]]_vars

\* A Destroy that is asked for until it succeeds does succeed: of a system whose
\* creation had finished, nothing is unresolved on the compute side, so only an
\* interruption of the Destroy itself is in the way.
DestroyResumes ==
    st.phase = "destroying" /\ (\A r \in Replicas : st.res[r].phase = "ready")
      ~> st.phase = "destroyed"

=============================================================================
