--------------------------- MODULE ChangeApproval ---------------------------
(***************************************************************************)
(* From a drafted Change to a queued execution: the approval routes an     *)
(* agent asks a human to follow (approval_capability_store.go), standing   *)
(* policies (standing_policy.go, Service.ApplyChangeUnderPolicy), agents   *)
(* with automatic authority (mcp.go), and the dashboard (http.go).         *)
(*                                                                         *)
(* All of them end in Service.AuthorizeChange, which reads the Change and  *)
(* the revisions its plan was made against, writes the authorization to m1 *)
(* with an unconditional PUT and then updates the mirror in PostgreSQL; and *)
(* in EnqueueExecution, which keeps the first execution of a Change.  A    *)
(* request is a handler that takes these steps; it can be cut off between  *)
(* any two of them.                                                        *)
(*                                                                         *)
(* What the engine does with an authorized Change is ChangeEngine's.  Here *)
(* an authorized Change may be taken up ("applying") once it is queued.    *)
(***************************************************************************)
EXTENDS AgentCredentials

CONSTANTS
    Changes,
    Policies,
    Allowed,   \* [Policies -> SUBSET Agents]: the installations of the envelope
    Covers,    \* [Policies -> SUBSET Changes]: the plans within the envelope
    Humans,    \* workspace members
    Handlers,  \* requests in flight
    MaxRoutes, \* bound on approval capabilities
    MaxRevision

ASSUME ApprovalAssumption ==
    /\ Allowed \in [Policies -> SUBSET Agents]
    /\ Covers \in [Policies -> SUBSET Changes]
    /\ MaxRoutes \in Nat /\ MaxRevision \in Nat \ {0}

VARIABLES
    revision, \* the System's revision (and the workspace's, which follows it)
    engine,   \* m1: the Change's phase
    by,       \* m1: the actor of its authorization
    base,     \* m1: the revision its plan was made against
    mirror,   \* change_records: the phase
    route,    \* change_approval_capabilities
    policy,   \* standing_policies: phase and the revision they are bound to
    decision, \* change_policy_decisions, one per Change
    exec,     \* executions, by Change: who requested it
    req,      \* the handlers
    version   \* history: how often an installation's grant was changed

approvalVars == <<revision, engine, by, base, mirror, route, policy, decision,
                  exec, req, version>>
vars == <<credentialVars, approvalVars>>

Routes == 1..MaxRoutes
Nobody == "nobody"
Actors == Humans \cup Policies \cup Agents
NoRoute == [phase |-> "none"]
NoDecision == [phase |-> "none"]
Idle == [pc |-> "idle"]
Kinds == {"route", "authorize", "apply", "agent", "policy"}

ASSUME ApprovalEnvironments == \A e \in Environments :
    e.changes \subseteq Changes /\ e.requests \subseteq Kinds /\ e.handlers \subseteq Handlers /\ e.policies \subseteq Policies

ApprovalInit ==
    /\ CredentialsInit
    /\ revision = 1
    /\ engine = [c \in Changes |-> "absent"]
    /\ by = [c \in Changes |-> Nobody]
    /\ base = [c \in Changes |-> 0]
    /\ mirror = [c \in Changes |-> "absent"]
    /\ route = [r \in Routes |-> NoRoute]
    /\ policy = [p \in Policies |-> [phase |-> "absent", rev |-> 0]]
    /\ decision = [c \in Changes |-> NoDecision]
    /\ exec = [c \in Changes |-> Nobody]
    /\ req = [h \in Handlers |-> Idle]
    /\ version = [a \in Agents |-> 0]

----------------------------------------------------------------------------
(***************************************************************************)
(* Drafts and registrations.                                               *)
(***************************************************************************)

DraftChange(c) ==
    /\ c \in env.changes /\ engine[c] = "absent"
    /\ engine' = [engine EXCEPT ![c] = "drafted"]
    /\ mirror' = [mirror EXCEPT ![c] = "drafted"]
    /\ base' = [base EXCEPT ![c] = revision]
    /\ UNCHANGED <<credentialVars, revision, by, route, policy, decision, exec, req, version>>

PutSystem ==
    /\ "register" \in env.faults /\ revision < MaxRevision
    /\ revision' = revision + 1
    /\ UNCHANGED <<credentialVars, engine, by, base, mirror, route, policy, decision,
                   exec, req, version>>

----------------------------------------------------------------------------
(***************************************************************************)
(* Approval routes.                                                        *)
(***************************************************************************)

\* A main session of the agent, or a worker of one, that passes the check.
ResolvesWith(a, grants) ==
    \/ \E k \in Issued : owner[k] = a /\ Resolves(k) /\ grant[a] \in grants
    \/ \E w \in Workers : /\ WorkerResolves(w) /\ owner[parent[w]] = a
                          /\ WorkerGrant(w) \in grants

Superseded(a, c) ==
    [r \in Routes |-> IF route[r].phase = "open" /\ route[r].agent = a /\ route[r].change = c
                      THEN [route[r] EXCEPT !.phase = "revoked"] ELSE route[r]]

\* The session, the installation and its grant are read again under locks, so
\* a Principal resolved before a disconnect or a downgrade is refused.
CreateChangeApprovalCapability(a, c) ==
    /\ "route" \in env.requests
    /\ InstallationUnlocked(a)
    /\ grant[a] = "human-approval-required"
    /\ ResolvesWith(a, {"human-approval-required"})
    /\ mirror[c] = "drafted"
    /\ \E r \in Routes :
        /\ route[r] = NoRoute /\ \A q \in Routes : q < r => route[q] # NoRoute
        /\ route' = [Superseded(a, c) EXCEPT ![r] =
                       [phase |-> "open", agent |-> a, change |-> c,
                        version |-> version[a], queued |-> FALSE]]
    /\ UNCHANGED <<credentialVars, revision, engine, by, base, mirror, policy, decision,
                   exec, req, version>>

\* A mutant of RevokedRoutes: a route outlives the grant it was asked under.
KeptRoutes(agents) == route
RevokedRoutes(agents) ==
    [r \in Routes |-> IF route[r].phase = "open" /\ route[r].agent \in agents
                      THEN [route[r] EXCEPT !.phase = "revoked"] ELSE route[r]]

RouteLapses(r) ==
    /\ "lapse" \in env.faults /\ route[r].phase = "open"
    /\ route' = [route EXCEPT ![r].phase = "lapsed"]
    /\ UNCHANGED <<credentialVars, revision, engine, by, base, mirror, policy, decision,
                   exec, req, version>>

Consumable(r) ==
    /\ route[r].phase = "open"
    /\ InstallationLive(route[r].agent) /\ InstallationUnlocked(route[r].agent)
    /\ mirror[route[r].change] = "drafted"

----------------------------------------------------------------------------
(***************************************************************************)
(* Requests.  A handler's kind says how it began: a human followed an      *)
(* approval route ("route"), authorized ("authorize") or applied ("apply") *)
(* from the dashboard, an agent applied by its own authority ("agent") or  *)
(* under a standing policy ("policy").                                     *)
(***************************************************************************)

Request(pc, kind, c, who) ==
    [pc |-> pc, kind |-> kind, change |-> c, who |-> who, route |-> 0,
     agent |-> NoAgent, rev |-> 0, seen |-> "absent", seenBy |-> Nobody]
Become(h, r) == req' = [req EXCEPT ![h] = r]
Goto(h, pc) == req' = [req EXCEPT ![h].pc = pc]
Finish(h) == req' = [req EXCEPT ![h] = Idle]
Free(h, kind) == h \in env.handlers /\ req[h] = Idle /\ kind \in env.requests
At(h, pc) == req[h].pc = pc

ConsumeChangeApprovalCapability(h, m, r) ==
    /\ Free(h, "route") /\ Consumable(r)
    /\ route' = [route EXCEPT ![r].phase = "consumed"]
    /\ Become(h, [Request("authorize", "route", route[r].change, m) EXCEPT !.route = r])
    /\ UNCHANGED <<credentialVars, revision, engine, by, base, mirror, policy, decision,
                   exec, version>>

RequestAuthorize(h, m, c) ==
    /\ Free(h, "authorize") /\ engine[c] # "absent"
    /\ Become(h, Request("authorize", "authorize", c, m))
    /\ UNCHANGED <<credentialVars, revision, engine, by, base, mirror, route, policy,
                   decision, exec, version>>

\* canter_apply_change: agentCanApply holds of the Principal.
RequestAutomatic(h, a, c) ==
    /\ Free(h, "agent") /\ engine[c] # "absent"
    /\ grant[a] = "automatic"
    /\ \E k \in Issued : owner[k] = a /\ Resolves(k)
    /\ Become(h, Request("authorize", "agent", c, a))
    /\ UNCHANGED <<credentialVars, revision, engine, by, base, mirror, route, policy,
                   decision, exec, version>>

\* InspectChange reads the Change from m1 and then mirrors what it read.
RequestApply(h, m, c) ==
    /\ Free(h, "apply") /\ engine[c] # "absent"
    /\ Become(h, [Request("inspected", "apply", c, m) EXCEPT !.seen = engine[c]])
    /\ UNCHANGED <<credentialVars, revision, engine, by, base, mirror, route, policy,
                   decision, exec, version>>

\* A mutant of Appliable: a draft is queued.
AppliableDraft(phase) == phase \in {"drafted", "authorized"}
Appliable(phase) == phase = "authorized"
Inspected(h) ==
    /\ At(h, "inspected")
    /\ mirror' = [mirror EXCEPT ![req[h].change] = req[h].seen]
    /\ IF Appliable(req[h].seen) THEN Goto(h, "enqueue") ELSE Finish(h)
    /\ UNCHANGED <<credentialVars, revision, engine, by, base, route, policy, decision,
                   exec, version>>

Current(c) == base[c] = revision
AuthorizeRead(h) ==
    /\ At(h, "authorize")
    /\ IF Current(req[h].change) /\ engine[req[h].change] = "drafted" THEN Goto(h, "put")
       ELSE IF req[h].kind = "policy" THEN Goto(h, "fail")
       ELSE Finish(h)
    /\ UNCHANGED <<credentialVars, revision, engine, by, base, mirror, route, policy,
                   decision, exec, version>>

\* The PUT is unconditional: two requests that both read a draft both write.
AuthorizePut(h) ==
    /\ At(h, "put")
    /\ engine' = [engine EXCEPT ![req[h].change] = "authorized"]
    /\ by' = [by EXCEPT ![req[h].change] = req[h].who]
    /\ Goto(h, "mirror")
    /\ UNCHANGED <<credentialVars, revision, base, mirror, route, policy, decision,
                   exec, version>>

RecordChange(h) ==
    /\ At(h, "mirror")
    /\ mirror' = [mirror EXCEPT ![req[h].change] = "authorized"]
    /\ CASE req[h].kind = "authorize" -> Finish(h)
         [] req[h].kind = "policy" -> Goto(h, "mark")
         [] OTHER -> Goto(h, "enqueue")
    /\ UNCHANGED <<credentialVars, revision, engine, by, base, route, policy, decision,
                   exec, version>>

\* The transaction fails: a request under a policy goes on to record that.
EnqueueFails(h) ==
    /\ "crash" \in env.faults /\ At(h, "enqueue")
    /\ IF req[h].kind = "policy" THEN Goto(h, "fail") ELSE Finish(h)
    /\ UNCHANGED <<credentialVars, revision, engine, by, base, mirror, route, policy,
                   decision, exec, version>>
EnqueueExecution(h) ==
    /\ At(h, "enqueue")
    /\ exec' = [exec EXCEPT ![req[h].change] = IF @ = Nobody THEN req[h].who ELSE @]
    /\ CASE req[h].kind = "route" -> Goto(h, "record")
         [] req[h].kind = "policy" -> Goto(h, "queued")
         [] OTHER -> Finish(h)
    /\ UNCHANGED <<credentialVars, revision, engine, by, base, mirror, route, policy,
                   decision, version>>

RecordChangeApprovalExecution(h) ==
    /\ At(h, "record")
    /\ route' = [route EXCEPT ![req[h].route].queued = TRUE]
    /\ Finish(h)
    /\ UNCHANGED <<credentialVars, revision, engine, by, base, mirror, policy, decision,
                   exec, version>>

----------------------------------------------------------------------------
(***************************************************************************)
(* Standing policies.                                                      *)
(***************************************************************************)

BoundRevision == revision
CreateStandingPolicy(p) ==
    /\ p \in env.policies /\ policy[p].phase = "absent"
    /\ \A a \in Allowed[p] : inst[a] \in {"live", "lapsed"}
    /\ policy' = [policy EXCEPT ![p] = [phase |-> "live", rev |-> BoundRevision]]
    /\ UNCHANGED <<credentialVars, revision, engine, by, base, mirror, route, decision,
                   exec, req, version>>

\* RevokeStandingPolicy, or the policy's expiry.
PolicyEnds(p, how) ==
    /\ policy[p].phase = "live" /\ (how = "lapsed" => "lapse" \in env.faults)
    /\ policy' = [policy EXCEPT ![p].phase = how]
    /\ UNCHANGED <<credentialVars, revision, engine, by, base, mirror, route, decision,
                   exec, req, version>>

\* The service reads both revisions and the Change before the policies.
RequestUnderPolicy(h, a, c) ==
    /\ Free(h, "policy") /\ engine[c] # "absent"
    /\ ResolvesWith(a, {"human-approval-required", "automatic"})
    /\ Become(h, [Request("lookup", "policy", c, Nobody) EXCEPT
                    !.agent = a, !.rev = revision, !.seen = engine[c], !.seenBy = by[c]])
    /\ UNCHANGED <<credentialVars, revision, engine, by, base, mirror, route, policy,
                   decision, exec, version>>

policyAllows(p, r, phase) ==
    r.agent \in Allowed[p] /\ r.change \in Covers[p] /\ phase = "drafted"
\* Bound to the revisions the request read.
InForce(p, r) == policy[p].phase = "live" /\ policy[p].rev = r.rev

\* What the request does with the decision that policy p allows the Change.
\* One that is no longer a draft is authorized by that policy: Revalidates.
Proceed(h, p) ==
    Become(h, [req[h] EXCEPT !.pc = IF req[h].seen = "drafted" THEN "authorize" ELSE "mark",
                             !.who = p])

\* The query for the current policies, and the upsert of the decision, which
\* keeps an execution that is already recorded.
Decide(h) ==
    LET r == req[h]
        old == decision[r.change]
        queued == old # NoDecision /\ old.queued
        matching == {p \in Policies : InForce(p, r) /\ policyAllows(p, r, r.seen)}
        made(p) == [phase |-> "decided", automatic |-> p # Nobody, policy |-> p,
                    agent |-> r.agent, queued |-> queued]
    IN  \/ /\ matching = {}
           /\ decision' = [decision EXCEPT ![r.change] = made(Nobody)]
           /\ Finish(h)
        \/ \E p \in matching :
           /\ decision' = [decision EXCEPT ![r.change] = made(p)]
           /\ IF queued THEN Finish(h) ELSE Proceed(h, p)

\* A request that retries an undispatched decision revalidates its policy, and
\* that it was made for the same installation.
Revalidates(h) ==
    LET r == req[h]
        old == decision[r.change]
        candidate == IF r.seen = "authorized" /\ r.seenBy = old.policy THEN "drafted" ELSE r.seen
    IN  /\ InForce(old.policy, r) /\ old.agent = r.agent
        /\ policyAllows(old.policy, r, candidate)

\* EvaluateStandingPolicies.  A decision that exists is locked to the end of
\* the transaction; when there is none, another request may make one first.
EvaluateStandingPolicies(h) ==
    /\ At(h, "lookup")
    /\ LET old == decision[req[h].change]
       IN  \/ old = NoDecision /\ Goto(h, "upsert") /\ UNCHANGED decision
           \/ old # NoDecision /\ old.automatic /\ old.queued /\ Finish(h) /\ UNCHANGED decision
           \/ /\ old # NoDecision /\ old.automatic /\ ~old.queued /\ Revalidates(h)
              /\ Proceed(h, old.policy) /\ UNCHANGED decision
           \/ /\ old # NoDecision
              /\ old.automatic => ~old.queued /\ ~Revalidates(h)
              /\ Decide(h)
    /\ UNCHANGED <<credentialVars, revision, engine, by, base, mirror, route, policy,
                   exec, version>>
UpsertDecision(h) ==
    /\ At(h, "upsert")
    /\ Decide(h)
    /\ UNCHANGED <<credentialVars, revision, engine, by, base, mirror, route, policy,
                   exec, version>>

\* updatePolicyDecision writes the phase and the execution, or the lack of one.
UpdateDecision(h, pc, phase, queued, next) ==
    /\ At(h, pc)
    /\ decision' = [decision EXCEPT ![req[h].change].phase = phase,
                                    ![req[h].change].queued = queued]
    /\ IF next = "done" THEN Finish(h) ELSE Goto(h, next)
    /\ UNCHANGED <<credentialVars, revision, engine, by, base, mirror, route, policy,
                   exec, version>>
updatePolicyDecision(h) ==
    \/ UpdateDecision(h, "mark", "authorized", FALSE, "enqueue")
    \/ UpdateDecision(h, "queued", "queued", TRUE, "done")
    \/ UpdateDecision(h, "fail", "failed", FALSE, "done")

----------------------------------------------------------------------------
\* A request is cut off: the client is gone, or the process is.
Abandon(h) ==
    /\ "crash" \in env.faults /\ req[h] # Idle
    /\ Finish(h)
    /\ UNCHANGED <<credentialVars, revision, engine, by, base, mirror, route, policy,
                   decision, exec, version>>

\* The dispatcher has claimed the execution: see ExecutionLedger, ChangeEngine.
TakeUp(c) ==
    /\ exec[c] # Nobody /\ engine[c] = "authorized"
    /\ engine' = [engine EXCEPT ![c] = "applying"]
    /\ UNCHANGED <<credentialVars, revision, by, base, mirror, route, policy, decision,
                   exec, req, version>>

\* An installation's revocation, and a change of its grant, revoke its open
\* routes in the same transaction.
RevokingRoutes(agents) ==
    /\ route' = RevokedRoutes(agents)
    /\ version' = [a \in Agents |-> IF a \in agents THEN (version[a] + 1) % 3 ELSE version[a]]
    /\ UNCHANGED <<revision, engine, by, base, mirror, policy, decision, exec, req>>

Granting ==
    \/ \E a \in Agents : CommitRevocation(a) /\ RevokingRoutes({a})
    \/ \E a \in Agents, g \in env.grants, inherited \in BOOLEAN :
        UpdateAgentAuthority(a, g, inherited) /\ RevokingRoutes({a})
    \/ \E g \in env.grants : UpdateWorkspaceAgentAuthority(g) /\ RevokingRoutes(inherits)

Requesting(h) ==
    \/ \E m \in Humans, r \in Routes : ConsumeChangeApprovalCapability(h, m, r)
    \/ \E m \in Humans, c \in Changes : RequestAuthorize(h, m, c) \/ RequestApply(h, m, c)
    \/ \E a \in Agents, c \in Changes : RequestAutomatic(h, a, c) \/ RequestUnderPolicy(h, a, c)
Handling(h) ==
    \/ Inspected(h) \/ AuthorizeRead(h) \/ AuthorizePut(h) \/ RecordChange(h)
    \/ EnqueueExecution(h) \/ EnqueueFails(h) \/ RecordChangeApprovalExecution(h)
    \/ EvaluateStandingPolicies(h) \/ UpsertDecision(h) \/ updatePolicyDecision(h)
    \/ Abandon(h)

Next ==
    \/ (Connecting \/ Tokens \/ Sessions \/ Revoking) /\ UNCHANGED approvalVars
    \/ Granting
    \/ \E c \in Changes : DraftChange(c) \/ TakeUp(c)
    \/ PutSystem
    \/ \E a \in Agents, c \in Changes : CreateChangeApprovalCapability(a, c)
    \/ \E r \in Routes : RouteLapses(r)
    \/ \E p \in Policies : CreateStandingPolicy(p) \/ \E how \in {"revoked", "lapsed"} : PolicyEnds(p, how)
    \/ \E h \in Handlers : Requesting(h) \/ Handling(h)

Spec == ApprovalInit /\ [][Next]_vars

----------------------------------------------------------------------------
(***************************************************************************)
(* Properties.                                                             *)
(***************************************************************************)

\* A route that can still be followed was asked for under the grant that its
\* installation has now, and it is the only one of that installation to the
\* Change: grants, revocations and newer routes all end it.
RouteMatchesGrant ==
    \A r \in Routes : Consumable(r) =>
        /\ route[r].version = version[route[r].agent]
        /\ grant[route[r].agent] = "human-approval-required"
        /\ \A q \in Routes : /\ route[q].phase = "open"
                             /\ route[q].agent = route[r].agent
                             /\ route[q].change = route[r].change
                             => q = r

\* Only an authorized Change has an execution, whichever of the requests that
\* overlap made it; and a policy authorizes only Changes planned against the
\* revision it is bound to, although the revision may change at any moment.
QueuedWasAuthorized ==
    /\ \A c \in Changes : exec[c] # Nobody =>
          engine[c] \in {"authorized", "applying"} /\ by[c] # Nobody
    /\ \A c \in Changes : by[c] \in Policies =>
          policy[by[c]].rev = base[c] /\ c \in Covers[by[c]]

=============================================================================
