------------------------- MODULE InitialDeployment -------------------------
(***************************************************************************)
(* The governed first deployment of one System of a workspace: proposals   *)
(* (rows of initial_deployments), their executions (a second fenced queue, *)
(* one active row per proposal, a new row per retry), the spend            *)
(* reservation they share, and the dispatcher that works through the five  *)
(* operations of an execution, each with a durable receipt.                *)
(*                                                                         *)
(* A statement or transaction of the store is one step; a fence token is a *)
(* number never issued before.  A lease is live or lapsed: a healthy       *)
(* worker renews three times per lease, so that it lapses only when its    *)
(* holder died or stalled.  The host is what the deployment sees of        *)
(* ComputeLifecycle: a phase and an incarnation number.  Proposal          *)
(* documents are immutable, so that their digest checks always pass and    *)
(* are left out, as are artifact validation and the wording of evidence.   *)
(* One unit of spend is initialDeploymentReservationCents.                 *)
(***************************************************************************)
EXTENDS Naturals, FiniteSets

CONSTANTS Deployments,   \* proposals for the one System name
          Contracts,     \* System contracts
          Unsupported,   \* contracts with an unsupported compute class
          ContractOf,    \* ContractOf[d]: the contract proposal d plans
          MaxExecutions, \* bound: executions
          Workers,       \* dispatcher processes
          MaxRevision,   \* bound: workspace revisions
          MaxHosts,      \* bound: host incarnations
          Environments   \* what meets in a behaviour, and what goes wrong

NoDeployment == "no deployment"
NoExecution == 0
NoSystem == "no system"
Executions == 1..MaxExecutions

\* Proposals made before compute classes were checked.
Old(d) == ContractOf[d] \in Unsupported

Environment ==
    [deployments : SUBSET Deployments, workers : SUBSET Workers,
     executions : 1..MaxExecutions,
     requesters : SUBSET {"human", "agent"},  \* who asks for executions
     limit : Nat,          \* limit_cents, in units
     destroy : SUBSET {"failed", "running"},  \* proposal phases in which the host is destroyed
     paid : BOOLEAN,       \* what requireBillingPayment finds
     faults : SUBSET {"crash", "pause", "load", "engine", "host", "foreign", "billing"},
     once : SUBSET {"pause"},  \* faults that happen at most once
     left : Nat]           \* faults that may still happen

ASSUME ContractAssumption ==
    /\ Unsupported \subseteq Contracts
    /\ NoSystem \notin Contracts
    /\ ContractOf \in [Deployments -> Contracts]
    /\ Cardinality({d \in Deployments : Old(d)}) <= 1
    /\ NoDeployment \notin Deployments
ASSUME DeploymentBounds ==
    /\ MaxRevision \in Nat \ {0} /\ MaxHosts \in Nat \ {0} /\ MaxExecutions \in Nat
    /\ Environments \subseteq Environment

VARIABLES phase,        \* phase[d] of the proposal, "none" before its INSERT
          drafting,     \* drafting[d]: where a draft is, and the contract it saw
          planRevision, \* planRevision[d]: workspace revision it is bound to
          replaces,     \* replaces[d]: plan.ReplacesDeploymentID
          op,           \* op[d][o]: the receipt of operation o
          classFailed,  \* proposals whose bootstrap failed on its class
          system,       \* the contract registered under the name
          revision,     \* the workspace revision
          reserved,     \* proposals that own a usage reservation
          units,        \* reserved_cents of the workspace, in units
          ePhase, eOf, eBy, eToken,  \* the execution rows
          lapsed,       \* executions whose lease has run out
          issued,       \* fence tokens issued
          me,           \* me[w]: the local state of worker w
          host,         \* the System host: incarnation n and phase
          desired,      \* the proposal whose release is desired
          booted,       \* history: proposals that reached the provider
          strayed,      \* history: PutSystem was run by a worker without its claim
          env           \* the environment, with the faults left

proposals == <<phase, drafting, planRevision, replaces, op, classFailed>>
registry == <<system, revision>>
spend == <<reserved, units>>
rows == <<ePhase, eOf, eBy, eToken, lapsed, issued>>
runtime == <<host, desired, booted, strayed>>
vars == <<proposals, registry, spend, rows, me, runtime, env>>

Ops == 1..5    \* register, bootstrap, publish, wait healthy, verify
OpPhases == {"pending", "running", "succeeded", "failed"}
Phases == {"none", "drafted", "authorized", "queued", "running", "succeeded", "failed"}
HostPhases == {"none", "creating", "broken", "unexposed", "escalated", "ready", "destroyed"}
Outcomes == {"succeeded", "failed"}

Polling == [pc |-> "poll", exec |-> NoExecution, token |-> 0, o |-> 1, registered |-> {},
            rev |-> 0, replaced |-> {}, result |-> "failed"]

NotDrafting == [pc |-> "none", seen |-> NoSystem]

\* The proposal of this workspace that had failed on its class, if any.
Legacy == {d \in env.deployments : Old(d)}

Init ==
    /\ env \in Environments
    /\ phase = [d \in Deployments |-> IF d \in Legacy THEN "failed" ELSE "none"]
    /\ drafting = [d \in Deployments |-> NotDrafting]
    /\ planRevision = [d \in Deployments |-> 0]
    /\ replaces = [d \in Deployments |-> NoDeployment]
    /\ op = [d \in Deployments |-> [o \in Ops |->
               IF d \notin Legacy THEN "pending"
               ELSE CASE o = 1 -> "succeeded" [] o = 2 -> "failed" [] OTHER -> "pending"]]
    /\ classFailed = Legacy
    /\ system = IF Legacy = {} THEN NoSystem ELSE ContractOf[CHOOSE d \in Legacy : TRUE]
    /\ revision = Cardinality(Legacy)
    /\ reserved = Legacy
    /\ units = Cardinality(Legacy)
    /\ ePhase = [e \in Executions |-> "absent"]
    /\ eOf = [e \in Executions |-> NoDeployment]
    /\ eBy = [e \in Executions |-> "human"]
    /\ eToken = [e \in Executions |-> 0]
    /\ lapsed = {}
    /\ issued = 0
    /\ me = [w \in Workers |-> Polling]
    /\ host = [n |-> 0, phase |-> "none"]
    /\ desired = NoDeployment
    /\ booted = {}
    /\ strayed = FALSE

Fault(kind) ==
    /\ kind \in env.faults /\ env.left > 0
    /\ env' = [env EXCEPT !.left = @ - 1, !.faults = @ \ (env.once \cap {kind})]

(***************************************************************************)
(* Drafting and authorization.                                             *)
(***************************************************************************)

\* A proposal that stopped at class resolution, before any provider mutation.
failedBeforeRuntimeMutationForUnsupportedClass(d) ==
    /\ phase[d] = "failed"
    /\ op[d][1] = "succeeded"
    /\ ContractOf[d] \in Unsupported
    /\ op[d][2] = "failed" /\ d \in classFailed
    /\ \A o \in 3..5 : op[d][o] = "pending"

\* The proposals that may be replaced by another for the registered contract:
\* every other proposal must be one that provably never reached the runtime.
failedUnsupportedClassReplacementSource(excluded, existing) ==
    LET others == {d \in Deployments \ excluded : phase[d] # "none"}
    IN  IF \A d \in others : /\ failedBeforeRuntimeMutationForUnsupportedClass(d)
                             /\ ContractOf[d] = existing
        THEN others ELSE {}

DraftGo(d, pc, seen) == drafting' = [drafting EXCEPT ![d] = [pc |-> pc, seen |-> seen]]

\* DraftInitialDeployment reads the registered contract,
DraftReadSystem(d) ==
    /\ d \in env.deployments /\ phase[d] = "none" /\ drafting[d].pc = "none"
    /\ DraftGo(d, "check", system)
    /\ UNCHANGED <<phase, planRevision, replaces, op, classFailed, registry, spend, rows, me,
                   runtime, env>>

\* then the other proposals and, where that contract is the same, the runtime,
DraftCheck(d) ==
    LET seen == drafting[d].seen
        sources == failedUnsupportedClassReplacementSource({}, seen)
    IN  /\ drafting[d].pc = "check"
        /\ \/ /\ \/ seen = NoSystem
                 \/ /\ seen = ContractOf[d]
                    /\ host.phase = "none" /\ desired = NoDeployment
                    /\ \A x \in Deployments : phase[x] = "none"
              /\ DraftGo(d, "workspace", seen)
              /\ UNCHANGED replaces
           \/ /\ seen \notin {NoSystem, ContractOf[d]}
              /\ \E source \in sources : replaces' = [replaces EXCEPT ![d] = source]
              /\ DraftGo(d, "workspace", seen)
           \/ /\ \/ seen \notin {NoSystem, ContractOf[d]} /\ sources = {}
                 \/ /\ seen = ContractOf[d]
                    /\ \/ host.phase # "none" \/ desired # NoDeployment
                       \/ \E x \in Deployments : phase[x] # "none"
              /\ drafting' = [drafting EXCEPT ![d] = NotDrafting]
              /\ UNCHANGED replaces
        /\ UNCHANGED <<phase, planRevision, op, classFailed, registry, spend, rows, me,
                       runtime, env>>

\* then the workspace, to whose revision it binds the plan.
DraftReadWorkspace(d) ==
    /\ drafting[d].pc = "workspace"
    /\ planRevision' = [planRevision EXCEPT ![d] = revision]
    /\ DraftGo(d, "insert", NoSystem)
    /\ UNCHANGED <<phase, replaces, op, classFailed, registry, spend, rows, me, runtime, env>>

\* initial_deployments_active_system_idx: one proposal for the name that has
\* not failed.
NameFree(d) == \A x \in Deployments \ {d} : phase[x] \in {"none", "failed"}

\* A second one is a conflict.
CreateInitialDeployment(d) ==
    /\ drafting[d].pc = "insert"
    /\ drafting' = [drafting EXCEPT ![d] = NotDrafting]
    /\ IF NameFree(d)
       THEN phase' = [phase EXCEPT ![d] = "drafted"] /\ UNCHANGED replaces
       ELSE replaces' = [replaces EXCEPT ![d] = NoDeployment] /\ UNCHANGED phase
    /\ UNCHANGED <<planRevision, op, classFailed, registry, spend, rows, me, runtime, env>>

AuthorizeInitialDeployment(d) ==
    /\ phase[d] = "drafted"
    /\ revision = planRevision[d]
    /\ phase' = [phase EXCEPT ![d] = "authorized"]
    /\ UNCHANGED <<drafting, planRevision, replaces, op, classFailed, registry, spend, rows,
                   me, runtime, env>>

(***************************************************************************)
(* The queue of executions.                                                *)
(***************************************************************************)

Active(e) == ePhase[e] \in {"queued", "running"}

\* Mutant: a correction reserves on the strength of the plan it replaces.
reserveUnmoved(d) ==
    /\ reserved' = reserved \cup {d}
    /\ units' = IF d \in reserved \/ replaces[d] # NoDeployment THEN units ELSE units + 1
    /\ units' <= env.limit

\* A retry reuses its reservation, a correction takes over the one of the
\* proposal it replaces, anything else needs room under the cap.
reserveInitialDeploymentUsage(d) ==
    \/ d \in reserved /\ UNCHANGED spend
    \/ /\ d \notin reserved
       /\ replaces[d] \in reserved
       /\ reserved' = (reserved \ {replaces[d]}) \cup {d}
       /\ UNCHANGED units
    \/ /\ d \notin reserved
       /\ replaces[d] \notin reserved
       /\ units + 1 <= env.limit
       /\ reserved' = reserved \cup {d}
       /\ units' = units + 1

\* Mutant: a proposal may be queued while an execution of it is active.
EnqueueableAgain(d) == phase[d] # "none" /\ phase[d] # "drafted"

Enqueueable(d) ==
    /\ phase[d] \in {"authorized", "failed"}
    /\ ~\E e \in Executions : eOf[e] = d /\ Active(e)

\* A retry keeps the receipts of what succeeded.
RetryReceipts(d) == [o \in Ops |-> IF op[d][o] = "succeeded" THEN "succeeded" ELSE "pending"]

\* Payment is looked at first; a retry while another proposal for the name has
\* not failed violates the index.
EnqueueInitialDeployment(d, e, kind) ==
    /\ env.paid
    /\ Enqueueable(d)
    /\ NameFree(d)
    /\ e = Cardinality({x \in Executions : ePhase[x] # "absent"}) + 1
    /\ e <= env.executions
    /\ reserveInitialDeploymentUsage(d)
    /\ ePhase' = [ePhase EXCEPT ![e] = "queued"]
    /\ eOf' = [eOf EXCEPT ![e] = d]
    /\ eBy' = [eBy EXCEPT ![e] = kind]
    /\ op' = [op EXCEPT ![d] = RetryReceipts(d)]
    /\ classFailed' = classFailed \ {d}
    /\ phase' = [phase EXCEPT ![d] = "queued"]
    /\ UNCHANGED <<drafting, planRevision, replaces, registry, eToken, lapsed, issued, me,
                   runtime, env>>

\* Mutant: a running execution is never reclaimed.
ClaimableQueued(e) == ePhase[e] = "queued"

Claimable(e) == ePhase[e] = "queued" \/ (ePhase[e] = "running" /\ e \in lapsed)

ClaimInitialDeploymentExecution(w, e) ==
    /\ w \in env.workers /\ me[w].pc = "poll"
    /\ Claimable(e)
    /\ issued' = issued + 1
    /\ ePhase' = [ePhase EXCEPT ![e] = "running"]
    /\ eToken' = [eToken EXCEPT ![e] = issued + 1]
    /\ lapsed' = lapsed \ {e}
    /\ phase' = [phase EXCEPT ![eOf[e]] = "running"]
    /\ me' = [me EXCEPT ![w] = [Polling EXCEPT !.pc = "load", !.exec = e, !.token = issued + 1]]
    /\ UNCHANGED <<drafting, planRevision, replaces, op, classFailed, registry, spend, eOf, eBy,
                   runtime, env>>

\* The claim every fenced statement checks: running, this token, live lease.
lockActiveInitialExecution(w) ==
    /\ ePhase[me[w].exec] = "running"
    /\ eToken[me[w].exec] = me[w].token
    /\ me[w].exec \notin lapsed

Mine(w) == eOf[me[w].exec]

Go(w, pc) == me' = [me EXCEPT ![w].pc = pc]

\* The operation returned: its result is recorded next.
Return(w, result) == me' = [me EXCEPT ![w].pc = "finish", ![w].result = result]

\* execute returned an error.
Abort(w) == me' = [me EXCEPT ![w].pc = "complete", ![w].result = "failed"]

\* The next operation, or the end of execute.
Advance(w) ==
    me' = [me EXCEPT ![w].o = IF @ = 5 THEN 5 ELSE @ + 1,
                     ![w].pc = CASE me[w].o = 1 -> "status" [] me[w].o = 5 -> "complete"
                                 [] OTHER -> "begin",
                     ![w].result = "succeeded"]

\* Losing the claim makes Complete fail, and the dispatcher process with it:
\* it starts again from polling.
CompleteInitialDeploymentExecution(w) ==
    /\ me[w].pc = "complete"
    /\ IF lockActiveInitialExecution(w)
       THEN /\ ePhase' = [ePhase EXCEPT ![me[w].exec] = me[w].result]
            /\ phase' = [phase EXCEPT ![Mine(w)] = me[w].result]
       ELSE UNCHANGED <<ePhase, phase>>
    /\ me' = [me EXCEPT ![w] = Polling]
    /\ UNCHANGED <<drafting, planRevision, replaces, op, classFailed, registry, spend, eOf, eBy,
                   eToken, lapsed, issued, runtime, env>>

(***************************************************************************)
(* execute: what it reads before the first operation.                      *)
(***************************************************************************)

\* Billing, the proposal and its artifact; an error ends the attempt.
LoadDeployment(w) ==
    /\ me[w].pc = "load"
    /\ \/ /\ env.paid
          /\ me' = [me EXCEPT ![w].pc = "workspace",
                              ![w].registered = {d \in {Mine(w)} : op[d][1] = "succeeded"}]
          /\ UNCHANGED env
       \/ ~env.paid /\ Abort(w) /\ UNCHANGED env
       \/ Fault("load") /\ Abort(w)
    /\ UNCHANGED <<proposals, registry, spend, rows, runtime>>

LoadWorkspace(w) ==
    /\ me[w].pc = "workspace"
    /\ me' = [me EXCEPT ![w].pc = "system", ![w].rev = revision]
    /\ UNCHANGED <<proposals, registry, spend, rows, runtime, env>>

initialDeploymentWorkspaceRevisionValid(w) ==
    \/ me[w].rev = planRevision[Mine(w)]
    \/ system = ContractOf[Mine(w)] /\ me[w].registered # {}

\* Mutant: any plan that names a source may replace the contract.
ReplacementAllowedByPlan(w) == replaces[Mine(w)] # NoDeployment

ReplacementAllowed(w) ==
    replaces[Mine(w)] \in failedUnsupportedClassReplacementSource({Mine(w)}, system)

CheckSystem(w) ==
    LET other == system \notin {NoSystem, ContractOf[Mine(w)]}
    IN  /\ me[w].pc = "system"
        /\ IF /\ other => ReplacementAllowed(w)
              /\ initialDeploymentWorkspaceRevisionValid(w)
           THEN me' = [me EXCEPT ![w].pc = "begin", ![w].replaced = IF other THEN {system} ELSE {}]
           ELSE Abort(w)
        /\ UNCHANGED <<proposals, registry, spend, rows, runtime, env>>

(***************************************************************************)
(* The five operations.                                                    *)
(***************************************************************************)

BeginInitialDeploymentOperation(w) ==
    /\ me[w].pc = "begin"
    /\ IF ~lockActiveInitialExecution(w)
       THEN Abort(w) /\ UNCHANGED op
       ELSE IF op[Mine(w)][me[w].o] = "succeeded"
       THEN Advance(w) /\ UNCHANGED op
       ELSE /\ op' = [op EXCEPT ![Mine(w)][me[w].o] = "running"]
            /\ Go(w, "run")
    /\ UNCHANGED <<phase, drafting, planRevision, replaces, classFailed, registry, spend, rows,
                   runtime, env>>

FinishInitialDeploymentOperation(w) ==
    /\ me[w].pc = "finish"
    /\ IF lockActiveInitialExecution(w)
       THEN /\ op' = [op EXCEPT ![Mine(w)][me[w].o] = me[w].result]
            /\ classFailed' = IF /\ me[w].o = 2 /\ me[w].result = "failed"
                                 /\ ContractOf[Mine(w)] \in Unsupported
                              THEN classFailed \cup {Mine(w)} ELSE classFailed
            /\ IF me[w].result = "succeeded" THEN Advance(w) ELSE Abort(w)
       ELSE Abort(w) /\ UNCHANGED <<op, classFailed>>
    /\ UNCHANGED <<phase, drafting, planRevision, replaces, registry, spend, rows, runtime, env>>

\* 01: the contract is read again, and written only where that is allowed.
RegisterRead(w) ==
    /\ me[w].pc = "run" /\ me[w].o = 1
    /\ \/ system = ContractOf[Mine(w)] /\ Return(w, "succeeded")
       \/ system = NoSystem /\ Go(w, "put")
       \/ /\ system \notin {NoSystem, ContractOf[Mine(w)]}
          /\ IF me[w].replaced # {} THEN Go(w, "put") ELSE Return(w, "failed")
    /\ UNCHANGED <<proposals, registry, spend, rows, runtime, env>>

\* PutSystem overwrites the contract.  (It refuses an unsupported class; the
\* legacy proposal has its receipt and does not come here.)  It then counts the
\* workspace revision up in a second statement whose failure is ignored.
PutSystem(w) ==
    /\ me[w].pc = "put"
    /\ system' = ContractOf[Mine(w)]
    /\ \/ /\ revision < MaxRevision
          /\ revision' = revision + 1
          /\ UNCHANGED env
       \/ Fault("engine") /\ UNCHANGED revision
    /\ Return(w, "succeeded")
    /\ strayed' = (strayed \/ ~lockActiveInitialExecution(w))
    /\ UNCHANGED <<proposals, spend, rows, host, desired, booted>>

priorFailed(e) == \E x \in Executions \ {e} : eOf[x] = eOf[e] /\ ePhase[x] = "failed"

Reopenable(w) == eBy[me[w].exec] = "human" /\ priorFailed(me[w].exec)

\* SystemHostStatus before operation 02: a destroyed host leads to Reopen.
CheckDestroyed(w) ==
    /\ me[w].pc = "status"
    /\ Go(w, IF host.phase = "destroyed" THEN "reopen" ELSE "begin")
    /\ UNCHANGED <<proposals, registry, spend, rows, runtime, env>>

ReopenDestroyedInitialDeploymentHost(w) ==
    /\ me[w].pc = "reopen"
    /\ IF lockActiveInitialExecution(w) /\ Reopenable(w)
       THEN /\ op' = IF op[Mine(w)][2] = "succeeded"
                     THEN [op EXCEPT ![Mine(w)][2] = "pending"] ELSE op
            /\ Go(w, "begin")
       ELSE Abort(w) /\ UNCHANGED op
    /\ UNCHANGED <<phase, drafting, planRevision, replaces, classFailed, registry, spend, rows,
                   runtime, env>>

\* Mutant: live state is not looked at.
HostVacantAlways == TRUE

HostVacant == host.phase \in {"none", "creating", "destroyed"}

\* 02: what the host's status calls for.
BootstrapStatus(w) ==
    /\ me[w].pc = "run" /\ me[w].o = 2
    /\ \/ host.phase = "ready" /\ Return(w, "succeeded")
       \/ host.phase = "unexposed" /\ Go(w, "expose")
       \/ host.phase = "escalated" /\ priorFailed(me[w].exec) /\ Go(w, "recover")
       \/ host.phase = "escalated" /\ ~priorFailed(me[w].exec) /\ Return(w, "failed")
       \/ host.phase = "broken" /\ Return(w, "failed")
       \/ HostVacant /\ Go(w, "bootstrap")
    /\ UNCHANGED <<proposals, registry, spend, rows, runtime, env>>

\* Apply refuses a host that has live state, resolves the class before it
\* writes its intent, and leaves the host anywhere on its way when it fails
\* or when a lost claim cancels it.
BootstrapSystemHostViaGateway(w) ==
    /\ me[w].pc = "bootstrap"
    /\ IF HostVacant /\ ContractOf[Mine(w)] \notin Unsupported
       THEN /\ \E reached \in {"creating", "broken", "unexposed", "escalated", "ready"} :
                 /\ host' = [n |-> IF host.phase = "creating" THEN host.n ELSE host.n + 1,
                             phase |-> reached]
                 /\ IF reached = "ready" THEN Return(w, "succeeded") /\ UNCHANGED env
                    ELSE /\ Return(w, "failed")
                         /\ Fault("host") \/ (~lockActiveInitialExecution(w) /\ UNCHANGED env)
            /\ booted' = booted \cup {Mine(w)}
       ELSE Return(w, "failed") /\ UNCHANGED <<host, booted, env>>
    /\ UNCHANGED <<proposals, registry, spend, rows, desired, strayed>>

\* ExposeSystemHost, or RecoverSystemHostExposure of an escalated intent.
ExposeSystemHost(w) ==
    /\ me[w].pc \in {"expose", "recover"}
    /\ IF host.phase = (IF me[w].pc = "expose" THEN "unexposed" ELSE "escalated")
       THEN \/ host' = [host EXCEPT !.phase = "ready"] /\ Return(w, "succeeded") /\ UNCHANGED env
            \/ host' = [host EXCEPT !.phase = "escalated"] /\ Return(w, "failed") /\ Fault("host")
       ELSE Return(w, IF host.phase = "ready" THEN "succeeded" ELSE "failed") /\ UNCHANGED <<host, env>>
    /\ UNCHANGED <<proposals, registry, spend, rows, desired, booted, strayed>>

\* 03: the staged artifact is hashed again and becomes the desired release.
PublishStagedRelease(w) ==
    /\ me[w].pc = "run" /\ me[w].o = 3
    /\ \/ desired' = Mine(w) /\ Return(w, "succeeded") /\ UNCHANGED env
       \/ Fault("engine") /\ Return(w, "failed") /\ UNCHANGED desired
    /\ UNCHANGED <<proposals, registry, spend, rows, host, booted, strayed>>

\* The release runs once the host is ready.
Serving == host.phase = "ready" /\ desired # NoDeployment

\* 04: until the endpoint is public, or WaitTimeout.
waitPublicEndpoint(w) ==
    /\ me[w].pc = "run" /\ me[w].o = 4
    /\ \/ Serving /\ Return(w, "succeeded") /\ UNCHANGED env
       \/ ~Serving /\ Return(w, "failed") /\ UNCHANGED env
       \/ Fault("engine") /\ Return(w, "failed")
    /\ UNCHANGED <<proposals, registry, spend, rows, runtime>>

\* 05: the approved public verification.
VerifyPublicEndpoint(w) ==
    /\ me[w].pc = "run" /\ me[w].o = 5
    /\ \/ Serving /\ Return(w, "succeeded") /\ UNCHANGED env
       \/ ~Serving /\ Return(w, "failed") /\ UNCHANGED env
       \/ Fault("engine") /\ Return(w, "failed")
    /\ UNCHANGED <<proposals, registry, spend, rows, runtime>>

(***************************************************************************)
(* The environment.                                                        *)
(***************************************************************************)

Crash(w) ==
    /\ me[w].pc # "poll"
    /\ Fault("crash")
    /\ me' = [me EXCEPT ![w] = Polling]
    /\ UNCHANGED <<proposals, registry, spend, rows, runtime>>

\* The lease of a dead holder runs out; a stalled one's does too.
LeaseExpires(e) ==
    /\ ePhase[e] = "running" /\ e \notin lapsed
    /\ IF \E w \in Workers : me[w].exec = e /\ me[w].token = eToken[e]
       THEN Fault("pause") ELSE UNCHANGED env
    /\ lapsed' = lapsed \cup {e}
    /\ UNCHANGED <<proposals, registry, spend, ePhase, eOf, eBy, eToken, issued, me, runtime>>

\* The renewal found no row, or failed, and cancelled the context.  A call in
\* progress fails and is recorded so; anything else ends the attempt.
RenewCancels(w) ==
    /\ me[w].pc \notin {"poll", "complete"}
    /\ me[w].pc = "finish" => me[w].result = "succeeded"
    /\ (~lockActiveInitialExecution(w) /\ UNCHANGED env) \/ Fault("engine")
    /\ IF me[w].pc \in {"run", "put", "bootstrap", "expose", "recover"}
       THEN Return(w, "failed") ELSE Abort(w)
    /\ UNCHANGED <<proposals, registry, spend, rows, runtime>>

\* What the workspace pays, or owes, changes.
PaymentChanges ==
    /\ "billing" \in env.faults /\ env.left > 0
    /\ env' = [env EXCEPT !.left = @ - 1, !.paid = ~@]
    /\ UNCHANGED <<proposals, registry, spend, rows, me, runtime>>

\* An operator destroys the host.
DestroySystemHost ==
    /\ host.phase \notin {"none", "destroyed"} /\ host.n < MaxHosts
    /\ \E d \in Deployments : phase[d] \in env.destroy
    /\ host' = [host EXCEPT !.phase = "destroyed"]
    /\ UNCHANGED <<proposals, registry, spend, rows, me, desired, booted, strayed, env>>

\* A System of the workspace is registered by hand: another one, or this one.
RegisterByHand ==
    /\ Fault("foreign")
    /\ revision < MaxRevision
    /\ revision' = revision + 1
    /\ system' \in {system} \cup (Contracts \ Unsupported)
    /\ UNCHANGED <<proposals, spend, rows, me, runtime>>

WorkerStep(w) ==
    \/ \E e \in Executions : ClaimInitialDeploymentExecution(w, e)
    \/ LoadDeployment(w) \/ LoadWorkspace(w) \/ CheckSystem(w)
    \/ BeginInitialDeploymentOperation(w) \/ FinishInitialDeploymentOperation(w)
    \/ RegisterRead(w) \/ PutSystem(w)
    \/ CheckDestroyed(w) \/ ReopenDestroyedInitialDeploymentHost(w)
    \/ BootstrapStatus(w) \/ BootstrapSystemHostViaGateway(w) \/ ExposeSystemHost(w)
    \/ PublishStagedRelease(w) \/ waitPublicEndpoint(w) \/ VerifyPublicEndpoint(w)
    \/ CompleteInitialDeploymentExecution(w)

Next ==
    \/ \E d \in Deployments :
         \/ DraftReadSystem(d) \/ DraftCheck(d) \/ DraftReadWorkspace(d)
         \/ CreateInitialDeployment(d) \/ AuthorizeInitialDeployment(d)
         \/ \E e \in Executions, kind \in env.requesters : EnqueueInitialDeployment(d, e, kind)
    \/ \E w \in Workers : WorkerStep(w) \/ Crash(w) \/ RenewCancels(w)
    \/ \E e \in Executions : LeaseExpires(e)
    \/ DestroySystemHost
    \/ RegisterByHand
    \/ PaymentChanges

Spec == Init /\ [][Next]_vars

\* Workers poll and work on; leases of the dead run out.
FairSpec ==
    /\ Spec
    /\ \A w \in Workers : WF_vars(WorkerStep(w))
    /\ \A e \in Executions : WF_vars(LeaseExpires(e))

(***************************************************************************)
(* Properties.                                                             *)
(***************************************************************************)

\* Each proposal has at most one active execution, and its phase says which:
\* queued or running exactly as that execution is.  A proposal whose phase
\* ran ahead of its queue could neither be retried nor ever finish
\* (EnqueueInitialDeployment, Claim, Complete).  One that succeeded holds all
\* five receipts, even if the host was reopened meanwhile (lockActive...).
PhaseFollowsExecution ==
    \A d \in Deployments :
        LET active == {e \in Executions : eOf[e] = d /\ Active(e)}
        IN  /\ Cardinality(active) <= 1
            /\ \A e \in active : phase[d] = ePhase[e]
            /\ active = {} => phase[d] \notin {"queued", "running"}
            /\ phase[d] = "succeeded" => \A o \in Ops : op[d][o] = "succeeded"

\* The spend guard: every proposal that may reach the provider owns a
\* reservation, and the workspace total is what the reservations add up to,
\* within the cap, through retries, take-overs and concurrent requests.  (A
\* legacy proposal may lose its reservation to a correction while it is
\* retried; its class keeps it from the provider.)
SpendIsReserved ==
    /\ \A d \in Deployments \ Legacy : phase[d] \in {"queued", "running"} => d \in reserved
    /\ booted \subseteq reserved
    /\ units = Cardinality(reserved)
    /\ units <= env.limit

\* The exact approved contract is registered from the moment its receipt is
\* written for as long as the proposal is active or has succeeded: no other
\* proposal for the name replaces it (execute, 01-register-system).  Two things
\* can, and are left out: a registration by hand, and a worker that stalled
\* between reading the contract and PutSystem, which is not fenced (strayed).
ApprovedContractStands ==
    "foreign" \notin env.faults /\ ~strayed =>
        \A d \in Deployments \ Legacy :
            (op[d][1] = "succeeded" /\ phase[d] \in {"queued", "running", "succeeded"})
                => system = ContractOf[d]

\* An operation that has its receipt has no further effect: what a stalled
\* worker still does for it after another one took over and recorded it
\* leaves the registry, the host and the desired release as they are
\* (BeginInitialDeploymentOperation and the checks inside each operation).
\* The exception is a host that was destroyed since the receipt: a worker that
\* had begun the bootstrap before, and stalled, creates it again.
ReceiptedWorkIsNotRepeated ==
    [][\A w \in Workers :
         (desired' # desired \/ host'.n # host.n \/ system' # system)
            /\ me'[w].pc = "finish" /\ me[w].pc # "finish"
            => \/ op[Mine(w)][me[w].o] # "succeeded"
               \/ /\ me[w].o = 2 /\ host.phase = "destroyed"
                  /\ ~lockActiveInitialExecution(w)]_vars

\* Every queued execution reaches an outcome.
QueuedSettles ==
    \A e \in Executions : ePhase[e] = "queued" ~> ePhase[e] \in Outcomes
=============================================================================
