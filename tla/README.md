# Canter: verification project

Canter is a hosting control plane operated by people and agents. A *System* is
a contract for an application and its host. Everything that changes a System
goes through durable objects: rows of the control plane's PostgreSQL database,
and JSON objects in the m1 object store, written with compare-and-swap. Many
processes work on them and any of them may die, stall or be late: dispatchers,
CLIs, agents, the node agent on the host, people with a console.

This directory holds TLA+ modules translated from that code, the TLC
configurations that check them, and TLAPS proofs. `PROJECT.json` maps every
definition to the lines it models.

## The system and its parts

| part | code | durable state | operations | module |
|---|---|---|---|---|
| execution ledger | `internal/controlplane/ledger.go`, `service.go` (Dispatcher) | `executions` rows: phase, claimant, fence token, lease | enqueue, claim, renew, complete | `ExecutionLedger`, `FencedJob`, `ExecutionLedgerProofs` |
| system host lifecycle | `sdk/client.go`, `sdk/release.go` (exposure), `internal/provider/compute` | `state.json` in m1; servers and security groups at the provider | apply, expose, recover, destroy and their late cleanups | `ComputeLifecycle` |
| change engine | `sdk/change.go`, `sdk/node_gateway.go`, `cmd/canter-node/main.go` | Change objects, execution lease, desired and observed release, runtime-action slot in m1 | draft, authorize, apply, compensate; node snapshot, action, reconcile | `ChangeEngine` |
| initial deployment | `internal/controlplane/initial_deployment*.go` | proposals, their executions, operation receipts, usage reservations | draft, authorize, enqueue, claim, renew, the five operations, complete | `InitialDeployment` |
| node runtime | `cmd/canter-node/main.go` | processes, ports, targets on the node | reconcile, start, drain, stop, applied controls | `NodeRuntime`; its actions and reports also in `ChangeEngine` |
| node enrollment, release requests | `node_gateway_store.go`, `sdk/node_gateway.go`, `sdk/release.go` | enrollments, node credentials; desired release, control, acknowledgement | enroll, exchange, resolve, revoke, publish, roll back, restart | `NodeGateway` |
| approvals, standing policies | `approval_capability_store.go`, `standing_policy.go`, `service.go` | one-use routes, policies and their decisions, the mirror of the Changes | create, consume, authorize, evaluate, enqueue | `ChangeApproval` |
| agent credentials | `store.go`, `agent_*.go` | devices, pairings, installations, credential families, sessions, workers | pair, exchange, refresh, revoke, disconnect, set authority | `AgentCredentials` |
| hosted operator | `operator_runtime.go`, `operator_store.go`, `operator_*.go` | runs with lease and checkpoint, tool calls and results, scratch files | enqueue, claim, checkpoint, tool calls, finish, cancel | `OperatorRuns` |
| agent tasks | `workspace_activity.go` | tasks | create, claim, finish | `WorkspaceTasks` |
| accounts, sign-in, OAuth | `auth_http.go`, `auth_factors.go`, `auth_passkeys.go`, `auth_security.go`, `oauth.go`, `oauth_store.go`, `store.go` | accounts, factors, passkeys, identities, sessions, challenges | sign up, sign in, link, reset, change credentials, sign out | `AccountAuth` |
| account mail | `auth_mail.go` | outbox, suppressions | queue, deliver, bounce, maintain | `AuthMail` |
| billing | `billing*.go` | billing row, samples, usage events; subscriptions and checkouts at the provider | checkout, plan change, webhook, collect, dispatch | `WorkspaceBilling`, `UsageMetering` |
| VPS | `vps.go`, `sdk/vps.go` | VPS rows, reservations; the host's record in m1 | draft, approve, reconcile, delete, expire | `VPSRequests` |
| account deletion, artifacts | `auth_account_deletion.go`, `account_deletion_store.go`, uploads of `initial_deployment*.go` | workspaces, members, artifacts and their erasure queue | start, cancel, finish; upload; erase | `AccountDeletion` |
| GitHub connection, secrets, front ends | `github_*.go`, `http.go`, `mcp.go`, ... | | | not modelled, see `PROJECT.json` |

How they interact. A person or an agent drafts and authorizes a Change; the
ledger queues one execution per Change; a dispatcher that claims it calls
ApplyChange, which takes the System's execution lease, writes desired state and
waits for the node's reports. The node polls the gateway for a snapshot and
posts what it observes. The first deployment has a queue of its own, whose
worker registers the System, bootstraps the host through the compute lifecycle,
publishes a release and verifies it. People sign in with several kinds of proof;
what they own (a workspace with its billing, its virtual servers and its
artifacts) decides whether they may delete their account, and the deletion
leaves work to loops that run on after it.

What is hard here, and what the properties are about:

- fencing: a claimant that stalled past its lease, or died and came back under
  the same worker id, meets its successor;
- a durable intent is written, the provider is called, the result is recorded:
  replies are lost, resources become visible late, processes die in between;
- state is read before a lease is taken or a call is made, and used after;
- a Destroy, an operator's recovery or a correction overlaps work in progress;
- a retry must neither lose nor repeat what was done;
- a proof is checked in one transaction and relied on in the next, while the
  credential behind it is replaced;
- events of the payment provider come late, twice or out of order.

## Conventions

A database statement or transaction is one step. A read followed by a
compare-and-swap on what was read is one step too: it takes effect only if
nothing changed in between. Two store requests in a row, a store request and a
provider call, are separate steps. Random tokens are numbers never issued
before. Leases are a countdown in `ExecutionLedger`, and *live* or *lapsed*
elsewhere. Documents are immutable, so that digest checks are left out, as are
wording, formatting and evidence.

Faults have kinds and a shared budget. Who takes part and what may go wrong is
an *environment*, a record chosen in `Init` from the constant `Environments`
and kept in the variable `env`; a run checks the union of a few environments,
each small enough to be explored completely and aimed at one kind of trouble.
The environments are defined, with a comment each, in the MC modules. In the
modules on accounts, billing and servers (which extend `Scenario`) an
environment is a *scenario*, which also says which rows there are at first and
which operations happen.

An operator commented as a mutant states a plausible bug next to the definition
it stands for. No specification uses it: putting it in that definition's place
breaks a property, which shows that the property depends on the code.

## The modules

**ExecutionLedger** (with `MCExecutionLedger`). `row[e]` is the executions row
of Change `e`, `proc[w]` a dispatcher. A statement of `ledger.go` takes two steps:
it is composed (`SendClaim`, `SendRenewal`, `SendCompletion`), with the time that
the process reads before it sends the UPDATE, and later it runs
(`ClaimExecution`, `RenewExecution`, `CompleteExecution`), or is lost. `sent` holds
the statements on their way, each with its `age`, so that the lease is compared
with a time that may be past. `RenewalError` and `FinishWork` are the two ends of
`runOne`. Two dispatchers on one host share a worker id. `CompleteExecution`'s
ignored database error is a crash at that point: the process goes on polling
without the row. Clocks of different processes agree; what differs is how long a
statement is under way, at most `MaxDelay`.
`FencedJob` is what the queue promises: a job is queued, attempted any number of
times, and finished once, by its latest attempt. `ExecutionLedger` implements it
with its rows as attempts.

**ComputeLifecycle**. `st` is `state.json` with its creation and exposure
intents, `me[p].snap` the copy a client works with, `server` and `policy` what
the provider has. Provider requests take effect when issued; their replies may
be lost, and what they made may be listed only later (`Appear`). `Apply` and
`Destroy` are split where the code writes `state.json` or calls the provider.
`RecoveryMeetsDestroy` says that a recovery of the exposure and a Destroy take part
in the same behaviour: two properties say what is lost then.

**ChangeEngine**. `stored` are the Change objects, `lease` the System's
execution lease, `action` the single runtime-action slot, `node` the node's
memory between two requests. `ApplyChange` is split at each save. Every request
and every poll may fail, and the dispatcher cancels the context of an applier
whose claim it cannot renew; the path each error takes, compensation on a
context of its own included, is followed. The dispatcher records an execution
whose ApplyChange returned an error as failed (`failed`) and does not take it up
again; only one that crashed is dispatched anew (`Dispatch`). `caught` are the
tokens of appliers that went past their last assertion of the lease before it
lapsed. A PUT whose answer was lost has taken effect at once or never. Temporary
capacity is left out; PublishRelease, RollbackRelease and RestartRelease are in
`NodeGateway`.

**NodeGateway**. `current` is the enrollment row, `consumed` and `expired` its
state, `live` and `revoked` the node credentials, `given` and `held` what hosts
were booted with and obtained. `desired`, `control` and `ack` are the objects in
m1 that the node follows.

**NodeRuntime** extends it with the process of `canter-node` on each host:
`me[h]` is its memory and its place in the reconcile loop, `proc` the replicas
with their ports, `targets` the routes of the proxy, `reqs` requests in flight
with the replica they are counted on, `observed` the report in m1. A round of
the loop is split where it calls the gateway, starts a process, moves the
routes, waits for requests to drain or stops a replica; requests come and go and
replicas exit in between. A report equal to the last one is not sent
(`SuppressReport`) until 30 seconds have passed.

**InitialDeployment**. One System name; several proposals for it. `phase`, `op`
and `replaces` are the proposal rows, `ePhase`, `eOf`, `eBy`, `eToken` the
executions, `reserved` and `units` the usage guard. The host is what the
deployment sees of `ComputeLifecycle`: a phase and an incarnation. One proposal of
a System may be under way (the unique index of migration 010), and the
requirement that billing can be paid is checked where the code does. A draft
reads the registered contract, the other proposals and the workspace one after
the other.
Reservations are never released by this code, and the model has no action for it.

**AgentCredentials**. Devices and pairings lead to installations; an
installation has families of credentials, each rotated by its child, with a
session per credential and workers under a session. A serializable or fully
locking transaction is one step. Token issue reads the installation without a
lock and revocation works under READ COMMITTED, so that each of the two is a
begin and a commit that other steps may come between. `Lapse` and its variants
let expiry times pass.

**ChangeApproval** extends it with one object per Change in m1 (`engine`, `by`,
`base`), its mirror in PostgreSQL, approval routes, standing policies and their
decisions. A request `req[h]` walks through the calls of its handler, and may
be abandoned after each. What an envelope compares is the set of agents it
names; the Changes of the model are within it.

**WorkspaceTasks** has the tasks that external agents take up: `tasks` by id,
`revoked` the temporary agents whose task is finished.

**OperatorRuns** extends it with the runs of one conversation. `order`, `status`,
`saved`, `steps` and `lease` are the columns of `operator_runs`, `started` and
`results` the tool calls, `scratch` the files that commands leave, `done` the
writes that really happened. A worker `me[w]` walks through `work` and
`executeTool` one statement at a time, with a copy of the messages that it took
when it claimed the run.

**AccountAuth** extends **AuthMail**, the outbox. Tables are sequences of rows:
`acct` (with authenticator and recovery codes), `sess`, `chal`, `login`; `key`
and `ident` say whose a passkey or a provider's identity is. A request `req[q]`
is split where its handler leaves one transaction or pool query and enters the
next, and carries the account's version from one to the other. `Abandon` is
enabled at each point, so that the steps describe transactions that commit.
`basis` in a session is history: the credential the sign-in rested on. The
revocation of the browser's previous session, a statement after the commit, is
merged with the commit or does not happen. A confirmation of the session reads
whether there is a second factor before it waits for the account's row
(`authAccountTx`), and decides on what it read.

**WorkspaceBilling**. `bill` is the row, `sub` and `ck` what the provider has,
`due` the events it has not seen accepted. The row's lock is held across calls
to the provider (`hold`), which moves on meanwhile. A failed call is a
`Rollback` before or after it took effect.

**VPSRequests** extends it with `vm` (rows), `rsv` and `reserved` (spend),
`host` and `job` (dispatchers). A dispatcher's advisory lock goes with its
connection, while the dispatcher goes on. `host[v]` is the record in m1 with the
phases of its resource and of its exposure, and what became of the server; the
steps of `ComputeLifecycle` that leave record and provider apart are steps here
too: an attempt is recorded before the create, and a server is deleted, and then
gone, before the record says so. A dispatcher may stop at each of them, and a
Destroy that cannot account for the server escalates.

**UsageMetering** extends that with collectors (`looker`), `usage` events and
the loops that send them (`sender`). Ticks are named, not counted, so that a
moment that is charged twice can be seen. A look has the periods of its stamp
and is refused when the row has others by the time it is recorded. `off` are the
ticks while billing was not active, `spanned` those of them that ended between
the stamp and the record of a look.

**AccountDeletion** extends `AccountAuth` and `UsageMetering` with workspaces,
uploads and the erasure queue. The transaction that deletes an account waits
for whoever holds a row it locks; these waits are guards. An erasure that timed
out may be carried out later (`late`); `skipped` are the artifacts whose queue row
a deletion found held by an erasure that then removed it.

## The runs

| run | what it shows |
|---|---|
| `ledger` | One execution, two dispatchers with one worker id, leases and delays of two ticks, three faults. Only the latest claim completes a row, a lease ends one lease duration after its holder last asked for it however late a renewal runs, the queue implements `FencedJob`, and every queued execution reaches an outcome. |
| `compute` | Five environments: two appliers and a destroyer; two exposers and a destroyer; an operator's recovery; a recovery that meets a Destroy; no faults. One replica, two networks, two creation intents. No server outlives a Destroy that reported success and no replica is created twice, whoever takes part; no security group outlives it and `ready` means the servers run with their policy attached, unless a recovery met a Destroy; a destroyed state is not written by late work, which deletes nothing another operation made. |
| `compute_interrupted` | Violation: a Destroy that is interrupted between deleting a server and recording it can never complete. |
| `change` | Eight environments with one applier that dies, times out, is cancelled, or whose reads, writes and polls fail; releases with and without migration, scales, and a mix. Rejected and reverted mean what they say but for the cases listed below, scales keep the release, and every authorized Change settles or its execution is recorded failed. |
| `change_pair` | Two appliers and two Changes, one of which dies, stalls past its lease or is cancelled: desired state has one writer at a time, but for a single PUT by an applier that stalled right before it, and committed means the program ran. |
| `change_replay` | Violation: an applier that read the Change before another committed it re-executes it. |
| `deploy` | Five environments: two proposals with crashes, lapsed payment and registrations by hand; stalled workers and a destroyed host; a stalled worker while two proposals take turns; two corrections of a legacy failure; a host destroyed under a running deployment. Queue and proposal agree, spend stays under the cap, the approved contract stands, a success has all its receipts, recorded work is not repeated (both but for a worker that stalled in the wrong place), every execution settles. |
| `access` | Six environments: connection by device and by pairing, agents asking for routes while grants change, routes while requests die, members applying by hand, requests under a policy while the System is registered again. A refresh family never forks and a replay ends it, revocation and cancellation cut everything off, an approval route is followed only under the grant it was asked under, and only authorized Changes are queued, under a policy only plans of the revision it was made for. |
| `node` | Four environments: two hosts that enroll one after the other; requests during a rollout; launches that fail, replicas that exit, expired capacity; lost calls and crashes. The host enrolled last is the node, a replica is stopped only when its requests are over, a failed rollout keeps what served, the node settles on the desired release and reports it, an accepted restart happens. |
| `operator` | Six environments: writes, queued tasks and shell commands around crashes, stalls and stops; three messages in the inbox; every way for a run to end. A superseded or stopped worker takes nothing back, an uncertain write is not repeated, a retried task request leaves the task alone, every message gets its turn. |
| `tenancy` | Nineteen scenarios of accounts, billing, servers, metering and deletion, two of every racing party. A session rests on a credential the account still has; with a second factor, on a strong proof; a proof is accepted once; an unproven password does not survive the owner's proof; the billing row says what the provider says once events are handled; a removed server leaves no server, record or spend, and removals end or escalate; no moment is charged twice, none while billing was off unless a look spanned it, and no event is metered twice; an artifact is stored while referenced and otherwise erased or queued, but for two races of its erasure. |
| `billing_twice` | Violation: the late event of a cancelled subscription clears the checkout opened after it, a second one is opened, and both are paid. |

Bounds. Two of each racing party are enough for every property stated of a pair
(a claim and its successor, an intent and its late cleanup, a Change and the
next one); a second creation intent or a second host incarnation is what a late
step can damage. Two or three faults let a recovery itself be disturbed.

Exceptions. Some promises do not hold in every environment. Each run keeps the
environment in which its property would fail, and the property names the case,
in its comment and in its formula: without the exception TLC finds a violation.

| property | what is excepted, and where the code lets it happen |
|---|---|
| `DestroyedLeavesNothing`, `OneServerPerReplica` | a recovery of the exposure that completes after a Destroy writes `ready`, or leaves its group behind (`sdk/release.go:582`) |
| `RejectedLeftNoTrace` | a migration the node commits although the wait for it failed or was given up (`sdk/change.go:690`) |
| `RevertedRestored` | a release on a scaled System goes back to the count recorded with its base (`sdk/change.go:661`); a scale planned during a rollout goes back to that rollout's version |
| `RevertedStaysOut` | failed waits and requests, crashes with a second Change, scales planned during the rollout: compensation takes an old report for the base being back |
| `ScaleKeepsRelease` | a scale planned during a rollout that is then reverted; with releases about, appliers that resume, which do not assert the base again |
| `AuthorizedSettles` | the node refuses an action under a lapsed lease, and `waitRuntimeAction` has no deadline |
| `OneWriter` | the lease runs out between `Assert` and the PUT (`sdk/change.go:554`), which is not conditional: one write |
| `ApprovedContractStands` | a registration by hand; a worker that stalled between reading the contract and `PutSystem` (`initial_deployment.go:588`) |
| `ReceiptedWorkIsNotRepeated` | a worker that stalled in the bootstrap creates a host again that was destroyed after its successor's receipt |
| `FactorBehindEverySession` | a confirmation by password that waited for the row while the second factor was enabled, and read that there was none (`auth_security.go:53`) |
| `UsageIsBilledOnce` | an interruption of billing that ended between a look's stamp and its record (`billing_collector.go:132`) |
| `RemovalSettles` | a Destroy that finds neither the server nor a record of its end escalates, as does every later one (`sdk/client.go:1063`): what `compute_interrupted` shows |
| `ArtifactsFollowOwners` | an erasure that timed out and was carried out later (`account_deletion_store.go:196`); a deletion whose `ON CONFLICT DO NOTHING` met the row an erasure was about to remove (lines 110 and 210) |

Two limits of `tenancy` remain: subscribing again after a cancellation is in
`billing_twice` only, and sessions, codes and challenges expire at any moment,
or in scenarios without `time` not at all.

Deadlock is checked for `ledger`. The other systems may stop: a client that is
done is done, and bounded intents, leases and executions run out.

Fairness. Weak fairness of a worker's steps stands for a process that is
scheduled; a dispatcher process that dies is restarted. Leases of the dead run
out because time passes. In `ExecutionLedger` a pause ends, a live process's
statement is run by the database, and the work step is fair: `ApplyChange`
returns. That is what `AuthorizedSettles` is about, with its one exception. In
`ChangeEngine`, weak fairness of `Dispatch` stands for a dispatcher that claims an
execution nobody works on; one that was recorded failed is not claimed again. In
`NodeRuntime`, weak fairness of a round stands for the ticker and for systemd
restarting the process, and strong fairness of `writeObserved` for the rewrite
every 30 seconds of a report that has not changed. In `AccountDeletion`, weak
fairness of the VPS dispatchers stands for their ticker: the process stops, and
is restarted, when one of them returns; and a server the provider agreed to
delete goes at some time. Faults are bounded, so that liveness is claimed for what
happens after the last one.

## What is proved

`ExecutionLedgerProofs` proves for every set of executions, dispatchers and
hosts, every assignment of worker ids, every lease length, every bound on the
delay of a statement and any number of faults:

- `Typing`: the type invariant;
- `Fencing`: an execution is completed only by its latest claim;
- `LeaseEndsOnTime`: a lease ends one lease duration after the time at which the
  holder of the latest claim composed its last renewal or its claim, whatever
  the delays;
- `Refinement`: every step of the queue is a step of `FencedJob` or stutters.

`FinishedByLatestClaim` is not inductive: it does not say why a completion under
an old claim is refused. `Inv` adds what the token check rests on: tokens on
rows, in dispatchers and in statements under way are at most the number issued,
and whichever of them equals the row's belongs to the row's latest attempt. A
completion compares tokens, so that the attempt it records is the latest one; a
claim issues a fresh token, so that every other dispatcher's, and every older
statement's, differs from then on. For the lease, `Inv` also relates `silence`,
the ticks since the holder last asked, to the renewals under way: none is younger.
A renewal sets the lease to what is left of a lease duration from its composition,
which is no more than the silence allows. The assumptions are the five `ASSUME`s
of the module.

Liveness, and everything about the other modules, is checked by TLC only.
TLAPS cannot prove liveness under fairness here, nor induction over data.

## What is not modelled

`PROJECT.json` lists every part with its status. Left out for good: text,
transport, encoding, validation of documents field by field, presentation. Of
the parts that are modelled: invitations, disabled accounts, rate budgets and
the renaming of passkeys (conditions or rows of their own that no property
depends on); prices, the catalogue and the portal; the sizing of servers;
storage, which is metered like servers. The connection to GitHub is one row
whose lock is held across the renewal of its token; a crash in between loses the
new token, and the person is asked to connect again.

Known and without a run: a late retry under a policy overwrites the execution recorded in the decision
(`standing_policy.go:386`); a reconcile within a second of a failed check starts
a release without its service bindings (`cmd/canter-node/main.go:774`). The
hazards in `PROJECT.json` record, at its line, each thing the models showed that
no run is kept for.

## Plan

1. Compose the node runtime with the change engine: the engine's waits read the
   reports the runtime writes.
2. Tasks: a claim whose agent is revoked meanwhile leaves the task working for
   ever, since tasks have no lease; compose with `AgentCredentials`.
3. `VPSRequests` on `ComputeLifecycle` itself instead of its fenced phases.
4. Proofs: refresh families do not fork; the version check behind
   `SessionsRestOnCredentials`; disjoint ticks in `UsageIsBilledOnce`; the
   fencing of the initial deployment queue; the one-writer property of the
   change lease.
