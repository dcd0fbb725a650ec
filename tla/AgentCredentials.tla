-------------------------- MODULE AgentCredentials --------------------------
(***************************************************************************)
(* How an agent is connected to a workspace and disconnected from it:      *)
(* device authorizations and refresh families (store.go), pairings         *)
(* (agent_pairing.go), workers (agent_workers.go) and the authority an     *)
(* owner grants (agent_permissions.go).                                    *)
(*                                                                         *)
(* An agent asks for one device authorization, which leads to at most one  *)
(* installation; so devices, pairings and installations are indexed by the *)
(* agent.  Each issued refresh credential comes with one access session,   *)
(* so sessions are indexed by the credential.  Any party may present any   *)
(* refresh token that was ever issued: a client that lost the answer does. *)
(*                                                                         *)
(* Transactions.  A serializable transaction, or one that locks every row  *)
(* it depends on, is one step.  Two kinds are not: issuing tokens reads    *)
(* the installation without a lock, in a snapshot; and revoking an         *)
(* installation is READ COMMITTED, so its UPDATE of the credentials works  *)
(* on the rows that were visible when that statement began.  These are two *)
(* steps each, and they may overlap.                                       *)
(***************************************************************************)
EXTENDS Naturals, FiniteSets, Sequences

CONSTANTS
    Agents,
    Workers,        \* worker sessions that may be created
    MaxCredentials, \* bound on refresh credentials issued
    Environments    \* who takes part, and how

ASSUME CredentialAssumption == MaxCredentials \in Nat

Grants == {"read-only", "draft-only", "human-approval-required", "automatic"}

\* An environment: the agents that begin a device authorization, those an owner
\* invites with a pairing, those connected before the behaviour starts, bounds
\* on the credentials and the workers of the behaviour, what the owner may
\* grant, how connections end, and whether time is seen to pass.
ASSUME CredentialEnvironments == \A e \in Environments :
    /\ e.devices \subseteq Agents /\ e.paired \subseteq Agents
    /\ e.installed \in Seq(Agents) /\ Len(e.installed) <= MaxCredentials
    /\ e.tokens \in 0..MaxCredentials /\ e.workers \subseteq Workers
    /\ e.grants \subseteq Grants
    /\ e.endings \subseteq {"revoke", "cancel", "disconnect"}
    /\ "no agent" \notin Agents

VARIABLES
    device,    \* device_authorizations, by agent
    pairing,   \* agent_pairings, by agent
    late,      \* agents whose device and pairing are past their ten minutes
    inst,      \* agent_installations: revoked_at and expires_at
    temporary, \* installations with an expiry
    grant,     \* installations' authority
    inherits,  \* installations that use the workspace's default authority
    default,   \* workspaces.agent_authority
    owner,     \* agent_credentials.installation_id
    family,    \* agent_credentials.family_id
    state,     \* agent_credentials: rotated_at, revoked_at, expires_at
    access,    \* agent_sessions of the credential: ended_at, expires_at
    parent,    \* worker sessions: the credential of the parent session
    ended,     \* worker sessions with ended_at
    drafting,  \* worker sessions with worker_draft
    issuing,   \* token transactions between their reads and their commit
    revoking,  \* revocations under way, by agent
    marked,    \* the credentials a revocation's UPDATE sees
    replayed,  \* history: families in which a rotated token was presented
    env

deviceVars == <<device, pairing, late>>
grantVars == <<grant, inherits, default>>
tokenVars == <<owner, family, state, access>>
workerVars == <<parent, ended, drafting>>
txVars == <<issuing, revoking, marked>>
credentialVars == <<deviceVars, inst, temporary, grantVars, tokenVars, workerVars,
                    txVars, replayed, env>>

Credentials == 1..MaxCredentials
NoCredential == 0
Issued == {k \in Credentials : state[k] # "none"}
NextCredential == Cardinality(Issued) + 1
NoAgent == "no agent"

(***************************************************************************)
(* An environment with installed agents starts after their pairing: each   *)
(* holds one credential and its session.                                   *)
(***************************************************************************)
CredentialsInit ==
    /\ env \in Environments
    /\ LET installed == {env.installed[i] : i \in DOMAIN env.installed}
           held(k) == k <= Len(env.installed)
       IN  /\ device = [a \in Agents |-> IF a \in installed THEN "exchanged" ELSE "absent"]
           /\ pairing = [a \in Agents |-> IF a \in installed THEN "claimed" ELSE "absent"]
           /\ inst = [a \in Agents |-> IF a \in installed THEN "live" ELSE "absent"]
           /\ owner = [k \in Credentials |-> IF held(k) THEN env.installed[k] ELSE NoAgent]
           /\ family = [k \in Credentials |-> IF held(k) THEN k ELSE NoCredential]
           /\ state = [k \in Credentials |-> IF held(k) THEN "live" ELSE "none"]
           /\ access = [k \in Credentials |-> IF held(k) THEN "live" ELSE "none"]
    /\ late = {} /\ temporary = {} /\ inherits = {}
    /\ grant = [a \in Agents |-> "human-approval-required"]
    /\ default = "automatic"
    /\ parent = [w \in Workers |-> NoCredential]
    /\ ended = {} /\ drafting = {}
    /\ issuing = {}
    /\ revoking = [a \in Agents |-> "no"]
    /\ marked = [a \in Agents |-> {}]
    /\ replayed = {}

----------------------------------------------------------------------------
(***************************************************************************)
(* What a token is worth.                                                  *)
(***************************************************************************)

\* ResolveAgent joins the session with its installation; a worker's parent
\* session must be live as well.
SessionLive(k) == access[k] = "live"
\* A mutant of InstallationLive: the join does not look at revoked_at.
InstallationNotLapsed(a) == inst[a] \in {"live", "revoked"}
InstallationLive(a) == inst[a] = "live"
Resolves(k) == SessionLive(k) /\ InstallationLive(owner[k])
WorkerResolves(w) == parent[w] # NoCredential /\ w \notin ended /\ Resolves(parent[w])

MayDraft(g) == g # "read-only"
\* The authority of a worker's requests: never more than its parent's, and
\* never the right to apply.
WorkerGrant(w) ==
    LET g == grant[owner[parent[w]]]
    IN  IF ~(MayDraft(g) /\ w \in drafting) THEN "read-only"
        ELSE IF g = "automatic" THEN "human-approval-required"
        ELSE g

\* Row locks.  A revocation holds the installation's row; one that cancels a
\* pairing holds the pairing's and the device's as well.
InstallationUnlocked(a) == revoking[a] = "no"
DeviceUnlocked(a) ==
    revoking[a] # "cancel" /\ [agent |-> a, from |-> NoCredential] \notin issuing
CredentialUnlocked(k) == [agent |-> owner[k], from |-> k] \notin issuing

----------------------------------------------------------------------------
(***************************************************************************)
(* Device authorizations and pairings.                                     *)
(***************************************************************************)

BeginDeviceAuthorization(a) ==
    /\ a \in env.devices
    /\ device[a] = "absent"
    /\ device' = [device EXCEPT ![a] = "pending"]
    /\ UNCHANGED <<pairing, late, inst, temporary, grantVars, tokenVars, workerVars,
                   txVars, replayed, env>>

CreateAgentPairing(a) ==
    /\ a \in env.paired
    /\ pairing[a] = "absent"
    /\ pairing' = [pairing EXCEPT ![a] = "waiting"]
    /\ UNCHANGED <<device, late, inst, temporary, grantVars, tokenVars, workerVars,
                   txVars, replayed, env>>

ClaimAgentPairing(a) ==
    /\ pairing[a] = "waiting" /\ a \notin late
    /\ pairing' = [pairing EXCEPT ![a] = "claimed"]
    /\ device' = [device EXCEPT ![a] = "pending"]
    /\ UNCHANGED <<late, inst, temporary, grantVars, tokenVars, workerVars,
                   txVars, replayed, env>>

\* An installation with the authority g, inherited or not, that lasts or not.
Install(a, g, inherited, lasting) ==
    /\ device' = [device EXCEPT ![a] = "authorized"]
    /\ inst' = [inst EXCEPT ![a] = "live"]
    /\ grant' = [grant EXCEPT ![a] = g]
    /\ inherits' = IF inherited THEN inherits \cup {a} ELSE inherits
    /\ temporary' = IF lasting THEN temporary ELSE temporary \cup {a}
    /\ UNCHANGED <<pairing, late, default, tokenVars, workerVars, txVars, replayed, env>>

\* The user code of a claimed pairing is refused here: only the owner who
\* created the pairing may approve it.
ApproveDevice(a) ==
    /\ device[a] = "pending" /\ pairing[a] = "absent" /\ a \notin late
    /\ Install(a, "human-approval-required", FALSE, TRUE)

DenyDevice(a) ==
    /\ device[a] = "pending" /\ pairing[a] = "absent" /\ a \notin late
    /\ device' = [device EXCEPT ![a] = "denied"]
    /\ UNCHANGED <<pairing, late, inst, temporary, grantVars, tokenVars, workerVars,
                   txVars, replayed, env>>

PairingApprovable(a) ==
    /\ pairing[a] = "claimed" /\ a \notin late
    /\ device[a] = "pending"
ApproveAgentPairing(a) ==
    /\ PairingApprovable(a)
    /\ \E lasting \in BOOLEAN :
         \/ Install(a, default, TRUE, lasting)
         \/ \E g \in env.grants : Install(a, g, FALSE, lasting)

\* Cancelling a pairing nobody is connected through.  With an installation,
\* it is a revocation: see BeginRevocation.
CancelAgentPairing(a) ==
    /\ pairing[a] # "absent" /\ inst[a] = "absent"
    /\ pairing' = [pairing EXCEPT ![a] = "cancelled"]
    /\ device' = IF device[a] = "absent" THEN device ELSE [device EXCEPT ![a] = "denied"]
    /\ UNCHANGED <<late, inst, temporary, grantVars, tokenVars, workerVars,
                   txVars, replayed, env>>

----------------------------------------------------------------------------
(***************************************************************************)
(* Tokens.  Exchanging the device code starts a family; refreshing rotates *)
(* the presented credential.  Both read, and then commit.                  *)
(***************************************************************************)

RoomToIssue == Cardinality(Issued) + Cardinality(issuing) < env.tokens

BeginExchange(a) ==
    /\ device[a] = "authorized" /\ a \notin late /\ DeviceUnlocked(a)
    /\ InstallationLive(a) /\ RoomToIssue
    /\ issuing' = issuing \cup {[agent |-> a, from |-> NoCredential]}
    /\ UNCHANGED <<deviceVars, inst, temporary, grantVars, tokenVars, workerVars,
                   revoking, marked, replayed, env>>

CanRefresh(k) == state[k] = "live" /\ inst[owner[k]] = "live"
BeginRefresh(k) ==
    /\ CanRefresh(k) /\ CredentialUnlocked(k) /\ RoomToIssue
    /\ issuing' = issuing \cup {[agent |-> owner[k], from |-> k]}
    /\ UNCHANGED <<deviceVars, inst, temporary, grantVars, tokenVars, workerVars,
                   revoking, marked, replayed, env>>

\* issueAgentTokens: the new credential and its session.
IssueTokens(a, fam, newState, newAccess) ==
    LET k == NextCredential
    IN  /\ owner' = [owner EXCEPT ![k] = a]
        /\ family' = [family EXCEPT ![k] = IF fam = NoCredential THEN k ELSE fam]
        /\ state' = [newState EXCEPT ![k] = "live"]
        /\ access' = [newAccess EXCEPT ![k] = "live"]

CommitExchange(t) ==
    /\ t \in issuing /\ t.from = NoCredential
    /\ IssueTokens(t.agent, NoCredential, state, access)
    /\ device' = [device EXCEPT ![t.agent] = "exchanged"]
    /\ issuing' = issuing \ {t}
    /\ UNCHANGED <<pairing, late, inst, temporary, grantVars, workerVars,
                   revoking, marked, replayed, env>>

Rotated(k) == [state EXCEPT ![k] = "rotated"]
CommitRefresh(t) ==
    /\ t \in issuing /\ t.from # NoCredential
    /\ IssueTokens(t.agent, family[t.from], Rotated(t.from),
                   [access EXCEPT ![t.from] = "ended"])
    /\ issuing' = issuing \ {t}
    /\ UNCHANGED <<deviceVars, inst, temporary, grantVars, workerVars,
                   revoking, marked, replayed, env>>

\* The connection is lost, or the transaction cannot be serialized with a
\* revocation that committed before its INSERT.
AbortIssue(t) ==
    /\ t \in issuing
    /\ issuing' = issuing \ {t}
    /\ UNCHANGED <<deviceVars, inst, temporary, grantVars, tokenVars, workerVars,
                   revoking, marked, replayed, env>>

Relatives(k) == {j \in Issued : family[j] = family[k]}
\* A mutant of RevokedFamily: the presented token's descendants are spared.
RevokedAlone(k) == {k}
RevokedFamily(k) == Relatives(k)
Dead(s, dying) ==
    [j \in Credentials |-> IF j \in dying /\ s[j] \in {"live", "lapsed"} THEN "revoked" ELSE s[j]]
Ended(s, dying) ==
    [j \in Credentials |-> IF j \in dying /\ s[j] # "none" THEN "ended" ELSE s[j]]

\* A rotated token comes back: its whole family is revoked.  The transaction
\* is retried until it is serialized after a refresh within the family.
ReplayRefresh(k) ==
    /\ state[k] = "rotated"
    /\ \A j \in Relatives(k) : CredentialUnlocked(j)
    /\ state' = Dead(state, RevokedFamily(k))
    /\ access' = Ended(access, RevokedFamily(k))
    /\ replayed' = replayed \cup {family[k]}
    /\ UNCHANGED <<deviceVars, inst, temporary, grantVars, owner, family, workerVars,
                   txVars, env>>

----------------------------------------------------------------------------
(***************************************************************************)
(* Revoking an installation: RevokeInstallation by an owner,               *)
(* CancelAgentPairing, and DisconnectAgent of a temporary connection.      *)
(***************************************************************************)

CredentialsOf(a) == {k \in Issued : owner[k] = a}

BeginRevocation(a, why) ==
    /\ InstallationUnlocked(a)
    /\ \/ why = "revoke" /\ inst[a] \in {"live", "lapsed"}
       \/ why = "cancel" /\ pairing[a] # "absent" /\ inst[a] # "absent" /\ DeviceUnlocked(a)
       \/ why = "disconnect" /\ a \in temporary /\ CredentialsOf(a) # {}
    /\ revoking' = [revoking EXCEPT ![a] = why]
    /\ marked' = [marked EXCEPT ![a] = CredentialsOf(a)]
    /\ UNCHANGED <<deviceVars, inst, temporary, grantVars, tokenVars, workerVars,
                   issuing, replayed, env>>

\* The UPDATE of the credentials waits for those that a refresh has locked.
CommitRevocation(a) ==
    /\ revoking[a] # "no"
    /\ \A k \in marked[a] : CredentialUnlocked(k)
    /\ inst' = [inst EXCEPT ![a] = "revoked"]
    /\ state' = Dead(state, marked[a])
    /\ access' = Ended(access, CredentialsOf(a))
    /\ ended' = ended \cup {w \in Workers : parent[w] \in CredentialsOf(a)}
    /\ IF revoking[a] = "cancel"
       THEN /\ pairing' = [pairing EXCEPT ![a] = "cancelled"]
            /\ device' = [device EXCEPT ![a] = "denied"]
       ELSE UNCHANGED <<pairing, device>>
    /\ revoking' = [revoking EXCEPT ![a] = "no"]
    /\ marked' = [marked EXCEPT ![a] = {}]
    /\ UNCHANGED <<late, temporary, grantVars, owner, family, parent, drafting,
                   issuing, replayed, env>>

AbortRevocation(a) ==
    /\ revoking[a] # "no"
    /\ revoking' = [revoking EXCEPT ![a] = "no"]
    /\ marked' = [marked EXCEPT ![a] = {}]
    /\ UNCHANGED <<deviceVars, inst, temporary, grantVars, tokenVars, workerVars,
                   issuing, replayed, env>>

\* DisconnectAgent of a connection that lasts: the session and its workers.
DisconnectSession(k) ==
    /\ "disconnect" \in env.endings /\ access[k] # "none" /\ owner[k] \notin temporary
    /\ access' = Ended(access, {k})
    /\ ended' = ended \cup {w \in Workers : parent[w] = k}
    /\ UNCHANGED <<deviceVars, inst, temporary, grantVars, owner, family, state,
                   parent, drafting, txVars, replayed, env>>
DisconnectWorker(w) ==
    /\ "disconnect" \in env.endings /\ parent[w] # NoCredential
    /\ ended' = ended \cup {w}
    /\ UNCHANGED <<deviceVars, inst, temporary, grantVars, tokenVars,
                   parent, drafting, txVars, replayed, env>>

CreateAgentWorker(k, w, draft) ==
    /\ parent[w] = NoCredential
    /\ Resolves(k) /\ InstallationUnlocked(owner[k])
    /\ draft => MayDraft(grant[owner[k]])
    /\ parent' = [parent EXCEPT ![w] = k]
    /\ drafting' = IF draft THEN drafting \cup {w} ELSE drafting
    /\ UNCHANGED <<deviceVars, inst, temporary, grantVars, tokenVars, ended,
                   txVars, replayed, env>>

----------------------------------------------------------------------------
(***************************************************************************)
(* Authority, and the passing of time.                                     *)
(***************************************************************************)

\* UpdateAgentAuthority: an override, or back to the workspace's default.
UpdateAgentAuthority(a, g, inherited) ==
    /\ InstallationLive(a) /\ InstallationUnlocked(a)
    /\ grant' = [grant EXCEPT ![a] = IF inherited THEN default ELSE g]
    /\ inherits' = IF inherited THEN inherits \cup {a} ELSE inherits \ {a}
    /\ UNCHANGED <<deviceVars, inst, temporary, default, tokenVars, workerVars,
                   txVars, replayed, env>>

Inheriting == {a \in inherits : InstallationLive(a)}
UpdateWorkspaceAgentAuthority(g) ==
    /\ \A a \in Inheriting : InstallationUnlocked(a)
    /\ default' = g
    /\ grant' = [a \in Agents |-> IF a \in Inheriting THEN g ELSE grant[a]]
    /\ UNCHANGED <<deviceVars, inst, temporary, inherits, tokenVars, workerVars,
                   txVars, replayed, env>>

Lapse(newLate, newInst, newState, newAccess) ==
    /\ "lapse" \in env.faults
    /\ late' = newLate /\ inst' = newInst /\ state' = newState /\ access' = newAccess
    /\ UNCHANGED <<device, pairing, temporary, grantVars, owner, family, workerVars,
                   txVars, replayed, env>>
DeviceLapses(a) ==
    /\ a \notin late /\ (device[a] \in {"pending", "authorized"} \/ pairing[a] = "waiting")
    /\ Lapse(late \cup {a}, inst, state, access)
AccessLapses(k) ==
    /\ access[k] = "live"
    /\ Lapse(late, inst, state, [access EXCEPT ![k] = "lapsed"])
CredentialLapses(k) ==
    /\ state[k] = "live" /\ access[k] # "live"
    /\ Lapse(late, inst, [state EXCEPT ![k] = "lapsed"], access)
\* Credentials and sessions never outlast a temporary installation.
InstallationLapses(a) ==
    /\ a \in temporary /\ inst[a] = "live"
    /\ Lapse(late, [inst EXCEPT ![a] = "lapsed"],
             [k \in Credentials |-> IF owner[k] = a /\ state[k] = "live" THEN "lapsed" ELSE state[k]],
             [k \in Credentials |-> IF owner[k] = a /\ access[k] = "live" THEN "lapsed" ELSE access[k]])

----------------------------------------------------------------------------
\* The steps that leave approval routes alone.
Connecting ==
    \E a \in Agents :
        \/ BeginDeviceAuthorization(a) \/ ApproveDevice(a) \/ DenyDevice(a)
        \/ CreateAgentPairing(a) \/ ClaimAgentPairing(a)
        \/ ApproveAgentPairing(a) \/ CancelAgentPairing(a)
        \/ DeviceLapses(a) \/ InstallationLapses(a)
Tokens ==
    \/ \E a \in Agents : BeginExchange(a)
    \/ \E k \in Credentials :
        BeginRefresh(k) \/ ReplayRefresh(k) \/ AccessLapses(k) \/ CredentialLapses(k)
    \/ \E t \in issuing : CommitExchange(t) \/ CommitRefresh(t) \/ AbortIssue(t)
Sessions ==
    \/ \E k \in Credentials :
        \/ DisconnectSession(k)
        \/ \E w \in env.workers, draft \in BOOLEAN : CreateAgentWorker(k, w, draft)
    \/ \E w \in Workers : DisconnectWorker(w)
Revoking ==
    \E a \in Agents :
        \/ \E why \in env.endings : BeginRevocation(a, why)
        \/ AbortRevocation(a)

\* The steps that also revoke approval routes, which ChangeApproval adds.
CredentialsNext ==
    \/ Connecting \/ Tokens \/ Sessions \/ Revoking
    \/ \E a \in Agents : CommitRevocation(a)
    \/ \E a \in Agents, g \in env.grants, inherited \in BOOLEAN :
        UpdateAgentAuthority(a, g, inherited)
    \/ \E g \in env.grants : UpdateWorkspaceAgentAuthority(g)

CredentialsSpec == CredentialsInit /\ [][CredentialsNext]_credentialVars

----------------------------------------------------------------------------
(***************************************************************************)
(* Properties.                                                             *)
(***************************************************************************)

\* A refresh family never forks: tokens presented twice, lost answers and
\* aborted transactions leave at most one credential that can be refreshed.
\* Once a rotated token was presented again, nothing in its family works any
\* more: no credential refreshes, no session and no worker of one resolves.
FamilyNeverForks ==
    /\ \A j, k \in Issued :
          state[j] = "live" /\ state[k] = "live" /\ family[j] = family[k] => j = k
    /\ \A k \in Issued : family[k] \in replayed =>
          /\ ~CanRefresh(k) /\ ~Resolves(k)
          /\ \A w \in Workers : parent[w] = k => ~WorkerResolves(w)

\* From the commit of a revocation on, no token of the installation works,
\* although a token transaction that overlaps the revocation may leave a live
\* credential or session row behind it.  A cancelled pairing connects nobody,
\* whatever the order in which it was claimed, approved and exchanged.
RevokedIsCutOff ==
    /\ \A k \in Issued : inst[owner[k]] = "revoked" =>
          /\ ~CanRefresh(k) /\ ~Resolves(k)
          /\ \A w \in Workers : parent[w] = k => ~WorkerResolves(w)
    /\ \A a \in Agents : pairing[a] = "cancelled" =>
          inst[a] \in {"absent", "revoked"} /\ device[a] \in {"absent", "denied"}

=============================================================================
