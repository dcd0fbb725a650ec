----------------------------- MODULE NodeGateway -----------------------------
(***************************************************************************)
(* How a host becomes the node of a System, and what the node gateway lets *)
(* it see: internal/controlplane/node_gateway_store.go, and the objects in *)
(* m1 behind sdk/node_gateway.go.                                          *)
(*                                                                         *)
(* A System has one node installation.  Before a host is created its       *)
(* worker draws an enrollment token for it, which cloud-init exchanges     *)
(* once for the node's credential.  The two exchanges of the store are     *)
(* serializable transactions, and are one step each.  Tokens are numbered  *)
(* in the order in which they are drawn; a credential bears the number of  *)
(* the token it was exchanged for.                                         *)
(***************************************************************************)
EXTENDS Naturals

CONSTANTS
    Hosts,
    Releases,     \* what a desired release makes the node run
    Artifacts,
    ArtifactOf,   \* releases of one artifact differ in their configuration
    Environments  \* who takes part, what happens, and what may go wrong

ASSUME ArtifactAssumption == ArtifactOf \in [Releases -> Artifacts]

NoRelease == "none"
NoDesired == [rel |-> NoRelease, reps |-> 0, leased |-> FALSE]

\* A desired release: with a capacity lease its replicas are RestoreReplicas
\* (here 1) once the lease has run out.
Desired == [rel : Releases, reps : Nat \ {0}, leased : BOOLEAN]

FaultKinds == {"reply", "late", "revoke", "report", "launch", "services",
               "exit", "crash"}

Environment ==
    [hosts : SUBSET Hosts, tokens : Nat, wishes : SUBSET Desired, changes : Nat,
     restarts : Nat, requests : Nat, plan : BOOLEAN,
     faults : SUBSET FaultKinds, left : Nat]

ASSUME EnvironmentAssumption == \A e \in Environments : e \in Environment

VARIABLES
    current,  \* the token of the unconsumed, unexpired enrollment, or 0
    issued,   \* tokens drawn so far
    consumed, \* tokens that were exchanged
    live,     \* node_credentials that are neither revoked nor expired
    revoked,  \* TRUE iff the node installation is revoked
    given,    \* the token in the user data of each host, 0 for no host yet
    held,     \* the credential in each host's node.token, or 0
    desired,  \* m1: the desired release
    control,  \* m1: number of the latest restart control
    ack,      \* m1: the acknowledged control
    expired,  \* TRUE iff the time of the capacity leases has passed
    env

identity == <<current, issued, consumed, live, revoked, given, held>>
wishes == <<desired, control, expired>>

NoFault == UNCHANGED env
Fault(kind) ==
    /\ kind \in env.faults /\ env.left > 0
    /\ env' = [env EXCEPT !.left = @ - 1]

GatewayInit ==
    /\ env \in Environments
    /\ current = 0 /\ issued = 0 /\ consumed = {} /\ live = {} /\ revoked = FALSE
    /\ given = [h \in Hosts |-> 0] /\ held = [h \in Hosts |-> 0]
    /\ desired = NoDesired /\ control = 0 /\ ack = 0 /\ expired = FALSE

------------------------------------------------------------------------------
(* node_gateway_store.go *)

\* The unconsumed enrollment row of the node is reused with a new token; a
\* revoked installation is replaced by a new one.  The worker may die before it
\* creates a host with the token.
CreateNodeEnrollment(h) ==
    /\ h \in env.hosts /\ issued < env.tokens
    /\ issued' = issued + 1
    /\ current' = issued + 1
    /\ revoked' = FALSE
    /\ \/ given[h] = 0 /\ given' = [given EXCEPT ![h] = issued + 1]
       \/ UNCHANGED given
    /\ UNCHANGED <<consumed, live, held, ack>> /\ UNCHANGED wishes /\ NoFault

\* Mutant: the new credential is added to the ones the node already has.
AddCredential(t) == live \cup {t}
ReplaceCredentials(t) == {t}

\* cloud-init of the host exchanges its token.  If the answer is lost the
\* script fails and the host never holds the credential.
ExchangeNodeEnrollment(h) ==
    /\ given[h] # 0 /\ given[h] = current /\ ~revoked
    /\ consumed' = consumed \cup {current}
    /\ live' = ReplaceCredentials(current)
    /\ current' = 0
    /\ \/ held' = [held EXCEPT ![h] = given[h]] /\ NoFault
       \/ UNCHANGED held /\ Fault("reply")
    /\ UNCHANGED <<issued, revoked, given, ack>> /\ UNCHANGED wishes

\* Twenty minutes pass before the token is used, or ninety days of a credential.
Expire ==
    /\ Fault("late")
    /\ \/ current # 0 /\ current' = 0 /\ UNCHANGED live
       \/ live # {} /\ live' = {} /\ UNCHANGED current
    /\ UNCHANGED <<issued, consumed, revoked, given, held, ack>> /\ UNCHANGED wishes

RevokeNodeInstallation ==
    /\ issued > 0 /\ ~revoked
    /\ Fault("revoke")
    /\ revoked' = TRUE /\ live' = {}
    /\ UNCHANGED <<current, issued, consumed, given, held, ack>> /\ UNCHANGED wishes

ResolveNode(h) == held[h] \in live /\ ~revoked

------------------------------------------------------------------------------
(* what people and Changes write to m1 *)

\* PublishRelease, RollbackRelease and the Changes set the desired release.
PutDesired ==
    /\ env.changes > 0 /\ env' = [env EXCEPT !.changes = @ - 1]
    /\ desired' \in env.wishes \ {desired}
    /\ UNCHANGED <<control, expired, ack>> /\ UNCHANGED identity

RestartRelease ==
    /\ control < env.restarts
    /\ control' = control + 1
    /\ UNCHANGED <<desired, expired, ack>> /\ UNCHANGED identity /\ NoFault

CapacityLeaseExpires ==
    /\ desired.leased /\ ~expired
    /\ expired' = TRUE
    /\ UNCHANGED <<desired, control, ack>> /\ UNCHANGED identity /\ NoFault

GatewayNext ==
    \/ \E h \in Hosts : CreateNodeEnrollment(h) \/ ExchangeNodeEnrollment(h)
    \/ Expire \/ RevokeNodeInstallation
    \/ PutDesired \/ RestartRelease \/ CapacityLeaseExpires

------------------------------------------------------------------------------
(* properties *)

\* Exchanging a replacement enrollment is replacement, not additive issuance:
\* once a host has exchanged its token, no host with an earlier token is let in,
\* neither with the credential it holds nor by exchanging its own token late,
\* and no token is exchanged twice.
LaterHostWins ==
    \A t \in consumed, h \in Hosts :
      /\ given[h] < t => ~ResolveNode(h)
      /\ given[h] # 0 /\ given[h] <= t => given[h] # current
==============================================================================
