---------------------------- MODULE AccountDeletion ----------------------------
(***************************************************************************)
(* Deleting an account, composed with what can stand in its way and with   *)
(* what it leaves to do.  Sign-in, billing, servers and metering are the   *)
(* modules this one extends; workspace Billed is the one they are about.   *)
(* Uploads and the erasure of deleted workspaces' artifacts are here.      *)
(*                                                                         *)
(* The deletion is one transaction.  It locks the account, its session,    *)
(* every workspace the account is a member of, and the billing row, so it  *)
(* waits for uploads (which lock the account and the workspace), for       *)
(* approvals and drafts (whose inserts need the workspace's key) and for   *)
(* whoever holds the billing row: those are guards of the action.          *)
(***************************************************************************)
EXTENDS AccountAuth, UsageMetering

CONSTANTS Workspaces,
          Billed,       \* the workspace of the modules on billing
          Artifacts,    \* digests of application artifacts
          Uploads       \* concurrent uploads

VARIABLES ws,        \* workspaces, memberships, and whether they host systems
          agents,    \* <<account, workspace>> of agents that are not revoked
          art,       \* deployment_artifacts: <<workspace, digest>>
          stored,    \* objects in the object store
          queue,     \* account_deletion_artifacts
          eraser,    \* what the erasure transaction is at
          up,        \* what each upload is at
          late,      \* erasures that timed out and may still land, or did
          promised,  \* history: artifacts of deleted workspaces, until erased
          skipped    \* history: not queued, as an erasure had the row locked

closing == <<ws, agents, art, stored, queue, eraser, up, late, promised, skipped>>
tenancyVars == <<authVars, billVars, vpsVars, meterVars, closing>>

NoErasure == [at |-> "idle", key |-> "none", referenced |-> FALSE]
NoUpload == [at |-> "idle", sess |-> 0, by |-> 0, ws |-> 0, key |-> "none"]

Members(w) == ws[w].owners \cup ws[w].others
Open(w) == ws[w].st = "open"
MemberOf(a) == {w \in Workspaces : Open(w) /\ a \in Members(w)}
Private(a) == {w \in MemberOf(a) : Members(w) = {a}}

\* Systems, nodes and running deployments, which other modules are about.
hostSystem(w) ==
    /\ May("host") /\ Open(w) /\ ~ws[w].hosts
    /\ ws' = [ws EXCEPT ![w].hosts = TRUE]
    /\ UNCHANGED <<authVars, billVars, vpsVars, meterVars, agents, art, stored, queue,
                   eraser, up, late, promised, skipped>>

-----------------------------------------------------------------------------
(* What keeps an account from being deleted.                               *)

LeavesNoOwner(a, w) == a \in ws[w].owners /\ ws[w].owners = {a} /\ Members(w) # {a}

HasServers == \E v \in Servers : vm[v].phase \notin {"none", "drafted", "deleted"}

OwesMoney ==
    \/ bill.sub # 0 /\ bill.status # "canceled"
    \/ bill.link = "open"
    \/ \E e \in DOMAIN usage : ~usage[e].sent

accountDeletionWorkspaces(a) ==
    /\ \A w \in MemberOf(a) : ~LeavesNoOwner(a, w)
    /\ \A w \in Private(a) : ~ws[w].hosts /\ (w = Billed => ~HasServers /\ ~OwesMoney)

\* An upload in its transaction, and the locks the deletion waits for.
Holding(u) == up[u].at \in {"begun", "staging", "staged"}

Unlocked(a) ==
    /\ \A u \in Uploads : Holding(u) => up[u].by # a /\ up[u].ws \notin MemberOf(a)
    /\ \A m \in DOMAIN mail : mail[m].acct = a => mail[m].held = "no"
    /\ Billed \in Private(a) => hold = Free

-----------------------------------------------------------------------------
(* The handlers.                                                           *)

openDeletion(q, s) ==
    openSecurity(q, s, "delete start") /\ UNCHANGED <<billVars, vpsVars, meterVars, closing>>

SupersedeDeletion(C, a, s) ==
    [c \in DOMAIN C |-> IF C[c].acct = a /\ C[c].sess = s /\ C[c].purpose = "delete"
                        THEN NoChallenge ELSE C[c]]

\* The session is checked in the transaction, factor included.
SessionStands(s) == Current(s) /\ ("mfa" \in sess[s].has \/ ~MFA(sess[s].acct))

startDeletion(q, p) ==
    LET s == req[q].sess
        a == req[q].acct
    IN /\ req[q].op = "delete start" /\ req[q].at = "resolved"
       /\ SessionStands(s) /\ Unlocked(a) /\ accountDeletionWorkspaces(a)
       /\ IF acct[a].pw = NoPassword THEN recentAuth(s) ELSE p = acct[a].pw
       /\ chal' = newChallengeTx(SupersedeDeletion(chal, a, s), "delete", a, acct[a].email,
                                 acct[a].ver, s, NoSubject, ~MFA(a), "none")
       /\ mail' = IF MFA(a) THEN mail ELSE queueEmailTx(mail, a, acct[a].email, Len(chal'))
       /\ Finish(q)
       /\ UNCHANGED <<env, left, step, acct, sess, login, key, ident, authHistory,
                      suppressed, billVars, vpsVars, meterVars, closing>>

cancelDeletion(q, s) ==
    /\ Begin(q, "delete cancel") /\ Human(s)
    /\ chal' = SupersedeDeletion(chal, sess[s].acct, s)
    /\ UNCHANGED <<env, step, acct, sess, login, key, ident, req, authHistory, mailVars,
                   billVars, vpsVars, meterVars, closing>>

tryDeletion(q, c, s) ==
    /\ Human(s) /\ attemptChallenge(q, c, "delete", s, "delete finish")
    /\ UNCHANGED <<billVars, vpsVars, meterVars, closing>>

\* The challenge is of this session, version and kind of factor; the factor
\* is one of the account, or the mailed code.
deletionProof(q) ==
    LET c == req[q].chal
        a == chal[c].acct
    IN /\ challengeTx(q, "delete finish", "delete")
       /\ chal[c].sess = req[q].sess /\ SameVersion(c)
       /\ SessionStands(req[q].sess) /\ sess[req[q].sess].acct = a
       /\ chal[c].code <=> ~MFA(a)
       /\ MFA(a) \/ validEmailCode(c)

\* Rows of the account go with it, by statement or by foreign key.
deleteAccountRows(a) ==
    LET e == acct[a].email
    IN /\ acct' = [acct EXCEPT ![a] = NoAccount]
       /\ sess' = [s \in DOMAIN sess |-> IF sess[s].acct = a THEN NoSession ELSE sess[s]]
       /\ chal' = [c \in DOMAIN chal |->
                     IF chal[c].acct = a \/ chal[c].email = e THEN NoChallenge ELSE chal[c]]
       /\ login' = [l \in DOMAIN login |-> IF login[l].acct = a THEN NoLogin ELSE login[l]]
       /\ key' = [k \in Keys |-> IF key[k] = a THEN 0 ELSE key[k]]
       /\ ident' = [x \in Subjects |-> IF ident[x] = a THEN 0 ELSE ident[x]]
       /\ mail' = [m \in DOMAIN mail |->
                     IF mail[m].acct = a \/ mail[m].email = e THEN NoMail ELSE mail[m]]
       /\ suppressed' = suppressed \ {e}

\* The workspace's artifacts are queued unless they are queued already, and
\* its rows deleted; with a customer or usage a closed shell of it stays.
Financial == bill.customer \/ usage # <<>>

Queued(W) == {x[2] : x \in {y \in art : y[1] \in W}}

deleteBilledRows ==
    /\ bill' = IF Financial THEN [bill EXCEPT !.link = "none", !.ck = 0, !.cplan = "none"]
               ELSE NoBill
    /\ sample' = IF Financial THEN sample ELSE [v \in Servers |-> NoSample]
    /\ vm' = [v \in Servers |-> NoVM]
    /\ rsv' = [v \in Servers |-> "none"]
    /\ reserved' = 0

deletePrivateWorkspaces(a, W) ==
    /\ ws' = [w \in Workspaces |->
                IF w \in W
                THEN [ws[w] EXCEPT !.st = IF w = Billed /\ Financial THEN "closed" ELSE "gone",
                                   !.owners = {}, !.others = {}]
                ELSE [ws[w] EXCEPT !.owners = @ \ {a}, !.others = @ \ {a}]]
    /\ agents' = {x \in agents : x[1] # a /\ x[2] \notin W}
    /\ queue' = queue \cup Queued(W)
    /\ art' = {x \in art : x[1] \notin W}
    /\ promised' = promised \cup Queued(W)
    /\ skipped' = skipped \cup (IF eraser.referenced THEN Queued(W) \cap {eraser.key} ELSE {})
    /\ IF Billed \in W THEN deleteBilledRows ELSE UNCHANGED <<bill, sample, vm, rsv, reserved>>
    /\ UNCHANGED <<provider, hold, asked, calls, host, job, faults, meterVars>>

deleteAccount(q) ==
    /\ deletionProof(q)
    /\ LET a == chal[req[q].chal].acct
       IN /\ Unlocked(a) /\ accountDeletionWorkspaces(a)
          /\ \E fs \in Asked(a) : Accept(fs \cup {<<"challenge", req[q].chal>>})
          /\ deletePrivateWorkspaces(a, Private(a))
          /\ deleteAccountRows(a)
    /\ Finish(q)
    /\ UNCHANGED <<env, left, step, proven, stored, eraser, up, late>>

-----------------------------------------------------------------------------
(* Artifacts: uploads, and the erasure of what deleted workspaces had.     *)

Rest == <<authVars, billVars, vpsVars, meterVars, ws, agents, promised, skipped, late>>

\* A mutant of Locked: uploads do not lock the digest.
LockedByEraser(k) == eraser.at \in {"checked", "erased"} /\ eraser.key = k

\* The digest's advisory lock, held to the end of the transaction.
Locked(k) ==
    \/ eraser.at \in {"checked", "erased"} /\ eraser.key = k
    \/ \E u \in Uploads : up[u].at \in {"staging", "staged"} /\ up[u].key = k

\* An upload of person s (0: of an agent) of workspace w was authenticated.
askUpload(u, s, w, k) ==
    /\ May("upload") /\ up[u] = NoUpload
    /\ IF s = 0 THEN \E a \in DOMAIN acct : <<a, w>> \in agents
       ELSE Human(s) /\ w \in MemberOf(sess[s].acct)
    /\ up' = [up EXCEPT ![u] = [NoUpload EXCEPT !.at = "asked", !.sess = s, !.ws = w, !.key = k]]
    /\ UNCHANGED <<Rest, art, stored, queue, eraser>>

\* The account and the workspace are locked, then the session asked for again.
UploadDeploymentArtifact(u) ==
    LET s == up[u].sess
        w == up[u].ws
    IN /\ up[u].at = "asked" /\ ws[w].st # "gone"
       /\ \A x \in Uploads : Holding(x) => up[x].ws # w
       /\ s # 0 => Current(s) /\ w \in MemberOf(sess[s].acct)
       /\ up' = [up EXCEPT ![u].at = "begun", ![u].by = IF s = 0 THEN 0 ELSE sess[s].acct]
       /\ UNCHANGED <<Rest, art, stored, queue, eraser>>

lockDigest(u) ==
    /\ up[u].at = "begun" /\ ~Locked(up[u].key)
    /\ up' = [up EXCEPT ![u].at = "staging"]
    /\ UNCHANGED <<Rest, art, stored, queue, eraser>>

stageArtifact(u) ==
    /\ up[u].at = "staging"
    /\ stored' = stored \cup {up[u].key}
    /\ up' = [up EXCEPT ![u].at = "staged"]
    /\ UNCHANGED <<Rest, art, queue, eraser>>

recordDeploymentArtifact(u) ==
    /\ up[u].at = "staged"
    /\ art' = art \cup {<<up[u].ws, up[u].key>>}
    /\ up' = [up EXCEPT ![u] = NoUpload]
    /\ UNCHANGED <<Rest, stored, queue, eraser>>

AbortUpload(u) ==
    /\ up[u].at # "idle"
    /\ up' = [up EXCEPT ![u] = NoUpload]
    /\ UNCHANGED <<Rest, art, stored, queue, eraser>>

pickErasure(k) ==
    /\ k \in queue /\ eraser = NoErasure
    /\ eraser' = [NoErasure EXCEPT !.at = "picked", !.key = k]
    /\ UNCHANGED <<Rest, art, stored, queue, up>>

checkReference ==
    /\ eraser.at = "picked" /\ ~Locked(eraser.key)
    /\ eraser' = [eraser EXCEPT !.at = "checked",
                                !.referenced = \E x \in art : x[2] = eraser.key]
    /\ UNCHANGED <<Rest, art, stored, queue, up>>

eraseObject ==
    /\ eraser.at = "checked" /\ ~eraser.referenced
    /\ stored' = stored \ {eraser.key}
    /\ promised' = promised \ {eraser.key}
    /\ eraser' = [eraser EXCEPT !.at = "erased"]
    /\ UNCHANGED <<authVars, billVars, vpsVars, meterVars, ws, agents, art, queue, up, late,
                   skipped>>

\* The object store did not answer in ten seconds: the row stays queued, the
\* digest is unlocked, and the request may still be carried out.
timeOutErasure ==
    /\ May("late erasure") /\ eraser.at = "checked" /\ ~eraser.referenced
    /\ late[eraser.key] = "none"
    /\ late' = [late EXCEPT ![eraser.key] = "sent"]
    /\ eraser' = NoErasure
    /\ UNCHANGED <<authVars, billVars, vpsVars, meterVars, ws, agents, art, stored, queue, up,
                   promised, skipped>>

landErasure(k) ==
    /\ late[k] = "sent"
    /\ late' = [late EXCEPT ![k] = "landed"]
    /\ stored' = stored \ {k}
    /\ promised' = promised \ {k}
    /\ UNCHANGED <<authVars, billVars, vpsVars, meterVars, ws, agents, art, queue, eraser, up,
                   skipped>>

eraseDeletedAccountArtifact ==
    /\ eraser.at = "erased" \/ (eraser.at = "checked" /\ eraser.referenced)
    /\ queue' = queue \ {eraser.key}
    /\ eraser' = NoErasure
    /\ UNCHANGED <<Rest, art, stored, up>>

\* The object store fails, or the process dies: the row stays queued.
FailErasure ==
    /\ eraser # NoErasure
    /\ eraser' = NoErasure
    /\ UNCHANGED <<Rest, art, stored, queue, up>>

ErasureStep ==
    \/ \E k \in Artifacts : pickErasure(k)
    \/ checkReference \/ eraseObject \/ eraseDeletedAccountArtifact
    \/ timeOutErasure \/ \E k \in Artifacts : landErasure(k)

ArtifactStep ==
    \/ \E u \in Uploads :
          \/ \E s \in {0} \cup DOMAIN sess, w \in Workspaces, k \in Artifacts :
                askUpload(u, s, w, k)
          \/ UploadDeploymentArtifact(u) \/ lockDigest(u) \/ stageArtifact(u)
          \/ recordDeploymentArtifact(u) \/ AbortUpload(u)
    \/ ErasureStep
    \/ FailErasure

DeletionStep ==
    \E q \in Clients :
       \/ \E s \in DOMAIN sess : openDeletion(q, s) \/ cancelDeletion(q, s)
       \/ \E p \in Passwords : startDeletion(q, p)
       \/ \E c \in DOMAIN chal, s \in DOMAIN sess : tryDeletion(q, c, s)
       \/ deleteAccount(q)

-----------------------------------------------------------------------------
(* The composition.                                                        *)

OpenForBilling == \E a \in Members(Billed) : Live(a)
BillingExists == ws[Billed].st # "gone"

Next ==
    \/ AuthStep /\ UNCHANGED <<billVars, vpsVars, meterVars, closing>>
    \/ /\ BillingStep(OpenForBilling, BillingExists)
       /\ UNCHANGED <<authVars, vpsVars, meterVars, closing>>
    \/ VPSStep(OpenForBilling) /\ UNCHANGED <<authVars, meterVars, closing>>
    \/ UsageStep /\ UNCHANGED <<authVars, closing>>
    \/ DeletionStep
    \/ ArtifactStep
    \/ \E w \in Workspaces : hostSystem(w)

Init ==
    /\ AuthInit /\ BillingInit /\ VPSInit /\ UsageInit
    /\ ws = [w \in Workspaces |-> [st |-> "open", owners |-> env.owners[w],
                                   others |-> env.others[w], hosts |-> FALSE]]
    /\ agents = env.agents
    /\ art = env.artifacts /\ stored = {x[2] : x \in art}
    /\ queue = {} /\ promised = {} /\ skipped = {}
    /\ late = [k \in Artifacts |-> "none"]
    /\ eraser = NoErasure
    /\ up = [u \in Uploads |-> NoUpload]

Spec == Init /\ [][Next]_tenancyVars

Reconciles(d) == Reconcile(d) /\ UNCHANGED <<authVars, meterVars, closing>>

\* The dispatchers run for as long as the control plane does, which stops when
\* one of them does (cmd/canter-controlplane/main.go:137); the provider removes
\* what it agreed to remove.
FairSpec ==
    /\ Spec
    /\ \A d \in Dispatchers : WF_tenancyVars(Reconciles(d))
    /\ \A v \in Servers :
          WF_tenancyVars(ServerGone(v) /\ UNCHANGED <<authVars, meterVars, closing>>)

-----------------------------------------------------------------------------

\* An artifact that some workspace still refers to is in the object store,
\* although other workspaces with the same bytes are deleted and erased at
\* any moment of its upload (account_deletion_store.go:186), unless an erasure
\* that timed out was carried out after all (line 196).  One of a deleted
\* workspace that nobody refers to any more is erased or still queued, unless
\* the workspace was deleted while an erasure that had seen it refer to the
\* artifact held the queue's row: the row counts as queued (line 110) and is
\* removed (line 210).
ArtifactsFollowOwners ==
    \A k \in Artifacts :
        LET referenced == \E x \in art : x[2] = k
        IN /\ referenced => k \in stored \/ late[k] = "landed"
           /\ k \in promised /\ ~referenced => k \in queue \/ k \in skipped

=============================================================================
