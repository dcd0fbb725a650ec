----------------------------- MODULE AccountAuth -----------------------------
(***************************************************************************)
(* How people sign in to the control plane and change their credentials.  *)
(*                                                                         *)
(* The tables are sequences: a row's identifier is its index, and no index *)
(* is used twice.  A deleted or revoked row becomes the empty row, since   *)
(* no statement of the code brings either back.                            *)
(*                                                                         *)
(* A request of a client is a few steps, split where the code leaves one   *)
(* transaction (or one pool query) and enters the next; what it carries    *)
(* from one to the next is req[q].  A request that is refused, times out   *)
(* or dies with its process is Abandon, enabled at every step, so the      *)
(* later steps describe only the transactions that commit.                 *)
(***************************************************************************)
EXTENDS AuthMail

CONSTANTS Clients,        \* concurrent requests
          Emails,         \* addresses, as normalizeEmail returns them
          Passwords,      \* passwords people choose
          Keys,           \* passkeys (WebAuthn credentials)
          Subjects,       \* identities at the sign-in provider
          SubjectEmail,   \* the verified address the provider reports for each
          MaxAttempts     \* tries a challenge allows (5 in the code)

VARIABLES left,    \* requests clients may still start (a bound)
          step,    \* the current 30-second step of the authenticator clock
          acct,    \* accounts, with account_totp and account_recovery_codes
          sess,    \* human_sessions
          chal,    \* auth_challenges
          login,   \* oauth_login_states
          key,     \* account_passkeys: the account of each credential, 0 if none
          ident,   \* oauth_identities: the account of each subject, 0 if none
          req,     \* what each client's request carries between its steps
          spent,   \* history: one-time proofs that were accepted
          twice,   \* history: one-time proofs accepted a second time
          proven   \* history: <<account, password>> set with a mailbox proof
                   \* or from a signed-in session

authTables == <<acct, sess, chal, login, key, ident>>
authHistory == <<spent, twice, proven>>
authVars == <<env, left, step, acct, sess, chal, login, key, ident, req,
              spent, twice, proven, mail, suppressed>>

NoPassword == "!oauth"
NoSubject == "none"
NoAccount == [st |-> "gone", email |-> "none", pw |-> NoPassword, ver |-> 0,
              verified |-> FALSE, totp |-> "none", secret |-> 0, last |-> -1,
              codes |-> {}]
NoSession == [st |-> "gone", acct |-> 0, ver |-> 0, has |-> {}, basis |-> "none"]
NoChallenge == [purpose |-> "none", acct |-> 0, email |-> "none", ver |-> 0,
                sess |-> 0, subj |-> NoSubject, code |-> FALSE, tries |-> 0,
                basis |-> "none"]
NoLogin == [mode |-> "none", acct |-> 0]
Idle == [op |-> "idle", at |-> "idle", acct |-> 0, ver |-> 0, sess |-> 0,
         chal |-> 0, email |-> "none", subj |-> NoSubject, link |-> 0,
         basis |-> "none"]

-----------------------------------------------------------------------------
(* Reading the tables.                                                     *)

Live(a) == a \in DOMAIN acct /\ acct[a].st = "live"
Holders(e) == {a \in DOMAIN acct : Live(a) /\ acct[a].email = e}
MFA(a) == acct[a].totp = "on"

\* The session is neither revoked nor of an older credential version.
Current(s) ==
    /\ s \in DOMAIN sess /\ sess[s].st = "live"
    /\ Live(sess[s].acct) /\ sess[s].ver = acct[sess[s].acct].ver

ResolveHuman(s) ==
    /\ Current(s)
    /\ acct[sess[s].acct].verified
    /\ "mfa" \in sess[s].has \/ ~MFA(sess[s].acct)

\* A request that names session s: its bearer has left the server, and resolves.
Human(s) == s # 0 /\ ResolveHuman(s) /\ "provisional" \notin sess[s].has

recentAuth(s) == Current(s) /\ "recent" \in sess[s].has

-----------------------------------------------------------------------------
(* Writing the tables: each operator returns the table after a statement.  *)

Row(s, x) == Append(s, x)

newSession(a, v, has, basis) ==
    [st |-> "live", acct |-> a, ver |-> v, has |-> has \cup {"recent"},
     basis |-> basis]

\* The issued bearer belongs to whoever gave the proof; a factor makes it
\* "strong" as well as setting mfa_verified_at.
issueSessionTx(S, a, v, mfa, basis) ==
    Row(S, newSession(a, v, IF mfa THEN {"mfa", "strong"} ELSE {}, basis))

\* The session's row is now reached by the new bearer alone; mfa_verified_at
\* stays as it is if no factor was given.
rotateSessionTx(S, s, mfa) ==
    [S EXCEPT ![s].has = (@ \ {"strong"}) \cup {"recent"} \cup
                         IF mfa THEN {"mfa", "strong"} ELSE {}]

invalidateSessions(S, a, keep, v) ==
    [s \in DOMAIN S |->
        IF S[s].acct # a THEN S[s]
        ELSE IF s = keep THEN [S[s] EXCEPT !.ver = v, !.basis = "changed it"]
        ELSE NoSession]

invalidateChallenges(C, a) ==
    [c \in DOMAIN C |-> IF C[c].acct = a THEN NoChallenge ELSE C[c]]

RevokeHumanSession(S, s) == IF s \in DOMAIN S THEN [S EXCEPT ![s] = NoSession] ELSE S

consumeChallengeTx(C, c) == IF c \in DOMAIN C THEN [C EXCEPT ![c] = NoChallenge] ELSE C

newChallengeTx(C, purpose, a, e, v, s, subj, code, basis) ==
    Row(C, [purpose |-> purpose, acct |-> a, email |-> e, ver |-> v, sess |-> s,
            subj |-> subj, code |-> code, tries |-> 0, basis |-> basis])

\* One-time proofs leave a trace the moment they are accepted.
Accept(proofs) ==
    /\ spent' = spent \cup proofs
    /\ twice' = twice \cup (proofs \cap spent)

-----------------------------------------------------------------------------
(* Requests.                                                               *)

Begin(q, op) ==
    /\ May(op) /\ left > 0 /\ req[q] = Idle
    /\ left' = left - 1

Finish(q) == req' = [req EXCEPT ![q] = Idle]

\* The request is refused, loses its connection, or dies with its process.
Abandon(q) ==
    /\ req[q] # Idle /\ Finish(q)
    /\ UNCHANGED <<env, left, step, authTables, authHistory, mailVars>>

\* A challenge is tried in a statement of its own, before its validation.
attemptChallenge(q, c, purpose, s, op) ==
    /\ Begin(q, op)
    /\ chal[c].purpose = purpose /\ chal[c].tries < MaxAttempts
    /\ chal' = [chal EXCEPT ![c].tries = @ + 1]
    /\ req' = [req EXCEPT ![q] = [Idle EXCEPT !.op = op, !.at = "tried",
                                              !.chal = c, !.sess = s]]
    /\ UNCHANGED <<env, step, acct, sess, login, key, ident, authHistory, mailVars>>

\* The row the validation locks; the account's row is locked with it.
challengeTx(q, op, purpose) ==
    /\ req[q].op = op /\ req[q].at = "tried"
    /\ chal[req[q].chal].purpose = purpose
    /\ chal[req[q].chal].tries <= MaxAttempts

\* The account of the challenge is the one the challenge was issued to.
SameVersion(c) == Live(chal[c].acct) /\ acct[chal[c].acct].ver = chal[c].ver

-----------------------------------------------------------------------------
(* Second factors.                                                         *)

acceptedTOTPStep(last) == {n \in {step, step - 1, step + 1} : n > last}

\* What a person can present: <<"totp", account, secret, step>>, a code of the
\* authenticator, or <<"code", account, 0, n>>, an unused recovery code.
Factors(a) ==
    {<<"totp", a, acct[a].secret, n>> : n \in acceptedTOTPStep(acct[a].last)}
        \cup {<<"code", a, 0, n>> : n \in acct[a].codes}

\* A mutant of verifyFactorTx: the step that was used is not remembered.
verifyFactorAgain(A, a, f) == IF f[1] = "code" THEN [A EXCEPT ![a].codes = @ \ {f[4]}] ELSE A

verifyFactorTx(A, a, f) ==
    IF f[1] = "code" THEN [A EXCEPT ![a].codes = @ \ {f[4]}]
    ELSE [A EXCEPT ![a].last = f[4]]

\* A fresh set of codes, told apart by the version it was made at; one code
\* stands for the ten of the set.
recoveryCodesTx(A, a) == [A EXCEPT ![a].codes = {A[a].ver}]

\* The factors a transaction asks for: one if the account has MFA, else none.
Asked(a) == IF MFA(a) THEN {{f} : f \in Factors(a)} ELSE {{}}
AfterFactor(A, a, fs) == IF fs = {} THEN A ELSE verifyFactorTx(A, a, CHOOSE f \in fs : TRUE)

-----------------------------------------------------------------------------
(* Codes by mail: sign-up, password reset, and verification of an address. *)

\* The account is looked up without a lock; the challenge is inserted later
\* in the same transaction, which reads what others committed meanwhile.
startEmailAuth(q, e, purpose) ==
    /\ Begin(q, purpose)
    /\ LET found == Holders(e)
           a == IF found = {} THEN 0 ELSE CHOOSE x \in found : TRUE
       IN req' = [req EXCEPT ![q] =
             [Idle EXCEPT !.op = purpose, !.at = "looked up", !.acct = a,
                          !.ver = IF a = 0 THEN 0 ELSE acct[a].ver, !.email = e]]
    /\ UNCHANGED <<env, step, authTables, authHistory, mailVars>>

\* A browser's earlier challenge is replaced.  Without an account to reset,
\* or with one to sign up, the challenge is a dummy that has no code.
insertEmailChallenge(q, old) ==
    /\ req[q].at = "looked up"
    /\ LET r == req[q]
           reset == r.op = "reset"
           usable == reset <=> r.acct # 0
           a == IF reset THEN r.acct ELSE 0
       IN /\ a # 0 => Live(a)                      \* the foreign key
          /\ chal' = newChallengeTx(consumeChallengeTx(chal, old), r.op, a, r.email,
                                    r.ver, 0, NoSubject, usable, "mail")
          /\ mail' = IF usable THEN queueEmailTx(mail, a, r.email, Len(chal'))
                     ELSE mail
    /\ Finish(q)
    /\ UNCHANGED <<env, left, step, acct, sess, login, key, ident, authHistory, suppressed>>

validEmailCode(c) == chal[c].code /\ Mailed(c)

tryEmailCode(q, c, purpose) ==
    attemptChallenge(q, c, purpose, 0, "email code")

\* signupVerifiedTx: the address must still be free when the row is inserted.
finishSignup(q, p) ==
    /\ challengeTx(q, "email code", "signup")
    /\ LET c == req[q].chal
           a == Len(acct) + 1
       IN /\ validEmailCode(c)
          /\ Holders(chal[c].email) = {}
          /\ acct' = Row(acct, [NoAccount EXCEPT !.st = "live", !.email = chal[c].email,
                                                 !.pw = p, !.verified = TRUE])
          /\ sess' = Row(sess, newSession(a, 0, {}, p))
          /\ chal' = consumeChallengeTx(chal, c)
          /\ proven' = proven \cup {<<a, p>>}
          /\ Accept({<<"challenge", c>>}) /\ Finish(q)
    /\ UNCHANGED <<env, left, step, login, key, ident, mailVars>>

\* "reset" and "verify" set the password, prove the address, and end every
\* session; "verify" signs the person in.
finishEmailAuth(q, p, purpose) ==
    /\ challengeTx(q, "email code", purpose)
    /\ LET c == req[q].chal
           a == chal[c].acct
           v == acct[a].ver + 1
       IN /\ validEmailCode(c) /\ a # 0
          /\ SameVersion(c)
          /\ \E fs \in Asked(a) :
                /\ acct' = [AfterFactor(acct, a, fs) EXCEPT
                              ![a].pw = p, ![a].verified = TRUE, ![a].ver = v]
                /\ LET S == invalidateSessions(sess, a, 0, v)
                   IN sess' = IF purpose = "verify"
                              THEN issueSessionTx(S, a, v, MFA(a), p) ELSE S
                /\ Accept(fs \cup {<<"challenge", c>>})
          /\ chal' = consumeChallengeTx(invalidateChallenges(chal, a), c)
          /\ mail' = queueEmailTx(mail, a, acct[a].email, 0)
          /\ proven' = proven \cup {<<a, p>>}
    /\ Finish(q)
    /\ UNCHANGED <<env, left, step, login, key, ident, suppressed>>

-----------------------------------------------------------------------------
(* Signing in.  The first proof leaves a provisional session whose bearer   *)
(* stays in the server; what follows turns it into a session or a challenge.*)

Signin(q, a, p) ==
    /\ Begin(q, "signin")
    /\ Live(a) /\ acct[a].pw = p /\ p # NoPassword
    /\ sess' = Row(sess, newSession(a, acct[a].ver, {"provisional"}, p))
    /\ req' = [req EXCEPT ![q] = [Idle EXCEPT !.op = "signin", !.at = "provisional",
                                  !.acct = a, !.sess = Len(sess'), !.basis = p]]
    /\ UNCHANGED <<env, step, acct, chal, login, key, ident, authHistory, mailVars>>

\* A mutant of readProvisional: the account's version, whatever became of the session.
readAccount(q) ==
    /\ req[q].at = "provisional"
    /\ req' = [req EXCEPT ![q].at = "primary", ![q].ver = acct[req[q].acct].ver]
    /\ UNCHANGED <<env, left, step, authTables, authHistory, mailVars>>

\* The provisional session is read back with its version.
readProvisional(q) ==
    /\ req[q].at = "provisional"
    /\ sess[req[q].sess].st = "live"
    /\ req' = [req EXCEPT ![q].at = "primary", ![q].ver = sess[req[q].sess].ver]
    /\ UNCHANGED <<env, left, step, authTables, authHistory, mailVars>>

\* An identity that is bound to nobody may join the account that holds its
\* address; one that is bound may only be the account's own.
protectedAccount(a) ==
    MFA(a) \/ \E x \in Subjects : ident[x] = a \/ \E k \in Keys : key[k] = a

Unbound(x) == x # NoSubject /\ ident[x] = 0

pendingOAuthIdentityTx(a, x) ==
    IF Unbound(x)
    THEN /\ SubjectEmail[x] = acct[a].email
         /\ acct[a].verified \/ ~protectedAccount(a)
         /\ \A y \in Subjects : ident[y] # a
    ELSE x # NoSubject => ident[x] = a

linkOAuthIdentityTx(x, a) == IF Unbound(x) THEN [ident EXCEPT ![x] = a] ELSE ident

\* The browser's earlier session, if it has one, is signed out.
Previous == {0} \cup IF May("previous") THEN {s \in DOMAIN sess : Human(s)} ELSE {}

\* A mutant of Retire: the password is kept.
RetireAlone(a) == [acct EXCEPT ![a].ver = @ + 1, ![a].verified = TRUE]

\* An unverified registration is retired before its address's owner gets in.
Retire(a) ==
    [acct EXCEPT ![a].ver = @ + 1, ![a].verified = TRUE, ![a].pw = NoPassword]

afterPrimaryLogin(q, old) ==
    /\ req[q].at = "primary"
    /\ LET r == req[q]
           a == r.acct
           x == r.subj
           basis == r.basis
           S == RevokeHumanSession(RevokeHumanSession(sess, r.sess), old)
       IN /\ Live(a) /\ r.ver = acct[a].ver
          /\ pendingOAuthIdentityTx(a, x)
          /\ \/ /\ ~acct[a].verified /\ Unbound(x)
                /\ acct' = Retire(a)
                /\ sess' = issueSessionTx(invalidateSessions(S, a, 0, 0), a,
                                          r.ver + 1, FALSE, basis)
                /\ chal' = invalidateChallenges(chal, a)
                /\ ident' = linkOAuthIdentityTx(x, a)
                /\ mail' = queueEmailTx(mail, a, acct[a].email, 0)
             \/ /\ ~acct[a].verified /\ ~Unbound(x)
                /\ sess' = S
                /\ \E c \in {0} \cup {d \in DOMAIN chal : chal[d].purpose = "verify"} :
                      chal' = newChallengeTx(consumeChallengeTx(chal, c), "verify", a,
                                             acct[a].email, r.ver, 0, NoSubject, TRUE, basis)
                /\ mail' = queueEmailTx(mail, a, acct[a].email, Len(chal'))
                /\ UNCHANGED <<acct, ident>>
             \/ /\ acct[a].verified /\ MFA(a)
                /\ sess' = S
                /\ chal' = newChallengeTx(chal, "mfa", a, acct[a].email, r.ver, 0,
                                          IF Unbound(x) THEN x ELSE NoSubject, FALSE, basis)
                /\ UNCHANGED <<acct, ident, mail>>
             \/ /\ acct[a].verified /\ ~MFA(a)
                /\ sess' = issueSessionTx(S, a, r.ver, FALSE, basis)
                /\ ident' = linkOAuthIdentityTx(x, a)
                /\ mail' = IF Unbound(x) THEN queueEmailTx(mail, a, acct[a].email, 0)
                           ELSE mail
                /\ UNCHANGED <<acct, chal>>
    /\ Finish(q)
    /\ UNCHANGED <<env, left, step, login, key, authHistory, suppressed>>

tryMFA(q, c) == attemptChallenge(q, c, "mfa", 0, "mfa")

finishMFA(q, old) ==
    /\ challengeTx(q, "mfa", "mfa")
    /\ LET c == req[q].chal
           a == chal[c].acct
           x == chal[c].subj
       IN /\ SameVersion(c) /\ MFA(a) /\ acct[a].verified
          /\ pendingOAuthIdentityTx(a, x)
          /\ \E f \in Factors(a) :
                /\ acct' = verifyFactorTx(acct, a, f)
                /\ Accept({f, <<"challenge", c>>})
          /\ ident' = linkOAuthIdentityTx(x, a)
          /\ mail' = IF Unbound(x) THEN queueEmailTx(mail, a, acct[a].email, 0) ELSE mail
          /\ sess' = issueSessionTx(RevokeHumanSession(sess, old), a, acct[a].ver, TRUE,
                                    chal[c].basis)
          /\ chal' = consumeChallengeTx(chal, c)
    /\ Finish(q)
    /\ UNCHANGED <<env, left, step, login, key, proven, suppressed>>

signout(q, s) ==
    /\ Begin(q, "signout")
    /\ Human(s)
    /\ sess' = RevokeHumanSession(sess, s)
    /\ UNCHANGED <<env, step, acct, chal, login, key, ident, req, authHistory, mailVars>>

-----------------------------------------------------------------------------
(* Signing in with a provider.                                             *)

\* A link is started from a session that authenticated within five minutes.
beginOAuth(q, mode, s) ==
    /\ Begin(q, mode)
    /\ mode = "link" => Human(s) /\ recentAuth(s)
    /\ login' = Row(login, [mode |-> mode, acct |-> IF mode = "link" THEN sess[s].acct ELSE 0])
    /\ UNCHANGED <<env, step, acct, sess, chal, key, ident, req, authHistory, mailVars>>

\* The state is deleted by the statement that reads it.
consumeOAuth(q, l, s) ==
    /\ May("callback") /\ req[q] = Idle /\ login[l] # NoLogin
    /\ login' = [login EXCEPT ![l] = NoLogin]
    /\ req' = [req EXCEPT ![q] = [Idle EXCEPT !.op = "callback", !.at = "consumed",
                                              !.sess = s, !.link = login[l].acct]]
    /\ Accept({<<"login", l>>})
    /\ UNCHANGED <<env, left, step, acct, sess, chal, key, ident, proven, mailVars>>

\* A link is checked against the browser's session once more; the provider
\* is then asked who this is, which takes up to twenty seconds.
oauthCallback(q, x) ==
    /\ req[q].at = "consumed"
    /\ LET r == req[q] IN
       r.link # 0 => Human(r.sess) /\ recentAuth(r.sess) /\ sess[r.sess].acct = r.link
    /\ req' = [req EXCEPT ![q].at = "identified", ![q].subj = x]
    /\ UNCHANGED <<env, left, step, authTables, authHistory, mailVars>>

\* Linking asks for a recent session of the account, inside the transaction
\* that binds the identity.
oauthLinkGuard(a, s) ==
    /\ recentAuth(s) /\ sess[s].acct = a
    /\ "mfa" \in sess[s].has \/ ~MFA(a)

\* A serializable transaction.  A bound identity resolves to its account; a
\* new one to the account it is being linked to, else to the holder of its
\* address (bound later, when sign-in completes), else to a new account.
signinOAuth(q) ==
    /\ req[q].at = "identified"
    /\ LET r == req[q]
           x == r.subj
           held == Holders(SubjectEmail[x])
           a == IF ident[x] # 0 THEN ident[x]
                ELSE IF r.link # 0 THEN r.link
                ELSE IF held # {} THEN CHOOSE y \in held : TRUE
                ELSE Len(acct) + 1
           new == a = Len(acct) + 1
           joins == ident[x] = 0 /\ r.link = 0 /\ ~new
           v == IF new THEN 0 ELSE IF r.link # 0 THEN acct[a].ver + 1 ELSE acct[a].ver
       IN /\ new \/ Live(a)
          /\ r.link # 0 => a = r.link /\ oauthLinkGuard(a, r.sess)
          /\ ident[x] = 0 /\ ~new => \A y \in Subjects : ident[y] # a
          /\ joins => acct[a].verified \/ ~protectedAccount(a)
          /\ ident' = IF joins THEN ident ELSE [ident EXCEPT ![x] = a]
          /\ acct' = IF new
                     THEN Row(acct, [NoAccount EXCEPT !.st = "live", !.verified = TRUE,
                                                      !.email = SubjectEmail[x]])
                     ELSE [acct EXCEPT ![a].ver = v]
          /\ LET S == IF r.link = 0 THEN sess ELSE invalidateSessions(sess, a, r.sess, v)
             IN sess' = Row(S, newSession(a, v, {"provisional"}, x))
          /\ chal' = IF r.link = 0 THEN chal ELSE invalidateChallenges(chal, a)
          /\ mail' = IF r.link = 0 THEN mail ELSE queueEmailTx(mail, a, acct[a].email, 0)
          /\ req' = [req EXCEPT ![q] = [Idle EXCEPT !.op = "callback", !.at = "provisional",
                                        !.acct = a, !.sess = Len(sess'), !.subj = x,
                                        !.basis = x]]
    /\ UNCHANGED <<env, left, step, login, key, authHistory, suppressed>>

-----------------------------------------------------------------------------
(* Account security, for a person who is signed in.                        *)

Unhurried == {"reauth", "sessions", "delete start"}    \* routes that need no recent sign-in

\* The session is resolved, and its age checked, before the transaction.
openSecurity(q, s, route) ==
    /\ Begin(q, route)
    /\ Human(s)
    /\ route \in Unhurried \/ recentAuth(s)
    /\ req' = [req EXCEPT ![q] = [Idle EXCEPT !.op = route, !.at = "resolved",
                                              !.acct = sess[s].acct, !.sess = s]]
    /\ UNCHANGED <<env, step, authTables, authHistory, mailVars>>

\* The transaction asks again whether the session is current.
accountSecurity(q, route) ==
    /\ req[q].op = route /\ req[q].at = "resolved"
    /\ Current(req[q].sess)

\* A change of credentials: every other session and every challenge ends.
ChangesCredentials(q, A, S) ==
    LET a == req[q].acct
        v == acct[a].ver + 1
    IN /\ acct' = [A EXCEPT ![a].ver = v]
       /\ sess' = invalidateSessions(S, a, req[q].sess, v)
       /\ chal' = invalidateChallenges(chal, a)
       /\ mail' = queueEmailTx(mail, a, acct[a].email, 0)
       /\ Finish(q)
       /\ UNCHANGED <<env, left, step, login, ident, suppressed>>

\* The statement that waits for the account's row asks for MFA in a subquery,
\* whose snapshot was taken before the wait.
authAccountTx(q) ==
    /\ req[q].op = "reauth" /\ req[q].at = "resolved" /\ Live(req[q].acct)
    /\ req' = [req EXCEPT ![q].at = IF MFA(req[q].acct) THEN "with factor" ELSE "without"]
    /\ UNCHANGED <<env, left, step, authTables, authHistory, mailVars>>

\* Password (if the account has one) and factor (if it was seen to have MFA);
\* an account with neither confirms with a passkey or its provider.  The factor
\* is looked for in the tables as they are by now; "raced" marks a session that
\* was confirmed without one after the account got MFA.
reauth(q, p) ==
    LET a == req[q].acct
        s == req[q].sess
        mfa == req[q].at = "with factor"
        S == rotateSessionTx(sess, s, mfa)
    IN /\ req[q].at \in {"with factor", "without"} /\ Current(s)
       /\ IF acct[a].pw = NoPassword THEN mfa ELSE p = acct[a].pw
       /\ mfa => MFA(a)
       /\ \E fs \in IF mfa THEN Asked(a) ELSE {{}} :
             /\ acct' = AfterFactor(acct, a, fs)
             /\ Accept(fs)
       /\ sess' = IF MFA(a) /\ ~mfa THEN [S EXCEPT ![s].has = @ \cup {"raced"}] ELSE S
       /\ Finish(q)
       /\ UNCHANGED <<env, left, step, chal, login, key, ident, proven, mailVars>>

startTOTP(q) ==
    /\ accountSecurity(q, "totp start")
    /\ LET a == req[q].acct
       IN /\ ~MFA(a)
          /\ acct' = [acct EXCEPT ![a].totp = "pending", ![a].secret = @ + 1, ![a].last = -1]
    /\ Finish(q)
    /\ UNCHANGED <<env, left, step, sess, chal, login, key, ident, authHistory, mailVars>>

\* A mutant of elevateSession: the bearer is kept.
elevateBearer(S, s) == [S EXCEPT ![s].has = @ \cup {"mfa"}]

\* Enabling MFA elevates this session, so its bearer is replaced.
elevateSession(S, s) == rotateSessionTx([S EXCEPT ![s].has = @ \cup {"mfa"}], s, TRUE)

confirmTOTP(q) ==
    /\ accountSecurity(q, "totp confirm")
    /\ LET a == req[q].acct
           A == [acct EXCEPT ![a].totp = "on"]
       IN /\ acct[a].totp = "pending"
          /\ \E n \in acceptedTOTPStep(-1) :
                /\ ChangesCredentials(q, recoveryCodesTx([A EXCEPT ![a].last = n], a),
                                      elevateSession(sess, req[q].sess))
                /\ Accept({<<"totp", a, acct[a].secret, n>>})
    /\ UNCHANGED <<key, proven>>

removeTOTP(q) ==
    /\ accountSecurity(q, "totp remove")
    /\ ChangesCredentials(q, [acct EXCEPT ![req[q].acct].totp = "none",
                                          ![req[q].acct].codes = {}], sess)
    /\ UNCHANGED <<key, authHistory>>

replaceRecoveryCodes(q) ==
    /\ accountSecurity(q, "recovery codes")
    /\ MFA(req[q].acct)
    /\ ChangesCredentials(q, recoveryCodesTx(acct, req[q].acct), sess)
    /\ UNCHANGED <<key, authHistory>>

changePassword(q, p) ==
    /\ accountSecurity(q, "password")
    /\ ChangesCredentials(q, [acct EXCEPT ![req[q].acct].pw = p], sess)
    /\ proven' = proven \cup {<<req[q].acct, p>>}
    /\ UNCHANGED <<key, spent, twice>>

removePasskey(q, k) ==
    /\ accountSecurity(q, "passkey remove")
    /\ key[k] = req[q].acct
    /\ key' = [key EXCEPT ![k] = 0]
    /\ ChangesCredentials(q, acct, sess)
    /\ UNCHANGED authHistory

\* One session, or every other one: the credentials stay as they are.
endSessions(q, T) ==
    /\ accountSecurity(q, "sessions")
    /\ T \in {{s} : s \in DOMAIN sess} \cup {DOMAIN sess \ {req[q].sess}}
    /\ \E s \in T : sess[s].acct = req[q].acct
    /\ sess' = [s \in DOMAIN sess |->
                  IF s \in T /\ sess[s].acct = req[q].acct THEN NoSession ELSE sess[s]]
    /\ Finish(q)
    /\ UNCHANGED <<env, left, step, acct, chal, login, key, ident, authHistory, mailVars>>

-----------------------------------------------------------------------------
(* Passkeys.                                                               *)

\* The ceremony of a signed-in person is bound to the session and version.
beginPasskey(q, purpose, s, old) ==
    /\ Begin(q, purpose)
    /\ old # 0 => chal[old].purpose \in {"passkey login", "passkey register", "passkey reauth"}
    /\ purpose # "passkey login" => Human(s)
    /\ purpose = "passkey register" => recentAuth(s)
    /\ LET bound == purpose # "passkey login"
           a == IF bound THEN sess[s].acct ELSE 0
       IN chal' = newChallengeTx(consumeChallengeTx(chal, old), purpose, a, "none",
                                 IF bound THEN acct[a].ver ELSE 0,
                                 IF bound THEN s ELSE 0, NoSubject, FALSE, "none")
    /\ UNCHANGED <<env, step, acct, sess, login, key, ident, req, authHistory, mailVars>>

tryPasskey(q, c, s) ==
    /\ c \in DOMAIN chal
    /\ chal[c].purpose # "passkey login" => Human(s) /\ chal[c].sess = s
    /\ chal[c].purpose = "passkey register" => recentAuth(s)
    /\ attemptChallenge(q, c, chal[c].purpose, s, "passkey")

\* The bound ceremony's session must still be current at the same version.
boundPasskey(q) ==
    LET c == req[q].chal
    IN /\ chal[c].sess = req[q].sess /\ SameVersion(c) /\ Current(req[q].sess)
       /\ sess[req[q].sess].acct = chal[c].acct

registerPasskey(q, k) ==
    /\ challengeTx(q, "passkey", "passkey register")
    /\ boundPasskey(q)
    /\ key[k] = 0
    /\ LET c == req[q].chal
           a == chal[c].acct
           v == acct[a].ver + 1
       IN /\ key' = [key EXCEPT ![k] = a]
          /\ acct' = [acct EXCEPT ![a].ver = v]
          /\ sess' = invalidateSessions(sess, a, req[q].sess, v)
          /\ chal' = consumeChallengeTx(invalidateChallenges(chal, a), c)
          /\ mail' = queueEmailTx(mail, a, acct[a].email, 0)
          /\ Accept({<<"challenge", c>>})
    /\ Finish(q)
    /\ UNCHANGED <<env, left, step, login, ident, proven, suppressed>>

reauthPasskey(q, k) ==
    /\ challengeTx(q, "passkey", "passkey reauth")
    /\ boundPasskey(q)
    /\ key[k] = chal[req[q].chal].acct
    /\ sess' = rotateSessionTx(sess, req[q].sess, TRUE)
    /\ chal' = consumeChallengeTx(chal, req[q].chal)
    /\ Accept({<<"challenge", req[q].chal>>})
    /\ Finish(q)
    /\ UNCHANGED <<env, left, step, acct, login, key, ident, proven, mailVars>>

loginPasskey(q, k, old) ==
    /\ challengeTx(q, "passkey", "passkey login")
    /\ Live(key[k]) /\ acct[key[k]].verified
    /\ sess' = issueSessionTx(RevokeHumanSession(sess, old), key[k], acct[key[k]].ver, TRUE, k)
    /\ chal' = consumeChallengeTx(chal, req[q].chal)
    /\ Accept({<<"challenge", req[q].chal>>})
    /\ Finish(q)
    /\ UNCHANGED <<env, left, step, acct, login, key, ident, proven, mailVars>>

-----------------------------------------------------------------------------
(* Time: the authenticator's clock, sessions and proofs that grow old, and  *)
(* the maintenance that removes what expired.                               *)

Tick ==
    /\ step < env.steps
    /\ step' = step + 1
    /\ UNCHANGED <<env, left, authTables, req, authHistory, mailVars>>

GrowOld(s) ==
    /\ May("time")
    /\ \E old \in {NoSession, [sess[s] EXCEPT !.has = @ \ {"recent"}]} :
          sess[s] # old /\ sess' = [sess EXCEPT ![s] = old]
    /\ UNCHANGED <<env, left, step, acct, chal, login, key, ident, req, authHistory, mailVars>>

RunAuthMaintenance ==
    /\ May("time")
    /\ \/ \E c \in DOMAIN chal : chal[c] # NoChallenge /\ chal' = consumeChallengeTx(chal, c)
          /\ UNCHANGED <<acct, login>>
       \/ \E l \in DOMAIN login : login[l] # NoLogin /\ login' = [login EXCEPT ![l] = NoLogin]
          /\ UNCHANGED <<acct, chal>>
       \/ \E a \in DOMAIN acct : acct[a].totp = "pending" /\ acct' = [acct EXCEPT ![a].totp = "none"]
          /\ UNCHANGED <<chal, login>>
    /\ UNCHANGED <<env, left, step, sess, key, ident, req, authHistory, mailVars>>

-----------------------------------------------------------------------------

EmailStep(q) ==
    \/ \E e \in Emails, purpose \in {"signup", "reset"} : startEmailAuth(q, e, purpose)
    \/ \E old \in {0} \cup {c \in DOMAIN chal : chal[c].purpose = req[q].op} :
          insertEmailChallenge(q, old)
    \/ \E c \in DOMAIN chal, purpose \in {"signup", "reset", "verify"} :
          tryEmailCode(q, c, purpose)
    \/ \E p \in Passwords : finishSignup(q, p)
    \/ \E p \in Passwords, purpose \in {"reset", "verify"} : finishEmailAuth(q, p, purpose)

SigninStep(q) ==
    \/ \E a \in DOMAIN acct, p \in Passwords : Signin(q, a, p)
    \/ readProvisional(q)
    \/ \E old \in Previous : afterPrimaryLogin(q, old)
    \/ \E c \in DOMAIN chal : tryMFA(q, c)
    \/ \E old \in Previous : finishMFA(q, old)
    \/ \E s \in DOMAIN sess : signout(q, s)

OAuthStep(q) ==
    \/ \E mode \in {"oauth", "link"}, s \in {0} \cup DOMAIN sess : beginOAuth(q, mode, s)
    \/ \E l \in DOMAIN login, s \in {0} \cup DOMAIN sess : consumeOAuth(q, l, s)
    \/ \E x \in Subjects : oauthCallback(q, x)
    \/ signinOAuth(q)

Routes == {"reauth", "totp start", "totp confirm", "totp remove", "recovery codes",
           "password", "passkey remove", "sessions"}

SecurityStep(q) ==
    \/ \E s \in DOMAIN sess, route \in Routes : openSecurity(q, s, route)
    \/ authAccountTx(q)
    \/ \E p \in Passwords : reauth(q, p) \/ changePassword(q, p)
    \/ startTOTP(q) \/ confirmTOTP(q) \/ removeTOTP(q) \/ replaceRecoveryCodes(q)
    \/ \E k \in Keys : removePasskey(q, k)
    \/ \E T \in SUBSET DOMAIN sess : endSessions(q, T)

PasskeyStep(q) ==
    \/ \E s \in {0} \cup DOMAIN sess, old \in {0} \cup DOMAIN chal,
          purpose \in {"passkey login", "passkey register", "passkey reauth"} :
          beginPasskey(q, purpose, s, old)
    \/ \E c \in DOMAIN chal, s \in {0} \cup DOMAIN sess : tryPasskey(q, c, s)
    \/ \E k \in Keys : registerPasskey(q, k) \/ reauthPasskey(q, k)
    \/ \E k \in Keys, old \in Previous : loginPasskey(q, k, old)

AuthStep ==
    \/ \E q \in Clients :
          \/ Abandon(q)
          \/ EmailStep(q)
          \/ SigninStep(q)
          \/ OAuthStep(q)
          \/ SecurityStep(q)
          \/ PasskeyStep(q)
    \/ Tick
    \/ \E s \in DOMAIN sess : GrowOld(s)
    \/ RunAuthMaintenance
    \/ /\ MailStep
       /\ UNCHANGED <<env, left, step, authTables, req, authHistory>>

AuthInit ==
    /\ env \in Environments
    /\ left = env.requests
    /\ step = 1
    /\ acct = env.accounts /\ sess = env.sessions
    /\ chal = <<>> /\ login = <<>>
    /\ key = env.keys /\ ident = env.idents
    /\ req = [q \in Clients |-> Idle]
    /\ spent = {} /\ twice = {}
    /\ proven = {<<a, acct[a].pw>> : a \in {b \in DOMAIN acct : acct[b].verified}}
    /\ mail = <<>> /\ suppressed = {}

-----------------------------------------------------------------------------
(* Properties.                                                             *)

\* A session that resolves rests on a credential its account still has, or
\* is the session that changed the credentials: a sign-in that was under way
\* when a password was reset, a passkey removed or an address claimed never
\* ends in a session.  The version carried from the first proof to the last
\* (auth_http.go:308, :381, :231) is what keeps it so.
SessionsRestOnCredentials ==
    \A s \in DOMAIN sess : Human(s) =>
        LET a == sess[s].acct
            b == sess[s].basis
        IN \/ b = "changed it"
           \/ b = acct[a].pw
           \/ b \in Subjects /\ ident[b] = a
           \/ b \in Keys /\ key[b] = a

\* Once an account has MFA, a bearer resolves only if it was handed out in
\* answer to a factor or a passkey: one issued earlier, on whichever path,
\* does not inherit the elevation (auth_security.go:155, auth_factors.go:263).
\* The exception: a confirmation by password that waited for the account's row
\* while MFA was enabled from the same session, and read that there was none
\* (auth_security.go:53), replaces the bearer of the elevated session.
FactorBehindEverySession ==
    \A s \in DOMAIN sess :
        Human(s) /\ MFA(sess[s].acct) => sess[s].has \cap {"strong", "raced"} # {}

\* Mailed codes, ceremonies, sign-in states, recovery codes and authenticator
\* steps are accepted once, also when two requests present the same one.
ProofsAreSpentOnce == twice = {}

\* The password of a verified account was chosen by someone who had proved
\* the address or was signed in: one left by whoever registered the address
\* first does not survive the owner's proof (oauth_store.go:218).
VerifiedPasswordIsProven ==
    \A a \in DOMAIN acct :
        Live(a) /\ acct[a].verified /\ acct[a].pw # NoPassword =>
            <<a, acct[a].pw>> \in proven

=============================================================================
