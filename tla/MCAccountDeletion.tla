-------------------------- MODULE MCAccountDeletion --------------------------
(***************************************************************************)
(* Small instances of AccountDeletion.  A scenario picks the rows there    *)
(* are at first and the operations that interleave.                        *)
(***************************************************************************)
EXTENDS AccountDeletion

Account(e, p) == [NoAccount EXCEPT !.st = "live", !.email = e, !.pw = p, !.verified = TRUE]
Unverified(e, p) == [Account(e, p) EXCEPT !.verified = FALSE]
WithMFA(e, p) == [Account(e, p) EXCEPT !.totp = "on", !.codes = {9}]
Session(a) == newSession(a, 0, {}, "old")
Strong(a) == newSession(a, 0, {"mfa", "strong"}, "old")

Quiet == [ops |-> {}, requests |-> 0, steps |-> 1,
          accounts |-> <<>>, sessions |-> <<>>,
          keys |-> [k \in Keys |-> 0], idents |-> [x \in Subjects |-> 0],
          bill |-> NoBill, subs |-> <<>>, calls |-> 0, moves |-> 0,
          vms |-> {}, up |-> {}, faults |-> 0,
          owners |-> <<{}, {}>>, others |-> <<{}, {}>>, agents |-> {}, artifacts |-> {}]

Person == [Quiet EXCEPT !.requests = 4, !.accounts = <<Account("e1", "old")>>,
                        !.sessions = <<Session(1)>>]

\* Passwords are reset, changed and confirmed while people sign in and out.
PasswordScenario == [Person EXCEPT
    !.ops = {"signin", "reset", "email code", "password", "sessions", "signout", "reauth"}]

\* Two requests present the same factors while MFA is removed or its codes
\* are replaced; and MFA is enabled while somebody signs in.
FactorScenario == [Person EXCEPT !.steps = 2,
    !.ops = {"signin", "mfa", "totp remove", "recovery codes", "reauth", "totp start", "totp confirm"},
    !.accounts = <<WithMFA("e1", "old")>>, !.sessions = <<Strong(1)>>]
EnrolScenario == [Person EXCEPT
    !.ops = {"signin", "mfa", "totp start", "totp confirm", "reauth"}]

\* An address somebody registered without proving it is claimed by its owner,
\* through the provider, by mail, or by signing in.
ClaimScenario == [Person EXCEPT !.requests = 3,
    !.ops = {"signin", "oauth", "callback", "email code"},
    !.accounts = <<Unverified("e1", "old")>>, !.sessions = <<>>]

\* Identities are linked and used while the password is reset.
LinkScenario == [Person EXCEPT !.requests = 3,
    !.ops = {"oauth", "callback", "link", "reset", "email code"}]

\* Passkeys come and go while they are used.
PasskeyScenario == [Person EXCEPT !.requests = 5,
    !.ops = {"passkey", "passkey login", "passkey register", "passkey reauth", "passkey remove",
             "previous"},
    !.keys = [k \in Keys |-> IF k = "k1" THEN 1 ELSE 0]]

\* Sign-up by mail, with the outbox, and proofs that expire.
SignupScenario == [Person EXCEPT !.requests = 2, !.ops = {"signup", "email code", "time", "mail"},
    !.accounts = <<>>, !.sessions = <<>>]
ExpiryScenario == [Person EXCEPT !.requests = 2,
    !.ops = {"totp start", "totp confirm", "link", "callback", "time"}]

-----------------------------------------------------------------------------

Subscription == [plan |-> "payg", status |-> "active", paid |-> TRUE, period |-> 1,
                 ends |-> FALSE, sched |-> "none", next |-> "none"]
Subscribed == [NoBill EXCEPT !.customer = TRUE, !.sub = 1, !.status = "active",
                             !.plan = "payg", !.period = 1]
Owned == [Person EXCEPT !.requests = 0, !.owners = <<{1}, {}>>]
Paying == [Owned EXCEPT !.bill = Subscribed, !.subs = <<Subscription>>]

\* Checkout, webhooks and a provider that moves on meanwhile.
CheckoutScenario == [Owned EXCEPT !.calls = 2, !.moves = 3,
    !.ops = {"checkout", "webhook", "provider", "time"}]
PlanScenario == [Paying EXCEPT !.calls = 2, !.moves = 2, !.ops = {"plan", "webhook", "provider"}]

\* A server's life, with dispatchers that lose their lock or stop.
ServerScenario == [Paying EXCEPT !.vms = {1}, !.faults = 2,
    !.ops = {"vps", "vps delete", "vps expiry", "reconcile"}]

\* Metering across interruptions of the subscription, with collectors that lose
\* their lock, and with lost answers of the meter.
MeterScenario == [Paying EXCEPT !.up = {1}, !.moves = 2,
    !.ops = {"collect", "clock", "provider", "webhook"}]
SlowScenario == [Paying EXCEPT !.up = {1}, !.faults = 2, !.ops = {"collect", "clock"}]
SendScenario == [Paying EXCEPT !.faults = 2, !.ops = {"ingest", "send"}]

-----------------------------------------------------------------------------

\* Two people with a workspace each.  One of them deletes the account, and the
\* artifact of that workspace is erased while the other, or an agent, uploads
\* the same bytes.
Two == [Person EXCEPT !.accounts = <<WithMFA("e1", "old"), Account("e2", "old")>>,
                      !.sessions = <<Strong(1), Session(2)>>,
                      !.owners = <<{1}, {2}>>, !.agents = {<<2, 2>>},
                      !.artifacts = {<<1, "d">>, <<2, "d">>}]
ErasureScenario == [Two EXCEPT !.requests = 2, !.artifacts = {<<1, "d">>},
    !.ops = {"delete start", "delete finish", "upload", "late erasure"}]

\* Both delete their accounts, one while the other's artifact is being erased.
BothLeaveScenario == [Two EXCEPT !.ops = {"delete start", "delete finish", "email code"}]

\* The owner of a workspace deletes the account: while a subscription is about
\* to end, and while a server, which outlives it, is on its way out.
LeaveScenario == [Paying EXCEPT !.requests = 2, !.moves = 2,
    !.ops = {"delete start", "delete finish", "webhook", "provider"}]
Ended == [Owned EXCEPT !.bill = [Subscribed EXCEPT !.status = "canceled"],
                       !.subs = <<[Subscription EXCEPT !.status = "canceled"]>>]
HostedScenario == [Ended EXCEPT !.requests = 2, !.vms = {1}, !.up = {1}, !.faults = 1,
    !.ops = {"delete start", "delete finish", "vps delete", "reconcile"}]

\* A shared workspace loses a member, who has an unfinished change of password.
MemberScenario == [Two EXCEPT !.requests = 3, !.owners = <<{1}, {1}>>, !.others = <<{}, {2}>>,
    !.ops = {"delete start", "delete finish", "delete cancel", "signin", "password", "host"}]

Scenarios == {PasswordScenario, FactorScenario, EnrolScenario, ClaimScenario, LinkScenario,
              PasskeyScenario, SignupScenario, ExpiryScenario, CheckoutScenario, PlanScenario,
              ServerScenario, MeterScenario, SlowScenario, SendScenario, ErasureScenario,
              BothLeaveScenario, LeaveScenario, HostedScenario, MemberScenario}

\* The customer's first subscription ended, and the event that says so is on
\* its way while the owner subscribes again.
AgainScenario == [Paying EXCEPT !.calls = 2, !.moves = 3,
    !.ops = {"checkout", "webhook", "provider"}]
Subscribing == {AgainScenario}

SameAddress == [x \in {"x1", "x2"} |-> "e1"]

=============================================================================
