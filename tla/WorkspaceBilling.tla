--------------------------- MODULE WorkspaceBilling ---------------------------
(***************************************************************************)
(* Billing of one workspace: its row in workspace_billing and what the     *)
(* payment provider has for its customer.                                  *)
(*                                                                         *)
(* Checkout, plan changes and webhooks lock the row and keep the lock       *)
(* while they call the provider; `hold` is the transaction that has it.    *)
(* The provider moves on meanwhile, each change of a subscription being    *)
(* announced by an event that it repeats until it is accepted.  Events say *)
(* nothing the handler relies on, so they are only counted.  A call fails  *)
(* before or after it took effect: Rollback is enabled after every call.   *)
(***************************************************************************)
EXTENDS Scenario, Naturals, Sequences, FiniteSets

CONSTANTS Plans,     \* the plans of the catalogue, "payg" and "pro"
          Servers    \* requests for servers, the resources that are metered

VARIABLES bill,    \* the row of workspace_billing
          sub,     \* at the provider: subscriptions of the customer
          ck,      \* at the provider: checkout sessions of the customer
          keyed,   \* at the provider: idempotency keys of schedule calls
          due,     \* events the provider has not seen accepted
          hold,    \* the transaction that has the row locked
          asked,   \* requests of owners that were authorized
          calls,   \* requests owners may still make (a bound)
          moves,   \* changes the provider may still make (a bound)
          sample   \* billing_resource_samples, per server

provider == <<sub, ck, keyed, due, moves>>
billVars == <<bill, provider, hold, asked, calls, sample>>

NoBill == [customer |-> FALSE, sub |-> 0, status |-> "none", plan |-> "none",
           period |-> 0, ends |-> FALSE, ck |-> 0, link |-> "none",
           cplan |-> "none", attempt |-> 0]
Free == [op |-> "free", at |-> "none", plan |-> "none", end |-> 0, seen |-> {}]
NoSample == [sub |-> 0, period |-> 0, at |-> 0, rest |-> {}]

Over(s) == s.status = "canceled"
Ongoing == {i \in DOMAIN sub : ~Over(sub[i])}

Release == hold' = Free
Proceed(at) == hold' = [hold EXCEPT !.at = at]
At(op, at) == hold.op = op /\ hold.at = at

\* An owner's request: the role is checked before the row is locked.
Ask(r, open) ==
    /\ May(r.op) /\ calls > 0 /\ open
    /\ asked' = asked \cup {r}
    /\ calls' = calls - 1
    /\ UNCHANGED <<env, bill, provider, hold, sample>>

\* The row is locked; a workspace that was deleted has none to lock or insert.
Lock(r, exists) ==
    /\ r \in asked /\ hold = Free /\ exists
    /\ asked' = asked \ {r}
    /\ hold' = [op |-> r.op, at |-> "locked", plan |-> r.plan, end |-> r.end, seen |-> {}]
    /\ UNCHANGED <<env, bill, provider, calls, sample>>

\* A mutant of Rollback: a webhook that failed is answered like one that did not.
RollbackAccepted ==
    /\ hold # Free /\ Release
    /\ due' = IF hold.op = "webhook" THEN due - 1 ELSE due
    /\ UNCHANGED <<env, bill, sub, ck, keyed, moves, asked, calls, sample>>

\* A call fails or its answer is lost, the commit fails, or the process dies.
Rollback ==
    /\ hold # Free /\ Release
    /\ UNCHANGED <<env, bill, provider, asked, calls, sample>>

-----------------------------------------------------------------------------
(* Checkout.                                                               *)

\* The customer's identifier is committed on its own, and the request starts
\* over; a repeated call returns the same customer.
linkCustomer ==
    /\ At("checkout", "locked") /\ ~bill.customer
    /\ bill' = [bill EXCEPT !.customer = TRUE]
    /\ asked' = asked \cup {[op |-> "checkout", plan |-> hold.plan, end |-> 0]}
    /\ Release
    /\ UNCHANGED <<env, provider, calls, sample>>

refuseSecond ==
    /\ At("checkout", "locked") /\ bill.customer
    /\ Ongoing = {}
    /\ Proceed(IF bill.link = "open" THEN "reuse" ELSE "new")
    /\ UNCHANGED <<env, bill, provider, asked, calls, sample>>

\* The earlier session is handed out again, replaced, or is completing.
reuseCheckout ==
    /\ At("checkout", "reuse")
    /\ LET st == ck[bill.ck].st
       IN \/ st = "open" /\ bill.cplan = hold.plan /\ Release
          \/ st = "open" /\ bill.cplan # hold.plan /\ Proceed("expire")
          \/ st = "expired" /\ Proceed("new")
          \/ st = "complete" /\ Release
    /\ UNCHANGED <<env, bill, provider, asked, calls, sample>>

expireCheckout ==
    /\ At("checkout", "expire")
    /\ ck[bill.ck].st = "open"
    /\ ck' = [ck EXCEPT ![bill.ck].st = "expired"]
    /\ Proceed("new")
    /\ UNCHANGED <<env, bill, sub, keyed, due, moves, asked, calls, sample>>

\* The provider answers a repeated key with the session it already made.
CheckoutKey == <<hold.plan, bill.attempt + 1>>
MadeBefore == {i \in DOMAIN ck : ck[i].key = CheckoutKey}

createCheckout ==
    /\ At("checkout", "new")
    /\ ck' = IF MadeBefore # {} THEN ck
             ELSE Append(ck, [key |-> CheckoutKey, plan |-> hold.plan, st |-> "open",
                              known |-> FALSE])
    /\ Proceed("made")
    /\ UNCHANGED <<env, bill, sub, keyed, due, moves, asked, calls, sample>>

\* The address leaves the server after the commit.
saveCheckout ==
    /\ At("checkout", "made")
    /\ LET i == CHOOSE j \in DOMAIN ck : ck[j].key = CheckoutKey
       IN /\ bill' = [bill EXCEPT !.ck = i, !.link = "open", !.cplan = hold.plan,
                                  !.attempt = @ + 1]
          /\ ck' = [ck EXCEPT ![i].known = TRUE]
    /\ Release
    /\ UNCHANGED <<env, sub, keyed, due, moves, asked, calls, sample>>

-----------------------------------------------------------------------------
(* Plan changes are schedules at the provider, in force at the renewal.    *)

reviewPlan ==
    /\ At("plan", "locked") /\ bill.sub # 0
    /\ LET s == sub[bill.sub]
       IN /\ s.status = "active" /\ ~s.ends /\ hold.end = s.period
          /\ s.sched = "bare" => <<bill.attempt + 1, "create">> \in keyed
          /\ Proceed(IF hold.plan = s.plan
                     THEN IF s.sched = "none" THEN "save" ELSE "release"
                     ELSE IF s.sched = "none" THEN "create" ELSE "update")
    /\ UNCHANGED <<env, bill, provider, asked, calls, sample>>

\* One call on the schedule; a key that was used is answered without effect.
Once(what, sched, next, then) ==
    LET k == <<bill.attempt + 1, what>>
    IN /\ keyed' = keyed \cup {k}
       /\ sub' = IF k \in keyed THEN sub
                 ELSE [sub EXCEPT ![bill.sub].sched = sched, ![bill.sub].next = next]
       /\ Proceed(then)
       /\ UNCHANGED <<env, bill, ck, due, moves, asked, calls, sample>>

createSchedule == At("plan", "create") /\ Once("create", "bare", "none", "update")

updateSchedule ==
    /\ At("plan", "update") /\ sub[bill.sub].sched # "none"
    /\ Once(hold.plan, "ours", hold.plan, "save")

releaseSchedule ==
    /\ At("plan", "release") /\ sub[bill.sub].sched # "none"
    /\ Once("release", "none", "none", "save")

savePlanChange ==
    /\ At("plan", "save")
    /\ bill' = [bill EXCEPT !.attempt = @ + 1]
    /\ Release
    /\ UNCHANGED <<env, provider, asked, calls, sample>>

-----------------------------------------------------------------------------
(* Webhooks.                                                               *)

\* The row is found by its customer, which every session that is paid has.
lockWebhook ==
    /\ May("webhook") /\ due > 0 /\ hold = Free /\ bill.customer
    /\ hold' = [Free EXCEPT !.op = "webhook", !.at = "locked"]
    /\ UNCHANGED <<env, bill, provider, asked, calls, sample>>

\* The current state is asked for, under the lock; the event's is not used.
listSubscriptions ==
    /\ At("webhook", "locked")
    /\ Cardinality(Ongoing) <= 1
    /\ hold' = [hold EXCEPT !.at = "listed", !.seen = {<<i, sub[i]>> : i \in Ongoing}]
    /\ UNCHANGED <<env, bill, provider, asked, calls, sample>>

statusOf(s) ==
    IF s.plan = "pro" /\ s.status = "active" /\ ~s.paid THEN "payment_pending"
    ELSE s.status

\* What the row says once it follows the subscriptions in `seen`.
Following(b, seen) ==
    IF seen = {}
    THEN [b EXCEPT !.status = "canceled", !.ends = FALSE, !.link = "none"]
    ELSE LET x == CHOOSE y \in seen : TRUE
         IN [b EXCEPT !.sub = x[1], !.status = statusOf(x[2]), !.plan = x[2].plan,
                      !.period = x[2].period, !.ends = x[2].ends, !.link = "none"]

dropInactive(b) == IF b.status = "active" THEN sample ELSE [v \in Servers |-> NoSample]

billingWebhook ==
    /\ At("webhook", "listed")
    /\ bill' = Following(bill, hold.seen)
    /\ sample' = dropInactive(bill')
    /\ due' = due - 1
    /\ Release
    /\ UNCHANGED <<env, sub, ck, keyed, moves, asked, calls>>

-----------------------------------------------------------------------------
(* The provider and its customer.                                          *)

CompleteCheckout(i) ==
    /\ moves > 0 /\ ck[i].st = "open" /\ ck[i].known
    /\ ck' = [ck EXCEPT ![i].st = "complete"]
    /\ \E paid \in BOOLEAN :
          sub' = Append(sub, [plan |-> ck[i].plan, status |-> "active", paid |-> paid,
                              period |-> 1, ends |-> FALSE, sched |-> "none", next |-> "none"])
    /\ due' = due + 1
    /\ moves' = moves - 1
    /\ UNCHANGED <<env, bill, keyed, hold, asked, calls, sample>>

\* A session runs out when the expiry that the row recorded is reached.
RunOut(i) ==
    /\ May("time") /\ moves > 0 /\ ck[i].st = "open"
    /\ ck' = [ck EXCEPT ![i].st = "expired"]
    /\ bill' = IF bill.ck = i /\ bill.link = "open" THEN [bill EXCEPT !.link = "past"] ELSE bill
    /\ moves' = moves - 1
    /\ UNCHANGED <<env, sub, keyed, due, hold, asked, calls, sample>>

Renewed(s) ==
    [s EXCEPT !.period = @ + 1, !.plan = IF s.next = "none" THEN @ ELSE s.next,
              !.sched = "none", !.next = "none", !.paid = s.next # "pro"]

ChangeSubscription(i) ==
    /\ May("provider") /\ moves > 0 /\ ~Over(sub[i])
    /\ \E s \in {[sub[i] EXCEPT !.status = IF @ = "active" THEN "past_due" ELSE "active"],
                 [sub[i] EXCEPT !.paid = ~@],
                 [sub[i] EXCEPT !.ends = ~@],
                 [sub[i] EXCEPT !.status = "canceled"],
                 Renewed(sub[i])} : sub' = [sub EXCEPT ![i] = s]
    /\ due' = due + 1
    /\ moves' = moves - 1
    /\ UNCHANGED <<env, bill, ck, keyed, hold, asked, calls, sample>>

-----------------------------------------------------------------------------

\* The gate before paid resources: the provider is asked, not the row.
requireBillingPayment ==
    /\ bill.customer /\ bill.sub # 0
    /\ sub[bill.sub].status = "active"
    /\ sub[bill.sub].plan = "pro" => sub[bill.sub].paid

WebhookStep == lockWebhook \/ listSubscriptions \/ billingWebhook

BillingStep(open, exists) ==
    \/ \E op \in {"checkout", "plan"}, p \in Plans :
          Ask([op |-> op, plan |-> p, end |-> IF op = "plan" THEN bill.period ELSE 0], open)
    \/ \E r \in asked : r.op \in {"checkout", "plan"} /\ Lock(r, exists)
    \/ Rollback
    \/ linkCustomer \/ refuseSecond \/ reuseCheckout \/ expireCheckout
    \/ createCheckout \/ saveCheckout
    \/ reviewPlan \/ createSchedule \/ updateSchedule \/ releaseSchedule \/ savePlanChange
    \/ WebhookStep
    \/ \E i \in DOMAIN ck : CompleteCheckout(i) \/ RunOut(i)
    \/ \E i \in DOMAIN sub : ChangeSubscription(i)

BillingInit ==
    /\ bill = env.bill /\ sub = env.subs /\ ck = <<>> /\ keyed = {}
    /\ due = 0 /\ hold = Free /\ asked = {}
    /\ calls = env.calls /\ moves = env.moves
    /\ sample = [v \in Servers |-> NoSample]

-----------------------------------------------------------------------------

\* Once every event was accepted the row says what the provider says, however
\* late, repeated or reordered the events were and whatever moved while one
\* was being handled: the list is read under the row's lock
\* (billing.go:382, :413), and no event of a subscription comes before the
\* customer is linked (billing.go:282).
BillingFollowsProvider ==
    due = 0 /\ hold.op # "webhook" /\ sub # env.subs =>
        /\ Cardinality(Ongoing) <= 1
        /\ LET b == Following(bill, {<<i, sub[i]>> : i \in Ongoing})
           IN bill = [b EXCEPT !.link = bill.link]

\* Checkout never leaves the customer with two subscriptions: "retry-safe
\* Checkout reuse and duplicate-subscription prevention" (docs/billing.md:111).
OneSubscription == Cardinality(Ongoing) <= 1

=============================================================================
