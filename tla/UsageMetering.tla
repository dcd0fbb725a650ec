----------------------------- MODULE UsageMetering -----------------------------
(***************************************************************************)
(* Usage of the billed workspace: collectors look at the servers that      *)
(* exist, charge the time between two adjacent looks, and leave an event   *)
(* in an outbox that dispatchers hand to the provider's meter.             *)
(*                                                                         *)
(* Time passes in ticks.  A server costs a cent for TicksPerCent of them,  *)
(* so that a sample keeps a remainder; `rest` and `ticks` name the very    *)
(* ticks, which the code only counts.  The rate and the size of a server   *)
(* do not change and are left out, as is storage, which is metered alike.  *)
(***************************************************************************)
EXTENDS VPSRequests

CONSTANTS Collectors,     \* collector loops of all replicas
          Senders,        \* usage dispatchers of all replicas
          Producers,      \* identifiers of usage that arrives already rated
          TicksPerCent,
          Window,         \* ticks two looks may be apart (5 minutes)
          LastTick        \* how long time runs (a bound)

VARIABLES now,       \* the clock, in ticks
          off,       \* history: ticks during which billing was not active
          spanned,   \* history: those between a look's stamp and its record
          looker,    \* what each collector is at
          usage,     \* billing_usage_events
          sender     \* what each usage dispatcher is at

meterVars == <<now, off, spanned, looker, usage, sender>>
usageVars == <<env, billVars, vpsVars, meterVars>>

NoLook == [at |-> "idle", locked |-> FALSE, seen |-> {}, time |-> 0, terms |-> {}]
NoSend == [at |-> "idle", ev |-> 0]
NewUsage == [id |-> "none", vm |-> 0, ticks |-> {}, sent |-> FALSE, age |-> "untried",
             recon |-> FALSE, metered |-> 0]

MeterOnly(x) == UNCHANGED <<env, bill, provider, hold, asked, calls, vpsVars, x>>

\* A look that was stamped may wait for the row's lock, or its collector stall,
\* for any time.
PassTime ==
    /\ May("clock") /\ now < LastTick
    /\ now' = now + 1
    /\ off' = IF bill.status = "active" THEN off ELSE off \cup {now}
    /\ MeterOnly(<<sample, spanned, looker, usage, sender>>)

-----------------------------------------------------------------------------
(* Collecting.                                                             *)

\* A session advisory lock spans the looks at the provider; while billing is
\* not active the samples are dropped instead.
lockCollection(c) ==
    /\ May("collect") /\ looker[c] = NoLook /\ bill.sub # 0
    /\ \A d \in Collectors : ~looker[d].locked
    /\ IF bill.status = "active"
       THEN /\ looker' = [looker EXCEPT ![c] = [NoLook EXCEPT !.at = "looking", !.locked = TRUE]]
            /\ UNCHANGED sample
       ELSE /\ sample' = [v \in Servers |-> NoSample]
            /\ UNCHANGED looker
    /\ MeterOnly(<<now, off, spanned, usage, sender>>)

observe(c) ==
    /\ looker[c].at = "looking"
    /\ looker' = [looker EXCEPT ![c].at = "seen",
           ![c].seen = {v \in Servers : Approved(v) /\ vm[v].phase # "deleted"
                                    /\ host[v].listed /\ host[v].server # "none"}]
    /\ MeterOnly(<<sample, now, off, spanned, usage, sender>>)

\* The time of the look, and with it the billing periods it lies in.
stamp(c) ==
    /\ looker[c].at = "seen"
    /\ looker' = [looker EXCEPT ![c].at = "stamped", ![c].time = now,
                                ![c].terms = {<<i, sub[i].period>> : i \in DOMAIN sub}]
    /\ MeterOnly(<<sample, now, off, spanned, usage, sender>>)

Adjacent(v, at) ==
    /\ sample[v].sub = bill.sub /\ sample[v].period = bill.period
    /\ at - sample[v].at <= Window

\* A mutant of Fresh: a look is recorded however old it is.
FreshAlways(v, at) == TRUE
Fresh(v, at) == sample[v] # NoSample => at > sample[v].at

\* What a look at v adds to what v owes, the whole cents of it, and the rest.
Owed(v, at) == sample[v].rest \cup IF Adjacent(v, at) THEN sample[v].at .. (at - 1) ELSE {}
Whole(R) == {t \in R : Cardinality({u \in R : u < t}) <
                       TicksPerCent * (Cardinality(R) \div TicksPerCent)}

sampled(v, at) ==
    [sub |-> bill.sub, period |-> bill.period, at |-> at,
     rest |-> IF sample[v].sub = bill.sub /\ sample[v].period = bill.period
              THEN Owed(v, at) \ Whole(Owed(v, at)) ELSE {}]

\* One transaction under the row's lock.  A look outside the row's period is
\* refused, one that is not newer than the sample is skipped, and samples of
\* servers that were not seen are dropped.
recordResourceSnapshot(c) ==
    LET at == looker[c].time
        new == {v \in looker[c].seen : Fresh(v, at)}
        charged == {v \in new : Adjacent(v, at) /\ Whole(Owed(v, at)) # {}}
    IN /\ looker[c].at = "stamped" /\ hold = Free
       /\ IF bill.status = "active" /\ <<bill.sub, bill.period>> \in looker[c].terms
          THEN /\ sample' = [v \in Servers |->
                     IF v \in new THEN sampled(v, at)
                     ELSE IF v \in looker[c].seen THEN sample[v] ELSE NoSample]
               /\ \E order \in {s \in [1..Cardinality(charged) -> charged] :
                                  \A i, j \in DOMAIN s : s[i] = s[j] => i = j} :
                     usage' = usage \o [i \in DOMAIN order |->
                        [NewUsage EXCEPT !.vm = order[i], !.ticks = Whole(Owed(order[i], at))]]
               /\ spanned' = spanned \cup (off \cap (at .. now))
          ELSE UNCHANGED <<sample, usage, spanned>>
       /\ looker' = [looker EXCEPT ![c] = NoLook]
       /\ MeterOnly(<<now, off, sender>>)

\* The collector's connection or process fails.
FailCollection(c) ==
    /\ looker[c] # NoLook /\ faults > 0
    /\ faults' = faults - 1
    /\ \E l \in {NoLook, [looker[c] EXCEPT !.locked = FALSE]} : looker' = [looker EXCEPT ![c] = l]
    /\ UNCHANGED <<env, billVars, vm, rsv, reserved, host, job, now, off, spanned, usage, sender>>

\* Rated usage of a trusted producer, once per identifier.
RecordBillingUsage(id) ==
    /\ May("ingest") /\ hold = Free
    /\ bill.status = "active"
    /\ \A e \in DOMAIN usage : usage[e].id # id
    /\ usage' = Append(usage, [NewUsage EXCEPT !.id = id])
    /\ MeterOnly(<<sample, now, off, spanned, looker, sender>>)

-----------------------------------------------------------------------------
(* Sending.                                                                *)

\* Events whose first attempt is 23 hours old are set aside, then a batch of
\* the others is tried, one at a time.
setAside(s) ==
    /\ May("send") /\ sender[s].at = "idle"
    /\ usage' = [e \in DOMAIN usage |->
          IF usage[e].age \in {"old", "forgotten"} /\ ~usage[e].sent THEN [usage[e] EXCEPT !.recon = TRUE]
          ELSE usage[e]]
    /\ sender' = [sender EXCEPT ![s].at = "batch"]
    /\ \E e \in DOMAIN usage : ~usage[e].sent /\ ~usage[e].recon
    /\ MeterOnly(<<sample, now, off, spanned, looker>>)

pickUsage(s, e) ==
    /\ sender[s].at = "batch"
    /\ ~usage[e].sent /\ ~usage[e].recon
    /\ usage' = [usage EXCEPT ![e].age = IF @ = "untried" THEN "tried" ELSE @]
    /\ sender' = [sender EXCEPT ![s] = [at |-> "picked", ev |-> e]]
    /\ MeterOnly(<<sample, now, off, spanned, looker>>)

\* The provider knows an identifier for a day after it first saw it.
postUsage(s) ==
    /\ sender[s].at = "picked"
    /\ LET e == sender[s].ev
       IN usage' = [usage EXCEPT ![e].metered =
             IF @ = 0 \/ usage[e].age = "forgotten" THEN @ + 1 ELSE @]
    /\ sender' = [sender EXCEPT ![s].at = "posted"]
    /\ MeterOnly(<<sample, now, off, spanned, looker>>)

markSent(s) ==
    /\ sender[s].at = "posted"
    /\ usage' = [usage EXCEPT ![sender[s].ev].sent = TRUE]
    /\ sender' = [sender EXCEPT ![s] = [at |-> "batch", ev |-> 0]]
    /\ MeterOnly(<<sample, now, off, spanned, looker>>)

endBatch(s) ==
    /\ sender[s].at = "batch"
    /\ \A e \in DOMAIN usage : usage[e].sent \/ usage[e].recon
    /\ sender' = [sender EXCEPT ![s] = NoSend]
    /\ MeterOnly(<<sample, now, off, spanned, looker, usage>>)

\* An error ends the batch; what was posted stays posted.
FailSend(s) ==
    /\ sender[s].at # "idle" /\ faults > 0
    /\ faults' = faults - 1
    /\ sender' = [sender EXCEPT ![s] = NoSend]
    /\ UNCHANGED <<env, billVars, vm, rsv, reserved, host, job, now, off, spanned, looker, usage>>

\* 23 hours pass, then the rest of the day.  A batch is a hundred calls of at
\* most 15 seconds, so no batch spans that last hour.
AgeUsage(e) ==
    /\ May("send") /\ ~usage[e].sent
    /\ \/ usage[e].age = "tried" /\ usage' = [usage EXCEPT ![e].age = "old"]
       \/ /\ usage[e].age = "old" /\ \A s \in Senders : sender[s].at = "idle"
          /\ usage' = [usage EXCEPT ![e].age = "forgotten"]
    /\ MeterOnly(<<sample, now, off, spanned, looker, sender>>)

DispatchUsage(s) ==
    \/ setAside(s)
    \/ \E e \in DOMAIN usage : pickUsage(s, e)
    \/ postUsage(s) \/ markSent(s) \/ endBatch(s)

UsageStep ==
    \/ PassTime
    \/ \E c \in Collectors : lockCollection(c) \/ observe(c) \/ stamp(c)
                             \/ recordResourceSnapshot(c) \/ FailCollection(c)
    \/ \E id \in Producers : RecordBillingUsage(id)
    \/ \E s \in Senders : DispatchUsage(s) \/ FailSend(s)
    \/ \E e \in DOMAIN usage : AgeUsage(e)

UsageInit ==
    /\ now = 0 /\ off = {} /\ spanned = {} /\ usage = <<>>
    /\ looker = [c \in Collectors |-> NoLook]
    /\ sender = [s \in Senders |-> NoSend]

-----------------------------------------------------------------------------

\* No moment of a server is charged twice, and none during which billing was
\* not active, whatever collectors with a lost lock record late
\* (billing_collector.go:160) and however short the interruption was
\* (billing.go:461).  The exception: an interruption that ended between a
\* look's stamp (billing_collector.go:132) and its record, which only asks
\* whether billing is active by then (line 146); the next look charges from
\* the stamp on.  What is charged reaches the provider's meter
\* once, and did if it counts as sent: answers that were lost are repeated only
\* while the provider still recognises the identifier (billing.go:531).
UsageIsBilledOnce ==
    \A e \in DOMAIN usage :
        /\ \A f \in DOMAIN usage : e # f /\ usage[e].vm = usage[f].vm =>
              usage[e].ticks \cap usage[f].ticks = {}
        /\ usage[e].ticks \cap off \subseteq spanned
        /\ \A v \in Servers : usage[e].vm = v => usage[e].ticks \cap sample[v].rest = {}
        /\ usage[e].metered <= 1
        /\ usage[e].sent => usage[e].metered = 1

=============================================================================
