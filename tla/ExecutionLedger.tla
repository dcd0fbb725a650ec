-------------------------- MODULE ExecutionLedger --------------------------
(***************************************************************************)
(* The durable execution queue of the control plane: the rows of the       *)
(* PostgreSQL table "executions" (one per Change) and the dispatcher       *)
(* processes that claim, renew and complete them.                          *)
(*                                                                         *)
(* Every statement carries the time at which the process composed it       *)
(* ("now := s.now()"), and the database runs it later: sending it and      *)
(* running it are two steps, and m.age says how long ago m was composed.   *)
(* Time is relative: row[e].lease is lease_expires_at minus the present    *)
(* time, in ticks, so that "lease_expires_at > $now" of a statement m is   *)
(* lease + m.age > 0.  It is not counted below -MaxDelay, where no         *)
(* statement tells the difference.  The processes' clocks agree.           *)
(* A random fence token is a number never issued before.                   *)
(*                                                                         *)
(* A dispatcher may be killed and restarted under the same worker id, or   *)
(* stall for any length of time (a scheduler stall, an unreachable         *)
(* database) with a statement under way.  The statement of a process that  *)
(* died or got an error may still run, or never.                           *)
(***************************************************************************)
EXTENDS Integers, FiniteSets

CONSTANTS Executions,   \* the Changes that may be queued, one row each
          Workers,      \* the dispatcher processes
          Hosts,        \* worker ids: "control-plane/" and the host name
          HostOf,       \* HostOf[w]: two processes on one host share an id
          Lease,        \* LeaseDuration, in ticks
          MaxDelay,     \* bound: ticks that a statement may be under way
          MaxFaults     \* bound: crashes, pauses and failed calls together

ASSUME HostAssumption == HostOf \in [Workers -> Hosts]
ASSUME LeaseAssumption == Lease \in Nat \ {0}
ASSUME DelayAssumption == MaxDelay \in Nat
ASSUME FaultAssumption == MaxFaults \in Nat
ASSUME NobodyAssumption == "nobody" \notin Workers

VARIABLES row,      \* row[e]: the executions row of Change e
          proc,     \* proc[w]: the local state of dispatcher w
          renewing, \* the dispatchers whose renewal goroutine runs
          sent,     \* the statements under way to the database
          paused,   \* the dispatchers that are stalled
          issued,   \* how many fence tokens have been issued
          finisher, \* history: the attempt that completed the row, 0 if none
          silence,  \* history: ticks since the process of the row's latest
                    \* claim last composed a claim or a renewal
          faults    \* faults so far

vars == <<row, proc, renewing, sent, paused, issued, finisher, silence, faults>>

Outcomes == {"succeeded", "failed"}

Phases == {"absent", "queued", "running"} \cup Outcomes

Rows == [phase : Phases, claimedBy : Hosts \cup {"nobody"}, token : Nat,
         lease : (-MaxDelay)..Lease, attempts : Nat]

Procs == [pc : {"poll", "sleep", "work", "complete"}, exec : Executions \cup {"none"},
          token : Nat, attempt : Nat, outcome : Outcomes]

\* by is the process that waits for the answer, "nobody" once it has died or
\* was told of an error.
Statements == [kind : {"claim", "renew", "complete"}, by : Workers \cup {"nobody"},
               host : Hosts, job : Procs, age : 0..MaxDelay]

Polling == [pc |-> "poll", exec |-> "none", token |-> 0, attempt |-> 0,
            outcome |-> "failed"]

Init ==
    /\ row = [e \in Executions |->
                [phase |-> "absent", claimedBy |-> "nobody", token |-> 0,
                 lease |-> -MaxDelay, attempts |-> 0]]
    /\ proc = [w \in Workers |-> Polling]
    /\ renewing = {}
    /\ sent = {}
    /\ paused = {}
    /\ issued = 0
    /\ finisher = [e \in Executions |-> 0]
    /\ silence = [e \in Executions |-> 0]
    /\ faults = 0

(***************************************************************************)
(* The dispatcher.                                                         *)
(***************************************************************************)

Waiting(w) == \E m \in sent : m.by = w

Statement(w, kind) ==
    [kind |-> kind, by |-> w, host |-> HostOf[w], job |-> proc[w], age |-> 0]

\* Dispatcher.Run asks for work.
SendClaim(w) ==
    /\ proc[w].pc = "poll"
    /\ w \notin paused /\ ~Waiting(w)
    /\ sent' = sent \cup {Statement(w, "claim")}
    /\ UNCHANGED <<row, proc, renewing, paused, issued, finisher, silence, faults>>

\* The renewal goroutine of runOne.
SendRenewal(w) ==
    /\ proc[w].pc = "work" /\ w \in renewing
    /\ w \notin paused /\ ~Waiting(w)
    /\ sent' = sent \cup {Statement(w, "renew")}
    /\ silence' = [e \in Executions |->
                     IF proc[w].exec = e /\ proc[w].token = row[e].token THEN 0 ELSE silence[e]]
    /\ UNCHANGED <<row, proc, renewing, paused, issued, finisher, faults>>

\* The checks and ApplyChange returned, with or without an error; the renewal
\* goroutine is stopped.
FinishWork(w) ==
    /\ proc[w].pc = "work"
    /\ w \notin paused
    /\ \E o \in Outcomes :
         proc' = [proc EXCEPT ![w].pc = "complete", ![w].outcome = o]
    /\ renewing' = renewing \ {w}
    /\ UNCHANGED <<row, sent, paused, issued, finisher, silence, faults>>

\* A renewal that was under way is waited for.
SendCompletion(w) ==
    /\ proc[w].pc = "complete"
    /\ w \notin paused /\ ~Waiting(w)
    /\ sent' = sent \cup {Statement(w, "complete")}
    /\ UNCHANGED <<row, proc, renewing, paused, issued, finisher, silence, faults>>

(***************************************************************************)
(* The statements, as the database runs them.                              *)
(***************************************************************************)

\* INSERT ... ON CONFLICT DO UPDATE SET change_id: a second request for the
\* same Change returns the existing row, whatever its phase.
EnqueueExecution(e) ==
    /\ row' = IF row[e].phase = "absent"
              THEN [row EXCEPT ![e].phase = "queued"]
              ELSE row
    /\ UNCHANGED <<proc, renewing, sent, paused, issued, finisher, silence, faults>>

\* Mutant: a failed row is claimable again.
ClaimableFailed(r, age) ==
    r.phase \in {"queued", "failed"} \/ (r.phase = "running" /\ r.lease + age <= 0)

\* Mutant: a running row is never reclaimed.
ClaimableQueued(r, age) == r.phase = "queued"

Claimable(r, age) == r.phase = "queued" \/ (r.phase = "running" /\ r.lease + age <= 0)

\* Mutant: trusts the worker id alone.
HoldsClaimUntokened(m) ==
    \E e \in Executions :
        /\ m.job.exec = e
        /\ row[e].phase = "running"
        /\ row[e].claimedBy = m.host
        /\ row[e].lease + m.age > 0

\* The guard of both UPDATEs a claim holder makes: phase, worker, token, and a
\* lease that had not run out when the UPDATE was composed.
HoldsClaim(m) ==
    \E e \in Executions :
        /\ m.job.exec = e
        /\ row[e].phase = "running"
        /\ row[e].claimedBy = m.host
        /\ row[e].token = m.job.token
        /\ row[e].lease + m.age > 0

\* Mutant: the new lease counts from when the database runs the statement.
LeaseFromNow(m) == Lease

\* now.Add(lease), with the time at which the statement was composed.
NewLease(m) == Lease - m.age

\* FOR UPDATE SKIP LOCKED lets concurrent claimers take any claimable row.
\* Without one, Dispatcher.Run waits for its ticker.
ClaimExecution(m) ==
    /\ m.kind = "claim"
    /\ \/ \E e \in Executions :
            /\ Claimable(row[e], m.age)
            /\ issued' = issued + 1
            /\ row' = [row EXCEPT ![e].phase = "running", ![e].claimedBy = m.host,
                                  ![e].token = issued + 1, ![e].lease = NewLease(m),
                                  ![e].attempts = @ + 1]
            /\ silence' = [silence EXCEPT ![e] = m.age]
            /\ proc' = [w \in Workers |->
                          IF w = m.by
                          THEN [pc |-> "work", exec |-> e, token |-> issued + 1,
                                attempt |-> row[e].attempts + 1, outcome |-> "failed"]
                          ELSE proc[w]]
            /\ renewing' = renewing \cup ({m.by} \cap Workers)
       \/ /\ \A e \in Executions : ~Claimable(row[e], m.age)
          /\ proc' = [w \in Workers |->
                        IF w = m.by THEN [proc[w] EXCEPT !.pc = "sleep"] ELSE proc[w]]
          /\ UNCHANGED <<row, renewing, issued, silence>>
    /\ sent' = sent \ {m}
    /\ UNCHANGED <<paused, finisher, faults>>

\* No row matched: the renewal goroutine cancels the work and stops renewing.
RenewExecution(m) ==
    /\ m.kind = "renew"
    /\ IF HoldsClaim(m)
       THEN /\ row' = [row EXCEPT ![m.job.exec].lease = NewLease(m)]
            /\ UNCHANGED renewing
       ELSE /\ renewing' = renewing \ {m.by}
            /\ UNCHANGED row
    /\ sent' = sent \ {m}
    /\ UNCHANGED <<proc, paused, issued, finisher, silence, faults>>

\* The result of CompleteExecution is ignored: claimed or not, the dispatcher
\* goes back to polling.
CompleteExecution(m) ==
    /\ m.kind = "complete"
    /\ IF HoldsClaim(m)
       THEN /\ row' = [row EXCEPT ![m.job.exec].phase = m.job.outcome,
                                  ![m.job.exec].lease = -MaxDelay]
            /\ finisher' = [finisher EXCEPT ![m.job.exec] = m.job.attempt]
       ELSE UNCHANGED <<row, finisher>>
    /\ proc' = [w \in Workers |-> IF w = m.by THEN Polling ELSE proc[w]]
    /\ sent' = sent \ {m}
    /\ UNCHANGED <<renewing, paused, issued, silence, faults>>

Run(m) == ClaimExecution(m) \/ RenewExecution(m) \/ CompleteExecution(m)

(***************************************************************************)
(* The environment.                                                        *)
(***************************************************************************)

\* Nobody waits for the statement of w any longer; it may still be run.
Abandoned(w) == {IF m.by = w THEN [m EXCEPT !.by = "nobody"] ELSE m : m \in sent}

\* The call returned an error.  A renewal cancels the work, while the claim
\* itself is still good; the error of a completion is ignored.
CallError(w) ==
    /\ faults < MaxFaults
    /\ \E m \in sent :
        /\ m.by = w /\ m.kind # "claim"
        /\ proc' = IF m.kind = "complete" THEN [proc EXCEPT ![w] = Polling] ELSE proc
    /\ sent' = Abandoned(w)
    /\ renewing' = renewing \ {w}
    /\ faults' = faults + 1
    /\ UNCHANGED <<row, paused, issued, finisher, silence>>

\* A failed claim ends Dispatcher.Run as well.
Crash(w) ==
    /\ faults < MaxFaults
    /\ proc[w].pc \in {"work", "complete"} \/ Waiting(w)
    /\ sent' = Abandoned(w)
    /\ proc' = [proc EXCEPT ![w] = Polling]
    /\ renewing' = renewing \ {w}
    /\ paused' = paused \ {w}
    /\ faults' = faults + 1
    /\ UNCHANGED <<row, issued, finisher, silence>>

\* A statement nobody waits for never reaches the database.
Lose(m) ==
    /\ m.by = "nobody"
    /\ sent' = sent \ {m}
    /\ UNCHANGED <<row, proc, renewing, paused, issued, finisher, silence, faults>>

Pause(w) ==
    /\ faults < MaxFaults
    /\ w \notin paused
    /\ paused' = paused \cup {w}
    /\ faults' = faults + 1
    /\ UNCHANGED <<row, proc, renewing, sent, issued, finisher, silence>>

Resume(w) ==
    /\ w \in paused
    /\ paused' = paused \ {w}
    /\ UNCHANGED <<row, proc, renewing, sent, issued, finisher, silence, faults>>

\* A dispatcher that renews, or is to complete, and is not stalled does so
\* before its lease runs out: it renews three times per lease.
InTime(w) ==
    \A e \in Executions :
        (proc[w].exec = e /\ proc[w].token = row[e].token /\ row[e].phase = "running")
            => row[e].lease # 1

Older(m) == [m EXCEPT !.age = @ + 1]

\* A statement is delayed only with its process, or when nobody waits for it.
Tick ==
    /\ \A w \in Workers \ paused :
        /\ ~Waiting(w)
        /\ w \in renewing \/ proc[w].pc = "complete" => InTime(w)
    /\ \A m \in sent : m.age < MaxDelay
    /\ row' = [e \in Executions |->
                 [row[e] EXCEPT !.lease = IF @ = -MaxDelay THEN @ ELSE @ - 1]]
    /\ sent' = {Older(m) : m \in sent}
    /\ proc' = [w \in Workers |->
                  IF proc[w].pc = "sleep" THEN [proc[w] EXCEPT !.pc = "poll"] ELSE proc[w]]
    /\ silence' = [e \in Executions |->
                     IF silence[e] = Lease + MaxDelay THEN silence[e] ELSE silence[e] + 1]
    /\ UNCHANGED <<renewing, paused, issued, finisher, faults>>

WorkerStep(w) ==
    \/ SendClaim(w)
    \/ SendRenewal(w)
    \/ FinishWork(w)
    \/ SendCompletion(w)
    \/ CallError(w)
    \/ Crash(w)
    \/ Pause(w)
    \/ Resume(w)

Next ==
    \/ \E e \in Executions : EnqueueExecution(e)
    \/ \E w \in Workers : WorkerStep(w)
    \/ \E m \in sent : Run(m) \/ Lose(m)
    \/ Tick

Spec == Init /\ [][Next]_vars

\* The clock runs, a pause ends, an unpaused dispatcher polls, works through
\* its operations (ApplyChange returns) and completes, and the database runs
\* what a live process has sent.
Fairness ==
    /\ WF_vars(Tick)
    /\ WF_vars(\E m \in sent : Lose(m))
    /\ \A w \in Workers :
        /\ WF_vars(SendClaim(w))
        /\ WF_vars(FinishWork(w))
        /\ WF_vars(SendCompletion(w))
        /\ WF_vars(\E m \in sent : m.by = w /\ Run(m))
        /\ WF_vars(Resume(w))

FairSpec == Spec /\ Fairness

(***************************************************************************)
(* Properties.                                                             *)
(***************************************************************************)

\* The type invariant: rows stay within the table's CHECK constraint and a
\* lease never exceeds LeaseDuration.
TypeOK ==
    /\ row \in [Executions -> Rows]
    /\ proc \in [Workers -> Procs]
    /\ renewing \subseteq Workers
    /\ sent \subseteq Statements
    /\ paused \subseteq Workers
    /\ issued \in Nat
    /\ finisher \in [Executions -> Nat]
    /\ silence \in [Executions -> 0..(Lease + MaxDelay)]
    /\ faults \in 0..MaxFaults

\* The fence: whoever completes an execution is the process that made its
\* latest claim.  A dispatcher whose execution was reclaimed, even by another
\* process with the same worker id, cannot record its outcome
\* (CompleteExecution).
FinishedByLatestClaim ==
    \A e \in Executions : finisher[e] # 0 => finisher[e] = row[e].attempts

\* A lease ends one LeaseDuration after the process that made the row's latest
\* claim last asked for it, however late its statements reach the database: a
\* delayed renewal may bring a lapsed lease back (RenewExecution compares it
\* with the time at which the renewal was composed), but only for what is left
\* of the LeaseDuration from that time, and never under an older claim.  So the
\* row of a dispatcher that died or fell silent can be reclaimed on time.
SilentHolderLosesLease ==
    \A e \in Executions : row[e].lease <= Lease - silence[e]

\* The queue as its users see it: a job is finished once, by its latest
\* attempt, and asking for it again changes nothing.
Jobs == INSTANCE FencedJob WITH
            Jobs <- Executions,
            phase <- [e \in Executions |-> row[e].phase],
            attempts <- [e \in Executions |-> row[e].attempts],
            finisher <- finisher

ImplementsFencedJob == Jobs!Spec

\* Every queued execution reaches an outcome: a crash or a stall of the
\* dispatcher that claimed it delays it until the lease runs out and another
\* dispatcher reclaims it.
QueuedSettles ==
    \A e \in Executions : row[e].phase = "queued" ~> row[e].phase \in Outcomes
=============================================================================
