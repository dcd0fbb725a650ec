----------------------- MODULE ExecutionLedgerProofs -----------------------
(***************************************************************************)
(* Proofs about the execution queue, for any number of Changes, dispatcher *)
(* processes, hosts and faults, any lease duration and any delay of the    *)
(* statements.                                                             *)
(***************************************************************************)
EXTENDS ExecutionLedger, TLAPS

LEMMA PhaseFacts ==
    /\ {"absent", "queued", "running"} \subseteq Phases
    /\ Outcomes \subseteq Phases
    /\ "failed" \in Outcomes
BY DEF Phases, Outcomes

LEMMA LeaseUpdate ==
    ASSUME NEW r \in Rows, NEW l \in (-MaxDelay)..Lease
    PROVE [r EXCEPT !.lease = l] \in Rows
BY DEF Rows

LEMMA PhaseUpdate ==
    ASSUME NEW r \in Rows, NEW p \in Phases
    PROVE [r EXCEPT !.phase = p] \in Rows
BY DEF Rows

LEMMA PollingType == Polling \in Procs
BY PhaseFacts DEF Polling, Procs

LEMMA PcUpdate ==
    ASSUME NEW j \in Procs, NEW c \in {"poll", "sleep", "work", "complete"}
    PROVE [j EXCEPT !.pc = c] \in Procs
BY DEF Procs

LEMMA NewLeaseType ==
    ASSUME NEW m \in Statements
    PROVE NewLease(m) \in (-MaxDelay)..Lease
<1>1. m.age \in 0..MaxDelay
  BY DEF Statements
<1> QED
  BY <1>1, LeaseAssumption, DelayAssumption DEF NewLease

LEMMA StatementType ==
    ASSUME proc \in [Workers -> Procs], NEW w \in Workers,
           NEW k \in {"claim", "renew", "complete"}
    PROVE Statement(w, k) \in Statements
BY HostAssumption, DelayAssumption DEF Statement, Statements

\* A statement that is abandoned, or older, is what it was but for its sender
\* or its age.
LEMMA AbandonedFacts ==
    ASSUME sent \subseteq Statements, NEW w \in Workers, NEW m \in Abandoned(w)
    PROVE /\ m \in Statements
          /\ \E n \in sent : m.kind = n.kind /\ m.job = n.job /\ m.age = n.age
<1>1. PICK n \in sent : m = IF n.by = w THEN [n EXCEPT !.by = "nobody"] ELSE n
  BY DEF Abandoned
<1> QED
  BY <1>1 DEF Statements

LEMMA OlderFacts ==
    ASSUME sent \subseteq Statements, Tick, NEW m \in sent'
    PROVE /\ m \in Statements
          /\ \E n \in sent : /\ m.kind = n.kind /\ m.job = n.job
                             /\ m.age = n.age + 1 /\ n.age < MaxDelay
<1>1. PICK n \in sent : m = Older(n)
  BY DEF Tick
<1>2. n.age < MaxDelay /\ n.age \in 0..MaxDelay /\ n \in Statements
  BY <1>1 DEF Tick, Statements
<1>3. n.age + 1 \in 0..MaxDelay
  BY <1>2, DelayAssumption
<1>4. m.kind = n.kind /\ m.job = n.job /\ m.age = n.age + 1
  BY <1>1, <1>2 DEF Older, Statements
<1>5. m \in Statements
  BY <1>1, <1>2, <1>3 DEF Older, Statements
<1> QED
  BY <1>1, <1>2, <1>4, <1>5

LEMMA HolderFacts ==
    ASSUME TypeOK, NEW m \in sent, HoldsClaim(m)
    PROVE /\ m.job.exec \in Executions
          /\ row[m.job.exec].phase = "running"
          /\ row[m.job.exec].token = m.job.token
          /\ m.job \in Procs /\ m \in Statements
          /\ row[m.job.exec] \in Rows
BY DEF HoldsClaim, TypeOK, Statements

\* The rows after a renewal and after a completion.
LEMMA RenewedRow ==
    ASSUME TypeOK, NEW m \in sent, RenewExecution(m), HoldsClaim(m)
    PROVE /\ row' = [row EXCEPT ![m.job.exec] = [@ EXCEPT !.lease = NewLease(m)]]
          /\ row' \in [Executions -> Rows]
<1>1. row' = [row EXCEPT ![m.job.exec] = [@ EXCEPT !.lease = NewLease(m)]]
  BY DEF RenewExecution
<1>2. [row[m.job.exec] EXCEPT !.lease = NewLease(m)] \in Rows
  BY HolderFacts, NewLeaseType, LeaseUpdate
<1> QED
  BY <1>1, <1>2, HolderFacts DEF TypeOK

LEMMA CompletedRow ==
    ASSUME TypeOK, NEW m \in sent, CompleteExecution(m), HoldsClaim(m)
    PROVE /\ row' = [row EXCEPT ![m.job.exec] =
                       [[@ EXCEPT !.phase = m.job.outcome] EXCEPT !.lease = -MaxDelay]]
          /\ row' \in [Executions -> Rows]
<1>1. row' = [row EXCEPT ![m.job.exec] =
                [[@ EXCEPT !.phase = m.job.outcome] EXCEPT !.lease = -MaxDelay]]
  BY Zenon DEF CompleteExecution
<1>2. m.job.outcome \in Phases
  BY HolderFacts, PhaseFacts DEF Procs
<1>3. -MaxDelay \in (-MaxDelay)..Lease
  BY LeaseAssumption, DelayAssumption
<1>4. [row[m.job.exec] EXCEPT !.phase = m.job.outcome] \in Rows
  BY <1>2, HolderFacts, PhaseUpdate
<1>5. [[row[m.job.exec] EXCEPT !.phase = m.job.outcome] EXCEPT !.lease = -MaxDelay] \in Rows
  BY <1>3, <1>4, LeaseUpdate, Zenon
<1> QED
  BY <1>1, <1>5, HolderFacts DEF TypeOK

\* The row and the process after a claim of e.
Claimed(m, e) ==
    /\ Claimable(row[e], m.age)
    /\ issued' = issued + 1
    /\ row' = [row EXCEPT ![e] = [phase |-> "running", claimedBy |-> m.host,
                                  token |-> issued + 1, lease |-> NewLease(m),
                                  attempts |-> row[e].attempts + 1]]
    /\ silence' = [silence EXCEPT ![e] = m.age]
    /\ proc' = [w \in Workers |->
                  IF w = m.by
                  THEN [pc |-> "work", exec |-> e, token |-> issued + 1,
                        attempt |-> row[e].attempts + 1, outcome |-> "failed"]
                  ELSE proc[w]]
    /\ renewing' = renewing \cup ({m.by} \cap Workers)

\* No row could be claimed.
NoClaim(m) ==
    /\ proc' = [w \in Workers |->
                  IF w = m.by THEN [proc[w] EXCEPT !.pc = "sleep"] ELSE proc[w]]
    /\ UNCHANGED <<row, renewing, issued, silence>>

LEMMA ClaimCases ==
    ASSUME TypeOK, NEW m \in sent, ClaimExecution(m)
    PROVE /\ (\E e \in Executions : Claimed(m, e)) \/ NoClaim(m)
          /\ sent' = sent \ {m}
          /\ UNCHANGED <<paused, finisher, faults>>
<1>1. ASSUME NEW e \in Executions, Claimable(row[e], m.age), issued' = issued + 1,
             row' = [row EXCEPT ![e].phase = "running", ![e].claimedBy = m.host,
                                ![e].token = issued + 1, ![e].lease = NewLease(m),
                                ![e].attempts = @ + 1],
             silence' = [silence EXCEPT ![e] = m.age],
             proc' = [w \in Workers |->
                        IF w = m.by
                        THEN [pc |-> "work", exec |-> e, token |-> issued + 1,
                              attempt |-> row[e].attempts + 1, outcome |-> "failed"]
                        ELSE proc[w]],
             renewing' = renewing \cup ({m.by} \cap Workers)
      PROVE Claimed(m, e)
  <2>1. row[e] \in Rows
    BY DEF TypeOK
  <2>2. row' = [row EXCEPT ![e] = [phase |-> "running", claimedBy |-> m.host,
                                   token |-> issued + 1, lease |-> NewLease(m),
                                   attempts |-> row[e].attempts + 1]]
    BY <1>1, <2>1 DEF Rows, TypeOK
  <2> QED
    BY <1>1, <2>2, Zenon DEF Claimed
<1> QED
  BY <1>1, Zenon DEF ClaimExecution, NoClaim

\* The type invariant is preserved by every statement and every fault.
THEOREM Typing == Spec => []TypeOK
<1>1. Init => TypeOK
  BY LeaseAssumption, DelayAssumption, FaultAssumption
  DEF Init, TypeOK, Rows, Procs, Polling, Phases, Outcomes
<1>2. TypeOK /\ [Next]_vars => TypeOK'
  <2> SUFFICES ASSUME TypeOK, [Next]_vars PROVE TypeOK'
    OBVIOUS
  <2> USE DEF TypeOK
  <2>1. ASSUME NEW e \in Executions, EnqueueExecution(e) PROVE TypeOK'
    <3>1. [row[e] EXCEPT !.phase = "queued"] \in Rows
      BY PhaseFacts, PhaseUpdate
    <3> QED
      BY <2>1, <3>1 DEF EnqueueExecution
  <2>2. ASSUME NEW w \in Workers, SendClaim(w) PROVE TypeOK'
    BY <2>2, StatementType DEF SendClaim
  <2>3. ASSUME NEW w \in Workers, SendRenewal(w) PROVE TypeOK'
    <3>1. silence' \in [Executions -> 0..(Lease + MaxDelay)]
      BY <2>3, LeaseAssumption, DelayAssumption DEF SendRenewal
    <3>2. sent' \subseteq Statements
      BY <2>3, StatementType DEF SendRenewal
    <3> QED
      BY <2>3, <3>1, <3>2 DEF SendRenewal
  <2>4. ASSUME NEW w \in Workers, FinishWork(w) PROVE TypeOK'
    <3>1. PICK o \in Outcomes :
             proc' = [proc EXCEPT ![w].pc = "complete", ![w].outcome = o]
      BY <2>4, Zenon DEF FinishWork
    <3>2. proc' \in [Workers -> Procs]
      BY <3>1, Zenon DEF Procs
    <3> QED
      BY <2>4, <3>2 DEF FinishWork
  <2>5. ASSUME NEW w \in Workers, SendCompletion(w) PROVE TypeOK'
    BY <2>5, StatementType DEF SendCompletion
  <2>6. ASSUME NEW m \in sent, ClaimExecution(m) PROVE TypeOK'
    <3>1. m \in Statements /\ m.age \in 0..MaxDelay /\ m.host \in Hosts
      BY DEF Statements
    <3>2. ASSUME NEW e \in Executions, Claimed(m, e) PROVE TypeOK'
      <4>1. row[e].attempts + 1 \in Nat /\ issued + 1 \in Nat
        BY DEF Rows
      <4>2. [phase |-> "running", claimedBy |-> m.host, token |-> issued + 1,
             lease |-> NewLease(m), attempts |-> row[e].attempts + 1] \in Rows
        BY <3>1, <4>1, NewLeaseType, PhaseFacts DEF Rows
      <4>3. row' \in [Executions -> Rows]
        BY <3>2, <4>2 DEF Claimed
      <4>4. [pc |-> "work", exec |-> e, token |-> issued + 1,
             attempt |-> row[e].attempts + 1, outcome |-> "failed"] \in Procs
        BY <4>1, PhaseFacts DEF Procs
      <4>5. proc' \in [Workers -> Procs]
        BY <3>2, <4>4 DEF Claimed
      <4>6. m.age \in 0..(Lease + MaxDelay)
        BY <3>1, LeaseAssumption, DelayAssumption
      <4>7. silence' \in [Executions -> 0..(Lease + MaxDelay)]
        BY <3>2, <4>6 DEF Claimed
      <4>8. issued' \in Nat /\ renewing' \subseteq Workers
        BY <3>2, <4>1 DEF Claimed
      <4> QED
        BY <2>6, <4>3, <4>5, <4>7, <4>8, ClaimCases
    <3>3. ASSUME NoClaim(m) PROVE TypeOK'
      <4>1. proc' \in [Workers -> Procs]
        BY <3>3, PcUpdate, Zenon DEF NoClaim
      <4> QED
        BY <2>6, <3>3, <4>1, ClaimCases DEF NoClaim
    <3> QED
      BY <2>6, <3>2, <3>3, ClaimCases
  <2>7. ASSUME NEW m \in sent, RenewExecution(m) PROVE TypeOK'
    <3>1. row' \in [Executions -> Rows]
      BY <2>7, RenewedRow DEF RenewExecution
    <3> QED
      BY <2>7, <3>1 DEF RenewExecution
  <2>8. ASSUME NEW m \in sent, CompleteExecution(m) PROVE TypeOK'
    <3>1. row' \in [Executions -> Rows]
      BY <2>8, CompletedRow, Zenon DEF CompleteExecution
    <3>2. finisher' \in [Executions -> Nat]
      <4>1. CASE HoldsClaim(m)
        <5>1. m.job.attempt \in Nat /\ m.job.exec \in Executions
          BY <4>1, HolderFacts DEF Procs
        <5> QED
          BY <2>8, <4>1, <5>1 DEF CompleteExecution
      <4>2. CASE ~HoldsClaim(m)
        BY <2>8, <4>2 DEF CompleteExecution
      <4> QED
        BY <4>1, <4>2
    <3>3. proc' \in [Workers -> Procs]
      BY <2>8, PollingType DEF CompleteExecution
    <3> QED
      BY <2>8, <3>1, <3>2, <3>3 DEF CompleteExecution
  <2>9. ASSUME NEW w \in Workers, CallError(w) PROVE TypeOK'
    <3>1. sent' \subseteq Statements
      BY <2>9, AbandonedFacts DEF CallError
    <3>2. proc' \in [Workers -> Procs]
      BY <2>9, PollingType DEF CallError
    <3>3. faults' \in 0..MaxFaults
      BY <2>9, FaultAssumption DEF CallError
    <3> QED
      BY <2>9, <3>1, <3>2, <3>3 DEF CallError
  <2>10. ASSUME NEW w \in Workers, Crash(w) PROVE TypeOK'
    <3>1. sent' \subseteq Statements
      BY <2>10, AbandonedFacts DEF Crash
    <3>2. proc' \in [Workers -> Procs]
      BY <2>10, PollingType DEF Crash
    <3>3. faults' \in 0..MaxFaults
      BY <2>10, FaultAssumption DEF Crash
    <3> QED
      BY <2>10, <3>1, <3>2, <3>3 DEF Crash
  <2>11. ASSUME NEW w \in Workers, Pause(w) PROVE TypeOK'
    BY <2>11, FaultAssumption DEF Pause
  <2>12. ASSUME NEW w \in Workers, Resume(w) PROVE TypeOK'
    BY <2>12 DEF Resume
  <2>13. ASSUME NEW m \in sent, Lose(m) PROVE TypeOK'
    BY <2>13 DEF Lose
  <2>14. ASSUME Tick PROVE TypeOK'
    <3>1. row' \in [Executions -> Rows]
      <4>1. ASSUME NEW e \in Executions
            PROVE [row[e] EXCEPT !.lease = IF @ = -MaxDelay THEN @ ELSE @ - 1] \in Rows
        <5>1. row[e] \in Rows /\ row[e].lease \in (-MaxDelay)..Lease
          BY DEF Rows
        <5>2. (IF row[e].lease = -MaxDelay THEN row[e].lease ELSE row[e].lease - 1)
                 \in (-MaxDelay)..Lease
          BY <5>1, LeaseAssumption, DelayAssumption
        <5> QED
          BY <5>1, <5>2, LeaseUpdate
      <4> QED
        BY <2>14, <4>1 DEF Tick
    <3>2. sent' \subseteq Statements
      BY <2>14, OlderFacts
    <3>3. silence' \in [Executions -> 0..(Lease + MaxDelay)]
      BY <2>14, LeaseAssumption, DelayAssumption DEF Tick
    <3>4. proc' \in [Workers -> Procs]
      BY <2>14, PcUpdate, Zenon DEF Tick
    <3> QED
      BY <2>14, <3>1, <3>2, <3>3, <3>4 DEF Tick
  <2>15. CASE UNCHANGED vars
    BY <2>15 DEF vars
  <2> QED
    BY <2>1, <2>2, <2>3, <2>4, <2>5, <2>6, <2>7, <2>8, <2>9, <2>10, <2>11, <2>12,
       <2>13, <2>14, <2>15
    DEF Next, WorkerStep, Run
<1> QED
  BY <1>1, <1>2, PTL DEF Spec

\* The inductive invariant, for each row: its token is the youngest, nobody has
\* finished it before it has an outcome, and its lease is no longer than the
\* silence of its holder allows; a process or a statement with its token belongs
\* to its latest claim (tokens are fresh), and a renewal under way is no younger
\* than the last one composed.
RowInv(e) ==
    /\ row[e].token <= issued
    /\ row[e].phase \notin Outcomes => finisher[e] = 0
    /\ finisher[e] # 0 => finisher[e] = row[e].attempts
    /\ row[e].lease <= Lease - silence[e]

ProcInv(j, e) ==
    /\ j.token <= issued
    /\ (j.pc \in {"work", "complete"} /\ j.exec = e /\ j.token = row[e].token)
          => j.attempt = row[e].attempts

StatementInv(m, e) ==
    /\ m.job.token <= issued
    /\ (m.kind # "claim" /\ m.job.exec = e /\ m.job.token = row[e].token)
          => m.job.attempt = row[e].attempts
    /\ (m.kind = "renew" /\ m.job.exec = e /\ m.job.token = row[e].token)
          => silence[e] <= m.age

Inv ==
    \A e \in Executions :
        /\ RowInv(e)
        /\ \A w \in Workers : ProcInv(proc[w], e)
        /\ \A m \in sent : StatementInv(m, e)

\* A step that leaves the rows, the tokens and the silence alone disturbs only
\* what it changes of the processes and the statements.
LEMMA QuietStep ==
    ASSUME TypeOK, Inv, UNCHANGED <<row, issued, finisher, silence>>,
           \A w \in Workers : proc'[w] \in {proc[w], Polling, [proc[w] EXCEPT !.pc = "sleep"]},
           \A m \in sent' : \E n \in sent :
               m.kind = n.kind /\ m.job = n.job /\ m.age = n.age
    PROVE Inv'
<1> SUFFICES ASSUME NEW e \in Executions
             PROVE /\ RowInv(e)'
                   /\ \A w \in Workers : ProcInv(proc[w], e)'
                   /\ \A m \in sent' : StatementInv(m, e)'
  BY DEF Inv
<1>1. RowInv(e)'
  BY DEF Inv, RowInv
<1>2. ASSUME NEW w \in Workers PROVE ProcInv(proc[w], e)'
  <2>1. ProcInv(proc[w], e) /\ issued \in Nat /\ proc[w] \in Procs
    BY DEF Inv, TypeOK
  <2>2. CASE proc'[w] = [proc[w] EXCEPT !.pc = "sleep"]
    <3>1. proc'[w].pc = "sleep" /\ proc'[w].token = proc[w].token
      BY <2>1, <2>2 DEF Procs
    <3> QED
      BY <2>1, <3>1 DEF ProcInv
  <2>3. CASE proc'[w] = Polling
    BY <2>1, <2>3 DEF ProcInv, Polling
  <2>4. CASE proc'[w] = proc[w]
    BY <2>1, <2>4 DEF ProcInv
  <2> QED
    BY <2>2, <2>3, <2>4
<1>3. ASSUME NEW m \in sent' PROVE StatementInv(m, e)'
  <2>1. PICK n \in sent : m.kind = n.kind /\ m.job = n.job /\ m.age = n.age
    OBVIOUS
  <2>2. StatementInv(n, e)
    BY DEF Inv
  <2> QED
    BY <2>1, <2>2 DEF StatementInv
<1> QED
  BY <1>1, <1>2, <1>3

LEMMA SilentStep ==
    ASSUME TypeOK, Inv, UNCHANGED <<row, proc, issued, finisher, silence>>,
           sent' \subseteq sent
    PROVE Inv'
<1>1. \A w \in Workers : proc'[w] \in {proc[w], Polling, [proc[w] EXCEPT !.pc = "sleep"]}
  OBVIOUS
<1>2. \A m \in sent' : \E n \in sent : m.kind = n.kind /\ m.job = n.job /\ m.age = n.age
  OBVIOUS
<1> QED
  BY <1>1, <1>2, QuietStep

\* A statement that a process composes says of it what the process says.
LEMMA SendStep ==
    ASSUME TypeOK, Inv, NEW w \in Workers, NEW k \in {"claim", "renew", "complete"},
           k # "claim" => proc[w].pc \in {"work", "complete"},
           sent' = sent \cup {Statement(w, k)},
           UNCHANGED <<row, proc, issued, finisher>>,
           silence' = [e \in Executions |->
                        IF k = "renew" /\ proc[w].exec = e /\ proc[w].token = row[e].token
                        THEN 0 ELSE silence[e]]
    PROVE Inv'
<1> SUFFICES ASSUME NEW e \in Executions
             PROVE /\ RowInv(e)'
                   /\ \A x \in Workers : ProcInv(proc[x], e)'
                   /\ \A m \in sent' : StatementInv(m, e)'
  BY DEF Inv
<1>1. /\ silence[e] \in 0..(Lease + MaxDelay) /\ row[e].lease \in (-MaxDelay)..Lease
      /\ silence'[e] = 0 \/ silence'[e] = silence[e]
  BY DEF TypeOK, Rows
<1>2. RowInv(e)'
  <2>1. RowInv(e)
    BY DEF Inv
  <2> QED
    BY <1>1, <2>1, LeaseAssumption, DelayAssumption DEF RowInv
<1>3. ASSUME NEW x \in Workers PROVE ProcInv(proc[x], e)'
  BY DEF Inv, ProcInv
<1>4. ASSUME NEW m \in sent PROVE StatementInv(m, e)'
  <2>1. StatementInv(m, e) /\ m.age \in 0..MaxDelay
    BY DEF Inv, TypeOK, Statements
  <2>2. silence'[e] <= silence[e]
    BY <1>1, LeaseAssumption, DelayAssumption
  <2>3. silence[e] <= m.age => silence'[e] <= m.age
    BY <1>1, <2>1, <2>2, LeaseAssumption, DelayAssumption
  <2> QED
    BY <2>1, <2>3 DEF StatementInv
<1>5. ASSUME NEW m \in {Statement(w, k)} PROVE StatementInv(m, e)'
  <2>1. m.kind = k /\ m.job = proc[w] /\ m.age = 0
    BY DEF Statement
  <2>2. ProcInv(proc[w], e)
    BY DEF Inv
  <2>3. (k = "renew" /\ proc[w].exec = e /\ proc[w].token = row[e].token)
           => silence'[e] = 0
    OBVIOUS
  <2> QED
    BY <2>1, <2>2, <2>3 DEF StatementInv, ProcInv
<1> QED
  BY <1>2, <1>3, <1>4, <1>5

\* A claim takes a fresh token, which no process and no statement has.
LEMMA ClaimStep ==
    ASSUME TypeOK, Inv, NEW m \in sent, NEW x \in Executions, Claimed(m, x),
           sent' = sent \ {m}, UNCHANGED finisher
    PROVE Inv'
<1> SUFFICES ASSUME NEW e \in Executions
             PROVE /\ RowInv(e)'
                   /\ \A w \in Workers : ProcInv(proc[w], e)'
                   /\ \A n \in sent' : StatementInv(n, e)'
  BY DEF Inv
<1>1. issued \in Nat /\ issued' = issued + 1 /\ m.age \in 0..MaxDelay
  BY DEF TypeOK, Claimed, Statements
<1>2. RowInv(e) /\ row[e].token \in Nat
  BY DEF Inv, TypeOK, Rows
<1>3. CASE e = x
  <2>1. /\ row'[e].phase = "running" /\ row'[e].token = issued + 1
        /\ row'[e].lease = NewLease(m) /\ row'[e].attempts = row[e].attempts + 1
        /\ silence'[e] = m.age
    BY <1>3 DEF Claimed, TypeOK
  <2>2. row[e].phase \notin Outcomes
    BY <1>3 DEF Claimed, Claimable, Outcomes
  <2>3. finisher'[e] = 0 /\ "running" \notin Outcomes
    BY <1>2, <2>2 DEF RowInv, Outcomes
  <2>4. RowInv(e)'
    BY <1>1, <2>1, <2>3, LeaseAssumption, DelayAssumption DEF RowInv, NewLease
  <2>5. ASSUME NEW w \in Workers PROVE ProcInv(proc[w], e)'
    <3>1. CASE w = m.by
      <4>1. proc'[w] = [pc |-> "work", exec |-> x, token |-> issued + 1,
                        attempt |-> row[x].attempts + 1, outcome |-> "failed"]
        BY <3>1 DEF Claimed
      <4> QED
        BY <1>1, <1>3, <2>1, <4>1 DEF ProcInv
    <3>2. CASE w # m.by
      <4>1. proc'[w] = proc[w] /\ ProcInv(proc[w], e) /\ proc[w].token \in Nat
        BY <3>2 DEF Claimed, Inv, TypeOK, Procs
      <4> QED
        BY <1>1, <2>1, <4>1 DEF ProcInv
    <3> QED
      BY <3>1, <3>2
  <2>6. ASSUME NEW n \in sent' PROVE StatementInv(n, e)'
    <3>1. StatementInv(n, e) /\ n.job.token \in Nat
      BY DEF Inv, TypeOK, Statements, Procs
    <3> QED
      BY <1>1, <2>1, <3>1 DEF StatementInv
  <2> QED
    BY <2>4, <2>5, <2>6
<1>4. CASE e # x
  <2>1. row'[e] = row[e] /\ silence'[e] = silence[e] /\ finisher'[e] = finisher[e]
    BY <1>4 DEF Claimed, TypeOK
  <2>2. RowInv(e)'
    BY <1>1, <1>2, <2>1 DEF RowInv
  <2>3. ASSUME NEW w \in Workers PROVE ProcInv(proc[w], e)'
    <3>1. CASE w = m.by
      <4>1. proc'[w] = [pc |-> "work", exec |-> x, token |-> issued + 1,
                        attempt |-> row[x].attempts + 1, outcome |-> "failed"]
        BY <3>1 DEF Claimed
      <4> QED
        BY <1>1, <1>4, <4>1 DEF ProcInv
    <3>2. CASE w # m.by
      <4>1. proc'[w] = proc[w] /\ ProcInv(proc[w], e) /\ proc[w].token \in Nat
        BY <3>2 DEF Claimed, Inv, TypeOK, Procs
      <4> QED
        BY <1>1, <2>1, <4>1 DEF ProcInv
    <3> QED
      BY <3>1, <3>2
  <2>4. ASSUME NEW n \in sent' PROVE StatementInv(n, e)'
    <3>1. StatementInv(n, e) /\ n.job.token \in Nat
      BY DEF Inv, TypeOK, Statements, Procs
    <3> QED
      BY <1>1, <2>1, <3>1 DEF StatementInv
  <2> QED
    BY <2>2, <2>3, <2>4
<1> QED
  BY <1>3, <1>4

\* A renewal that finds its claim lengthens the lease from when it was composed.
LEMMA RenewStep ==
    ASSUME TypeOK, Inv, NEW m \in sent, RenewExecution(m), HoldsClaim(m)
    PROVE Inv'
<1> SUFFICES ASSUME NEW e \in Executions
             PROVE /\ RowInv(e)'
                   /\ \A w \in Workers : ProcInv(proc[w], e)'
                   /\ \A n \in sent' : StatementInv(n, e)'
  BY DEF Inv
<1>1. /\ row' = [row EXCEPT ![m.job.exec] = [@ EXCEPT !.lease = NewLease(m)]]
      /\ m.kind = "renew" /\ sent' = sent \ {m}
      /\ UNCHANGED <<proc, issued, finisher, silence>>
  BY RenewedRow DEF RenewExecution
<1>2. row[e] \in Rows /\ RowInv(e)
  BY DEF TypeOK, Inv
<1>3. /\ row'[e].token = row[e].token /\ row'[e].attempts = row[e].attempts
      /\ row'[e].phase = row[e].phase
      /\ row'[e].lease = IF e = m.job.exec THEN NewLease(m) ELSE row[e].lease
  BY <1>1, <1>2 DEF TypeOK, Rows
<1>4. e = m.job.exec => silence[e] <= m.age
  BY <1>1, HolderFacts DEF Inv, StatementInv
<1>5. row'[e].lease <= Lease - silence[e]
  <2>1. m.age \in 0..MaxDelay /\ silence[e] \in 0..(Lease + MaxDelay)
    BY DEF TypeOK, Statements
  <2> QED
    BY <1>2, <1>3, <1>4, <2>1, LeaseAssumption, DelayAssumption DEF RowInv, NewLease
<1>6. RowInv(e)'
  BY <1>1, <1>2, <1>3, <1>5 DEF RowInv
<1>7. \A w \in Workers : ProcInv(proc[w], e)'
  BY <1>1, <1>3 DEF Inv, ProcInv
<1>8. \A n \in sent' : StatementInv(n, e)'
  BY <1>1, <1>3 DEF Inv, StatementInv
<1> QED
  BY <1>6, <1>7, <1>8

\* A completion that finds its claim is one of the latest claim.
LEMMA CompleteStep ==
    ASSUME TypeOK, Inv, NEW m \in sent, CompleteExecution(m), HoldsClaim(m)
    PROVE Inv'
<1> SUFFICES ASSUME NEW e \in Executions
             PROVE /\ RowInv(e)'
                   /\ \A w \in Workers : ProcInv(proc[w], e)'
                   /\ \A n \in sent' : StatementInv(n, e)'
  BY DEF Inv
<1>1. /\ row' = [row EXCEPT ![m.job.exec] =
                   [[@ EXCEPT !.phase = m.job.outcome] EXCEPT !.lease = -MaxDelay]]
      /\ m.kind = "complete" /\ sent' = sent \ {m}
      /\ finisher' = [finisher EXCEPT ![m.job.exec] = m.job.attempt]
      /\ proc' = [w \in Workers |-> IF w = m.by THEN Polling ELSE proc[w]]
      /\ UNCHANGED <<issued, silence>>
  BY CompletedRow, Zenon DEF CompleteExecution
<1>2. row[e] \in Rows /\ RowInv(e)
  BY DEF TypeOK, Inv
<1>3. /\ row'[e].token = row[e].token /\ row'[e].attempts = row[e].attempts
      /\ e # m.job.exec => row'[e] = row[e] /\ finisher'[e] = finisher[e]
      /\ e = m.job.exec => /\ row'[e].phase = m.job.outcome
                           /\ row'[e].lease = -MaxDelay
                           /\ finisher'[e] = m.job.attempt
  BY <1>1, <1>2 DEF TypeOK, Rows
<1>4. e = m.job.exec => m.job.attempt = row[e].attempts /\ m.job.outcome \in Outcomes
  BY <1>1, HolderFacts DEF Inv, StatementInv, Procs
<1>5. row'[e].lease <= Lease - silence[e]
  <2>1. silence[e] \in 0..(Lease + MaxDelay)
    BY DEF TypeOK
  <2> QED
    BY <1>2, <1>3, <2>1, LeaseAssumption, DelayAssumption DEF RowInv
<1>6. RowInv(e)'
  <2>1. CASE e = m.job.exec
    BY <1>1, <1>2, <1>3, <1>4, <1>5, <2>1 DEF RowInv
  <2>2. CASE e # m.job.exec
    BY <1>1, <1>2, <1>3, <1>5, <2>2 DEF RowInv
  <2> QED
    BY <2>1, <2>2
<1>7. ASSUME NEW w \in Workers PROVE ProcInv(proc[w], e)'
  <2>1. ProcInv(proc[w], e) /\ issued \in Nat
    BY DEF Inv, TypeOK
  <2>2. proc'[w] = Polling \/ proc'[w] = proc[w]
    BY <1>1
  <2> QED
    BY <1>1, <1>3, <2>1, <2>2 DEF ProcInv, Polling
<1>8. \A n \in sent' : StatementInv(n, e)'
  BY <1>1, <1>3 DEF Inv, StatementInv
<1> QED
  BY <1>6, <1>7, <1>8, Zenon

\* With time, leases shorten as fast as statements and silences grow.
LEMMA TickStep ==
    ASSUME TypeOK, Inv, Tick
    PROVE Inv'
<1> SUFFICES ASSUME NEW e \in Executions
             PROVE /\ RowInv(e)'
                   /\ \A w \in Workers : ProcInv(proc[w], e)'
                   /\ \A n \in sent' : StatementInv(n, e)'
  BY DEF Inv
<1>1. row[e] \in Rows /\ RowInv(e) /\ silence[e] \in 0..(Lease + MaxDelay)
  BY DEF TypeOK, Inv
<1>2. row'[e] = [row[e] EXCEPT !.lease = IF @ = -MaxDelay THEN @ ELSE @ - 1]
  BY DEF Tick
<1>3. /\ row'[e].token = row[e].token /\ row'[e].attempts = row[e].attempts
      /\ row'[e].phase = row[e].phase
      /\ row'[e].lease = IF row[e].lease = -MaxDelay THEN row[e].lease ELSE row[e].lease - 1
  BY <1>1, <1>2 DEF Rows
<1>4. silence'[e] = IF silence[e] = Lease + MaxDelay THEN silence[e] ELSE silence[e] + 1
  BY DEF Tick
<1>5. row'[e].lease <= Lease - silence'[e]
  <2>1. row[e].lease \in (-MaxDelay)..Lease /\ row[e].lease <= Lease - silence[e]
    BY <1>1 DEF Rows, RowInv
  <2> QED
    BY <1>1, <1>3, <1>4, <2>1, LeaseAssumption, DelayAssumption
<1>6. issued' = issued /\ finisher' = finisher
  BY DEF Tick
<1>7. RowInv(e)'
  BY <1>1, <1>3, <1>5, <1>6 DEF RowInv
<1>8. ASSUME NEW w \in Workers PROVE ProcInv(proc[w], e)'
  <2>1. ProcInv(proc[w], e) /\ proc[w] \in Procs
    BY DEF Inv, TypeOK
  <2>2. proc'[w] = IF proc[w].pc = "sleep" THEN [proc[w] EXCEPT !.pc = "poll"] ELSE proc[w]
    BY DEF Tick
  <2> QED
    BY <1>3, <1>6, <2>1, <2>2 DEF ProcInv, Procs
<1>9. ASSUME NEW m \in sent' PROVE StatementInv(m, e)'
  <2>1. PICK n \in sent : /\ m.kind = n.kind /\ m.job = n.job
                          /\ m.age = n.age + 1 /\ n.age < MaxDelay
    BY OlderFacts DEF TypeOK
  <2>2. StatementInv(n, e) /\ n.age \in 0..MaxDelay
    BY DEF Inv, TypeOK, Statements
  <2>3. silence[e] <= n.age => silence'[e] <= m.age
    BY <1>1, <1>4, <2>1, <2>2, LeaseAssumption, DelayAssumption
  <2> QED
    BY <1>3, <1>6, <2>1, <2>2, <2>3 DEF StatementInv
<1> QED
  BY <1>7, <1>8, <1>9

LEMMA InvStep == TypeOK /\ Inv /\ [Next]_vars => Inv'
<1> SUFFICES ASSUME TypeOK, Inv, [Next]_vars PROVE Inv'
  OBVIOUS
<1>1. ASSUME NEW x \in Executions, EnqueueExecution(x) PROVE Inv'
  <2> SUFFICES ASSUME NEW e \in Executions
               PROVE /\ RowInv(e)'
                     /\ \A w \in Workers : ProcInv(proc[w], e)'
                     /\ \A n \in sent' : StatementInv(n, e)'
    BY DEF Inv
  <2>1. row[e] \in Rows /\ RowInv(e)
    BY DEF TypeOK, Inv
  <2>2. /\ row'[e] = row[e] \/ (row[e].phase = "absent" /\ row'[e] = [row[e] EXCEPT !.phase = "queued"])
        /\ UNCHANGED <<proc, sent, issued, finisher, silence>>
    BY <1>1 DEF EnqueueExecution, TypeOK
  <2>3. /\ row'[e].token = row[e].token /\ row'[e].attempts = row[e].attempts
        /\ row'[e].lease = row[e].lease
        /\ row'[e].phase \notin Outcomes => row[e].phase \notin Outcomes
    BY <2>1, <2>2 DEF Rows, Outcomes
  <2>4. RowInv(e)'
    BY <2>1, <2>2, <2>3 DEF RowInv
  <2> QED
    BY <2>2, <2>3, <2>4 DEF Inv, ProcInv, StatementInv
<1>2. ASSUME NEW w \in Workers, SendClaim(w) PROVE Inv'
  <2>1. silence' = [e \in Executions |->
                     IF "claim" = "renew" /\ proc[w].exec = e /\ proc[w].token = row[e].token
                     THEN 0 ELSE silence[e]]
    BY <1>2 DEF SendClaim, TypeOK
  <2> QED
    BY <1>2, <2>1, SendStep DEF SendClaim
<1>3. ASSUME NEW w \in Workers, SendRenewal(w) PROVE Inv'
  BY <1>3, SendStep DEF SendRenewal
<1>4. ASSUME NEW w \in Workers, FinishWork(w) PROVE Inv'
  <2> SUFFICES ASSUME NEW e \in Executions
               PROVE /\ RowInv(e)'
                     /\ \A x \in Workers : ProcInv(proc[x], e)'
                     /\ \A n \in sent' : StatementInv(n, e)'
    BY DEF Inv
  <2>1. UNCHANGED <<row, sent, issued, finisher, silence>>
    BY <1>4 DEF FinishWork
  <2>2. ASSUME NEW x \in Workers PROVE ProcInv(proc[x], e)'
    <3>1. proc[x] \in Procs /\ ProcInv(proc[x], e)
      BY DEF TypeOK, Inv
    <3>2. /\ proc'[x].token = proc[x].token /\ proc'[x].exec = proc[x].exec
          /\ proc'[x].attempt = proc[x].attempt
          /\ proc'[x].pc = proc[x].pc \/ proc[x].pc = "work"
      BY <1>4, <3>1 DEF FinishWork, TypeOK, Procs
    <3> QED
      BY <2>1, <3>1, <3>2 DEF ProcInv
  <2> QED
    BY <2>1, <2>2 DEF Inv, RowInv, StatementInv
<1>5. ASSUME NEW w \in Workers, SendCompletion(w) PROVE Inv'
  <2>1. silence' = [e \in Executions |->
                     IF "complete" = "renew" /\ proc[w].exec = e /\ proc[w].token = row[e].token
                     THEN 0 ELSE silence[e]]
    BY <1>5 DEF SendCompletion, TypeOK
  <2> QED
    BY <1>5, <2>1, SendStep DEF SendCompletion
<1>6. ASSUME NEW m \in sent, ClaimExecution(m) PROVE Inv'
  <2>1. ASSUME NEW e \in Executions, Claimed(m, e) PROVE Inv'
    BY <1>6, <2>1, ClaimCases, ClaimStep
  <2>2. ASSUME NoClaim(m) PROVE Inv'
    <3>1. \A w \in Workers : proc'[w] \in {proc[w], Polling, [proc[w] EXCEPT !.pc = "sleep"]}
      BY <2>2 DEF NoClaim
    <3>2. \A n \in sent' : \E o \in sent : n.kind = o.kind /\ n.job = o.job /\ n.age = o.age
      BY <1>6, ClaimCases
    <3>3. UNCHANGED <<row, issued, finisher, silence>>
      BY <1>6, <2>2, ClaimCases DEF NoClaim
    <3> QED
      BY <3>1, <3>2, <3>3, QuietStep
  <2> QED
    BY <1>6, <2>1, <2>2, ClaimCases
<1>7. ASSUME NEW m \in sent, RenewExecution(m) PROVE Inv'
  <2>1. CASE HoldsClaim(m)
    BY <1>7, <2>1, RenewStep
  <2>2. CASE ~HoldsClaim(m)
    <3>1. UNCHANGED <<row, proc, issued, finisher, silence>> /\ sent' = sent \ {m}
      BY <1>7, <2>2 DEF RenewExecution
    <3> QED
      BY <3>1, SilentStep
  <2> QED
    BY <2>1, <2>2
<1>8. ASSUME NEW m \in sent, CompleteExecution(m) PROVE Inv'
  <2>1. CASE HoldsClaim(m)
    BY <1>8, <2>1, CompleteStep
  <2>2. CASE ~HoldsClaim(m)
    <3>1. UNCHANGED <<row, issued, finisher, silence>> /\ sent' = sent \ {m}
      BY <1>8, <2>2 DEF CompleteExecution
    <3>2. \A w \in Workers : proc'[w] \in {proc[w], Polling, [proc[w] EXCEPT !.pc = "sleep"]}
      BY <1>8 DEF CompleteExecution
    <3>3. \A n \in sent' : \E o \in sent : n.kind = o.kind /\ n.job = o.job /\ n.age = o.age
      BY <3>1
    <3> QED
      BY <3>1, <3>2, <3>3, QuietStep
  <2> QED
    BY <2>1, <2>2
<1>9. ASSUME NEW w \in Workers, CallError(w) \/ Crash(w) PROVE Inv'
  <2>1. \A x \in Workers : proc'[x] \in {proc[x], Polling, [proc[x] EXCEPT !.pc = "sleep"]}
    <3>1. proc' = proc \/ proc' = [proc EXCEPT ![w] = Polling]
      BY <1>9 DEF CallError, Crash
    <3> QED
      BY <3>1 DEF TypeOK
  <2>2. \A m \in sent' : \E n \in sent : m.kind = n.kind /\ m.job = n.job /\ m.age = n.age
    <3>1. sent' = Abandoned(w) /\ sent \subseteq Statements
      BY <1>9 DEF CallError, Crash, TypeOK
    <3> QED
      BY <3>1, AbandonedFacts
  <2>3. UNCHANGED <<row, issued, finisher, silence>>
    BY <1>9 DEF CallError, Crash
  <2> QED
    BY <2>1, <2>2, <2>3, QuietStep
<1>10. ASSUME NEW w \in Workers, Pause(w) \/ Resume(w) PROVE Inv'
  <2>1. UNCHANGED <<row, proc, sent, issued, finisher, silence>>
    BY <1>10 DEF Pause, Resume
  <2> QED
    BY <2>1, SilentStep
<1>11. ASSUME NEW m \in sent, Lose(m) PROVE Inv'
  <2>1. UNCHANGED <<row, proc, issued, finisher, silence>> /\ sent' = sent \ {m}
    BY <1>11 DEF Lose
  <2> QED
    BY <2>1, SilentStep
<1>12. ASSUME Tick PROVE Inv'
  BY <1>12, TickStep
<1>13. CASE UNCHANGED vars
  <2>1. UNCHANGED <<row, proc, sent, issued, finisher, silence>>
    BY <1>13 DEF vars
  <2> QED
    BY <2>1, SilentStep
<1> QED
  BY <1>1, <1>2, <1>3, <1>4, <1>5, <1>6, <1>7, <1>8, <1>9, <1>10, <1>11, <1>12, <1>13
  DEF Next, WorkerStep, Run

LEMMA InvHolds == Spec => []Inv
<1>1. Init => Inv
  BY LeaseAssumption, DelayAssumption
  DEF Init, Inv, RowInv, ProcInv, StatementInv, Polling
<1> QED
  BY <1>1, InvStep, Typing, PTL DEF Spec

\* The fence of CompleteExecution, whatever crashes, stalls, delays and reclaims
\* do: the outcome of an execution is recorded by the process of its latest
\* claim.
THEOREM Fencing == Spec => []FinishedByLatestClaim
<1>1. Inv => FinishedByLatestClaim
  BY DEF Inv, RowInv, FinishedByLatestClaim
<1> QED
  BY <1>1, InvHolds, PTL

\* However late the renewals of RenewExecution reach the database, a lease ends
\* one LeaseDuration after its holder last composed a claim or a renewal.
THEOREM LeaseEndsOnTime == Spec => []SilentHolderLosesLease
<1>1. Inv => SilentHolderLosesLease
  BY DEF Inv, RowInv, SilentHolderLosesLease
<1> QED
  BY <1>1, InvHolds, PTL

\* The queue implements FencedJob: every statement is a submission, an attempt
\* or a finish of one job, or leaves what its users see as it is.
THEOREM Refinement == Spec => ImplementsFencedJob
<1> DEFINE phase == [x \in Executions |-> row[x].phase]
           attempts == [x \in Executions |-> row[x].attempts]
<1>1. Init => Jobs!Init
  BY DEF Init, Jobs!Init
<1>2. TypeOK /\ Inv /\ [Next]_vars => [Jobs!Next]_(Jobs!vars)
  <2> SUFFICES ASSUME TypeOK, Inv, [Next]_vars
               PROVE Jobs!Next \/ UNCHANGED Jobs!vars
    OBVIOUS
  <2>1. ASSUME NEW e \in Executions, EnqueueExecution(e)
        PROVE Jobs!Submit(e) \/ UNCHANGED Jobs!vars
    BY <2>1, Zenon DEF EnqueueExecution, Jobs!Submit, Jobs!vars, TypeOK, Rows
  <2>2. ASSUME NEW m \in sent, ClaimExecution(m)
        PROVE Jobs!Next \/ UNCHANGED Jobs!vars
    <3>1. ASSUME NEW e \in Executions, Claimed(m, e) PROVE Jobs!Attempt(e)
      <4>1. phase' = [phase EXCEPT ![e] = "running"]
        BY <3>1, Zenon DEF Claimed, TypeOK
      <4>2. attempts' = [attempts EXCEPT ![e] = @ + 1]
        BY <3>1, Zenon DEF Claimed, TypeOK
      <4>3. phase[e] \in {"queued", "running"}
        BY <3>1 DEF Claimed, Claimable
      <4>4. finisher' = finisher
        BY <2>2, ClaimCases
      <4> QED
        BY <4>1, <4>2, <4>3, <4>4 DEF Jobs!Attempt
    <3>2. ASSUME NoClaim(m) PROVE UNCHANGED Jobs!vars
      BY <2>2, <3>2, ClaimCases DEF NoClaim, Jobs!vars
    <3> QED
      BY <2>2, <3>1, <3>2, ClaimCases DEF Jobs!Next
  <2>3. ASSUME NEW m \in sent, RenewExecution(m)
        PROVE UNCHANGED Jobs!vars
    <3>1. CASE HoldsClaim(m)
      <4>1. row' = [row EXCEPT ![m.job.exec] = [@ EXCEPT !.lease = NewLease(m)]]
        BY <2>3, <3>1, RenewedRow
      <4>2. phase' = phase /\ attempts' = attempts
        BY <4>1 DEF TypeOK, Rows
      <4> QED
        BY <2>3, <4>2 DEF RenewExecution, Jobs!vars
    <3>2. CASE ~HoldsClaim(m)
      BY <2>3, <3>2 DEF RenewExecution, Jobs!vars
    <3> QED
      BY <3>1, <3>2
  <2>4. ASSUME NEW m \in sent, CompleteExecution(m)
        PROVE Jobs!Next \/ UNCHANGED Jobs!vars
    <3>1. CASE HoldsClaim(m)
      <4>1. PICK e \in Executions : m.job.exec = e /\ row[e].phase = "running"
        BY <3>1, HolderFacts
      <4>2. m.job.attempt = row[e].attempts
        BY <2>4, <3>1, <4>1, HolderFacts DEF CompleteExecution, Inv, StatementInv
      <4>3. m.job.outcome \in {"succeeded", "failed"}
        BY <3>1, HolderFacts, Zenon DEF Procs, Outcomes
      <4>4. row' = [row EXCEPT ![e] =
                      [[@ EXCEPT !.phase = m.job.outcome] EXCEPT !.lease = -MaxDelay]]
        BY <2>4, <3>1, <4>1, CompletedRow, Zenon
      <4>5. phase' = [phase EXCEPT ![e] = m.job.outcome]
        BY <4>4, Zenon DEF TypeOK, Rows
      <4>6. attempts' = attempts
        BY <4>4 DEF TypeOK, Rows
      <4>7. finisher' = [finisher EXCEPT ![e] = attempts[e]]
        BY <2>4, <3>1, <4>1, <4>2 DEF CompleteExecution
      <4>8. Jobs!Finish(e)
        BY <4>1, <4>3, <4>5, <4>6, <4>7, Zenon DEF Jobs!Finish
      <4> QED
        BY <4>8 DEF Jobs!Next
    <3>2. CASE ~HoldsClaim(m)
      BY <2>4, <3>2 DEF CompleteExecution, Jobs!vars
    <3> QED
      BY <3>1, <3>2
  <2>5. ASSUME NEW w \in Workers,
               \/ SendClaim(w) \/ SendRenewal(w) \/ FinishWork(w) \/ SendCompletion(w)
               \/ CallError(w) \/ Crash(w) \/ Pause(w) \/ Resume(w)
        PROVE UNCHANGED Jobs!vars
    <3>1. row' = row /\ finisher' = finisher
      BY <2>5 DEF SendClaim, SendRenewal, FinishWork, SendCompletion, CallError, Crash,
                  Pause, Resume
    <3> QED
      BY <3>1 DEF Jobs!vars
  <2>6. ASSUME NEW m \in sent, Lose(m) PROVE UNCHANGED Jobs!vars
    BY <2>6 DEF Lose, Jobs!vars
  <2>7. ASSUME Tick PROVE UNCHANGED Jobs!vars
    BY <2>7 DEF Tick, Jobs!vars, TypeOK, Rows
  <2>8. CASE UNCHANGED vars
    BY <2>8 DEF vars, Jobs!vars
  <2> QED
    BY <2>1, <2>2, <2>3, <2>4, <2>5, <2>6, <2>7, <2>8
    DEF Next, WorkerStep, Run, Jobs!Next
<1> QED
  BY <1>1, <1>2, Typing, InvHolds, PTL DEF Spec, ImplementsFencedJob, Jobs!Spec
=============================================================================
