----------------------------- MODULE NodeRuntime -----------------------------
(***************************************************************************)
(* The node agent, cmd/canter-node/main.go: one loop that polls the        *)
(* gateway and brings the replicas on its host to the desired release, and *)
(* the proxy that routes public requests to them meanwhile.  reconcile is  *)
(* split at every gateway call, at every start of a replica, and where it  *)
(* moves the routes, waits for a drain or stops a replica.  Runtime        *)
(* actions are in ChangeEngine.                                            *)
(*                                                                         *)
(* A replica is a slot of Replicas; slots are reused when nothing refers   *)
(* to them.  The proxy's round robin is a choice of any target.            *)
(***************************************************************************)
EXTENDS NodeGateway, Sequences, FiniteSets, FiniteSetsExt, SequencesExt

CONSTANTS
    Replicas, \* slots for application processes, numbers
    Ports,    \* private ports 18080.., numbers
    Requests  \* public requests

VARIABLES
    me,      \* the loop of each host's node: its fields and where it stands
    proc,    \* the application processes
    targets, \* ports the proxy routes to, by host
    reqs,    \* the public requests in flight
    cached,  \* artifacts unpacked on each host's disk
    due,     \* replicas that ran when a restart was accepted and still run
    observed \* m1: the last report

local == <<me, proc, targets, reqs, cached, due, observed>>
vars == <<identity, wishes, ack, env, local>>

NoProc == [st |-> "free"]
NoIdentity == <<NoRelease, FALSE>>
NoRequest == [host |-> "none"]
NoReport == [phase |-> "none"]
NoMode == "keep"

NewNode ==
    [pc |-> "poll", snap |-> NoDesired, ctl |-> 0, want |-> 0, mode |-> NoMode,
     active |-> <<>>, fresh |-> <<>>, old |-> <<>>, failed |-> NoIdentity,
     last |-> 0, restart |-> FALSE, bound |-> FALSE, soon |-> 0,
     note |-> NoReport, sent |-> NoReport]

Init ==
    /\ GatewayInit
    /\ me = [h \in Hosts |-> NewNode]
    /\ proc = [p \in Replicas |-> NoProc]
    /\ targets = [h \in Hosts |-> {}]
    /\ reqs = [r \in Requests |-> NoRequest]
    /\ cached = [h \in Hosts |-> {}]
    /\ due = {}
    /\ observed = NoReport

At(h, pc) == held[h] # 0 /\ me[h].pc = pc
PortsOf(ps) == {proc[p].port : p \in ToSet(ps)}
Freed(ps) == [p \in Replicas |-> IF p \in ps THEN NoProc ELSE proc[p]]
Inflight(h, port) ==
    Cardinality({r \in Requests : reqs[r] # NoRequest /\ reqs[r].host = h
                                  /\ reqs[r].port = port})

\* Mutant: two configurations of one artifact are not told apart.
IdentityOfArtifact(h) ==
    <<CHOOSE r \in Releases : ArtifactOf[r] = ArtifactOf[me[h].snap.rel], me[h].bound>>
\* releaseApplyIdentity: a release and the service bindings it is started with.
releaseApplyIdentity(h) == <<me[h].snap.rel, me[h].bound>>

\* What observed(...) and the shorter reports say.
Brief(phase, ready) ==
    [phase |-> phase, want |-> NoRelease, reps |-> 0, ready |-> ready,
     pids |-> <<>>, running |-> {}, healthy |-> FALSE]
FleetReport(h, phase, want, healthy) ==
    LET fleet == me[h].active IN
    [phase |-> phase, want |-> ArtifactOf[me[h].snap.rel], reps |-> want,
     ready |-> Len(fleet), pids |-> fleet,
     running |-> {ArtifactOf[proc[p].id[1]] : p \in ToSet(fleet)},
     healthy |-> healthy]

------------------------------------------------------------------------------
(* reconcile *)

\* Snapshot: the gateway resolves the credential and reads the desired release,
\* then the control and its acknowledgement.
Snapshot(h) ==
    /\ At(h, "poll") /\ ResolveNode(h)
    /\ me' = [me EXCEPT ![h].pc = "control", ![h].snap = desired]
    /\ UNCHANGED <<proc, targets, reqs, cached, due, observed, ack>>
    /\ UNCHANGED <<identity, wishes>> /\ NoFault

SnapshotControl(h) ==
    /\ At(h, "control")
    /\ me' = [me EXCEPT ![h].pc = "reap",
                        ![h].ctl = IF control # ack THEN control ELSE 0]
    /\ UNCHANGED <<proc, targets, reqs, cached, due, observed, ack>>
    /\ UNCHANGED <<identity, wishes>> /\ NoFault

\* reapExited, and the report that follows it.
reapExited(h) ==
    LET gone == {p \in ToSet(me[h].active) : proc[p].st = "exited"}
        survivors == SelectSeq(me[h].active, LAMBDA p : p \notin gone) IN
    /\ At(h, "reap")
    /\ \/ /\ gone # {}
          /\ me' = [me EXCEPT ![h].pc = "report", ![h].active = survivors,
                              ![h].failed = NoIdentity,
                              ![h].note = Brief("recovering", Len(survivors))]
          /\ proc' = Freed(gone)
          /\ targets' = [targets EXCEPT ![h] = PortsOf(survivors)]
          /\ due' = due \ gone
       \/ /\ gone = {}
          /\ me' = [me EXCEPT ![h].pc = "apply"]
          /\ UNCHANGED <<proc, targets, due>>
    /\ UNCHANGED <<reqs, cached, observed, ack, identity, wishes>> /\ NoFault

\* applyControl: a control is applied once, before it is acknowledged.
applyControl(h) ==
    /\ At(h, "apply")
    /\ \/ /\ me[h].ctl \in {0, me[h].last}
          /\ me' = [me EXCEPT ![h].pc = "services"]
          /\ UNCHANGED due
       \/ /\ me[h].ctl \notin {0, me[h].last}
          /\ me' = [me EXCEPT ![h].pc = "ack", ![h].last = me[h].ctl,
                              ![h].restart = TRUE]
          /\ due' = due \cup ToSet(me[h].active)
    /\ UNCHANGED <<proc, targets, reqs, cached, observed, ack, identity, wishes>>
    /\ NoFault

\* Mutant: a restart whose acknowledgement failed is given up.
AbandonControl(h) == [me EXCEPT ![h].pc = "poll", ![h].restart = FALSE]
ControlUnacknowledged(h) == [me EXCEPT ![h].pc = "poll"]

\* AckNodeControl refuses a control that is not the current one, then
\* acknowledges it.  On any error this reconcile ends.
AckNodeControl(h) ==
    /\ At(h, "ack")
    /\ \/ /\ ResolveNode(h) /\ control = me[h].ctl /\ ack # control
          /\ me' = [me EXCEPT ![h].pc = "acknowledge"]
          /\ NoFault
       \/ /\ ~ResolveNode(h) \/ control # me[h].ctl \/ ack = control
          /\ me' = ControlUnacknowledged(h)
          /\ NoFault
       \/ /\ me' = ControlUnacknowledged(h)
          /\ Fault("report")
    /\ UNCHANGED <<proc, targets, reqs, cached, due, observed, ack, identity, wishes>>

PutNodeControlAck(h) ==
    /\ At(h, "acknowledge")
    /\ ack' = me[h].ctl
    /\ \/ me' = [me EXCEPT ![h].pc = "services"] /\ NoFault
       \/ me' = ControlUnacknowledged(h) /\ Fault("report")
    /\ UNCHANGED <<proc, targets, reqs, cached, due, observed, identity, wishes>>

\* reconcileServices: within the check interval, also the second after a failed
\* check, the services are not looked at.  That second is over after
\* ServiceRetry more rounds at most.
ServiceRetry == 2
reconcileServices(h) ==
    /\ At(h, "services")
    /\ \/ /\ me' = [me EXCEPT ![h].pc = "desired", ![h].soon = 0,
                              ![h].bound = @ \/ env.plan]
          /\ NoFault
       \/ /\ me[h].soon > 0
          /\ me' = [me EXCEPT ![h].pc = "desired", ![h].soon = @ - 1]
          /\ NoFault
       \/ /\ env.plan
          /\ me' = [me EXCEPT ![h].pc = "report", ![h].soon = ServiceRetry,
                              ![h].note = Brief("provisioning-services", 0)]
          /\ Fault("services")
    /\ UNCHANGED <<proc, targets, reqs, cached, due, observed, ack, identity, wishes>>

\* Mutant: the lease restores nothing.
RestoreNothing(d) == IF d.leased /\ expired THEN 0 ELSE d.reps
\* The replicas asked for: those of the release, or the restored number once the
\* capacity lease has run out.
EffectiveReplicas(d) == IF d.leased /\ expired THEN 1 ELSE d.reps

\* reconcileReleaseFleet replaces the fleet for a restart or if some replica is
\* of another identity, and otherwise grows or shrinks it.
FleetMode(h, want) ==
    LET fleet == me[h].active
        matches == fleet # <<>> /\ \A p \in ToSet(fleet) :
                     proc[p].id = releaseApplyIdentity(h) IN
    CASE me[h].restart \/ ~matches -> "replace"
      [] Len(fleet) < want /\ matches /\ ~me[h].restart -> "grow"
      [] Len(fleet) > want /\ matches /\ ~me[h].restart -> "shrink"
      [] OTHER -> NoMode

\* The middle of reconcile.  A release that failed with nothing else running is
\* not tried again.
ReconcileDesired(h) ==
    LET want == EffectiveReplicas(me[h].snap)
        mode == FleetMode(h, want) IN
    /\ At(h, "desired")
    /\ me' = CASE me[h].snap = NoDesired ->
                    [me EXCEPT ![h].pc = "report", ![h].note = Brief("waiting", 0)]
               [] me[h].snap # NoDesired /\ ~me[h].restart
                  /\ me[h].failed = releaseApplyIdentity(h) ->
                    [me EXCEPT ![h].pc = "poll"]
               [] OTHER ->
                    [me EXCEPT ![h].mode = mode, ![h].want = want,
                               ![h].pc = IF mode = NoMode THEN "finish" ELSE "launch"]
    /\ UNCHANGED <<proc, targets, reqs, cached, due, observed, ack, identity, wishes>>
    /\ NoFault

LacksReplicas(h) ==
    Len(me[h].fresh) + (IF me[h].mode = "grow" THEN Len(me[h].active) ELSE 0)
      < me[h].want /\ me[h].mode # "shrink"

nextProcessPort(h) == Min(Ports \ PortsOf(me[h].active \o me[h].fresh))
FreeSlot ==
    CHOOSE p \in Replicas : proc[p] = NoProc /\ \A r \in Requests :
                              reqs[r] # NoRequest => reqs[r].replica # p

\* The gateway hands out only the artifact of the current desired release.
NodeArtifact(h, artifact) ==
    ResolveNode(h) /\ desired # NoDesired /\ ArtifactOf[desired.rel] = artifact

\* materialize: the artifact is on disk or can be fetched.
Materializes(h) ==
    LET artifact == ArtifactOf[me[h].snap.rel] IN
    artifact \in cached[h] \/ NodeArtifact(h, artifact)

\* startRelease: a candidate is started and passes its health check.
launchReplica(h) ==
    LET p == FreeSlot IN
    /\ At(h, "launch") /\ LacksReplicas(h) /\ Materializes(h)
    /\ proc' = [proc EXCEPT ![p] = [st |-> "up", host |-> h, port |-> nextProcessPort(h),
                                    id |-> releaseApplyIdentity(h)]]
    /\ cached' = [cached EXCEPT ![h] = @ \cup {ArtifactOf[me[h].snap.rel]}]
    /\ me' = [me EXCEPT ![h].fresh = Append(@, p)]
    /\ UNCHANGED <<targets, reqs, due, observed, ack, identity, wishes>> /\ NoFault

\* The candidate cannot be fetched or started, or fails its health check: the
\* candidates are stopped and what runs is left alone.
LaunchFails(h) ==
    /\ At(h, "launch") /\ LacksReplicas(h)
    /\ Materializes(h) => Fault("launch")
    /\ ~Materializes(h) => NoFault
    /\ proc' = Freed(ToSet(me[h].fresh))
    /\ me' = [me EXCEPT
                ![h].pc = "report", ![h].fresh = <<>>,
                ![h].restart = @ /\ me[h].mode # "replace",
                ![h].failed = IF me[h].active = <<>>
                                THEN releaseApplyIdentity(h) ELSE @,
                ![h].note = FleetReport(h, "release-failed", me[h].want,
                                        me[h].active # <<>>)]
    /\ due' = IF me[h].mode = "replace" THEN due \ ToSet(me[h].active) ELSE due
    /\ UNCHANGED <<targets, reqs, cached, observed, ack, identity, wishes>>

NextFleet(h) ==
    CASE me[h].mode = "replace" -> me[h].fresh
      [] me[h].mode = "grow" -> me[h].active \o me[h].fresh
      [] OTHER -> SubSeq(me[h].active, 1, me[h].want)

processTargets(h) == PortsOf(NextFleet(h))

\* The new fleet is complete: the proxy routes to it, the others leave.
SwitchTargets(h) ==
    /\ At(h, "launch") /\ ~LacksReplicas(h)
    /\ targets' = [targets EXCEPT ![h] = processTargets(h)]
    /\ me' = [me EXCEPT
                ![h].pc = "drain", ![h].active = NextFleet(h), ![h].fresh = <<>>,
                ![h].old = SelectSeq(me[h].active,
                                     LAMBDA p : p \notin ToSet(NextFleet(h)))]
    /\ UNCHANGED <<proc, reqs, cached, due, observed, ack, identity, wishes>>
    /\ NoFault

\* Mutant: the drain looks at the replica that is being kept.
DrainedElsewhere(h) ==
    me[h].active = <<>> \/ Inflight(h, proc[Head(me[h].active)].port) = 0
Drained(h) == Inflight(h, proc[Head(me[h].old)].port) = 0

\* Ten seconds of waiting end the drain too.
waitForDrain(h) ==
    /\ At(h, "drain") /\ me[h].old # <<>>
    /\ me' = [me EXCEPT ![h].pc = IF Drained(h) THEN "stop" ELSE "cut"]
    /\ UNCHANGED <<proc, targets, reqs, cached, due, observed, ack, identity, wishes>>
    /\ NoFault

stop(h) ==
    LET p == Head(me[h].old) IN
    /\ At(h, "stop") \/ At(h, "cut")
    /\ proc' = Freed({p})
    /\ due' = due \ {p}
    /\ me' = [me EXCEPT ![h].pc = "drain", ![h].old = Tail(@)]
    /\ UNCHANGED <<targets, reqs, cached, observed, ack, identity, wishes>> /\ NoFault

FinishFleet(h) ==
    /\ At(h, "finish") \/ (At(h, "drain") /\ me[h].old = <<>>)
    /\ LET replaced == me[h].mode = "replace" IN
       me' = [me EXCEPT
                ![h].pc = "report",
                ![h].restart = @ /\ ~replaced,
                ![h].failed = IF replaced THEN NoIdentity ELSE @,
                ![h].note = FleetReport(h, "running", me[h].want,
                                        Len(me[h].active) = me[h].want)]
    /\ UNCHANGED <<proc, targets, reqs, cached, due, observed, ack, identity, wishes>>
    /\ NoFault

AfterReport(h) == IF me[h].note.phase = "recovering" THEN "apply" ELSE "poll"

\* writeObserved leaves an unchanged report out, for up to thirty seconds.
SuppressReport(h) ==
    /\ At(h, "report") /\ me[h].note = me[h].sent
    /\ me' = [me EXCEPT ![h].pc = AfterReport(h), ![h].note = NoReport]
    /\ UNCHANGED <<proc, targets, reqs, cached, due, observed, ack, identity, wishes>>
    /\ NoFault

\* A report whose PUT failed, with or without effect, does not count as sent.
writeObserved(h) ==
    /\ At(h, "report")
    /\ \/ /\ ResolveNode(h)
          /\ observed' = me[h].note
          /\ me' = [me EXCEPT ![h].pc = AfterReport(h), ![h].note = NoReport,
                              ![h].sent = me[h].note]
          /\ NoFault
       \/ /\ me' = [me EXCEPT ![h].pc = AfterReport(h), ![h].note = NoReport]
          /\ \/ ~ResolveNode(h) /\ UNCHANGED observed /\ NoFault
             \/ ResolveNode(h) /\ observed' \in {observed, me[h].note}
                /\ Fault("report")
    /\ UNCHANGED <<proc, targets, reqs, cached, due, ack, identity, wishes>>

reconcile(h) ==
    \/ Snapshot(h) \/ SnapshotControl(h) \/ reapExited(h) \/ applyControl(h)
    \/ AckNodeControl(h) \/ PutNodeControlAck(h) \/ reconcileServices(h)
    \/ ReconcileDesired(h) \/ launchReplica(h) \/ LaunchFails(h)
    \/ SwitchTargets(h) \/ waitForDrain(h) \/ stop(h) \/ FinishFleet(h)
    \/ SuppressReport(h) \/ writeObserved(h)

------------------------------------------------------------------------------
(* the proxy, the applications, and the host *)

\* acquireTarget: the choice of a target and its count are one critical section.
acquireTarget(r, h) ==
    /\ Cardinality({q \in Requests : reqs[q] # NoRequest}) < env.requests
    /\ reqs[r] = NoRequest
    /\ \E port \in targets[h], p \in Replicas :
         /\ proc[p] # NoProc /\ proc[p].host = h /\ proc[p].port = port
         /\ reqs' = [reqs EXCEPT ![r] = [host |-> h, port |-> port, replica |-> p]]
    /\ UNCHANGED <<me, proc, targets, cached, due, observed, ack, identity, wishes>>
    /\ NoFault

\* The request is over, or its replica is gone: the count goes down.
releaseTarget(r) ==
    /\ reqs[r] # NoRequest
    /\ reqs' = [reqs EXCEPT ![r] = NoRequest]
    /\ UNCHANGED <<me, proc, targets, cached, due, observed, ack, identity, wishes>>
    /\ NoFault

\* An application exits by itself.
Exit(p) ==
    /\ proc[p].st = "up"
    /\ Fault("exit")
    /\ proc' = [proc EXCEPT ![p].st = "exited"]
    /\ UNCHANGED <<me, targets, reqs, cached, due, observed, ack, identity, wishes>>

\* The node's process dies, systemd ends everything it started and starts it
\* again: only the disk is kept.
Crash(h) ==
    LET mine == {p \in Replicas : proc[p] # NoProc /\ proc[p].host = h} IN
    /\ held[h] # 0
    /\ Fault("crash")
    /\ me' = [me EXCEPT ![h] = NewNode]
    /\ proc' = Freed(mine) /\ due' = due \ mine
    /\ targets' = [targets EXCEPT ![h] = {}]
    /\ reqs' = [r \in Requests |-> IF reqs[r] # NoRequest /\ reqs[r].host = h
                                     THEN NoRequest ELSE reqs[r]]
    /\ UNCHANGED <<cached, observed, ack, identity, wishes>>

Next ==
    \/ GatewayNext /\ UNCHANGED local
    \/ \E h \in Hosts : reconcile(h) \/ Crash(h)
    \/ \E r \in Requests : releaseTarget(r) \/ \E h \in Hosts : acquireTarget(r, h)
    \/ \E p \in Replicas : Exit(p)

Spec == Init /\ [][Next]_vars

\* The node's loop has a ticker and a deadline on every wait, and systemd
\* restarts it; a report is left out for thirty seconds, not for ever.
FairSpec ==
    Spec /\ \A h \in Hosts : WF_vars(reconcile(h)) /\ SF_vars(writeObserved(h))

------------------------------------------------------------------------------
(* properties *)

\* A release or a scale stops a replica with requests on it only after its
\* drain has run out: "switches new requests, waits for the old backend to
\* drain, and only then terminates it".
DrainedBeforeStop ==
    [][\A r \in Requests :
         LET q == reqs[r] IN
         q # NoRequest /\ reqs'[r] = q /\ proc[q.replica].st = "up"
         /\ proc'[q.replica] = NoProc
           => me[q.host].pc = "cut"]_vars

\* A fleet that serves keeps serving through releases, restarts, scalings and
\* expired capacity leases, failed ones included.  The routes become empty only
\* when every replica has exited by itself or the node's process dies.
ServingIsKept ==
    [][\A h \in Hosts :
         targets[h] # {} /\ targets'[h] = {} =>
           \/ \A p \in ToSet(me[h].active) : proc[p].st = "exited"
           \/ me'[h] = NewNode]_vars

\* Once nothing disturbs it any more, a node the gateway knows settles: the fleet is of
\* the desired identity and number and is reported as running, or nothing could
\* be started and the report says that the release failed.  Left out: a lost
\* report of a failed launch, which is not sent again.
Settled(h) ==
    \/ desired = NoDesired /\ observed.phase = "waiting"
    \/ /\ desired # NoDesired /\ observed.phase = "running" /\ observed.healthy
       /\ observed.want = ArtifactOf[desired.rel]
       /\ observed.pids = me[h].active
       /\ Len(me[h].active) = EffectiveReplicas(desired)
       /\ \A p \in ToSet(me[h].active) : proc[p].id = <<desired.rel, env.plan>>
    \/ /\ desired # NoDesired /\ observed.phase = "release-failed"
       /\ observed.want = ArtifactOf[desired.rel] /\ me[h].active = <<>>
ReportsFailures == ~ ({"report", "launch"} \subseteq env.faults)
NodeSettles ==
    \A h \in Hosts : <>[](ReportsFailures /\ ResolveNode(h) => Settled(h))

\* A restart that was accepted is carried out: every replica that ran then is
\* replaced, whatever becomes of the acknowledgement, unless the replacement
\* cannot be started.
AcceptedRestartHappens == (due # {}) ~> (due = {})
==============================================================================
