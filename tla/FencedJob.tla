----------------------------- MODULE FencedJob -----------------------------
(***************************************************************************)
(* What the control plane's durable queues promise: a job is attempted     *)
(* again until one attempt finishes it, the attempt that finishes it is    *)
(* the latest one made, and a finished job stays as it is.                 *)
(***************************************************************************)
EXTENDS Naturals

CONSTANT Jobs

VARIABLES phase,     \* phase[j]
          attempts,  \* attempts[j]: how many attempts were started
          finisher   \* finisher[j]: the attempt that finished j, 0 if none

vars == <<phase, attempts, finisher>>

Init ==
    /\ phase = [j \in Jobs |-> "absent"]
    /\ attempts = [j \in Jobs |-> 0]
    /\ finisher = [j \in Jobs |-> 0]

Submit(j) ==
    /\ phase[j] = "absent"
    /\ phase' = [phase EXCEPT ![j] = "queued"]
    /\ UNCHANGED <<attempts, finisher>>

Attempt(j) ==
    /\ phase[j] \in {"queued", "running"}
    /\ phase' = [phase EXCEPT ![j] = "running"]
    /\ attempts' = [attempts EXCEPT ![j] = @ + 1]
    /\ UNCHANGED finisher

Finish(j) ==
    /\ phase[j] = "running"
    /\ \E o \in {"succeeded", "failed"} : phase' = [phase EXCEPT ![j] = o]
    /\ finisher' = [finisher EXCEPT ![j] = attempts[j]]
    /\ UNCHANGED attempts

Next == \E j \in Jobs : Submit(j) \/ Attempt(j) \/ Finish(j)

Spec == Init /\ [][Next]_vars
=============================================================================
