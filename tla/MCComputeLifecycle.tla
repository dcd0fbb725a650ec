------------------------ MODULE MCComputeLifecycle ------------------------
(***************************************************************************)
(* Instances of ComputeLifecycle: who meets whom, and what goes wrong.     *)
(***************************************************************************)
EXTENDS ComputeLifecycle

CONSTANTS a1, a2, d1, x1, x2, o1

\* Two appliers race each other and a Destroy over two networks.
Creation == [clients |-> {a1, a2, d1}, left |-> 2,
             faults |-> {"interrupt", "lostReply", "hidden", "exhausted", "boot", "lookup"}]

\* Two exposers race each other and a Destroy.
Exposing == [clients |-> {a1, d1, x1, x2}, left |-> 2,
             faults |-> {"interrupt", "lostReply", "hidden", "boot", "lookup"}]

\* An operator recovers exposures that escalated.
Recovery == [clients |-> {a1, x1, o1}, left |-> 3,
             faults |-> {"interrupt", "lostReply", "hidden", "lookup"}]

\* The recovery meets a Destroy.
Overlap == [clients |-> {a1, d1, x1, o1}, left |-> 2,
            faults |-> {"interrupt", "lostReply", "hidden", "lookup"}]

\* Nothing goes wrong.
Calm == [clients |-> {a1, d1, x1}, left |-> 0, faults |-> {}]

MCEnvironments == {Creation, Exposing, Recovery, Overlap, Calm}

\* A Destroy that is stopped half way.
Stopped == [clients |-> {a1, d1}, left |-> 1, faults |-> {"interrupt"}]
MCStopped == {Stopped}
=============================================================================
