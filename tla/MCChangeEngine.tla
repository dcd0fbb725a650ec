--------------------------- MODULE MCChangeEngine ---------------------------
(***************************************************************************)
(* Instances of ChangeEngine: the Changes and appliers that meet, and what *)
(* goes wrong.  r2 carries a migration.                                    *)
(***************************************************************************)
EXTENDS ChangeEngine

CONSTANTS r1, r2, s1, s2, w1, w2

\* One applier that may die at any step, of a candidate that may be bad.
Dying == [changes |-> {r2}, workers |-> {w1}, left |-> 3,
          faults |-> {"crash", "launch", "verify"}]

\* Its heartbeats, requests and waits fail as well, and so does the migration.
Failing == [changes |-> {r2}, workers |-> {w1}, left |-> 2,
            faults |-> {"crash", "heartbeat", "store", "read", "cancel", "timeout",
                        "launch", "migration", "verify"}]

\* Two Changes in turn, with one such failure.
InTurn == [Failing EXCEPT !.changes = {r1, r2}, !.left = 1]

\* Two Changes in turn, by an applier that may die.
DyingInTurn == [Dying EXCEPT !.changes = {r1, r2}, !.left = 2]

\* All that fails is one candidate.
BadCandidate == [InTurn EXCEPT !.faults = {"launch", "verify"}]

\* Scale Changes, one after the other.
Scaling == [changes |-> {s1, s2}, workers |-> {w1}, left |-> 2,
            faults |-> {"crash", "store", "read", "timeout", "launch", "verify"}]

\* A scale is planned while a release rolls out, is undone or is done.
Mixed == [changes |-> {r1, s1}, workers |-> {w1}, left |-> 1,
          faults |-> {"launch", "verify"}]

\* The same with an applier that dies or whose waits and requests fail.
MixedFailing == [Mixed EXCEPT !.faults = {"crash", "timeout", "store", "read", "launch", "verify"}]

OneApplier == {Dying, Failing, InTurn, DyingInTurn, BadCandidate, Scaling, Mixed, MixedFailing}

\* Two appliers and two Changes of one System.
Pair == [changes |-> {r1, r2}, workers |-> {w1, w2}, left |-> 1,
         faults |-> {"crash", "pause", "cancel", "migration"}]

TwoAppliers == {Pair}

\* Two appliers of the same Change, and nothing fails.
Twice == {[changes |-> {r1}, workers |-> {w1, w2}, left |-> 0, faults |-> {}]}
=============================================================================
