-------------------------- MODULE MCChangeApproval --------------------------
(***************************************************************************)
(* Small instances of ChangeApproval: the life of one connection without   *)
(* Changes, and one Change with agents that are connected.                 *)
(***************************************************************************)
EXTENDS ChangeApproval

Quiet == [devices |-> {}, paired |-> {}, installed |-> <<>>, grants |-> {}, tokens |-> 0,
          workers |-> {}, endings |-> {}, changes |-> {}, handlers |-> {}, requests |-> {},
          policies |-> {}, faults |-> {}]

\* One connection from its request to its end, by device code and by pairing.
ByDevice == [Quiet EXCEPT !.devices = {"a"}, !.tokens = 4, !.workers = {"w"},
                          !.endings = {"revoke", "disconnect"}, !.faults = {"lapse"}]
ByPairing == [Quiet EXCEPT !.paired = {"a"}, !.tokens = 3,
                           !.grants = {"read-only", "human-approval-required"},
                           !.endings = {"revoke", "cancel", "disconnect"}, !.faults = {"lapse"}]

\* A connected agent asks for approval while an owner changes its grant.
Asking == [Quiet EXCEPT !.installed = <<"a">>, !.workers = {"w"}, !.changes = {"c"},
                        !.grants = {"read-only", "human-approval-required"},
                        !.endings = {"revoke"}, !.handlers = {"h", "i"},
                        !.requests = {"route"}]

\* Approvals that are cut off between their steps, and the dashboard.
Recovering == [Quiet EXCEPT !.installed = <<"a">>, !.changes = {"c"}, !.handlers = {"h", "i"},
                            !.requests = {"route", "apply", "authorize"}, !.faults = {"crash", "lapse"}]

\* An agent that may apply by itself, and members who use the dashboard.
Applying == [Quiet EXCEPT !.installed = <<"a">>, !.changes = {"c"}, !.endings = {"revoke"},
                          !.grants = {"human-approval-required", "automatic"},
                          !.handlers = {"h", "i"}, !.requests = {"agent", "authorize", "apply"},
                          !.faults = {"register"}]

\* Two connected agents apply one Change under a policy for the first of them.
UnderPolicy == [Quiet EXCEPT !.installed = <<"a", "b">>, !.changes = {"c"}, !.policies = {"p"},
                             !.handlers = {"h", "i"}, !.requests = {"policy", "authorize"},
                             !.faults = {"crash", "register"}]

Access == {ByDevice, ByPairing, Asking, Recovering, Applying, UnderPolicy}
OnlyFirst == [p \in {"p"} |-> {"a"}]
OnlyC == [p \in {"p"} |-> {"c"}]

=============================================================================
