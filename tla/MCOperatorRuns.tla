---------------------------- MODULE MCOperatorRuns ----------------------------
EXTENDS OperatorRuns

Base == [runs |-> {1}, answers |-> {<<>>}, faults |-> {}, left |-> 0]

\* One message, two writes: workers die and stall around them.
Writes == [Base EXCEPT !.answers = {<<>>, <<"write", "write">>},
                       !.faults = {"crash", "stall"}, !.left = 3]
\* A task is queued while agents take up tasks.
Delegates == [Base EXCEPT !.answers = {<<"read", "task">>},
                          !.faults = {"crash", "stall", "model"}, !.left = 2]
\* Shell commands of two messages, the first of which may be stopped.
Commands == [Base EXCEPT !.runs = {1, 2}, !.answers = {<<"bash">>},
                         !.faults = {"stall", "cancel"}, !.left = 1]
\* Commands of one message, taken over by a second worker and a third claim.
Takeover == [Base EXCEPT !.answers = {<<"bash", "refused">>}, !.faults = {"stall"},
                         !.left = 2]
\* Three messages, and a worker that dies.
Inbox == [Base EXCEPT !.runs = {1, 2, 3}, !.faults = {"crash"}, !.left = 1]
\* Runs end in every way.
Endings == [Base EXCEPT !.runs = {1, 2}, !.answers = {<<>>, <<"refused">>},
                        !.faults = {"cancel", "revoke", "timeout", "model"}, !.left = 1]

MCEnvironments == {Writes, Delegates, Commands, Takeover, Inbox, Endings}
===============================================================================
