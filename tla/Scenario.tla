------------------------------ MODULE Scenario ------------------------------
(***************************************************************************)
(* The modules on accounts, billing and virtual servers share a database   *)
(* but have too many operations to be interleaved all at once.  A scenario *)
(* says which rows there are at first, which operations happen, and how    *)
(* many of them.                                                           *)
(***************************************************************************)

CONSTANT Environments   \* the scenarios that are explored

VARIABLE env            \* the scenario of this behaviour

May(op) == op \in env.ops

=============================================================================
