------------------------- MODULE MCExecutionLedger -------------------------
(***************************************************************************)
(* One Change and two dispatcher processes that share a host name, hence a *)
(* worker id, so that only the fence token tells them apart.  No statement *)
(* involves the rows of two Changes.                                       *)
(***************************************************************************)
EXTENDS ExecutionLedger

CONSTANTS h1

MCHostOf == [w \in Workers |-> h1]
=============================================================================
