-------------------------- MODULE MCServiceLifecycle --------------------------
(***************************************************************************)
(* Each of the six services with two requests and its consumers.           *)
(***************************************************************************)
EXTENDS ServiceLifecycle

CONSTANTS r1, r2

TwoHandlers == {r1, r2}
=============================================================================
