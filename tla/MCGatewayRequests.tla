-------------------------- MODULE MCGatewayRequests --------------------------
(***************************************************************************)
(* A GET that can be replayed and a PUT that cannot; the GET's answer is   *)
(* streamed.                                                               *)
(***************************************************************************)
EXTENDS GatewayRequests

CONSTANTS get, edit

Both == {get, edit}
OnlyGet == {get}

=============================================================================
