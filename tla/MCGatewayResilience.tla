------------------------- MODULE MCGatewayResilience -------------------------
(***************************************************************************)
(* Small instances of GatewayResilience: get is a GET request, like is     *)
(* POST /posts/{id}/interactions without a body, edit is a PUT with one.   *)
(***************************************************************************)
EXTENDS GatewayResilience

CONSTANTS get, like, edit

Everyone == {get, like, edit}
NoBody == {get, like}
Safe == {get}
=============================================================================
