--------------------------- MODULE MCAuthSessions ---------------------------
(***************************************************************************)
(* One login, its logout and a request that presents its token, with a     *)
(* Redis that wants a password.                                            *)
(***************************************************************************)
EXTENDS AuthSessions

CONSTANTS s1, l1, q1

OneSession == {s1}
OneLogout == {l1}
OneCheck == {q1}
AllCalls == {s1, l1, q1}

=============================================================================
