---------------------------- MODULE MCPostsService ----------------------------
(***************************************************************************)
(* A small instance of PostsService: ann creates a post, updates it and    *)
(* deletes it twice (a second click); bob tries to update it and likes it; *)
(* another update has no content.                                          *)
(***************************************************************************)
EXTENDS PostsService, TLC

CONSTANTS ann, bob, c1, u1, u2, d1, d2, l1, blank

TwoUsers == {ann, bob}
SevenRequests == {c1, u1, u2, d1, d2, l1, blank}
Ops == (c1 :> "create") @@ (u1 :> "update") @@ (u2 :> "update") @@ (blank :> "update")
       @@ (d1 :> "delete") @@ (d2 :> "delete") @@ (l1 :> "like")
Actors == (u2 :> bob) @@ (l1 :> bob) @@ [r \in SevenRequests |-> ann]
Targets == [r \in SevenRequests |-> c1]
Blanks == {blank}
=============================================================================
