---------------------------- MODULE MCRateLimiter ----------------------------
(***************************************************************************)
(* Two users, one with three requests and one with one.  The three behave  *)
(* alike, so exchanging them is a symmetry.                                *)
(***************************************************************************)
EXTENDS RateLimiter, TLC

CONSTANTS ann, bob, a1, a2, a3, b1

TwoUsers == {ann, bob}
Anns == {a1, a2, a3}
FourRequests == Anns \union {b1}
Owner == [r \in FourRequests |-> IF r = b1 THEN bob ELSE ann]
AnnsAlike == Permutations(Anns)
=============================================================================
