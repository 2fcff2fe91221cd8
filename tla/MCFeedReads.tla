------------------------------ MODULE MCFeedReads ------------------------------
(***************************************************************************)
(* ann asks for her feed three times, bob once, and once without his ID.   *)
(***************************************************************************)
EXTENDS FeedReads, TLC

CONSTANTS ann, bob, a1, a2, a3, b1, b2

TwoUsers == {ann, bob}
Anns == {a1, a2, a3}
FiveRequests == Anns \union {b1, b2}
Asker == [r \in FiveRequests |-> IF r \in Anns THEN ann ELSE bob]
NoID == {b2}
AnnsAlike == Permutations(Anns)
=============================================================================
