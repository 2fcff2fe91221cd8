----------------------------- MODULE MCFeedFanout -----------------------------
(***************************************************************************)
(* Small instances of FeedFanout: one author and two users, who may follow.*)
(***************************************************************************)
EXTENDS FeedFanout

CONSTANTS ann, bob, cat

TwoUsers == {ann, bob}
OneAuthor == {cat}
ByCat == [e \in Posts |-> cat]
=============================================================================
