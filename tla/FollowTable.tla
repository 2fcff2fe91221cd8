------------------------------ MODULE FollowTable ------------------------------
(***************************************************************************)
(* What users-service promises of follows: every follow and unfollow looks *)
(* at the table and changes it at one single moment, at most once, and the *)
(* answer it gets, if any, tells that this moment has come.  A follow is   *)
(* announced at most once, and only by the request that put its row in.    *)
(*                                                                         *)
(* A request may fail at any time, whether or not its moment has come, and *)
(* an announcement may be left out.                                        *)
(***************************************************************************)
CONSTANTS Requests, Op, Actor, Target

VARIABLES
    follows,    \* pairs of follower and followee
    fate,       \* "open", "added" but not announced yet, or the answer
    announced   \* the requests whose follow was announced

vars == <<follows, fate, announced>>

Pair(r) == <<Actor[r], Target[r]>>

Init ==
    /\ follows = {}
    /\ fate = [r \in Requests |-> "open"]
    /\ announced = {}

Ends(r, answer) == fate' = [fate EXCEPT ![r] = answer]

Add(r) ==
    /\ fate[r] = "open" /\ Op[r] = "follow" /\ Actor[r] # Target[r]
    /\ Pair(r) \notin follows
    /\ follows' = follows \union {Pair(r)}
    /\ \E f \in {"added", "failed"} : Ends(r, f)
    /\ UNCHANGED announced

\* Following somebody again changes and announces nothing.
Find(r) ==
    /\ fate[r] = "open" /\ Op[r] = "follow"
    /\ Pair(r) \in follows
    /\ Ends(r, "ok")
    /\ UNCHANGED <<follows, announced>>

Remove(r) ==
    /\ fate[r] = "open" /\ Op[r] = "unfollow"
    /\ follows' = follows \ {Pair(r)}
    /\ \E f \in {"ok", "failed"} : Ends(r, f)
    /\ UNCHANGED announced

Answer(r) ==
    /\ fate[r] = "added"
    /\ announced' \in {announced, announced \union {r}}
    /\ \E f \in {"ok", "failed"} : Ends(r, f)
    /\ UNCHANGED follows

Refuse(r) ==
    /\ fate[r] = "open" /\ Actor[r] = Target[r]
    /\ Ends(r, "refused")
    /\ UNCHANGED <<follows, announced>>

Fail(r) ==
    /\ fate[r] = "open"
    /\ Ends(r, "failed")
    /\ UNCHANGED <<follows, announced>>

Step(r) == Add(r) \/ Find(r) \/ Remove(r) \/ Answer(r) \/ Refuse(r) \/ Fail(r)

Next == \E r \in Requests : Step(r)

Spec == Init /\ [][Next]_vars
=============================================================================
