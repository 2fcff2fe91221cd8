------------------------------ MODULE FeedFanout ------------------------------
(***************************************************************************)
(* feed-service's consumer of post.created (kafkaPostConsumer) over one    *)
(* partition, with the answers it gets from users-service and the home     *)
(* feeds it keeps in Redis.                                                *)
(*                                                                         *)
(* One step is one call: FetchMessage, the request for the author's        *)
(* followers, one AddFeedItem, CommitMessages.  Follows and unfollows may  *)
(* come between any two of them.  The process may crash, Close may cancel  *)
(* the context, and a call may fail with its effect done.  Events are      *)
(* numbered from 1 in the order of the log; committed = 0 means that the   *)
(* group has not committed yet.                                            *)
(*                                                                         *)
(* A feed is a sorted set of whole items, so that the same post is one     *)
(* member however often it is added.  Its order, by created_at and then by *)
(* the bytes of the item, has nothing to do with the order of the log.     *)
(*                                                                         *)
(* An operator named for a slip (TrimsNewest and the like) stands before   *)
(* the definition it could be mistaken for; Next does not use it.          *)
(***************************************************************************)
EXTENDS Integers, FiniteSets

CONSTANTS
    Users,          \* users that have a feed
    Authors,
    AuthorOf,       \* the author of each post
    MaxEvents,      \* bound on the posts published
    MaxSessions,    \* bound on starts and rebalances of the consumer
    maxFeedItems    \* 1000 in the code

Posts == 1 .. MaxEvents

ASSUME FanoutAssumption ==
    /\ MaxEvents \in Nat
    /\ MaxSessions \in Nat
    /\ maxFeedItems \in Nat \ {0}
    /\ AuthorOf \in [Posts -> Authors]

VARIABLES
    malformed,  \* events that are no valid PostCreatedV1
    rank,       \* the place of each post in the order of a feed
    produced,   \* events in the log so far
    follows,    \* users-service's table: pairs of follower and author
    committed,  \* the group's committed offset: events up to it are done
    position,   \* events the reader has gone past in this session
    sessions,   \* sessions so far
    pc,         \* where Run stands; "exited" when it returned an error
    current,    \* the event in hand
    pending,    \* followers it is still to be added for
    ctx,        \* the context of Run: App.Close cancels it
    feed,       \* each user's sorted set in Redis
    delivered,  \* every post ever added to a user's feed
    failed,     \* pairs of user and post whose AddFeedItem returned an error
    done,       \* events handleMessage returned nil for
    gaveUp,     \* events handleMessage returned an error for
    skipped,    \* events before the offset a group without a commit starts at
    steady      \* who followed the author of each post when it was published
                \* and has not unfollowed since

logVars == <<malformed, rank, produced>>
groupVars == <<committed, position, sessions>>
handVars == <<current, pending>>
feedVars == <<feed, delivered, failed>>
outcomeVars == <<done, gaveUp, skipped>>
followVars == <<follows, steady>>
vars == <<logVars, groupVars, pc, handVars, ctx, feedVars, outcomeVars, followVars>>

FollowersOf(a) == {u \in Users : <<u, a>> \in follows}

TrimsNewest(S) ==
    {e \in S : Cardinality({f \in S : rank[f] < rank[e]}) < maxFeedItems}

\* What ZREMRANGEBYRANK 0 -maxFeedItems-1 leaves of a feed.
Trim(S) ==
    {e \in S : Cardinality({f \in S : rank[f] > rank[e]}) < maxFeedItems}

Init ==
    /\ malformed \in SUBSET Posts
    /\ rank \in [Posts -> Posts]
    /\ \A e, f \in Posts : rank[e] = rank[f] => e = f
    /\ produced = 0
    /\ follows \in SUBSET (Users \X Authors)
    /\ committed = 0
    /\ position = 0
    /\ sessions = 0
    /\ pc = "stopped"
    /\ current = 0
    /\ pending = {}
    /\ ctx = "live"
    /\ feed = [u \in Users |-> {}]
    /\ delivered = [u \in Users |-> {}]
    /\ failed = {}
    /\ done = {}
    /\ gaveUp = {}
    /\ skipped = {}
    /\ steady = [e \in Posts |-> {}]

-----------------------------------------------------------------------------
(* The environment: posts-service, users-service, the group coordinator,   *)
(* the process.                                                            *)

Publish ==
    /\ produced < MaxEvents
    /\ produced' = produced + 1
    /\ steady' = [steady EXCEPT ![produced + 1] = FollowersOf(AuthorOf[produced + 1])]
    /\ UNCHANGED <<malformed, rank, follows, groupVars, pc, handVars, ctx, feedVars, outcomeVars>>

\* A follow that is there already, and an unfollow of one that is not, change
\* nothing.
Follow(u, a) ==
    /\ <<u, a>> \notin follows
    /\ follows' = follows \union {<<u, a>>}
    /\ UNCHANGED <<logVars, steady, groupVars, pc, handVars, ctx, feedVars, outcomeVars>>

Unfollow(u, a) ==
    /\ <<u, a>> \in follows
    /\ follows' = follows \ {<<u, a>>}
    /\ steady' = [e \in Posts |-> IF AuthorOf[e] = a THEN steady[e] \ {u} ELSE steady[e]]
    /\ UNCHANGED <<logVars, groupVars, pc, handVars, ctx, feedVars, outcomeVars>>

\* After the committed offset, or with StartOffset: LastOffset at the end of
\* the log if there is none.
StartPosition == IF committed = 0 THEN produced ELSE committed

SessionStarts ==
    /\ sessions < MaxSessions
    /\ sessions' = sessions + 1
    /\ position' = StartPosition
    /\ skipped' = IF committed = 0 THEN skipped \union 1 .. produced ELSE skipped
    /\ UNCHANGED <<logVars, followVars, committed, handVars, feedVars, done, gaveUp>>

\* NewApp starts the goroutine that executes Run.
Start ==
    /\ pc = "stopped"
    /\ pc' = "fetching"
    /\ ctx' = "live"
    /\ SessionStarts

Rebalance ==
    /\ pc \notin {"stopped", "exited"}
    /\ SessionStarts
    /\ UNCHANGED <<pc, ctx>>

Crash ==
    /\ pc # "stopped"
    /\ pc' = "stopped"
    /\ UNCHANGED <<logVars, followVars, groupVars, handVars, ctx, feedVars, outcomeVars>>

Cancel ==
    /\ pc # "stopped"
    /\ ctx = "live"
    /\ ctx' = "cancelled"
    /\ UNCHANGED <<logVars, followVars, groupVars, pc, handVars, feedVars, outcomeVars>>

\* Close has cancelled the context and waited for Run.
Closed ==
    /\ ctx = "cancelled"
    /\ pc \in {"fetching", "exited"}
    /\ pc' = "stopped"
    /\ UNCHANGED <<logVars, followVars, groupVars, handVars, ctx, feedVars, outcomeVars>>

-----------------------------------------------------------------------------
(* Run and handleMessage.                                                  *)

FetchesNewest ==
    /\ pc = "fetching"
    /\ position < produced
    /\ position' = produced
    /\ current' = produced
    /\ pc' = "looking"
    /\ UNCHANGED <<logVars, followVars, committed, sessions, pending, ctx, feedVars, outcomeVars>>

\* An event that does not decode, or lacks an ID, is given up at once.
Fetch ==
    /\ pc = "fetching"
    /\ position < produced
    /\ position' = position + 1
    /\ current' = position + 1
    /\ IF position + 1 \in malformed
       THEN pc' = "committing" /\ gaveUp' = gaveUp \union {position + 1}
       ELSE pc' = "looking" /\ UNCHANGED gaveUp
    /\ UNCHANGED <<logVars, followVars, committed, sessions, pending, ctx, feedVars, done, skipped>>

\* Any other error of FetchMessage ends Run; nothing starts it again.
FetchFails ==
    /\ pc = "fetching"
    /\ pc' = "exited"
    /\ UNCHANGED <<logVars, followVars, groupVars, handVars, ctx, feedVars, outcomeVars>>

\* GET /api/v1/users/{id}/followers: the followers of this moment.
LookUp ==
    /\ pc = "looking"
    /\ pending' = FollowersOf(AuthorOf[current])
    /\ pc' = "adding"
    /\ UNCHANGED <<logVars, followVars, groupVars, current, ctx, feedVars, outcomeVars>>

SkipsTheCommit ==
    /\ pc = "looking"
    /\ gaveUp' = gaveUp \union {current}
    /\ pc' = "fetching"
    /\ UNCHANGED <<logVars, followVars, groupVars, handVars, ctx, feedVars, done, skipped>>

\* users-service does not answer, answers an error, or the context is
\* cancelled: the error is logged and the event committed all the same.
LookUpFails ==
    /\ pc = "looking"
    /\ gaveUp' = gaveUp \union {current}
    /\ pc' = "committing"
    /\ UNCHANGED <<logVars, followVars, groupVars, handVars, ctx, feedVars, done, skipped>>

AddedTo(u) ==
    /\ feed' = [feed EXCEPT ![u] = Trim(@ \union {current})]
    /\ delivered' = [delivered EXCEPT ![u] = @ \union {current}]

\* ZADD and the trimming are one transaction.
AddFeedItem(u) ==
    /\ pc = "adding"
    /\ u \in pending
    /\ pending' = pending \ {u}
    /\ AddedTo(u)
    /\ UNCHANGED <<logVars, followVars, groupVars, pc, current, ctx, failed, outcomeVars>>

StopsAtError(u) ==
    /\ pc = "adding"
    /\ u \in pending
    /\ pending' = {}
    /\ failed' = failed \union {<<u, current>>}
    /\ AddedTo(u) \/ UNCHANGED <<feed, delivered>>
    /\ UNCHANGED <<logVars, followVars, groupVars, pc, current, ctx, outcomeVars>>

\* Redis answers an error or not at all, with the item added or not.  The loop
\* goes on with the next follower.
AddFails(u) ==
    /\ pc = "adding"
    /\ u \in pending
    /\ pending' = pending \ {u}
    /\ failed' = failed \union {<<u, current>>}
    /\ AddedTo(u) \/ UNCHANGED <<feed, delivered>>
    /\ UNCHANGED <<logVars, followVars, groupVars, pc, current, ctx, outcomeVars>>

Handled ==
    /\ pc = "adding"
    /\ pending = {}
    /\ done' = done \union {current}
    /\ pc' = "committing"
    /\ UNCHANGED <<logVars, followVars, groupVars, handVars, ctx, feedVars, gaveUp, skipped>>

Commit ==
    /\ pc = "committing"
    /\ committed' = current
    /\ pc' = "fetching"
    /\ UNCHANGED <<logVars, followVars, position, sessions, handVars, ctx, feedVars, outcomeVars>>

\* context.Canceled is not an error here.
CommitCancelled ==
    /\ pc = "committing"
    /\ ctx = "cancelled"
    /\ pc' = "fetching"
    /\ UNCHANGED <<logVars, followVars, groupVars, handVars, ctx, feedVars, outcomeVars>>

\* Any other error ends Run, whether or not the broker has the commit.
CommitFails ==
    /\ pc = "committing"
    /\ committed' \in {committed, current}
    /\ pc' = "exited"
    /\ UNCHANGED <<logVars, followVars, position, sessions, handVars, ctx, feedVars, outcomeVars>>

FollowerIDs == LookUp \/ LookUpFails
FanOut == Handled \/ \E u \in Users : AddFeedItem(u) \/ AddFails(u)
CommitMessages == Commit \/ CommitCancelled \/ CommitFails

Run == Fetch \/ FetchFails \/ FollowerIDs \/ FanOut \/ CommitMessages

Next ==
    \/ Publish
    \/ \E u \in Users, a \in Authors : Follow(u, a) \/ Unfollow(u, a)
    \/ Start \/ Rebalance \/ Crash \/ Cancel \/ Closed
    \/ Run

Spec == Init /\ [][Next]_vars

\* The goroutine of Run is scheduled, every call returns (the HTTP client has a
\* timeout), and an event in the log reaches the reader.
FairSpec ==
    /\ Spec
    /\ WF_vars(Fetch) /\ WF_vars(FollowerIDs) /\ WF_vars(FanOut) /\ WF_vars(CommitMessages)

-----------------------------------------------------------------------------
TypeOK ==
    /\ malformed \subseteq Posts
    /\ rank \in [Posts -> Posts]
    /\ produced \in 0 .. MaxEvents
    /\ follows \subseteq Users \X Authors
    /\ committed \in 0 .. produced
    /\ position \in 0 .. produced
    /\ sessions \in 0 .. MaxSessions
    /\ pc \in {"stopped", "exited", "fetching", "looking", "adding", "committing"}
    /\ current \in 0 .. produced
    /\ pc \in {"looking", "adding"} => current \in Posts \ malformed
    /\ pending \subseteq Users
    /\ ctx \in {"live", "cancelled"}
    /\ feed \in [Users -> SUBSET Posts]
    /\ delivered \in [Users -> SUBSET Posts]
    /\ failed \subseteq Users \X Posts
    /\ done \subseteq Posts
    /\ gaveUp \subseteq Posts
    /\ skipped \subseteq Posts
    /\ steady \in [Posts -> SUBSET Users]

\* A feed holds the newest maxFeedItems of all posts ever added to it, although
\* each AddFeedItem sees no more than what earlier ones left, posts come out of
\* order and old ones come again.
FeedKeepsNewest ==
    \A u \in Users :
        /\ feed[u] \subseteq delivered[u]
        /\ Cardinality(delivered[u]) <= maxFeedItems => feed[u] = delivered[u]
        /\ Cardinality(delivered[u]) >= maxFeedItems => Cardinality(feed[u]) = maxFeedItems
        /\ \A e \in feed[u], f \in delivered[u] \ feed[u] : rank[f] < rank[e]

\* A post the offset is past was added for everyone who has followed its author
\* from its publication on, unless the call for that follower failed or the
\* post was given up: no crash, shutdown, rebalance, failure for another
\* follower or follow and unfollow of others makes the fan-out leave one out.
SteadyFollowersServed ==
    \A e \in 1 .. committed : \A u \in steady[e] :
        \/ e \in delivered[u]
        \/ <<u, e>> \in failed
        \/ e \in gaveUp \union skipped

Outcome(e) ==
    CASE e \in done -> "delivered"
      [] e \notin done /\ e \in gaveUp \union skipped -> "dropped"
      [] OTHER -> "pending"

outcome == [e \in Posts |-> Outcome(e)]

Delivery == INSTANCE EventDelivery WITH Events <- Posts

\* Posts are fanned out or given up in log order, and a post that was fanned out
\* stays so, through crashes, redelivery and shutdown.
DeliversInOrder == Delivery!Spec

\* As long as the process lives and Run has not ended on an error, every post of
\* the log that the session has not read yet is fanned out or given up and
\* committed, unless a rebalance before the group's first commit passes it over.
PostsAreHandled ==
    \A e \in Posts :
        pc = "fetching" /\ position < e /\ e <= produced
            ~> e <= committed \/ e \in skipped \/ pc \in {"stopped", "exited"} \/ ctx = "cancelled"
=============================================================================
