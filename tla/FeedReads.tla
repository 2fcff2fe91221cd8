------------------------------- MODULE FeedReads -------------------------------
(***************************************************************************)
(* feed-service's GetFeed: every request reads its user's feed from Redis, *)
(* keeps what it read in a map in memory, and falls back to that map when  *)
(* Redis does not answer.                                                  *)
(*                                                                         *)
(* The read of Redis and the writing of the map are two steps, and only    *)
(* the second holds fallbackMu.  A feed is represented by the number of    *)
(* times AddFeedItem has changed it: a greater number is a newer feed.     *)
(*                                                                         *)
(* An operator named for a slip (SavesForAll and the like) stands before   *)
(* the definition it could be mistaken for; Next does not use it.          *)
(***************************************************************************)
EXTENDS Integers

CONSTANTS
    Requests,
    Users,
    UserOf,     \* X-User-ID of each request
    Refused,    \* requests without one, or with another method than GET
    MaxChanges  \* bound on the changes of a feed

ASSUME ReadsAssumption ==
    /\ UserOf \in [Requests -> Users]
    /\ Refused \subseteq Requests
    /\ MaxChanges \in Nat

VARIABLES
    feed,       \* the feed of each user in Redis
    fallback,   \* feedService.fallback; Absent for a user it has no key for
    pc,         \* where each request stands
    items,      \* the feed each request has read or answered with
    began,      \* the feed in Redis when each request came in
    served,     \* users this process has answered from Redis
    entitled    \* requests of such a user that came in afterwards

Absent == -1

requestVars == <<pc, items, began, entitled>>
vars == <<feed, fallback, requestVars, served>>

Init ==
    /\ feed = [u \in Users |-> 0]
    /\ fallback = [u \in Users |-> Absent]
    /\ pc = [r \in Requests |-> "new"]
    /\ items = [r \in Requests |-> 0]
    /\ began = [r \in Requests |-> 0]
    /\ served = {}
    /\ entitled = {}

-----------------------------------------------------------------------------
\* The consumer of post.created adds an item, maybe trimming another.
AddFeedItem(u) ==
    /\ feed[u] < MaxChanges
    /\ feed' = [feed EXCEPT ![u] = @ + 1]
    /\ UNCHANGED <<fallback, requestVars, served>>

Begin(r) ==
    /\ pc[r] = "new"
    /\ pc' = [pc EXCEPT ![r] = IF r \in Refused THEN "refused" ELSE "reading"]
    /\ began' = [began EXCEPT ![r] = feed[UserOf[r]]]
    /\ entitled' = IF UserOf[r] \in served THEN entitled \union {r} ELSE entitled
    /\ UNCHANGED <<feed, fallback, items, served>>

\* redisFeedRepository.GetFeed.
Read(r) ==
    /\ pc[r] = "reading"
    /\ items' = [items EXCEPT ![r] = feed[UserOf[r]]]
    /\ pc' = [pc EXCEPT ![r] = "saving"]
    /\ UNCHANGED <<feed, fallback, began, entitled, served>>

\* Redis does not answer, or an item does not decode.
ReadFails(r) ==
    /\ pc[r] = "reading"
    /\ pc' = [pc EXCEPT ![r] = "falling"]
    /\ UNCHANGED <<feed, fallback, items, began, entitled, served>>

SavesForAll(r) ==
    /\ pc[r] = "saving"
    /\ fallback' = [u \in Users |-> items[r]]
    /\ pc' = [pc EXCEPT ![r] = "fresh"]
    /\ served' = served \union {UserOf[r]}
    /\ UNCHANGED <<feed, items, began, entitled>>

\* Under the lock, but not checked against what is there: the slower of two
\* reads replaces the newer feed by an older one.
Save(r) ==
    /\ pc[r] = "saving"
    /\ fallback' = [fallback EXCEPT ![UserOf[r]] = items[r]]
    /\ pc' = [pc EXCEPT ![r] = "fresh"]
    /\ served' = served \union {UserOf[r]}
    /\ UNCHANGED <<feed, items, began, entitled>>

TakesTheEntry(r) ==
    /\ pc[r] = "falling"
    /\ pc' = [pc EXCEPT ![r] = IF fallback[UserOf[r]] = Absent THEN "error" ELSE "stale"]
    /\ items' = [items EXCEPT ![r] = fallback[UserOf[r]]]
    /\ fallback' = [fallback EXCEPT ![UserOf[r]] = Absent]
    /\ UNCHANGED <<feed, began, entitled, served>>

\* Degraded and Stale, or the error of Redis if there is no entry.
FallBack(r) ==
    /\ pc[r] = "falling"
    /\ \/ /\ fallback[UserOf[r]] # Absent
          /\ items' = [items EXCEPT ![r] = fallback[UserOf[r]]]
          /\ pc' = [pc EXCEPT ![r] = "stale"]
       \/ /\ fallback[UserOf[r]] = Absent
          /\ pc' = [pc EXCEPT ![r] = "error"]
          /\ UNCHANGED items
    /\ UNCHANGED <<feed, fallback, began, entitled, served>>

\* The map is gone, and with it the requests under way.
Restart ==
    /\ pc' = [r \in Requests |->
                 IF pc[r] \in {"reading", "saving", "falling"} THEN "cut" ELSE pc[r]]
    /\ fallback' = [u \in Users |-> Absent]
    /\ served' = {}
    /\ UNCHANGED <<feed, items, began, entitled>>

GetFeed(r) == Begin(r) \/ Read(r) \/ ReadFails(r) \/ Save(r) \/ FallBack(r)

Next ==
    \/ \E u \in Users : AddFeedItem(u)
    \/ \E r \in Requests : GetFeed(r)
    \/ Restart

Spec == Init /\ [][Next]_vars

-----------------------------------------------------------------------------
TypeOK ==
    /\ feed \in [Users -> Nat]
    /\ fallback \in [Users -> Nat \union {Absent}]
    /\ pc \in [Requests -> {"new", "refused", "reading", "saving", "falling",
                            "fresh", "stale", "error", "cut"}]
    /\ items \in [Requests -> Nat]
    /\ began \in [Requests -> Nat]
    /\ served \subseteq Users
    /\ entitled \subseteq Requests

\* A fresh answer is what the user's own feed held at a moment of the request;
\* a stale one is what an earlier request of the same user was answered from
\* Redis, never another user's feed nor one that was not there yet.
AnswersAreReal ==
    \A r \in Requests :
        /\ pc[r] = "fresh" => began[r] <= items[r] /\ items[r] <= feed[UserOf[r]]
        /\ pc[r] = "stale" =>
              \E q \in Requests : UserOf[q] = UserOf[r] /\ pc[q] = "fresh" /\ items[q] = items[r]

\* Once the process has answered a user from Redis it answers every later
\* request of that user, whatever becomes of Redis and whatever other requests
\* are between reading and saving.
ServedOnceServedAlways ==
    \A r \in entitled : pc[r] # "error"

=============================================================================
