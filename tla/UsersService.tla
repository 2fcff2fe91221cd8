----------------------------- MODULE UsersService -----------------------------
(***************************************************************************)
(* users-service: the requests that read and write profiles and follows,   *)
(* the two Postgres tables, and the user.followed events they publish.     *)
(*                                                                         *)
(* Every request is a goroutine; a step is one SQL statement or one call   *)
(* of the Kafka writer.  No two statements share a transaction.  A request *)
(* may be abandoned at any moment: its client or the gateway gives up on   *)
(* it, a call fails, or the process dies.  The statement it has sent may   *)
(* still be carried out then, at any later time, or never.                 *)
(*                                                                         *)
(* A field of a profile is either blank or the value some update wrote,    *)
(* and is represented by that request.                                     *)
(*                                                                         *)
(* An operator named for a slip (PatchesEveryField and the like) stands    *)
(* before the definition it could be mistaken for; Next does not use it.   *)
(***************************************************************************)

CONSTANTS
    Requests,
    Users,      \* user IDs
    Fields,     \* name, bio, profile_picture
    Blank,      \* the value of a field nobody has set
    Op,         \* what each request asks for
    Actor,      \* X-User-ID of each request
    Target,     \* the user a follow or unfollow names
    Patch,      \* the fields an update sets; the others are nil pointers
    TooLong     \* requests with a field over its limit

ASSUME UsersAssumption ==
    /\ Blank \notin Requests
    /\ Op \in [Requests -> {"get", "update", "follow", "unfollow"}]
    /\ Actor \in [Requests -> Users]
    /\ Target \in [Requests -> Users]
    /\ Patch \in [Requests -> SUBSET Fields]
    /\ TooLong \subseteq Requests

VARIABLES
    users,      \* IDs that have a row in the table users
    profile,    \* the fields of those rows
    follows,    \* the table follows: pairs of follower and followee
    pc,         \* where each request stands
    side,       \* whose row it is reading or creating: the actor's or the target's
    copy,       \* the row an update has read
    abandoned,  \* requests nobody waits for any more
    added,      \* follow requests whose INSERT put a row in
    removed,    \* unfollow requests whose DELETE took a row out
    announced,  \* follow requests whose event is on the topic
    missed      \* follow requests whose event was given up

profileVars == <<users, profile>>
followVars == <<follows, added, removed>>
eventVars == <<announced, missed>>
vars == <<profileVars, followVars, eventVars, pc, side, copy, abandoned>>

Pair(r) == <<Actor[r], Target[r]>>

Subject(r) == IF side[r] = "actor" THEN Actor[r] ELSE Target[r]

Profiles == [Fields -> Requests \union {Blank}]
BlankProfile == [f \in Fields |-> Blank]

Ended == {"refused", "ok", "failed"}

Init ==
    /\ users = {}
    /\ profile = [u \in Users |-> BlankProfile]
    /\ follows = {}
    /\ pc = [r \in Requests |-> "new"]
    /\ side = [r \in Requests |-> "actor"]
    /\ copy = [r \in Requests |-> BlankProfile]
    /\ abandoned = {}
    /\ added = {}
    /\ removed = {}
    /\ announced = {}
    /\ missed = {}

\* Where r goes once its statement is done: no further if nobody waits for it.
GoTo(r, next) == pc' = [pc EXCEPT ![r] = IF r \in abandoned THEN "failed" ELSE next]

-----------------------------------------------------------------------------
\* validateProfilePatch, and ErrCannotFollowSelf.
Refused(r) ==
    \/ Op[r] = "update" /\ r \in TooLong
    \/ Op[r] \in {"follow", "unfollow"} /\ Actor[r] = Target[r]

Begin(r) ==
    /\ pc[r] = "new"
    /\ pc' = [pc EXCEPT ![r] = IF Refused(r) THEN "refused"
                               ELSE IF Op[r] = "unfollow" THEN "deleting"
                               ELSE "selecting"]
    /\ UNCHANGED <<profileVars, followVars, eventVars, side, copy, abandoned>>

SkipsFollowee(r) ==
    /\ GoTo(r, IF Op[r] = "get" THEN "ok"
               ELSE IF Op[r] = "update" THEN "saving" ELSE "inserting")
    /\ UNCHANGED side

\* What follows when the row of Subject(r) is there: GetMe returns, UpdateMe
\* goes on to save, FollowUser ensures the followee after the follower.
Found(r) ==
    \/ /\ Op[r] \in {"get", "update"}
       /\ GoTo(r, IF Op[r] = "get" THEN "ok" ELSE "saving")
       /\ UNCHANGED side
    \/ /\ Op[r] = "follow"
       /\ side[r] = "actor"
       /\ GoTo(r, "selecting")
       /\ side' = [side EXCEPT ![r] = "target"]
    \/ /\ Op[r] = "follow"
       /\ side[r] = "target"
       /\ GoTo(r, "inserting")
       /\ UNCHANGED side

\* users.GetByID of GetMe and of ensureUser finds the row.
SelectFound(r) ==
    /\ pc[r] = "selecting"
    /\ r \notin abandoned
    /\ Subject(r) \in users
    /\ Found(r)
    /\ copy' = IF Op[r] = "update" THEN [copy EXCEPT ![r] = profile[Subject(r)]] ELSE copy
    /\ UNCHANGED <<profileVars, followVars, eventVars, abandoned>>

\* It finds none.
SelectMissing(r) ==
    /\ pc[r] = "selecting"
    /\ r \notin abandoned
    /\ Subject(r) \notin users
    /\ GoTo(r, "creating")
    /\ copy' = [copy EXCEPT ![r] = BlankProfile]
    /\ UNCHANGED <<profileVars, followVars, eventVars, side, abandoned>>

\* Save of a user with nothing but an ID: it overwrites the row that has come
\* in between.
Create(r) ==
    /\ pc[r] = "creating"
    /\ users' = users \union {Subject(r)}
    /\ profile' = [profile EXCEPT ![Subject(r)] = BlankProfile]
    /\ Found(r)
    /\ UNCHANGED <<followVars, eventVars, copy, abandoned>>

PatchesEveryField(r) == [f \in Fields |-> r]

\* The row UpdateMe writes back.
Patched(r) == [f \in Fields |-> IF f \in Patch[r] THEN r ELSE copy[r][f]]

SaveProfile(r) ==
    /\ pc[r] = "saving"
    /\ users' = users \union {Actor[r]}
    /\ profile' = [profile EXCEPT ![Actor[r]] = Patched(r)]
    /\ GoTo(r, "ok")
    /\ UNCHANGED <<followVars, eventVars, side, copy, abandoned>>

ReturnsUnannounced(r) ==
    /\ pc[r] = "inserting"
    /\ Pair(r) \notin follows
    /\ follows' = follows \union {Pair(r)}
    /\ added' = added \union {r}
    /\ GoTo(r, "ok")
    /\ UNCHANGED <<profileVars, removed, eventVars, side, copy, abandoned>>

\* INSERT ... ON CONFLICT DO NOTHING puts the row in.  Without its answer the
\* handler returns and no event is published.
InsertAdds(r) ==
    /\ pc[r] = "inserting"
    /\ Pair(r) \notin follows
    /\ follows' = follows \union {Pair(r)}
    /\ added' = added \union {r}
    /\ GoTo(r, "publishing")
    /\ missed' = IF r \in abandoned THEN missed \union {r} ELSE missed
    /\ UNCHANGED <<profileVars, removed, announced, side, copy, abandoned>>

PublishesAgain(r) ==
    /\ pc[r] = "inserting"
    /\ Pair(r) \in follows
    /\ GoTo(r, "publishing")
    /\ UNCHANGED <<profileVars, followVars, eventVars, side, copy, abandoned>>

\* The row is there already.
InsertConflicts(r) ==
    /\ pc[r] = "inserting"
    /\ Pair(r) \in follows
    /\ GoTo(r, "ok")
    /\ UNCHANGED <<profileVars, followVars, eventVars, side, copy, abandoned>>

PublishFollowed(r) ==
    /\ pc[r] = "publishing"
    /\ announced' = announced \union {r}
    /\ GoTo(r, "ok")
    /\ UNCHANGED <<profileVars, followVars, missed, side, copy, abandoned>>

\* FollowUser logs the error and answers success, whether or not the broker has
\* the event; nothing publishes it later.  The writer asks for no acks, so that
\* no error may be one, too.
PublishFails(r) ==
    /\ pc[r] = "publishing"
    /\ missed' = missed \union {r}
    /\ announced' \in {announced, announced \union {r}}
    /\ GoTo(r, "ok")
    /\ UNCHANGED <<profileVars, followVars, side, copy, abandoned>>

Delete(r) ==
    /\ pc[r] = "deleting"
    /\ follows' = follows \ {Pair(r)}
    /\ removed' = IF Pair(r) \in follows THEN removed \union {r} ELSE removed
    /\ GoTo(r, "ok")
    /\ UNCHANGED <<profileVars, added, eventVars, side, copy, abandoned>>

\* A call fails, the client or the gateway gives up, or the process dies.
Abandon(r) ==
    /\ pc[r] \notin Ended \union {"new"}
    /\ abandoned' = abandoned \union {r}
    /\ UNCHANGED <<profileVars, followVars, eventVars, pc, side, copy>>

IgnoresTheError(r) ==
    /\ r \in abandoned
    /\ pc[r] \notin Ended \union {"publishing"}
    /\ pc' = [pc EXCEPT ![r] = IF pc[r] = "inserting" THEN "ok" ELSE "failed"]
    /\ UNCHANGED <<profileVars, followVars, eventVars, side, copy, abandoned>>

\* The statement of an abandoned request is not carried out, or was not sent.
Drop(r) ==
    /\ r \in abandoned
    /\ pc[r] \notin Ended \union {"publishing"}
    /\ pc' = [pc EXCEPT ![r] = "failed"]
    /\ UNCHANGED <<profileVars, followVars, eventVars, side, copy, abandoned>>

Step(r) ==
    \/ Begin(r) \/ SelectFound(r) \/ SelectMissing(r) \/ Create(r)
    \/ SaveProfile(r)
    \/ InsertAdds(r) \/ InsertConflicts(r) \/ PublishFollowed(r) \/ PublishFails(r)
    \/ Delete(r)
    \/ Abandon(r) \/ Drop(r)

Next == \E r \in Requests : Step(r)

Spec == Init /\ [][Next]_vars

-----------------------------------------------------------------------------
TypeOK ==
    /\ users \subseteq Users
    /\ profile \in [Users -> Profiles]
    /\ follows \subseteq {p \in Users \X Users : p[1] # p[2]}
    /\ pc \in [Requests -> Ended \union {"new", "selecting", "creating", "saving",
                                         "inserting", "publishing", "deleting"}]
    /\ side \in [Requests -> {"actor", "target"}]
    /\ copy \in [Requests -> Profiles]
    /\ abandoned \subseteq Requests
    /\ added \subseteq Requests
    /\ removed \subseteq Requests
    /\ announced \subseteq Requests
    /\ missed \subseteq Requests

\* Both users of a follow have a row by the time its INSERT runs (ensureUser
\* before follows.Follow), so that its foreign keys never refuse it, whatever
\* else is under way and wherever earlier requests broke off.
FollowsOfUsers == follows \subseteq users \X users

\* A field holds what its own user asked for in an update that set that field
\* and passed validateProfilePatch, or is blank: stale copies and rows created
\* twice mix up nothing else.
FieldsAreTheUsersOwn ==
    \A u \in Users, f \in Fields : profile[u][f] # Blank =>
        LET w == profile[u][f]
        IN  Op[w] = "update" /\ Actor[w] = u /\ f \in Patch[w] /\ w \notin TooLong

Removed(p) == \E d \in removed : Pair(d) = p

\* A follow that was answered with success is in the table until an unfollow of
\* the same pair takes it out, even if its own INSERT found the row of another
\* request.
FollowSticks ==
    \A r \in Requests : Op[r] = "follow" /\ pc[r] = "ok" =>
        Pair(r) \in follows \/ Removed(Pair(r))

\* However often a follow is repeated or sent again by the gateway, a second
\* event for a pair means that an unfollow came between (publish only if added).
OneEventPerFollow ==
    \A a, b \in announced : a # b /\ Pair(a) = Pair(b) => Removed(Pair(a))

\* A row that was put in has its event on the topic, or will have, unless the
\* publish failed or the request was abandoned before it learnt of its row.
FollowsAccounted ==
    \A r \in added : r \in announced \union missed \/ pc[r] = "publishing"

-----------------------------------------------------------------------------
\* Follows and unfollows as their clients and the readers of the topic see them.
FollowRequests == {r \in Requests : Op[r] \in {"follow", "unfollow"}}

fate ==
    [r \in FollowRequests |-> CASE pc[r] \in Ended -> pc[r]
                                [] pc[r] = "publishing" -> "added"
                                [] OTHER -> "open"]

Table == INSTANCE FollowTable WITH Requests <- FollowRequests

\* Looking for two users, creating them, inserting a row and publishing are as
\* many statements, in no transaction, of requests that may be repeated or given
\* up between any two; still a follow or unfollow acts on the table in one step.
FollowsAreAtomic == Table!Spec

-----------------------------------------------------------------------------
(* A statement of the documentation that the code does not keep.           *)

\* docs/openapi/swagger.yaml:119 "Partial profile update; omit fields you do
\* not want to change": saving an update leaves the fields it omits alone.
PartialUpdates ==
    [][\A r \in Requests : SaveProfile(r) =>
          \A f \in Fields \ Patch[r] : profile'[Actor[r]][f] = profile[Actor[r]][f]]_vars
=============================================================================
