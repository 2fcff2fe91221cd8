----------------------------- MODULE PostsService -----------------------------
(***************************************************************************)
(* posts-service: the requests that write posts, the Postgres table, and   *)
(* the events post.created and post.interacted.                            *)
(*                                                                         *)
(* Every request is a goroutine; a step is one SQL statement or one call   *)
(* of a Kafka writer, and no two statements share a transaction. A request *)
(* may be abandoned at any moment: its client or the gateway gives up on   *)
(* it, a call fails, or the process dies.  The statement it has sent may   *)
(* still be carried out then, at any later time, or never.                 *)
(*                                                                         *)
(* The ID of a post is drawn by the request that creates it and            *)
(* represented by that request; so is its content by the request that      *)
(* wrote it.                                                               *)
(*                                                                         *)
(* An operator named for a slip (AnyoneMayChange and the like) stands      *)
(* before the definition it could be mistaken for; Next does not use it.   *)
(***************************************************************************)

CONSTANTS
    Requests,
    Users,
    Op,         \* what each request asks for
    Actor,      \* X-User-ID of each request
    Target,     \* the post a request names; itself if it creates one
    Invalid     \* requests with no content, too much of it, or a type of
                \* interaction other than like

Creates == {r \in Requests : Op[r] = "create"}

ASSUME PostsAssumption ==
    /\ Op \in [Requests -> {"create", "update", "delete", "like"}]
    /\ Actor \in [Requests -> Users]
    /\ Target \in [Requests -> Creates]
    /\ \A r \in Creates : Target[r] = r
    /\ Invalid \subseteq Requests

VARIABLES
    posts,      \* IDs that have a row in the table
    content,    \* the content of those rows
    pc,         \* where each request stands
    abandoned,  \* requests nobody waits for any more
    applied,    \* updates whose UPDATE found the row
    deleted,    \* deletes whose DELETE took the row out
    announced,  \* creates whose post.created is on the topic
    liked,      \* likes whose post.interacted is on the topic
    missed      \* requests whose event was given up

rowVars == <<posts, content, applied, deleted>>
eventVars == <<announced, liked, missed>>
vars == <<rowVars, eventVars, pc, abandoned>>

Ended == {"refused", "forbidden", "missing", "ok", "failed"}

Init ==
    /\ posts = {}
    /\ content = [p \in Creates |-> p]
    /\ pc = [r \in Requests |-> "new"]
    /\ abandoned = {}
    /\ applied = {}
    /\ deleted = {}
    /\ announced = {}
    /\ liked = {}
    /\ missed = {}

\* Where r goes once its statement is done: no further if nobody waits for it.
GoTo(r, next) == pc' = [pc EXCEPT ![r] = IF r \in abandoned THEN "failed" ELSE next]

\* The post is or was in the table.
Stored(p) == p \in posts \/ \E d \in deleted : Target[d] = p

-----------------------------------------------------------------------------
\* validatePostContent, and the check of interaction_type.
Refused(r) == Op[r] # "delete" /\ r \in Invalid

\* IDs are 16 random bytes: nobody names a post before it is there.
Begin(r) ==
    /\ pc[r] = "new"
    /\ Op[r] = "create" \/ Stored(Target[r])
    /\ pc' = [pc EXCEPT ![r] = IF Refused(r) THEN "refused"
                               ELSE IF Op[r] = "create" THEN "inserting"
                               ELSE "selecting"]
    /\ UNCHANGED <<rowVars, eventVars, abandoned>>

AnyoneMayChange(r) == Op[r] = "like" => Actor[r] # Actor[Target[r]]

\* Updates and deletes are for the author, likes for everyone else.
Permitted(r) == Op[r] = "like" <=> Actor[r] # Actor[Target[r]]

\* GetPostByID of UpdatePost, DeletePost and InteractWithPost.
Select(r) ==
    /\ pc[r] = "selecting"
    /\ r \notin abandoned
    /\ pc' = [pc EXCEPT ![r] =
                 CASE Target[r] \notin posts -> "missing"
                   [] Target[r] \in posts /\ ~ Permitted(r) -> "forbidden"
                   [] OTHER -> Op[r]]
    /\ UNCHANGED <<rowVars, eventVars, abandoned>>

\* Without the answer to its INSERT the handler returns and publishes nothing.
Insert(r) ==
    /\ pc[r] = "inserting"
    /\ posts' = posts \union {r}
    /\ missed' = IF r \in abandoned THEN missed \union {r} ELSE missed
    /\ GoTo(r, "create")
    /\ UNCHANGED <<content, applied, deleted, announced, liked, abandoned>>

UpdatesOrInserts(r) ==
    /\ pc[r] = "update"
    /\ posts' = posts \union {Target[r]}
    /\ content' = [content EXCEPT ![Target[r]] = r]
    /\ applied' = applied \union {r}
    /\ GoTo(r, "ok")
    /\ UNCHANGED <<deleted, eventVars, abandoned>>

\* The row may be gone by now (sql.ErrNoRows), but its author is who it was.
Update(r) ==
    /\ pc[r] = "update"
    /\ \/ /\ Target[r] \in posts
          /\ content' = [content EXCEPT ![Target[r]] = r]
          /\ applied' = applied \union {r}
          /\ GoTo(r, "ok")
       \/ /\ Target[r] \notin posts
          /\ GoTo(r, "missing")
          /\ UNCHANGED <<content, applied>>
    /\ UNCHANGED <<posts, deleted, eventVars, abandoned>>

RowsNotCounted(r) ==
    /\ pc[r] = "delete"
    /\ posts' = posts \ {Target[r]}
    /\ deleted' = IF Target[r] \in posts THEN deleted \union {r} ELSE deleted
    /\ GoTo(r, "ok")
    /\ UNCHANGED <<content, applied, eventVars, abandoned>>

\* rowsAffected tells whether this DELETE took the row out.
Delete(r) ==
    /\ pc[r] = "delete"
    /\ \/ /\ Target[r] \in posts
          /\ posts' = posts \ {Target[r]}
          /\ deleted' = deleted \union {r}
          /\ GoTo(r, "ok")
       \/ /\ Target[r] \notin posts
          /\ GoTo(r, "missing")
          /\ UNCHANGED <<posts, deleted>>
    /\ UNCHANGED <<content, applied, eventVars, abandoned>>

\* Each kind of event has its writer and its topic.
Announce(r) ==
    IF Op[r] = "create"
    THEN announced' = announced \union {r} /\ UNCHANGED liked
    ELSE liked' = liked \union {r} /\ UNCHANGED announced

\* PublishCreated or PublishInteracted.
Publish(r) ==
    /\ pc[r] \in {"create", "like"}
    /\ Announce(r)
    /\ GoTo(r, "ok")
    /\ UNCHANGED <<rowVars, missed, abandoned>>

PublishErrorFails(r) ==
    /\ pc[r] \in {"create", "like"}
    /\ GoTo(r, "ok")
    /\ UNCHANGED <<rowVars, eventVars, abandoned>>

\* The error is logged and the request succeeds, whether or not the broker has
\* the event; nothing publishes it later.  The writers ask for no acks, so that
\* no error may be one, too.
PublishFails(r) ==
    /\ pc[r] \in {"create", "like"}
    /\ missed' = missed \union {r}
    /\ Announce(r) \/ UNCHANGED <<announced, liked>>
    /\ GoTo(r, "ok")
    /\ UNCHANGED <<rowVars, abandoned>>

\* A call fails, the client or the gateway gives up, or the process dies.
Abandon(r) ==
    /\ pc[r] \notin Ended \union {"new"}
    /\ abandoned' = abandoned \union {r}
    /\ UNCHANGED <<rowVars, eventVars, pc>>

\* The statement of an abandoned request is not carried out, or was not sent.
Drop(r) ==
    /\ r \in abandoned
    /\ pc[r] \in {"selecting", "inserting", "update", "delete"}
    /\ pc' = [pc EXCEPT ![r] = "failed"]
    /\ UNCHANGED <<rowVars, eventVars, abandoned>>

Step(r) ==
    \/ Begin(r) \/ Select(r) \/ Insert(r) \/ Update(r) \/ Delete(r)
    \/ Publish(r) \/ PublishFails(r) \/ Abandon(r) \/ Drop(r)

Next == \E r \in Requests : Step(r)

Spec == Init /\ [][Next]_vars

-----------------------------------------------------------------------------
TypeOK ==
    /\ posts \subseteq Creates
    /\ content \in [Creates -> Requests]
    /\ pc \in [Requests -> Ended \union {"new", "selecting", "inserting",
                                         "create", "update", "delete", "like"}]
    /\ \A r \in Requests : pc[r] \in {"create", "update", "delete", "like"} => pc[r] = Op[r]
    /\ abandoned \subseteq Requests
    /\ applied \subseteq Requests
    /\ deleted \subseteq Requests
    /\ announced \subseteq Creates
    /\ liked \subseteq Requests
    /\ missed \subseteq Requests

\* A post holds what its own author wrote in a valid create or update of it, and
\* only its author takes it out, although the author is checked against a row
\* read before, and the UPDATE and DELETE name the ID alone.
OnlyAuthorsChange ==
    /\ \A p \in posts :
          LET w == content[p]
          IN  w \notin Invalid /\ Op[w] \in {"create", "update"} /\ Target[w] = p /\ Actor[w] = Actor[p]
    /\ \A d \in deleted : Actor[d] = Actor[Target[d]]

\* A post that was taken out never comes back, whatever updates of it were under
\* way or abandoned, and is taken out by one request only.
DeletedForGood ==
    /\ \A d \in deleted : Target[d] \notin posts
    /\ \A c, d \in deleted : Target[c] = Target[d] => c = d

\* Success means that the statement was carried out, and "not found" that the
\* post was deleted: of several deletes of one post one succeeds.
AnswersAreTrue ==
    \A r \in Requests :
        /\ pc[r] = "ok" =>
              CASE Op[r] = "create" -> Stored(r)
                [] Op[r] = "update" -> r \in applied
                [] Op[r] = "delete" -> r \in deleted
                [] Op[r] = "like"   -> r \in liked \union missed
        /\ pc[r] = "missing" => \E d \in deleted : Target[d] = Target[r]

\* An event names a post that was stored; a like is not its author's own.
EventsOfStoredPosts ==
    \A r \in announced \union liked :
        Stored(Target[r]) /\ (r \in liked => Actor[r] # Actor[Target[r]])

\* A post that was stored has its event on the topic, or will have, unless the
\* publish failed or the request was abandoned before it learnt of its row.
PostsAccounted ==
    \A p \in Creates : Stored(p) => p \in announced \union missed \/ pc[p] = "create"

-----------------------------------------------------------------------------
\* The table and the fate of each request as their clients may see them.
post ==
    [p \in Creates |-> IF p \in posts THEN "stored"
                       ELSE IF Stored(p) THEN "deleted" ELSE "absent"]

fate ==
    [r \in Requests |-> CASE pc[r] \in Ended -> pc[r]
                          [] pc[r] \in {"create", "like"} -> "done"
                          [] OTHER -> "open"]

Store == INSTANCE PostStore

\* The SELECT that checks a post and its author, and the UPDATE or DELETE that
\* comes later and names the ID alone, act as one step, however requests
\* interleave and whichever were abandoned: the row may be gone by then, which
\* the statement notices, but it cannot have become somebody else's.
RequestsAreAtomic == Store!Spec
=============================================================================
