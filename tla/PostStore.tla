------------------------------- MODULE PostStore -------------------------------
(***************************************************************************)
(* What posts-service promises its clients: every request looks at the     *)
(* table and changes it at one single moment, at most once, and the answer *)
(* it gets, if any, says what became of it at that moment.  In particular  *)
(* the post is there and the author is right at the very moment at which a *)
(* post is changed or deleted.                                             *)
(*                                                                         *)
(* A request may fail at any time, whether or not its moment has come.     *)
(***************************************************************************)
CONSTANTS Requests, Op, Actor, Target, Invalid

Creates == {r \in Requests : Op[r] = "create"}

VARIABLES
    post,       \* "absent", "stored" or "deleted"
    content,    \* the request that wrote it
    fate        \* "open", "done" but not answered yet, or the answer

vars == <<post, content, fate>>

Init ==
    /\ post = [p \in Creates |-> "absent"]
    /\ content = [p \in Creates |-> p]
    /\ fate = [r \in Requests |-> "open"]

Own(r) == Actor[r] = Actor[Target[r]]

Ends(r, answer) == fate' = [fate EXCEPT ![r] = answer]

\* The moment of r.  Its answer comes at once, later, or not at all.
Takes(r) == fate[r] = "open" /\ \E f \in {"done", "ok", "failed"} : Ends(r, f)

Create(r) ==
    /\ Op[r] = "create" /\ r \notin Invalid
    /\ post[r] = "absent"
    /\ post' = [post EXCEPT ![r] = "stored"]
    /\ Takes(r)
    /\ UNCHANGED content

Update(r) ==
    /\ Op[r] = "update" /\ r \notin Invalid
    /\ post[Target[r]] = "stored" /\ Own(r)
    /\ content' = [content EXCEPT ![Target[r]] = r]
    /\ Takes(r)
    /\ UNCHANGED post

Delete(r) ==
    /\ Op[r] = "delete"
    /\ post[Target[r]] = "stored" /\ Own(r)
    /\ post' = [post EXCEPT ![Target[r]] = "deleted"]
    /\ Takes(r)
    /\ UNCHANGED content

\* A like leaves the table alone.
Like(r) ==
    /\ Op[r] = "like" /\ r \notin Invalid
    /\ post[Target[r]] = "stored" /\ ~ Own(r)
    /\ Takes(r)
    /\ UNCHANGED <<post, content>>

Missing(r) ==
    /\ Op[r] # "create"
    /\ fate[r] = "open" /\ post[Target[r]] = "deleted"
    /\ Ends(r, "missing")
    /\ UNCHANGED <<post, content>>

Forbidden(r) ==
    /\ Op[r] # "create"
    /\ fate[r] = "open" /\ post[Target[r]] = "stored"
    /\ Op[r] = "like" <=> Own(r)
    /\ Ends(r, "forbidden")
    /\ UNCHANGED <<post, content>>

Refuse(r) ==
    /\ r \in Invalid
    /\ fate[r] = "open"
    /\ Ends(r, "refused")
    /\ UNCHANGED <<post, content>>

Succeed(r) ==
    /\ fate[r] = "done"
    /\ Ends(r, "ok")
    /\ UNCHANGED <<post, content>>

Fail(r) ==
    /\ fate[r] \in {"open", "done"}
    /\ Ends(r, "failed")
    /\ UNCHANGED <<post, content>>

Step(r) ==
    \/ Create(r) \/ Update(r) \/ Delete(r) \/ Like(r) \/ Missing(r) \/ Forbidden(r)
    \/ Refuse(r) \/ Succeed(r) \/ Fail(r)

Next == \E r \in Requests : Step(r)

Spec == Init /\ [][Next]_vars
=============================================================================
