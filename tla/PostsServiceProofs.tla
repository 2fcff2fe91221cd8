-------------------------- MODULE PostsServiceProofs --------------------------
(***************************************************************************)
(* Proofs about PostsService, for any number of users, posts and requests. *)
(***************************************************************************)
EXTENDS PostsService, TLAPS

-----------------------------------------------------------------------------
(* The stage of a request and the row it works on.                         *)

\* Every stage is reached only by the requests it is for; all but the first
\* statement of a request name a post that was stored, and a statement that
\* changes a row was permitted.
StageFits(r) ==
    /\ pc[r] \notin {"new", "refused"} => ~ Refused(r)
    /\ pc[r] = "inserting" => Op[r] = "create"
    /\ pc[r] = "selecting" => Op[r] # "create"
    /\ pc[r] \in {"update", "delete", "like"} => Permitted(r)
    /\ pc[r] \in {"selecting", "create", "update", "delete", "like"} => Stored(Target[r])

\* A create has a row only once its INSERT was carried out.
RowsInserted == \A p \in Creates : Stored(p) => pc[p] \in {"create", "ok", "failed"}

Control ==
    /\ TypeOK
    /\ \A r \in Requests : StageFits(r)
    /\ RowsInserted

LEMMA ControlInit == Init => Control
  BY PostsAssumption
     DEF Init, Control, TypeOK, StageFits, RowsInserted, Stored, Ended, Creates

\* Once a post was stored it stays known as one.
LEMMA StoredStays ==
    ASSUME TypeOK, NEW r \in Requests, Step(r), NEW p \in Creates, Stored(p)
    PROVE  Stored(p)'
<1> USE PostsAssumption DEF TypeOK, Stored
<1>1. CASE Insert(r)
  BY <1>1 DEF Insert
<1>2. CASE Delete(r)
  <2>1. CASE Target[r] \in posts
    BY <1>2, <2>1 DEF Delete
  <2>2. CASE Target[r] \notin posts
    BY <1>2, <2>2 DEF Delete
  <2> QED BY <2>1, <2>2
<1>3. CASE UNCHANGED <<posts, deleted>>
  BY <1>3
<1> QED
  BY <1>1, <1>2, <1>3
     DEF Step, Begin, Select, Update, Publish, PublishFails, Abandon, Drop, rowVars

\* Only its INSERT stores a post.
LEMMA StoredByInsert ==
    ASSUME TypeOK, NEW r \in Requests, Step(r), NEW p \in Creates, Stored(p)'
    PROVE  Stored(p) \/ (Insert(r) /\ p = r)
<1> USE PostsAssumption DEF TypeOK, Stored
<1>1. CASE Insert(r)
  BY <1>1 DEF Insert
<1>2. CASE Delete(r)
  <2>1. CASE Target[r] \in posts
    BY <1>2, <2>1 DEF Delete
  <2>2. CASE Target[r] \notin posts
    BY <1>2, <2>2 DEF Delete
  <2> QED BY <2>1, <2>2
<1>3. CASE UNCHANGED <<posts, deleted>>
  BY <1>3
<1> QED
  BY <1>1, <1>2, <1>3
     DEF Step, Begin, Select, Update, Publish, PublishFails, Abandon, Drop, rowVars

LEMMA TypeStep ==
    ASSUME Control, NEW r \in Requests, Step(r)
    PROVE  TypeOK'
<1> USE PostsAssumption DEF Control, TypeOK, Ended, GoTo, rowVars, eventVars
<1>1. CASE Begin(r)
  BY <1>1 DEF Begin
<1>2. CASE Select(r)
  BY <1>2 DEF Select
<1>3. CASE Insert(r)
  BY <1>3 DEF Insert, StageFits, Creates
<1>4. CASE Update(r)
  BY <1>4 DEF Update
<1>5. CASE Delete(r)
  BY <1>5 DEF Delete
<1>6. CASE Publish(r)
  BY <1>6 DEF Publish, Announce, Creates
<1>7. CASE PublishFails(r)
  BY <1>7 DEF PublishFails, Announce, Creates
<1>8. CASE Abandon(r)
  BY <1>8 DEF Abandon
<1>9. CASE Drop(r)
  BY <1>9 DEF Drop
<1> QED
  BY <1>1, <1>2, <1>3, <1>4, <1>5, <1>6, <1>7, <1>8, <1>9 DEF Step

\* A step of r leaves the stage of every other request alone.
LEMMA OthersStay ==
    ASSUME TypeOK, NEW r \in Requests, Step(r), NEW q \in Requests, q # r
    PROVE  pc'[q] = pc[q]
  BY DEF TypeOK, Step, Begin, Select, Insert, Update, Delete, Publish, PublishFails,
         Abandon, Drop, GoTo, eventVars

LEMMA StagesStep ==
    ASSUME Control, NEW r \in Requests, Step(r), NEW q \in Requests
    PROVE  StageFits(q)'
<1> DEFINE known == Stored(Target[q])
<1>1. known => known'
  BY StoredStays, PostsAssumption DEF Control
<1>2. CASE q # r
  BY <1>1, <1>2, OthersStay DEF Control, StageFits, Refused, Permitted
<1>3. CASE q = r
  <2> USE <1>3 DEF Control, TypeOK, StageFits, Ended, GoTo, Refused, Permitted, rowVars, eventVars
  <2> HIDE DEF known
  <2>1. CASE Begin(r)
    BY <1>1, <2>1 DEF Begin, known
  <2>2. CASE Select(r)
    <3>1. known /\ known' /\ Op[r] \in {"update", "delete", "like"}
      BY <1>1, <2>2, PostsAssumption DEF Select, known
    <3>2. CASE Target[r] \in posts /\ Permitted(r)
      BY <2>2, <3>1, <3>2 DEF Select, known
    <3>3. CASE ~ (Target[r] \in posts /\ Permitted(r))
      BY <2>2, <3>1, <3>3 DEF Select, known
    <3> QED BY <3>2, <3>3
  <2>3. CASE Insert(r)
    <3>1. Target[r] = r
      BY <2>3, PostsAssumption DEF Insert, Creates
    <3>2. known'
      BY <2>3, <3>1 DEF Insert, known, Stored
    <3> QED BY <2>3, <3>2 DEF Insert, known
  <2>4. CASE Update(r)
    BY <1>1, <2>4 DEF Update, known
  <2>5. CASE Delete(r)
    BY <1>1, <2>5 DEF Delete, known
  <2>6. CASE Publish(r)
    BY <1>1, <2>6 DEF Publish, known
  <2>7. CASE PublishFails(r)
    BY <1>1, <2>7 DEF PublishFails, known
  <2>8. CASE Abandon(r)
    BY <1>1, <2>8 DEF Abandon, known
  <2>9. CASE Drop(r)
    BY <1>1, <2>9 DEF Drop, known
  <2> QED
    BY <2>1, <2>2, <2>3, <2>4, <2>5, <2>6, <2>7, <2>8, <2>9 DEF Step
<1> QED
  BY <1>2, <1>3

LEMMA InsertedStep ==
    ASSUME Control, NEW r \in Requests, Step(r)
    PROVE  RowsInserted'
<1> SUFFICES ASSUME NEW p \in Creates, Stored(p)'
             PROVE  pc'[p] \in {"create", "ok", "failed"}
  BY DEF RowsInserted
<1>1. p \in Requests
  BY DEF Creates
<1>2. CASE Insert(r) /\ p = r
  BY <1>1, <1>2 DEF Insert, GoTo, Control, TypeOK
<1>3. CASE Stored(p)
  <2>1. pc[p] \in {"create", "ok", "failed"}
    BY <1>3 DEF Control, RowsInserted
  <2>2. CASE p # r
    BY <1>1, <2>1, <2>2, OthersStay DEF Control
  <2>3. CASE p = r
    BY <2>1, <2>3
       DEF Control, TypeOK, Step, Begin, Select, Insert, Update, Delete, Publish,
           PublishFails, Abandon, Drop, GoTo, eventVars, Ended
  <2> QED BY <2>2, <2>3
<1> QED
  BY <1>2, <1>3, StoredByInsert DEF Control

LEMMA ControlStep ==
    ASSUME Control, NEW r \in Requests, Step(r)
    PROVE  Control'
  BY TypeStep, StagesStep, InsertedStep DEF Control

LEMMA ControlStutter == Control /\ UNCHANGED vars => Control'
  BY DEF Control, TypeOK, StageFits, RowsInserted, Stored, vars, rowVars, eventVars

LEMMA ControlInvariant == Spec => []Control
<1>1. Control /\ [Next]_vars => Control'
  BY ControlStep, ControlStutter DEF Next
<1> QED
  BY <1>1, ControlInit, PTL DEF Spec

\* Types of every variable; a stage that is named for an operation is of that
\* operation.
THEOREM TypeCorrect == Spec => []TypeOK
  BY ControlInvariant, PTL DEF Control

-----------------------------------------------------------------------------
(* Who changes and deletes.                                                *)

\* The content of a post is its first or one of its author's updates, also
\* after the post was deleted.
Owned ==
    /\ \A p \in Creates :
          LET w == content[p]
          IN  w = p \/ (Op[w] = "update" /\ w \notin Invalid /\ Target[w] = p /\ Actor[w] = Actor[p])
    /\ \A d \in deleted : Actor[d] = Actor[Target[d]]

LEMMA OwnedStep ==
    ASSUME Control, Owned, NEW r \in Requests, Step(r)
    PROVE  Owned'
<1> USE PostsAssumption DEF Owned
<1>1. CASE Update(r)
  <2>1. /\ Op[r] = "update" /\ r \notin Invalid
        /\ Actor[r] = Actor[Target[r]] /\ Target[r] \in Creates
    BY <1>1 DEF Update, Control, TypeOK, StageFits, Refused, Permitted
  <2>2. content' = content \/ content' = [content EXCEPT ![Target[r]] = r]
    BY <1>1 DEF Update
  <2> QED BY <1>1, <2>1, <2>2 DEF Update, Control, TypeOK
<1>2. CASE Delete(r)
  <2>1. Actor[r] = Actor[Target[r]]
    BY <1>2 DEF Delete, Control, TypeOK, StageFits, Permitted
  <2> QED BY <1>2, <2>1 DEF Delete
<1>3. CASE UNCHANGED <<content, deleted>>
  BY <1>3
<1> QED
  BY <1>1, <1>2, <1>3
     DEF Step, Begin, Select, Insert, Publish, PublishFails, Abandon, Drop, rowVars

LEMMA OwnedImplies == Control /\ Owned => OnlyAuthorsChange
<1> SUFFICES ASSUME Control, Owned PROVE OnlyAuthorsChange
  OBVIOUS
<1>1. ASSUME NEW p \in posts
      PROVE  p \in Creates /\ p \notin Invalid /\ Op[p] = "create" /\ Target[p] = p
  <2>1. p \in Creates /\ p \in Requests
    BY DEF Control, TypeOK, Creates
  <2>2. pc[p] \in {"create", "ok", "failed"}
    BY <2>1 DEF Control, RowsInserted, Stored
  <2>3. ~ Refused(p)
    BY <2>1, <2>2 DEF Control, StageFits
  <2> QED BY <2>1, <2>3, PostsAssumption DEF Refused, Creates
<1> QED
  BY <1>1 DEF Owned, OnlyAuthorsChange

\* Every post holds what its own author wrote, and only its author deletes it:
\* a post ID never passes to somebody else between the SELECT that checks the
\* author and the UPDATE or DELETE that names the ID alone.
THEOREM AuthorsOnly == Spec => []OnlyAuthorsChange
<1>1. Init => Owned
  BY DEF Init, Owned
<1>2. Control /\ Owned /\ [Next]_vars => Owned'
  <2>1. Owned /\ UNCHANGED vars => Owned'
    BY DEF Owned, vars, rowVars
  <2> QED BY <2>1, OwnedStep DEF Next
<1> QED
  BY <1>1, <1>2, ControlInvariant, OwnedImplies, PTL DEF Spec

-----------------------------------------------------------------------------
(* Deletion is final.                                                      *)

LEMMA DeletedStep ==
    ASSUME Control, DeletedForGood, NEW r \in Requests, Step(r)
    PROVE  DeletedForGood'
<1> USE PostsAssumption DEF DeletedForGood
<1>1. CASE Insert(r)
  <2>1. pc[r] = "inserting" /\ r \in Creates
    BY <1>1 DEF Insert, Control, StageFits, Creates
  <2>2. \A d \in deleted : Target[d] # r
    BY <2>1 DEF Control, RowsInserted, Stored
  <2> QED BY <1>1, <2>2 DEF Insert
<1>2. CASE Delete(r)
  BY <1>2 DEF Delete
<1>3. CASE UNCHANGED <<posts, deleted>>
  BY <1>3
<1> QED
  BY <1>1, <1>2, <1>3
     DEF Step, Begin, Select, Update, Publish, PublishFails, Abandon, Drop, rowVars

\* A deleted post never comes back and is deleted by one request: no statement
\* inserts a row again, and UPDATE and DELETE find only rows that are there.
THEOREM DeletionIsFinal == Spec => []DeletedForGood
<1>1. Init => DeletedForGood
  BY DEF Init, DeletedForGood
<1>2. Control /\ DeletedForGood /\ [Next]_vars => DeletedForGood'
  <2>1. DeletedForGood /\ UNCHANGED vars => DeletedForGood'
    BY DEF DeletedForGood, vars, rowVars
  <2> QED BY <2>1, DeletedStep DEF Next
<1> QED
  BY <1>1, <1>2, ControlInvariant, PTL DEF Spec

-----------------------------------------------------------------------------
(* What requests are told.                                                 *)

\* The two halves of AnswersAreTrue, of one request.
Truthful(r) ==
    /\ pc[r] = "ok" =>
          CASE Op[r] = "create" -> Stored(r)
            [] Op[r] = "update" -> r \in applied
            [] Op[r] = "delete" -> r \in deleted
            [] Op[r] = "like"   -> r \in liked \union missed
    /\ pc[r] = "missing" => \E d \in deleted : Target[d] = Target[r]

\* What a request was told stays true while others take their steps.
LEMMA TruthStays ==
    ASSUME Control, NEW r \in Requests, Step(r), NEW q \in Requests,
           Truthful(q), pc'[q] = pc[q]
    PROVE  Truthful(q)'
<1>1. /\ applied \subseteq applied' /\ deleted \subseteq deleted'
      /\ liked \subseteq liked' /\ missed \subseteq missed'
  BY DEF Step, Begin, Select, Insert, Update, Delete, Publish, PublishFails, Abandon,
         Drop, Announce, rowVars, eventVars
<1>2. CASE q \in Creates
  <2>1. Op[q] = "create"
    BY <1>2 DEF Creates
  <2>2. Stored(q) => Stored(q)'
    BY <1>2, StoredStays DEF Control
  <2> QED BY <1>1, <2>1, <2>2 DEF Truthful
<1>3. CASE q \notin Creates
  <2>1. Op[q] # "create"
    BY <1>3 DEF Creates
  <2>2. Op[q] \in {"update", "delete", "like"}
    BY <2>1, PostsAssumption
  <2> QED BY <1>1, <2>2 DEF Truthful
<1> QED
  BY <1>2, <1>3

LEMMA AnswersStep ==
    ASSUME Control, AnswersAreTrue, NEW r \in Requests, Step(r)
    PROVE  AnswersAreTrue'
<1>1. \A q \in Requests : Truthful(q)
  BY DEF AnswersAreTrue, Truthful
<1>2. ASSUME NEW q \in Requests, q # r PROVE Truthful(q)'
  BY <1>1, <1>2, OthersStay, TruthStays DEF Control
<1>3. Truthful(r)'
  <2> USE PostsAssumption DEF Control, TypeOK, StageFits, Truthful, GoTo, Ended
  <2>1. CASE Begin(r)
    BY <2>1 DEF Begin
  <2>2. CASE Select(r)
    <3>1. Stored(Target[r]) /\ UNCHANGED <<posts, deleted>>
      BY <2>2 DEF Select, rowVars
    <3>2. CASE Target[r] \in posts
      BY <2>2, <3>2 DEF Select
    <3>3. CASE Target[r] \notin posts
      <4>1. \E d \in deleted' : Target[d] = Target[r]
        BY <3>1, <3>3 DEF Stored
      <4>2. pc'[r] = "missing"
        BY <2>2, <3>3 DEF Select
      <4> QED BY <4>1, <4>2
    <3> QED BY <3>2, <3>3
  <2>3. CASE Insert(r)
    BY <2>3 DEF Insert
  <2>4. CASE Update(r)
    <3>1. CASE Target[r] \in posts
      BY <2>4, <3>1 DEF Update
    <3>2. CASE Target[r] \notin posts
      BY <2>4, <3>2 DEF Update, Stored
    <3> QED BY <3>1, <3>2
  <2>5. CASE Delete(r)
    <3>1. CASE Target[r] \in posts
      BY <2>5, <3>1 DEF Delete
    <3>2. CASE Target[r] \notin posts
      BY <2>5, <3>2 DEF Delete, Stored
    <3> QED BY <3>1, <3>2
  <2>6. CASE Publish(r)
    <3>1. pc'[r] # "missing" /\ (Op[r] = "create" \/ Op[r] = "like")
      BY <2>6 DEF Publish
    <3>2. CASE Op[r] = "create"
      BY <2>6, <3>1, <3>2, StoredStays DEF Publish, Creates, rowVars
    <3>3. CASE Op[r] = "like"
      BY <2>6, <3>1, <3>3 DEF Publish, Announce
    <3> QED BY <3>1, <3>2, <3>3
  <2>7. CASE PublishFails(r)
    <3>1. pc'[r] # "missing" /\ (Op[r] = "create" \/ Op[r] = "like")
      BY <2>7 DEF PublishFails
    <3>2. CASE Op[r] = "create"
      BY <2>7, <3>1, <3>2, StoredStays DEF PublishFails, Creates, rowVars
    <3>3. CASE Op[r] = "like"
      BY <2>7, <3>1, <3>3 DEF PublishFails
    <3> QED BY <3>1, <3>2, <3>3
  <2>8. CASE Abandon(r)
    BY <1>1, <2>8, TruthStays DEF Abandon
  <2>9. CASE Drop(r)
    BY <2>9 DEF Drop
  <2> QED
    BY <2>1, <2>2, <2>3, <2>4, <2>5, <2>6, <2>7, <2>8, <2>9 DEF Step
<1>4. \A q \in Requests : Truthful(q)'
  BY <1>2, <1>3
<1> QED
  BY <1>4 DEF AnswersAreTrue, Truthful

\* A request that succeeds did what it was asked to, and one that is told "not
\* found" named a post that somebody deleted.
THEOREM AnswersHonest == Spec => []AnswersAreTrue
<1>1. Init => AnswersAreTrue
  BY DEF Init, AnswersAreTrue
<1>2. Control /\ AnswersAreTrue /\ [Next]_vars => AnswersAreTrue'
  <2>1. AnswersAreTrue /\ UNCHANGED vars => AnswersAreTrue'
    BY DEF AnswersAreTrue, Stored, vars, rowVars, eventVars
  <2> QED BY <2>1, AnswersStep DEF Next
<1> QED
  BY <1>1, <1>2, ControlInvariant, PTL DEF Spec

-----------------------------------------------------------------------------
(* The events.                                                             *)

LEMMA EventsStep ==
    ASSUME Control, EventsOfStoredPosts, NEW r \in Requests, Step(r)
    PROVE  EventsOfStoredPosts'
<1>1. SUFFICES ASSUME NEW e \in announced' \union liked'
               PROVE  Stored(Target[e])' /\ (e \in liked' => Actor[e] # Actor[Target[e]])
  BY DEF EventsOfStoredPosts
<1>2. CASE e \in announced \union liked /\ (e \in liked' => e \in liked)
  <2>1. e \in Requests
    BY <1>2 DEF Control, TypeOK, Creates
  <2>2. Target[e] \in Creates /\ Stored(Target[e])
    BY <1>2, <2>1, PostsAssumption DEF EventsOfStoredPosts
  <2> QED BY <1>2, <2>2, StoredStays DEF EventsOfStoredPosts, Control
<1>3. CASE /\ e = r
           /\ pc[r] \in {"create", "like"}
           /\ e \in liked' => Op[r] # "create" \/ e \in liked
  <2>1. Target[e] \in Creates /\ Stored(Target[e])
    BY <1>3, PostsAssumption DEF Control, StageFits
  <2>2. pc[r] = Op[r]
    BY <1>3 DEF Control, TypeOK
  <2>3. e \in liked' => Actor[e] # Actor[Target[e]]
    BY <1>3, <2>2 DEF Control, StageFits, Permitted, EventsOfStoredPosts
  <2> QED BY <2>1, <2>3, StoredStays DEF Control
<1>4. CASE Publish(r) \/ PublishFails(r)
  BY <1>2, <1>3, <1>4 DEF Publish, PublishFails, Announce
<1>5. CASE UNCHANGED <<announced, liked>>
  BY <1>2, <1>5
<1> QED
  BY <1>4, <1>5
     DEF Step, Begin, Select, Insert, Update, Delete, Abandon, Drop, eventVars

\* Events name posts that were stored, and nobody's like of a post of their own.
THEOREM EventsHaveCause == Spec => []EventsOfStoredPosts
<1>1. Init => EventsOfStoredPosts
  BY DEF Init, EventsOfStoredPosts
<1>2. Control /\ EventsOfStoredPosts /\ [Next]_vars => EventsOfStoredPosts'
  <2>1. EventsOfStoredPosts /\ UNCHANGED vars => EventsOfStoredPosts'
    BY DEF EventsOfStoredPosts, Stored, vars, rowVars, eventVars
  <2> QED BY <2>1, EventsStep DEF Next
<1> QED
  BY <1>1, <1>2, ControlInvariant, PTL DEF Spec

LEMMA AccountedStep ==
    ASSUME Control, PostsAccounted, NEW r \in Requests, Step(r)
    PROVE  PostsAccounted'
<1> SUFFICES ASSUME NEW p \in Creates, Stored(p)'
             PROVE  p \in announced' \union missed' \/ pc'[p] = "create"
  BY DEF PostsAccounted
<1>1. p \in Requests /\ Op[p] = "create"
  BY DEF Creates
<1>2. CASE Insert(r) /\ p = r
  BY <1>1, <1>2 DEF Insert, GoTo, Control, TypeOK
<1>3. CASE Stored(p)
  <2>1. p \in announced \union missed \/ pc[p] = "create"
    BY <1>3 DEF PostsAccounted
  <2>2. announced \subseteq announced' /\ missed \subseteq missed'
    BY DEF Step, Begin, Select, Insert, Update, Delete, Publish, PublishFails, Abandon,
           Drop, Announce, eventVars
  <2>3. CASE p # r
    BY <1>1, <2>1, <2>2, <2>3, OthersStay DEF Control
  <2>4. CASE p = r /\ pc[p] = "create"
    BY <1>1, <2>4
       DEF Step, Begin, Select, Insert, Update, Delete, Publish, PublishFails, Abandon,
           Drop, Announce, eventVars
  <2> QED BY <2>1, <2>2, <2>3, <2>4
<1> QED
  BY <1>2, <1>3, StoredByInsert DEF Control

\* A stored post without an event belongs to a request that is about to publish
\* or failed to: the handler never forgets the event of a row it knows of.
THEOREM NoPostForgotten == Spec => []PostsAccounted
<1>1. Init => PostsAccounted
  BY DEF Init, PostsAccounted, Stored
<1>2. Control /\ PostsAccounted /\ [Next]_vars => PostsAccounted'
  <2>1. PostsAccounted /\ UNCHANGED vars => PostsAccounted'
    BY DEF PostsAccounted, Stored, vars, rowVars, eventVars
  <2> QED BY <2>1, AccountedStep DEF Next
<1> QED
  BY <1>1, <1>2, ControlInvariant, PTL DEF Spec

-----------------------------------------------------------------------------
(* Every request acts at one moment.                                       *)

FateOf(stage) ==
    CASE stage \in Ended -> stage
      [] stage \in {"create", "like"} -> "done"
      [] OTHER -> "open"

\* A step settles or answers the fate of one request.
LEMMA FateMapped ==
    ASSUME TypeOK, NEW r \in Requests, NEW stage, pc' = [pc EXCEPT ![r] = stage]
    PROVE  fate[r] = FateOf(pc[r]) /\ fate' = [fate EXCEPT ![r] = FateOf(stage)]
<1>1. fate = [q \in Requests |-> FateOf(pc[q])]
  BY DEF fate, FateOf
<1>2. fate' = [q \in Requests |-> FateOf(pc'[q])]
  BY DEF fate, FateOf
<1>3. \A q \in Requests : FateOf(pc'[q]) = IF q = r THEN FateOf(stage) ELSE FateOf(pc[q])
  BY DEF TypeOK
<1> HIDE DEF FateOf
<1> QED BY <1>1, <1>2, <1>3

LEMMA PostMapped ==
    /\ post = [p \in Creates |-> post[p]]
    /\ \A p \in Creates :
          /\ post[p] = "stored" <=> p \in posts
          /\ post[p] = "deleted" <=> p \notin posts /\ Stored(p)
          /\ post[p] = "absent" <=> ~ Stored(p)
    /\ UNCHANGED <<posts, deleted>> => post' = post
<1>1. UNCHANGED <<posts, deleted>> => post' = post
  BY DEF post, Stored
<1> QED BY <1>1 DEF post, Stored

LEMMA StoreInit == Init => Store!Init
<1> SUFFICES ASSUME Init PROVE Store!Init
  OBVIOUS
<1>1. post = [p \in Creates |-> "absent"]
  BY DEF Init, post, Stored
<1>2. fate = [r \in Requests |-> "open"]
  BY DEF Init, fate, Ended
<1> QED
  BY <1>1, <1>2 DEF Init, Store!Init, Store!Creates, Creates

LEMMA BeginMapped ==
    ASSUME Control, NEW r \in Requests, Begin(r)
    PROVE  Store!Step(r) \/ UNCHANGED Store!vars
<1>1. post' = post /\ content' = content
  BY PostMapped DEF Begin, rowVars
<1>2. CASE Refused(r)
  <2>1. pc' = [pc EXCEPT ![r] = "refused"]
    BY <1>2 DEF Begin
  <2>2. fate[r] = "open" /\ fate' = [fate EXCEPT ![r] = "refused"]
    BY <2>1, FateMapped DEF Begin, Control, FateOf, Ended
  <2> QED
    BY <1>1, <1>2, <2>2 DEF Refused, Store!Step, Store!Refuse, Store!Ends
<1>3. CASE ~ Refused(r)
  <2>1. PICK stage \in {"inserting", "selecting"} : pc' = [pc EXCEPT ![r] = stage]
    BY <1>3 DEF Begin
  <2>2. fate[r] = "open" /\ fate' = [fate EXCEPT ![r] = "open"]
    BY <2>1, FateMapped DEF Begin, Control, FateOf, Ended
  <2>3. fate' = fate
    BY <2>2 DEF fate
  <2> QED
    BY <1>1, <2>3 DEF Store!vars
<1> QED
  BY <1>2, <1>3

LEMMA SelectMapped ==
    ASSUME Control, NEW r \in Requests, Select(r)
    PROVE  Store!Step(r) \/ UNCHANGED Store!vars
<1>1. post' = post /\ content' = content
  BY PostMapped DEF Select, rowVars
<1>2. /\ Target[r] \in Creates /\ Stored(Target[r])
      /\ Op[r] \in {"update", "delete", "like"} /\ ~ Refused(r)
  BY PostsAssumption DEF Select, Control, StageFits
<1>3. CASE Target[r] \notin posts
  <2>1. pc' = [pc EXCEPT ![r] = "missing"]
    BY <1>3 DEF Select
  <2>2. fate[r] = "open" /\ fate' = [fate EXCEPT ![r] = "missing"]
    BY <2>1, FateMapped DEF Select, Control, FateOf, Ended
  <2>3. post[Target[r]] = "deleted"
    BY <1>2, <1>3, PostMapped
  <2> QED
    BY <1>1, <1>2, <2>2, <2>3 DEF Store!Step, Store!Missing, Store!Ends
<1>4. CASE Target[r] \in posts /\ ~ Permitted(r)
  <2>1. pc' = [pc EXCEPT ![r] = "forbidden"]
    BY <1>4 DEF Select
  <2>2. fate[r] = "open" /\ fate' = [fate EXCEPT ![r] = "forbidden"]
    BY <2>1, FateMapped DEF Select, Control, FateOf, Ended
  <2>3. post[Target[r]] = "stored"
    BY <1>2, <1>4, PostMapped
  <2>4. Op[r] = "like" <=> Store!Own(r)
    BY <1>4 DEF Permitted, Store!Own
  <2> QED
    BY <1>1, <1>2, <2>2, <2>3, <2>4 DEF Store!Step, Store!Forbidden, Store!Ends
<1>5. CASE Target[r] \in posts /\ Permitted(r)
  <2>1. pc' = [pc EXCEPT ![r] = Op[r]]
    BY <1>5 DEF Select
  <2>2. fate[r] = "open" /\ fate' = [fate EXCEPT ![r] = FateOf(Op[r])]
    BY <2>1, FateMapped DEF Select, Control, FateOf, Ended
  <2>3. CASE Op[r] = "like"
    <3>1. fate' = [fate EXCEPT ![r] = "done"]
      BY <2>2, <2>3 DEF FateOf, Ended
    <3>2. post[Target[r]] = "stored"
      BY <1>2, <1>5, PostMapped
    <3>3. r \notin Invalid /\ ~ Store!Own(r)
      BY <1>2, <1>5, <2>3 DEF Refused, Permitted, Store!Own
    <3> QED
      BY <1>1, <2>2, <2>3, <3>1, <3>2, <3>3
         DEF Store!Step, Store!Like, Store!Takes, Store!Ends
  <2>4. CASE Op[r] # "like"
    <3>1. fate' = [fate EXCEPT ![r] = "open"]
      BY <1>2, <2>2, <2>4 DEF FateOf, Ended
    <3>2. fate' = fate
      BY <2>2, <3>1 DEF fate
    <3> QED BY <1>1, <3>2 DEF Store!vars
  <2> QED BY <2>3, <2>4
<1> QED
  BY <1>3, <1>4, <1>5

\* The answer to a statement is lost on an abandoned request.
LEMMA GoToMapped ==
    ASSUME TypeOK, NEW r \in Requests, NEW next, GoTo(r, next)
    PROVE  /\ fate[r] = FateOf(pc[r])
           /\ fate' = [fate EXCEPT ![r] = FateOf(IF r \in abandoned THEN "failed" ELSE next)]
<1> HIDE DEF FateOf
<1> QED BY FateMapped DEF GoTo

LEMMA InsertMapped ==
    ASSUME Control, NEW r \in Requests, Insert(r)
    PROVE  Store!Create(r)
<1>1. r \in Creates /\ Op[r] = "create" /\ r \notin Invalid /\ ~ Stored(r)
  BY DEF Insert, Control, StageFits, RowsInserted, Refused, Creates
<1>2. fate[r] = "open" /\ \E f \in {"done", "ok", "failed"} : fate' = [fate EXCEPT ![r] = f]
  BY GoToMapped DEF Insert, Control, FateOf, Ended
<1>3. post[r] = "absent"
  BY <1>1, PostMapped
<1>4. post' = [post EXCEPT ![r] = "stored"]
  BY <1>1 DEF Insert, post, Stored
<1> QED
  BY <1>1, <1>2, <1>3, <1>4
     DEF Insert, Store!Create, Store!Takes, Store!Ends

LEMMA UpdateMapped ==
    ASSUME Control, NEW r \in Requests, Update(r)
    PROVE  Store!Step(r)
<1>1. /\ Target[r] \in Creates /\ Stored(Target[r])
      /\ Op[r] = "update" /\ r \notin Invalid /\ Store!Own(r)
  BY PostsAssumption DEF Update, Control, TypeOK, StageFits, Refused, Permitted, Store!Own
<1>2. post' = post
  BY PostMapped DEF Update
<1>3. CASE Target[r] \in posts
  <2>1. fate[r] = "open" /\ \E f \in {"done", "ok", "failed"} : fate' = [fate EXCEPT ![r] = f]
    BY <1>3, GoToMapped DEF Update, Control, FateOf, Ended
  <2>2. post[Target[r]] = "stored"
    BY <1>1, <1>3, PostMapped
  <2> QED
    BY <1>1, <1>2, <1>3, <2>1, <2>2
       DEF Update, Store!Step, Store!Update, Store!Takes, Store!Ends
<1>4. CASE Target[r] \notin posts
  <2>1. fate[r] = "open" /\ \E f \in {"missing", "failed"} : fate' = [fate EXCEPT ![r] = f]
    BY <1>4, GoToMapped DEF Update, Control, FateOf, Ended
  <2>2. post[Target[r]] = "deleted" /\ content' = content
    BY <1>1, <1>4, PostMapped DEF Update
  <2> QED
    BY <1>1, <1>2, <2>1, <2>2 DEF Store!Step, Store!Missing, Store!Fail, Store!Ends
<1> QED
  BY <1>3, <1>4

LEMMA DeleteMapped ==
    ASSUME Control, NEW r \in Requests, Delete(r)
    PROVE  Store!Step(r)
<1>1. /\ Target[r] \in Creates /\ Stored(Target[r])
      /\ Op[r] = "delete" /\ Store!Own(r)
  BY PostsAssumption DEF Delete, Control, TypeOK, StageFits, Permitted, Store!Own
<1>2. content' = content
  BY DEF Delete
<1>3. CASE Target[r] \in posts
  <2>1. fate[r] = "open" /\ \E f \in {"done", "ok", "failed"} : fate' = [fate EXCEPT ![r] = f]
    BY <1>3, GoToMapped DEF Delete, Control, FateOf, Ended
  <2>2. post[Target[r]] = "stored"
    BY <1>1, <1>3, PostMapped
  <2>3. post' = [post EXCEPT ![Target[r]] = "deleted"]
    <3>1. posts' = posts \ {Target[r]} /\ deleted' = deleted \union {r}
      BY <1>3 DEF Delete
    <3>2. \A p \in Creates :
              /\ p = Target[r] => p \notin posts' /\ Stored(p)'
              /\ p # Target[r] => (p \in posts' <=> p \in posts) /\ (Stored(p)' <=> Stored(p))
      BY <3>1 DEF Stored
    <3> QED BY <1>1, <3>2 DEF post
  <2> QED
    BY <1>1, <1>2, <2>1, <2>2, <2>3 DEF Store!Step, Store!Delete, Store!Takes, Store!Ends
<1>4. CASE Target[r] \notin posts
  <2>1. fate[r] = "open" /\ \E f \in {"missing", "failed"} : fate' = [fate EXCEPT ![r] = f]
    BY <1>4, GoToMapped DEF Delete, Control, FateOf, Ended
  <2>2. post[Target[r]] = "deleted" /\ post' = post
    BY <1>1, <1>4, PostMapped DEF Delete
  <2> QED
    BY <1>1, <1>2, <2>1, <2>2 DEF Store!Step, Store!Missing, Store!Fail, Store!Ends
<1> QED
  BY <1>3, <1>4

\* Whatever becomes of the event, the request succeeds unless it was abandoned.
LEMMA EventMapped ==
    ASSUME Control, NEW r \in Requests, Publish(r) \/ PublishFails(r)
    PROVE  Store!Succeed(r) \/ Store!Fail(r)
<1>1. pc[r] \in {"create", "like"} /\ GoTo(r, "ok") /\ UNCHANGED rowVars
  BY DEF Publish, PublishFails
<1>2. post' = post /\ content' = content
  BY <1>1, PostMapped DEF rowVars
<1>3. fate[r] = "done" /\ \E f \in {"ok", "failed"} : fate' = [fate EXCEPT ![r] = f]
  BY <1>1, GoToMapped DEF Control, FateOf, Ended
<1> QED
  BY <1>2, <1>3 DEF Store!Succeed, Store!Fail, Store!Ends

LEMMA StoreStep ==
    ASSUME Control, NEW r \in Requests, Step(r)
    PROVE  Store!Step(r) \/ UNCHANGED Store!vars
<1>1. CASE Begin(r)
  BY <1>1, BeginMapped
<1>2. CASE Select(r)
  BY <1>2, SelectMapped
<1>3. CASE Insert(r)
  BY <1>3, InsertMapped DEF Store!Step
<1>4. CASE Update(r)
  BY <1>4, UpdateMapped
<1>5. CASE Delete(r)
  BY <1>5, DeleteMapped
<1>6. CASE Publish(r) \/ PublishFails(r)
  BY <1>6, EventMapped DEF Store!Step
<1>7. CASE Abandon(r)
  <2>1. UNCHANGED <<posts, deleted, content, pc>>
    BY <1>7 DEF Abandon, rowVars
  <2> QED BY <2>1, PostMapped DEF fate, Store!vars
<1>8. CASE Drop(r)
  <2>1. post' = post /\ content' = content
    BY <1>8, PostMapped DEF Drop, rowVars
  <2>2. fate[r] = "open" /\ fate' = [fate EXCEPT ![r] = "failed"]
    BY <1>8, FateMapped DEF Drop, Control, FateOf, Ended
  <2> QED BY <2>1, <2>2 DEF Store!Step, Store!Fail, Store!Ends
<1> QED
  BY <1>1, <1>2, <1>3, <1>4, <1>5, <1>6, <1>7, <1>8 DEF Step

\* Posts-service implements PostStore: the SELECT that checks a post and the
\* statement that changes it have the effect of one step, taken when the second
\* of them is carried out, for any number of requests and posts.
THEOREM RequestsAtomic == Spec => RequestsAreAtomic
<1>1. Control /\ [Next]_vars => [Store!Next]_(Store!vars)
  <2>1. UNCHANGED vars => UNCHANGED Store!vars
    BY PostMapped DEF vars, rowVars, eventVars, fate, Store!vars
  <2> QED BY <2>1, StoreStep DEF Next, Store!Next
<1> QED
  BY <1>1, StoreInit, ControlInvariant, PTL DEF Spec, RequestsAreAtomic, Store!Spec

=============================================================================
