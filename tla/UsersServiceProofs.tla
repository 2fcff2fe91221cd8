-------------------------- MODULE UsersServiceProofs --------------------------
(***************************************************************************)
(* Proofs about UsersService, for any number of users and requests.        *)
(***************************************************************************)
EXTENDS UsersService, TLAPS

-----------------------------------------------------------------------------
(* Where a request stands fits what it asks for, and what it was refused   *)
(* for is excluded from then on.                                           *)

StageFits(r) ==
    /\ pc[r] \notin {"new", "refused"} => ~Refused(r)
    /\ pc[r] \in {"selecting", "creating"} => Op[r] # "unfollow"
    /\ pc[r] = "saving" => Op[r] = "update"
    /\ pc[r] \in {"inserting", "publishing"} => Op[r] = "follow"
    /\ pc[r] = "deleting" => Op[r] = "unfollow"
    /\ side[r] = "target" => Op[r] = "follow"
    /\ r \in abandoned => pc[r] # "new"

Control == TypeOK /\ \A r \in Requests : StageFits(r)

LEMMA ControlInit == Init => Control
  BY UsersAssumption
     DEF Init, Control, TypeOK, StageFits, Profiles, BlankProfile, Ended

\* The continuation of SelectFound and Create keeps the types.
LEMMA FoundTypes ==
    ASSUME Control, NEW r \in Requests, Found(r)
    PROVE  /\ pc' \in [Requests -> Ended \union {"new", "selecting", "creating", "saving",
                                               "inserting", "publishing", "deleting"}]
           /\ side' \in [Requests -> {"actor", "target"}]
<1> USE UsersAssumption DEF Control, TypeOK, Ended, GoTo
<1>1. CASE Op[r] = "get" \/ Op[r] = "update"
  BY <1>1 DEF Found
<1>2. CASE Op[r] = "follow" /\ side[r] = "actor"
  <2>1. /\ GoTo(r, "selecting")
        /\ side' = [side EXCEPT ![r] = "target"]
    BY <1>2 DEF Found
  <2> QED BY <2>1
<1>3. CASE Op[r] = "follow" /\ side[r] = "target"
  BY <1>3 DEF Found
<1> QED
  BY <1>1, <1>2, <1>3 DEF Found

LEMMA ControlStep ==
    ASSUME Control, NEW r \in Requests, Step(r)
    PROVE  Control'
<1> USE UsersAssumption DEF Control, TypeOK, StageFits, Ended, Profiles
<1>1. CASE Begin(r)
  BY <1>1 DEF Begin, profileVars, followVars, eventVars, Refused
<1>2. CASE SelectFound(r)
  <2>1. TypeOK'
    BY <1>2, FoundTypes DEF SelectFound, profileVars, followVars, eventVars
  <2>2. ASSUME NEW q \in Requests PROVE StageFits(q)'
    <3>1. CASE q = r
      BY <1>2, <3>1 DEF SelectFound, Found, GoTo, profileVars, followVars, eventVars, Refused
    <3>2. CASE q # r
      BY <1>2, <3>2 DEF SelectFound, Found, GoTo, profileVars, followVars, eventVars, Refused
    <3> QED BY <3>1, <3>2
  <2> QED BY <2>1, <2>2 DEF Control
<1>3. CASE SelectMissing(r)
  BY <1>3 DEF SelectMissing, GoTo, profileVars, followVars, eventVars, Refused, BlankProfile
<1>4. CASE Create(r)
  <2>1. TypeOK'
    BY <1>4, FoundTypes DEF Create, followVars, eventVars, BlankProfile, Subject
  <2>2. ASSUME NEW q \in Requests PROVE StageFits(q)'
    <3>1. CASE q = r
      BY <1>4, <3>1 DEF Create, Found, GoTo, followVars, eventVars, Refused, BlankProfile
    <3>2. CASE q # r
      BY <1>4, <3>2 DEF Create, Found, GoTo, followVars, eventVars, Refused, BlankProfile
    <3> QED BY <3>1, <3>2
  <2> QED BY <2>1, <2>2 DEF Control
<1>5. CASE SaveProfile(r)
  BY <1>5 DEF SaveProfile, GoTo, followVars, eventVars, Refused, Patched
<1>6. CASE InsertAdds(r)
  <2>1. TypeOK'
    BY <1>6 DEF InsertAdds, GoTo, profileVars, Refused, Pair
  <2>2. ASSUME NEW q \in Requests PROVE StageFits(q)'
    <3>1. CASE q = r
      BY <1>6, <3>1 DEF InsertAdds, GoTo, profileVars, Refused, Pair
    <3>2. CASE q # r
      BY <1>6, <3>2 DEF InsertAdds, GoTo, profileVars, Refused, Pair
    <3> QED BY <3>1, <3>2
  <2> QED BY <2>1, <2>2 DEF Control
<1>7. CASE InsertConflicts(r)
  BY <1>7 DEF InsertConflicts, GoTo, profileVars, followVars, eventVars, Refused
<1>8. CASE PublishFollowed(r)
  BY <1>8 DEF PublishFollowed, GoTo, profileVars, followVars, Refused
<1>9. CASE PublishFails(r)
  BY <1>9 DEF PublishFails, GoTo, profileVars, followVars, Refused
<1>10. CASE Delete(r)
  BY <1>10 DEF Delete, GoTo, profileVars, eventVars, Refused
<1>11. CASE Abandon(r)
  BY <1>11 DEF Abandon, profileVars, followVars, eventVars, Refused
<1>12. CASE Drop(r)
  BY <1>12 DEF Drop, profileVars, followVars, eventVars, Refused
<1> QED
  BY <1>1, <1>2, <1>3, <1>4, <1>5, <1>6, <1>7, <1>8, <1>9, <1>10, <1>11, <1>12 DEF Step

LEMMA ControlStutter == Control /\ UNCHANGED vars => Control'
  BY DEF Control, TypeOK, StageFits, Refused, vars, profileVars, followVars, eventVars

LEMMA ControlInvariant == Spec => []Control
<1>1. Control /\ [Next]_vars => Control'
  BY ControlStep, ControlStutter DEF Next
<1> QED
  BY <1>1, ControlInit, PTL DEF Spec

\* Types of every variable; no user ever follows itself.
THEOREM TypeCorrect == Spec => []TypeOK
  BY ControlInvariant, PTL DEF Control

-----------------------------------------------------------------------------
(* Rows before follows.                                                    *)

\* FollowUser creates the missing rows on its way to the INSERT, and no row of
\* users is ever deleted.
RowsEnsured(r) ==
    /\ side[r] = "target" => Actor[r] \in users
    /\ pc[r] \in {"inserting", "publishing"} => {Actor[r], Target[r]} \subseteq users

RowsFirst ==
    /\ \A r \in Requests : RowsEnsured(r)
    /\ FollowsOfUsers

LEMMA RowsFirstStep ==
    ASSUME Control, RowsFirst, NEW r \in Requests, Step(r)
    PROVE  RowsFirst'
<1> USE UsersAssumption DEF RowsFirst, RowsEnsured, FollowsOfUsers
<1>1. CASE Begin(r)
  BY <1>1 DEF Begin, profileVars, followVars, Control, TypeOK
<1>2. CASE SelectFound(r) \/ Create(r)
  <2>1. /\ users' = users \union {Subject(r)}
        /\ UNCHANGED follows
        /\ Found(r)
    BY <1>2 DEF SelectFound, Create, profileVars, followVars
  <2>2. ASSUME NEW q \in Requests, q # r PROVE RowsEnsured(q)'
    <3>1. pc'[q] = pc[q] /\ side'[q] = side[q]
      BY <2>1, <2>2 DEF Found, GoTo, Control, TypeOK
    <3> QED BY <2>1, <3>1
  <2>3. RowsEnsured(r)'
    <3>1. CASE side[r] = "actor"
      <4>1. Subject(r) = Actor[r]
        BY <3>1 DEF Subject
      <4>2. pc'[r] \notin {"inserting", "publishing"}
        BY <1>2, <2>1, <3>1 DEF Found, GoTo, Control, TypeOK
      <4> QED BY <2>1, <4>1, <4>2
    <3>2. CASE side[r] = "target"
      <4>1. Subject(r) = Target[r]
        BY <3>2 DEF Subject
      <4>2. Actor[r] \in users
        BY <3>2
      <4> QED BY <2>1, <4>1, <4>2
    <3> QED BY <3>1, <3>2 DEF Control, TypeOK
  <2> QED BY <2>1, <2>2, <2>3
<1>3. CASE SelectMissing(r)
  BY <1>3 DEF SelectMissing, GoTo, profileVars, followVars, Control, TypeOK
<1>5. CASE SaveProfile(r)
  BY <1>5 DEF SaveProfile, GoTo, followVars, Control, TypeOK
<1>6. CASE InsertAdds(r)
  BY <1>6 DEF InsertAdds, GoTo, profileVars, Pair, Control, TypeOK
<1>7. CASE InsertConflicts(r)
  BY <1>7 DEF InsertConflicts, GoTo, profileVars, followVars, Control, TypeOK
<1>8. CASE PublishFollowed(r)
  BY <1>8 DEF PublishFollowed, GoTo, profileVars, followVars, Control, TypeOK
<1>9. CASE PublishFails(r)
  BY <1>9 DEF PublishFails, GoTo, profileVars, followVars, Control, TypeOK
<1>10. CASE Delete(r)
  BY <1>10 DEF Delete, GoTo, profileVars, Control, TypeOK
<1>11. CASE Abandon(r)
  BY <1>11 DEF Abandon, profileVars, followVars
<1>12. CASE Drop(r)
  BY <1>12 DEF Drop, profileVars, followVars, Control, TypeOK
<1> QED
  BY <1>1, <1>2, <1>3, <1>5, <1>6, <1>7, <1>8, <1>9, <1>10, <1>11, <1>12 DEF Step

LEMMA RowsFirstInvariant == Spec => []RowsFirst
<1>1. Init => RowsFirst
  BY DEF Init, RowsFirst, RowsEnsured, FollowsOfUsers
<1>2. RowsFirst /\ UNCHANGED vars => RowsFirst'
  BY DEF RowsFirst, RowsEnsured, FollowsOfUsers, vars, profileVars, followVars
<1>3. Control /\ RowsFirst /\ [Next]_vars => RowsFirst'
  BY <1>2, RowsFirstStep DEF Next
<1> QED
  BY <1>1, <1>3, ControlInvariant, PTL DEF Spec

\* Both users of every follow have a row: the foreign keys of the table follows
\* are met before the INSERT, under any interleaving and any failures.
THEOREM FollowsHaveRows == Spec => []FollowsOfUsers
  BY RowsFirstInvariant, PTL DEF RowsFirst

-----------------------------------------------------------------------------
(* Profiles.                                                               *)

Owned(u, f, w) == Op[w] = "update" /\ Actor[w] = u /\ f \in Patch[w] /\ w \notin TooLong

\* What UpdateMe has read is the user's own as well.
CopiesOwned ==
    \A r \in Requests, f \in Fields :
        copy[r][f] # Blank => Owned(Actor[r], f, copy[r][f])

Ownership == CopiesOwned /\ FieldsAreTheUsersOwn

LEMMA OwnershipStep ==
    ASSUME Control, Ownership, NEW r \in Requests, Step(r)
    PROVE  Ownership'
<1> USE UsersAssumption DEF Ownership, CopiesOwned, FieldsAreTheUsersOwn, Owned
<1>1. CASE SelectFound(r)
  <2>1. Op[r] = "update" => Subject(r) = Actor[r]
    BY DEF Control, TypeOK, StageFits, Subject
  <2>2. CopiesOwned'
    BY <1>1, <2>1 DEF SelectFound, Control, TypeOK
  <2> QED
    BY <1>1, <2>2 DEF SelectFound, profileVars
<1>2. CASE SelectMissing(r)
  BY <1>2 DEF SelectMissing, profileVars, BlankProfile, Control, TypeOK
<1>3. CASE Create(r)
  BY <1>3 DEF Create, BlankProfile, Control, TypeOK
<1>4. CASE SaveProfile(r)
  <2>1. Op[r] = "update" /\ r \notin TooLong
    BY <1>4 DEF SaveProfile, Control, StageFits, Refused
  <2>2. \A f \in Fields : Patched(r)[f] # Blank => Owned(Actor[r], f, Patched(r)[f])
    BY <2>1 DEF Patched
  <2>3. FieldsAreTheUsersOwn'
    <3> SUFFICES ASSUME NEW u \in Users, NEW f \in Fields, profile'[u][f] # Blank
                 PROVE  Owned(u, f, profile'[u][f])
      BY DEF FieldsAreTheUsersOwn
    <3>1. CASE u = Actor[r]
      BY <1>4, <2>2, <3>1 DEF SaveProfile, Control, TypeOK
    <3>2. CASE u # Actor[r]
      BY <1>4, <3>2 DEF SaveProfile, Control, TypeOK
    <3> QED BY <3>1, <3>2
  <2> QED
    BY <1>4, <2>3 DEF SaveProfile
<1>5. CASE ~(SelectFound(r) \/ SelectMissing(r) \/ Create(r) \/ SaveProfile(r))
  <2>1. UNCHANGED <<profile, copy>>
    BY <1>5 DEF Step, Begin, InsertAdds, InsertConflicts, PublishFollowed, PublishFails,
                Delete, Abandon, Drop, profileVars
  <2> QED BY <2>1
<1> QED
  BY <1>1, <1>2, <1>3, <1>4, <1>5

\* A profile's fields come from updates of its own user that set them.
THEOREM ProfilesOwned == Spec => []FieldsAreTheUsersOwn
<1>1. Init => Ownership
  BY DEF Init, Ownership, CopiesOwned, FieldsAreTheUsersOwn, BlankProfile
<1>2. Ownership /\ UNCHANGED vars => Ownership'
  BY DEF Ownership, CopiesOwned, FieldsAreTheUsersOwn, Owned, vars, profileVars
<1>3. Control /\ Ownership /\ [Next]_vars => Ownership'
  BY <1>2, OwnershipStep DEF Next
<1> QED
  BY <1>1, <1>3, ControlInvariant, PTL DEF Spec, Ownership

-----------------------------------------------------------------------------
(* Follows and their events.                                               *)

\* A row that was put in is there until it is taken out; one pair is added
\* twice only with a removal between; an event comes from a request that added.
EventsFit ==
    /\ \A a \in added : Pair(a) \in follows \/ Removed(Pair(a))
    /\ \A a, b \in added : a # b /\ Pair(a) = Pair(b) => Removed(Pair(a))
    /\ announced \subseteq added
    /\ \A r \in Requests : pc[r] = "publishing" => r \in added
    /\ \A r \in added : pc[r] \notin {"new", "selecting", "creating", "inserting"}
    /\ FollowSticks
    /\ FollowsAccounted

LEMMA EventsFitStep ==
    ASSUME Control, EventsFit, NEW r \in Requests, Step(r)
    PROVE  EventsFit'
<1> USE UsersAssumption DEF EventsFit, FollowSticks, FollowsAccounted, Removed, Ended
<1>1. CASE InsertAdds(r)
  <2>1. r \notin added
    BY <1>1 DEF InsertAdds
  <2>2. \A a \in added : Pair(a) = Pair(r) => Removed(Pair(a))
    BY <1>1 DEF InsertAdds
  <2> QED
    BY <1>1, <2>1, <2>2 DEF InsertAdds, GoTo, Pair, Control, TypeOK
<1>2. CASE InsertConflicts(r)
  BY <1>2 DEF InsertConflicts, GoTo, followVars, eventVars, Pair, Control, TypeOK
<1>3. CASE PublishFollowed(r)
  BY <1>3 DEF PublishFollowed, GoTo, followVars, Pair, Control, TypeOK
<1>4. CASE PublishFails(r)
  BY <1>4 DEF PublishFails, GoTo, followVars, Pair, Control, TypeOK
<1>5. CASE Delete(r)
  <2>1. Op[r] = "unfollow"
    BY <1>5 DEF Delete, Control, StageFits
  <2>2. \A p : p \in follows \/ Removed(p) => p \in follows' \/ Removed(p)'
    BY <1>5 DEF Delete, Pair
  <2>3. \A p : Removed(p) => Removed(p)'
    BY <1>5 DEF Delete, Pair
  <2> QED
    BY <1>5, <2>1, <2>2, <2>3 DEF Delete, GoTo, eventVars, Pair, Control, TypeOK
<1>6. CASE Begin(r) \/ SelectMissing(r) \/ SaveProfile(r) \/ Drop(r)
  BY <1>6 DEF Begin, SelectMissing, SaveProfile, Drop, GoTo, followVars, eventVars, Pair,
              Control, TypeOK, StageFits
<1>7. CASE SelectFound(r) \/ Create(r)
  <2>1. /\ UNCHANGED <<followVars, eventVars>>
        /\ pc[r] \in {"selecting", "creating"}
        /\ Op[r] = "follow" => pc'[r] \in {"selecting", "inserting", "failed"}
        /\ pc'[r] # "publishing"
        /\ \A q \in Requests : q # r => pc'[q] = pc[q]
    BY <1>7 DEF SelectFound, Create, Found, GoTo, Control, TypeOK
  <2>2. r \notin added
    BY <2>1
  <2>3. UNCHANGED <<follows, added, removed, announced, missed>>
    BY <2>1 DEF followVars, eventVars
  <2>4. FollowSticks'
    BY <2>1, <2>3
  <2>5. FollowsAccounted'
    BY <2>1, <2>2, <2>3 DEF Control, TypeOK
  <2>6. \A q \in added' : pc'[q] \notin {"new", "selecting", "creating", "inserting"}
    BY <2>1, <2>2, <2>3 DEF Control, TypeOK
  <2> QED
    BY <2>1, <2>3, <2>4, <2>5, <2>6
<1>8. CASE Abandon(r)
  BY <1>8 DEF Abandon, followVars, eventVars, Pair
<1> QED
  BY <1>1, <1>2, <1>3, <1>4, <1>5, <1>6, <1>7, <1>8 DEF Step

LEMMA EventsFitInvariant == Spec => []EventsFit
<1>1. Init => EventsFit
  BY DEF Init, EventsFit, FollowSticks, FollowsAccounted
<1>2. EventsFit /\ UNCHANGED vars => EventsFit'
  BY DEF EventsFit, FollowSticks, FollowsAccounted, Removed, Pair, vars, followVars, eventVars
<1>3. Control /\ EventsFit /\ [Next]_vars => EventsFit'
  BY <1>2, EventsFitStep DEF Next
<1> QED
  BY <1>1, <1>3, ControlInvariant, PTL DEF Spec

\* An acknowledged follow stays until an unfollow takes it out.
THEOREM FollowsAreDurable == Spec => []FollowSticks
  BY EventsFitInvariant, PTL DEF EventsFit

\* A pair has one event per row that was put in.
THEOREM EventsAreUnique == Spec => []OneEventPerFollow
<1>1. EventsFit => OneEventPerFollow
  BY DEF EventsFit, OneEventPerFollow
<1> QED
  BY <1>1, EventsFitInvariant, PTL

\* No new row goes without an event except after a recorded failure.
THEOREM NoFollowForgotten == Spec => []FollowsAccounted
  BY EventsFitInvariant, PTL DEF EventsFit
-----------------------------------------------------------------------------
(* Follows and unfollows act on the table at one moment.                   *)

FateOf(stage) ==
    CASE stage \in Ended -> stage
      [] stage = "publishing" -> "added"
      [] OTHER -> "open"

LEMMA FateMapped ==
    ASSUME TypeOK, NEW r \in FollowRequests, NEW stage, pc' = [pc EXCEPT ![r] = stage]
    PROVE  fate[r] = FateOf(pc[r]) /\ fate' = [fate EXCEPT ![r] = FateOf(stage)]
<1>1. fate = [q \in FollowRequests |-> FateOf(pc[q])]
  BY DEF fate, FateOf
<1>2. fate' = [q \in FollowRequests |-> FateOf(pc'[q])]
  BY DEF fate, FateOf
<1>3. \A q \in FollowRequests :
          FateOf(pc'[q]) = IF q = r THEN FateOf(stage) ELSE FateOf(pc[q])
  BY DEF TypeOK, FollowRequests
<1> HIDE DEF FateOf
<1> QED BY <1>1, <1>2, <1>3

\* The answer to a statement is lost on an abandoned request.
LEMMA GoToMapped ==
    ASSUME TypeOK, NEW r \in FollowRequests, NEW next, GoTo(r, next)
    PROVE  /\ fate[r] = FateOf(pc[r])
           /\ fate' = [fate EXCEPT ![r] = FateOf(IF r \in abandoned THEN "failed" ELSE next)]
<1> HIDE DEF FateOf
<1> QED BY FateMapped DEF GoTo

\* Nobody else sees a step of a request that reads or writes profiles.
LEMMA OthersUnseen ==
    ASSUME Control, NEW r \in Requests \ FollowRequests, Step(r)
    PROVE  UNCHANGED Table!vars
<1>1. UNCHANGED <<follows, announced>>
  BY UsersAssumption
     DEF Control, StageFits, FollowRequests, Step, Begin, SelectFound, SelectMissing, Create,
         SaveProfile, InsertAdds, InsertConflicts, PublishFollowed, PublishFails, Delete,
         Abandon, Drop, followVars, eventVars
<1>2. \A q \in FollowRequests : pc'[q] = pc[q]
  BY DEF Control, TypeOK, FollowRequests, Step, Begin, SelectFound, SelectMissing, Create,
         SaveProfile, InsertAdds, InsertConflicts, PublishFollowed, PublishFails, Delete,
         Abandon, Drop, Found, GoTo
<1>3. fate' = fate
  BY <1>2 DEF fate
<1> QED
  BY <1>1, <1>3 DEF Table!vars

\* The rows of the two users are looked for and created before the moment comes.
LEMMA EnsuringMapped ==
    ASSUME Control, NEW r \in FollowRequests, SelectFound(r) \/ SelectMissing(r) \/ Create(r)
    PROVE  Table!Fail(r) \/ UNCHANGED Table!vars
<1>1. UNCHANGED <<follows, announced>> /\ pc[r] \in {"selecting", "creating"}
  BY DEF SelectFound, SelectMissing, Create, followVars, eventVars
<1>2. PICK next \in {"selecting", "creating", "inserting"} : GoTo(r, next)
  BY DEF FollowRequests, Control, StageFits, SelectFound, SelectMissing, Create, Found
<1>3. fate[r] = "open" /\ \E f \in {"open", "failed"} : fate' = [fate EXCEPT ![r] = f]
  BY <1>1, <1>2, GoToMapped DEF Control, FateOf, Ended
<1>4. CASE fate' = [fate EXCEPT ![r] = "failed"]
  BY <1>1, <1>3, <1>4 DEF Table!Fail, Table!Ends
<1>5. CASE fate' = [fate EXCEPT ![r] = "open"]
  <2>1. fate' = fate
    BY <1>3, <1>5 DEF fate
  <2> QED BY <1>1, <2>1 DEF Table!vars
<1> QED
  BY <1>3, <1>4, <1>5

LEMMA TableStep ==
    ASSUME Control, NEW r \in FollowRequests, Step(r)
    PROVE  Table!Step(r) \/ UNCHANGED Table!vars
<1>0. Table!Pair(r) = Pair(r) /\ r \in Requests
  BY DEF Table!Pair, Pair, FollowRequests
<1>1. CASE Begin(r)
  <2>1. UNCHANGED <<follows, announced>> /\ pc[r] = "new"
    BY <1>1 DEF Begin, followVars, eventVars
  <2>2. CASE Refused(r)
    <3>1. pc' = [pc EXCEPT ![r] = "refused"] /\ Actor[r] = Target[r]
      BY <1>1, <2>2 DEF Begin, Refused, FollowRequests
    <3>2. fate[r] = "open" /\ fate' = [fate EXCEPT ![r] = "refused"]
      BY <2>1, <3>1, FateMapped DEF Control, FateOf, Ended
    <3> QED BY <2>1, <3>1, <3>2 DEF Table!Step, Table!Refuse, Table!Ends
  <2>3. CASE ~ Refused(r)
    <3>1. PICK stage \in {"deleting", "selecting"} : pc' = [pc EXCEPT ![r] = stage]
      BY <1>1, <2>3 DEF Begin
    <3>2. fate[r] = "open" /\ fate' = [fate EXCEPT ![r] = "open"]
      BY <2>1, <3>1, FateMapped DEF Control, FateOf, Ended
    <3>3. fate' = fate
      BY <3>2 DEF fate
    <3> QED BY <2>1, <3>3 DEF Table!vars
  <2> QED BY <2>2, <2>3
<1>2. CASE SelectFound(r) \/ SelectMissing(r) \/ Create(r)
  BY <1>2, EnsuringMapped DEF Table!Step
<1>3. CASE SaveProfile(r)
  BY <1>3 DEF SaveProfile, Control, StageFits, FollowRequests
<1>4. CASE InsertAdds(r)
  <2>1. fate[r] = "open" /\ \E f \in {"added", "failed"} : fate' = [fate EXCEPT ![r] = f]
    BY <1>4, GoToMapped DEF InsertAdds, Control, FateOf, Ended
  <2>2. Op[r] = "follow" /\ Actor[r] # Target[r]
    BY <1>0, <1>4 DEF InsertAdds, Control, StageFits, Refused
  <2> QED
    BY <1>0, <1>4, <2>1, <2>2 DEF InsertAdds, Table!Step, Table!Add, Table!Ends
<1>5. CASE InsertConflicts(r)
  <2>1. fate[r] = "open" /\ \E f \in {"ok", "failed"} : fate' = [fate EXCEPT ![r] = f]
    BY <1>5, GoToMapped DEF InsertConflicts, Control, FateOf, Ended
  <2>2. Op[r] = "follow" /\ Pair(r) \in follows /\ UNCHANGED <<follows, announced>>
    BY <1>0, <1>5 DEF InsertConflicts, Control, StageFits, followVars, eventVars
  <2> QED
    BY <1>0, <2>1, <2>2 DEF Table!Step, Table!Find, Table!Fail, Table!Ends
<1>6. CASE PublishFollowed(r) \/ PublishFails(r)
  <2>1. pc[r] = "publishing" /\ GoTo(r, "ok")
    BY <1>6 DEF PublishFollowed, PublishFails
  <2>2. fate[r] = "added" /\ \E f \in {"ok", "failed"} : fate' = [fate EXCEPT ![r] = f]
    BY <2>1, GoToMapped DEF Control, FateOf, Ended
  <2>3. announced' \in {announced, announced \union {r}} /\ UNCHANGED follows
    BY <1>6 DEF PublishFollowed, PublishFails, followVars
  <2> QED
    BY <2>2, <2>3 DEF Table!Step, Table!Answer, Table!Ends
<1>7. CASE Delete(r)
  <2>1. fate[r] = "open" /\ \E f \in {"ok", "failed"} : fate' = [fate EXCEPT ![r] = f]
    BY <1>7, GoToMapped DEF Delete, Control, FateOf, Ended
  <2>2. Op[r] = "unfollow"
    BY <1>0, <1>7 DEF Delete, Control, StageFits
  <2> QED
    BY <1>0, <1>7, <2>1, <2>2 DEF Delete, eventVars, Table!Step, Table!Remove, Table!Ends
<1>8. CASE Abandon(r)
  <2>1. UNCHANGED <<follows, announced, pc>>
    BY <1>8 DEF Abandon, followVars, eventVars
  <2> QED BY <2>1 DEF fate, Table!vars
<1>9. CASE Drop(r)
  <2>1. UNCHANGED <<follows, announced>>
    BY <1>9 DEF Drop, followVars, eventVars
  <2>2. fate[r] = "open" /\ fate' = [fate EXCEPT ![r] = "failed"]
    BY <1>0, <1>9, FateMapped DEF Drop, Control, TypeOK, FateOf, Ended
  <2> QED BY <2>1, <2>2 DEF Table!Step, Table!Fail, Table!Ends
<1> QED
  BY <1>1, <1>2, <1>3, <1>4, <1>5, <1>6, <1>7, <1>8, <1>9 DEF Step

\* Users-service implements FollowTable: a follow is up to six statements and a
\* publish, a repeated one finds the row of the first, and each still has its
\* effect in one step, announced once at most.
THEOREM FollowsAtomic == Spec => FollowsAreAtomic
<1>1. Init => Table!Init
  BY DEF Init, Table!Init, fate, Ended, FollowRequests
<1>2. Control /\ [Next]_vars => [Table!Next]_(Table!vars)
  <2>1. UNCHANGED vars => UNCHANGED Table!vars
    BY DEF vars, followVars, eventVars, fate, Table!vars
  <2> QED BY <2>1, TableStep, OthersUnseen DEF Next, Table!Next
<1> QED
  BY <1>1, <1>2, ControlInvariant, PTL DEF Spec, FollowsAreAtomic, Table!Spec
=============================================================================
