---------------------------- MODULE FeedFanoutProofs ----------------------------
(***************************************************************************)
(* What the fan-out guarantees for any users, any log, any limit of a feed *)
(* and any number of crashes, restarts and rebalances, and that it         *)
(* implements EventDelivery.                                               *)
(***************************************************************************)
EXTENDS FeedFanout, FiniteSetTheorems, WellFoundedInduction, TLAPS

InHand == pc \in {"looking", "adding", "committing"}

Served(e) ==
    \A u \in steady[e] : e \in delivered[u] \/ <<u, e>> \in failed \/ e \in gaveUp \union skipped

Settled(e) == e \in done \union gaveUp \union skipped

Accounted(e) == Served(e) /\ Settled(e)

\* Steady followers are followers.
SteadyInv == \A e \in Posts : \A u \in steady[e] : <<u, AuthorOf[e]>> \in follows

\* Everything before the post in hand, and everything the reader has gone past
\* but the post in hand, is accounted for; a steady follower of the post in hand
\* is still to be called for, or was.
ProgressInv ==
    /\ InHand => current \in 1 .. produced
    /\ InHand => \A e \in Posts : e < current => Accounted(e)
    /\ pc = "adding" =>
          \A u \in steady[current] :
             u \in pending \/ current \in delivered[u] \/ <<u, current>> \in failed
    /\ pc = "committing" => Accounted(current)
    /\ pc # "stopped" =>
          \A e \in Posts : e <= position => Accounted(e) \/ (InHand /\ e = current)
    /\ \A e \in Posts : e <= committed => Accounted(e)

IInv == TypeOK /\ SteadyInv /\ ProgressInv

-----------------------------------------------------------------------------
\* Nothing has been published, read or added yet.
LEMMA InitIInv == Init => IInv
<1> SUFFICES ASSUME Init PROVE IInv
  OBVIOUS
<1>1. TypeOK
  BY FanoutAssumption DEF Init, TypeOK, Posts
<1>2. SteadyInv
  BY DEF Init, SteadyInv
<1>3. ProgressInv
  BY FanoutAssumption DEF Init, ProgressInv, InHand, Posts
<1> QED
  BY <1>1, <1>2, <1>3 DEF IInv

\* A post of the log that is accounted for stays so in every step: followers of
\* it may leave but not become steady again, and nothing forgets an outcome.
LEMMA AccountedStays ==
    ASSUME TypeOK, [Next]_vars, NEW e \in Posts, e <= produced, Accounted(e)
    PROVE  Accounted(e)'
<1>1. /\ done \subseteq done' /\ gaveUp \subseteq gaveUp' /\ skipped \subseteq skipped'
      /\ failed \subseteq failed'
  BY DEF Next, Publish, Follow, Unfollow, Start, Rebalance, SessionStarts, Crash, Cancel,
     Closed, Run, Fetch, FetchFails, FollowerIDs, LookUp, LookUpFails, FanOut, Handled,
     AddFeedItem, AddFails, CommitMessages, Commit, CommitCancelled, CommitFails,
     vars, outcomeVars, feedVars
<1>2. \A u \in Users : delivered[u] \subseteq delivered'[u]
  <2>1. \/ delivered' = delivered
        \/ \E u \in Users : delivered' = [delivered EXCEPT ![u] = @ \union {current}]
    BY DEF Next, Publish, Follow, Unfollow, Start, Rebalance, SessionStarts, Crash, Cancel,
       Closed, Run, Fetch, FetchFails, FollowerIDs, LookUp, LookUpFails, FanOut, Handled,
       AddFeedItem, AddFails, AddedTo, CommitMessages, Commit, CommitCancelled, CommitFails,
       vars, feedVars
  <2> QED
    BY <2>1 DEF TypeOK
<1>3. steady'[e] \subseteq steady[e]
  <2>1. CASE Publish
    <3>1. produced + 1 # e
      BY DEF TypeOK, Posts
    <3> QED
      BY <2>1, <3>1 DEF TypeOK, Publish
  <2>2. CASE \E u \in Users, a \in Authors : Unfollow(u, a)
    BY <2>2 DEF TypeOK, Unfollow
  <2>3. CASE UNCHANGED steady
    BY <2>3
  <2> QED
    BY <2>1, <2>2, <2>3
    DEF Next, Follow, Start, Rebalance, SessionStarts, Crash, Cancel,
       Closed, Run, Fetch, FetchFails, FollowerIDs, LookUp, LookUpFails, FanOut, Handled,
       AddFeedItem, AddFails, CommitMessages, Commit, CommitCancelled, CommitFails,
       vars, followVars
<1>4. steady[e] \subseteq Users
  BY DEF TypeOK
<1> QED
  BY <1>1, <1>2, <1>3, <1>4 DEF Accounted, Served, Settled

\* A post is published.
LEMMA PublishIInv == IInv /\ Publish => IInv'
<1> SUFFICES ASSUME IInv, Publish PROVE IInv'
  OBVIOUS
<1> USE FanoutAssumption DEF IInv, Publish
<1>0. /\ produced \in 0 .. MaxEvents /\ produced < MaxEvents /\ produced' = produced + 1
      /\ produced + 1 \in Posts
  BY DEF TypeOK, Posts
<1>1. TypeOK'
  <2>1. FollowersOf(AuthorOf[produced + 1]) \in SUBSET Users
    BY DEF FollowersOf
  <2>2. steady' \in [Posts -> SUBSET Users]
    BY <2>1 DEF TypeOK
  <2>3. committed' \in 0 .. produced' /\ position' \in 0 .. produced' /\ current' \in 0 .. produced'
        /\ produced' \in 0 .. MaxEvents
    BY <1>0 DEF TypeOK, groupVars, handVars
  <2> QED
    BY <2>2, <2>3 DEF TypeOK, groupVars, handVars, feedVars, outcomeVars
<1>2. SteadyInv'
  <2> SUFFICES ASSUME NEW e \in Posts, NEW u \in steady'[e] PROVE <<u, AuthorOf[e]>> \in follows
    BY DEF SteadyInv
  <2>1. CASE e = produced + 1
    BY <1>0, <2>1 DEF TypeOK, FollowersOf
  <2>2. CASE e # produced + 1
    BY <1>0, <2>2 DEF TypeOK, SteadyInv
  <2> QED
    BY <2>1, <2>2
<1>3. ASSUME NEW e \in Posts, e <= produced, Accounted(e) PROVE Accounted(e)'
  BY <1>3, AccountedStays DEF Next
<1>4. ProgressInv'
  <2>1. InHand => steady'[current] = steady[current]
    BY <1>0 DEF TypeOK, ProgressInv
  <2>2. /\ committed <= produced /\ position <= produced
        /\ InHand => current \in 1 .. produced /\ current \in Posts
    BY <1>0 DEF TypeOK, ProgressInv, Posts
  <2>3. UNCHANGED <<committed, position, pc, current, pending, delivered, failed>>
    BY DEF groupVars, handVars, feedVars
  <2>4. (InHand => \A e \in Posts : e < current => Accounted(e))'
    BY <1>3, <2>2, <2>3, <1>0 DEF ProgressInv, InHand, Posts
  <2>5. (pc # "stopped" =>
          \A e \in Posts : e <= position => Accounted(e) \/ (InHand /\ e = current))'
    BY <1>3, <2>2, <2>3, <1>0 DEF TypeOK, ProgressInv, InHand, Posts
  <2>6. (\A e \in Posts : e <= committed => Accounted(e))'
    BY <1>3, <2>2, <2>3, <1>0 DEF TypeOK, ProgressInv, Posts
  <2>7. (InHand => current \in 1 .. produced)' /\ (pc = "committing" => Accounted(current))'
    BY <1>3, <2>2, <2>3, <1>0 DEF ProgressInv, InHand
  <2>8. (pc = "adding" => \A u \in steady[current] :
             u \in pending \/ current \in delivered[u] \/ <<u, current>> \in failed)'
    BY <2>1, <2>3 DEF ProgressInv, InHand
  <2> QED
    BY <2>4, <2>5, <2>6, <2>7, <2>8 DEF ProgressInv
<1> QED
  BY <1>1, <1>2, <1>4

\* Users follow and unfollow.
LEMMA FollowIInv ==
    ASSUME IInv, NEW u \in Users, NEW a \in Authors, Follow(u, a) \/ Unfollow(u, a)
    PROVE  IInv'
<1> USE FanoutAssumption DEF IInv, Follow, Unfollow
<1>0. /\ UNCHANGED <<logVars, groupVars, pc, handVars, ctx, feedVars, outcomeVars>>
      /\ follows' \subseteq Users \X Authors
      /\ steady' \in [Posts -> SUBSET Users]
      /\ \A e \in Posts : steady'[e] \subseteq steady[e]
  <2>1. follows \subseteq Users \X Authors /\ steady \in [Posts -> SUBSET Users]
    BY DEF TypeOK
  <2> QED
    BY <2>1
<1>1. TypeOK'
  BY <1>0 DEF TypeOK, logVars, groupVars, handVars, feedVars, outcomeVars
<1>2. SteadyInv'
  <2> SUFFICES ASSUME NEW e \in Posts, NEW v \in steady'[e] PROVE <<v, AuthorOf[e]>> \in follows'
    BY DEF SteadyInv
  <2>1. <<v, AuthorOf[e]>> \in follows
    BY <1>0 DEF SteadyInv
  <2>2. CASE Follow(u, a)
    BY <2>1, <2>2
  <2>3. CASE Unfollow(u, a)
    <3>1. AuthorOf[e] = a => v # u
      BY <2>3 DEF TypeOK
    <3> QED
      BY <2>1, <2>3, <3>1
  <2> QED
    BY <2>2, <2>3
<1>3. ASSUME NEW e \in Posts, Accounted(e) PROVE Accounted(e)'
  BY <1>0, <1>3 DEF Accounted, Served, Settled, feedVars, outcomeVars
<1>4. ProgressInv'
  <2>1. InHand => current \in Posts
    BY DEF TypeOK, ProgressInv, Posts
  <2> QED
    BY <1>0, <1>3, <2>1
    DEF ProgressInv, InHand, logVars, groupVars, handVars, feedVars, outcomeVars
<1> QED
  BY <1>1, <1>2, <1>4

\* Starting, stopping and moving to another partition owner.
LEMMA SessionIInv == IInv /\ (Start \/ Rebalance) => IInv'
<1> SUFFICES ASSUME IInv, Start \/ Rebalance PROVE IInv'
  OBVIOUS
<1> USE FanoutAssumption DEF IInv, Start, Rebalance, SessionStarts, StartPosition
<1>0. /\ UNCHANGED <<logVars, followVars, committed, handVars, feedVars, done, gaveUp>>
      /\ position' = IF committed = 0 THEN produced ELSE committed
      /\ skipped' = IF committed = 0 THEN skipped \union 1 .. produced ELSE skipped
      /\ sessions' \in 0 .. MaxSessions
      /\ \/ pc' = "fetching" /\ ctx' = "live" /\ pc = "stopped"
         \/ UNCHANGED <<pc, ctx>> /\ pc # "stopped"
  BY DEF TypeOK
<1>1. TypeOK'
  <2>1. produced \in 0 .. MaxEvents /\ 1 .. produced \subseteq Posts
    BY DEF TypeOK, Posts
  <2>2. skipped' \subseteq Posts /\ position' \in 0 .. produced
    BY <1>0, <2>1 DEF TypeOK
  <2> QED
    BY <1>0, <2>2 DEF TypeOK, logVars, followVars, handVars, feedVars
<1>2. SteadyInv'
  BY <1>0 DEF SteadyInv, followVars
<1>3. ASSUME NEW e \in Posts, Accounted(e) PROVE Accounted(e)'
  BY <1>0, <1>3 DEF Accounted, Served, Settled, followVars, feedVars
<1>4. ASSUME NEW e \in Posts, e <= position' PROVE Accounted(e)'
  <2>1. CASE committed = 0
    <3>1. e \in 1 .. produced
      BY <1>0, <1>4, <2>1 DEF TypeOK, Posts
    <3> QED
      BY <1>0, <2>1, <3>1 DEF Accounted, Served, Settled
  <2>2. CASE committed # 0
    BY <1>0, <1>3, <1>4, <2>2 DEF ProgressInv
  <2> QED
    BY <2>1, <2>2
<1>5. ProgressInv'
  <2>1. (InHand => current \in 1 .. produced)'
    BY <1>0 DEF ProgressInv, InHand, logVars, handVars
  <2>2. (InHand => \A e \in Posts : e < current => Accounted(e))'
    BY <1>0, <1>3 DEF ProgressInv, InHand, handVars
  <2>3. (pc = "adding" => \A u \in steady[current] :
             u \in pending \/ current \in delivered[u] \/ <<u, current>> \in failed)'
    BY <1>0 DEF ProgressInv, followVars, handVars, feedVars
  <2>4. (pc = "committing" => Accounted(current))'
    <3>1. pc = "committing" => current \in Posts
      BY DEF TypeOK, ProgressInv, InHand, Posts
    <3> QED
      BY <1>0, <1>3, <3>1 DEF ProgressInv, handVars
  <2>5. (\A e \in Posts : e <= committed => Accounted(e))'
    BY <1>0, <1>3 DEF ProgressInv
  <2> QED
    BY <1>4, <2>1, <2>2, <2>3, <2>4, <2>5 DEF ProgressInv
<1> QED
  BY <1>1, <1>2, <1>5

LEMMA StopIInv == IInv /\ (Crash \/ Cancel \/ Closed \/ FetchFails) => IInv'
<1> SUFFICES ASSUME IInv, Crash \/ Cancel \/ Closed \/ FetchFails PROVE IInv'
  OBVIOUS
<1>0. /\ UNCHANGED <<logVars, followVars, groupVars, handVars, feedVars, outcomeVars>>
      /\ \/ pc' = "stopped" /\ ctx' = ctx
         \/ pc' = pc /\ ctx' = "cancelled"
         \/ pc = "fetching" /\ pc' = "exited" /\ ctx' = ctx
  BY DEF Crash, Cancel, Closed, FetchFails
<1>1. TypeOK'
  BY <1>0 DEF IInv, TypeOK, logVars, followVars, groupVars, handVars, feedVars, outcomeVars
<1>2. SteadyInv'
  BY <1>0 DEF IInv, SteadyInv, followVars
<1>3. \A e : Accounted(e)' <=> Accounted(e)
  BY <1>0 DEF Accounted, Served, Settled, followVars, feedVars, outcomeVars
<1>4. ProgressInv'
  BY <1>0, <1>3
  DEF IInv, ProgressInv, InHand, logVars, followVars, groupVars, handVars, feedVars
<1> QED
  BY <1>1, <1>2, <1>4 DEF IInv

\* Taking the next post of the log; a malformed one is given up at once.
LEMMA FetchIInv == IInv /\ Fetch => IInv'
<1> SUFFICES ASSUME IInv, Fetch PROVE IInv'
  OBVIOUS
<1> USE FanoutAssumption DEF IInv, Fetch
<1>0. /\ position < produced /\ position' = position + 1 /\ current' = position + 1
      /\ position + 1 \in Posts /\ position + 1 \in 1 .. produced
      /\ pc = "fetching" /\ ~ InHand /\ pc' \in {"committing", "looking"} /\ InHand'
      /\ UNCHANGED <<logVars, followVars, committed, sessions, pending, ctx, feedVars, done, skipped>>
  BY DEF TypeOK, Posts, InHand
<1>1. TypeOK'
  <2>1. gaveUp' \subseteq Posts
    BY <1>0 DEF TypeOK
  <2>2. pc' = "looking" => position + 1 \notin malformed
    OBVIOUS
  <2>3. malformed \subseteq Posts /\ produced \in 0 .. MaxEvents /\ position \in 0 .. produced
    BY DEF TypeOK
  <2> QED
    BY <1>0, <2>1, <2>2, <2>3 DEF TypeOK, logVars, followVars, feedVars
<1>2. SteadyInv'
  BY <1>0 DEF SteadyInv, followVars
<1>3. ASSUME NEW e \in Posts, e <= produced, Accounted(e) PROVE Accounted(e)'
  BY <1>3, AccountedStays DEF Next, Run
<1>4. ASSUME NEW e \in Posts, e <= position PROVE Accounted(e)'
  <2>1. e <= produced /\ Accounted(e)
    BY <1>0, <1>4 DEF TypeOK, ProgressInv, Posts
  <2> QED
    BY <1>3, <2>1
<1>5. ProgressInv'
  <2>1. (InHand => \A e \in Posts : e < current => Accounted(e))'
    BY <1>0, <1>4 DEF TypeOK, Posts
  <2>2. (pc # "stopped" =>
          \A e \in Posts : e <= position => Accounted(e) \/ (InHand /\ e = current))'
    BY <1>0, <1>4 DEF TypeOK, Posts
  <2>3. (pc = "committing" => Accounted(current))'
    BY <1>0 DEF Accounted, Served, Settled
  <2>4. (\A e \in Posts : e <= committed => Accounted(e))'
    BY <1>0, <1>3 DEF TypeOK, ProgressInv, Posts
  <2> QED
    BY <1>0, <2>1, <2>2, <2>3, <2>4 DEF ProgressInv, logVars
<1> QED
  BY <1>1, <1>2, <1>5

\* Reading the followers: those of the moment include the steady ones.
LEMMA FollowerIDsIInv == IInv /\ FollowerIDs => IInv'
<1> SUFFICES ASSUME IInv, FollowerIDs PROVE IInv'
  OBVIOUS
<1> USE FanoutAssumption DEF IInv, FollowerIDs, LookUp, LookUpFails
<1>0. /\ pc = "looking" /\ InHand /\ current \in 1 .. produced /\ current \in Posts
      /\ InHand' /\ pc' \in {"adding", "committing"}
      /\ UNCHANGED <<logVars, followVars, groupVars, current, ctx, feedVars, done, skipped>>
  BY DEF TypeOK, ProgressInv, InHand, handVars, outcomeVars
<1>1. TypeOK'
  <2>1. pending' \subseteq Users
    BY DEF TypeOK, FollowersOf, handVars
  <2>2. gaveUp' \subseteq Posts
    BY <1>0 DEF TypeOK, outcomeVars
  <2> QED
    BY <1>0, <2>1, <2>2 DEF TypeOK, logVars, followVars, groupVars, feedVars
<1>2. SteadyInv'
  BY <1>0 DEF SteadyInv, followVars
<1>3. ASSUME NEW e \in Posts, Accounted(e) PROVE Accounted(e)'
  BY <1>0, <1>3 DEF Accounted, Served, Settled, followVars, feedVars, outcomeVars
<1>4. (pc = "adding" => \A u \in steady[current] :
             u \in pending \/ current \in delivered[u] \/ <<u, current>> \in failed)'
  <2> SUFFICES ASSUME LookUp, NEW u \in steady[current] PROVE u \in pending'
    BY <1>0 DEF followVars
  <2>1. <<u, AuthorOf[current]>> \in follows /\ u \in Users
    BY <1>0 DEF TypeOK, SteadyInv
  <2> QED
    BY <2>1 DEF FollowersOf
<1>5. (pc = "committing" => Accounted(current))'
  BY <1>0 DEF Accounted, Served, Settled
<1>6. ProgressInv'
  BY <1>0, <1>3, <1>4, <1>5 DEF ProgressInv, logVars, groupVars
<1> QED
  BY <1>1, <1>2, <1>6

\* One follower's feed, or the end of the loop over them.
LEMMA FanOutIInv == IInv /\ FanOut => IInv'
<1> SUFFICES ASSUME IInv, FanOut PROVE IInv'
  OBVIOUS
<1> USE FanoutAssumption DEF IInv, FanOut, Handled, AddFeedItem, AddFails, AddedTo
<1>0. /\ pc = "adding" /\ InHand /\ current \in 1 .. produced /\ current \in Posts
      /\ InHand' /\ pc' \in {"adding", "committing"}
      /\ UNCHANGED <<logVars, followVars, groupVars, current, ctx, gaveUp, skipped>>
  BY DEF TypeOK, ProgressInv, InHand, handVars, outcomeVars
<1>1. TypeOK'
  <2>1. /\ pending' \subseteq pending
        /\ done' \in {done, done \union {current}}
        /\ failed' = failed \/ \E u \in Users : failed' = failed \union {<<u, current>>}
        /\ \/ feed' = feed /\ delivered' = delivered
           \/ \E u \in Users :
                 /\ feed' = [feed EXCEPT ![u] = Trim(@ \union {current})]
                 /\ delivered' = [delivered EXCEPT ![u] = @ \union {current}]
    BY DEF handVars, outcomeVars, feedVars
  <2>5. pending' \subseteq Users /\ done' \subseteq Posts /\ failed' \subseteq Users \X Posts
    BY <1>0, <2>1 DEF TypeOK
  <2>2. /\ feed \in [Users -> SUBSET Posts] /\ delivered \in [Users -> SUBSET Posts]
    BY DEF TypeOK
  <2>3. \A u \in Users : Trim(feed[u] \union {current}) \subseteq Posts
    BY <1>0, <2>2 DEF Trim
  <2>4. feed' \in [Users -> SUBSET Posts] /\ delivered' \in [Users -> SUBSET Posts]
    <3>1. CASE feed' = feed /\ delivered' = delivered
      BY <2>2, <3>1
    <3>2. ASSUME NEW u \in Users,
                 feed' = [feed EXCEPT ![u] = Trim(@ \union {current})],
                 delivered' = [delivered EXCEPT ![u] = @ \union {current}]
          PROVE  feed' \in [Users -> SUBSET Posts] /\ delivered' \in [Users -> SUBSET Posts]
      <4>1. Trim(feed[u] \union {current}) \in SUBSET Posts
        BY <2>3
      <4>2. delivered[u] \union {current} \in SUBSET Posts
        BY <1>0, <2>2
      <4> QED
        BY <2>2, <3>2, <4>1, <4>2
    <3> QED
      BY <2>1, <3>1, <3>2
  <2> QED
    BY <1>0, <2>4, <2>5 DEF TypeOK, logVars, followVars, groupVars
<1>2. SteadyInv'
  BY <1>0 DEF SteadyInv, followVars
<1>3. ASSUME NEW e \in Posts, e <= produced, Accounted(e) PROVE Accounted(e)'
  BY <1>3, AccountedStays DEF Next, Run
<1>4. ASSUME NEW u \in steady[current]
      PROVE  (u \in pending \/ current \in delivered[u] \/ <<u, current>> \in failed)'
  <2>1. u \in Users /\ delivered \in [Users -> SUBSET Posts]
    BY <1>0 DEF TypeOK
  <2>2. u \in pending \/ current \in delivered[u] \/ <<u, current>> \in failed
    BY <1>0 DEF ProgressInv
  <2>3. CASE Handled
    BY <1>0, <2>2, <2>3 DEF handVars, feedVars
  <2>4. ASSUME NEW v \in Users, AddFeedItem(v)
        PROVE  (u \in pending \/ current \in delivered[u] \/ <<u, current>> \in failed)'
    BY <1>0, <2>1, <2>2, <2>4
  <2>5. ASSUME NEW v \in Users, AddFails(v)
        PROVE  (u \in pending \/ current \in delivered[u] \/ <<u, current>> \in failed)'
    BY <1>0, <2>1, <2>2, <2>5
  <2> QED
    BY <2>3, <2>4, <2>5
<1>5. (pc = "committing" => Accounted(current))'
  <2> SUFFICES ASSUME Handled PROVE Accounted(current)'
    BY <1>0
  <2>1. \A u \in steady[current] : current \in delivered[u] \/ <<u, current>> \in failed
    BY <1>0 DEF ProgressInv
  <2> QED
    BY <1>0, <2>1 DEF Accounted, Served, Settled, followVars, feedVars
<1>6. ProgressInv'
  <2>1. \A e \in Posts : e < current \/ e <= position \/ e <= committed => e <= produced
    BY <1>0 DEF TypeOK, Posts
  <2>2. UNCHANGED <<committed, position, produced, steady>>
    BY <1>0 DEF logVars, groupVars, followVars
  <2>3. (InHand => \A e \in Posts : e < current => Accounted(e))'
    BY <1>0, <1>3, <2>1, <2>2 DEF ProgressInv
  <2>4. (pc # "stopped" =>
          \A e \in Posts : e <= position => Accounted(e) \/ (InHand /\ e = current))'
    BY <1>0, <1>3, <2>1, <2>2 DEF ProgressInv
  <2>5. (\A e \in Posts : e <= committed => Accounted(e))'
    BY <1>0, <1>3, <2>1, <2>2 DEF ProgressInv
  <2> QED
    BY <1>0, <1>4, <1>5, <2>2, <2>3, <2>4, <2>5 DEF ProgressInv
<1> QED
  BY <1>1, <1>2, <1>6

\* Moving the committed offset: everything up to it is accounted for.
LEMMA CommitIInv == IInv /\ CommitMessages => IInv'
<1> SUFFICES ASSUME IInv, CommitMessages PROVE IInv'
  OBVIOUS
<1> USE FanoutAssumption DEF IInv, CommitMessages, Commit, CommitCancelled, CommitFails
<1>0. /\ pc = "committing" /\ InHand /\ current \in 1 .. produced /\ current \in Posts
      /\ ~ InHand' /\ pc' \in {"fetching", "exited"} /\ committed' \in {committed, current}
      /\ UNCHANGED <<logVars, followVars, position, sessions, handVars, ctx, feedVars, outcomeVars>>
  BY DEF TypeOK, ProgressInv, InHand, Posts, groupVars
<1>1. TypeOK'
  BY <1>0 DEF TypeOK, logVars, followVars, handVars, feedVars, outcomeVars
<1>2. SteadyInv'
  BY <1>0 DEF SteadyInv, followVars
<1>3. \A e : Accounted(e)' <=> Accounted(e)
  BY <1>0 DEF Accounted, Served, Settled, followVars, feedVars, outcomeVars
<1>4. ProgressInv'
  <2>1. Accounted(current) /\ \A e \in Posts : e < current => Accounted(e)
    BY <1>0 DEF ProgressInv
  <2>2. (\A e \in Posts : e <= committed => Accounted(e))'
    <3> SUFFICES ASSUME NEW e \in Posts, e <= committed' PROVE Accounted(e)
      BY <1>3
    <3>1. CASE committed' = committed
      BY <3>1 DEF ProgressInv
    <3>2. CASE committed' = current
      BY <1>0, <2>1, <3>2 DEF Posts
    <3> QED
      BY <1>0, <3>1, <3>2
  <2>3. (pc # "stopped" =>
          \A e \in Posts : e <= position => Accounted(e) \/ (InHand /\ e = current))'
    BY <1>0, <1>3, <2>1 DEF ProgressInv
  <2> QED
    BY <1>0, <2>2, <2>3 DEF ProgressInv
<1> QED
  BY <1>1, <1>2, <1>4

\* The strengthened invariant holds in every reachable state.
THEOREM Invariance == Spec => []IInv
<1>1. IInv /\ [Next]_vars => IInv'
  <2>1. IInv /\ UNCHANGED vars => IInv'
    BY DEF vars, logVars, followVars, groupVars, handVars, feedVars, outcomeVars,
       IInv, TypeOK, SteadyInv, ProgressInv, InHand, Accounted, Served, Settled
  <2> QED
    BY <2>1, PublishIInv, FollowIInv, SessionIInv, StopIInv, FetchIInv, FollowerIDsIInv,
       FanOutIInv, CommitIInv
    DEF Next, Run
<1> QED
  BY <1>1, InitIInv, PTL DEF Spec

\* Every variable keeps its type; the post in hand is one of the log.
THEOREM TypeCorrect == Spec => []TypeOK
<1>1. IInv => TypeOK
  BY DEF IInv
<1> QED
  BY <1>1, Invariance, PTL

\* The offset never passes a post that a steady follower was not called for,
\* unless the post was given up.
THEOREM NoFollowerLeftOut == Spec => []SteadyFollowersServed
<1>1. IInv => SteadyFollowersServed
  <2> SUFFICES ASSUME IInv, NEW e \in 1 .. committed PROVE Served(e)
    BY DEF SteadyFollowersServed, Served
  <2>1. e \in Posts /\ e <= committed
    BY FanoutAssumption DEF IInv, TypeOK, Posts
  <2> QED
    BY <2>1 DEF IInv, ProgressInv, Accounted
<1> QED
  BY <1>1, Invariance, PTL
-----------------------------------------------------------------------------
(* The consumer implements EventDelivery.                                  *)

\* When nothing is done, given up or skipped, outcomes stay.
LEMMA SameOutcomes == UNCHANGED outcomeVars => UNCHANGED outcome
  BY DEF outcomeVars, outcome, Outcome

\* A session of a group without a commit gives up what was published before it.
LEMMA SessionDelivers == IInv /\ (Start \/ Rebalance) => [Delivery!Next]_outcome
<1> SUFFICES ASSUME IInv, Start \/ Rebalance PROVE [Delivery!Next]_outcome
  OBVIOUS
<1>1. UNCHANGED <<done, gaveUp>> /\ TypeOK
  BY DEF Start, Rebalance, SessionStarts, IInv
<1>2. CASE skipped' = skipped
  BY <1>1, <1>2 DEF outcome, Outcome
<1>3. CASE skipped' # skipped
  <2>1. skipped' = skipped \union 1 .. produced
    BY <1>3 DEF Start, Rebalance, SessionStarts
  <2>2. produced \in Posts
    <3>1. produced \in 0 .. MaxEvents
      BY <1>1 DEF TypeOK
    <3>2. produced # 0
      BY <1>3, <2>1
    <3> QED
      BY <3>1, <3>2, FanoutAssumption DEF Posts
  <2>3. ASSUME NEW e \in Posts
        PROVE  Outcome(e)' = IF e <= produced /\ Outcome(e) = "pending"
                             THEN "dropped" ELSE Outcome(e)
    <3>1. e \in 1 .. produced <=> e <= produced
      BY <2>2 DEF Posts
    <3> QED
      BY <1>1, <2>1, <3>1 DEF Outcome
  <2>4. Delivery!GiveUpTo(produced)
    BY <2>3 DEF Delivery!GiveUpTo, outcome
  <2> QED
    BY <2>2, <2>4 DEF Delivery!Next
<1> QED
  BY <1>2, <1>3

\* Giving up the post in hand, or finishing its fan-out, settles it at most
\* once more, when everything before it is settled.
LEMMA HandDelivers == IInv /\ (Fetch \/ LookUpFails \/ Handled) => [Delivery!Next]_outcome
<1> SUFFICES ASSUME IInv, Fetch \/ LookUpFails \/ Handled PROVE [Delivery!Next]_outcome
  OBVIOUS
<1>0. /\ current' \in Posts
      /\ \A e \in Posts : e < current' => Settled(e)
  <2>1. CASE Fetch
    <3>1. /\ ~ InHand /\ pc # "stopped" /\ current' = position + 1 /\ position + 1 <= produced
          /\ position \in 0 .. produced /\ produced \in 0 .. MaxEvents
      BY <2>1 DEF IInv, TypeOK, InHand, Fetch
    <3> QED
      BY <3>1, FanoutAssumption DEF IInv, ProgressInv, Accounted, Posts
  <2>2. CASE LookUpFails \/ Handled
    <3>1. InHand /\ current' = current
      BY <2>2 DEF InHand, LookUpFails, Handled, handVars
    <3>2. current \in 1 .. produced /\ produced \in 0 .. MaxEvents
      BY <3>1 DEF IInv, TypeOK, ProgressInv
    <3> QED
      BY <3>1, <3>2, FanoutAssumption DEF IInv, ProgressInv, Accounted, Posts
  <2> QED
    BY <2>1, <2>2
<1>1. PICK c \in Posts : c = current'
  BY <1>0
<1>2. /\ skipped' = skipped
      /\ \/ done' = done /\ gaveUp' = gaveUp
         \/ done' = done /\ gaveUp' = gaveUp \union {c}
         \/ done' = done \union {c} /\ gaveUp' = gaveUp
  BY <1>1 DEF Fetch, LookUpFails, Handled, handVars
<1>3. ASSUME NEW e \in Posts, e # c PROVE Outcome(e)' = Outcome(e)
  BY <1>2, <1>3 DEF Outcome
<1>4. /\ Outcome(c) \in {"pending", "dropped", "delivered"}
      /\ Outcome(c)' \in {"pending", "dropped", "delivered"}
      /\ outcome[c] = Outcome(c)
  BY DEF Outcome, outcome
<1>5. \/ Outcome(c)' = Outcome(c)
      \/ Delivery!Rank[Outcome(c)'] > Delivery!Rank[Outcome(c)]
  <2>1. /\ Delivery!Rank["pending"] = 0 /\ Delivery!Rank["dropped"] = 1
        /\ Delivery!Rank["delivered"] = 3
    BY DEF Delivery!Rank, Delivery!Outcomes
  <2>2. CASE c \in done
    BY <1>2, <2>2 DEF Outcome
  <2>3. CASE c \notin done /\ c \in gaveUp \union skipped
    BY <1>2, <2>1, <2>3 DEF Outcome
  <2>4. CASE c \notin done \union gaveUp \union skipped
    BY <1>4, <2>1, <2>4 DEF Outcome
  <2> QED
    BY <2>2, <2>3, <2>4
<1>6. Delivery!EarlierSettled(c)
  <2>1. \A e \in Posts : e < c => Outcome(e) # "pending"
    BY <1>0, <1>1 DEF Settled, Outcome
  <2> QED
    BY <2>1 DEF Delivery!EarlierSettled, outcome
<1>7. outcome' = [outcome EXCEPT ![c] = Outcome(c)']
  BY <1>3 DEF outcome
<1>8. CASE Outcome(c)' = Outcome(c)
  <2>1. \A e \in Posts : Outcome(e)' = Outcome(e)
    BY <1>3, <1>8
  <2> QED
    BY <2>1 DEF outcome
<1>9. CASE Outcome(c)' # Outcome(c)
  <2>1. Outcome(c)' \in Delivery!Outcomes
    BY <1>4 DEF Delivery!Outcomes
  <2>2. Delivery!Settle(c)
    BY <1>4, <1>5, <1>6, <1>7, <1>9, <2>1 DEF Delivery!Settle
  <2> QED
    BY <2>2 DEF Delivery!Next
<1> QED
  BY <1>8, <1>9

\* Every behaviour of the fan-out is one of EventDelivery, through the mapping
\* outcome: Init maps to its Init, every step to a step or a stutter.
THEOREM ImplementsDelivery == Spec => DeliversInOrder
<1>1. Init => Delivery!Init
  BY DEF Init, Delivery!Init, outcome, Outcome
<1>2. IInv /\ [Next]_vars => [Delivery!Next]_outcome
  <2>1. ASSUME \/ Publish \/ Crash \/ Cancel \/ Closed \/ FetchFails \/ LookUp
               \/ CommitMessages \/ UNCHANGED vars
               \/ \E u \in Users, a \in Authors : Follow(u, a) \/ Unfollow(u, a)
               \/ \E u \in Users : AddFeedItem(u) \/ AddFails(u)
        PROVE  UNCHANGED outcome
    <3>1. UNCHANGED outcomeVars
      BY <2>1 DEF Publish, Crash, Cancel, Closed, FetchFails, LookUp, CommitMessages, Commit,
                  CommitCancelled, CommitFails, Follow, Unfollow, AddFeedItem, AddFails, vars
    <3> QED
      BY <3>1, SameOutcomes
  <2> QED
    BY <2>1, SessionDelivers, HandDelivers DEF Next, Run, FollowerIDs, FanOut
<1> QED
  BY <1>1, <1>2, Invariance, PTL DEF Spec, DeliversInOrder, Delivery!Spec
-----------------------------------------------------------------------------
(* A feed holds the newest of everything ever added to it.                 *)

KeepsNewest(S, D) ==
    /\ S \subseteq D
    /\ Cardinality(D) <= maxFeedItems => S = D
    /\ Cardinality(D) >= maxFeedItems => Cardinality(S) = maxFeedItems
    /\ \A e \in S, f \in D \ S : rank[f] < rank[e]

\* Posts are ordered: no two have the same place in a feed.
Ordered ==
    /\ rank \in [Posts -> Posts]
    /\ \A e, f \in Posts : rank[e] = rank[f] => e = f

\* Sets of posts are finite, and count no more than a set that contains them.
LEMMA PostSets ==
    ASSUME NEW S \in SUBSET Posts
    PROVE  /\ IsFiniteSet(S) /\ Cardinality(S) \in Nat
           /\ \A T \in SUBSET S :
                 /\ Cardinality(T) \in Nat /\ Cardinality(T) <= Cardinality(S)
                 /\ Cardinality(T) = Cardinality(S) => T = S
           /\ \A e \in S : Cardinality(S \ {e}) = Cardinality(S) - 1
           /\ \A e \in Posts \ S : Cardinality(S \union {e}) = Cardinality(S) + 1
<1>1. IsFiniteSet(Posts)
  BY FS_Interval, FanoutAssumption DEF Posts
<1>2. IsFiniteSet(S)
  BY <1>1, FS_Subset
<1>3. Cardinality(S) \in Nat
  BY <1>2, FS_CardinalityType
<1>4. \A T \in SUBSET S :
        /\ Cardinality(T) \in Nat /\ Cardinality(T) <= Cardinality(S)
        /\ Cardinality(T) = Cardinality(S) => T = S
  BY <1>2, FS_Subset, FS_CardinalityType
<1>5. \A e \in S : Cardinality(S \ {e}) = Cardinality(S) - 1
  BY <1>2, FS_RemoveElement
<1>6. \A e \in Posts \ S : Cardinality(S \union {e}) = Cardinality(S) + 1
  BY <1>2, FS_AddElement
<1> QED
  BY <1>2, <1>3, <1>4, <1>5, <1>6

\* A feed that is not over the limit is not trimmed.
LEMMA TrimKeepsAll ==
    ASSUME NEW S \in SUBSET Posts, Cardinality(S) <= maxFeedItems, Ordered
    PROVE  Trim(S) = S
<1> SUFFICES ASSUME NEW e \in S
             PROVE  Cardinality({f \in S : rank[f] > rank[e]}) < maxFeedItems
  BY DEF Trim
<1> DEFINE T == {f \in S : rank[f] > rank[e]}
<1>1. rank[e] \in Nat
  BY DEF Ordered, Posts
<1>2. T \in SUBSET S /\ e \notin T
  BY <1>1
<1>3. Cardinality(T) \in Nat /\ Cardinality(T) <= Cardinality(S) /\ Cardinality(S) \in Nat
      /\ Cardinality(T) # Cardinality(S)
  <2> HIDE DEF T
  <2> QED
    BY <1>2, PostSets
<1> QED
  BY <1>3, FanoutAssumption

\* Some post of a feed is the oldest.
LEMMA OldestExists ==
    ASSUME NEW S \in SUBSET Posts, S # {}, Ordered
    PROVE  \E e \in S : \A f \in S : f # e => rank[f] > rank[e]
<1> DEFINE Places == {rank[f] : f \in S}
<1>1. Places \subseteq Nat /\ Places # {}
  BY DEF Ordered, Posts
<1>2. \E p \in Places : \A q \in Places : ~ (<<q, p>> \in OpToRel(<, Nat))
  <2> HIDE DEF Places
  <2> QED
    BY <1>1, WFMin, NatLessThanWellFounded, Zenon
<1>3. \E p \in Places : \A q \in Places : ~ (q < p)
  BY <1>1, <1>2 DEF OpToRel
<1>4. PICK e \in S : \A f \in S : ~ (rank[f] < rank[e])
  BY <1>3
<1>5. \A f \in S : rank[f] \in Nat /\ (f # e => rank[f] # rank[e])
  BY DEF Ordered, Posts
<1> QED
  BY <1>4, <1>5

\* A feed one over the limit loses its oldest post, and no other.
LEMMA TrimDropsOldest ==
    ASSUME NEW S \in SUBSET Posts, Cardinality(S) = maxFeedItems + 1, Ordered
    PROVE  \E o \in S : Trim(S) = S \ {o} /\ \A f \in S \ {o} : rank[f] > rank[o]
<1>0. maxFeedItems \in Nat \ {0}
  BY FanoutAssumption
<1>1. S # {}
  BY <1>0, FS_EmptySet
<1>2. PICK o \in S : \A f \in S : f # o => rank[f] > rank[o]
  BY <1>1, OldestExists
<1>3. ASSUME NEW e \in S
      PROVE  Cardinality({f \in S : rank[f] > rank[e]}) < maxFeedItems <=> e # o
  <2> DEFINE T == {f \in S : rank[f] > rank[e]}
  <2>0. \A f \in S : rank[f] \in Nat
    BY DEF Ordered, Posts
  <2>1. CASE e = o
    <3>1. T = S \ {o}
      BY <1>2, <2>0, <2>1
    <3>2. Cardinality(T) = maxFeedItems
      BY <3>1, <1>0, PostSets
    <3> QED
      BY <2>1, <3>2, <1>0
  <2>2. CASE e # o
    <3>1. T \in SUBSET (S \ {e}) /\ o \in S \ {e} /\ o \notin T
      BY <1>2, <2>0, <2>2
    <3>2. Cardinality(S \ {e}) = maxFeedItems
      BY <1>0, PostSets
    <3>3. Cardinality(T) \in Nat /\ Cardinality(T) <= maxFeedItems /\ Cardinality(T) # maxFeedItems
      <4> DEFINE R == S \ {e}
      <4> HIDE DEF T, R
      <4>1. R \in SUBSET Posts
        BY DEF R
      <4>2. T \in SUBSET R /\ T # R /\ Cardinality(R) = maxFeedItems
        BY <3>1, <3>2 DEF R
      <4> QED
        BY <4>1, <4>2, PostSets
    <3> QED
      BY <2>2, <3>3, <1>0
  <2> QED
    BY <2>1, <2>2
<1>4. Trim(S) = S \ {o}
  BY <1>3 DEF Trim
<1> QED
  BY <1>2, <1>4

\* Adding a post and trimming keeps the newest, whether the post is new, old
\* enough to go at once, or one that was there or trimmed before.
LEMMA AddKeepsNewest ==
    ASSUME NEW D \in SUBSET Posts, NEW S, NEW c \in Posts, KeepsNewest(S, D), Ordered
    PROVE  KeepsNewest(Trim(S \union {c}), D \union {c})
<1> DEFINE S1 == S \union {c}
           D1 == D \union {c}
<1>0. /\ maxFeedItems \in Nat \ {0} /\ S \in SUBSET D /\ S \in SUBSET Posts
      /\ S1 \in SUBSET D1 /\ D1 \in SUBSET Posts /\ S1 \in SUBSET Posts
      /\ \A f \in Posts : rank[f] \in Nat
  BY FanoutAssumption DEF KeepsNewest, Ordered, Posts
<1>1. /\ Cardinality(D) \in Nat /\ Cardinality(S) \in Nat
      /\ Cardinality(D1) \in Nat /\ Cardinality(S1) \in Nat
      /\ Cardinality(D) <= Cardinality(D1)
  <2>1. D \in SUBSET D1
    OBVIOUS
  <2> QED
    BY <1>0, <2>1, PostSets
<1>2. /\ c \in S => S1 = S
      /\ c \notin S => Cardinality(S1) = Cardinality(S) + 1
      /\ c \in D => D1 = D
      /\ c \notin D => Cardinality(D1) = Cardinality(D) + 1
  BY <1>0, PostSets
<1>3. CASE Cardinality(D1) <= maxFeedItems
  <2>1. S = D
    BY <1>0, <1>1, <1>3 DEF KeepsNewest
  <2>2. Trim(S1) = D1
    BY <1>0, <1>3, <2>1, TrimKeepsAll
  <2> QED
    BY <1>0, <1>1, <1>3, <2>2 DEF KeepsNewest
<1>4. CASE Cardinality(D1) > maxFeedItems
  <2>1. Cardinality(D) >= maxFeedItems /\ Cardinality(S) = maxFeedItems
    <3>1. Cardinality(D1) = Cardinality(D) \/ Cardinality(D1) = Cardinality(D) + 1
      BY <1>2
    <3>2. Cardinality(D) >= maxFeedItems
      <4> HIDE DEF S1, D1
      <4> QED
        BY <1>0, <1>1, <1>4, <3>1
    <3> QED
      BY <3>2 DEF KeepsNewest
  <2>2. CASE c \in S
    <3>1. S1 = S /\ D1 = D
      BY <1>0, <2>2
    <3>2. Trim(S1) = S
      BY <1>0, <2>1, <3>1, TrimKeepsAll
    <3> QED
      BY <3>1, <3>2
  <2>3. CASE c \notin S
    <3>1. PICK o \in S1 : Trim(S1) = S1 \ {o} /\ \A f \in S1 \ {o} : rank[f] > rank[o]
      BY <1>0, <1>2, <2>1, <2>3, TrimDropsOldest
    <3>2. Cardinality(Trim(S1)) = maxFeedItems
      <4>1. Cardinality(S1 \ {o}) = Cardinality(S1) - 1
        BY <1>0, PostSets
      <4> QED
        BY <1>0, <1>2, <2>1, <2>3, <3>1, <4>1
    <3>3. ASSUME NEW e \in Trim(S1), NEW f \in D1 \ Trim(S1) PROVE rank[f] < rank[e]
      <4>1. e \in S1 /\ rank[o] < rank[e] /\ e \in Posts /\ f \in Posts /\ o \in Posts
        BY <1>0, <3>1
      <4>2. CASE f = o
        BY <4>1, <4>2
      <4>3. CASE f # o
        <5>1. f \in D \ S
          BY <3>1, <4>3
        <5>2. CASE e \in S
          BY <5>1, <5>2 DEF KeepsNewest
        <5>3. CASE e \notin S
          <6>1. e = c /\ o \in S
            BY <3>1, <4>1, <5>3
          <6>2. rank[f] < rank[o]
            BY <5>1, <6>1 DEF KeepsNewest
          <6> QED
            BY <1>0, <4>1, <6>2
        <5> QED
          BY <5>2, <5>3
      <4> QED
        BY <4>2, <4>3
    <3>4. Trim(S1) \subseteq D1
      BY <1>0, <3>1
    <3> QED
      BY <1>0, <1>4, <1>1, <3>2, <3>3, <3>4 DEF KeepsNewest
  <2> QED
    BY <2>2, <2>3
<1> QED
  BY <1>0, <1>1, <1>3, <1>4

\* Every feed holds the newest maxFeedItems of the posts ever added to it,
\* whatever the order they came in and however often.
THEOREM FeedsKeepNewest == Spec => []FeedKeepsNewest
<1> DEFINE FInv == Ordered /\ \A u \in Users : KeepsNewest(feed[u], delivered[u])
<1>1. Init => FInv
  <2> SUFFICES ASSUME Init PROVE FInv
    OBVIOUS
  <2>1. Cardinality({}) = 0
    BY FS_EmptySet
  <2> QED
    BY <2>1, FanoutAssumption DEF Init, Ordered, KeepsNewest
<1>2. TypeOK /\ TypeOK' /\ FInv /\ [Next]_vars => FInv'
  <2> SUFFICES ASSUME TypeOK, TypeOK', FInv, [Next]_vars PROVE FInv'
    OBVIOUS
  <2>1. rank' = rank
    BY DEF Next, Publish, Follow, Unfollow, Start, Rebalance, SessionStarts, Crash, Cancel,
       Closed, Run, Fetch, FetchFails, FollowerIDs, LookUp, LookUpFails, FanOut, Handled,
       AddFeedItem, AddFails, CommitMessages, Commit, CommitCancelled, CommitFails,
       vars, logVars
  <2>2. \/ UNCHANGED <<feed, delivered>>
        \/ \E u \in Users : pc = "adding" /\ AddedTo(u)
    BY DEF Next, Publish, Follow, Unfollow, Start, Rebalance, SessionStarts, Crash, Cancel,
       Closed, Run, Fetch, FetchFails, FollowerIDs, LookUp, LookUpFails, FanOut, Handled,
       AddFeedItem, AddFails, CommitMessages, Commit, CommitCancelled, CommitFails,
       vars, feedVars
  <2>3. CASE UNCHANGED <<feed, delivered>>
    BY <2>1, <2>3 DEF Ordered, KeepsNewest
  <2>4. ASSUME NEW v \in Users, pc = "adding", AddedTo(v) PROVE FInv'
    <3> SUFFICES ASSUME NEW u \in Users PROVE KeepsNewest(feed'[u], delivered'[u])
      BY <2>1 DEF Ordered, KeepsNewest
    <3>1. current \in Posts /\ feed \in [Users -> SUBSET Posts] /\ delivered \in [Users -> SUBSET Posts]
      BY <2>4 DEF TypeOK
    <3>2. CASE u # v
      BY <2>4, <3>1, <3>2 DEF AddedTo
    <3>3. CASE u = v
      <4>1. /\ feed'[u] = Trim(feed[u] \union {current})
            /\ delivered'[u] = delivered[u] \union {current}
            /\ delivered[u] \in SUBSET Posts
        BY <2>4, <3>1, <3>3 DEF AddedTo
      <4> QED
        BY <3>1, <4>1, AddKeepsNewest
    <3> QED
      BY <3>2, <3>3
  <2> QED
    BY <2>2, <2>3, <2>4
<1>3. FInv => FeedKeepsNewest
  BY DEF KeepsNewest, FeedKeepsNewest
<1> HIDE DEF FInv
<1> QED
  BY <1>1, <1>2, <1>3, TypeCorrect, PTL DEF Spec
=============================================================================
