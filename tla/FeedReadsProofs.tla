---------------------------- MODULE FeedReadsProofs ----------------------------
(***************************************************************************)
(* FeedReads for any requests, users and number of changes: its type       *)
(* invariant, AnswersAreReal and ServedOnceServedAlways.  The second part  *)
(* is about ServiceLifecycle.                                              *)
(*                                                                         *)
(* IInv adds to them where each entry of the map comes from, that a user   *)
(* who was served has an entry, and that a request that counts on it can   *)
(* only meet its absence after a restart, which ends the request as well.  *)
(***************************************************************************)
EXTENDS FeedReads, ServiceLifecycle, TLAPS

Underway == {"reading", "saving", "falling"}

BeganBefore == \A r \in Requests : began[r] <= feed[UserOf[r]]

ReadsAreReal ==
    \A r \in Requests : pc[r] \in {"saving", "fresh"} =>
        began[r] <= items[r] /\ items[r] <= feed[UserOf[r]]

\* An entry of the map is what a fresh answer of its user was.
Origin(u) ==
    \E q \in Requests : UserOf[q] = u /\ pc[q] = "fresh" /\ items[q] = fallback[u]

EntriesAreReal == \A u \in Users : fallback[u] # Absent => Origin(u)

StaleAreReal ==
    \A r \in Requests : pc[r] = "stale" =>
        \E q \in Requests : UserOf[q] = UserOf[r] /\ pc[q] = "fresh" /\ items[q] = items[r]

ServedHaveEntries == \A u \in served : fallback[u] # Absent

EntitledAreServed ==
    \A r \in entitled : pc[r] # "new" /\ (pc[r] \in Underway => UserOf[r] \in served)

IInv ==
    /\ TypeOK
    /\ BeganBefore
    /\ ReadsAreReal
    /\ EntriesAreReal
    /\ StaleAreReal
    /\ ServedHaveEntries
    /\ EntitledAreServed
    /\ ServedOnceServedAlways

-----------------------------------------------------------------------------
LEMMA InitIInv == Init => IInv
<1> SUFFICES ASSUME Init PROVE IInv
  OBVIOUS
<1> USE ReadsAssumption DEF Init, Absent
<1>1. TypeOK
  BY DEF TypeOK
<1>2. BeganBefore /\ ReadsAreReal
  BY DEF BeganBefore, ReadsAreReal
<1>3. EntriesAreReal /\ StaleAreReal
  BY DEF EntriesAreReal, StaleAreReal
<1>4. ServedHaveEntries /\ EntitledAreServed /\ ServedOnceServedAlways
  BY DEF ServedHaveEntries, EntitledAreServed, ServedOnceServedAlways
<1> QED
  BY <1>1, <1>2, <1>3, <1>4 DEF IInv

\* Every step keeps the types.
LEMMA TypeStep == TypeOK /\ [Next]_vars => TypeOK'
<1> SUFFICES ASSUME TypeOK, [Next]_vars PROVE TypeOK'
  OBVIOUS
<1> USE ReadsAssumption DEF TypeOK, Absent, requestVars
<1>1. ASSUME NEW u \in Users, AddFeedItem(u) PROVE TypeOK'
  BY <1>1 DEF AddFeedItem
<1>2. ASSUME NEW r \in Requests, Begin(r) PROVE TypeOK'
  BY <1>2 DEF Begin
<1>3. ASSUME NEW r \in Requests, Read(r) PROVE TypeOK'
  BY <1>3 DEF Read
<1>4. ASSUME NEW r \in Requests, ReadFails(r) PROVE TypeOK'
  BY <1>4 DEF ReadFails
<1>5. ASSUME NEW r \in Requests, Save(r) PROVE TypeOK'
  BY <1>5 DEF Save
<1>6. ASSUME NEW r \in Requests, FallBack(r) PROVE TypeOK'
  <2>1. UserOf[r] \in Users
    OBVIOUS
  <2>2. fallback[UserOf[r]] # Absent => fallback[UserOf[r]] \in Nat
    BY <2>1
  <2> QED
    BY <1>6, <2>2 DEF FallBack
<1>7. ASSUME Restart PROVE TypeOK'
  BY <1>7 DEF Restart
<1>8. CASE UNCHANGED vars
  BY <1>8 DEF vars
<1> QED
  BY <1>1, <1>2, <1>3, <1>4, <1>5, <1>6, <1>7, <1>8 DEF Next, GetFeed

\* What was fresh or stale stays so, with the items it has: no step touches a
\* request that has been answered.
LEMMA AnswersStay ==
    ASSUME TypeOK, [Next]_vars, NEW q \in Requests, pc[q] \in {"fresh", "stale"}
    PROVE  pc'[q] = pc[q] /\ items'[q] = items[q]
<1> USE ReadsAssumption DEF TypeOK, requestVars
<1>1. ASSUME NEW u \in Users, AddFeedItem(u) PROVE pc'[q] = pc[q] /\ items'[q] = items[q]
  BY <1>1 DEF AddFeedItem
<1>2. ASSUME NEW r \in Requests, Begin(r) \/ Read(r) \/ ReadFails(r)
      PROVE  pc'[q] = pc[q] /\ items'[q] = items[q]
  BY <1>2 DEF Begin, Read, ReadFails
<1>3. ASSUME NEW r \in Requests, Save(r) \/ FallBack(r)
      PROVE  pc'[q] = pc[q] /\ items'[q] = items[q]
  BY <1>3 DEF Save, FallBack
<1>4. ASSUME Restart PROVE pc'[q] = pc[q] /\ items'[q] = items[q]
  BY <1>4 DEF Restart
<1>5. CASE UNCHANGED vars
  BY <1>5 DEF vars
<1> QED
  BY <1>1, <1>2, <1>3, <1>4, <1>5 DEF Next, GetFeed

\* Feeds only become newer, so what a request read stays below them.
LEMMA ReadsStep ==
    TypeOK /\ BeganBefore /\ ReadsAreReal /\ [Next]_vars => BeganBefore' /\ ReadsAreReal'
<1> SUFFICES ASSUME TypeOK, BeganBefore, ReadsAreReal, [Next]_vars,
                    NEW q \in Requests
             PROVE  /\ began'[q] <= feed'[UserOf[q]]
                    /\ pc'[q] \in {"saving", "fresh"} =>
                          began'[q] <= items'[q] /\ items'[q] <= feed'[UserOf[q]]
  BY DEF BeganBefore, ReadsAreReal
<1> DEFINE Goal ==
        /\ began'[q] <= feed'[UserOf[q]]
        /\ pc'[q] \in {"saving", "fresh"} =>
              began'[q] <= items'[q] /\ items'[q] <= feed'[UserOf[q]]
<1>0. /\ UserOf[q] \in Users /\ feed[UserOf[q]] \in Nat
      /\ began[q] \in Nat /\ items[q] \in Nat
      /\ began[q] <= feed[UserOf[q]]
      /\ pc[q] \in {"saving", "fresh"} =>
            began[q] <= items[q] /\ items[q] <= feed[UserOf[q]]
  BY ReadsAssumption DEF TypeOK, BeganBefore, ReadsAreReal
<1>1. ASSUME NEW u \in Users, AddFeedItem(u) PROVE Goal
  <2>1. feed'[UserOf[q]] \in {feed[UserOf[q]], feed[UserOf[q]] + 1}
    BY <1>0, <1>1 DEF AddFeedItem, TypeOK
  <2> QED
    BY <1>0, <1>1, <2>1 DEF AddFeedItem, requestVars
<1>2. ASSUME NEW r \in Requests, Begin(r) PROVE Goal
  BY <1>0, <1>2 DEF Begin, TypeOK
<1>3. ASSUME NEW r \in Requests, Read(r) PROVE Goal
  BY <1>0, <1>3 DEF Read, TypeOK
<1>4. ASSUME NEW r \in Requests, ReadFails(r) PROVE Goal
  BY <1>0, <1>4 DEF ReadFails, TypeOK
<1>5. ASSUME NEW r \in Requests, Save(r) PROVE Goal
  BY <1>0, <1>5 DEF Save, TypeOK
<1>6. ASSUME NEW r \in Requests, FallBack(r) PROVE Goal
  BY <1>0, <1>6 DEF FallBack, TypeOK
<1>7. ASSUME Restart PROVE Goal
  BY <1>0, <1>7 DEF Restart, TypeOK
<1>8. CASE UNCHANGED vars
  BY <1>0, <1>8 DEF vars, requestVars
<1> QED
  BY <1>1, <1>2, <1>3, <1>4, <1>5, <1>6, <1>7, <1>8 DEF Next, GetFeed

\* Save is the only step that makes an entry, and its request is the origin.
LEMMA EntriesStep ==
    TypeOK /\ EntriesAreReal /\ [Next]_vars => EntriesAreReal'
<1> SUFFICES ASSUME TypeOK, EntriesAreReal, [Next]_vars,
                    NEW u \in Users, fallback'[u] # Absent
             PROVE  \E q \in Requests : /\ UserOf[q] = u
                                        /\ pc'[q] = "fresh"
                                        /\ items'[q] = fallback'[u]
  BY DEF EntriesAreReal, Origin
<1>1. CASE fallback'[u] = fallback[u]
  <2>1. PICK q \in Requests : UserOf[q] = u /\ pc[q] = "fresh" /\ items[q] = fallback[u]
    BY <1>1 DEF EntriesAreReal, Origin
  <2>2. pc'[q] = pc[q] /\ items'[q] = items[q]
    BY <2>1, AnswersStay
  <2> QED
    BY <1>1, <2>1, <2>2
<1>2. ASSUME NEW r \in Requests, Save(r), fallback'[u] # fallback[u]
      PROVE  /\ UserOf[r] = u
             /\ pc'[r] = "fresh"
             /\ items'[r] = fallback'[u]
  BY <1>2, ReadsAssumption DEF Save, TypeOK
<1>3. CASE fallback'[u] # fallback[u]
  <2>1. ~ Restart
    BY DEF Restart
  <2>2. ~ \E v \in Users : AddFeedItem(v)
    BY <1>3 DEF AddFeedItem
  <2>3. ~ \E r \in Requests : Begin(r) \/ Read(r) \/ ReadFails(r) \/ FallBack(r)
    BY <1>3 DEF Begin, Read, ReadFails, FallBack
  <2>4. PICK r \in Requests : Save(r)
    BY <1>3, <2>1, <2>2, <2>3 DEF Next, GetFeed, vars
  <2> QED
    BY <1>2, <1>3, <2>4
<1> QED
  BY <1>1, <1>3

\* FallBack is the only step that answers from the map.
LEMMA StaleStep ==
    TypeOK /\ EntriesAreReal /\ StaleAreReal /\ [Next]_vars => StaleAreReal'
<1> SUFFICES ASSUME TypeOK, EntriesAreReal, StaleAreReal, [Next]_vars,
                    NEW r \in Requests, pc'[r] = "stale"
             PROVE  \E q \in Requests : /\ UserOf[q] = UserOf[r]
                                        /\ pc'[q] = "fresh"
                                        /\ items'[q] = items'[r]
  BY DEF StaleAreReal
<1>1. ASSUME NEW q \in Requests, pc[q] = "fresh"
      PROVE  pc'[q] = "fresh" /\ items'[q] = items[q]
  BY <1>1, AnswersStay
<1>2. CASE pc[r] = "stale"
  <2>1. items'[r] = items[r]
    BY <1>2, AnswersStay
  <2>2. PICK q \in Requests : UserOf[q] = UserOf[r] /\ pc[q] = "fresh" /\ items[q] = items[r]
    BY <1>2 DEF StaleAreReal
  <2> QED
    BY <1>1, <2>1, <2>2
<1>3. CASE pc[r] # "stale"
  <2>1. ~ \E u \in Users : AddFeedItem(u)
    BY <1>3 DEF AddFeedItem, requestVars
  <2>2. ~ Restart /\ ~ UNCHANGED vars
    BY <1>3 DEF Restart, vars, requestVars
  <2>3. ~ \E q \in Requests : Begin(q) \/ Read(q) \/ ReadFails(q) \/ Save(q)
    BY <1>3 DEF Begin, Read, ReadFails, Save, TypeOK
  <2>4. PICK q \in Requests : FallBack(q)
    BY <2>1, <2>2, <2>3 DEF Next, GetFeed
  <2>5. q = r /\ fallback[UserOf[r]] # Absent /\ items'[r] = fallback[UserOf[r]]
    BY <1>3, <2>4 DEF FallBack, TypeOK
  <2>6. PICK p \in Requests :
            UserOf[p] = UserOf[r] /\ pc[p] = "fresh" /\ items[p] = fallback[UserOf[r]]
    BY <2>5, ReadsAssumption DEF EntriesAreReal, Origin
  <2> QED
    BY <1>1, <2>5, <2>6
<1> QED
  BY <1>2, <1>3

\* A request that may rely on the map finds its entry there.
LEMMA ServedStep ==
    /\ TypeOK
    /\ ServedHaveEntries
    /\ EntitledAreServed
    /\ ServedOnceServedAlways
    /\ [Next]_vars
    => ServedHaveEntries' /\ EntitledAreServed' /\ ServedOnceServedAlways'
<1> SUFFICES ASSUME TypeOK, ServedHaveEntries, EntitledAreServed, ServedOnceServedAlways,
                    [Next]_vars
             PROVE  ServedHaveEntries' /\ EntitledAreServed' /\ ServedOnceServedAlways'
  OBVIOUS
<1> USE ReadsAssumption
    DEF TypeOK, ServedHaveEntries, EntitledAreServed, ServedOnceServedAlways,
        Underway, requestVars
<1> DEFINE Goal == ServedHaveEntries' /\ EntitledAreServed' /\ ServedOnceServedAlways'
<1>1. ASSUME NEW u \in Users, AddFeedItem(u) PROVE Goal
  BY <1>1 DEF AddFeedItem
<1>2. ASSUME NEW r \in Requests, Begin(r) PROVE Goal
  <2>1. UNCHANGED <<fallback, served>> /\ \A q \in Requests \ {r} : pc'[q] = pc[q]
    BY <1>2 DEF Begin
  <2>2. pc'[r] \in {"refused", "reading"}
    BY <1>2 DEF Begin
  <2>3. /\ entitled' \subseteq entitled \union {r}
        /\ r \in entitled' => UserOf[r] \in served
    BY <1>2 DEF Begin
  <2> QED
    BY <2>1, <2>2, <2>3
<1>3. ASSUME NEW r \in Requests, Read(r) \/ ReadFails(r) PROVE Goal
  BY <1>3 DEF Read, ReadFails
<1>4. ASSUME NEW r \in Requests, Save(r) PROVE Goal
  BY <1>4 DEF Save, Absent
<1>5. ASSUME NEW r \in Requests, FallBack(r) PROVE Goal
  BY <1>5 DEF FallBack
<1>6. ASSUME Restart PROVE Goal
  BY <1>6 DEF Restart
<1>7. CASE UNCHANGED vars
  BY <1>7 DEF vars
<1> QED
  BY <1>1, <1>2, <1>3, <1>4, <1>5, <1>6, <1>7 DEF Next, GetFeed

LEMMA NextIInv == IInv /\ [Next]_vars => IInv'
BY TypeStep, ReadsStep, EntriesStep, StaleStep, ServedStep DEF IInv

LEMMA Invariant == Spec => []IInv
BY InitIInv, NextIInv, PTL DEF Spec

-----------------------------------------------------------------------------
\* Every variable keeps its type.
THEOREM TypeCorrect == Spec => []TypeOK
<1>1. IInv => TypeOK
  BY DEF IInv
<1> QED
  BY <1>1, Invariant, PTL

\* A fresh answer is what the user's own feed held at a moment of the request,
\* a stale one what an earlier request of that user was answered from Redis.
THEOREM AnswersReal == Spec => []AnswersAreReal
<1>1. IInv => AnswersAreReal
  BY DEF IInv, AnswersAreReal, ReadsAreReal, StaleAreReal
<1> QED
  BY <1>1, Invariant, PTL

\* Who was answered from Redis once is answered by this process ever after.
THEOREM AlwaysServed == Spec => []ServedOnceServedAlways
<1>1. IInv => ServedOnceServedAlways
  BY DEF IInv
<1> QED
  BY <1>1, Invariant, PTL

-----------------------------------------------------------------------------
(* ServiceLifecycle: the process around the requests of any service, of    *)
(* which FeedReads has no more than Restart.                               *)

Stages == {"new", "querying", "announcing", "publishing", "answered", "failed"}

\* A request is under way from the opening of the listener to its closing, and
\* after that only until main has seen the last one end or waited ten seconds.
DrainInv ==
    /\ listener = "none" => main \in {"serving", "exited"} /\ \A r \in Handlers : request[r] = "new"
    /\ listener = "open" => main = "serving"
    /\ timedOut => main \in {"waiting", "closing", "flushing", "exited"}
    /\ timedOut /\ service \in FatalTimeout => main = "exited" /\ closed = 0
    /\ main \in {"waiting", "closing", "flushing", "exited"} => timedOut \/ Active = {}

\* Pools are closed by an App.Close that has seen its consumers stop.
CloseInv ==
    /\ closed > 0 => main \in {"closing", "flushing", "exited"}
    /\ main \in {"closing", "flushing"} \/ closed > 0 =>
          \A c \in Consumers : consumer[c] = "stopped"

\* A request that met a closed pool had been given its ten seconds.
MetClosedPool ==
    \A r \in Handlers : request[r] = "failed" \/ r \in lost =>
        timedOut /\ service \notin FatalTimeout

\* The producer is the first pool, so that a main that is past it, or has none,
\* leaves no write to Kafka behind.
FlushInv ==
    /\ (main = "closing" /\ closed > 0) \/ (main = "exited" /\ service \notin FatalTimeout) =>
          \A r \in Handlers : request[r] # "publishing"
    /\ service \notin {"users", "posts"} =>
          \A r \in Handlers : request[r] \notin {"announcing", "publishing"}

LifecycleInv ==
    /\ LifecycleTypeOK
    /\ DrainInv
    /\ CloseInv
    /\ MetClosedPool
    /\ FlushInv

\* Every service has a finite list of pools, maybe an empty one; two have a
\* producer, and it comes first.
LEMMA PoolsListed ==
    ASSUME NEW s \in Services
    PROVE  /\ Len(Closes(s)) \in Nat
           /\ \A i \in DOMAIN Closes(s) :
                 Closes(s)[i] = "producer" => s \in {"users", "posts"}
           /\ s \in {"users", "posts"} => Closes(s)[1] = "producer"
<1>1. CASE s \in {"users", "posts"}
  <2>1. Closes(s) = <<"producer", "db">>
    BY <1>1 DEF Closes
  <2> QED
    BY <1>1, <2>1
<1>2. CASE s = "feed"
  <2>1. Closes(s) = <<"follower", "post">>
    BY <1>2 DEF Closes
  <2> QED
    BY <1>2, <2>1
<1>3. CASE s = "notification"
  <2>1. Closes(s) = <<"follower", "interact", "db">>
    BY <1>3 DEF Closes
  <2> QED
    BY <1>3, <2>1
<1>4. CASE s \in {"gateway", "auth"}
  <2>1. Closes(s) = << >>
    BY <1>4 DEF Closes
  <2> QED
    BY <1>4, <2>1
<1> QED
  BY <1>1, <1>2, <1>3, <1>4 DEF Services

\* No pool is closed before the first.
LEMMA NoneClosed == closed = 0 => ClosedPools = {}
  BY DEF ClosedPools

\* Those two have a producer, and it is closed as soon as anything is.
LEMMA ProducerFirst ==
    ASSUME LifecycleTypeOK
    PROVE  /\ "producer" \in Pools => service \in {"users", "posts"}
           /\ closed > 0 /\ "producer" \notin ClosedPools => service \notin {"users", "posts"}
<1>1. service \in Services /\ closed \in Nat
  BY PoolsListed DEF LifecycleTypeOK
<1>2. "producer" \in Pools => service \in {"users", "posts"}
  BY <1>1, PoolsListed DEF Pools
<1>3. closed > 0 => 1 \in 1 .. closed
  BY <1>1
<1>4. closed > 0 /\ service \in {"users", "posts"} => "producer" \in ClosedPools
  BY <1>1, <1>3, PoolsListed DEF ClosedPools
<1> QED
  BY <1>2, <1>4

LEMMA LifecycleStarts == LifecycleInit => LifecycleInv
<1> SUFFICES ASSUME LifecycleInit PROVE LifecycleInv
  OBVIOUS
<1> USE DEF LifecycleInit
<1>1. LifecycleTypeOK
  <2>1. closed \in 0 .. Len(Closes(service))
    BY PoolsListed
  <2> QED
    BY <2>1 DEF LifecycleTypeOK
<1>2. DrainInv /\ CloseInv /\ MetClosedPool /\ FlushInv
  BY DEF DrainInv, CloseInv, MetClosedPool, FlushInv
<1> QED
  BY <1>1, <1>2 DEF LifecycleInv

\* The listener and the handlers.
LEMMA ServerInv ==
    ASSUME LifecycleInv,
           \/ Listen \/ ListenFails
           \/ \E r \in Handlers : Accept(r) \/ Query(r) \/ Publish(r) \/ Written(r)
    PROVE  LifecycleInv'
<1> USE DEF LifecycleInv, Alive, processVars
<1>1. CASE Listen \/ ListenFails
  <2> USE <1>1 DEF Listen, ListenFails
  <2>1. LifecycleTypeOK'
    BY DEF LifecycleTypeOK
  <2>2. DrainInv'
    BY DEF LifecycleTypeOK, DrainInv, Active
  <2>3. CloseInv' /\ MetClosedPool' /\ FlushInv'
    BY DEF LifecycleTypeOK, DrainInv, CloseInv, MetClosedPool, FlushInv
  <2> QED
    BY <2>1, <2>2, <2>3
<1>2. ASSUME NEW r \in Handlers, Accept(r) PROVE LifecycleInv'
  <2> USE <1>2 DEF Accept
  <2>1. LifecycleTypeOK'
    BY DEF LifecycleTypeOK
  <2>2. DrainInv'
    BY DEF LifecycleTypeOK, DrainInv, Active
  <2>3. CloseInv' /\ MetClosedPool' /\ FlushInv'
    BY DEF LifecycleTypeOK, CloseInv, MetClosedPool, FlushInv
  <2> QED
    BY <2>1, <2>2, <2>3
<1>3. ASSUME NEW r \in Handlers, Query(r) \/ Publish(r) \/ Written(r) PROVE LifecycleInv'
  <2>1. /\ main # "exited" /\ request[r] \in {"querying", "announcing", "publishing"}
        /\ UNCHANGED <<service, listener, main, timedOut, consumer, closed>>
        /\ request' \in [Handlers -> Stages]
        /\ \A q \in Handlers : q # r => request'[q] = request[q]
        /\ lost' \subseteq lost \union {r}
    BY <1>3 DEF Query, AfterQuery, Publish, Written, LifecycleTypeOK, Stages
  <2>2. request'[r] = "failed" \/ (r \in lost' /\ r \notin lost) => closed > 0
    <3>1. closed \in Nat
      BY PoolsListed DEF LifecycleTypeOK
    <3>2. request'[r] = "failed" \/ (r \in lost' /\ r \notin lost) => ClosedPools # {}
      BY <1>3 DEF Query, AfterQuery, Publish, Written, LifecycleTypeOK
    <3> QED
      BY <3>1, <3>2, NoneClosed
  <2>3. LifecycleTypeOK'
    BY <2>1 DEF LifecycleTypeOK, Stages
  <2>4. r \in Active /\ Active' \subseteq Active
    BY <2>1 DEF Active
  <2>5. DrainInv' /\ CloseInv'
    BY <2>1, <2>4 DEF DrainInv, CloseInv
  <2>6. closed > 0 => timedOut /\ service \notin FatalTimeout
    BY <2>1, <2>4 DEF DrainInv, CloseInv
  <2>7. MetClosedPool'
    BY <2>1, <2>2, <2>6 DEF MetClosedPool
  <2>8. request'[r] \in {"announcing", "publishing"} => service \in {"users", "posts"}
    BY <1>3, ProducerFirst DEF Query, AfterQuery, Publish, Written, LifecycleTypeOK, FlushInv
  <2>9. closed > 0 => request'[r] # "publishing"
    <3>1. CASE Publish(r)
      BY <3>1, ProducerFirst DEF Publish, LifecycleTypeOK, FlushInv
    <3>2. CASE Query(r) \/ Written(r)
      BY <3>2 DEF Query, AfterQuery, Written, LifecycleTypeOK
    <3> QED
      BY <1>3, <3>1, <3>2
  <2>10. FlushInv'
    BY <2>1, <2>8, <2>9 DEF FlushInv
  <2> QED
    BY <2>3, <2>5, <2>7, <2>10
<1> QED
  BY <1>1, <1>2, <1>3

\* The consumers: a stopped one does not start again.
LEMMA ConsumerInv ==
    ASSUME LifecycleInv, NEW c \in Consumers,
           Fetch(c) \/ Handle(c) \/ Stop(c)
    PROVE  LifecycleInv'
<1> USE DEF LifecycleInv, processVars
<1>1. /\ UNCHANGED <<service, listener, main, timedOut, request, closed, lost>>
      /\ consumer[c] # "stopped"
      /\ consumer' \in [Consumers -> {"idle", "handling", "stopped"}]
  BY DEF Fetch, Handle, Stop, LifecycleTypeOK
<1>2. LifecycleTypeOK'
  BY <1>1 DEF LifecycleTypeOK
<1>3. DrainInv' /\ CloseInv' /\ MetClosedPool' /\ FlushInv'
  BY <1>1 DEF DrainInv, CloseInv, MetClosedPool, FlushInv, Active
<1> QED
  BY <1>2, <1>3

\* main, from the signal to its end.
LEMMA MainInv ==
    ASSUME LifecycleInv,
           Signal \/ Drained \/ ShutdownTimesOut \/ Close
    PROVE  LifecycleInv'
<1> USE DEF LifecycleInv, processVars
<1>0. service \in Services /\ closed \in Nat /\ Len(Closes(service)) \in Nat
  BY PoolsListed DEF LifecycleTypeOK
<1>1. CASE Signal
  <2> USE <1>1 DEF Signal
  <2>1. LifecycleTypeOK'
    BY DEF LifecycleTypeOK
  <2>2. DrainInv' /\ CloseInv' /\ MetClosedPool' /\ FlushInv'
    BY DEF DrainInv, CloseInv, MetClosedPool, FlushInv
  <2> QED
    BY <2>1, <2>2
<1>2. CASE Drained \/ ShutdownTimesOut
  <2> USE <1>2 DEF Drained, ShutdownTimesOut
  <2>1. LifecycleTypeOK'
    BY DEF LifecycleTypeOK
  <2>2. /\ main = "draining" /\ main' \in {"waiting", "exited"}
        /\ listener = "closed" /\ closed = 0
    BY <1>0 DEF DrainInv, CloseInv, LifecycleTypeOK
  <2>3. DrainInv' /\ CloseInv'
    BY <2>2 DEF DrainInv, CloseInv, Active
  <2>4. MetClosedPool' /\ FlushInv'
    BY <2>2 DEF DrainInv, MetClosedPool, FlushInv, Active
  <2> QED
    BY <2>1, <2>3, <2>4
<1>3. CASE ConsumersDone
  <2> USE <1>3 DEF ConsumersDone
  <2>1. LifecycleTypeOK'
    BY DEF LifecycleTypeOK
  <2>2. closed = 0
    BY <1>0 DEF CloseInv
  <2>3. DrainInv' /\ CloseInv' /\ MetClosedPool' /\ FlushInv'
    BY <2>2 DEF DrainInv, CloseInv, MetClosedPool, FlushInv, Active
  <2> QED
    BY <2>1, <2>3
<1>4. CASE ClosePool
  <2> USE <1>4 DEF ClosePool
  <2>1. LifecycleTypeOK'
    BY <1>0 DEF LifecycleTypeOK
  <2>2. DrainInv' /\ CloseInv' /\ MetClosedPool'
    BY <1>0 DEF DrainInv, CloseInv, MetClosedPool, Active
  <2>3. closed = 0 /\ main' = "closing" => service \notin {"users", "posts"}
    BY <1>0, PoolsListed
  <2>4. FlushInv'
    BY <1>0, <2>3 DEF FlushInv
  <2> QED
    BY <2>1, <2>2, <2>4
<1>5. CASE Flushed
  <2> USE <1>5 DEF Flushed
  <2>1. LifecycleTypeOK'
    BY DEF LifecycleTypeOK
  <2>2. DrainInv' /\ CloseInv' /\ MetClosedPool' /\ FlushInv'
    BY DEF DrainInv, CloseInv, MetClosedPool, FlushInv, Active
  <2> QED
    BY <2>1, <2>2
<1>6. CASE CloseFails \/ Exit
  <2> USE <1>6 DEF CloseFails, Exit
  <2>1. LifecycleTypeOK'
    BY DEF LifecycleTypeOK
  <2>2. DrainInv' /\ CloseInv' /\ MetClosedPool'
    BY DEF DrainInv, CloseInv, MetClosedPool, Active
  <2>3. service \in {"users", "posts"} => Len(Closes(service)) > 0
    <3>1. service \in {"users", "posts"} => Closes(service) = <<"producer", "db">>
      BY DEF Closes
    <3> QED
      BY <3>1
  <2>4. FlushInv'
    BY <1>0, <2>3 DEF FlushInv
  <2> QED
    BY <2>1, <2>2, <2>4
<1> QED
  BY <1>1, <1>2, <1>3, <1>4, <1>5, <1>6 DEF Close

LEMMA LifecycleInvariant == LifecycleSpec => []LifecycleInv
<1>1. LifecycleInv /\ UNCHANGED lifecycleVars => LifecycleInv'
  BY DEF lifecycleVars, processVars, LifecycleInv, LifecycleTypeOK, DrainInv, CloseInv,
         MetClosedPool, FlushInv, Active
<1>2. LifecycleInv /\ [LifecycleNext]_lifecycleVars => LifecycleInv'
  BY <1>1, ServerInv, ConsumerInv, MainInv DEF LifecycleNext
<1> QED
  BY <1>2, LifecycleStarts, PTL DEF LifecycleSpec

\* Every variable of a process keeps its type, and no more pools are closed than
\* its service has.
THEOREM LifecycleTypeCorrect == LifecycleSpec => []LifecycleTypeOK
<1>1. LifecycleInv => LifecycleTypeOK
  BY DEF LifecycleInv
<1> QED
  BY <1>1, LifecycleInvariant, PTL

\* App.Close closes nothing under a consumer, and requests only meet a closed
\* pool, or are cut off, when Shutdown's ten seconds were not enough for them; a
\* write to Kafka is cut off only where main treats that as fatal.
THEOREM PoolsInUseStayOpen == LifecycleSpec => []PoolsOutliveUse
<1>1. ASSUME LifecycleInv PROVE PoolsOutliveUse
  <2>1. ASSUME NEW c \in Consumers, consumer[c] # "stopped"
        PROVE  ClosedPools = {}
    BY <1>1, <2>1, NoneClosed, PoolsListed DEF LifecycleInv, CloseInv, LifecycleTypeOK
  <2>2. ASSUME NEW r \in Active, ~ Alive PROVE timedOut
    BY <1>1, <2>2 DEF LifecycleInv, DrainInv, Alive
  <2>3. ASSUME NEW r \in Handlers, request[r] = "publishing", ~ Alive
        PROVE  service \in FatalTimeout
    BY <1>1, <2>3 DEF LifecycleInv, FlushInv, Alive
  <2> QED
    BY <1>1, <2>1, <2>2, <2>3 DEF LifecycleInv, MetClosedPool, PoolsOutliveUse
<1> QED
  BY <1>1, LifecycleInvariant, PTL
=============================================================================
