----------------------- MODULE NotificationConsumerProofs -----------------------
(***************************************************************************)
(* What a notification consumer guarantees for a log of any length, any    *)
(* number of attempts and any number of crashes, restarts and rebalances,  *)
(* and that it implements EventDelivery.                                   *)
(***************************************************************************)
EXTENDS NotificationConsumer, TLAPS

InHand == pc \in {"trying", "waiting", "deadletter", "committing"}

\* Rows that event e can still get in this session: one if the reader has yet
\* to come to it, and one if it is in hand and not saved.
StillToCome(e) ==
    (IF pc # "stopped" /\ e > position THEN 1 ELSE 0)
    + (IF pc \in {"trying", "waiting"} /\ current = e THEN 1 ELSE 0)

\* The event in hand is one of the log; everything before it, and everything
\* the reader has gone past but the event in hand, is accounted for.
ProgressInv ==
    /\ InHand => current \in 1 .. produced /\ attempt \in 1 .. Attempts
    /\ pc = "waiting" => attempt < Attempts
    /\ InHand => \A e \in Events : e < current => Accounted(e)
    /\ pc = "committing" => Accounted(current)
    /\ pc # "stopped" =>
          \A e \in Events : e <= position => Accounted(e) \/ (InHand /\ e = current)
    /\ \A e \in Events : e <= committed => Accounted(e)

DuplicatesInv ==
    \A e \in Events : rows[e] + StillToCome(e) <= unacked[e] + sessions

IInv == TypeOK /\ ProgressInv /\ DuplicatesInv

-----------------------------------------------------------------------------
\* Nothing has been read or written yet.
LEMMA InitIInv == Init => IInv
<1> SUFFICES ASSUME Init PROVE IInv
  OBVIOUS
<1>1. TypeOK
  BY ConsumerAssumption DEF Init, TypeOK
<1>2. ProgressInv
  BY ConsumerAssumption DEF Init, ProgressInv, InHand, Events
<1>3. DuplicatesInv
  BY DEF Init, DuplicatesInv, StillToCome
<1> QED
  BY <1>1, <1>2, <1>3 DEF IInv

\* Producing, crashing and closing leave Run's event and the stores alone.
LEMMA EnvironmentIInv ==
    IInv /\ (Produce \/ Crash \/ Cancel \/ Closed \/ UNCHANGED vars) => IInv'
<1> SUFFICES ASSUME IInv, Produce \/ Crash \/ Cancel \/ Closed \/ UNCHANGED vars PROVE IInv'
  OBVIOUS
<1> USE ConsumerAssumption
    DEF IInv, Produce, Crash, Cancel, Closed, vars, logVars, groupVars, handVars, storeVars
<1>1. TypeOK'
  BY DEF TypeOK
<1>2. ProgressInv'
  BY DEF TypeOK, ProgressInv, InHand, Accounted
<1>3. DuplicatesInv'
  BY DEF TypeOK, DuplicatesInv, StillToCome
<1> QED
  BY <1>1, <1>2, <1>3

\* A new session rereads at most what is not committed, and passes over the
\* whole log if nothing is.
LEMMA SessionIInv == IInv /\ (Start \/ Rebalance) => IInv'
<1> SUFFICES ASSUME IInv, Start \/ Rebalance PROVE IInv'
  OBVIOUS
<1> USE ConsumerAssumption
    DEF IInv, Start, Rebalance, SessionStarts, StartPosition, logVars, handVars
<1>1. TypeOK'
  <2>1. position' \in 0 .. produced
    BY DEF TypeOK
  <2>2. skipped' \subseteq Events
    <3>1. produced \in 0 .. MaxEvents /\ skipped \subseteq Events
      BY DEF TypeOK
    <3>2. 1 .. produced \subseteq Events
      BY <3>1 DEF Events
    <3>3. skipped' = skipped \/ skipped' = skipped \union 1 .. produced
      OBVIOUS
    <3> QED
      BY <3>1, <3>2, <3>3
  <2>3. sessions' \in 0 .. MaxSessions /\ pc' \in {"fetching", "trying", "waiting", "deadletter", "committing"}
    BY DEF TypeOK
  <2> QED
    BY <2>1, <2>2, <2>3 DEF TypeOK
<1>2. ASSUME NEW e \in Events PROVE Accounted(e) => Accounted(e)'
  BY DEF Accounted
<1>3. ASSUME NEW e \in Events, e <= position' PROVE Accounted(e)'
  <2>1. CASE committed = 0
    <3>1. position' = produced /\ produced \in Nat /\ skipped' = skipped \union 1 .. produced
      BY <2>1 DEF TypeOK
    <3>2. e \in skipped'
      BY <1>3, <3>1 DEF Events
    <3> QED
      BY <3>2 DEF Accounted
  <2>2. CASE committed # 0
    BY <1>2, <1>3, <2>2 DEF ProgressInv
  <2> QED
    BY <2>1, <2>2
<1>4. ProgressInv'
  <2>1. /\ InHand' <=> InHand /\ pc # "fetching"
        /\ InHand' => pc' = pc
        /\ UNCHANGED <<current, attempt, produced, committed>>
    BY DEF InHand
  <2>2. (InHand => current \in 1 .. produced /\ attempt \in 1 .. Attempts)'
    BY <2>1 DEF ProgressInv
  <2>3. (pc = "waiting" => attempt < Attempts)'
    BY <2>1 DEF ProgressInv, InHand
  <2>4. (InHand => \A e \in Events : e < current => Accounted(e))'
    BY <1>2, <2>1 DEF ProgressInv, Events
  <2>5. (pc = "committing" => Accounted(current))'
    BY <2>1, <1>2 DEF ProgressInv, InHand, Accounted
  <2>6. (\A e \in Events : e <= committed => Accounted(e))'
    BY <1>2, <2>1 DEF ProgressInv, Events
  <2>7. (pc # "stopped" => \A e \in Events : e <= position => Accounted(e) \/ (InHand /\ e = current))'
    BY <1>3 DEF Events
  <2> QED
    BY <2>2, <2>3, <2>4, <2>5, <2>6, <2>7 DEF ProgressInv
<1>5. ASSUME NEW e \in Events PROVE (rows[e] + StillToCome(e) <= unacked[e] + sessions)'
  BY DEF TypeOK, DuplicatesInv, StillToCome
<1> QED
  BY <1>1, <1>4, <1>5 DEF DuplicatesInv

\* Reading the next event.
LEMMA FetchIInv == IInv /\ (Fetch \/ FetchFails) => IInv'
<1> SUFFICES ASSUME IInv, Fetch \/ FetchFails PROVE IInv'
  OBVIOUS
<1> USE ConsumerAssumption
    DEF IInv, Fetch, FetchFails, logVars, groupVars, handVars, storeVars
<1>1. TypeOK'
  BY DEF TypeOK
<1>2. \A e \in Events : Accounted(e)' <=> Accounted(e)
  BY DEF Accounted
<1>3. CASE Fetch
  <2>1. /\ position' = position + 1 /\ current' = position + 1 /\ attempt' = 1
        /\ position \in Nat /\ current' \in 1 .. produced /\ produced' = produced
        /\ pc = "fetching" /\ pc' \in {"deadletter", "trying"}
        /\ committed' = committed
    BY <1>3 DEF TypeOK
  <2>2. \A e \in Events : e <= position => Accounted(e)
    BY <2>1 DEF ProgressInv, InHand
  <2>3. ProgressInv'
    <3>1. (\A e \in Events : e < current => Accounted(e))'
      BY <1>2, <2>1, <2>2 DEF Events
    <3>2. (\A e \in Events : e <= position => Accounted(e) \/ (InHand /\ e = current))'
      BY <1>2, <2>1, <2>2 DEF Events, InHand
    <3>3. (\A e \in Events : e <= committed => Accounted(e))'
      BY <1>2, <2>1 DEF ProgressInv
    <3>4. InHand' /\ pc' # "waiting" /\ pc' # "committing" /\ attempt' \in 1 .. Attempts
      BY <2>1 DEF InHand
    <3> QED
      BY <2>1, <3>1, <3>2, <3>3, <3>4 DEF ProgressInv
  <2>4. ASSUME NEW e \in Events PROVE (rows[e] + StillToCome(e) <= unacked[e] + sessions)'
    <3>1. StillToCome(e)' <= StillToCome(e)
      BY <2>1 DEF StillToCome, Events
    <3>2. StillToCome(e)' \in Int /\ StillToCome(e) \in Int
      BY DEF StillToCome
    <3> QED
      BY <1>3, <3>1, <3>2 DEF TypeOK, DuplicatesInv
  <2> QED
    BY <1>1, <2>3, <2>4 DEF DuplicatesInv
<1>4. CASE FetchFails
  <2>1. ProgressInv'
    BY <1>2, <1>4 DEF ProgressInv, InHand
  <2>2. DuplicatesInv'
    BY <1>4 DEF DuplicatesInv, StillToCome
  <2> QED
    BY <1>1, <2>1, <2>2
<1> QED
  BY <1>3, <1>4

\* One attempt, or the wait before the next.
LEMMA AttemptIInv == IInv /\ (Attempt \/ Wait) => IInv'
<1> SUFFICES ASSUME IInv, Attempt \/ Wait PROVE IInv'
  OBVIOUS
<1> USE ConsumerAssumption
    DEF IInv, Attempt, Saved, Ignored, AttemptFails, SavedUnacked, AfterFailure,
        Wait, TryAgain, WaitCancelled, logVars, groupVars, handVars, storeVars
<1>0. current \in Events /\ InHand /\ attempt \in 1 .. Attempts
  BY DEF TypeOK, ProgressInv, InHand, Events
<1>1. TypeOK'
  <2>1. rows' \in [Events -> Nat] /\ unacked' \in [Events -> Nat]
    <3>1. rows \in [Events -> Nat] /\ unacked \in [Events -> Nat]
      BY DEF TypeOK
    <3>2. rows' \in {rows, [rows EXCEPT ![current] = @ + 1]}
      OBVIOUS
    <3>3. unacked' \in {unacked, [unacked EXCEPT ![current] = @ + 1]}
      OBVIOUS
    <3> QED
      BY <1>0, <3>1, <3>2, <3>3
  <2>4. skipped' \subseteq Events
    BY <1>0 DEF TypeOK
  <2>2. /\ attempt' \in 1 .. Attempts
        /\ pc' \in {"trying", "waiting", "deadletter", "committing"}
        /\ pc' = "waiting" => attempt' < Attempts
    BY <1>0 DEF TypeOK, ProgressInv
  <2>3. UNCHANGED <<kind, produced, committed, position, current, ctx, sessions, dead, missed>>
    OBVIOUS
  <2> QED
    BY <2>1, <2>2, <2>3, <2>4 DEF TypeOK
<1>2. ASSUME NEW e \in Events PROVE Accounted(e) => Accounted(e)'
  BY DEF TypeOK, Accounted
<1>3. pc' = "committing" => Accounted(current)'
  BY <1>0 DEF TypeOK, Accounted
<1>4. ProgressInv'
  <2>1. /\ attempt' \in 1 .. Attempts
        /\ pc' \in {"trying", "waiting", "deadletter", "committing"}
        /\ pc' = "waiting" => attempt' < Attempts
    BY <1>0 DEF TypeOK, ProgressInv
  <2>2. UNCHANGED <<produced, committed, position, current>> /\ pc # "stopped"
    OBVIOUS
  <2> QED
    BY <1>0, <1>2, <1>3, <2>1, <2>2 DEF ProgressInv, InHand
<1>5. ASSUME NEW e \in Events PROVE (rows[e] + StillToCome(e) <= unacked[e] + sessions)'
  BY <1>0 DEF TypeOK, DuplicatesInv, StillToCome
<1> QED
  BY <1>1, <1>4, <1>5 DEF DuplicatesInv

\* The dead-letter write, stored or not.
LEMMA DeadLetterIInv == IInv /\ PublishDLQ => IInv'
<1> SUFFICES ASSUME IInv, PublishDLQ PROVE IInv'
  OBVIOUS
<1> USE ConsumerAssumption
    DEF IInv, PublishDLQ, DeadLettered, DeadLetterMissed, logVars, groupVars, handVars, storeVars
<1>0. current \in Events /\ InHand
  BY DEF TypeOK, ProgressInv, InHand, Events
<1>1. TypeOK'
  <2>1. dead' \in [Events -> Nat]
    <3>1. dead \in [Events -> Nat]
      BY DEF TypeOK
    <3>2. dead' \in {dead, [dead EXCEPT ![current] = @ + 1]}
      OBVIOUS
    <3> QED
      BY <1>0, <3>1, <3>2
  <2>3. missed' \subseteq Events
    BY <1>0 DEF TypeOK
  <2>2. /\ UNCHANGED <<kind, produced, committed, position, current, attempt, ctx, sessions>>
        /\ UNCHANGED <<rows, unacked, skipped>> /\ pc' = "committing"
    OBVIOUS
  <2> QED
    BY <2>1, <2>2, <2>3 DEF TypeOK
<1>2. ASSUME NEW e \in Events PROVE Accounted(e) => Accounted(e)'
  BY DEF TypeOK, Accounted
<1>3. Accounted(current)'
  BY <1>0 DEF TypeOK, Accounted
<1>4. ProgressInv'
  BY <1>0, <1>2, <1>3 DEF TypeOK, ProgressInv, InHand, Events
<1>5. ASSUME NEW e \in Events PROVE (rows[e] + StillToCome(e) <= unacked[e] + sessions)'
  BY DEF TypeOK, DuplicatesInv, StillToCome
<1> QED
  BY <1>1, <1>4, <1>5 DEF DuplicatesInv

\* Moving the committed offset: everything up to it is accounted for.
LEMMA CommitIInv == IInv /\ CommitMessages => IInv'
<1> SUFFICES ASSUME IInv, CommitMessages PROVE IInv'
  OBVIOUS
<1> USE ConsumerAssumption
    DEF IInv, CommitMessages, Commit, CommitCancelled, CommitFails, logVars, groupVars, handVars, storeVars
<1>0. current \in 1 .. produced /\ InHand
  BY DEF TypeOK, ProgressInv, InHand
<1>1. TypeOK'
  BY <1>0 DEF TypeOK
<1>2. \A e \in Events : Accounted(e)' <=> Accounted(e)
  BY DEF Accounted
<1>3. ProgressInv'
  <2>1. /\ pc = "committing" /\ pc' \in {"fetching", "exited"} /\ ~ InHand'
        /\ committed' \in {committed, current}
        /\ position' = position
    BY DEF InHand
  <2>2. Accounted(current) /\ (\A e \in Events : e < current => Accounted(e))
    BY <1>0, <2>1 DEF ProgressInv
  <2>3. (\A e \in Events : e <= committed => Accounted(e))'
    <3> SUFFICES ASSUME NEW e \in Events, e <= committed' PROVE Accounted(e)
      BY <1>2 DEF Events
    <3>1. CASE committed' = committed
      BY <3>1 DEF ProgressInv
    <3>2. CASE committed' = current
      BY <1>0, <2>2, <3>2 DEF Events
    <3> QED
      BY <2>1, <3>1, <3>2
  <2>4. (\A e \in Events : e <= position => Accounted(e) \/ (InHand /\ e = current))'
    BY <1>0, <1>2, <2>1, <2>2 DEF ProgressInv, Events
  <2> QED
    BY <2>1, <2>3, <2>4 DEF ProgressInv
<1>4. ASSUME NEW e \in Events PROVE (rows[e] + StillToCome(e) <= unacked[e] + sessions)'
  BY DEF TypeOK, DuplicatesInv, StillToCome
<1> QED
  BY <1>1, <1>3, <1>4 DEF DuplicatesInv

\* The strengthened invariant holds in every reachable state.
THEOREM Invariance == Spec => []IInv
<1>1. IInv /\ [Next]_vars => IInv'
  BY EnvironmentIInv, SessionIInv, FetchIInv, AttemptIInv, DeadLetterIInv, CommitIInv
  DEF Next, Run
<1> QED
  BY <1>1, InitIInv, PTL DEF Spec

\* Every variable keeps its type; the retry loop makes at most Attempts attempts.
THEOREM TypeCorrect == Spec => []TypeOK
<1>1. IInv => TypeOK
  BY DEF IInv
<1> QED
  BY <1>1, Invariance, PTL

\* The committed offset never passes an event that was not notified, moved to
\* the dead-letter topic, skipped, or missed by a failed dead-letter write.
THEOREM NoEventForgotten == Spec => []CommitsOnlyHandled
<1>1. IInv => CommitsOnlyHandled
  <2> SUFFICES ASSUME IInv, NEW e \in 1 .. committed PROVE Accounted(e)
    BY DEF CommitsOnlyHandled
  <2>1. e \in Events /\ e <= committed
    BY ConsumerAssumption DEF IInv, TypeOK, Events
  <2> QED
    BY <2>1 DEF IInv, ProgressInv
<1> QED
  BY <1>1, Invariance, PTL

\* Duplicate notifications come from lost answers and repeated sessions only.
THEOREM NoUnexplainedDuplicate == Spec => []DuplicatesExplained
<1>1. IInv => DuplicatesExplained
  BY DEF IInv, TypeOK, DuplicatesInv, StillToCome, DuplicatesExplained
<1> QED
  BY <1>1, Invariance, PTL
-----------------------------------------------------------------------------
(* The consumer implements EventDelivery.                                  *)

\* An event is settled when it is accounted for, and its outcome is one of four.
LEMMA OutcomeOfEvent ==
    ASSUME TypeOK, NEW e \in Events
    PROVE  /\ outcome[e] = Outcome(e)
           /\ Outcome(e) \in {"pending", "dropped", "dead", "delivered"}
           /\ Accounted(e) <=> Outcome(e) # "pending"
<1>1. rows[e] \in Nat /\ dead[e] \in Nat
  BY DEF TypeOK
<1> QED
  BY <1>1 DEF outcome, Outcome, Accounted

\* When the stores stay as they are, so do the outcomes.
LEMMA SameStores == UNCHANGED storeVars => UNCHANGED outcome
  BY DEF storeVars, outcome, Outcome

\* A session of a group without a commit gives up what was produced before it.
LEMMA SessionDelivers == IInv /\ (Start \/ Rebalance) => [Delivery!Next]_outcome
<1> SUFFICES ASSUME IInv, Start \/ Rebalance PROVE [Delivery!Next]_outcome
  OBVIOUS
<1>1. UNCHANGED <<rows, dead, missed>> /\ TypeOK
  BY DEF Start, Rebalance, SessionStarts, IInv
<1>2. CASE skipped' = skipped
  BY <1>1, <1>2 DEF outcome, Outcome
<1>3. CASE skipped' # skipped
  <2>1. skipped' = skipped \union 1 .. produced
    BY <1>3 DEF Start, Rebalance, SessionStarts
  <2>2. produced \in Events
    <3>1. produced \in 0 .. MaxEvents
      BY <1>1 DEF TypeOK
    <3>2. produced # 0
      BY <1>3, <2>1
    <3> QED
      BY <3>1, <3>2, ConsumerAssumption DEF Events
  <2>3. ASSUME NEW e \in Events
        PROVE  Outcome(e)' = IF e <= produced /\ Outcome(e) = "pending"
                             THEN "dropped" ELSE Outcome(e)
    <3>1. e \in 1 .. produced <=> e <= produced
      BY <2>2 DEF Events
    <3> QED
      BY <1>1, <2>1, <3>1 DEF Outcome, TypeOK
  <2>4. Delivery!GiveUpTo(produced)
    BY <2>3 DEF Delivery!GiveUpTo, outcome
  <2> QED
    BY <2>2, <2>4 DEF Delivery!Next
<1> QED
  BY <1>2, <1>3

\* An attempt or a dead-letter write settles the event in hand, if it changes
\* any outcome.
LEMMA HandDelivers == IInv /\ (Attempt \/ PublishDLQ) => [Delivery!Next]_outcome
<1> SUFFICES ASSUME IInv, Attempt \/ PublishDLQ PROVE [Delivery!Next]_outcome
  OBVIOUS
<1> USE DEF Attempt, Saved, Ignored, AttemptFails, SavedUnacked, PublishDLQ,
            DeadLettered, DeadLetterMissed, storeVars
<1>1. TypeOK /\ current \in Events /\ InHand /\ TypeOK' /\ current' = current
  <2>1. TypeOK /\ TypeOK'
    BY AttemptIInv, DeadLetterIInv DEF IInv
  <2>2. InHand /\ current' = current
    BY DEF InHand, handVars
  <2>3. current \in 1 .. produced /\ produced \in 0 .. MaxEvents
    BY <2>1, <2>2 DEF IInv, TypeOK, ProgressInv
  <2> QED
    BY <2>1, <2>2, <2>3, ConsumerAssumption DEF Events
<1>2. ASSUME NEW e \in Events, e # current PROVE Outcome(e)' = Outcome(e)
  BY <1>1, <1>2 DEF TypeOK, Outcome
<1>3. \/ Outcome(current)' = Outcome(current)
      \/ Delivery!Rank[Outcome(current)'] > Delivery!Rank[Outcome(current)]
  <2>1. rows[current] \in Nat /\ dead[current] \in Nat
    BY <1>1 DEF TypeOK
  <2>2. /\ Delivery!Rank["pending"] = 0 /\ Delivery!Rank["dropped"] = 1
        /\ Delivery!Rank["dead"] = 2 /\ Delivery!Rank["delivered"] = 3
    BY DEF Delivery!Rank, Delivery!Outcomes
  <2>3. CASE rows' = [rows EXCEPT ![current] = @ + 1]
    <3>1. rows'[current] = rows[current] + 1
      BY <1>1, <2>3 DEF TypeOK
    <3>2. Outcome(current)' = "delivered"
      BY <1>1, <2>1, <3>1 DEF Outcome
    <3>3. Outcome(current) \in {"pending", "dropped", "dead", "delivered"}
      BY <1>1, OutcomeOfEvent
    <3> QED
      BY <2>2, <3>2, <3>3
  <2>4. CASE rows' = rows /\ dead' = [dead EXCEPT ![current] = @ + 1]
    <3>1. dead'[current] = dead[current] + 1 /\ rows'[current] = rows[current]
      BY <1>1, <2>4 DEF TypeOK
    <3>2. Outcome(current)' = IF rows[current] > 0 THEN "delivered" ELSE "dead"
      BY <1>1, <2>1, <3>1 DEF Outcome
    <3> QED
      BY <2>1, <2>2, <3>2 DEF Outcome
  <2>5. CASE rows' = rows /\ dead' = dead
    <3>0. rows[current] # rows[current] + 1 /\ dead[current] # dead[current] + 1
      BY <2>1
    <3>1. \/ UNCHANGED storeVars
          \/ current \in missed' \union skipped'
      BY <1>1, <2>5, <3>0 DEF TypeOK
    <3> QED
      BY <1>1, <2>1, <2>2, <2>5, <3>1 DEF Outcome
  <2> QED
    BY <2>3, <2>4, <2>5
<1>4. Delivery!EarlierSettled(current)
  BY <1>1, OutcomeOfEvent DEF IInv, ProgressInv, Delivery!EarlierSettled
<1>5. outcome' = [outcome EXCEPT ![current] = Outcome(current)']
  BY <1>1, <1>2 DEF outcome
<1>6. CASE Outcome(current)' = Outcome(current)
  <2>1. \A e \in Events : Outcome(e)' = Outcome(e)
    BY <1>1, <1>2, <1>6
  <2> QED
    BY <2>1 DEF outcome
<1>7. CASE Outcome(current)' # Outcome(current)
  <2>1. Outcome(current)' \in Delivery!Outcomes
    BY <1>1 DEF Outcome, Delivery!Outcomes
  <2>2. Delivery!Settle(current)
    BY <1>1, <1>3, <1>4, <1>5, <1>7, <2>1, OutcomeOfEvent DEF Delivery!Settle
  <2> QED
    BY <1>1, <2>2 DEF Delivery!Next
<1> QED
  BY <1>6, <1>7

\* Every behaviour of the consumer is one of EventDelivery, through the
\* mapping outcome: Init maps to its Init, every step to a step or a stutter.
THEOREM ImplementsDelivery == Spec => DeliversInOrder
<1>1. Init => Delivery!Init
  BY DEF Init, Delivery!Init, outcome, Outcome
<1>2. IInv /\ [Next]_vars => [Delivery!Next]_outcome
  <2>1. ASSUME Produce \/ Crash \/ Cancel \/ Closed \/ Fetch \/ FetchFails \/ Wait
               \/ CommitMessages \/ UNCHANGED vars
        PROVE  UNCHANGED outcome
    <3>1. UNCHANGED storeVars
      BY <2>1 DEF Produce, Crash, Cancel, Closed, Fetch, FetchFails, Wait, TryAgain,
                  WaitCancelled, CommitMessages, Commit, CommitCancelled, CommitFails, vars
    <3> QED
      BY <3>1, SameStores
  <2> QED
    BY <2>1, SessionDelivers, HandDelivers DEF Next, Run
<1> QED
  BY <1>1, <1>2, Invariance, PTL DEF Spec, DeliversInOrder, Delivery!Spec
=============================================================================
