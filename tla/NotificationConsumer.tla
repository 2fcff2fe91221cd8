-------------------------- MODULE NotificationConsumer --------------------------
(***************************************************************************)
(* A Kafka consumer of notification-service (kafkaFollowConsumer or        *)
(* kafkaInteractionConsumer; both run the same loop) over one partition of *)
(* its topic, with the Postgres table it writes, its dead-letter topic,    *)
(* and the committed offset of its consumer group.                         *)
(*                                                                         *)
(* One step is one call that can fail or be interrupted: FetchMessage, one *)
(* Save of the retry loop, the wait before the next, the dead-letter       *)
(* write, CommitMessages.  The process may crash between any two of them,  *)
(* Close may cancel the context at any moment, and a call may fail with    *)
(* its effect done.  Events are numbered from 1; committed = 0 means that  *)
(* the group has not committed yet.  An operator named for a slip          *)
(* (CommitsInstead and the like) stands before the definition it could be  *)
(* mistaken for; Next does not use it.                                     *)
(***************************************************************************)
EXTENDS Integers

CONSTANTS
    MaxEvents,      \* bound on the events produced
    Attempts,       \* attempts of retry: 3 in both consumers
    MaxSessions     \* bound on starts and rebalances of the consumer

ASSUME ConsumerAssumption ==
    /\ MaxEvents \in Nat
    /\ Attempts \in Nat \ {0}
    /\ MaxSessions \in Nat

Events == 1 .. MaxEvents

\* valid: CreateFollowNotification or CreatePostInteractionNotification saves
\*   a row;
\* own: follower and followee, or actor and author, are the same user: nil
\*   without a row;
\* unsupported: ErrValidation, the interaction is not a like;
\* malformed: invalid JSON or a required field is empty.
Kinds == {"valid", "own", "unsupported", "malformed"}

VARIABLES
    kind,       \* what each event is
    produced,   \* events in the log so far
    committed,  \* the group's committed offset: events up to it are done
    position,   \* events the reader has gone past in this session
    pc,         \* where Run stands; "exited" when it returned an error
    current,    \* the event in hand
    attempt,    \* the attempt of retry on it
    ctx,        \* the context of Run: App.Close cancels it
    sessions,   \* sessions so far
    rows,       \* rows each event has put into the notifications table
    unacked,    \* Saves of each event that failed although the row was put in
    dead,       \* copies of each event in the dead-letter topic
    missed,     \* events a dead-letter write of which was not stored
    skipped     \* events passed over on purpose: own ones, and those before
                \* the offset a group without a commit starts at

logVars == <<kind, produced>>
groupVars == <<committed, position, sessions>>
handVars == <<current, attempt>>
storeVars == <<rows, unacked, dead, missed, skipped>>
vars == <<logVars, groupVars, pc, handVars, ctx, storeVars>>

Init ==
    /\ kind \in [Events -> Kinds]
    /\ produced = 0
    /\ committed = 0
    /\ position = 0
    /\ pc = "stopped"
    /\ current = 0
    /\ attempt = 0
    /\ ctx = "live"
    /\ sessions = 0
    /\ rows = [e \in Events |-> 0]
    /\ unacked = [e \in Events |-> 0]
    /\ dead = [e \in Events |-> 0]
    /\ missed = {}
    /\ skipped = {}

-----------------------------------------------------------------------------
(* The environment: producers, the group coordinator, the process.         *)

Produce ==
    /\ produced < MaxEvents
    /\ produced' = produced + 1
    /\ UNCHANGED <<kind, groupVars, pc, handVars, ctx, storeVars>>

\* Where a session starts to read: after the committed offset, or with
\* StartOffset: LastOffset at the end of the log if there is none.
StartPosition == IF committed = 0 THEN produced ELSE committed

SessionStarts ==
    /\ sessions < MaxSessions
    /\ sessions' = sessions + 1
    /\ position' = StartPosition
    /\ skipped' = IF committed = 0 THEN skipped \union 1 .. produced ELSE skipped
    /\ UNCHANGED <<logVars, committed, handVars, rows, unacked, dead, missed>>

\* NewApp starts the goroutine that executes Run.
Start ==
    /\ pc = "stopped"
    /\ pc' = "fetching"
    /\ ctx' = "live"
    /\ SessionStarts

\* The group rebalances: the reader goes back to the committed offset while
\* Run still holds an event.
Rebalance ==
    /\ pc \notin {"stopped", "exited"}
    /\ SessionStarts
    /\ UNCHANGED <<pc, ctx>>

Crash ==
    /\ pc # "stopped"
    /\ pc' = "stopped"
    /\ UNCHANGED <<logVars, groupVars, handVars, ctx, storeVars>>

\* Close cancels the context of the consumers and waits for them.
Cancel ==
    /\ pc # "stopped"
    /\ ctx' = "cancelled"
    /\ UNCHANGED <<logVars, groupVars, pc, handVars, storeVars>>

Closed ==
    /\ ctx = "cancelled"
    /\ pc \in {"fetching", "exited"}
    /\ pc' = "stopped"
    /\ UNCHANGED <<logVars, groupVars, handVars, ctx, storeVars>>

-----------------------------------------------------------------------------
(* Run.                                                                    *)

\* FetchMessage may hand over a buffered event even when the context is
\* cancelled.  A malformed event goes to the dead-letter topic untried.
Fetch ==
    /\ pc = "fetching"
    /\ position < produced
    /\ position' = position + 1
    /\ current' = position + 1
    /\ attempt' = 1
    /\ pc' = IF kind[position + 1] = "malformed" THEN "deadletter" ELSE "trying"
    /\ UNCHANGED <<logVars, committed, sessions, ctx, storeVars>>

\* Any other error of FetchMessage ends Run; nothing starts it again.
FetchFails ==
    /\ pc = "fetching"
    /\ pc' = "exited"
    /\ UNCHANGED <<logVars, groupVars, handVars, ctx, storeVars>>

CommitsInstead == IF attempt = Attempts THEN "committing" ELSE "waiting"

\* What retry does after an attempt that returned an error.
AfterFailure == IF attempt = Attempts THEN "deadletter" ELSE "waiting"

SavedTriesAgain ==
    /\ pc = "trying"
    /\ kind[current] = "valid"
    /\ rows' = [rows EXCEPT ![current] = @ + 1]
    /\ pc' = AfterFailure
    /\ UNCHANGED <<logVars, groupVars, handVars, ctx, unacked, dead, missed, skipped>>

Saved ==
    /\ pc = "trying"
    /\ kind[current] = "valid"
    /\ rows' = [rows EXCEPT ![current] = @ + 1]
    /\ pc' = "committing"
    /\ UNCHANGED <<logVars, groupVars, handVars, ctx, unacked, dead, missed, skipped>>

\* The service returns nil for a user's own action.
Ignored ==
    /\ pc = "trying"
    /\ kind[current] = "own"
    /\ skipped' = skipped \union {current}
    /\ pc' = "committing"
    /\ UNCHANGED <<logVars, groupVars, handVars, ctx, rows, unacked, dead, missed>>

\* Postgres fails, or the service refuses the interaction.
AttemptFails ==
    /\ pc = "trying"
    /\ kind[current] \in {"valid", "unsupported"}
    /\ pc' = AfterFailure
    /\ UNCHANGED <<logVars, groupVars, handVars, ctx, storeVars>>

\* Postgres has the row but its answer is lost; the next attempt draws a new ID.
SavedUnacked ==
    /\ pc = "trying"
    /\ kind[current] = "valid"
    /\ rows' = [rows EXCEPT ![current] = @ + 1]
    /\ unacked' = [unacked EXCEPT ![current] = @ + 1]
    /\ pc' = AfterFailure
    /\ UNCHANGED <<logVars, groupVars, handVars, ctx, dead, missed, skipped>>

AttemptNotCounted ==
    /\ pc = "waiting"
    /\ pc' = "trying"
    /\ UNCHANGED <<logVars, groupVars, handVars, ctx, storeVars>>

TryAgain ==
    /\ pc = "waiting"
    /\ attempt' = attempt + 1
    /\ pc' = "trying"
    /\ UNCHANGED <<logVars, groupVars, current, ctx, storeVars>>

\* retry returns the context's error, which Run treats as a failed event.
WaitCancelled ==
    /\ pc = "waiting"
    /\ ctx = "cancelled"
    /\ pc' = "deadletter"
    /\ UNCHANGED <<logVars, groupVars, handVars, ctx, storeVars>>

DeadLettered ==
    /\ pc = "deadletter"
    /\ dead' = [dead EXCEPT ![current] = @ + 1]
    /\ pc' = "committing"
    /\ UNCHANGED <<logVars, groupVars, handVars, ctx, rows, unacked, missed, skipped>>

\* The write fails, which is logged, or is not acknowledged at all (the writer
\* asks for no acks).  Run goes on to commit all the same.
DeadLetterMissed ==
    /\ pc = "deadletter"
    /\ missed' = missed \union {current}
    /\ pc' = "committing"
    /\ UNCHANGED <<logVars, groupVars, handVars, ctx, rows, unacked, dead, skipped>>

Commit ==
    /\ pc = "committing"
    /\ committed' = current
    /\ pc' = "fetching"
    /\ UNCHANGED <<logVars, position, sessions, handVars, ctx, storeVars>>

\* context.Canceled is not an error here, whether or not the commit was made.
CommitCancelled ==
    /\ pc = "committing"
    /\ ctx = "cancelled"
    /\ pc' = "fetching"
    /\ UNCHANGED <<logVars, groupVars, handVars, ctx, storeVars>>

\* Any other error of CommitMessages ends Run, whether or not the broker has
\* the commit.
CommitFails ==
    /\ pc = "committing"
    /\ committed' \in {committed, current}
    /\ pc' = "exited"
    /\ UNCHANGED <<logVars, position, sessions, handVars, ctx, storeVars>>

Attempt == Saved \/ Ignored \/ AttemptFails \/ SavedUnacked

Wait == TryAgain \/ WaitCancelled
PublishDLQ == DeadLettered \/ DeadLetterMissed
CommitMessages == Commit \/ CommitCancelled \/ CommitFails

Run == Fetch \/ FetchFails \/ Attempt \/ Wait \/ PublishDLQ \/ CommitMessages

Next == Produce \/ Start \/ Rebalance \/ Crash \/ Cancel \/ Closed \/ Run

Spec == Init /\ [][Next]_vars

\* The goroutine of Run is scheduled, timers fire, every call returns, and an
\* event in the log reaches the reader.  Calls may fail each time they are made.
FairSpec ==
    /\ Spec
    /\ WF_vars(Fetch) /\ WF_vars(Attempt) /\ WF_vars(Wait)
    /\ WF_vars(PublishDLQ) /\ WF_vars(CommitMessages)

-----------------------------------------------------------------------------
TypeOK ==
    /\ kind \in [Events -> Kinds]
    /\ produced \in 0 .. MaxEvents
    /\ committed \in 0 .. produced
    /\ position \in 0 .. produced
    /\ pc \in {"stopped", "exited", "fetching", "trying", "waiting",
               "deadletter", "committing"}
    /\ current \in 0 .. produced
    /\ attempt \in 0 .. Attempts
    /\ ctx \in {"live", "cancelled"}
    /\ sessions \in 0 .. MaxSessions
    /\ rows \in [Events -> Nat]
    /\ unacked \in [Events -> Nat]
    /\ dead \in [Events -> Nat]
    /\ missed \subseteq Events
    /\ skipped \subseteq Events

Accounted(e) == rows[e] > 0 \/ dead[e] > 0 \/ e \in missed \union skipped

\* The offset moves past an event only when the event is in the table, in the
\* dead-letter topic, or its dead-letter write was seen to fail or skipped on
\* purpose: no crash, shutdown, rebalance or retry loses an event without one
\* of these (the order of Save, publishDLQ and CommitMessages in Run).
CommitsOnlyHandled == \A e \in 1 .. committed : Accounted(e)

\* An event is notified twice only if a Save failed after its row was in, or a
\* later session was handed the event again: the retry loop itself adds none.
DuplicatesExplained ==
    \A e \in Events : rows[e] <= unacked[e] + sessions

Outcome(e) ==
    CASE rows[e] > 0 -> "delivered"
      [] rows[e] = 0 /\ dead[e] > 0 -> "dead"
      [] rows[e] = 0 /\ dead[e] = 0 /\ e \in missed \union skipped -> "dropped"
      [] OTHER -> "pending"

outcome == [e \in Events |-> Outcome(e)]

Delivery == INSTANCE EventDelivery

\* Events are settled in log order and a settled event never becomes less so,
\* through crashes, redelivery and shutdown.
DeliversInOrder == Delivery!Spec

\* As long as the process lives and Run has not ended on an error, every event
\* of the log that the session has not read yet is read and committed, unless a
\* rebalance before the group's first commit passes it over.
EventsAreHandled ==
    \A e \in Events :
        pc = "fetching" /\ position < e /\ e <= produced
            ~> e <= committed \/ e \in skipped \/ pc \in {"stopped", "exited"} \/ ctx = "cancelled"

=============================================================================
