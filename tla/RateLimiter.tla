------------------------------ MODULE RateLimiter ------------------------------
(***************************************************************************)
(* The gateway's UserRateLimiter: every authenticated request calls Allow  *)
(* in a goroutine of its own, and cleanupLoop sweeps forgotten users.      *)
(*                                                                         *)
(* Both read the clock before they take the mutex, so a goroutine that is  *)
(* not scheduled in between works with a time that is past.  MaxStall      *)
(* bounds how long that can be for a request; a sweep may stall for any    *)
(* time.  The ticker of cleanupLoop is left out: a sweep may start at any  *)
(* moment.                                                                 *)
(*                                                                         *)
(* An operator named for a slip (RestartsFull and the like) stands before  *)
(* the definition it could be mistaken for; Next does not use it.          *)
(***************************************************************************)
EXTENDS Integers, FiniteSets

CONSTANTS
    Requests,   \* the calls of Allow
    Users,
    UserOf,     \* claims.Subject of each request
    Limit,      \* RATE_LIMIT_PER_MINUTE
    Window,     \* RATE_LIMIT_WINDOW, in ticks of the clock
    MaxStall,   \* bound on the ticks between a request's time.Now and its lock
    MaxTime     \* bound on the clock

ASSUME LimiterAssumption ==
    /\ IsFiniteSet(Requests)
    /\ UserOf \in [Requests -> Users]
    /\ Limit \in Nat \ {0}
    /\ Window \in Nat \ {0}
    /\ MaxStall \in Nat
    /\ MaxStall <= Window
    /\ MaxTime \in Nat

VARIABLES
    clock,
    pc,         \* "new", "counting" between time.Now and the lock, and the end
    now,        \* the time each request read
    count,      \* userWindow.Count; 0 for a user without a bucket
    resetAt,    \* userWindow.ResetAt
    sweeper,    \* cleanupLoop: in its select, in cleanupExpired, or stopped
    sweepNow,   \* the time cleanupExpired read
    charged     \* the ResetAt that Allow answered each request with

bucketVars == <<count, resetAt>>
requestVars == <<pc, now, charged>>
sweepVars == <<sweeper, sweepNow>>
vars == <<clock, requestVars, bucketVars, sweepVars>>

Init ==
    /\ clock = 0
    /\ pc = [r \in Requests |-> "new"]
    /\ now = [r \in Requests |-> 0]
    /\ count = [u \in Users |-> 0]
    /\ resetAt = [u \in Users |-> 0]
    /\ sweeper = "waiting"
    /\ sweepNow = 0
    /\ charged = [r \in Requests |-> 0]

Tick ==
    /\ clock < MaxTime
    /\ \A r \in Requests : pc[r] = "counting" => clock < now[r] + MaxStall
    /\ clock' = clock + 1
    /\ UNCHANGED <<requestVars, bucketVars, sweepVars>>

-----------------------------------------------------------------------------
(* Allow.                                                                  *)

ReadClock(r) ==
    /\ pc[r] = "new"
    /\ pc' = [pc EXCEPT ![r] = "counting"]
    /\ now' = [now EXCEPT ![r] = clock]
    /\ UNCHANGED <<clock, charged, bucketVars, sweepVars>>

\* The verdict on request r, with the ResetAt that goes into its headers.
Answer(r, verdict, end) ==
    /\ pc' = [pc EXCEPT ![r] = verdict]
    /\ charged' = [charged EXCEPT ![r] = end]
    /\ UNCHANGED <<clock, now, sweepVars>>

\* No bucket, or one whose window is over at the time the request read.
WindowOver(u, t) == count[u] = 0 \/ t >= resetAt[u]

RestartsFull(r) ==
    LET u == UserOf[r] IN
    /\ pc[r] = "counting"
    /\ WindowOver(u, now[r])
    /\ count' = [count EXCEPT ![u] = @ + 1]
    /\ resetAt' = [resetAt EXCEPT ![u] = now[r] + Window]
    /\ Answer(r, "allowed", now[r] + Window)

StartWindow(r) ==
    LET u == UserOf[r] IN
    /\ pc[r] = "counting"
    /\ WindowOver(u, now[r])
    /\ count' = [count EXCEPT ![u] = 1]
    /\ resetAt' = [resetAt EXCEPT ![u] = now[r] + Window]
    /\ Answer(r, "allowed", now[r] + Window)

FullOneLater(u) == count[u] > Limit

Full(u) == count[u] >= Limit

CountOneMore(r) ==
    LET u == UserOf[r] IN
    /\ pc[r] = "counting"
    /\ ~WindowOver(u, now[r])
    /\ ~Full(u)
    /\ count' = [count EXCEPT ![u] = @ + 1]
    /\ UNCHANGED resetAt
    /\ Answer(r, "allowed", resetAt[u])

Deny(r) ==
    LET u == UserOf[r] IN
    /\ pc[r] = "counting"
    /\ ~WindowOver(u, now[r])
    /\ Full(u)
    /\ UNCHANGED bucketVars
    /\ Answer(r, "denied", resetAt[u])

Allow(r) == StartWindow(r) \/ CountOneMore(r) \/ Deny(r)

-----------------------------------------------------------------------------
(* cleanupLoop.                                                            *)

StartSweep ==
    /\ sweeper = "waiting"
    /\ sweeper' = "sweeping"
    /\ sweepNow' = clock
    /\ UNCHANGED <<clock, requestVars, bucketVars>>

ForgetsAtReset(u) == sweepNow >= resetAt[u] - Window

\* A bucket goes one Window after its own is over.
Forgets(u) == sweepNow > resetAt[u] + Window

Sweep ==
    /\ sweeper = "sweeping"
    /\ sweeper' = "waiting"
    /\ count' = [u \in Users |-> IF Forgets(u) THEN 0 ELSE count[u]]
    /\ resetAt' = [u \in Users |-> IF Forgets(u) THEN 0 ELSE resetAt[u]]
    /\ UNCHANGED <<clock, requestVars, sweepNow>>

Stop ==
    /\ sweeper = "waiting"
    /\ sweeper' = "stopped"
    /\ UNCHANGED <<clock, requestVars, bucketVars, sweepNow>>

Next ==
    \/ Tick
    \/ \E r \in Requests : ReadClock(r) \/ Allow(r)
    \/ StartSweep \/ Sweep \/ Stop

Spec == Init /\ [][Next]_vars

-----------------------------------------------------------------------------
\* Every variable keeps its type; no bucket counts past the limit.
TypeOK ==
    /\ clock \in Nat
    /\ pc \in [Requests -> {"new", "counting", "allowed", "denied"}]
    /\ now \in [Requests -> Nat]
    /\ count \in [Users -> 0 .. Limit]
    /\ resetAt \in [Users -> Nat]
    /\ sweeper \in {"waiting", "sweeping", "stopped"}
    /\ sweepNow \in Nat
    /\ charged \in [Requests -> Nat]

\* The requests of r's user let through and charged to the window r was
\* answered with.
InWindowOf(r) ==
    {x \in Requests : UserOf[x] = UserOf[r] /\ pc[x] = "allowed" /\ charged[x] = charged[r]}

\* No user gets more than Limit requests through per window, however requests
\* that read the clock in one order take the mutex in another and however
\* sweeps come in between: a forgotten user's window is not counted afresh.
LimitPerWindow ==
    \A r \in Requests : Cardinality(InWindowOf(r)) <= Limit

\* The windows of a user do not overlap, so that Limit per window is a rate.
WindowsApart ==
    \A r, x \in Requests :
        UserOf[r] = UserOf[x] /\ pc[r] = "allowed" /\ pc[x] = "allowed"
          /\ charged[r] < charged[x] => charged[r] + Window <= charged[x]

\* A 429 is earned: Limit requests of the user were let through in the very
\* window whose end the answer names, whatever other users did.
DeniedAtLimit ==
    \A r \in Requests : pc[r] = "denied" => Cardinality(InWindowOf(r)) >= Limit
=============================================================================
