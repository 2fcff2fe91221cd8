-------------------------- MODULE GatewayResilience --------------------------
(***************************************************************************)
(* The gateway's calls to one upstream service: every request runs         *)
(* resilientTransport.RoundTrip (api-gateway/internal/handler/http/        *)
(* resilience.go) in a goroutine of its own, and all of them share the     *)
(* circuitBreaker that breakerFor keeps for the service.                   *)
(*                                                                         *)
(* A step is what the code does between two points where another goroutine *)
(* can run: reading the clock, a critical section of the breaker's mutex,  *)
(* handing an attempt to the base transport, the attempt's end, the end of *)
(* the body of an answer that is not used, the end of a backoff.  The      *)
(* length of a backoff is left out: its timer may fire at any moment after *)
(* it was set.  Requests come from an http.Server through                  *)
(* httputil.ReverseProxy, so req.GetBody is nil and only a request that    *)
(* has no body, or one with a safe method, can be replayed.                *)
(***************************************************************************)
EXTENDS Integers, FiniteSets

CONSTANTS
    Requests,           \* requests for this upstream, each handled once
    Bodyless,           \* those whose Body is nil or http.NoBody
    SafeMethod,         \* those whose method is GET, HEAD or OPTIONS
    MaxAttempts,        \* retryConfig.attempts
    FailureThreshold,   \* circuitConfig.failures
    OpenFor,            \* circuitConfig.openFor, in ticks of the clock
    MaxTime             \* bound on the clock

ASSUME ResilienceAssumption ==
    /\ IsFiniteSet(Requests)
    /\ Bodyless \subseteq Requests
    /\ SafeMethod \subseteq Requests
    /\ MaxAttempts \in Nat \ {0}
    /\ FailureThreshold \in Nat \ {0}
    /\ OpenFor \in Nat \ {0}
    /\ MaxTime \in Nat

VARIABLES
    breaker,    \* the circuitBreaker: state, consecutiveFailed, openedUntil
    clock,      \* time.Now()
    pc,         \* where each request's RoundTrip stands
    now,        \* the time each request read before it called allow
    attempt,    \* attempts each request has handed to the base transport
    applied     \* how many of them the upstream carried out

vars == <<breaker, clock, pc, now, attempt, applied>>

States == {"closed", "open", "half_open"}

\* How RoundTrip can end: refused by the breaker, answered, answered with a
\* failure or a transport error, or given up because the client hung up.
Ended == {"rejected", "served", "failed", "aborted"}

\* Where only the upstream can let RoundTrip go on: it owes the headers of an
\* answer, or the rest of a body that is drained before the next attempt.
AtUpstream == {"inflight", "draining"}

\* The ends that report a failure to the breaker.
Unsuccessful == {r \in Requests : pc[r] \in {"failed", "aborted"}}

-----------------------------------------------------------------------------
(* The breaker's methods, each one critical section of its mutex.  An      *)
(* operator named for a slip (DeadlineIgnored and the like) stands before  *)
(* the definition it could be mistaken for; Next does not use it.          *)

newCircuitBreaker ==
    [state |-> "closed", consecutiveFailed |-> 0, openedUntil |-> 0]

DeadlineIgnored(b, t) == TRUE

\* allow's verdict on a request that read time t.
Allowed(b, t) == b.state # "open" \/ t >= b.openedUntil

\* The breaker allow leaves behind when it lets the request pass.
AfterAllow(b) ==
    [b EXCEPT !.state = IF @ = "open" THEN "half_open" ELSE @]

CountKeptOnSuccess(b) == [b EXCEPT !.state = "closed", !.openedUntil = 0]

recordSuccess(b) ==
    [state |-> "closed", consecutiveFailed |-> 0, openedUntil |-> 0]

OpensOneEarly(b, n) == b.state = "half_open" \/ n + 1 >= FailureThreshold

\* Whether recordFailure, having counted n failures in a row, opens the breaker.
Opens(b, n) == b.state = "half_open" \/ n >= FailureThreshold

recordFailure(b, t) ==
    LET n == b.consecutiveFailed + 1
    IN  [state |-> IF Opens(b, n) THEN "open" ELSE b.state,
         consecutiveFailed |-> n,
         openedUntil |-> IF Opens(b, n) THEN t + OpenFor ELSE b.openedUntil]

-----------------------------------------------------------------------------
AlwaysReplays(r) == TRUE

canReplay(r) == r \in Bodyless \union SafeMethod

Init ==
    /\ breaker = newCircuitBreaker
    /\ clock = 0
    /\ pc = [r \in Requests |-> "new"]
    /\ now = [r \in Requests |-> 0]
    /\ attempt = [r \in Requests |-> 0]
    /\ applied = [r \in Requests |-> 0]

Tick ==
    /\ clock < MaxTime
    /\ clock' = clock + 1
    /\ UNCHANGED <<breaker, pc, now, attempt, applied>>

\* RoundTrip evaluates time.Now() for allow before it takes the mutex.
ReadClock(r) ==
    /\ pc[r] = "new"
    /\ pc' = [pc EXCEPT ![r] = "admitting"]
    /\ now' = [now EXCEPT ![r] = clock]
    /\ UNCHANGED <<breaker, clock, attempt, applied>>

Admit(r) ==
    /\ pc[r] = "admitting"
    /\ Allowed(breaker, now[r])
    /\ breaker' = AfterAllow(breaker)
    /\ pc' = [pc EXCEPT ![r] = "sending"]
    /\ UNCHANGED <<clock, now, attempt, applied>>

\* errCircuitOpen: the proxy answers 503 with Retry-After.
Reject(r) ==
    /\ pc[r] = "admitting"
    /\ ~Allowed(breaker, now[r])
    /\ pc' = [pc EXCEPT ![r] = "rejected"]
    /\ UNCHANGED <<breaker, clock, now, attempt, applied>>

AttemptNotCounted(r) ==
    /\ pc[r] = "sending"
    /\ pc' = [pc EXCEPT ![r] = "inflight"]
    /\ UNCHANGED <<breaker, clock, now, attempt, applied>>

\* An attempt goes to the upstream.  Nothing asks the breaker again.
Send(r) ==
    /\ pc[r] = "sending"
    /\ pc' = [pc EXCEPT ![r] = "inflight"]
    /\ attempt' = [attempt EXCEPT ![r] = @ + 1]
    /\ UNCHANGED <<breaker, clock, now, applied>>

\* The attempt ends without a usable answer (a transport error, the upstream
\* timeout, or a 502, 503 or 504); the upstream may have carried it out.
UpstreamMayApply(r) ==
    \E n \in {0, 1} : applied' = [applied EXCEPT ![r] = @ + n]

Succeed(r) ==
    /\ pc[r] = "inflight"
    /\ applied' = [applied EXCEPT ![r] = @ + 1]
    /\ breaker' = recordSuccess(breaker)
    /\ pc' = [pc EXCEPT ![r] = "served"]
    /\ UNCHANGED <<clock, now, attempt>>

RetriesAnything(r) == attempt[r] # MaxAttempts

MayRetry(r) == attempt[r] # MaxAttempts /\ canReplay(r)

\* Another attempt will follow, after a backoff ...
RetryAfter(r, next) ==
    /\ pc[r] = "inflight"
    /\ MayRetry(r)
    /\ UpstreamMayApply(r)
    /\ pc' = [pc EXCEPT ![r] = next]
    /\ UNCHANGED <<breaker, clock, now, attempt>>

\* ... which a transport error or a timeout is followed by at once,
RetryError(r) == RetryAfter(r, "backoff")

\* and a 502, 503 or 504 only when the body that comes with it was drained.
RetryResponse(r) == RetryAfter(r, "draining")

\* io.Copy returns, at the end of the body or with an error.  It has no timeout.
Drain(r) ==
    /\ pc[r] = "draining"
    /\ pc' = [pc EXCEPT ![r] = "backoff"]
    /\ UNCHANGED <<breaker, clock, now, attempt, applied>>

GiveUp(r) ==
    /\ pc[r] = "inflight"
    /\ ~MayRetry(r)
    /\ UpstreamMayApply(r)
    /\ breaker' = recordFailure(breaker, clock)
    /\ pc' = [pc EXCEPT ![r] = "failed"]
    /\ UNCHANGED <<clock, now, attempt>>

Wake(r) ==
    /\ pc[r] = "backoff"
    /\ pc' = [pc EXCEPT ![r] = "sending"]
    /\ UNCHANGED <<breaker, clock, now, attempt, applied>>

\* The client hangs up: the base transport, or the body it is reading, returns
\* the context's error, and whether this was the last attempt or
\* sleepWithContext returns at once, the request ends in recordFailure.
Abort(r) ==
    /\ pc[r] \in {"sending", "backoff"} \union AtUpstream
    /\ \/ pc[r] = "inflight" /\ UpstreamMayApply(r)
       \/ pc[r] # "inflight" /\ UNCHANGED applied
    /\ breaker' = recordFailure(breaker, clock)
    /\ pc' = [pc EXCEPT ![r] = "aborted"]
    /\ UNCHANGED <<clock, now, attempt>>

AttemptEnds(r) == Succeed(r) \/ RetryError(r) \/ RetryResponse(r) \/ GiveUp(r)

Step(r) ==
    \/ ReadClock(r) \/ Admit(r) \/ Reject(r) \/ Send(r)
    \/ AttemptEnds(r) \/ Drain(r) \/ Wake(r) \/ Abort(r)

Next == Tick \/ \E r \in Requests : Step(r)

Spec == Init /\ [][Next]_vars

\* The runtime schedules every goroutine and timer.  Nothing is assumed of the
\* upstream, which may owe an answer or a body for good, nor of clients, which
\* need not hang up.
Fairness ==
    \A r \in Requests :
        /\ WF_vars(Admit(r) \/ Reject(r))
        /\ WF_vars(Send(r))
        /\ WF_vars(Wake(r))

FairSpec == Spec /\ Fairness

-----------------------------------------------------------------------------
(* Properties that hold.                                                   *)

\* Every variable keeps the type its Go declaration gives it, and a reading of
\* the clock is never ahead of the clock.
TypeOK ==
    /\ breaker \in [state : States, consecutiveFailed : Nat, openedUntil : Nat]
    /\ clock \in Nat
    /\ pc \in [Requests ->
               {"new", "admitting", "sending", "backoff"} \union AtUpstream \union Ended]
    /\ now \in [Requests -> Nat]
    /\ attempt \in [Requests -> 0 .. MaxAttempts]
    /\ applied \in [Requests -> Nat]

\* The breaker is closed exactly while fewer than FailureThreshold requests in
\* a row have failed, whatever the order in which concurrent requests report
\* (allow, recordSuccess and recordFailure agree on the two fields).
StateMatchesCount ==
    breaker.state = "closed" <=> breaker.consecutiveFailed < FailureThreshold

\* The breaker never trips on fewer than FailureThreshold requests: a request's
\* retries count as one failure (RoundTrip reports once, at its end), and no
\* interleaving reports a request twice.
TripsOnRequestsNotAttempts ==
    /\ breaker.consecutiveFailed <= Cardinality(Unsuccessful)
    /\ breaker.state # "closed" => Cardinality(Unsuccessful) >= FailureThreshold

\* Probing starts only after the cool-off, although allow compares a time read
\* before the mutex was taken; and an open breaker is never due later than
\* OpenFor from now (no client waits longer than Retry-After).
CoolOffHonoured ==
    /\ breaker.state = "half_open" => breaker.openedUntil <= clock
    /\ breaker.openedUntil <= clock + OpenFor

\* A request whose body cannot be replayed is carried out at most once by the
\* upstream, and no request more often than it was sent (canReplay, the
\* attempt loop).
AppliedWithinPolicy ==
    \A r \in Requests :
        /\ applied[r] <= attempt[r]
        /\ r \notin Bodyless \union SafeMethod => applied[r] <= 1

\* A request that reached the transport ends, by an answer, the last attempt, or
\* the breaker's refusal, unless the upstream keeps it for good with one answer
\* or one body: no run of failures, however each attempt fails, holds it in the
\* attempt loop.
EveryRequestEnds ==
    \A r \in Requests :
        []<>(pc[r] \notin AtUpstream) => (pc[r] = "admitting" ~> pc[r] \in Ended)

-----------------------------------------------------------------------------
(* A statement of the documentation that the code does not keep.           *)

\* docs/deployment/api-gateway-resilience.md:43 "remain open for 30 seconds":
\* an open breaker stays open until its deadline.
RemainsOpen ==
    [][breaker.state = "open" /\ breaker'.state # "open"
         => clock >= breaker.openedUntil]_vars
=============================================================================
