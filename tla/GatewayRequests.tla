--------------------------- MODULE GatewayRequests ---------------------------
(***************************************************************************)
(* A request's way through the gateway: http.Server reads it, the chain of *)
(* middleware that NewRouter builds wraps the handler, ProxyHandler checks *)
(* the caller and calls the service through resilientTransport             *)
(* (GatewayResilience), and httputil.ReverseProxy copies the answer back.  *)
(* GatewayResilience's actions happen here at the times its requests come  *)
(* to them, so that the model has the lengths of timeouts and backoffs.    *)
(*                                                                         *)
(* Logging, Metrics, DemoSimulation and Recovery matter here; they are     *)
(* entered in this order and left in the opposite one.  Logging and        *)
(* Metrics each wrap the http.ResponseWriter and keep the last status the  *)
(* handler wrote, while the client has the first.  A handler's own         *)
(* computing takes no time: a clock tick waits for every goroutine that    *)
(* has something to do.  Two things may take any time, since no timeout    *)
(* ends them: the copy of a body to the client, and the draining of the    *)
(* body of a 502, 503 or 504 before the next attempt.                      *)
(*                                                                         *)
(* An operator named for a slip (DoublesTwice and the like) stands         *)
(* before the definition it could be mistaken for; GatewayNext does not    *)
(* use it.                                                                 *)
(***************************************************************************)
EXTENDS GatewayResilience

CONSTANTS
    Streamed,       \* requests whose answer has no Content-Length
    LookupTimeout,  \* bound on DEMO_LATENCY, connecting to Redis and its reply
    AttemptTimeout, \* bound on an attempt: connecting and ResponseHeaderTimeout,
                    \* for a service that takes the request's body at once
    Backoff,        \* retryConfig.backoff, in ticks
    WriteTimeout,   \* HTTP_WRITE_TIMEOUT, in ticks
    LastArrival     \* bound: no request comes after this time

ASSUME RequestsAssumption ==
    /\ Streamed \subseteq Requests
    /\ LookupTimeout \in Nat
    /\ AttemptTimeout \in Nat
    /\ Backoff \in Nat \ {0}
    /\ WriteTimeout \in Nat \ {0}
    /\ LastArrival \in Nat

VARIABLES
    chain,      \* where each request is on its way through the gateway
    arrived,    \* when the server had read its headers
    due,        \* when what it waits for has happened at the latest
    drained,    \* how long it has been draining bodies
    code,       \* the status that goes to the client: the first one written
    metricsStatus,  \* statusCode of metricsResponseWriter: the last one written
    logStatus,      \* statusCode of Logging's responseWriter: the last one written
    body,       \* how much of the body was written
    counted,    \* the status in http_requests_total
    logged,     \* the status in the http_access entry
    active,     \* the gauge http_requests_active
    client      \* what the client has

timeVars == <<arrived, due, drained>>
handlerVars == <<code, metricsStatus, logStatus, body>>
recordVars == <<counted, logged, active>>
gatewayVars == <<vars, chain, timeVars, handlerVars, recordVars, client>>

\* Answers by who gives them: the gateway's refusal (401, 429, ...), the
\* service's own status, the gateway's 502 or 503, and Recovery's 500.
Codes == {"refused", "upstream", "unavailable", "internal"}

GatewayInit ==
    /\ Init
    /\ chain = [r \in Requests |-> "away"]
    /\ arrived = [r \in Requests |-> 0]
    /\ due = [r \in Requests |-> 0]
    /\ drained = [r \in Requests |-> 0]
    /\ code = [r \in Requests |-> "none"]
    /\ metricsStatus = [r \in Requests |-> "ok"]
    /\ logStatus = [r \in Requests |-> "ok"]
    /\ body = [r \in Requests |-> "none"]
    /\ counted = [r \in Requests |-> "none"]
    /\ logged = [r \in Requests |-> "none"]
    /\ active = 0
    /\ client = [r \in Requests |-> "waiting"]

Inside == {r \in Requests : chain[r] \notin {"away", "left"}}

\* Between Metrics' first statement and its deferred function.
InMetrics == {r \in Inside : chain[r] \notin {"counted", "logged"}}

\* Waiting: for Redis, for the service's headers, for a backoff's timer.
Waiting(r) ==
    \/ chain[r] = "looking"
    \/ chain[r] = "calling" /\ pc[r] \in {"inflight", "backoff"}

\* A wait is over when it is due, and what comes next takes no time.
GatewayTick ==
    /\ \A r \in Inside : \/ chain[r] = "copying" \/ pc[r] = "draining"
                         \/ Waiting(r) /\ clock < due[r]
    /\ Tick
    /\ drained' = [r \in Requests |->
                      IF pc[r] = "draining" THEN drained[r] + 1 ELSE drained[r]]
    /\ UNCHANGED <<chain, arrived, due, handlerVars, recordVars, client>>

-----------------------------------------------------------------------------
(* In: the server, Logging, Metrics, and the handler's checks.             *)

\* The write deadline runs from here; Metrics counts the request in.
Arrive(r) ==
    /\ chain[r] = "away"
    /\ clock <= LastArrival
    /\ chain' = [chain EXCEPT ![r] = "looking"]
    /\ arrived' = [arrived EXCEPT ![r] = clock]
    /\ due' = [due EXCEPT ![r] = clock + LookupTimeout]
    /\ active' = active + 1
    /\ UNCHANGED <<vars, drained, handlerVars, counted, logged, client>>

OnlyLogged(r, c) ==
    /\ code' = [code EXCEPT ![r] = IF @ = "none" THEN c ELSE @]
    /\ logStatus' = [logStatus EXCEPT ![r] = c]
    /\ UNCHANGED metricsStatus

\* A status goes through both wrappers to the connection, which ignores all but
\* the first.
WriteHeader(r, c) ==
    /\ code' = [code EXCEPT ![r] = IF @ = "none" THEN c ELSE @]
    /\ metricsStatus' = [metricsStatus EXCEPT ![r] = c]
    /\ logStatus' = [logStatus EXCEPT ![r] = c]

\* apiresponse.Error, whoever calls it: a status and the whole of a small body.
Answers(r, c) ==
    /\ WriteHeader(r, c)
    /\ body' = [body EXCEPT ![r] = "whole"]
    /\ chain' = [chain EXCEPT ![r] = "handled"]
    /\ due' = [due EXCEPT ![r] = 0]

\* DEMO_FAILURE_RATE: outside Recovery, inside Metrics.
DemoSimulation(r) ==
    /\ chain[r] = "looking"
    /\ Answers(r, "unavailable")
    /\ UNCHANGED <<vars, arrived, drained, recordVars, client>>

\* No route, no token, no session, no Redis, or over the limit.
Refuse(r) ==
    /\ chain[r] = "looking"
    /\ Answers(r, "refused")
    /\ UNCHANGED <<vars, arrived, drained, recordVars, client>>

Forward(r) ==
    /\ chain[r] = "looking"
    /\ ReadClock(r)
    /\ chain' = [chain EXCEPT ![r] = "calling"]
    /\ due' = [due EXCEPT ![r] = 0]
    /\ UNCHANGED <<arrived, drained, handlerVars, recordVars, client>>

\* A bug of the handler.
HandlerPanics(r) ==
    /\ chain[r] = "looking"
    /\ chain' = [chain EXCEPT ![r] = "panicking"]
    /\ due' = [due EXCEPT ![r] = 0]
    /\ UNCHANGED <<vars, arrived, drained, handlerVars, recordVars, client>>

-----------------------------------------------------------------------------
(* The call of the service: RoundTrip, each step at its time.              *)

DoublesTwice(n) == Backoff * 2^n

\* base * 1<<(attempt-1)
backoffForAttempt(n) == Backoff * 2^(n - 1)

\* What RoundTrip does at once, and when its next step is due; a body that is
\* drained is due at no time.
Call(r) ==
    /\ \/ Admit(r) /\ due' = [due EXCEPT ![r] = 0]
       \/ Reject(r) /\ due' = [due EXCEPT ![r] = 0]
       \/ Send(r) /\ due' = [due EXCEPT ![r] = clock + AttemptTimeout]
       \/ Succeed(r) /\ due' = [due EXCEPT ![r] = 0]
       \/ GiveUp(r) /\ due' = [due EXCEPT ![r] = 0]
       \/ RetryResponse(r) /\ due' = [due EXCEPT ![r] = 0]
       \/ /\ RetryError(r) \/ Drain(r)
          /\ due' = [due EXCEPT ![r] = clock + backoffForAttempt(attempt[r])]
       \/ clock = due[r] /\ Wake(r) /\ due' = [due EXCEPT ![r] = 0]
    /\ UNCHANGED <<chain, arrived, drained, handlerVars, recordVars, client>>

\* Gone while it waits for the answer: the request's context is cancelled.
HangUp(r) ==
    /\ r \in Inside
    /\ client[r] = "waiting"
    /\ client' = [client EXCEPT ![r] = "gone"]
    /\ UNCHANGED <<vars, chain, timeVars, handlerVars, recordVars>>

CancelCall(r) ==
    /\ client[r] = "gone"
    /\ Abort(r)
    /\ due' = [due EXCEPT ![r] = 0]
    /\ UNCHANGED <<chain, arrived, drained, handlerVars, recordVars, client>>

-----------------------------------------------------------------------------
(* Out: ReverseProxy, Recovery, Metrics, Logging, and the server.          *)

\* RoundTrip returned an error.
ErrorHandler(r) ==
    /\ chain[r] = "calling"
    /\ pc[r] \in {"rejected", "failed", "aborted"}
    /\ Answers(r, "unavailable")
    /\ UNCHANGED <<vars, arrived, drained, recordVars, client>>

\* It returned a response, a 502, 503 or 504 from the last attempt included.
PassOn(r) ==
    /\ chain[r] = "calling"
    /\ pc[r] \in {"served", "failed"}
    /\ WriteHeader(r, "upstream")
    /\ chain' = [chain EXCEPT ![r] = "copying"]
    /\ UNCHANGED <<vars, timeVars, body, recordVars, client>>

Copy(r) ==
    /\ chain[r] = "copying"
    /\ body' = [body EXCEPT ![r] = "whole"]
    /\ chain' = [chain EXCEPT ![r] = "handled"]
    /\ due' = [due EXCEPT ![r] = 0]
    /\ UNCHANGED <<vars, arrived, drained, code, metricsStatus, logStatus, recordVars, client>>

\* The service's body ends early, or a write to the client fails: ReverseProxy
\* panics with http.ErrAbortHandler for the server to close the connection.
CopyFails(r) ==
    /\ chain[r] = "copying"
    /\ chain' = [chain EXCEPT ![r] = "panicking"]
    /\ due' = [due EXCEPT ![r] = 0]
    /\ UNCHANGED <<vars, arrived, drained, handlerVars, recordVars, client>>

\* Recovery answers any panic with a 500.  After ReverseProxy's, the status is
\* superfluous and the 500's body goes behind what was copied: in full where the
\* length was not declared, else only if it fits into what is missing, which it
\* may happen to fill.
Recover(r) ==
    /\ chain[r] = "panicking"
    /\ WriteHeader(r, "internal")
    /\ \E b \in IF code[r] = "none" THEN {"whole"}
               ELSE IF r \in Streamed THEN {"mixed"} ELSE {"short", "mixed"} :
          body' = [body EXCEPT ![r] = b]
    /\ chain' = [chain EXCEPT ![r] = "handled"]
    /\ UNCHANGED <<vars, timeVars, recordVars, client>>

\* Metrics' deferred function.
LeaveMetrics(r) ==
    /\ chain[r] = "handled"
    /\ chain' = [chain EXCEPT ![r] = "counted"]
    /\ counted' = [counted EXCEPT ![r] = metricsStatus[r]]
    /\ active' = active - 1
    /\ UNCHANGED <<vars, timeVars, handlerVars, logged, client>>

\* What Logging does after next.ServeHTTP; it is not deferred.
LeaveLogging(r) ==
    /\ chain[r] = "counted"
    /\ chain' = [chain EXCEPT ![r] = "logged"]
    /\ logged' = [logged EXCEPT ![r] = logStatus[r]]
    /\ UNCHANGED <<vars, timeVars, handlerVars, counted, active, client>>

\* What finishRequest leaves a waiting client with: nothing after the write
\* deadline, a broken connection when bytes are missing, else an answer that
\* looks complete.
Outcome(r) ==
    IF clock >= arrived[r] + WriteTimeout \/ body[r] = "short"
    THEN "broken" ELSE "answered"

Leave(r) ==
    /\ chain[r] = "logged"
    /\ chain' = [chain EXCEPT ![r] = "left"]
    /\ client' = [client EXCEPT ![r] = IF @ = "waiting" THEN Outcome(r) ELSE @]
    /\ UNCHANGED <<vars, timeVars, handlerVars, recordVars>>

RequestStep(r) ==
    \/ Arrive(r) \/ DemoSimulation(r) \/ Refuse(r) \/ HandlerPanics(r) \/ Forward(r)
    \/ Call(r) \/ HangUp(r) \/ CancelCall(r) \/ ErrorHandler(r)
    \/ PassOn(r) \/ Copy(r) \/ CopyFails(r) \/ Recover(r)
    \/ LeaveMetrics(r) \/ LeaveLogging(r) \/ Leave(r)

GatewayNext == GatewayTick \/ \E r \in Requests : RequestStep(r)

GatewaySpec == GatewayInit /\ [][GatewayNext]_gatewayVars

-----------------------------------------------------------------------------
GatewayTypeOK ==
    /\ TypeOK
    /\ chain \in [Requests -> {"away", "looking", "calling", "copying", "panicking",
                               "handled", "counted", "logged", "left"}]
    /\ arrived \in [Requests -> Nat]
    /\ due \in [Requests -> Nat]
    /\ drained \in [Requests -> Nat]
    /\ code \in [Requests -> Codes \union {"none"}]
    /\ metricsStatus \in [Requests -> Codes \union {"ok"}]
    /\ logStatus \in [Requests -> Codes \union {"ok"}]
    /\ body \in [Requests -> {"none", "whole", "short", "mixed"}]
    /\ counted \in [Requests -> Codes \union {"none"}]
    /\ logged \in [Requests -> Codes \union {"none"}]
    /\ active \in Nat
    /\ client \in [Requests -> {"waiting", "gone", "answered", "broken"}]

\* The counter and the log both have the status that the client has, although
\* each takes it from the last WriteHeader it saw and the client's is the first.
\* The exception is a body that broke off: Recovery records a 500 for what began
\* as something else, and then no client has a complete answer; at most it looks
\* like one, with the 500's JSON where the rest should be.
RecordsMatchAnswers ==
    \A r \in Requests : client[r] = "answered" =>
        /\ counted[r] = logged[r]
        /\ \/ logged[r] = code[r] /\ body[r] = "whole"
           \/ logged[r] = "internal" /\ body[r] = "mixed"

\* The attempts RoundTrip makes at most, and the longest time until there are
\* headers to answer with: 1 + 2 + 4 + ... backoffs lie between the attempts.
Attempts(r) == IF canReplay(r) THEN MaxAttempts ELSE 1

Budget(r) ==
    LookupTimeout + Attempts(r) * AttemptTimeout + Backoff * (2^(Attempts(r) - 1) - 1)

\* Timeouts, retries and backoffs add up to no more than that, and a request
\* that cannot be replayed takes one attempt's time.  Whatever comes on top was
\* spent on draining the bodies of answers that were not used.
HeadersWithinBudget ==
    \A r \in Inside : code[r] = "none" => clock <= arrived[r] + Budget(r) + drained[r]

\* An answer of the gateway's own is lost to a client that waits for it only
\* if the budget of the call, together with such bodies, exceeds the server's
\* write timeout; nothing in the configuration relates the two, and nothing
\* bounds the bodies.
LostAnswersWereLate ==
    \A r \in Requests :
        client[r] = "broken" /\ body[r] = "whole" /\ code[r] # "upstream"
            => WriteTimeout <= Budget(r) + drained[r]
=============================================================================
