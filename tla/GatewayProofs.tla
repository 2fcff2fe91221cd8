---------------------------- MODULE GatewayProofs ----------------------------
(***************************************************************************)
(* The safety properties of GatewayResilience and GatewayRequests hold for *)
(* every set of requests, every retry and breaker configuration, every set *)
(* of timeouts and every bound on the clock.                               *)
(***************************************************************************)
EXTENDS GatewayRequests, FiniteSetTheorems, FunctionTheorems, TLAPS

\* What each request's progress says of its own counters: before an attempt is
\* under way there is room for one more, an attempt under way is not counted
\* in applied yet, and a request that cannot be replayed is past its only
\* attempt as soon as it leaves "sending".
RequestInv(r) ==
    /\ now[r] <= clock
    /\ applied[r] <= attempt[r]
    /\ pc[r] \in {"new", "admitting", "sending", "draining", "backoff"} =>
          attempt[r] < MaxAttempts
    /\ pc[r] = "inflight" => applied[r] < attempt[r]
    /\ ~canReplay(r) =>
        /\ attempt[r] <= 1
        /\ pc[r] \in {"new", "admitting", "sending"} => attempt[r] = 0
        /\ pc[r] \notin {"draining", "backoff"}

\* Conjoined with the properties it makes them inductive.
IInv ==
    /\ TypeOK
    /\ \A r \in Requests : RequestInv(r)
    /\ StateMatchesCount
    /\ TripsOnRequestsNotAttempts
    /\ CoolOffHonoured

-----------------------------------------------------------------------------
\* There are finitely many unsuccessful requests.
LEMMA UnsuccessfulFinite ==
    /\ IsFiniteSet(Unsuccessful)
    /\ Cardinality(Unsuccessful) \in Nat
  BY ResilienceAssumption, FS_Subset, FS_CardinalityType DEF Unsuccessful

\* A step that leaves the unsuccessful requests alone keeps their number.
LEMMA SameUnsuccessful ==
    ASSUME TypeOK, NEW r \in Requests, NEW s \in States \union Ended \union
             {"new", "admitting", "sending", "inflight", "draining", "backoff"},
           pc' = [pc EXCEPT ![r] = s],
           pc[r] \notin {"failed", "aborted"}, s \notin {"failed", "aborted"}
    PROVE  Unsuccessful' = Unsuccessful
  BY DEF Unsuccessful, TypeOK

\* A request that ends in recordFailure adds one to the unsuccessful requests.
LEMMA OneMoreUnsuccessful ==
    ASSUME TypeOK, NEW r \in Requests, NEW s \in {"failed", "aborted"},
           pc' = [pc EXCEPT ![r] = s], pc[r] \notin {"failed", "aborted"}
    PROVE  Cardinality(Unsuccessful') = Cardinality(Unsuccessful) + 1
<1>1. Unsuccessful' = Unsuccessful \union {r}
  BY DEF Unsuccessful, TypeOK
<1>2. r \notin Unsuccessful
  BY DEF Unsuccessful
<1> QED
  BY <1>1, <1>2, UnsuccessfulFinite, FS_AddElement

\* Reporting a failure keeps the breaker's type, its count one up, its state in
\* line with the count, and its deadline within OpenFor of the present.
LEMMA RecordFailureFacts ==
    ASSUME TypeOK, StateMatchesCount, CoolOffHonoured,
           breaker' = recordFailure(breaker, clock), clock' = clock
    PROVE  /\ breaker' \in [state : States, consecutiveFailed : Nat, openedUntil : Nat]
           /\ breaker'.consecutiveFailed = breaker.consecutiveFailed + 1
           /\ breaker'.state # "closed" => breaker'.consecutiveFailed >= FailureThreshold
           /\ StateMatchesCount'
           /\ CoolOffHonoured'
  BY ResilienceAssumption, SMT
  DEF TypeOK, States, StateMatchesCount, CoolOffHonoured, recordFailure, Opens

-----------------------------------------------------------------------------
\* The initial states satisfy the invariant: nothing failed, nothing was sent.
LEMMA InitIInv == Init => IInv
<1> SUFFICES ASSUME Init PROVE IInv
  OBVIOUS
<1>1. TypeOK
  BY ResilienceAssumption DEF Init, TypeOK, newCircuitBreaker, States, Ended, AtUpstream
<1>2. \A r \in Requests : RequestInv(r)
  BY ResilienceAssumption DEF Init, RequestInv
<1>3. StateMatchesCount /\ CoolOffHonoured
  BY ResilienceAssumption DEF Init, newCircuitBreaker, StateMatchesCount, CoolOffHonoured
<1>4. TripsOnRequestsNotAttempts
  BY UnsuccessfulFinite DEF Init, newCircuitBreaker, TripsOnRequestsNotAttempts
<1> QED
  BY <1>1, <1>2, <1>3, <1>4 DEF IInv

\* A request that ends in recordFailure preserves the invariant, whichever way
\* it ended and whether or not the upstream carried out the attempt.
LEMMA FailureKeepsIInv ==
    ASSUME IInv, NEW r \in Requests, NEW s \in {"failed", "aborted"},
           pc[r] \in {"sending", "inflight", "draining", "backoff"},
           \/ pc[r] = "inflight" /\ UpstreamMayApply(r)
           \/ UNCHANGED applied,
           breaker' = recordFailure(breaker, clock),
           pc' = [pc EXCEPT ![r] = s],
           UNCHANGED <<clock, now, attempt>>
    PROVE  IInv'
<1> USE DEF IInv
<1>1. applied' \in [Requests -> Nat] /\
      \A q \in Requests : \/ applied'[q] = applied[q]
                          \/ q = r /\ pc[r] = "inflight" /\ applied'[q] = applied[q] + 1
  BY DEF UpstreamMayApply, TypeOK
<1>2. TypeOK'
  BY <1>1, RecordFailureFacts DEF TypeOK, Ended, AtUpstream
<1>3. ASSUME NEW q \in Requests PROVE RequestInv(q)'
  BY <1>1 DEF RequestInv, TypeOK, canReplay
<1>4. TripsOnRequestsNotAttempts'
  <2>1. Cardinality(Unsuccessful') = Cardinality(Unsuccessful) + 1
    BY OneMoreUnsuccessful
  <2> QED
    BY <2>1, UnsuccessfulFinite, RecordFailureFacts, ResilienceAssumption
    DEF TripsOnRequestsNotAttempts, TypeOK
<1> QED
  BY <1>2, <1>3, <1>4, RecordFailureFacts

\* Every step preserves the invariant.
LEMMA NextIInv == IInv /\ [Next]_vars => IInv'
<1> SUFFICES ASSUME IInv, [Next]_vars PROVE IInv'
  OBVIOUS
<1> USE DEF IInv
<1>1. CASE UNCHANGED vars
  BY <1>1 DEF vars, TypeOK, RequestInv, StateMatchesCount, CoolOffHonoured,
              TripsOnRequestsNotAttempts, Unsuccessful
<1>2. CASE Tick
  BY <1>2, ResilienceAssumption
  DEF Tick, TypeOK, RequestInv, StateMatchesCount, CoolOffHonoured,
      TripsOnRequestsNotAttempts, Unsuccessful
<1>3. ASSUME NEW r \in Requests, Step(r) PROVE IInv'
  <2>1. CASE ReadClock(r) \/ Reject(r) \/ Wake(r) \/ Send(r) \/ Drain(r)
    <3>1. TypeOK'
      BY <2>1, ResilienceAssumption
      DEF ReadClock, Reject, Wake, Send, Drain, TypeOK, Ended, AtUpstream, RequestInv
    <3>2. ASSUME NEW q \in Requests PROVE RequestInv(q)'
      BY <2>1, ResilienceAssumption
      DEF ReadClock, Reject, Wake, Send, Drain, TypeOK, RequestInv, canReplay
    <3>3. Unsuccessful' = Unsuccessful
      BY <2>1, SameUnsuccessful DEF ReadClock, Reject, Wake, Send, Drain, Ended
    <3> QED
      BY <2>1, <3>1, <3>2, <3>3
      DEF ReadClock, Reject, Wake, Send, Drain, StateMatchesCount, CoolOffHonoured,
          TripsOnRequestsNotAttempts
  <2>2. CASE Admit(r)
    <3>1. TypeOK'
      BY <2>2 DEF Admit, AfterAllow, TypeOK, States, AtUpstream
    <3>2. ASSUME NEW q \in Requests PROVE RequestInv(q)'
      BY <2>2 DEF Admit, TypeOK, RequestInv, canReplay
    <3>3. Unsuccessful' = Unsuccessful
      BY <2>2, SameUnsuccessful DEF Admit
    <3>4. StateMatchesCount' /\ TripsOnRequestsNotAttempts'
      BY <2>2, <3>3
      DEF Admit, AfterAllow, TypeOK, States, StateMatchesCount, TripsOnRequestsNotAttempts
    <3>5. CoolOffHonoured'
      BY <2>2
      DEF Admit, Allowed, AfterAllow, TypeOK, States, RequestInv, CoolOffHonoured
    <3> QED
      BY <3>1, <3>2, <3>4, <3>5
  <2>3. CASE Succeed(r)
    <3>1. TypeOK'
      BY <2>3 DEF Succeed, recordSuccess, TypeOK, States, Ended, AtUpstream
    <3>2. ASSUME NEW q \in Requests PROVE RequestInv(q)'
      BY <2>3 DEF Succeed, TypeOK, RequestInv, canReplay
    <3>3. Unsuccessful' = Unsuccessful
      BY <2>3, SameUnsuccessful DEF Succeed, Ended
    <3> QED
      BY <2>3, <3>1, <3>2, <3>3, UnsuccessfulFinite, ResilienceAssumption
      DEF Succeed, recordSuccess, TypeOK, StateMatchesCount, CoolOffHonoured,
          TripsOnRequestsNotAttempts
  <2>4. ASSUME NEW next \in {"backoff", "draining"}, RetryAfter(r, next) PROVE IInv'
    <3>1. applied' \in [Requests -> Nat] /\
          \A q \in Requests : \/ applied'[q] = applied[q]
                              \/ q = r /\ applied'[q] = applied[q] + 1
      BY <2>4 DEF RetryAfter, UpstreamMayApply, TypeOK
    <3>2. TypeOK'
      BY <2>4, <3>1 DEF RetryAfter, TypeOK, AtUpstream
    <3>3. ASSUME NEW q \in Requests PROVE RequestInv(q)'
      BY <2>4, <3>1, ResilienceAssumption
      DEF RetryAfter, MayRetry, TypeOK, RequestInv, canReplay
    <3>4. Unsuccessful' = Unsuccessful
      BY <2>4, SameUnsuccessful DEF RetryAfter
    <3> QED
      BY <2>4, <3>2, <3>3, <3>4
      DEF RetryAfter, StateMatchesCount, CoolOffHonoured, TripsOnRequestsNotAttempts
  <2>5. CASE GiveUp(r)
    BY <2>5, FailureKeepsIInv DEF GiveUp
  <2>6. CASE Abort(r)
    BY <2>6, FailureKeepsIInv DEF Abort, AtUpstream
  <2> QED
    BY <1>3, <2>1, <2>2, <2>3, <2>4, <2>5, <2>6
    DEF Step, AttemptEnds, RetryError, RetryResponse
<1> QED
  BY <1>1, <1>2, <1>3 DEF Next

-----------------------------------------------------------------------------
\* The strengthened invariant holds in every reachable state.
THEOREM Invariance == Spec => []IInv
  BY InitIInv, NextIInv, PTL DEF Spec

\* Every variable of the gateway's resilience layer keeps its type, and a
\* request never makes more than MaxAttempts attempts.
THEOREM TypeCorrect == Spec => []TypeOK
<1>1. IInv => TypeOK
  BY DEF IInv
<1> QED
  BY <1>1, Invariance, PTL

\* The breaker's state and its failure count agree in every reachable state,
\* so the breaker is closed exactly below the threshold.
THEOREM BreakerConsistent == Spec => []StateMatchesCount
<1>1. IInv => StateMatchesCount
  BY DEF IInv
<1> QED
  BY <1>1, Invariance, PTL

\* The breaker trips only after FailureThreshold requests have ended without
\* success, however many attempts each of them made.
THEOREM TripsJustified == Spec => []TripsOnRequestsNotAttempts
<1>1. IInv => TripsOnRequestsNotAttempts
  BY DEF IInv
<1> QED
  BY <1>1, Invariance, PTL

\* Probing never starts before the cool-off is over, and the cool-off is never
\* longer than OpenFor.
THEOREM CoolOffRespected == Spec => []CoolOffHonoured
<1>1. IInv => CoolOffHonoured
  BY DEF IInv
<1> QED
  BY <1>1, Invariance, PTL

\* The upstream never carries out a request with an unreplayable body twice.
THEOREM NoUnsafeReplay == Spec => []AppliedWithinPolicy
<1>1. IInv => AppliedWithinPolicy
  BY DEF IInv, TypeOK, RequestInv, AppliedWithinPolicy, canReplay
<1> QED
  BY <1>1, Invariance, PTL

-----------------------------------------------------------------------------
(* Powers of two, which the provers know only through the number of        *)
(* subsets of 1 .. n.                                                      *)

\* 1 .. n has 2^n subsets.
LEMMA SubsetsCount ==
    ASSUME NEW n \in Nat
    PROVE  /\ IsFiniteSet(SUBSET (1 .. n))
           /\ Cardinality(SUBSET (1 .. n)) = 2^n
<1>1. IsFiniteSet(1 .. n) /\ Cardinality(1 .. n) = n
  BY FS_Interval
<1> QED
  BY <1>1, FS_SUBSET

\* A power of two is a positive number.
LEMMA PowerType ==
    ASSUME NEW n \in Nat
    PROVE  2^n \in Nat \ {0}
<1>1. 2^n \in Nat
  BY SubsetsCount, FS_CardinalityType
<1>2. {} \in SUBSET (1 .. n)
  OBVIOUS
<1>3. 2^n # 0
  BY <1>2, SubsetsCount, FS_EmptySet
<1> QED
  BY <1>1, <1>3

\* It is never more than a later one.
LEMMA PowerMonotone ==
    ASSUME NEW m \in Nat, NEW n \in Nat, m <= n
    PROVE  2^m <= 2^n
<1>1. SUBSET (1 .. m) \subseteq SUBSET (1 .. n)
  OBVIOUS
<1>2. SUBSET (1 .. m) \in SUBSET SUBSET (1 .. n)
  BY <1>1
<1>3. Cardinality(SUBSET (1 .. m)) <= Cardinality(SUBSET (1 .. n))
  BY <1>2, SubsetsCount, FS_Subset
<1> QED
  BY <1>3, SubsetsCount

\* The subsets of 1 .. n + 1 are those of 1 .. n, each without and with n + 1.
LEMMA PowerDoubles ==
    ASSUME NEW n \in Nat
    PROVE  2^(n + 1) = 2^n + 2^n
<1> DEFINE Low == SUBSET (1 .. n)
           High == {X \in SUBSET (1 .. n + 1) : n + 1 \in X}
           f == [X \in Low |-> X \union {n + 1}]
<1>1. SUBSET (1 .. n + 1) = Low \union High
  <2>1. ASSUME NEW X \in SUBSET (1 .. n + 1), n + 1 \notin X PROVE X \in Low
    BY <2>1
  <2>2. Low \subseteq SUBSET (1 .. n + 1)
    OBVIOUS
  <2> QED
    BY <2>1, <2>2
<1>2. Low \intersect High = {}
  OBVIOUS
<1>3. ExistsBijection(Low, High)
  <2>1. f \in [Low -> High]
    OBVIOUS
  <2>2. ASSUME NEW X \in Low, NEW Y \in Low, f[X] = f[Y] PROVE X = Y
    <3>1. n + 1 \notin X /\ n + 1 \notin Y
      OBVIOUS
    <3> QED
      BY <3>1, <2>2
  <2>3. ASSUME NEW X \in High PROVE \E Y \in Low : f[Y] = X
    <3>1. X \ {n + 1} \in Low
      OBVIOUS
    <3>2. f[X \ {n + 1}] = X
      BY <3>1
    <3> QED
      BY <3>1, <3>2
  <2> HIDE DEF Low, High, f
  <2> QED
    BY <2>1, <2>2, <2>3, Fun_IsBij DEF ExistsBijection
<1>4. IsFiniteSet(Low) /\ Cardinality(Low) = 2^n
  BY SubsetsCount
<1> HIDE DEF Low, High, f
<1>5. IsFiniteSet(High) /\ Cardinality(High) = 2^n
  BY <1>3, <1>4, FS_Bijection
<1>6. Cardinality(Low \union High) = 2^n + 2^n - Cardinality({})
  BY <1>2, <1>4, <1>5, FS_Union
<1>7. Cardinality(SUBSET (1 .. n + 1)) = 2^(n + 1)
  BY SubsetsCount
<1>8. Cardinality(Low \union High) = 2^(n + 1)
  BY <1>1, <1>7
<1>9. 2^n \in Nat
  BY PowerType
<1> QED
  BY <1>6, <1>8, <1>9, FS_EmptySet

-----------------------------------------------------------------------------
(* GatewayRequests: what the way through the gateway says of a request.    *)

Underway == {"admitting", "sending", "inflight", "draining", "backoff"}

\* The longest time until an attempt is sent that n others came before.
Before(n) == LookupTimeout + n * AttemptTimeout + Backoff * (2^n - 1)

\* Where the handler has written its answer, and what Metrics and Logging have
\* made of it.
Handled == {"handled", "counted", "logged", "left"}

\* How far the answer is at each place of the chain, and what the records and
\* the client then have.
ChainInv(r) ==
    /\ chain[r] \in {"away", "looking"} => pc[r] = "new"
    /\ pc[r] \in Underway => chain[r] = "calling"
    /\ metricsStatus[r] = logStatus[r]
    /\ chain[r] \in {"away", "looking", "calling"} =>
          code[r] = "none" /\ body[r] = "none"
    /\ chain[r] = "copying" => code[r] = "upstream" /\ logStatus[r] = "upstream"
    /\ chain[r] = "panicking" => code[r] \in {"none", "upstream"}
    /\ chain[r] \in Handled =>
          \/ code[r] = logStatus[r] /\ code[r] # "none" /\ body[r] = "whole"
          \/ /\ logStatus[r] = "internal" /\ code[r] = "upstream"
             /\ body[r] \in {"short", "mixed"}
    /\ chain[r] \in Handled \ {"handled"} => counted[r] = logStatus[r]
    /\ chain[r] \in {"logged", "left"} => logged[r] = logStatus[r]
    /\ client[r] = "answered" => chain[r] = "left" /\ body[r] # "short"
    /\ client[r] = "broken" => chain[r] = "left"

\* How late it can be wherever there are no headers yet, and once there are
\* headers of the gateway's own.
TimeInv(r) ==
    /\ chain[r] = "looking" => clock <= due[r] /\ due[r] <= arrived[r] + LookupTimeout
    /\ chain[r] = "calling" =>
        /\ pc[r] \in {"admitting", "sending"} =>
              clock <= arrived[r] + Before(attempt[r]) + drained[r]
        /\ pc[r] = "inflight" =>
              /\ attempt[r] # 0
              /\ clock <= due[r]
              /\ due[r] <= arrived[r] + Before(attempt[r] - 1) + AttemptTimeout + drained[r]
        /\ pc[r] = "draining" =>
              /\ attempt[r] # 0
              /\ clock <= arrived[r] + Before(attempt[r] - 1) + AttemptTimeout + drained[r]
        /\ pc[r] = "backoff" =>
              clock <= due[r] /\ due[r] <= arrived[r] + Before(attempt[r]) + drained[r]
        /\ pc[r] \notin Underway => clock <= arrived[r] + Budget(r) + drained[r]
    /\ chain[r] \in {"panicking"} \union (Handled \ {"left"}) /\ code[r] # "upstream" =>
          clock <= arrived[r] + Budget(r) + drained[r]

GatewayInv ==
    /\ IInv
    /\ GatewayTypeOK
    /\ \A r \in Requests : ChainInv(r) /\ TimeInv(r)
    /\ active = Cardinality(InMetrics)
    /\ LostAnswersWereLate

-----------------------------------------------------------------------------
\* Every step of GatewayRequests is a step of GatewayResilience or leaves its
\* variables alone.
LEMMA StepMaps == [GatewayNext]_gatewayVars => [Next]_vars
<1> SUFFICES ASSUME [GatewayNext]_gatewayVars PROVE [Next]_vars
  OBVIOUS
<1>1. CASE UNCHANGED gatewayVars
  BY <1>1 DEF gatewayVars
<1>2. CASE GatewayTick
  BY <1>2 DEF GatewayTick, Next
<1>3. ASSUME NEW r \in Requests, RequestStep(r) PROVE [Next]_vars
  <2>1. CASE Call(r)
    BY <2>1 DEF Call, Next, Step, AttemptEnds
  <2>2. CASE Forward(r) \/ CancelCall(r)
    BY <2>2 DEF Forward, CancelCall, Next, Step
  <2>3. CASE \/ Arrive(r) \/ DemoSimulation(r) \/ Refuse(r) \/ HandlerPanics(r)
             \/ HangUp(r) \/ ErrorHandler(r) \/ PassOn(r) \/ Copy(r) \/ CopyFails(r)
             \/ Recover(r) \/ LeaveMetrics(r) \/ LeaveLogging(r) \/ Leave(r)
    BY <2>3 DEF Arrive, DemoSimulation, Refuse, HandlerPanics, HangUp, ErrorHandler, PassOn, Copy,
                CopyFails, Recover, LeaveMetrics, LeaveLogging, Leave
  <2> QED
    BY <1>3, <2>1, <2>2, <2>3 DEF RequestStep
<1> QED
  BY <1>1, <1>2, <1>3 DEF GatewayNext

\* backoffForAttempt returns a number of ticks.
LEMMA BackoffType ==
    ASSUME NEW n \in Nat \ {0}
    PROVE  backoffForAttempt(n) \in Nat
<1>1. 2^(n - 1) \in Nat
  BY PowerType
<1> QED
  BY <1>1, RequestsAssumption DEF backoffForAttempt

\* One more attempt and its backoff.
LEMMA BeforeNext ==
    ASSUME NEW n \in Nat \ {0}
    PROVE  /\ Before(n) \in Nat
           /\ Before(n) = Before(n - 1) + AttemptTimeout + backoffForAttempt(n)
<1> DEFINE p == 2^(n - 1)
<1>1. p \in Nat \ {0}
  BY PowerType
<1>2. 2^n = p + p
  BY PowerDoubles, n = (n - 1) + 1
<1> HIDE DEF p
<1>3. Backoff * (p + p - 1) = Backoff * (p - 1) + Backoff * p
  BY <1>1, RequestsAssumption
<1>4. n * AttemptTimeout = (n - 1) * AttemptTimeout + AttemptTimeout
  BY RequestsAssumption
<1>5. /\ n * AttemptTimeout \in Nat
      /\ (n - 1) * AttemptTimeout \in Int
      /\ Backoff * (p - 1) \in Nat
      /\ Backoff * p \in Nat
  BY <1>1, RequestsAssumption
<1>6. /\ Before(n) = LookupTimeout + n * AttemptTimeout + Backoff * (p + p - 1)
      /\ Before(n - 1) = LookupTimeout + (n - 1) * AttemptTimeout + Backoff * (p - 1)
      /\ backoffForAttempt(n) = Backoff * p
  BY <1>2 DEF Before, backoffForAttempt, p
<1> QED
  BY <1>3, <1>4, <1>5, <1>6, RequestsAssumption

\* An attempt that may still be made ends within the budget.
LEMMA WithinBudget ==
    ASSUME NEW r, NEW n \in Nat, n < Attempts(r)
    PROVE  /\ Before(n) \in Nat
           /\ Budget(r) \in Nat
           /\ LookupTimeout <= Before(n)
           /\ Before(n) + AttemptTimeout <= Budget(r)
<1> DEFINE m == Attempts(r) - 1
           p == 2^n
           q == 2^m
<1>1. m \in Nat /\ n <= m
  BY ResilienceAssumption DEF Attempts
<1>2. p \in Nat \ {0} /\ q \in Nat \ {0} /\ p <= q
  BY <1>1, PowerType, PowerMonotone
<1>3. /\ Before(n) = LookupTimeout + n * AttemptTimeout + Backoff * (p - 1)
      /\ Budget(r) = LookupTimeout + (m + 1) * AttemptTimeout + Backoff * (q - 1)
  BY <1>1, ResilienceAssumption DEF Before, Budget, Attempts
<1> HIDE DEF m, p, q
<1>4. Backoff * (p - 1) \in Nat /\ Backoff * (q - 1) \in Nat
  BY <1>2, RequestsAssumption
<1>5. Backoff * (p - 1) <= Backoff * (q - 1)
  BY <1>2, RequestsAssumption
<1>6. n * AttemptTimeout \in Nat /\ m * AttemptTimeout \in Nat
  BY <1>1, RequestsAssumption
<1>7. n * AttemptTimeout <= m * AttemptTimeout
  BY <1>1, RequestsAssumption
<1>8. (m + 1) * AttemptTimeout = m * AttemptTimeout + AttemptTimeout
  BY <1>1, RequestsAssumption
<1> QED
  BY <1>3, <1>4, <1>5, <1>6, <1>7, <1>8, RequestsAssumption

-----------------------------------------------------------------------------
\* What belongs to one request is left alone.
SameFor(q) ==
    /\ pc'[q] = pc[q]
    /\ attempt'[q] = attempt[q]
    /\ chain'[q] = chain[q]
    /\ arrived'[q] = arrived[q]
    /\ due'[q] = due[q]
    /\ drained'[q] = drained[q]
    /\ code'[q] = code[q]
    /\ metricsStatus'[q] = metricsStatus[q]
    /\ logStatus'[q] = logStatus[q]
    /\ body'[q] = body[q]
    /\ counted'[q] = counted[q]
    /\ logged'[q] = logged[q]
    /\ client'[q] = client[q]

\* A request's step is its own and takes no time.
LEMMA StepIsLocal ==
    ASSUME GatewayTypeOK, NEW r \in Requests, RequestStep(r),
           NEW q \in Requests, q # r
    PROVE  SameFor(q) /\ clock' = clock
<1>1. CASE Call(r)
  <2>1. /\ chain' = chain /\ arrived' = arrived /\ drained' = drained
        /\ code' = code /\ metricsStatus' = metricsStatus /\ logStatus' = logStatus
        /\ body' = body /\ counted' = counted /\ logged' = logged /\ client' = client
    BY <1>1 DEF Call, handlerVars, recordVars
  <2>2. /\ clock' = clock
        /\ pc'[q] = pc[q]
        /\ attempt'[q] = attempt[q]
    BY <1>1 DEF Call, Admit, Reject, Send, Succeed, GiveUp, RetryError,
                RetryResponse, RetryAfter, Drain, Wake, GatewayTypeOK, TypeOK
  <2>3. due'[q] = due[q]
    BY <1>1 DEF Call, GatewayTypeOK
  <2> QED
    BY <2>1, <2>2, <2>3 DEF SameFor
<1>2. CASE Forward(r) \/ CancelCall(r)
  BY <1>2 DEF Forward, ReadClock, CancelCall, Abort, SameFor, handlerVars, recordVars,
              GatewayTypeOK, TypeOK
<1>3. CASE \/ Arrive(r) \/ DemoSimulation(r) \/ Refuse(r) \/ HandlerPanics(r)
           \/ HangUp(r) \/ ErrorHandler(r)
  BY <1>3 DEF Arrive, DemoSimulation, Refuse, HandlerPanics, HangUp, ErrorHandler, Answers,
              WriteHeader, SameFor, vars, timeVars, handlerVars, recordVars, GatewayTypeOK
<1>4. CASE \/ PassOn(r) \/ Copy(r) \/ CopyFails(r) \/ Recover(r)
           \/ LeaveMetrics(r) \/ LeaveLogging(r) \/ Leave(r)
  BY <1>4 DEF PassOn, Copy, CopyFails, Recover, WriteHeader, LeaveMetrics, LeaveLogging, Leave,
              SameFor, vars, timeVars, handlerVars, recordVars, GatewayTypeOK
<1> QED
  BY <1>1, <1>2, <1>3, <1>4 DEF RequestStep

\* A request that a step leaves alone keeps what is said of it.
LEMMA SameKeeps ==
    ASSUME NEW q \in Requests, ChainInv(q), TimeInv(q), SameFor(q), clock' = clock
    PROVE  ChainInv(q)' /\ TimeInv(q)'
  BY DEF SameFor, ChainInv, TimeInv, Handled, Underway, Before, Budget, Attempts, canReplay

\* Types, and the number of requests that Metrics has counted in and not out.
LEMMA MetricsFinite == IsFiniteSet(InMetrics) /\ Cardinality(InMetrics) \in Nat
  BY ResilienceAssumption, FS_Subset, FS_CardinalityType DEF InMetrics, Inside

LEMMA MetricsCounted ==
    ASSUME GatewayTypeOK, active = Cardinality(InMetrics), NEW r \in Requests, RequestStep(r)
    PROVE  active' = Cardinality(InMetrics')
<1>1. CASE Arrive(r)
  <2>1. InMetrics' = InMetrics \union {r} /\ r \notin InMetrics
    BY <1>1 DEF Arrive, InMetrics, Inside, GatewayTypeOK
  <2> QED
    BY <1>1, <2>1, MetricsFinite, FS_AddElement DEF Arrive
<1>2. CASE LeaveMetrics(r)
  <2>1. InMetrics' = InMetrics \ {r} /\ r \in InMetrics
    BY <1>2 DEF LeaveMetrics, InMetrics, Inside, GatewayTypeOK
  <2> QED
    BY <1>2, <2>1, MetricsFinite, FS_RemoveElement DEF LeaveMetrics
<1>3. CASE Call(r) \/ HangUp(r) \/ CancelCall(r)
  BY <1>3 DEF Call, HangUp, CancelCall, InMetrics, Inside, recordVars
<1>4. CASE \/ DemoSimulation(r) \/ Refuse(r) \/ HandlerPanics(r) \/ Forward(r)
           \/ ErrorHandler(r) \/ PassOn(r) \/ Copy(r) \/ CopyFails(r) \/ Recover(r)
           \/ LeaveLogging(r) \/ Leave(r)
  <2>1. InMetrics' = InMetrics
    BY <1>4 DEF DemoSimulation, Refuse, HandlerPanics, Forward, ErrorHandler, Answers, PassOn,
                Copy, CopyFails, Recover, LeaveLogging, Leave, InMetrics, Inside, GatewayTypeOK
  <2> QED
    BY <1>4, <2>1 DEF DemoSimulation, Refuse, HandlerPanics, Forward, ErrorHandler, PassOn, Copy,
                      CopyFails, Recover, LeaveLogging, Leave, recordVars
<1> QED
  BY <1>1, <1>2, <1>3, <1>4 DEF RequestStep

LEMMA StepTypes ==
    ASSUME GatewayInv, IInv', NEW r \in Requests, RequestStep(r)
    PROVE  GatewayTypeOK'
<1> USE DEF GatewayInv
<1>1. TypeOK'
  BY DEF IInv
<1>2. active' \in Nat
  <2>1. IsFiniteSet(InMetrics') /\ Cardinality(InMetrics') \in Nat
    BY ResilienceAssumption, FS_Subset, FS_CardinalityType DEF InMetrics, Inside
  <2> QED
    BY <2>1, MetricsCounted
<1>3. /\ due' \in [Requests -> Nat] /\ arrived' \in [Requests -> Nat]
      /\ drained' \in [Requests -> Nat]
  <2>1. CASE Call(r)
    <3>1. /\ clock \in Nat
          /\ RetryError(r) \/ Drain(r) => backoffForAttempt(attempt[r]) \in Nat
      <4>1. RetryError(r) \/ Drain(r) => attempt[r] \in Nat \ {0}
        BY DEF IInv, TypeOK, RequestInv, RetryError, RetryAfter, Drain, TimeInv, ChainInv, Underway
      <4> QED
        BY <4>1, BackoffType DEF IInv, TypeOK
    <3> QED
      BY <2>1, <3>1, RequestsAssumption DEF Call, GatewayTypeOK
  <2>2. CASE ~Call(r)
    BY <2>2, RequestsAssumption
    DEF RequestStep, Arrive, DemoSimulation, Refuse, HandlerPanics, Forward, HangUp, CancelCall,
        ErrorHandler, PassOn, Copy, CopyFails, Recover, LeaveMetrics, LeaveLogging, Leave, Answers,
        timeVars, GatewayTypeOK, TypeOK
  <2> QED
    BY <2>1, <2>2
<1>4. CASE Call(r) \/ HangUp(r) \/ CancelCall(r)
  BY <1>1, <1>2, <1>3, <1>4 DEF Call, HangUp, CancelCall, handlerVars, recordVars, GatewayTypeOK
<1>5. CASE \/ Arrive(r) \/ DemoSimulation(r) \/ Refuse(r) \/ HandlerPanics(r) \/ Forward(r)
           \/ ErrorHandler(r)
  <2>1. CASE Arrive(r) \/ HandlerPanics(r) \/ Forward(r)
    BY <1>1, <1>2, <1>3, <2>1
    DEF Arrive, HandlerPanics, Forward, handlerVars, recordVars, GatewayTypeOK
  <2>2. CASE DemoSimulation(r) \/ Refuse(r) \/ ErrorHandler(r)
    BY <1>1, <1>2, <1>3, <2>2
    DEF DemoSimulation, Refuse, ErrorHandler, Answers, WriteHeader, recordVars, GatewayTypeOK, Codes
  <2> QED
    BY <1>5, <2>1, <2>2
<1>6. CASE PassOn(r) \/ Copy(r) \/ CopyFails(r) \/ Recover(r)
  BY <1>1, <1>2, <1>3, <1>6
  DEF PassOn, Copy, CopyFails, Recover, WriteHeader, handlerVars, recordVars, GatewayTypeOK,
      Codes
<1>7. CASE LeaveMetrics(r) \/ LeaveLogging(r) \/ Leave(r)
  <2>1. chain[r] \in Handled => logStatus[r] \in Codes /\ metricsStatus[r] = logStatus[r]
    BY DEF ChainInv, GatewayTypeOK, Codes
  <2> QED
    BY <1>1, <1>2, <1>3, <1>7, <2>1
    DEF LeaveMetrics, LeaveLogging, Leave, Outcome, Handled, handlerVars, recordVars, GatewayTypeOK
<1> QED
  BY <1>4, <1>5, <1>6, <1>7 DEF RequestStep

-----------------------------------------------------------------------------
\* A request's own step keeps what is said of its way through the chain.
LEMMA StepKeepsChain ==
    ASSUME GatewayInv, NEW r \in Requests, RequestStep(r)
    PROVE  ChainInv(r)'
<1> USE DEF GatewayInv, Underway, Handled
<1>1. CASE Call(r)
  <2>1. pc[r] \in Underway /\ pc'[r] # "new" /\ chain[r] = "calling"
    BY <1>1 DEF Call, Admit, Reject, Send, Succeed, GiveUp, RetryError,
                RetryResponse, RetryAfter, Drain, Wake, ChainInv, GatewayTypeOK, TypeOK
  <2> QED
    BY <1>1, <2>1 DEF Call, ChainInv, handlerVars, recordVars
<1>2. CASE Forward(r) \/ CancelCall(r)
  BY <1>2 DEF Forward, ReadClock, CancelCall, Abort, AtUpstream, ChainInv, handlerVars, recordVars,
              GatewayTypeOK, TypeOK
<1>3. CASE Arrive(r) \/ HandlerPanics(r) \/ HangUp(r)
  BY <1>3 DEF Arrive, HandlerPanics, HangUp, Inside, ChainInv, vars, handlerVars, recordVars,
              GatewayTypeOK
<1>4. CASE DemoSimulation(r) \/ Refuse(r) \/ ErrorHandler(r)
  BY <1>4 DEF DemoSimulation, Refuse, ErrorHandler, Answers, WriteHeader, ChainInv, vars,
              recordVars, GatewayTypeOK
<1>5. CASE PassOn(r) \/ Copy(r) \/ CopyFails(r)
  <2>1. CASE PassOn(r)
    BY <2>1 DEF PassOn, WriteHeader, ChainInv, vars, recordVars, GatewayTypeOK
  <2>2. CASE Copy(r)
    BY <2>2 DEF Copy, ChainInv, vars, recordVars, GatewayTypeOK
  <2>3. CASE CopyFails(r)
    BY <2>3 DEF CopyFails, ChainInv, vars, handlerVars, recordVars, GatewayTypeOK
  <2> QED
    BY <1>5, <2>1, <2>2, <2>3
<1>6. CASE Recover(r)
  BY <1>6 DEF Recover, WriteHeader, ChainInv, vars, recordVars, GatewayTypeOK
<1>7. CASE LeaveMetrics(r) \/ LeaveLogging(r) \/ Leave(r)
  <2>1. CASE LeaveMetrics(r)
    BY <2>1 DEF LeaveMetrics, ChainInv, vars, handlerVars, GatewayTypeOK
  <2>2. CASE LeaveLogging(r)
    BY <2>2 DEF LeaveLogging, ChainInv, vars, handlerVars, GatewayTypeOK
  <2>3. CASE Leave(r)
    BY <2>3 DEF Leave, Outcome, ChainInv, vars, handlerVars, recordVars, GatewayTypeOK
  <2> QED
    BY <1>7, <2>1, <2>2, <2>3
<1> QED
  BY <1>1, <1>2, <1>3, <1>4, <1>5, <1>6, <1>7 DEF RequestStep

\* A request's own step keeps what is said of the time it has taken.
LEMMA StepKeepsTime ==
    ASSUME GatewayInv, NEW r \in Requests, RequestStep(r)
    PROVE  TimeInv(r)'
<1> USE DEF GatewayInv, Underway
<1>0. /\ clock \in Nat /\ arrived[r] \in Nat /\ due[r] \in Nat /\ drained[r] \in Nat
      /\ attempt[r] \in 0 .. MaxAttempts
      /\ LookupTimeout \in Nat /\ AttemptTimeout \in Nat /\ Backoff \in Nat
      /\ Attempts(r) \in Nat \ {0}
      /\ RequestInv(r)
  BY ResilienceAssumption, RequestsAssumption DEF GatewayTypeOK, TypeOK, IInv, Attempts
<1>1. /\ LookupTimeout <= Budget(r) /\ Budget(r) \in Nat
      /\ attempt[r] < Attempts(r) =>
            /\ Before(attempt[r]) \in Nat
            /\ LookupTimeout <= Before(attempt[r])
            /\ Before(attempt[r]) + AttemptTimeout <= Budget(r)
      /\ attempt[r] # 0 =>
            /\ Before(attempt[r] - 1) \in Nat
            /\ Before(attempt[r] - 1) + AttemptTimeout <= Budget(r)
            /\ Before(attempt[r]) =
                  Before(attempt[r] - 1) + AttemptTimeout + backoffForAttempt(attempt[r])
  <2>1. attempt[r] # 0 => attempt[r] - 1 \in Nat /\ attempt[r] - 1 < Attempts(r)
    BY <1>0 DEF Attempts, RequestInv
  <2>2. 0 < Attempts(r)
    BY <1>0
  <2> HIDE DEF GatewayInv
  <2>3. LookupTimeout <= Budget(r) /\ Budget(r) \in Nat
    BY <1>0, <2>2, WithinBudget
  <2>4. attempt[r] < Attempts(r) =>
            /\ Before(attempt[r]) \in Nat
            /\ LookupTimeout <= Before(attempt[r])
            /\ Before(attempt[r]) + AttemptTimeout <= Budget(r)
    BY <1>0, WithinBudget
  <2>5. attempt[r] # 0 =>
            /\ Before(attempt[r] - 1) \in Nat
            /\ Before(attempt[r] - 1) + AttemptTimeout <= Budget(r)
    BY <1>0, <2>1, WithinBudget
  <2>6. attempt[r] # 0 => Before(attempt[r]) =
                  Before(attempt[r] - 1) + AttemptTimeout + backoffForAttempt(attempt[r])
    BY <1>0, BeforeNext
  <2> QED
    BY <2>3, <2>4, <2>5, <2>6
<1>2. pc[r] \in {"admitting", "sending"} => attempt[r] < Attempts(r)
  BY <1>0 DEF RequestInv, Attempts
<1>3. CASE Call(r)
  <2>1. pc[r] \in Underway /\ chain[r] = "calling" /\ chain'[r] = "calling" /\ clock' = clock
        /\ arrived'[r] = arrived[r] /\ drained'[r] = drained[r]
    BY <1>3 DEF Call, Admit, Reject, Send, Succeed, GiveUp, RetryError,
                RetryResponse, RetryAfter, Drain, Wake, ChainInv, GatewayTypeOK, TypeOK
  <2>2. CASE Admit(r)
    <3>1. pc'[r] = "sending" /\ attempt'[r] = attempt[r] /\ pc[r] = "admitting"
      BY <2>2 DEF Admit, GatewayTypeOK, TypeOK
    <3> QED
      BY <2>1, <3>1 DEF TimeInv, Handled, Before
  <2>3. CASE Reject(r)
    <3>1. pc'[r] = "rejected" /\ pc[r] = "admitting"
      BY <2>3 DEF Reject, GatewayTypeOK, TypeOK
    <3> QED
      BY <1>0, <1>1, <1>2, <2>1, <3>1 DEF TimeInv, Handled, Budget, Attempts, canReplay
  <2>4. CASE Send(r)
    <3>1. /\ pc'[r] = "inflight" /\ pc[r] = "sending" /\ attempt'[r] = attempt[r] + 1
          /\ due'[r] = clock + AttemptTimeout
      BY <1>3, <2>4 DEF Call, Admit, Reject, Send, Succeed, GiveUp, RetryError,
                        RetryResponse, RetryAfter, Drain, Wake, GatewayTypeOK, TypeOK
    <3>2. clock + AttemptTimeout
             <= arrived[r] + Before(attempt[r]) + AttemptTimeout + drained[r]
      BY <1>0, <1>1, <1>2, <2>1, <3>1 DEF TimeInv
    <3>3. (attempt[r] + 1) - 1 = attempt[r] /\ attempt[r] + 1 # 0
      BY <1>0
    <3> QED
      BY <1>0, <2>1, <3>1, <3>2, <3>3 DEF TimeInv, Handled, Before
  <2>5. CASE Succeed(r) \/ GiveUp(r)
    <3>1. pc'[r] \in {"served", "failed"} /\ pc[r] = "inflight"
      BY <2>5 DEF Succeed, GiveUp, GatewayTypeOK, TypeOK
    <3>2. clock <= arrived[r] + Budget(r) + drained[r]
      BY <1>0, <1>1, <2>1, <3>1 DEF TimeInv
    <3> QED
      BY <2>1, <3>1, <3>2 DEF TimeInv, Handled, Budget, Attempts, canReplay
  <2>6. CASE RetryResponse(r)
    <3>1. pc'[r] = "draining" /\ pc[r] = "inflight" /\ attempt'[r] = attempt[r]
      BY <2>6 DEF RetryResponse, RetryAfter, GatewayTypeOK, TypeOK
    <3>2. /\ attempt[r] # 0
          /\ clock <= arrived[r] + Before(attempt[r] - 1) + AttemptTimeout + drained[r]
      BY <1>0, <1>1, <2>1, <3>1 DEF TimeInv
    <3> QED
      BY <2>1, <3>1, <3>2 DEF TimeInv, Handled, Before
  <2>7. CASE RetryError(r) \/ Drain(r)
    <3>1. /\ pc'[r] = "backoff" /\ pc[r] \in {"inflight", "draining"}
          /\ attempt'[r] = attempt[r]
          /\ due'[r] = clock + backoffForAttempt(attempt[r])
      BY <1>3, <2>7 DEF Call, Admit, Reject, Send, Succeed, GiveUp, RetryError, RetryResponse,
                        RetryAfter, Drain, Wake, GatewayTypeOK, TypeOK
    <3>2. backoffForAttempt(attempt[r]) \in Nat /\ attempt[r] # 0
      BY <1>0, <2>1, <3>1, BackoffType DEF TimeInv
    <3>3. clock <= arrived[r] + Before(attempt[r] - 1) + AttemptTimeout + drained[r]
      BY <1>0, <1>1, <2>1, <3>1, <3>2 DEF TimeInv
    <3>4. clock <= due'[r] /\ due'[r] <= arrived[r] + Before(attempt[r]) + drained[r]
      BY <1>0, <1>1, <3>1, <3>2, <3>3
    <3> QED
      BY <2>1, <3>1, <3>4 DEF TimeInv, Handled, Before
  <2>8. CASE Wake(r)
    <3>1. pc'[r] = "sending" /\ pc[r] = "backoff" /\ attempt'[r] = attempt[r]
      BY <2>8 DEF Wake, GatewayTypeOK, TypeOK
    <3>2. clock <= arrived[r] + Before(attempt[r]) + drained[r]
      <4>1. attempt[r] < Attempts(r)
        BY <1>0, <3>1 DEF RequestInv, Attempts
      <4> QED
        BY <1>0, <1>1, <2>1, <3>1, <4>1 DEF TimeInv
    <3> QED
      BY <2>1, <3>1, <3>2 DEF TimeInv, Handled, Before
  <2> QED
    BY <1>3, <2>2, <2>3, <2>4, <2>5, <2>6, <2>7, <2>8 DEF Call
<1>4. CASE CancelCall(r)
  <2>1. /\ pc[r] \in {"sending", "inflight", "draining", "backoff"} /\ pc'[r] = "aborted"
        /\ chain[r] = "calling" /\ chain'[r] = "calling"
        /\ clock' = clock /\ arrived'[r] = arrived[r] /\ drained'[r] = drained[r]
    BY <1>4 DEF CancelCall, Abort, AtUpstream, ChainInv, GatewayTypeOK, TypeOK
  <2>2. clock <= arrived[r] + Budget(r) + drained[r]
    <3>1. pc[r] = "backoff" => attempt[r] < Attempts(r)
      BY <1>0 DEF RequestInv, Attempts
    <3> QED
      BY <1>0, <1>1, <1>2, <2>1, <3>1 DEF TimeInv
  <2> QED
    BY <2>1, <2>2 DEF TimeInv, Handled, Budget, Attempts, canReplay
<1>5. CASE Arrive(r)
  BY <1>0, <1>5 DEF Arrive, TimeInv, Handled, vars, GatewayTypeOK
<1>6. CASE Forward(r)
  <2>1. /\ pc'[r] = "admitting" /\ chain'[r] = "calling" /\ chain[r] = "looking"
        /\ clock' = clock /\ arrived'[r] = arrived[r] /\ attempt'[r] = attempt[r]
        /\ drained'[r] = drained[r]
    BY <1>6 DEF Forward, ReadClock, GatewayTypeOK, TypeOK
  <2>2. pc[r] = "new"
    BY <2>1 DEF ChainInv
  <2>3. attempt[r] < Attempts(r)
    BY <1>0, <2>2 DEF RequestInv, Attempts
  <2>4. clock <= arrived[r] + Before(attempt[r]) + drained[r]
    BY <1>0, <1>1, <2>1, <2>3 DEF TimeInv
  <2> QED
    BY <2>1, <2>4 DEF TimeInv, Handled, Before, Handled
<1>7. CASE HangUp(r)
  BY <1>7 DEF HangUp, TimeInv, vars, timeVars, handlerVars, Before, Budget, Attempts, canReplay
<1>8. CASE DemoSimulation(r) \/ Refuse(r) \/ HandlerPanics(r) \/ ErrorHandler(r)
  <2>1. /\ chain'[r] \in {"handled", "panicking"}
        /\ clock' = clock /\ arrived'[r] = arrived[r] /\ drained'[r] = drained[r]
    BY <1>8 DEF DemoSimulation, Refuse, HandlerPanics, ErrorHandler, Answers, vars, GatewayTypeOK
  <2>2. clock <= arrived[r] + Budget(r) + drained[r]
    BY <1>0, <1>1, <1>8 DEF DemoSimulation, Refuse, HandlerPanics, ErrorHandler, TimeInv
  <2> QED
    BY <2>1, <2>2 DEF TimeInv, Handled, Budget, Attempts, canReplay
<1>9. CASE PassOn(r) \/ Copy(r) \/ CopyFails(r)
  <2>1. chain'[r] \in {"copying", "handled", "panicking"} /\ code'[r] = "upstream"
    BY <1>9 DEF PassOn, Copy, CopyFails, WriteHeader, ChainInv, handlerVars, GatewayTypeOK
  <2> QED
    BY <2>1 DEF TimeInv, Handled
<1>10. CASE Recover(r) \/ LeaveMetrics(r) \/ LeaveLogging(r)
  <2>1. /\ chain[r] \in {"panicking", "handled", "counted"}
        /\ chain'[r] \in {"handled", "counted", "logged"}
        /\ clock' = clock /\ arrived'[r] = arrived[r] /\ drained'[r] = drained[r]
        /\ code'[r] # "upstream" => code[r] # "upstream"
    BY <1>10 DEF Recover, WriteHeader, LeaveMetrics, LeaveLogging, vars, timeVars, handlerVars,
                 GatewayTypeOK
  <2> QED
    BY <2>1 DEF TimeInv, Handled, Budget, Attempts, canReplay
<1>11. CASE Leave(r)
  <2>1. chain'[r] = "left"
    BY <1>11 DEF Leave, GatewayTypeOK
  <2> QED
    BY <2>1 DEF TimeInv, Handled
<1> QED
  BY <1>3, <1>4, <1>5, <1>6, <1>7, <1>8, <1>9, <1>10, <1>11 DEF RequestStep

\* A client is left without the gateway's answer only after the write timeout,
\* and then the budget is at least as long.
LEMMA StepKeepsAnswers ==
    ASSUME GatewayInv, NEW r \in Requests, RequestStep(r)
    PROVE  LostAnswersWereLate'
<1> SUFFICES ASSUME NEW q \in Requests,
                    client'[q] = "broken", body'[q] = "whole", code'[q] # "upstream"
             PROVE  WriteTimeout <= Budget(q) + drained'[q]
  BY DEF LostAnswersWereLate, Budget, Attempts, canReplay
<1> USE DEF GatewayInv
<1>1. CASE client[q] = "broken"
  <2>1. chain[q] = "left"
    BY <1>1 DEF ChainInv
  <2>2. body'[q] = body[q] /\ code'[q] = code[q] /\ drained'[q] = drained[q]
    <3>1. CASE q # r
      BY <3>1, StepIsLocal DEF SameFor
    <3>2. CASE q = r
      BY <2>1, <3>2
      DEF RequestStep, Arrive, DemoSimulation, Refuse, HandlerPanics, Forward, Call, HangUp,
          CancelCall, ErrorHandler, PassOn, Copy, CopyFails, Recover, LeaveMetrics,
          LeaveLogging, Leave, timeVars, handlerVars, ChainInv, Underway
    <3> QED
      BY <3>1, <3>2
  <2> QED
    BY <1>1, <2>2 DEF LostAnswersWereLate
<1>2. CASE client[q] # "broken"
  <2>1. q = r /\ Leave(r)
    <3>1. q = r
      BY <1>2, StepIsLocal DEF SameFor
    <3> QED
      BY <1>2, <3>1
      DEF RequestStep, Arrive, DemoSimulation, Refuse, HandlerPanics, Forward, Call, HangUp,
          CancelCall, ErrorHandler, PassOn, Copy, CopyFails, Recover,
          LeaveMetrics, LeaveLogging, recordVars, GatewayTypeOK
  <2>2. body[r] = "whole" /\ code[r] # "upstream" /\ Outcome(r) = "broken"
        /\ drained'[r] = drained[r]
    BY <1>2, <2>1 DEF Leave, handlerVars, timeVars, GatewayTypeOK
  <2>3. clock >= arrived[r] + WriteTimeout
    BY <2>2 DEF Outcome
  <2>4. clock <= arrived[r] + Budget(r) + drained[r]
    BY <2>1, <2>2 DEF Leave, TimeInv, Handled
  <2>5. Budget(r) \in Nat
    BY WithinBudget, ResilienceAssumption DEF Attempts
  <2>6. WriteTimeout <= Budget(r) + drained[r]
    <3>1. clock \in Nat /\ arrived[r] \in Nat /\ drained[r] \in Nat /\ WriteTimeout \in Nat
      BY RequestsAssumption DEF GatewayTypeOK, TypeOK
    <3> QED
      BY <2>3, <2>4, <2>5, <3>1
  <2> QED
    BY <2>1, <2>2, <2>6
<1> QED
  BY <1>1, <1>2

-----------------------------------------------------------------------------
\* The initial states satisfy the invariant: nobody is inside.
LEMMA InitGatewayInv == GatewayInit => GatewayInv
<1> SUFFICES ASSUME GatewayInit PROVE GatewayInv
  OBVIOUS
<1>1. IInv
  BY InitIInv DEF GatewayInit
<1>2. GatewayTypeOK
  BY <1>1 DEF GatewayInit, GatewayTypeOK, IInv, Codes
<1>3. ASSUME NEW r \in Requests PROVE ChainInv(r) /\ TimeInv(r)
  BY DEF GatewayInit, Init, ChainInv, TimeInv, Underway, Handled
<1>4. active = Cardinality(InMetrics)
  <2>1. InMetrics = {}
    BY DEF GatewayInit, InMetrics, Inside
  <2> QED
    BY <2>1, FS_EmptySet DEF GatewayInit
<1>5. LostAnswersWereLate
  BY DEF GatewayInit, LostAnswersWereLate
<1> QED
  BY <1>1, <1>2, <1>3, <1>4, <1>5 DEF GatewayInv

\* Every step preserves the invariant.
LEMMA NextGatewayInv == GatewayInv /\ [GatewayNext]_gatewayVars => GatewayInv'
<1> SUFFICES ASSUME GatewayInv, [GatewayNext]_gatewayVars PROVE GatewayInv'
  OBVIOUS
<1>1. IInv'
  BY StepMaps, NextIInv DEF GatewayInv
<1>2. CASE UNCHANGED gatewayVars
  <2>1. GatewayTypeOK' /\ active' = Cardinality(InMetrics') /\ LostAnswersWereLate'
    BY <1>1, <1>2 DEF GatewayInv, gatewayVars, vars, timeVars, handlerVars, recordVars,
                      GatewayTypeOK, IInv, InMetrics, Inside, LostAnswersWereLate, Budget, Attempts, canReplay
  <2>2. ASSUME NEW q \in Requests PROVE ChainInv(q)' /\ TimeInv(q)'
    BY <1>2, SameKeeps DEF GatewayInv, SameFor, gatewayVars, vars, timeVars, handlerVars, recordVars
  <2> QED
    BY <1>1, <2>1, <2>2 DEF GatewayInv
<1>3. CASE GatewayTick
  <2>1. /\ UNCHANGED <<breaker, pc, now, attempt, applied, chain, arrived, due, handlerVars,
                       recordVars, client>>
        /\ clock' = clock + 1
        /\ drained' \in [Requests -> Nat]
        /\ \A q \in Requests :
              drained'[q] = IF pc[q] = "draining" THEN drained[q] + 1 ELSE drained[q]
    BY <1>3 DEF GatewayTick, Tick, GatewayInv, GatewayTypeOK
  <2>2. GatewayTypeOK' /\ active' = Cardinality(InMetrics') /\ LostAnswersWereLate'
    <3>1. GatewayTypeOK'
      BY <1>1, <2>1 DEF GatewayInv, handlerVars, recordVars, GatewayTypeOK, IInv
    <3>2. active' = Cardinality(InMetrics')
      BY <2>1 DEF GatewayInv, InMetrics, Inside, recordVars
    <3>3. ASSUME NEW q \in Requests PROVE drained'[q] >= drained[q] /\ Budget(q) \in Nat
      <4>1. Attempts(q) \in Nat /\ 0 < Attempts(q)
        BY ResilienceAssumption DEF Attempts
      <4>2. Budget(q) \in Nat
        BY <4>1, WithinBudget
      <4> QED
        BY <2>1, <4>2 DEF GatewayInv, GatewayTypeOK
    <3>4. ASSUME NEW q \in Requests,
                 client'[q] = "broken", body'[q] = "whole", code'[q] # "upstream"
          PROVE  WriteTimeout <= Budget(q) + drained'[q]
      <4>1. WriteTimeout <= Budget(q) + drained[q]
        BY <2>1, <3>4 DEF GatewayInv, LostAnswersWereLate, handlerVars
      <4>2. drained[q] \in Nat /\ drained'[q] \in Nat /\ WriteTimeout \in Nat
        BY <2>1, RequestsAssumption DEF GatewayInv, GatewayTypeOK
      <4> QED
        BY <3>3, <4>1, <4>2
    <3> QED
      BY <3>1, <3>2, <3>4 DEF LostAnswersWereLate, Budget, Attempts, canReplay
  <2>3. ASSUME NEW q \in Requests PROVE ChainInv(q)' /\ TimeInv(q)'
    <3>1. ChainInv(q)'
      BY <2>1 DEF GatewayInv, ChainInv, Underway, Handled, handlerVars, recordVars
    <3>2. chain[q] \in {"looking", "calling", "panicking"} \union (Handled \ {"left"}) =>
             pc[q] = "draining" \/ (Waiting(q) /\ clock < due[q])
      BY <1>3 DEF GatewayTick, Inside, Handled
    <3>3. pc[q] = "draining" => chain[q] = "calling"
      BY DEF GatewayInv, ChainInv, Underway
    <3>4. /\ clock \in Nat /\ due[q] \in Nat /\ arrived[q] \in Nat /\ drained[q] \in Nat
      BY DEF GatewayInv, GatewayTypeOK, TypeOK
    <3>5. CASE pc[q] = "draining"
      <4>1. /\ attempt[q] # 0
            /\ clock <= arrived[q] + Before(attempt[q] - 1) + AttemptTimeout + drained[q]
        BY <3>3, <3>5 DEF GatewayInv, TimeInv
      <4>2. Before(attempt[q] - 1) \in Nat /\ AttemptTimeout \in Nat
        <5>1. attempt[q] - 1 \in Nat /\ attempt[q] - 1 < Attempts(q)
          BY <3>5, <4>1, ResilienceAssumption
          DEF GatewayInv, IInv, TypeOK, RequestInv, Attempts
        <5> QED
          BY <5>1, WithinBudget, RequestsAssumption
      <4>3. clock' <= arrived[q] + Before(attempt[q] - 1) + AttemptTimeout + drained'[q]
        BY <2>1, <3>4, <3>5, <4>1, <4>2
      <4> QED
        BY <2>1, <3>1, <3>3, <3>5, <4>1, <4>3 DEF TimeInv, Underway, Handled, Before, handlerVars
    <3>6. CASE pc[q] # "draining"
      <4>1. drained'[q] = drained[q]
        BY <2>1, <3>6
      <4>2. chain[q] \in {"looking", "calling"} => clock + 1 <= due[q]
        BY <3>2, <3>4, <3>6
      <4> QED
        BY <2>1, <3>1, <3>2, <3>6, <4>1, <4>2
        DEF GatewayInv, TimeInv, Waiting, Underway, Handled, Before, Budget, Attempts,
            canReplay, handlerVars
    <3> QED
      BY <3>1, <3>5, <3>6
  <2> QED
    BY <1>1, <2>2, <2>3 DEF GatewayInv
<1>4. ASSUME NEW r \in Requests, RequestStep(r) PROVE GatewayInv'
  <2>1. GatewayTypeOK'
    BY <1>1, <1>4, StepTypes
  <2>2. ASSUME NEW q \in Requests PROVE ChainInv(q)' /\ TimeInv(q)'
    <3>1. CASE q = r
      BY <1>4, <3>1, StepKeepsChain, StepKeepsTime
    <3>2. CASE q # r
      BY <1>4, <3>2, StepIsLocal, SameKeeps DEF GatewayInv
    <3> QED
      BY <3>1, <3>2
  <2>3. active' = Cardinality(InMetrics')
    BY <1>4, MetricsCounted DEF GatewayInv
  <2>4. LostAnswersWereLate'
    BY <1>4, StepKeepsAnswers
  <2> QED
    BY <1>1, <2>1, <2>2, <2>3, <2>4 DEF GatewayInv
<1> QED
  BY <1>2, <1>3, <1>4 DEF GatewayNext

-----------------------------------------------------------------------------
\* The invariant holds in every reachable state of the gateway.
THEOREM GatewayInvariance == GatewaySpec => []GatewayInv
  BY InitGatewayInv, NextGatewayInv, PTL DEF GatewaySpec

\* Every variable of the chain keeps its type; backoffs are numbers of ticks.
THEOREM GatewayTypeCorrect == GatewaySpec => []GatewayTypeOK
<1>1. GatewayInv => GatewayTypeOK
  BY DEF GatewayInv
<1> QED
  BY <1>1, GatewayInvariance, PTL

\* The recorded status is the client's, but for answers that broke off.
THEOREM RecordsHonest == GatewaySpec => []RecordsMatchAnswers
<1>1. GatewayInv => RecordsMatchAnswers
  BY DEF GatewayInv, RecordsMatchAnswers, ChainInv, Handled
<1> QED
  BY <1>1, GatewayInvariance, PTL

\* A request has headers to answer with before its attempts, their timeouts
\* and the backoffs between them can have added up to more than Budget, apart
\* from the time it spent on draining the bodies of answers it did not use.
THEOREM HeadersInTime == GatewaySpec => []HeadersWithinBudget
<1>1. GatewayInv => HeadersWithinBudget
  <2> SUFFICES ASSUME GatewayInv, NEW r \in Inside, code[r] = "none"
               PROVE  clock <= arrived[r] + Budget(r) + drained[r]
    BY DEF HeadersWithinBudget
  <2>1. r \in Requests /\ chain[r] \in {"looking", "calling", "panicking"}
    BY DEF Inside, GatewayInv, ChainInv, Handled, GatewayTypeOK
  <2>2. CASE chain[r] = "panicking"
    BY <2>1, <2>2 DEF GatewayInv, TimeInv
  <2>3. /\ clock \in Nat /\ arrived[r] \in Nat /\ due[r] \in Nat /\ drained[r] \in Nat
        /\ attempt[r] \in 0 .. MaxAttempts /\ RequestInv(r)
        /\ LookupTimeout \in Nat /\ AttemptTimeout \in Nat /\ Attempts(r) \in Nat \ {0}
    BY <2>1, ResilienceAssumption, RequestsAssumption
    DEF GatewayInv, GatewayTypeOK, TypeOK, IInv, Attempts
  <2>4. CASE chain[r] = "looking"
    BY <2>1, <2>3, <2>4, WithinBudget DEF GatewayInv, TimeInv
  <2>5. CASE chain[r] = "calling"
    <3>1. CASE pc[r] \in {"admitting", "sending", "backoff"}
      <4>1. attempt[r] < Attempts(r)
        BY <2>3, <3>1 DEF RequestInv, Attempts
      <4>2. Before(attempt[r]) \in Nat /\ Before(attempt[r]) + AttemptTimeout <= Budget(r)
            /\ Budget(r) \in Nat
        BY <2>3, <4>1, WithinBudget
      <4> QED
        BY <2>1, <2>3, <2>5, <3>1, <4>2 DEF GatewayInv, TimeInv
    <3>2. CASE pc[r] \in AtUpstream
      <4>1. attempt[r] # 0
        BY <2>1, <2>5, <3>2 DEF GatewayInv, TimeInv, AtUpstream
      <4>2. attempt[r] - 1 \in Nat /\ attempt[r] - 1 < Attempts(r)
        BY <2>3, <4>1 DEF RequestInv, Attempts
      <4>3. Before(attempt[r] - 1) \in Nat /\ Budget(r) \in Nat
            /\ Before(attempt[r] - 1) + AttemptTimeout <= Budget(r)
        BY <4>2, WithinBudget
      <4> QED
        BY <2>1, <2>3, <2>5, <3>2, <4>1, <4>3 DEF GatewayInv, TimeInv, AtUpstream
    <3>3. CASE pc[r] \notin Underway
      BY <2>1, <2>5, <3>3 DEF GatewayInv, TimeInv
    <3> QED
      BY <3>1, <3>2, <3>3 DEF Underway, AtUpstream
  <2> QED
    BY <2>1, <2>2, <2>4, <2>5
<1> QED
  BY <1>1, GatewayInvariance, PTL

\* A client that waits misses an answer of the gateway's own only where the
\* configuration lets the budget of a call, together with the time spent on
\* draining bodies, exceed the write timeout.
THEOREM AnswersLostLate == GatewaySpec => []LostAnswersWereLate
<1>1. GatewayInv => LostAnswersWereLate
  BY DEF GatewayInv
<1> QED
  BY <1>1, GatewayInvariance, PTL
=============================================================================
