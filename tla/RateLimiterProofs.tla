--------------------------- MODULE RateLimiterProofs ---------------------------
(***************************************************************************)
(* The guarantees of the rate limiter for any number of requests and       *)
(* users, any limit and any window, as long as no request stalls for       *)
(* longer than a window between reading the clock and taking the mutex.    *)
(***************************************************************************)
EXTENDS RateLimiter, FiniteSetTheorems, TLAPS

\* The requests of u let through and charged to the window that ends at e.
Charged(u, e) ==
    {r \in Requests : UserOf[r] = u /\ pc[r] = "allowed" /\ charged[r] = e}

\* Times are of the past, and a counting request's is no older than MaxStall.
TimeInv ==
    /\ \A r \in Requests : now[r] <= clock
    /\ \A r \in Requests : pc[r] = "counting" => clock <= now[r] + MaxStall
    /\ sweepNow <= clock

\* A bucket counts the requests let through in its window.
BucketInv(u) ==
    \A e \in Nat : count[u] > 0 /\ e = resetAt[u] => count[u] = Cardinality(Charged(u, e))

\* Where a request that was let through stands to the bucket of its user: in its
\* window, in an earlier one, or in a window so long over that it is forgotten.
ChargeInv(r) ==
    pc[r] = "allowed" =>
        \/ /\ count[UserOf[r]] > 0
           /\ charged[r] = resetAt[UserOf[r]] \/ charged[r] + Window <= resetAt[UserOf[r]]
        \/ /\ count[UserOf[r]] = 0
           /\ charged[r] + Window < clock

IInv ==
    /\ TypeOK
    /\ TimeInv
    /\ \A u \in Users : BucketInv(u)
    /\ \A r \in Requests : ChargeInv(r)
    /\ \A u \in Users, e \in Nat : Cardinality(Charged(u, e)) <= Limit
    /\ WindowsApart
    /\ \A r \in Requests, e \in Nat :
          pc[r] = "denied" /\ e = charged[r] => Cardinality(Charged(UserOf[r], e)) >= Limit

-----------------------------------------------------------------------------
\* Sets of requests are finite, and one more request makes one more.
LEMMA ChargedFinite == \A u, e : IsFiniteSet(Charged(u, e)) /\ Cardinality(Charged(u, e)) \in Nat
<1> SUFFICES ASSUME NEW u, NEW e
             PROVE  IsFiniteSet(Charged(u, e)) /\ Cardinality(Charged(u, e)) \in Nat
  OBVIOUS
<1>1. Charged(u, e) \subseteq Requests
  BY DEF Charged
<1> QED
  BY <1>1, LimiterAssumption, FS_Subset, FS_CardinalityType

\* Nothing has been asked yet.
LEMMA InitIInv == Init => IInv
<1> SUFFICES ASSUME Init PROVE IInv
  OBVIOUS
<1>1. \A u, e : Charged(u, e) = {}
  BY DEF Init, Charged
<1>2. \A u, e : Cardinality(Charged(u, e)) = 0
  BY <1>1, FS_EmptySet
<1>3. TypeOK /\ TimeInv
  BY LimiterAssumption DEF Init, TypeOK, TimeInv
<1> QED
  BY <1>2, <1>3, LimiterAssumption
  DEF Init, IInv, BucketInv, ChargeInv, WindowsApart

\* Steps that answer no request: time, readings of the clock, sweeps.
LEMMA OtherIInv ==
    IInv /\ (Tick \/ (\E r \in Requests : ReadClock(r)) \/ StartSweep \/ Sweep \/ Stop
             \/ UNCHANGED vars) => IInv'
<1> SUFFICES ASSUME IInv,
                    Tick \/ (\E r \in Requests : ReadClock(r)) \/ StartSweep \/ Sweep \/ Stop
                      \/ UNCHANGED vars
             PROVE  IInv'
  OBVIOUS
<1> USE LimiterAssumption
    DEF IInv, Tick, ReadClock, StartSweep, Sweep, Stop, vars, requestVars, bucketVars, sweepVars
<1>1. TypeOK'
  BY DEF TypeOK
<1>2. TimeInv'
  BY DEF TypeOK, TimeInv
<1>3. /\ \A r \in Requests : pc'[r] = "allowed" <=> pc[r] = "allowed"
      /\ \A r \in Requests : pc'[r] = "denied" <=> pc[r] = "denied"
      /\ charged' = charged /\ clock <= clock' /\ clock' \in Nat
  BY DEF TypeOK
<1>4. \A u, e : Charged(u, e)' = Charged(u, e)
  BY <1>3 DEF Charged
<1>5. \/ UNCHANGED <<count, resetAt>>
      \/ /\ count' = [u \in Users |-> IF Forgets(u) THEN 0 ELSE count[u]]
         /\ resetAt' = [u \in Users |-> IF Forgets(u) THEN 0 ELSE resetAt[u]]
  OBVIOUS
<1>6. ASSUME NEW u \in Users PROVE BucketInv(u)'
  BY <1>4, <1>5 DEF TypeOK, BucketInv
<1>7. ASSUME NEW r \in Requests PROVE ChargeInv(r)'
  BY <1>3, <1>5 DEF TypeOK, TimeInv, ChargeInv, Forgets
<1>8. ASSUME NEW u \in Users, NEW e \in Nat PROVE (Cardinality(Charged(u, e)) <= Limit)'
  BY <1>4
<1>9. WindowsApart'
  BY <1>3 DEF WindowsApart
<1>10. ASSUME NEW r \in Requests, NEW e \in Nat
       PROVE  (pc[r] = "denied" /\ e = charged[r] => Cardinality(Charged(UserOf[r], e)) >= Limit)'
  BY <1>3, <1>4
<1> QED
  BY <1>1, <1>2, <1>6, <1>7, <1>8, <1>9, <1>10

\* A request let through is one more in the window it is charged to.
LEMMA OneMoreCharged ==
    ASSUME TypeOK, NEW r \in Requests, NEW end \in Nat,
           pc[r] = "counting", Answer(r, "allowed", end)
    PROVE  /\ \A u, e : u # UserOf[r] \/ e # end => Charged(u, e)' = Charged(u, e)
           /\ Cardinality(Charged(UserOf[r], end))' = Cardinality(Charged(UserOf[r], end)) + 1
           /\ \A u, e : Cardinality(Charged(u, e)) <= Cardinality(Charged(u, e))'
<1> DEFINE S == Charged(UserOf[r], end)
<1>1. \A x \in Requests : x # r => pc'[x] = pc[x] /\ charged'[x] = charged[x]
  BY DEF TypeOK, Answer
<1>2. pc'[r] = "allowed" /\ charged'[r] = end
  BY DEF TypeOK, Answer
<1>3. \A u, e : u # UserOf[r] \/ e # end => Charged(u, e)' = Charged(u, e)
  BY <1>1, <1>2 DEF Charged
<1>4. Charged(UserOf[r], end)' = S \union {r} /\ r \notin S
  BY <1>1, <1>2 DEF Charged
<1>5. Cardinality(S \union {r}) = Cardinality(S) + 1
  BY <1>4, ChargedFinite, FS_AddElement
<1>6. Cardinality(Charged(UserOf[r], end))' = Cardinality(S) + 1
  BY <1>4, <1>5
<1>7. ASSUME NEW u, NEW e PROVE Cardinality(Charged(u, e)) <= Cardinality(Charged(u, e))'
  <2>1. CASE u = UserOf[r] /\ e = end
    BY <1>6, <2>1, ChargedFinite
  <2>2. CASE u # UserOf[r] \/ e # end
    <3>1. Charged(u, e)' = Charged(u, e)
      BY <1>3, <2>2
    <3>2. Cardinality(Charged(u, e)) \in Nat
      BY ChargedFinite
    <3> QED
      BY <3>1, <3>2
  <2> QED
    BY <2>1, <2>2
<1> QED
  BY <1>3, <1>6, <1>7

\* The first request of a window.
LEMMA StartWindowIInv ==
    ASSUME IInv, NEW r \in Requests, StartWindow(r),
           NEW end \in Nat, end = now[r] + Window
    PROVE  IInv'
<1> DEFINE u == UserOf[r]
<1> USE LimiterAssumption DEF IInv
<1>1. /\ pc[r] = "counting" /\ u \in Users
      /\ Answer(r, "allowed", end)
      /\ count' = [count EXCEPT ![u] = 1] /\ resetAt' = [resetAt EXCEPT ![u] = end]
      /\ count[u] = 0 \/ now[r] >= resetAt[u]
  BY DEF StartWindow, WindowOver, TypeOK
<1>2. /\ \A x \in Requests : x # r => pc'[x] = pc[x] /\ charged'[x] = charged[x]
      /\ pc'[r] = "allowed" /\ charged'[r] = end
      /\ UNCHANGED <<clock, now, sweeper, sweepNow>>
  BY <1>1 DEF TypeOK, Answer, sweepVars
<1>3. /\ count'[u] = 1 /\ resetAt'[u] = end
      /\ \A v \in Users : v # u => count'[v] = count[v] /\ resetAt'[v] = resetAt[v]
  BY <1>1 DEF TypeOK
<1>4. ASSUME NEW x \in Requests, UserOf[x] = u, pc[x] = "allowed"
      PROVE  charged[x] + Window <= end
  BY <1>1, <1>4 DEF TypeOK, TimeInv, ChargeInv
<1>5. Charged(u, end) = {}
  <2>1. ASSUME NEW x \in Charged(u, end) PROVE FALSE
    BY <1>1, <1>4, <2>1 DEF TypeOK, Charged
  <2> QED
    BY <2>1
<1>6. /\ \A v, e : v # u \/ e # end => Charged(v, e)' = Charged(v, e)
      /\ Cardinality(Charged(u, end))' = Cardinality(Charged(u, end)) + 1
      /\ \A v, e : Cardinality(Charged(v, e)) <= Cardinality(Charged(v, e))'
  BY <1>1, OneMoreCharged
<1>7. Cardinality(Charged(u, end))' = 1
  BY <1>5, <1>6, FS_EmptySet
<1> HIDE DEF u
<1>8. TypeOK'
  BY <1>1, <1>2 DEF TypeOK, Answer, sweepVars
<1>9. TimeInv'
  BY <1>1, <1>2 DEF TimeInv
<1>10. ASSUME NEW v \in Users PROVE BucketInv(v)'
  BY <1>3, <1>6, <1>7 DEF BucketInv
<1>11. ASSUME NEW x \in Requests PROVE ChargeInv(x)'
  BY <1>1, <1>2, <1>3, <1>4 DEF TypeOK, ChargeInv, u
<1>12. ASSUME NEW v \in Users, NEW e \in Nat PROVE (Cardinality(Charged(v, e)) <= Limit)'
  BY <1>6, <1>7
<1>13. WindowsApart'
  BY <1>1, <1>2, <1>4 DEF TypeOK, WindowsApart, u
<1>14. ASSUME NEW x \in Requests, NEW e \in Nat
       PROVE  (pc[x] = "denied" /\ e = charged[x] => Cardinality(Charged(UserOf[x], e)) >= Limit)'
  BY <1>2, <1>6, ChargedFinite
<1> QED
  BY <1>8, <1>9, <1>10, <1>11, <1>12, <1>13, <1>14

\* Another request of a window that is not full.
LEMMA CountOneMoreIInv ==
    ASSUME IInv, NEW r \in Requests, CountOneMore(r),
           NEW end \in Nat, end = resetAt[UserOf[r]]
    PROVE  IInv'
<1> DEFINE u == UserOf[r]
<1> USE LimiterAssumption DEF IInv
<1>1. /\ pc[r] = "counting" /\ u \in Users
      /\ Answer(r, "allowed", end)
      /\ count' = [count EXCEPT ![u] = @ + 1] /\ resetAt' = resetAt
      /\ 0 < count[u] /\ count[u] < Limit
  BY DEF CountOneMore, WindowOver, Full, TypeOK
<1>2. /\ \A x \in Requests : x # r => pc'[x] = pc[x] /\ charged'[x] = charged[x]
      /\ pc'[r] = "allowed" /\ charged'[r] = end
      /\ UNCHANGED <<clock, now, sweeper, sweepNow>>
  BY <1>1 DEF TypeOK, Answer, sweepVars
<1>3. /\ count'[u] = count[u] + 1
      /\ \A v \in Users : v # u => count'[v] = count[v]
  BY <1>1 DEF TypeOK
<1>4. ASSUME NEW x \in Requests, UserOf[x] = u, pc[x] = "allowed"
      PROVE  charged[x] = end \/ charged[x] + Window <= end
  BY <1>1, <1>4 DEF TypeOK, ChargeInv
<1>5. /\ \A v, e : v # u \/ e # end => Charged(v, e)' = Charged(v, e)
      /\ Cardinality(Charged(u, end))' = Cardinality(Charged(u, end)) + 1
      /\ \A v, e : Cardinality(Charged(v, e)) <= Cardinality(Charged(v, e))'
  BY <1>1, OneMoreCharged
<1>6. Cardinality(Charged(u, end))' = count[u] + 1
  BY <1>1, <1>5 DEF BucketInv
<1> HIDE DEF u
<1>7. TypeOK'
  BY <1>1, <1>2 DEF TypeOK, Answer, sweepVars
<1>8. TimeInv'
  BY <1>1, <1>2 DEF TimeInv
<1>9. ASSUME NEW v \in Users PROVE BucketInv(v)'
  BY <1>1, <1>3, <1>5, <1>6 DEF BucketInv, u
<1>10. ASSUME NEW x \in Requests PROVE ChargeInv(x)'
  BY <1>1, <1>2, <1>3, <1>4 DEF TypeOK, ChargeInv, u
<1>11. ASSUME NEW v \in Users, NEW e \in Nat PROVE (Cardinality(Charged(v, e)) <= Limit)'
  BY <1>1, <1>5, <1>6 DEF TypeOK
<1>12. WindowsApart'
  BY <1>1, <1>2, <1>4 DEF TypeOK, WindowsApart, u
<1>13. ASSUME NEW x \in Requests, NEW e \in Nat
       PROVE  (pc[x] = "denied" /\ e = charged[x] => Cardinality(Charged(UserOf[x], e)) >= Limit)'
  BY <1>2, <1>5, ChargedFinite
<1> QED
  BY <1>7, <1>8, <1>9, <1>10, <1>11, <1>12, <1>13

\* A denial: the window it names is full.
LEMMA DenyIInv ==
    ASSUME IInv, NEW r \in Requests, Deny(r),
           NEW end \in Nat, end = resetAt[UserOf[r]]
    PROVE  IInv'
<1> DEFINE u == UserOf[r]
<1> USE LimiterAssumption DEF IInv
<1>1. /\ pc[r] = "counting" /\ u \in Users
      /\ Answer(r, "denied", end)
      /\ count' = count /\ resetAt' = resetAt
      /\ count[u] >= Limit /\ count[u] > 0
  BY DEF Deny, WindowOver, Full, TypeOK, bucketVars
<1>2. /\ \A x \in Requests : x # r => pc'[x] = pc[x] /\ charged'[x] = charged[x]
      /\ pc'[r] = "denied" /\ charged'[r] = end
      /\ UNCHANGED <<clock, now, sweeper, sweepNow>>
  BY <1>1 DEF TypeOK, Answer, sweepVars
<1>3. \A v, e : Charged(v, e)' = Charged(v, e)
  BY <1>1, <1>2 DEF Charged
<1>4. Cardinality(Charged(u, end)) >= Limit
  BY <1>1 DEF BucketInv
<1> HIDE DEF u
<1>5. TypeOK'
  BY <1>1, <1>2 DEF TypeOK, Answer, sweepVars
<1>6. TimeInv'
  BY <1>1, <1>2 DEF TimeInv
<1>7. ASSUME NEW v \in Users PROVE BucketInv(v)'
  BY <1>1, <1>3 DEF BucketInv
<1>8. ASSUME NEW x \in Requests PROVE ChargeInv(x)'
  BY <1>1, <1>2 DEF ChargeInv
<1>9. ASSUME NEW v \in Users, NEW e \in Nat PROVE (Cardinality(Charged(v, e)) <= Limit)'
  BY <1>3
<1>10. WindowsApart'
  BY <1>1, <1>2 DEF WindowsApart
<1>11. ASSUME NEW x \in Requests, NEW e \in Nat
       PROVE  (pc[x] = "denied" /\ e = charged[x] => Cardinality(Charged(UserOf[x], e)) >= Limit)'
  BY <1>2, <1>3, <1>4 DEF u
<1> QED
  BY <1>5, <1>6, <1>7, <1>8, <1>9, <1>10, <1>11

-----------------------------------------------------------------------------
\* The strengthened invariant holds in every reachable state.
THEOREM Invariance == Spec => []IInv
<1>1. ASSUME IInv, NEW r \in Requests, Allow(r) PROVE IInv'
  <2>1. UserOf[r] \in Users /\ now[r] + Window \in Nat /\ resetAt[UserOf[r]] \in Nat
    BY <1>1, LimiterAssumption DEF IInv, TypeOK
  <2>2. \A end \in Nat : end = now[r] + Window /\ StartWindow(r) => IInv'
    BY <1>1, StartWindowIInv
  <2>3. \A end \in Nat : end = resetAt[UserOf[r]] /\ (CountOneMore(r) \/ Deny(r)) => IInv'
    BY <1>1, CountOneMoreIInv, DenyIInv
  <2> QED
    BY <1>1, <2>1, <2>2, <2>3 DEF Allow
<1>2. IInv /\ [Next]_vars => IInv'
  BY <1>1, OtherIInv DEF Next
<1> QED
  BY <1>2, InitIInv, PTL DEF Spec

\* Every variable keeps its type; no bucket counts past Limit.
THEOREM TypeCorrect == Spec => []TypeOK
<1>1. IInv => TypeOK
  BY DEF IInv
<1> QED
  BY <1>1, Invariance, PTL

\* No user gets more than Limit requests through per window.
THEOREM RateLimited == Spec => []LimitPerWindow
<1>1. IInv => LimitPerWindow
  <2> SUFFICES ASSUME IInv, NEW r \in Requests PROVE Cardinality(InWindowOf(r)) <= Limit
    BY DEF LimitPerWindow
  <2>1. InWindowOf(r) = Charged(UserOf[r], charged[r])
    BY DEF InWindowOf, Charged
  <2>2. UserOf[r] \in Users /\ charged[r] \in Nat
    BY LimiterAssumption DEF IInv, TypeOK
  <2> QED
    BY <2>1, <2>2 DEF IInv
<1> QED
  BY <1>1, Invariance, PTL

\* The windows of a user never overlap.
THEOREM WindowsNeverOverlap == Spec => []WindowsApart
<1>1. IInv => WindowsApart
  BY DEF IInv
<1> QED
  BY <1>1, Invariance, PTL

\* A request is denied only when its user's window is full.
THEOREM DenialsEarned == Spec => []DeniedAtLimit
<1>1. IInv => DeniedAtLimit
  <2> SUFFICES ASSUME IInv, NEW r \in Requests, pc[r] = "denied"
               PROVE  Cardinality(InWindowOf(r)) >= Limit
    BY DEF DeniedAtLimit
  <2>1. InWindowOf(r) = Charged(UserOf[r], charged[r])
    BY DEF InWindowOf, Charged
  <2>2. charged[r] \in Nat
    BY DEF IInv, TypeOK
  <2> QED
    BY <2>1, <2>2 DEF IInv
<1> QED
  BY <1>1, Invariance, PTL
=============================================================================
