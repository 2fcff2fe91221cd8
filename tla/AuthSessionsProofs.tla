-------------------------- MODULE AuthSessionsProofs --------------------------
(***************************************************************************)
(* The guarantees of the session store for any number of logins, checks    *)
(* and logouts, any lifetimes of states, tokens and sessions, and a Redis  *)
(* with or without a password and a database to select.                    *)
(***************************************************************************)
EXTENDS AuthSessions, TLAPS

\* One command at a time: what Do returns is the reply to the last of them.
CallInv(c) ==
    /\ heard[c] <= served[c]
    /\ served[c] <= sent[c]
    /\ sent[c] <= heard[c] + 1
    /\ result[c] \notin {"none", "error"} => served[c] = Commands /\ result[c] = reply[c][Commands]

\* Nothing is sent to Redis before the login is "saving", what is sent then
\* keeps the key until less than a second before the session's ExpiresAt, and
\* only a login whose SET was carried out returns.
LoginInv(s) ==
    /\ login[s] \in {"new", "exchanging", "created", "issued"} => sent[s] = 0 /\ ex[s] = 0
    /\ login[s] \in {"created", "issued", "saving", "returned"} =>
          /\ SessionTTL <= expiresAt[s]
          /\ expiresAt[s] <= clock + SessionTTL
    /\ login[s] \in {"issued", "saving", "returned"} =>
          expiresAt[s] - SessionTTL + TokenTTL < tokenExp[s] * Second + Second
    /\ login[s] = "returned" => Answer(s) \notin {"none", "error"}
    /\ ex[s] * Second <= SessionTTL
    /\ ex[s] > 0 => clock + ex[s] * Second + Second > expiresAt[s]

\* A SET that was carried out, unless its key was removed since, keeps the key
\* until less than a second before ExpiresAt.
StoredInv(s) ==
    Answer(s) \notin {"none", "error"} => s \in gone \/ deadline[s] + Second > expiresAt[s]

\* A DEL comes after the SET it undoes, because only a token that was returned
\* can be presented.
LogoutInv(l) ==
    /\ logout[l] = "new" => sent[l] = 0
    /\ logout[l] # "new" => login[token[l]] = "returned"
    /\ logout[l] = "done" => Answer(l) \notin {"none", "error"}
    /\ Answer(l) \notin {"none", "error"} => deadline[token[l]] = 0

\* A check has a token that was handed out; one that came after the logout
\* never finds the session; one that found none was late, or nearly so.
CheckInv(q) ==
    /\ check[q] = "new" => sent[q] = 0
    /\ check[q] # "new" => login[token[q]] = "returned"
    /\ q \in late => /\ token[q] \in Revoked
                     /\ check[q] \in {"loading", "refused", "error"}
                     /\ Answer(q) # "value"
    /\ Answer(q) = "nil" => \/ token[q] \in gone
                            \/ clock + Second > expiresAt[token[q]]

IInv ==
    /\ TypeOK
    /\ \A c \in Calls : CallInv(c)
    /\ \A s \in Sessions : LoginInv(s) /\ StoredInv(s)
    /\ \A l \in Logouts : LogoutInv(l)
    /\ \A q \in Checks : CheckInv(q)
    /\ KeysExpire
    /\ NoEarlyRefusal

-----------------------------------------------------------------------------
\* Whole seconds: rounding down loses less than a second, and the result of
\* rounding a natural number down is natural.
LEMMA WholeSeconds ==
    ASSUME NEW t \in Int
    PROVE  /\ Unix(t) \in Int
           /\ Unix(t) * Second <= t
           /\ t < Unix(t) * Second + Second
           /\ t \in Nat => Unix(t) \in Nat
  BY SessionsAssumption, Z3 DEF Unix

\* A JWT whose exp is past expired at a whole second that is past.
LEMMA ExpiredToken ==
    ASSUME NEW t \in Nat, NEW n \in Nat, n <= Unix(t)
    PROVE  n * Second <= t
<1>1. Unix(t) \in Int /\ Unix(t) * Second <= t
  BY WholeSeconds
<1>2. n * Second <= Unix(t) * Second
  BY <1>1, SessionsAssumption
<1> QED
  BY <1>1, <1>2, SessionsAssumption

-----------------------------------------------------------------------------
\* A call sends one command at least.
LEMMA CommandsType == Commands \in Nat /\ Commands > 0
  BY ClientAssumption DEF Commands

\* Each session, logout and check makes one call, and no two the same.
LEMMA CallsApart ==
    /\ \A s \in Sessions : s \in Calls /\ s \notin Logouts /\ s \notin Checks
    /\ \A l \in Logouts : l \in Calls /\ l \notin Sessions /\ l \notin Checks
    /\ \A q \in Checks : q \in Calls /\ q \notin Sessions /\ q \notin Logouts
  BY SessionsAssumption

\* While no call moves, no answer changes.
LEMMA SameAnswers ==
    ASSUME UNCHANGED clientVars
    PROVE  \A c : Answer(c)' = Answer(c)
  BY DEF clientVars, Answer

\* A call that has sent nothing has no answer; a result that is no error is the
\* answer.
LEMMA AnswerFacts ==
    ASSUME ClientTypeOK, NEW c \in Calls, CallInv(c)
    PROVE  /\ sent[c] = 0 => Answer(c) = "none"
           /\ result[c] \notin {"none", "error"} => Answer(c) = result[c]
  BY CommandsType DEF ClientTypeOK, CallInv, Answer

\* The client's own steps change no answer.
LEMMA DoStep ==
    ASSUME ClientTypeOK, \A c \in Calls : CallInv(c), NEW c \in Calls, Do(c)
    PROVE  /\ ClientTypeOK'
           /\ \A d \in Calls : /\ CallInv(d)'
                               /\ Answer(d)' = Answer(d)
                               /\ d # c => sent'[d] = sent[d]
<1> USE CommandsType DEF ClientTypeOK
<1>1. CASE Dial(c)
  BY <1>1 DEF Dial, CallInv, Answer
<1>2. CASE Break(c)
  BY <1>2 DEF Break, CallInv, Answer, Replies
<1>3. CASE ReadReply(c)
  <2> DEFINE r == reply[c][heard[c] + 1]
  <2>1. /\ result[c] = "none" /\ heard[c] < served[c] /\ UNCHANGED <<served, reply>>
        /\ heard' = [heard EXCEPT ![c] = @ + 1]
    BY <1>3 DEF ReadReply
  <2>2. r \in Replies \union {"none"}
    BY <2>1 DEF CallInv
  <2>3. \/ /\ sent[c] < Commands
           /\ sent' = [sent EXCEPT ![c] = @ + 1]
           /\ UNCHANGED result
        \/ /\ sent[c] = Commands \/ r = "error"
           /\ \E a \in Decoded(r) : result' = [result EXCEPT ![c] = a]
           /\ UNCHANGED sent
    BY <1>3 DEF ReadReply
  <2>4. heard[c] + 1 <= served[c] /\ served[c] <= sent[c] /\ sent[c] <= heard[c] + 1
    BY <2>1 DEF CallInv
  <2>5. CASE /\ sent[c] < Commands
             /\ sent' = [sent EXCEPT ![c] = @ + 1]
             /\ UNCHANGED result
    BY <2>1, <2>4, <2>5 DEF CallInv, Answer
  <2>6. ASSUME NEW a \in Decoded(r), sent[c] = Commands \/ r = "error",
               result' = [result EXCEPT ![c] = a], UNCHANGED sent
        PROVE  ClientTypeOK' /\ \A d \in Calls : CallInv(d)' /\ Answer(d)' = Answer(d)
    <3>1. a \in {r, "error"}
      BY <2>6 DEF Decoded
    <3>2. a \notin {"none", "error"} => served[c] = Commands /\ a = reply[c][Commands]
      BY <2>4, <2>6, <3>1
    <3>3. a \in Replies \union {"none"}
      BY <2>2, <3>1 DEF Replies
    <3> HIDE DEF r
    <3> QED
      BY <2>1, <2>4, <2>6, <3>2, <3>3 DEF CallInv, Answer
  <2> QED
    BY <2>3, <2>5, <2>6
<1> QED
  BY <1>1, <1>2, <1>3 DEF Do

\* What Redis serves is the next command in order, and it serves each once.
LEMMA ServeStep ==
    ASSUME ClientTypeOK, \A c \in Calls : CallInv(c), NEW c \in Calls, NEW r \in Replies, Serve(c, r)
    PROVE  /\ ClientTypeOK'
           /\ sent[c] # 0
           /\ UNCHANGED <<sent, result>>
           /\ \A d \in Calls : CallInv(d)'
           /\ \A d \in Calls : d # c => Answer(d)' = Answer(d)
           /\ Answer(c) = "none"
           /\ served[c] + 1 # Commands => Answer(c)' = "none"
           /\ served[c] + 1 = Commands => Answer(c)' = r
<1> USE CommandsType DEF ClientTypeOK, Serve
<1>1. served[c] < sent[c] /\ served[c] + 1 \in 1 .. Commands
  OBVIOUS
<1>2. ClientTypeOK'
  BY <1>1
<1>3. \A d \in Calls : d # c => served'[d] = served[d] /\ reply'[d] = reply[d]
  OBVIOUS
<1>4. served'[c] = served[c] + 1 /\ reply'[c][served[c] + 1] = r
  BY <1>1
<1>5. ASSUME NEW d \in Calls PROVE CallInv(d)'
  BY <1>1, <1>3, <1>4 DEF CallInv
<1> QED
  BY <1>1, <1>2, <1>3, <1>4, <1>5 DEF Answer

-----------------------------------------------------------------------------
\* Nothing has happened yet, so the invariant holds.
LEMMA InitIInv == Init => IInv
<1> SUFFICES ASSUME Init PROVE IInv
  OBVIOUS
<1> USE SessionsAssumption DEF Init, ClientInit
<1>1. ClientTypeOK /\ \A c \in Calls : CallInv(c)
  BY CommandsType DEF ClientTypeOK, CallInv, Replies
<1>2. TypeOK
  BY <1>1 DEF TypeOK
<1>3. \A c \in Calls : Answer(c) = "none" /\ sent[c] = 0
  BY <1>1, AnswerFacts
<1>4. \A s \in Sessions : LoginInv(s) /\ StoredInv(s)
  BY <1>3 DEF LoginInv, StoredInv
<1>5. \A l \in Logouts : LogoutInv(l)
  BY <1>3 DEF LogoutInv
<1>6. \A q \in Checks : CheckInv(q)
  BY <1>3 DEF CheckInv
<1>7. KeysExpire /\ NoEarlyRefusal
  BY DEF KeysExpire, NoEarlyRefusal
<1> QED
  BY <1>1, <1>2, <1>4, <1>5, <1>6, <1>7 DEF IInv

\* The calls stay well-formed while only the services move.
LEMMA SameCalls ==
    ASSUME ClientTypeOK, \A c \in Calls : CallInv(c), UNCHANGED clientVars
    PROVE  ClientTypeOK' /\ \A c \in Calls : CallInv(c)'
  BY DEF clientVars, ClientTypeOK, CallInv

\* Time passing breaks none of it.
LEMMA TickIInv == IInv /\ Tick => IInv'
<1> SUFFICES ASSUME IInv, Tick PROVE IInv'
  OBVIOUS
<1> USE SessionsAssumption DEF Tick, loginVars, keyVars, checkVars
<1>1. ClientTypeOK' /\ \A c \in Calls : CallInv(c)'
  BY SameCalls DEF IInv, TypeOK
<1>2. TypeOK'
  BY <1>1 DEF IInv, TypeOK
<1>3. /\ \A c : Answer(c)' = Answer(c)
      /\ clock \in Nat /\ clock' = clock + 1
      /\ UNCHANGED <<sent, ex, deadline, gone, logout, check, token, late>>
  BY SameAnswers DEF IInv, TypeOK, clientVars
<1>4. ASSUME NEW s \in Sessions PROVE (LoginInv(s) /\ StoredInv(s))'
  BY <1>3 DEF IInv, TypeOK, LoginInv, StoredInv
<1>5. ASSUME NEW l \in Logouts PROVE LogoutInv(l)'
  BY <1>3 DEF IInv, LogoutInv
<1>6. ASSUME NEW q \in Checks PROVE CheckInv(q)'
  BY <1>3, CallsApart DEF IInv, TypeOK, CheckInv, Revoked
<1>7. KeysExpire' /\ NoEarlyRefusal'
  BY DEF IInv, TypeOK, KeysExpire, NoEarlyRefusal
<1> QED
  BY <1>1, <1>2, <1>4, <1>5, <1>6, <1>7 DEF IInv

\* BeginLogin only adds a state.
LEMMA BeginLoginIInv == IInv /\ BeginLogin => IInv'
<1> SUFFICES ASSUME IInv, BeginLogin PROVE IInv'
  OBVIOUS
<1> USE SessionsAssumption DEF BeginLogin, keyVars, checkVars
<1>1. ClientTypeOK' /\ \A c \in Calls : CallInv(c)'
  BY SameCalls DEF IInv, TypeOK
<1>2. TypeOK'
  <2>1. clock + StateTTL \in Nat
    BY DEF IInv, TypeOK
  <2>2. Unix(clock + StateTTL) \in Nat
    BY <2>1, WholeSeconds
  <2> QED
    BY <1>1, <2>2 DEF IInv, TypeOK
<1>3. (\A c : Answer(c)' = Answer(c)) /\ UNCHANGED sent
  BY SameAnswers DEF clientVars
<1>4. ASSUME NEW s \in Sessions PROVE (LoginInv(s) /\ StoredInv(s))'
  BY <1>3 DEF IInv, LoginInv, StoredInv
<1>5. ASSUME NEW l \in Logouts PROVE LogoutInv(l)'
  BY <1>3 DEF IInv, LogoutInv
<1>6. ASSUME NEW q \in Checks PROVE CheckInv(q)'
  BY <1>3 DEF IInv, CheckInv, Revoked
<1>7. KeysExpire' /\ NoEarlyRefusal'
  BY DEF IInv, KeysExpire, NoEarlyRefusal
<1> QED
  BY <1>1, <1>2, <1>4, <1>5, <1>6, <1>7 DEF IInv

\* The steps of a login: none of them touches a key, a logout, a check or a
\* call.
LEMMA LoginIInv == IInv /\ (\E s \in Sessions : LoginStep(s)) => IInv'
<1> SUFFICES ASSUME IInv, NEW s \in Sessions, LoginStep(s) PROVE IInv'
  OBVIOUS
<1> USE SessionsAssumption
<1>1. /\ UNCHANGED <<clock, states, deadline, gone, logout, check, late, token, clientVars>>
      /\ \/ UNCHANGED <<expiresAt, tokenExp, ex>> /\ StartCallback(s)
         \/ UNCHANGED <<expiresAt, tokenExp, ex>> /\ (ProviderFails(s) \/ SaveRefused(s) \/ SaveFails(s))
         \/ UNCHANGED <<expiresAt, tokenExp, ex>> /\ Return(s)
         \/ UNCHANGED <<tokenExp, ex>> /\ CreateSession(s)
         \/ UNCHANGED <<expiresAt, ex>> /\ IssueToken(s)
         \/ UNCHANGED <<expiresAt, tokenExp>> /\ SaveStarts(s)
  BY DEF LoginStep, StartCallback, ProviderFails, SaveRefused, SaveFails, Return, CreateSession,
         IssueToken, SaveStarts, keyVars, checkVars
<1>2. ClientTypeOK' /\ \A c \in Calls : CallInv(c)'
  BY <1>1, SameCalls DEF IInv, TypeOK
<1>3. (\A c : Answer(c)' = Answer(c)) /\ UNCHANGED sent
  BY <1>1, SameAnswers DEF clientVars
<1>4. s \in Calls /\ (sent[s] = 0 => Answer(s) = "none")
  BY CallsApart, AnswerFacts DEF IInv, TypeOK
<1>5. /\ TypeOK'
      /\ LoginInv(s)' /\ StoredInv(s)'
      /\ login[s] # "returned" /\ \A t \in Sessions : t # s => /\ login'[t] = login[t]
                                                               /\ expiresAt'[t] = expiresAt[t]
                                                               /\ tokenExp'[t] = tokenExp[t]
                                                               /\ ex'[t] = ex[t]
  <2>1. CASE UNCHANGED <<expiresAt, tokenExp, ex>> /\ StartCallback(s)
    <3>1. TypeOK'
      BY <1>1, <1>2, <2>1 DEF IInv, TypeOK, StartCallback
    <3>2. login[s] = "new" /\ login'[s] \in {"failed", "exchanging"}
          /\ \A t \in Sessions : t # s => login'[t] = login[t]
      BY <2>1 DEF IInv, TypeOK, StartCallback
    <3> QED
      BY <1>1, <1>3, <1>4, <2>1, <3>1, <3>2 DEF IInv, LoginInv, StoredInv
  <2>2. CASE UNCHANGED <<expiresAt, tokenExp, ex>> /\ (ProviderFails(s) \/ SaveRefused(s) \/ SaveFails(s))
    <3>1. TypeOK'
      BY <1>1, <1>2, <2>2 DEF IInv, TypeOK, ProviderFails, SaveRefused, SaveFails
    <3>2. login[s] # "returned" /\ login'[s] = "failed"
          /\ \A t \in Sessions : t # s => login'[t] = login[t]
      BY <2>2 DEF IInv, TypeOK, ProviderFails, SaveRefused, SaveFails
    <3> QED
      BY <1>1, <1>3, <1>4, <2>2, <3>1, <3>2 DEF IInv, LoginInv, StoredInv
  <2>3. CASE UNCHANGED <<expiresAt, tokenExp, ex>> /\ Return(s)
    <3>1. TypeOK'
      BY <1>1, <1>2, <2>3 DEF IInv, TypeOK, Return
    <3>2. login[s] = "saving" /\ login'[s] = "returned" /\ result[s] \notin {"none", "error"}
          /\ \A t \in Sessions : t # s => login'[t] = login[t]
      BY <2>3 DEF IInv, TypeOK, Return
    <3>3. Answer(s) \notin {"none", "error"}
      BY <1>4, <3>2, AnswerFacts DEF IInv, TypeOK
    <3> QED
      BY <1>1, <1>3, <2>3, <3>1, <3>2, <3>3 DEF IInv, LoginInv, StoredInv
  <2>4. CASE UNCHANGED <<tokenExp, ex>> /\ CreateSession(s)
    <3>1. TypeOK'
      BY <1>1, <1>2, <2>4 DEF IInv, TypeOK, CreateSession
    <3>2. /\ login[s] = "exchanging" /\ login'[s] = "created"
          /\ expiresAt'[s] = clock + SessionTTL /\ clock \in Nat
          /\ \A t \in Sessions : t # s => login'[t] = login[t] /\ expiresAt'[t] = expiresAt[t]
      BY <2>4 DEF IInv, TypeOK, CreateSession
    <3> QED
      BY <1>1, <1>3, <1>4, <2>4, <3>1, <3>2 DEF IInv, LoginInv, StoredInv
  <2>5. CASE UNCHANGED <<expiresAt, ex>> /\ IssueToken(s)
    <3>1. /\ Unix(clock + TokenTTL) \in Nat
          /\ clock + TokenTTL < Unix(clock + TokenTTL) * Second + Second
      <4>1. clock + TokenTTL \in Nat
        BY DEF IInv, TypeOK
      <4> QED
        BY <4>1, WholeSeconds
    <3>2. TypeOK'
      BY <1>1, <1>2, <2>5, <3>1 DEF IInv, TypeOK, IssueToken
    <3>3. /\ login[s] = "created" /\ login'[s] = "issued"
          /\ tokenExp'[s] = Unix(clock + TokenTTL)
          /\ \A t \in Sessions : t # s => login'[t] = login[t] /\ tokenExp'[t] = tokenExp[t]
      BY <2>5 DEF IInv, TypeOK, IssueToken
    <3>4. /\ SessionTTL <= expiresAt[s] /\ expiresAt[s] <= clock + SessionTTL
          /\ expiresAt[s] \in Nat /\ clock \in Nat
      BY <3>3 DEF IInv, TypeOK, LoginInv
    <3>5. expiresAt[s] - SessionTTL + TokenTTL < tokenExp'[s] * Second + Second
      <4>1. Unix(clock + TokenTTL) * Second \in Int
        BY <3>1
      <4> QED
        BY <3>1, <3>3, <3>4, <4>1
    <3> QED
      BY <1>1, <1>3, <1>4, <2>5, <3>2, <3>3, <3>5 DEF IInv, LoginInv, StoredInv
  <2>6. CASE UNCHANGED <<expiresAt, tokenExp>> /\ SaveStarts(s)
    <3>1. RemainingSeconds(s) \in Nat \ {0}
          /\ RemainingSeconds(s) * Second <= expiresAt[s] - clock
          /\ expiresAt[s] - clock < RemainingSeconds(s) * Second + Second
      BY <2>6, WholeSeconds DEF IInv, TypeOK, RemainingSeconds, Unix, SaveStarts
    <3>2. TypeOK'
      BY <1>1, <1>2, <2>6, <3>1 DEF IInv, TypeOK, SaveStarts
    <3>3. /\ login[s] = "issued" /\ login'[s] = "saving"
          /\ ex'[s] = RemainingSeconds(s)
          /\ \A t \in Sessions : t # s => login'[t] = login[t] /\ ex'[t] = ex[t]
      BY <2>6 DEF IInv, TypeOK, SaveStarts
    <3>4. /\ expiresAt[s] <= clock + SessionTTL
          /\ expiresAt[s] \in Nat /\ clock \in Nat
      BY <3>3 DEF IInv, TypeOK, LoginInv
    <3>5. ex'[s] * Second <= SessionTTL /\ clock + ex'[s] * Second + Second > expiresAt[s]
      <4>1. RemainingSeconds(s) * Second \in Int
        BY <3>1
      <4> QED
        BY <3>1, <3>3, <3>4, <4>1
    <3> QED
      BY <1>1, <1>3, <1>4, <2>6, <3>2, <3>3, <3>5 DEF IInv, LoginInv, StoredInv
  <2> QED
    BY <1>1, <2>1, <2>2, <2>3, <2>4, <2>5, <2>6
<1>6. ASSUME NEW t \in Sessions PROVE (LoginInv(t) /\ StoredInv(t))'
  <2>1. CASE t = s
    BY <1>5, <2>1
  <2>2. CASE t # s
    BY <1>1, <1>3, <1>5, <2>2 DEF IInv, LoginInv, StoredInv
  <2> QED
    BY <2>1, <2>2
<1>7. ASSUME NEW l \in Logouts PROVE LogoutInv(l)'
  <2>1. token[l] \in Sessions
    BY DEF IInv, TypeOK
  <2> QED
    BY <1>1, <1>3, <1>5, <2>1 DEF IInv, LogoutInv
<1>8. ASSUME NEW q \in Checks
      PROVE  /\ token[q] \in Sessions
             /\ check[q] # "new" => expiresAt'[token[q]] = expiresAt[token[q]]
             /\ Answer(q) = "nil" => check[q] # "new"
  <2>1. token[q] \in Sessions
    BY DEF IInv, TypeOK
  <2>2. sent[q] = 0 => Answer(q) = "none"
    BY CallsApart, AnswerFacts DEF IInv, TypeOK
  <2> QED
    BY <1>5, <2>1, <2>2 DEF IInv, CheckInv
<1>9. ASSUME NEW q \in Checks PROVE CheckInv(q)'
  BY <1>1, <1>3, <1>5, <1>8 DEF IInv, CheckInv, Revoked
<1>10. KeysExpire'
  BY <1>1 DEF IInv, KeysExpire
<1>11. NoEarlyRefusal'
  BY <1>1, <1>8 DEF IInv, NoEarlyRefusal
<1> QED
  BY <1>2, <1>5, <1>6, <1>7, <1>9, <1>10, <1>11 DEF IInv

\* The service's side of a logout.
LEMMA LogoutIInv == IInv /\ (\E l \in Logouts : LogoutStep(l)) => IInv'
<1> SUFFICES ASSUME IInv, NEW l \in Logouts, LogoutStep(l) PROVE IInv'
  OBVIOUS
<1> USE SessionsAssumption
<1>1. /\ UNCHANGED <<clock, states, login, expiresAt, tokenExp, ex, deadline, gone, check, late>>
      /\ UNCHANGED <<token, clientVars>>
      /\ login[token[l]] = "returned"
      /\ logout[l] # "done" /\ logout' \in [Logouts -> {"new", "deleting", "done", "failed"}]
      /\ logout'[l] # "new" /\ \A m \in Logouts : m # l => logout'[m] = logout[m]
      /\ logout'[l] = "done" => result[l] \notin {"none", "error"}
  BY DEF IInv, TypeOK, LogoutInv, LogoutStep, StartLogout, LogoutEnds, loginVars, keyVars, checkVars
<1>2. ClientTypeOK' /\ \A c \in Calls : CallInv(c)'
  BY <1>1, SameCalls DEF IInv, TypeOK
<1>3. TypeOK'
  BY <1>1, <1>2 DEF IInv, TypeOK
<1>4. (\A c : Answer(c)' = Answer(c)) /\ UNCHANGED sent
  BY <1>1, SameAnswers DEF clientVars
<1>5. ASSUME NEW s \in Sessions PROVE (LoginInv(s) /\ StoredInv(s))'
  BY <1>1, <1>4 DEF IInv, LoginInv, StoredInv
<1>6. logout'[l] = "done" => Answer(l) \notin {"none", "error"}
  BY <1>1, CallsApart, AnswerFacts DEF IInv, TypeOK
<1>7. ASSUME NEW m \in Logouts PROVE LogoutInv(m)'
  BY <1>1, <1>4, <1>6 DEF IInv, LogoutInv
<1>8. Revoked \subseteq Revoked'
  BY <1>1 DEF Revoked
<1>9. ASSUME NEW q \in Checks PROVE CheckInv(q)'
  BY <1>1, <1>4, <1>8 DEF IInv, CheckInv
<1>10. KeysExpire' /\ NoEarlyRefusal'
  BY <1>1 DEF IInv, KeysExpire, NoEarlyRefusal
<1> QED
  BY <1>2, <1>3, <1>5, <1>7, <1>9, <1>10 DEF IInv

\* What Redis answered a check, and what the check concludes from it.
LEMMA CheckIInv == IInv /\ (\E q \in Checks : CheckStep(q)) => IInv'
<1> SUFFICES ASSUME IInv, NEW q \in Checks, CheckStep(q) PROVE IInv'
  OBVIOUS
<1> USE SessionsAssumption
<1>1. /\ UNCHANGED <<clock, states, login, expiresAt, tokenExp, ex, deadline, gone, logout>>
      /\ UNCHANGED <<token, clientVars>>
      /\ token[q] \in Sessions /\ login[token[q]] = "returned" /\ q \in Calls
  BY CallsApart
  DEF IInv, TypeOK, CheckInv, CheckStep, Begin, Load, LoadFails, Decide, loginVars, keyVars
<1>2. ClientTypeOK' /\ \A c \in Calls : CallInv(c)'
  BY <1>1, SameCalls DEF IInv, TypeOK
<1>3. TypeOK'
  BY <1>1, <1>2 DEF IInv, TypeOK, CheckStep, Begin, Load, LoadFails, Decide
<1>4. (\A c : Answer(c)' = Answer(c)) /\ UNCHANGED sent /\ Revoked' = Revoked
  BY <1>1, SameAnswers DEF clientVars, Revoked
<1>5. ASSUME NEW s \in Sessions PROVE (LoginInv(s) /\ StoredInv(s))'
  BY <1>1, <1>4 DEF IInv, LoginInv, StoredInv
<1>6. ASSUME NEW l \in Logouts PROVE LogoutInv(l)'
  BY <1>1, <1>4 DEF IInv, LogoutInv
<1>7. /\ sent[q] = 0 => Answer(q) = "none"
      /\ result[q] \notin {"none", "error"} => Answer(q) = result[q]
  BY <1>1, AnswerFacts DEF IInv, TypeOK
<1>8. /\ check'[q] # "new"
      /\ \A p \in Checks : p # q => check'[p] = check[p] /\ (p \in late' <=> p \in late)
      /\ q \in late' => /\ token[q] \in Revoked
                        /\ check'[q] \in {"loading", "refused", "error"}
                        /\ Answer(q) # "value"
  <2>1. CASE Begin(q)
    BY <1>1, <1>7, <2>1 DEF IInv, TypeOK, CheckInv, Begin
  <2>2. CASE Load(q)
    BY <1>1, <1>7, <2>2 DEF IInv, TypeOK, CheckInv, Load
  <2>3. CASE LoadFails(q) \/ Decide(q)
    BY <1>1, <2>3 DEF IInv, TypeOK, CheckInv, LoadFails, Decide
  <2> QED
    BY <2>1, <2>2, <2>3 DEF CheckStep
<1>9. ASSUME NEW p \in Checks PROVE CheckInv(p)'
  BY <1>1, <1>4, <1>8 DEF IInv, CheckInv
<1>10. ASSUME check[q] # "refused", check'[q] = "refused"
       PROVE  LET s == token[q]
                  issued == expiresAt[s] - SessionTTL
              IN  \/ s \in gone
                  \/ clock + Second > expiresAt[s]
                  \/ clock + Second > issued + TokenTTL
  <2>1. CASE Begin(q)
    <3> DEFINE e == expiresAt[token[q]] - SessionTTL + TokenTTL
    <3>1. /\ tokenExp[token[q]] \in Nat
          /\ e < tokenExp[token[q]] * Second + Second
      BY <1>1 DEF IInv, TypeOK, LoginInv
    <3>2. tokenExp[token[q]] <= Unix(clock)
      <4>1. ~(tokenExp[token[q]] > Unix(clock))
        BY <1>10, <2>1 DEF IInv, TypeOK, Begin, TokenAccepted
      <4>2. Unix(clock) \in Nat
        BY WholeSeconds DEF IInv, TypeOK
      <4> QED
        BY <3>1, <4>1, <4>2
    <3>3. tokenExp[token[q]] * Second <= clock
      BY <3>1, <3>2, ExpiredToken DEF IInv, TypeOK
    <3>4. clock + Second > e
      <4>1. e \in Int /\ clock \in Nat /\ tokenExp[token[q]] * Second \in Int
        BY <1>1, <3>1 DEF IInv, TypeOK
      <4> HIDE DEF e
      <4> QED
        BY <3>1, <3>3, <4>1
    <3> QED
      BY <3>4
  <2>2. CASE Load(q)
    <3>1. Answer(q) = "nil"
      BY <1>7, <1>10, <2>2 DEF IInv, TypeOK, Load
    <3> QED
      BY <3>1 DEF IInv, CheckInv
  <2>3. CASE LoadFails(q)
    BY <1>10, <2>3 DEF IInv, TypeOK, LoadFails
  <2>4. CASE Decide(q)
    BY <1>1, <1>10, <2>4 DEF IInv, TypeOK, Decide
  <2> QED
    BY <2>1, <2>2, <2>3, <2>4 DEF CheckStep
<1>11. NoEarlyRefusal'
  BY <1>1, <1>8, <1>10 DEF IInv, TypeOK, NoEarlyRefusal
<1>12. KeysExpire'
  BY <1>1 DEF IInv, KeysExpire
<1> QED
  BY <1>2, <1>3, <1>5, <1>6, <1>9, <1>11, <1>12 DEF IInv

-----------------------------------------------------------------------------
\* A call is made by one who waits for it, and changes no answer.
LEMMA ClientIInv == IInv /\ (\E c \in Calls : ClientStep(c)) => IInv'
<1> SUFFICES ASSUME IInv, NEW c \in Calls, ClientStep(c) PROVE IInv'
  OBVIOUS
<1> USE SessionsAssumption
<1>1. /\ UNCHANGED <<clock, states, login, expiresAt, tokenExp, ex, deadline, gone, logout, check>>
      /\ UNCHANGED <<late, token>>
      /\ Calling(c) /\ Do(c)
  BY DEF ClientStep, loginVars, keyVars, checkVars
<1>2. /\ ClientTypeOK'
      /\ \A d \in Calls : CallInv(d)' /\ Answer(d)' = Answer(d) /\ (d # c => sent'[d] = sent[d])
  BY <1>1, DoStep DEF IInv, TypeOK
<1>3. TypeOK'
  BY <1>1, <1>2 DEF IInv, TypeOK
<1>4. ASSUME NEW s \in Sessions PROVE (LoginInv(s) /\ StoredInv(s))'
  <2>1. s = c => login[s] = "saving"
    BY <1>1, CallsApart DEF Calling
  <2> QED
    BY <1>1, <1>2, <2>1, CallsApart DEF IInv, LoginInv, StoredInv
<1>5. ASSUME NEW l \in Logouts PROVE LogoutInv(l)'
  <2>1. l = c => logout[l] = "deleting"
    BY <1>1, CallsApart DEF Calling
  <2> QED
    BY <1>1, <1>2, <2>1, CallsApart DEF IInv, LogoutInv
<1>6. ASSUME NEW q \in Checks PROVE CheckInv(q)'
  <2>1. q = c => check[q] = "loading"
    BY <1>1, CallsApart DEF Calling
  <2> QED
    BY <1>1, <1>2, <2>1, CallsApart DEF IInv, CheckInv, Revoked
<1>7. KeysExpire' /\ NoEarlyRefusal'
  BY <1>1 DEF IInv, KeysExpire, NoEarlyRefusal
<1> QED
  BY <1>2, <1>3, <1>4, <1>5, <1>6, <1>7 DEF IInv

\* A reply that leaves the keys alone: to AUTH, SELECT, a GET, or an error.
LEMMA AnsweredIInv ==
    ASSUME IInv, NEW c \in Calls, NEW r \in Replies, Serve(c, r),
           UNCHANGED <<clock, loginVars, keyVars, logout, checkVars, token>>,
           served[c] + 1 = Commands => \/ r = "error"
                                       \/ c \in Checks /\ r = (IF Present(token[c]) THEN "value" ELSE "nil")
    PROVE  IInv'
<1> USE SessionsAssumption DEF loginVars, keyVars, checkVars
<1>1. /\ ClientTypeOK' /\ sent[c] # 0 /\ UNCHANGED <<sent, result>>
      /\ \A d \in Calls : CallInv(d)'
      /\ \A d \in Calls : d # c => Answer(d)' = Answer(d)
      /\ Answer(c) = "none"
      /\ served[c] + 1 # Commands => Answer(c)' = "none"
      /\ served[c] + 1 = Commands => Answer(c)' = r
  BY ServeStep DEF IInv, TypeOK
<1>2. TypeOK'
  BY <1>1 DEF IInv, TypeOK
<1>3. c \notin Checks => Answer(c)' \in {"none", "error"}
  BY <1>1
<1>4. ASSUME NEW s \in Sessions PROVE (LoginInv(s) /\ StoredInv(s))'
  BY <1>1, <1>3, CallsApart DEF IInv, LoginInv, StoredInv
<1>5. ASSUME NEW l \in Logouts PROVE LogoutInv(l)'
  BY <1>1, <1>3, CallsApart DEF IInv, LogoutInv
<1>6. ASSUME NEW q \in Checks PROVE CheckInv(q)'
  <2>1. CASE q # c
    BY <1>1, <2>1, CallsApart DEF IInv, CheckInv, Revoked
  <2>2. CASE q = c
    <3>1. check[q] # "new" /\ token[q] \in Sessions /\ login[token[q]] = "returned"
      BY <1>1, <2>2 DEF IInv, TypeOK, CheckInv
    <3>2. token[q] \in Revoked => deadline[token[q]] = 0
      BY DEF IInv, LogoutInv, Revoked
    <3>3. Answer(q)' \in {"none", "error"} \/ Answer(q)' = (IF Present(token[q]) THEN "value" ELSE "nil")
      BY <1>1, <2>2
    <3>4. token[q] \in Revoked => ~Present(token[q])
      BY <3>2 DEF IInv, TypeOK, Present
    <3>5. ~Present(token[q]) => token[q] \in gone \/ clock + Second > expiresAt[token[q]]
      BY <3>1 DEF IInv, TypeOK, LoginInv, StoredInv, Present
    <3>6. q \in late => token[q] \in Revoked /\ check[q] \in {"loading", "refused", "error"}
      BY DEF IInv, CheckInv
    <3>7. Revoked' = Revoked
      BY DEF Revoked
    <3> HIDE DEF Present, Revoked
    <3> QED
      BY <3>1, <3>3, <3>4, <3>5, <3>6, <3>7 DEF CheckInv
  <2> QED
    BY <2>1, <2>2
<1>7. KeysExpire' /\ NoEarlyRefusal'
  BY DEF IInv, KeysExpire, NoEarlyRefusal
<1> QED
  BY <1>1, <1>2, <1>4, <1>5, <1>6, <1>7 DEF IInv

\* Redis answers without touching a key.
LEMMA RepliesIInv ==
    IInv /\ (\/ \E c \in Calls : RedisReplies(c)
             \/ \E q \in Checks : RedisGet(q)) => IInv'
<1>1. ASSUME IInv, NEW c \in Calls, RedisReplies(c) PROVE IInv'
  <2>1. PICK r \in Replies : Serve(c, r) /\ (served[c] + 1 = Commands => r = "error")
    <3>1. CASE Execute(c, "error")
      BY <3>1 DEF Execute, Replies
    <3>2. CASE Greet(c)
      <4>1. served[c] + 1 # Commands
        BY <1>1, <3>2, CommandsType DEF Greet, IInv, TypeOK, ClientTypeOK
      <4> QED
        BY <3>2, <4>1 DEF Greet, Replies
    <3> QED
      BY <1>1, <3>1, <3>2 DEF RedisReplies
  <2> QED
    BY <1>1, <2>1, AnsweredIInv DEF RedisReplies
<1>2. ASSUME IInv, NEW q \in Checks, RedisGet(q) PROVE IInv'
  <2> DEFINE r == IF Present(token[q]) THEN "value" ELSE "nil"
  <2>1. r \in Replies /\ Serve(q, r) /\ q \in Calls
    BY <1>2, CallsApart DEF RedisGet, Execute, Replies
  <2> QED
    BY <1>2, <2>1, AnsweredIInv DEF RedisGet
<1> QED
  BY <1>1, <1>2

\* The SET: the key is there until less than a second before ExpiresAt.
LEMMA SetIInv == IInv /\ (\E s \in Sessions : RedisSet(s)) => IInv'
<1> SUFFICES ASSUME IInv, NEW s \in Sessions, RedisSet(s) PROVE IInv'
  OBVIOUS
<1> USE SessionsAssumption
<1>1. /\ UNCHANGED <<clock, states, login, expiresAt, tokenExp, ex, gone, logout, check, late, token>>
      /\ deadline' = [deadline EXCEPT ![s] = clock + ex[s] * Second]
      /\ ex[s] > 0 /\ served[s] + 1 = Commands /\ Serve(s, "ok") /\ s \in Calls /\ "ok" \in Replies
  BY CallsApart DEF RedisSet, Execute, Replies, loginVars, checkVars
<1>2. /\ ClientTypeOK' /\ sent[s] # 0 /\ UNCHANGED <<sent, result>>
      /\ \A d \in Calls : CallInv(d)'
      /\ \A d \in Calls : d # s => Answer(d)' = Answer(d)
      /\ Answer(s) = "none" /\ Answer(s)' = "ok"
  BY <1>1, ServeStep DEF IInv, TypeOK
<1>3. /\ clock \in Nat /\ ex[s] \in Nat /\ ex[s] * Second \in Nat /\ expiresAt[s] \in Nat
      /\ ex[s] * Second <= SessionTTL
      /\ clock + ex[s] * Second + Second > expiresAt[s]
      /\ login[s] # "returned"
  BY <1>1, <1>2 DEF IInv, TypeOK, LoginInv
<1>4. /\ deadline' \in [Sessions -> Nat] /\ deadline'[s] = clock + ex[s] * Second
      /\ \A t \in Sessions : t # s => deadline'[t] = deadline[t]
  BY <1>1, <1>3 DEF IInv, TypeOK
<1>5. TypeOK'
  BY <1>1, <1>2, <1>4 DEF IInv, TypeOK
<1>6. ASSUME NEW t \in Sessions PROVE LoginInv(t)'
  BY <1>1, <1>2, <1>3, CallsApart DEF IInv, LoginInv
<1>7. ASSUME NEW t \in Sessions PROVE StoredInv(t)'
  BY <1>1, <1>2, <1>3, <1>4, CallsApart DEF IInv, StoredInv
<1>8. ASSUME NEW l \in Logouts PROVE LogoutInv(l)'
  <2>1. Answer(l)' = Answer(l) /\ token[l] \in Sessions
    BY <1>2, CallsApart DEF IInv, TypeOK
  <2>2. logout[l] = "new" => Answer(l) = "none"
    BY CallsApart, AnswerFacts DEF IInv, TypeOK, LogoutInv
  <2>3. Answer(l) \notin {"none", "error"} => token[l] # s
    BY <1>3, <2>2 DEF IInv, LogoutInv
  <2> QED
    BY <1>1, <1>2, <1>4, <2>1, <2>3 DEF IInv, LogoutInv
<1>9. ASSUME NEW q \in Checks PROVE CheckInv(q)'
  BY <1>1, <1>2, CallsApart DEF IInv, CheckInv, Revoked
<1>10. KeysExpire'
  BY <1>1, <1>3, <1>4 DEF IInv, TypeOK, KeysExpire
<1>11. NoEarlyRefusal'
  BY <1>1 DEF IInv, NoEarlyRefusal
<1> QED
  BY <1>2, <1>5, <1>6, <1>7, <1>8, <1>9, <1>10, <1>11 DEF IInv

\* A key that goes away before its time, by a DEL or by itself.
LEMMA RemovedIInv ==
    ASSUME IInv, NEW s \in Sessions,
           UNCHANGED <<clock, loginVars, logout, checkVars, token>>,
           deadline' = [deadline EXCEPT ![s] = 0], gone' = gone \union {s},
           \/ UNCHANGED clientVars
           \/ \E l \in Logouts : token[l] = s /\ served[l] + 1 = Commands /\ Serve(l, "ok")
    PROVE  IInv'
<1> USE SessionsAssumption DEF loginVars, checkVars
<1>1. /\ ClientTypeOK' /\ UNCHANGED sent
      /\ \A d \in Calls : CallInv(d)'
      /\ \A d \in Calls : \/ Answer(d)' = Answer(d)
                          \/ d \in Logouts /\ token[d] = s /\ logout[d] # "new" /\ Answer(d)' = "ok"
  <2>1. CASE UNCHANGED clientVars
    BY <2>1, SameCalls, SameAnswers DEF IInv, TypeOK, clientVars
  <2>2. ASSUME NEW l \in Logouts, token[l] = s, served[l] + 1 = Commands, Serve(l, "ok")
        PROVE  /\ ClientTypeOK' /\ UNCHANGED sent
               /\ \A d \in Calls : CallInv(d)'
               /\ \A d \in Calls : d # l => Answer(d)' = Answer(d)
               /\ Answer(l)' = "ok" /\ logout[l] # "new"
    <3>1. l \in Calls /\ "ok" \in Replies
      BY CallsApart DEF Replies
    <3>2. /\ ClientTypeOK' /\ UNCHANGED sent /\ sent[l] # 0
          /\ \A d \in Calls : CallInv(d)'
          /\ \A d \in Calls : d # l => Answer(d)' = Answer(d)
          /\ Answer(l)' = "ok"
      BY <2>2, <3>1, ServeStep DEF IInv, TypeOK
    <3> QED
      BY <3>2 DEF IInv, LogoutInv
  <2> QED
    BY <2>1, <2>2
<1>2. /\ deadline' \in [Sessions -> Nat] /\ deadline'[s] = 0
      /\ \A t \in Sessions : t # s => deadline'[t] = deadline[t]
  BY DEF IInv, TypeOK
<1>3. TypeOK'
  BY <1>1, <1>2 DEF IInv, TypeOK
<1>4. ASSUME NEW t \in Sessions PROVE (LoginInv(t) /\ StoredInv(t))'
  <2>1. Answer(t)' = Answer(t)
    BY <1>1, CallsApart
  <2> QED
    BY <1>1, <1>2, <2>1 DEF IInv, LoginInv, StoredInv
<1>5. ASSUME NEW l \in Logouts PROVE LogoutInv(l)'
  BY <1>1, <1>2, CallsApart DEF IInv, TypeOK, LogoutInv
<1>6. ASSUME NEW q \in Checks PROVE CheckInv(q)'
  <2>1. Answer(q)' = Answer(q)
    BY <1>1, CallsApart
  <2> QED
    BY <1>1, <2>1 DEF IInv, CheckInv, Revoked
<1>7. KeysExpire' /\ NoEarlyRefusal'
  BY <1>2 DEF IInv, TypeOK, KeysExpire, NoEarlyRefusal
<1> QED
  BY <1>1, <1>3, <1>4, <1>5, <1>6, <1>7 DEF IInv

\* The DEL of a logout, or Redis itself, removes a key.
LEMMA RemovalIInv ==
    IInv /\ (\/ \E l \in Logouts : RedisDel(l)
             \/ \E s \in Sessions : RedisForgets(s)) => IInv'
<1>1. ASSUME IInv, NEW l \in Logouts, RedisDel(l) PROVE IInv'
  <2>1. token[l] \in Sessions
    BY <1>1 DEF IInv, TypeOK
  <2> QED
    BY <1>1, <2>1, RemovedIInv DEF RedisDel, Execute
<1>2. ASSUME IInv, NEW s \in Sessions, RedisForgets(s) PROVE IInv'
  BY <1>2, RemovedIInv DEF RedisForgets
<1> QED
  BY <1>1, <1>2

-----------------------------------------------------------------------------
\* The strengthened invariant holds in every reachable state.
THEOREM Invariance == Spec => []IInv
<1>1. IInv /\ UNCHANGED vars => IInv'
  <2> SUFFICES ASSUME IInv, UNCHANGED vars PROVE IInv'
    OBVIOUS
  <2>1. ClientTypeOK' /\ \A c \in Calls : CallInv(c)'
    BY SameCalls DEF vars, IInv, TypeOK
  <2>2. \A c : Answer(c)' = Answer(c)
    BY SameAnswers DEF vars
  <2> QED
    BY <2>1, <2>2 DEF vars, loginVars, keyVars, checkVars, clientVars, IInv, TypeOK, LoginInv,
                      StoredInv, LogoutInv, CheckInv, Revoked, KeysExpire, NoEarlyRefusal
<1>2. IInv /\ [Next]_vars => IInv'
  BY <1>1, TickIInv, BeginLoginIInv, LoginIInv, LogoutIInv, CheckIInv, ClientIInv, RepliesIInv,
     SetIInv, RemovalIInv DEF Next
<1> QED
  BY <1>2, InitIInv, PTL DEF Spec

\* Every variable keeps its type.
THEOREM TypeCorrect == Spec => []TypeOK
<1>1. IInv => TypeOK
  BY DEF IInv
<1> QED
  BY <1>1, Invariance, PTL

\* No call returns the reply to another command than its caller's.
THEOREM RepliesMatched == Spec => []AnswersAreOwn
<1>1. IInv => AnswersAreOwn
  BY DEF IInv, CallInv, AnswersAreOwn
<1> QED
  BY <1>1, Invariance, PTL

\* No request that begins after a successful logout is forwarded.
THEOREM LogoutIsFinal == Spec => []LoggedOutStaysOut
<1>1. IInv => LoggedOutStaysOut
  BY DEF IInv, TypeOK, CheckInv, LoggedOutStaysOut
<1> QED
  BY <1>1, Invariance, PTL

\* No request with a token in force is refused more than a second early.
THEOREM TokensHonoured == Spec => []NoEarlyRefusal
<1>1. IInv => NoEarlyRefusal
  BY DEF IInv
<1> QED
  BY <1>1, Invariance, PTL

\* No key outlives SESSION_TTL.
THEOREM KeysAreTemporary == Spec => []KeysExpire
<1>1. IInv => KeysExpire
  BY DEF IInv
<1> QED
  BY <1>1, Invariance, PTL

-----------------------------------------------------------------------------
(* AuthSessions implements SessionRegistry: every step is one of the        *)
(* registry's, or leaves what the registry shows alone.                     *)

\* A token that can be presented belongs to a session that was opened.
LEMMA PresentedWasOpened ==
    ASSUME IInv, NEW s \in Sessions, login[s] = "returned"
    PROVE  status[s] # "absent"
  BY DEF IInv, LoginInv, status

\* A step that changes no answer, no key and no stage is a stutter.
LEMMA Unseen ==
    ASSUME UNCHANGED <<token, logout, check>>,
           \A s \in Sessions : status'[s] = status[s],
           \A q \in Checks : check[q] = "loading" => (Answer(q)' = "value" <=> Answer(q) = "value")
    PROVE  UNCHANGED Registry!vars
<1>1. status' = status
  BY DEF status
<1>2. progress' = progress
  BY DEF progress
<1> QED
  BY <1>1, <1>2 DEF Registry!vars

\* Sessions expire.
LEMMA TickMapped == IInv /\ Tick => [Registry!Next]_(Registry!vars)
<1> SUFFICES ASSUME IInv, Tick PROVE [Registry!Next]_(Registry!vars)
  OBVIOUS
<1> DEFINE S == {s \in Sessions : status[s] = "open" /\ status'[s] # "open"}
<1>1. /\ UNCHANGED <<deadline, token, logout, check>> /\ \A c : Answer(c)' = Answer(c)
      /\ clock \in Nat /\ clock' = clock + 1 /\ deadline \in [Sessions -> Nat]
  BY SameAnswers DEF Tick, IInv, TypeOK, keyVars, checkVars
<1>2. progress' = progress
  BY <1>1 DEF progress
<1>3. ASSUME NEW s \in Sessions
      PROVE  status'[s] = IF s \in S THEN "closed" ELSE status[s]
  <2>1. ~Present(s) => ~Present(s)'
    BY <1>1 DEF Present
  <2> QED
    BY <1>1, <2>1 DEF status
<1>4. status' = [s \in Sessions |-> IF s \in S THEN "closed" ELSE status[s]]
  BY <1>3 DEF status
<1>5. S \in SUBSET Sessions /\ Registry!Close(S)
  BY <1>1, <1>2, <1>4 DEF Registry!Close
<1> QED
  BY <1>5 DEF Registry!Next

\* Nothing of a login shows before its SET.
LEMMA LoginMapped ==
    IInv /\ (BeginLogin \/ \E s \in Sessions : LoginStep(s)) => UNCHANGED Registry!vars
<1> SUFFICES ASSUME BeginLogin \/ \E s \in Sessions : LoginStep(s)
             PROVE  UNCHANGED Registry!vars
  OBVIOUS
<1>1. UNCHANGED <<clock, deadline, token, logout, check, clientVars>>
  BY DEF BeginLogin, LoginStep, StartCallback, ProviderFails, SaveRefused, SaveFails, Return,
         CreateSession, IssueToken, SaveStarts, keyVars, checkVars
<1>2. \A c : Answer(c)' = Answer(c)
  BY <1>1, SameAnswers
<1> QED
  BY <1>1, <1>2, Unseen DEF status, Present

\* A logout's success finds the session closed.
LEMMA LogoutMapped ==
    ASSUME IInv, NEW l \in Logouts, LogoutStep(l)
    PROVE  Registry!Next
<1>1. /\ UNCHANGED <<clock, deadline, token, check, clientVars>>
      /\ token[l] \in Sessions /\ logout \in [Logouts -> {"new", "deleting", "done", "failed"}]
  BY DEF LogoutStep, StartLogout, LogoutEnds, IInv, TypeOK, keyVars, checkVars
<1>2. status' = status /\ progress' = progress
  BY <1>1, SameAnswers DEF status, progress, Present
<1>3. CASE StartLogout(l)
  <2>1. status[token[l]] # "absent"
    BY <1>1, <1>3, PresentedWasOpened DEF StartLogout
  <2> QED
    BY <1>1, <1>2, <1>3, <2>1 DEF StartLogout, Registry!LogOut, Registry!Next
<1>4. CASE LogoutEnds(l)
  <2>1. result[l] # "error" => status[token[l]] = "closed"
    <3>1. result[l] # "error" => Answer(l) \notin {"none", "error"}
      BY <1>4, CallsApart, AnswerFacts DEF LogoutEnds, IInv, TypeOK
    <3>2. status[token[l]] # "absent"
      BY <1>1, <1>4, PresentedWasOpened DEF LogoutEnds, IInv, LogoutInv
    <3>3. result[l] # "error" => ~Present(token[l])
      BY <1>1, <3>1 DEF IInv, TypeOK, LogoutInv, Present
    <3> QED
      BY <1>1, <3>2, <3>3 DEF status
  <2> QED
    BY <1>1, <1>2, <1>4, <2>1 DEF LogoutEnds, Registry!LogOutEnds, Registry!Next
<1> QED
  BY <1>3, <1>4 DEF LogoutStep

\* A check asks, is turned away, or goes on with a session it saw open.
LEMMA CheckMapped ==
    ASSUME IInv, NEW q \in Checks, CheckStep(q)
    PROVE  [Registry!Next]_(Registry!vars)
<1>1. /\ UNCHANGED <<clock, deadline, token, logout, clientVars>>
      /\ token[q] \in Sessions /\ q \in Calls
      /\ check \in [Checks -> {"new", "loading", "deciding", "refused", "error", "forwarded"}]
  BY CallsApart
  DEF CheckStep, Begin, Load, LoadFails, Decide, IInv, TypeOK, keyVars
<1>2. status' = status /\ \A c : Answer(c)' = Answer(c)
  BY <1>1, SameAnswers DEF status, Present
<1>3. /\ sent[q] = 0 => Answer(q) = "none"
      /\ result[q] \notin {"none", "error"} => Answer(q) = result[q]
  BY <1>1, AnswerFacts DEF IInv, TypeOK
<1>4. status[token[q]] # "absent"
  BY <1>1, PresentedWasOpened DEF CheckStep, Begin, Load, LoadFails, Decide, IInv, CheckInv
<1>5. ASSUME NEW stage, check' = [check EXCEPT ![q] = stage], stage \in {"refused", "error", "forwarded"}
      PROVE  progress' = [progress EXCEPT ![q] = stage]
  BY <1>1, <1>2, <1>5 DEF progress
<1>6. CASE Begin(q)
  <2>1. CASE check' = [check EXCEPT ![q] = "loading"]
    <3>1. progress[q] = "new" /\ progress' = [progress EXCEPT ![q] = "asked"]
      <4>1. check[q] = "new" /\ Answer(q)' # "value"
        BY <1>2, <1>3, <1>6 DEF Begin, IInv, CheckInv
      <4>2. check'[q] = "loading" /\ \A p \in Checks : p # q => check'[p] = check[p]
        BY <1>1, <2>1
      <4> QED
        BY <1>2, <4>1, <4>2 DEF progress
    <3> QED
      BY <1>1, <1>2, <1>4, <3>1 DEF Registry!Ask, Registry!Next
  <2>2. CASE check' = [check EXCEPT ![q] = "refused"]
    <3>1. progress[q] = "new"
      BY <1>6 DEF progress, Begin
    <3> QED
      BY <1>1, <1>2, <1>4, <1>5, <2>2, <3>1 DEF Registry!TurnAway, Registry!Next
  <2> QED
    BY <1>6, <2>1, <2>2 DEF Begin
<1>7. CASE Load(q)
  <2>1. CASE result[q] = "value"
    <3>1. progress' = progress
      BY <1>1, <1>2, <1>3, <1>7, <2>1 DEF progress, Load
    <3> QED
      BY <1>1, <1>2, <3>1 DEF Registry!vars
  <2>2. CASE result[q] = "nil"
    <3>1. progress[q] \in {"asked", "seen"} /\ check' = [check EXCEPT ![q] = "refused"]
      BY <1>7, <2>2 DEF progress, Load
    <3> QED
      BY <1>1, <1>2, <1>4, <1>5, <3>1 DEF Registry!TurnAway, Registry!Next
  <2> QED
    BY <1>7, <2>1, <2>2 DEF Load
<1>8. CASE LoadFails(q)
  <2>1. progress[q] \in {"asked", "seen"} /\ check' = [check EXCEPT ![q] = "error"]
    BY <1>8 DEF progress, LoadFails
  <2> QED
    BY <1>1, <1>2, <1>4, <1>5, <2>1 DEF Registry!TurnAway, Registry!Next
<1>9. CASE Decide(q)
  <2>1. progress[q] = "seen"
    BY <1>9 DEF progress, Decide
  <2>2. CASE check' = [check EXCEPT ![q] = "forwarded"]
    BY <1>1, <1>2, <1>5, <2>1, <2>2 DEF Registry!LetThrough, Registry!Next
  <2>3. CASE check' = [check EXCEPT ![q] = "refused"]
    BY <1>1, <1>2, <1>4, <1>5, <2>1, <2>3 DEF Registry!TurnAway, Registry!Next
  <2> QED
    BY <1>9, <2>2, <2>3 DEF Decide
<1> QED
  BY <1>6, <1>7, <1>8, <1>9 DEF CheckStep

\* The client's own steps, and Redis's replies to AUTH and SELECT, do not show.
LEMMA ClientMapped ==
    ASSUME IInv, NEW c \in Calls, ClientStep(c) \/ RedisReplies(c)
    PROVE  UNCHANGED Registry!vars
<1>1. UNCHANGED <<clock, deadline, token, logout, check>>
  BY DEF ClientStep, RedisReplies, keyVars, checkVars
<1>2. \A d \in Calls : \/ Answer(d)' = Answer(d)
                       \/ Answer(d) = "none" /\ Answer(d)' \in {"none", "error"}
  <2>1. CASE ClientStep(c)
    BY <2>1, DoStep DEF ClientStep, IInv, TypeOK
  <2>2. CASE RedisReplies(c)
    <3>1. PICK r \in Replies : Serve(c, r) /\ (served[c] + 1 = Commands => r = "error")
      <4>1. CASE Execute(c, "error")
        BY <4>1 DEF Execute, Replies
      <4>2. CASE Greet(c)
        <5>1. served[c] + 1 # Commands
          BY <4>2, CommandsType DEF Greet, IInv, TypeOK, ClientTypeOK
        <5> QED
          BY <4>2, <5>1 DEF Greet, Replies
      <4> QED
        BY <2>2, <4>1, <4>2 DEF RedisReplies
    <3> QED
      BY <3>1, ServeStep DEF IInv, TypeOK
  <2> QED
    BY <2>1, <2>2
<1>3. \A s \in Sessions : status'[s] = status[s]
  BY <1>1, <1>2, CallsApart DEF status, Present
<1> QED
  BY <1>1, <1>2, <1>3, CallsApart, Unseen

\* The SET opens the session, for the first time.
LEMMA SetMapped ==
    ASSUME IInv, NEW s \in Sessions, RedisSet(s)
    PROVE  Registry!Next
<1>1. /\ UNCHANGED <<clock, token, logout, check>>
      /\ deadline' = [deadline EXCEPT ![s] = clock + ex[s] * Second]
      /\ ex[s] > 0 /\ served[s] + 1 = Commands /\ Serve(s, "ok") /\ s \in Calls /\ "ok" \in Replies
  BY CallsApart DEF RedisSet, Execute, Replies, loginVars, checkVars
<1>2. /\ \A d \in Calls : d # s => Answer(d)' = Answer(d)
      /\ Answer(s) = "none" /\ Answer(s)' = "ok"
  BY <1>1, ServeStep DEF IInv, TypeOK
<1>3. deadline'[s] > clock /\ \A t \in Sessions : t # s => deadline'[t] = deadline[t]
  <2>1. clock \in Nat /\ ex[s] \in Nat \ {0} /\ Second \in Nat \ {0} /\ deadline \in [Sessions -> Nat]
    BY <1>1, SessionsAssumption DEF IInv, TypeOK
  <2>2. ex[s] * Second > 0
    BY <2>1
  <2> QED
    BY <1>1, <2>1, <2>2
<1>4. status[s] = "absent" /\ status' = [status EXCEPT ![s] = "open"]
  BY <1>1, <1>2, <1>3, CallsApart DEF status, Present
<1>5. progress' = progress
  BY <1>1, <1>2, CallsApart DEF progress
<1> QED
  BY <1>1, <1>4, <1>5 DEF Registry!Open, Registry!Next

\* A key that goes away before its time closes the session, if it was there.
LEMMA RemovedMapped ==
    ASSUME IInv, NEW s \in Sessions, UNCHANGED <<clock, token, logout, check>>,
           deadline' = [deadline EXCEPT ![s] = 0],
           \A c \in Sessions \union Checks : Answer(c)' = Answer(c)
    PROVE  [Registry!Next]_(Registry!vars)
<1>1. /\ ~Present(s)'
      /\ \A t \in Sessions : t # s => (Present(t)' <=> Present(t))
  BY DEF IInv, TypeOK, Present
<1>2. progress' = progress
  BY DEF progress
<1>3. CASE status[s] = "open"
  <2>1. status' = [t \in Sessions |-> IF t \in {s} THEN "closed" ELSE status[t]]
    BY <1>1, <1>3 DEF status
  <2>2. Registry!Close({s})
    BY <1>2, <1>3, <2>1 DEF Registry!Close
  <2> QED
    BY <2>2 DEF Registry!Next
<1>4. CASE status[s] # "open"
  <2>1. \A t \in Sessions : status'[t] = status[t]
    BY <1>1, <1>4 DEF status
  <2> QED
    BY <2>1, Unseen
<1> QED
  BY <1>3, <1>4

\* The DEL of a logout, or Redis itself.
LEMMA RemovalMapped ==
    IInv /\ (\/ \E l \in Logouts : RedisDel(l)
             \/ \E s \in Sessions : RedisForgets(s)) => [Registry!Next]_(Registry!vars)
<1>1. ASSUME IInv, NEW l \in Logouts, RedisDel(l) PROVE [Registry!Next]_(Registry!vars)
  <2>1. token[l] \in Sessions /\ Serve(l, "ok") /\ l \in Calls /\ "ok" \in Replies
    BY <1>1, CallsApart DEF RedisDel, Execute, Replies, IInv, TypeOK
  <2>2. \A c \in Sessions \union Checks : Answer(c)' = Answer(c)
    BY <1>1, <2>1, ServeStep, CallsApart DEF IInv, TypeOK
  <2> QED
    BY <1>1, <2>1, <2>2, RemovedMapped DEF RedisDel, checkVars
<1>2. ASSUME IInv, NEW s \in Sessions, RedisForgets(s) PROVE [Registry!Next]_(Registry!vars)
  BY <1>2, SameAnswers, RemovedMapped DEF RedisForgets, checkVars
<1> QED
  BY <1>1, <1>2

\* The GET of a check that still waits for it sees the session open, or not.
LEMMA GetMapped ==
    ASSUME IInv, NEW q \in Checks, RedisGet(q)
    PROVE  [Registry!Next]_(Registry!vars)
<1> DEFINE r == IF Present(token[q]) THEN "value" ELSE "nil"
<1>1. /\ UNCHANGED <<clock, deadline, token, logout, check>>
      /\ r \in Replies /\ Serve(q, r) /\ served[q] + 1 = Commands /\ q \in Calls
      /\ token[q] \in Sessions
      /\ check \in [Checks -> {"new", "loading", "deciding", "refused", "error", "forwarded"}]
  BY CallsApart DEF RedisGet, Execute, Replies, keyVars, checkVars, IInv, TypeOK
<1>2. /\ \A d \in Calls : d # q => Answer(d)' = Answer(d)
      /\ Answer(q) = "none" /\ Answer(q)' = r
  BY <1>1, ServeStep DEF IInv, TypeOK
<1>3. \A s \in Sessions : status'[s] = status[s]
  BY <1>1, <1>2, CallsApart DEF status, Present
<1>4. CASE check[q] = "loading" /\ Present(token[q])
  <2>1. login[token[q]] = "returned"
    BY <1>4 DEF IInv, CheckInv
  <2>2. status[token[q]] = "open"
    BY <1>1, <1>4, <2>1, PresentedWasOpened DEF status
  <2>3. progress[q] = "asked"
    BY <1>2, <1>4 DEF progress
  <2>4. progress' = [progress EXCEPT ![q] = "seen"]
    BY <1>1, <1>2, <1>4, CallsApart DEF progress
  <2>5. status' = status
    BY <1>3 DEF status
  <2> QED
    BY <1>1, <2>2, <2>3, <2>4, <2>5 DEF Registry!See, Registry!Next
<1>5. CASE ~(check[q] = "loading" /\ Present(token[q]))
  <2>1. \A p \in Checks : check[p] = "loading" => (Answer(p)' = "value" <=> Answer(p) = "value")
    BY <1>2, <1>5, CallsApart
  <2> QED
    BY <1>1, <1>3, <2>1, Unseen
<1> QED
  BY <1>4, <1>5

\* Login, logout and the check act as one registry of sessions.
THEOREM RegistryImplemented == Spec => ActsAsRegistry
<1>1. Init => Registry!Init
  <2> SUFFICES ASSUME Init PROVE Registry!Init
    OBVIOUS
  <2>1. \A c \in Calls : Answer(c) = "none"
    BY InitIInv, AnswerFacts DEF IInv, TypeOK, Init, ClientInit
  <2> QED
    BY <2>1, CallsApart DEF Init, Registry!Init, status, progress
<1>2. IInv /\ [Next]_vars => [Registry!Next]_(Registry!vars)
  <2> SUFFICES ASSUME IInv, [Next]_vars PROVE [Registry!Next]_(Registry!vars)
    OBVIOUS
  <2>1. CASE UNCHANGED vars
    BY <2>1, SameAnswers, Unseen DEF vars, keyVars, checkVars, status, Present
  <2> QED
    BY <2>1, TickMapped, LoginMapped, LogoutMapped, CheckMapped, ClientMapped, SetMapped,
       RemovalMapped, GetMapped DEF Next
<1> QED
  BY <1>1, <1>2, Invariance, PTL DEF Spec, ActsAsRegistry, Registry!Spec

\* What is closed stays closed: no late SET, repeated login or failed logout
\* brings the key of a session back.
THEOREM ClosedForGood ==
    Spec => [][\A s \in Sessions : status[s] = "closed" => status'[s] = "closed"]_vars
<1>1. [Registry!Next]_(Registry!vars) =>
          \A s \in Sessions : status[s] = "closed" => status'[s] = "closed"
  <2> SUFFICES ASSUME [Registry!Next]_(Registry!vars), NEW s \in Sessions, status[s] = "closed"
               PROVE  status'[s] = "closed"
    OBVIOUS
  <2>1. ASSUME NEW t \in Sessions, Registry!Open(t) PROVE status'[s] = "closed"
    BY <2>1 DEF Registry!Open, status
  <2>2. ASSUME NEW S \in SUBSET Sessions, Registry!Close(S) PROVE status'[s] = "closed"
    BY <2>2 DEF Registry!Close
  <2>3. CASE status' = status
    BY <2>3
  <2> QED
    BY <2>1, <2>2, <2>3
    DEF Registry!Next, Registry!vars, Registry!LogOut, Registry!LogOutEnds, Registry!Ask,
        Registry!See, Registry!TurnAway, Registry!LetThrough
<1> QED
  BY <1>1, RegistryImplemented, PTL DEF ActsAsRegistry, Registry!Spec
=============================================================================
