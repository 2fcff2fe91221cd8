----------------------------- MODULE AuthSessions -----------------------------
(***************************************************************************)
(* The life of a login session: auth-service creates it when Google sends  *)
(* the browser back (HandleCallback), keeps it in Redis under a TTL and    *)
(* removes it on Logout; api-gateway checks the bearer token and the       *)
(* session before it forwards a request (requireAuthenticated), and        *)
(* auth-service's ValidateSession makes the same checks.                   *)
(*                                                                         *)
(* The two services share nothing but Redis and the JWT secret, and reach *)
(* Redis by the calls of RedisClient: Save's SET, DeleteByID's DEL and     *)
(* GetByID's GET.  What has left a service may reach Redis late, or after  *)
(* the caller gave up on it.  The clock ticks in fractions of a second     *)
(* because session.ExpiresAt is exact, while the JWT's exp and the TTL     *)
(* given to Redis are whole seconds.                                       *)
(*                                                                         *)
(* An operator named for a slip (RoundsUp and the like) stands before the  *)
(* definition it could be mistaken for; Next does not use it.              *)
(***************************************************************************)
EXTENDS RedisClient

CONSTANTS
    Sessions,       \* the calls of HandleCallback: each has a session ID of its own
    Logouts,        \* the calls of Logout
    Checks,         \* requests that present a bearer token
    StateTTL,       \* lifetime of an OAuth state, in ticks
    TokenTTL,       \* JWT_EXPIRES_IN, in ticks
    SessionTTL,     \* SESSION_TTL, in ticks
    Second,         \* ticks per second
    MaxTime         \* bound on the clock

ASSUME SessionsAssumption ==
    /\ Calls = Sessions \union Logouts \union Checks
    /\ Sessions \intersect Logouts = {}
    /\ Sessions \intersect Checks = {}
    /\ Logouts \intersect Checks = {}
    /\ StateTTL \in Nat
    /\ TokenTTL \in Nat
    /\ SessionTTL \in Nat
    /\ Second \in Nat \ {0}
    /\ MaxTime \in Nat

VARIABLES
    clock,
    states,     \* expiry of every OAuth state handed out, in Unix seconds
    login,      \* where each HandleCallback stands
    expiresAt,  \* session.ExpiresAt
    tokenExp,   \* the exp claim of the session's JWT, in Unix seconds
    ex,         \* the EX of the session's SET
    deadline,   \* when Redis expires the session's key; a key is there before it
    gone,       \* sessions whose key DEL or Redis itself removed before that
    logout,     \* where each Logout stands
    check,      \* where each check stands
    token,      \* the session whose JWT a logout or a check presents
    late        \* checks that began after a Logout of their session succeeded

keyVars == <<deadline, gone>>
loginVars == <<states, login, expiresAt, tokenExp, ex>>
checkVars == <<check, late>>
vars == <<clock, loginVars, keyVars, logout, checkVars, token, clientVars>>

Unix(t) == t \div Second

Present(s) == deadline[s] > clock

\* Sessions some Logout has answered success for.
Revoked == {token[l] : l \in {m \in Logouts : logout[m] = "done"}}

Init ==
    /\ clock = 0
    /\ states = {}
    /\ login = [s \in Sessions |-> "new"]
    /\ expiresAt = [s \in Sessions |-> 0]
    /\ tokenExp = [s \in Sessions |-> 0]
    /\ ex = [s \in Sessions |-> 0]
    /\ deadline = [s \in Sessions |-> 0]
    /\ gone = {}
    /\ logout = [l \in Logouts |-> "new"]
    /\ check = [q \in Checks |-> "new"]
    /\ token \in [Logouts \union Checks -> Sessions]
    /\ late = {}
    /\ ClientInit

Tick ==
    /\ clock < MaxTime
    /\ clock' = clock + 1
    /\ UNCHANGED <<loginVars, keyVars, logout, checkVars, token, clientVars>>

-----------------------------------------------------------------------------
(* Login.                                                                  *)

\* BeginLogin signs a state; nothing about it is kept on the server.  States
\* that no login is left to use are left out.
BeginLogin ==
    /\ \E s \in Sessions : login[s] = "new"
    /\ states' = states \union {Unix(clock + StateTTL)}
    /\ UNCHANGED <<clock, login, expiresAt, tokenExp, ex, keyVars, logout,
                   checkVars, token, clientVars>>

\* HandleCallback validates the state.  Any state handed out will do, used
\* before or not.
StartCallback(s) ==
    /\ login[s] = "new"
    /\ \E exp \in states :
          login' = [login EXCEPT ![s] =
                      IF exp < Unix(clock) THEN "failed" ELSE "exchanging"]
    /\ UNCHANGED <<clock, states, expiresAt, tokenExp, ex, keyVars, logout,
                   checkVars, token, clientVars>>

\* ExchangeCode or FetchUser fails.
ProviderFails(s) ==
    /\ login[s] = "exchanging"
    /\ login' = [login EXCEPT ![s] = "failed"]
    /\ UNCHANGED <<clock, states, expiresAt, tokenExp, ex, keyVars, logout,
                   checkVars, token, clientVars>>

\* Google's answers are in: session.ExpiresAt is fixed.
CreateSession(s) ==
    /\ login[s] = "exchanging"
    /\ expiresAt' = [expiresAt EXCEPT ![s] = clock + SessionTTL]
    /\ login' = [login EXCEPT ![s] = "created"]
    /\ UNCHANGED <<clock, states, tokenExp, ex, keyVars, logout,
                   checkVars, token, clientVars>>

\* The JWT is signed, its exp from a second reading of the clock.
IssueToken(s) ==
    /\ login[s] = "created"
    /\ tokenExp' = [tokenExp EXCEPT ![s] = Unix(clock + TokenTTL)]
    /\ login' = [login EXCEPT ![s] = "issued"]
    /\ UNCHANGED <<clock, states, expiresAt, ex, keyVars, logout,
                   checkVars, token, clientVars>>

RoundsUp(s) == (expiresAt[s] - clock) \div Second + 1
OneSecondShort(s) == (expiresAt[s] - clock) \div Second - 1

\* The EX that Save computes: whole seconds, rounded down.
RemainingSeconds(s) == (expiresAt[s] - clock) \div Second

\* Save refuses a TTL that is over, and Redis refuses EX 0.
SaveRefused(s) ==
    /\ login[s] = "issued"
    /\ RemainingSeconds(s) <= 0
    /\ login' = [login EXCEPT ![s] = "failed"]
    /\ UNCHANGED <<clock, states, expiresAt, tokenExp, ex, keyVars, logout,
                   checkVars, token, clientVars>>

\* The SET goes out, by a call of the client.
SaveStarts(s) ==
    /\ login[s] = "issued"
    /\ RemainingSeconds(s) > 0
    /\ ex' = [ex EXCEPT ![s] = RemainingSeconds(s)]
    /\ login' = [login EXCEPT ![s] = "saving"]
    /\ UNCHANGED <<clock, states, expiresAt, tokenExp, keyVars, logout,
                   checkVars, token, clientVars>>

\* The SET is acknowledged, and only now does the browser get the token.
Return(s) ==
    /\ login[s] = "saving"
    /\ result[s] \notin {"none", "error"}
    /\ login' = [login EXCEPT ![s] = "returned"]
    /\ UNCHANGED <<clock, states, expiresAt, tokenExp, ex, keyVars, logout,
                   checkVars, token, clientVars>>

\* The call failed, whether or not Redis has the SET.
SaveFails(s) ==
    /\ login[s] = "saving"
    /\ result[s] = "error"
    /\ login' = [login EXCEPT ![s] = "failed"]
    /\ UNCHANGED <<clock, states, expiresAt, tokenExp, ex, keyVars, logout,
                   checkVars, token, clientVars>>

-----------------------------------------------------------------------------
(* Logout.                                                                 *)

\* Parse of either service, on a JWT this service signed.
TokenAccepted(s) == tokenExp[s] > Unix(clock)

\* Logout parses the token it is given; it never looks the session up.  With
\* an expired token it ends here.
StartLogout(l) ==
    /\ logout[l] = "new"
    /\ login[token[l]] = "returned"
    /\ logout' = [logout EXCEPT ![l] = IF TokenAccepted(token[l]) THEN "deleting" ELSE "failed"]
    /\ UNCHANGED <<clock, loginVars, keyVars, checkVars, token, clientVars>>

IgnoresTheError(l) ==
    /\ logout[l] = "deleting"
    /\ result[l] # "none"
    /\ logout' = [logout EXCEPT ![l] = "done"]
    /\ UNCHANGED <<clock, loginVars, keyVars, checkVars, token, clientVars>>

\* The DEL is acknowledged: success.  Otherwise the client gets a 500, whether
\* or not the key is gone, and may try again.
LogoutEnds(l) ==
    /\ logout[l] = "deleting"
    /\ result[l] # "none"
    /\ logout' = [logout EXCEPT ![l] = IF result[l] = "error" THEN "failed" ELSE "done"]
    /\ UNCHANGED <<clock, loginVars, keyVars, checkVars, token, clientVars>>

-----------------------------------------------------------------------------
(* A check: the gateway's requireAuthenticated or ValidateSession.         *)

Begin(q) ==
    /\ check[q] = "new"
    /\ login[token[q]] = "returned"
    /\ late' = IF token[q] \in Revoked THEN late \union {q} ELSE late
    /\ check' = [check EXCEPT ![q] =
                   IF TokenAccepted(token[q]) THEN "loading" ELSE "refused"]
    /\ UNCHANGED <<clock, loginVars, keyVars, logout, token, clientVars>>

\* GetByID has a session, or nil for a key Redis does not have.
Load(q) ==
    /\ check[q] = "loading"
    /\ result[q] \in {"value", "nil"}
    /\ check' = [check EXCEPT ![q] = IF result[q] = "value" THEN "deciding" ELSE "refused"]
    /\ UNCHANGED <<clock, loginVars, keyVars, logout, late, token, clientVars>>

FailsOpen(q) ==
    /\ check[q] = "loading"
    /\ result[q] \in {"error", "ok"}
    /\ check' = [check EXCEPT ![q] = "deciding"]
    /\ UNCHANGED <<clock, loginVars, keyVars, logout, late, token, clientVars>>

\* The call failed or its reply is no session: 500.
LoadFails(q) ==
    /\ check[q] = "loading"
    /\ result[q] \in {"error", "ok"}
    /\ check' = [check EXCEPT ![q] = "error"]
    /\ UNCHANGED <<clock, loginVars, keyVars, logout, late, token, clientVars>>

\* ExpiresAt.Before(now) refuses; otherwise the request goes on.
Decide(q) ==
    /\ check[q] = "deciding"
    /\ check' = [check EXCEPT ![q] =
                   IF expiresAt[token[q]] < clock THEN "refused" ELSE "forwarded"]
    /\ UNCHANGED <<clock, loginVars, keyVars, logout, late, token, clientVars>>

-----------------------------------------------------------------------------
(* The calls, and what Redis does with their commands.                     *)

\* Who waits for Redis.
Calling(c) ==
    \/ c \in Sessions /\ login[c] = "saving"
    \/ c \in Logouts /\ logout[c] = "deleting"
    \/ c \in Checks /\ check[c] = "loading"

ClientStep(c) ==
    /\ Calling(c)
    /\ Do(c)
    /\ UNCHANGED <<clock, loginVars, keyVars, logout, checkVars, token>>

\* Redis answers AUTH or SELECT, or answers the caller's command with an error
\* and does nothing.
RedisReplies(c) ==
    /\ Greet(c) \/ Execute(c, "error")
    /\ UNCHANGED <<clock, loginVars, keyVars, logout, checkVars, token>>

\* SET with EX; Redis refuses EX 0.
RedisSet(s) ==
    /\ ex[s] > 0
    /\ Execute(s, "ok")
    /\ deadline' = [deadline EXCEPT ![s] = clock + ex[s] * Second]
    /\ UNCHANGED <<clock, loginVars, gone, logout, checkVars, token>>

\* DEL of a key that is there or not.
RedisDel(l) ==
    /\ Execute(l, "ok")
    /\ deadline' = [deadline EXCEPT ![token[l]] = 0]
    /\ gone' = gone \union {token[l]}
    /\ UNCHANGED <<clock, loginVars, logout, checkVars, token>>

RedisGet(q) ==
    /\ Execute(q, IF Present(token[q]) THEN "value" ELSE "nil")
    /\ UNCHANGED <<clock, loginVars, keyVars, logout, checkVars, token>>

\* Redis restarts without its data, or evicts the key.
RedisForgets(s) ==
    /\ Present(s)
    /\ deadline' = [deadline EXCEPT ![s] = 0]
    /\ gone' = gone \union {s}
    /\ UNCHANGED <<clock, loginVars, logout, checkVars, token, clientVars>>

LoginStep(s) ==
    \/ StartCallback(s) \/ ProviderFails(s) \/ CreateSession(s) \/ IssueToken(s)
    \/ SaveRefused(s) \/ SaveStarts(s) \/ Return(s) \/ SaveFails(s)

LogoutStep(l) == StartLogout(l) \/ LogoutEnds(l)

CheckStep(q) == Begin(q) \/ Load(q) \/ LoadFails(q) \/ Decide(q)

Next ==
    \/ Tick
    \/ BeginLogin
    \/ \E s \in Sessions : LoginStep(s) \/ RedisSet(s) \/ RedisForgets(s)
    \/ \E l \in Logouts : LogoutStep(l) \/ RedisDel(l)
    \/ \E q \in Checks : CheckStep(q) \/ RedisGet(q)
    \/ \E c \in Calls : ClientStep(c) \/ RedisReplies(c)

Spec == Init /\ [][Next]_vars

-----------------------------------------------------------------------------
TypeOK ==
    /\ clock \in Nat
    /\ states \subseteq Nat
    /\ login \in [Sessions -> {"new", "exchanging", "created", "issued", "saving",
                               "returned", "failed"}]
    /\ expiresAt \in [Sessions -> Nat]
    /\ tokenExp \in [Sessions -> Nat]
    /\ ex \in [Sessions -> Nat]
    /\ deadline \in [Sessions -> Nat]
    /\ gone \subseteq Sessions
    /\ logout \in [Logouts -> {"new", "deleting", "done", "failed"}]
    /\ check \in [Checks -> {"new", "loading", "deciding", "refused",
                             "error", "forwarded"}]
    /\ token \in [Logouts \union Checks -> Sessions]
    /\ late \subseteq Checks
    /\ ClientTypeOK

\* "Logout can invalidate active sessions even when JWTs are still
\* cryptographically valid" (docs/adr/ADR-001): once Logout has answered
\* success, no request that comes later with that session's token is forwarded,
\* whatever SETs, failed logouts and other checks are under way.
LoggedOutStaysOut ==
    \A q \in late : check[q] # "forwarded"

\* A token the browser was given works until a second before it or its session
\* expires: a request with it is refused only then, or after the key was
\* deleted or lost.  Rounding the JWT's exp and Redis's EX down, and the delay
\* of the SET, cost no more than that.
NoEarlyRefusal ==
    \A q \in Checks : check[q] = "refused" =>
        LET s == token[q]
            issued == expiresAt[s] - SessionTTL
        IN  \/ s \in gone
            \/ clock + Second > expiresAt[s]
            \/ clock + Second > issued + TokenTTL

\* No session stays in Redis for good, nor longer than SESSION_TTL from now,
\* not even one whose SET came late or whose login was reported as failed.
KeysExpire ==
    \A s \in Sessions : deadline[s] <= clock + SessionTTL

\* What a session, and a check under way, are to those who know nothing of Redis.
status ==
    [s \in Sessions |-> IF Answer(s) \in {"none", "error"} THEN "absent"
                        ELSE IF Present(s) THEN "open" ELSE "closed"]

progress ==
    [q \in Checks |-> CASE check[q] = "deciding" -> "seen"
                        [] check[q] = "loading" -> IF Answer(q) = "value" THEN "seen" ELSE "asked"
                        [] OTHER -> check[q]]

Registry == INSTANCE SessionRegistry WITH check <- progress

\* Two services, a store with expiring keys, late SETs and lost replies together
\* act as one registry, in which a session is opened once and closed for good
\* and every request that is let through saw it open after it came in.
ActsAsRegistry == Registry!Spec
=============================================================================
