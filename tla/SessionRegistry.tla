---------------------------- MODULE SessionRegistry ----------------------------
(***************************************************************************)
(* What login, logout and the check of a request promise together: a       *)
(* session is open for one stretch of time and never again, a logout that  *)
(* succeeds leaves it closed, and a request is let through only if its     *)
(* session was open at some moment after the request came in.              *)
(*                                                                         *)
(* Nothing is said of how the session is stored, nor of when it closes by  *)
(* itself; any request may be refused or end with an error.                *)
(***************************************************************************)
CONSTANTS Sessions, Logouts, Checks

VARIABLES
    status,     \* of each session
    token,      \* the session each logout and each check is about
    logout,
    check

vars == <<status, token, logout, check>>

Init ==
    /\ status = [s \in Sessions |-> "absent"]
    /\ token \in [Logouts \union Checks -> Sessions]
    /\ logout = [l \in Logouts |-> "new"]
    /\ check = [q \in Checks |-> "new"]

Open(s) ==
    /\ status[s] = "absent"
    /\ status' = [status EXCEPT ![s] = "open"]
    /\ UNCHANGED <<token, logout, check>>

\* Several sessions may expire at one time.
Close(S) ==
    /\ \A s \in S : status[s] = "open"
    /\ status' = [s \in Sessions |-> IF s \in S THEN "closed" ELSE status[s]]
    /\ UNCHANGED <<token, logout, check>>

\* A token is there to be presented once its session has been opened.
LogOut(l) ==
    /\ logout[l] = "new"
    /\ status[token[l]] # "absent"
    /\ logout' \in {[logout EXCEPT ![l] = end] : end \in {"deleting", "failed"}}
    /\ UNCHANGED <<status, token, check>>

LogOutEnds(l) ==
    /\ logout[l] = "deleting"
    /\ \/ status[token[l]] = "closed" /\ logout' = [logout EXCEPT ![l] = "done"]
       \/ logout' = [logout EXCEPT ![l] = "failed"]
    /\ UNCHANGED <<status, token, check>>

Ask(q) ==
    /\ check[q] = "new"
    /\ status[token[q]] # "absent"
    /\ check' = [check EXCEPT ![q] = "asked"]
    /\ UNCHANGED <<status, token, logout>>

See(q) ==
    /\ check[q] = "asked"
    /\ status[token[q]] = "open"
    /\ check' = [check EXCEPT ![q] = "seen"]
    /\ UNCHANGED <<status, token, logout>>

TurnAway(q) ==
    /\ check[q] \in {"new", "asked", "seen"}
    /\ status[token[q]] # "absent"
    /\ check' \in {[check EXCEPT ![q] = end] : end \in {"refused", "error"}}
    /\ UNCHANGED <<status, token, logout>>

LetThrough(q) ==
    /\ check[q] = "seen"
    /\ check' = [check EXCEPT ![q] = "forwarded"]
    /\ UNCHANGED <<status, token, logout>>

Next ==
    \/ \E s \in Sessions : Open(s)
    \/ \E S \in SUBSET Sessions : Close(S)
    \/ \E l \in Logouts : LogOut(l) \/ LogOutEnds(l)
    \/ \E q \in Checks : Ask(q) \/ See(q) \/ TurnAway(q) \/ LetThrough(q)

Spec == Init /\ [][Next]_vars
=============================================================================
