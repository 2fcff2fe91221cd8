----------------------------- MODULE RedisClient -----------------------------
(***************************************************************************)
(* Client.Do of auth-service and api-gateway (the same file in both), seen *)
(* from its two ends.  Every call opens a connection of its own, sends     *)
(* AUTH and SELECT where they are configured and then the caller's         *)
(* command, and reads the reply to each before it sends the next.  Redis   *)
(* carries out what has come over a connection in order, at once or late,  *)
(* also when nobody reads the reply any more.                              *)
(*                                                                         *)
(* The module has the actions of both ends, for the modules that say what  *)
(* the commands do.  An operator named for a slip (WritesAhead and the     *)
(* like) stands before the definition it could be mistaken for.            *)
(***************************************************************************)
EXTENDS Integers

CONSTANTS
    Calls,          \* calls of Do
    HasPassword,    \* REDIS_PASSWORD is set
    HasDatabase     \* REDIS_DB is above 0

ASSUME ClientAssumption ==
    /\ HasPassword \in BOOLEAN
    /\ HasDatabase \in BOOLEAN

VARIABLES
    sent,       \* how many commands each call has written
    served,     \* how many of them Redis has carried out or refused
    heard,      \* how many replies the call has read
    reply,      \* Redis's reply to each command
    result      \* what Do returned: "none" while it runs

clientVars == <<sent, served, heard, reply, result>>

\* The commands of one call: AUTH, SELECT, and last the caller's.
Commands == 1 + (IF HasPassword THEN 1 ELSE 0) + (IF HasDatabase THEN 1 ELSE 0)

Replies == {"ok", "error", "nil", "value"}

ClientInit ==
    /\ sent = [c \in Calls |-> 0]
    /\ served = [c \in Calls |-> 0]
    /\ heard = [c \in Calls |-> 0]
    /\ reply = [c \in Calls |-> [k \in 1 .. Commands |-> "none"]]
    /\ result = [c \in Calls |-> "none"]

-----------------------------------------------------------------------------
(* The client's end.                                                       *)

WritesAhead(c) ==
    /\ result[c] = "none"
    /\ sent[c] = 0
    /\ sent' = [sent EXCEPT ![c] = Commands]
    /\ UNCHANGED <<served, heard, reply, result>>

Dial(c) ==
    /\ result[c] = "none"
    /\ sent[c] = 0
    /\ sent' = [sent EXCEPT ![c] = 1]
    /\ UNCHANGED <<served, heard, reply, result>>

ShortReadIsNil(r) == IF r = "value" THEN {"value", "nil"} ELSE {r}

\* What a reply is taken for.  A value is read with one Read, which may stop
\* short of its end; then the caller cannot decode it.
Decoded(r) == IF r = "value" THEN {"value", "error"} ELSE {r}

\* An error reply ends the call; the reply to the last command is its result.
ReadReply(c) ==
    /\ result[c] = "none"
    /\ heard[c] < served[c]
    /\ heard' = [heard EXCEPT ![c] = @ + 1]
    /\ LET r == reply[c][heard[c] + 1]
       IN  \/ /\ sent[c] < Commands /\ r # "error"
              /\ sent' = [sent EXCEPT ![c] = @ + 1]
              /\ UNCHANGED result
           \/ /\ sent[c] = Commands \/ r = "error"
              /\ \E a \in Decoded(r) : result' = [result EXCEPT ![c] = a]
              /\ UNCHANGED sent
    /\ UNCHANGED <<served, reply>>

\* No connection, a broken one, or the deadline; the caller's context only
\* matters for that deadline.
Break(c) ==
    /\ result[c] = "none"
    /\ result' = [result EXCEPT ![c] = "error"]
    /\ UNCHANGED <<sent, served, heard, reply>>

Do(c) == Dial(c) \/ ReadReply(c) \/ Break(c)

-----------------------------------------------------------------------------
(* Redis's end.  What is sent and never served was lost with the           *)
(* connection.                                                             *)

Serve(c, r) ==
    /\ served[c] < sent[c]
    /\ served' = [served EXCEPT ![c] = @ + 1]
    /\ reply' = [reply EXCEPT ![c] = [@ EXCEPT ![served[c] + 1] = r]]
    /\ UNCHANGED <<sent, heard, result>>

\* AUTH and SELECT.
Greet(c) ==
    /\ served[c] + 1 < Commands
    /\ \E r \in {"ok", "error"} : Serve(c, r)

\* The caller's command, answered with r.
Execute(c, r) ==
    /\ served[c] + 1 = Commands
    /\ Serve(c, r)

-----------------------------------------------------------------------------
ClientTypeOK ==
    /\ sent \in [Calls -> 0 .. Commands]
    /\ served \in [Calls -> 0 .. Commands]
    /\ heard \in [Calls -> 0 .. Commands]
    /\ reply \in [Calls -> [1 .. Commands -> Replies \union {"none"}]]
    /\ result \in [Calls -> Replies \union {"none"}]

\* Redis's reply to the caller's own command, once there is one.
Answer(c) == IF served[c] = Commands THEN reply[c][Commands] ELSE "none"

\* A call that ends without an error has had its own command carried out and
\* returns the reply to that command, not to AUTH or SELECT: who is told that a
\* session is stored, deleted or absent can rely on it.
AnswersAreOwn ==
    \A c \in Calls : result[c] \notin {"none", "error"} =>
        /\ served[c] = Commands
        /\ result[c] = reply[c][Commands]
=============================================================================
