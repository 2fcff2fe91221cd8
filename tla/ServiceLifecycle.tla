--------------------------- MODULE ServiceLifecycle ---------------------------
(***************************************************************************)
(* How a service process starts and ends: cmd/server/main.go and App.Close *)
(* of the six services, with requests and consumers under way.             *)
(*                                                                         *)
(* The mains have one shape and differ in two things.  Some treat a        *)
(* Shutdown that timed out as fatal and leave without closing anything,    *)
(* the others log it and close their pools under the feet of the requests  *)
(* still running.  And each closes what it has, in an order of its own.    *)
(*                                                                         *)
(* A request is a query and, where the service has a producer, maybe a     *)
(* write to Kafka; a handler may hang in either for any time.  The close   *)
(* of a Kafka writer refuses writes that come later and waits for those    *)
(* under way; the close of a database refuses statements and waits for     *)
(* none.  posts-service's two writers are one here: it closes them only    *)
(* when no request is left.  A consumer is named like its Kafka reader.    *)
(*                                                                         *)
(* An operator named for a slip (NeverTimesOut and the like) stands before *)
(* the definition it could be mistaken for; LifecycleNext does not use it. *)
(***************************************************************************)
EXTENDS Naturals, Sequences

CONSTANT Handlers     \* requests, each in the goroutine of its handler

Services == {"gateway", "auth", "users", "posts", "feed", "notification"}

\* Those whose main calls log.Fatalf when Shutdown returns an error.
FatalTimeout == {"gateway", "auth", "posts"}

Consumers == {"follower", "post", "interact"}

\* What App.Close closes, in order.
Closes(s) ==
    CASE s = "users"        -> <<"producer", "db">>
      [] s = "posts"        -> <<"producer", "db">>
      [] s = "feed"         -> <<"follower", "post">>
      [] s = "notification" -> <<"follower", "interact", "db">>
      [] OTHER              -> <<>>

VARIABLES
    service,    \* which service this process is
    listener,   \* the server's listener: "none" before ListenAndServe
    main,       \* where main stands
    request,    \* where each handler stands
    consumer,   \* where each consumer's Run stands
    closed,     \* how many of the pools are closed
    timedOut,   \* Shutdown returned the context's error
    lost        \* requests that found the producer closed

processVars == <<listener, main, timedOut>>
lifecycleVars == <<service, processVars, request, consumer, closed, lost>>

Pools == {Closes(service)[i] : i \in DOMAIN Closes(service)}

ClosedPools == {Closes(service)[i] : i \in 1 .. closed}

LifecycleInit ==
    /\ service \in Services
    /\ listener = "none"
    /\ main = "serving"
    /\ request = [r \in Handlers |-> "new"]
    /\ consumer = [c \in Consumers |-> IF c \in Pools THEN "idle" ELSE "stopped"]
    /\ closed = 0
    /\ timedOut = FALSE
    /\ lost = {}

Alive == main # "exited"

Active == {r \in Handlers : request[r] \in {"querying", "announcing", "publishing"}}

-----------------------------------------------------------------------------
(* The HTTP server.                                                        *)

Listen ==
    /\ Alive /\ listener = "none"
    /\ listener' = "open"
    /\ UNCHANGED <<service, main, timedOut, request, consumer, closed, lost>>

\* log.Fatalf in the goroutine of ListenAndServe ends the process.
ListenFails ==
    /\ Alive /\ listener = "none"
    /\ main' = "exited"
    /\ UNCHANGED <<service, listener, timedOut, request, consumer, closed, lost>>

Accept(r) ==
    /\ Alive /\ listener = "open"
    /\ request[r] = "new"
    /\ request' = [request EXCEPT ![r] = "querying"]
    /\ UNCHANGED <<service, processVars, consumer, closed, lost>>

\* What a request goes on to when its statements succeed.
AfterQuery == {"answered"} \union (IF "producer" \in Pools THEN {"announcing"} ELSE {})

\* A statement on a closed sql.DB fails; one that has its connection goes on.
Query(r) ==
    /\ Alive /\ request[r] = "querying"
    /\ \E stage \in AfterQuery \union (IF "db" \in ClosedPools THEN {"failed"} ELSE {}) :
          request' = [request EXCEPT ![r] = stage]
    /\ UNCHANGED <<service, processVars, consumer, closed, lost>>

\* A closed Kafka writer refuses the event; the request succeeds all the same.
Publish(r) ==
    /\ Alive /\ request[r] = "announcing"
    /\ \/ /\ "producer" \in ClosedPools
          /\ request' = [request EXCEPT ![r] = "answered"]
          /\ lost' = lost \union {r}
       \/ /\ "producer" \notin ClosedPools
          /\ request' = [request EXCEPT ![r] = "publishing"]
          /\ UNCHANGED lost
    /\ UNCHANGED <<service, processVars, consumer, closed>>

\* WriteMessages returns, with an error or without.
Written(r) ==
    /\ Alive /\ request[r] = "publishing"
    /\ request' = [request EXCEPT ![r] = "answered"]
    /\ UNCHANGED <<service, processVars, consumer, closed, lost>>

-----------------------------------------------------------------------------
(* The consumers; a stopped one stays so.                                  *)

\* App.Close cancels their context before it waits for them.
Cancelled == main \notin {"serving", "draining"}

Fetch(c) ==
    /\ Alive /\ consumer[c] = "idle"
    /\ consumer' = [consumer EXCEPT ![c] = "handling"]
    /\ UNCHANGED <<service, processVars, request, closed, lost>>

Handle(c) ==
    /\ Alive /\ consumer[c] = "handling"
    /\ consumer' = [consumer EXCEPT ![c] = "idle"]
    /\ UNCHANGED <<service, processVars, request, closed, lost>>

\* Run returns on an error.  Once the context is cancelled its next FetchMessage
\* has one, unless a message is there as well and select takes that.
Stop(c) ==
    /\ Alive /\ consumer[c] \in {"idle", "handling"}
    /\ consumer' = [consumer EXCEPT ![c] = "stopped"]
    /\ UNCHANGED <<service, processVars, request, closed, lost>>

-----------------------------------------------------------------------------
(* main after the signal.                                                  *)

\* Shutdown closes the listener; a ListenAndServe that comes later returns
\* ErrServerClosed.
Signal ==
    /\ main = "serving"
    /\ main' = "draining"
    /\ listener' = "closed"
    /\ UNCHANGED <<service, timedOut, request, consumer, closed, lost>>

Drained ==
    /\ main = "draining"
    /\ Active = {}
    /\ main' = "waiting"
    /\ UNCHANGED <<service, listener, timedOut, request, consumer, closed, lost>>

NeverTimesOut ==
    /\ main = "draining"
    /\ Active = {}
    /\ main' = "waiting"
    /\ UNCHANGED <<service, listener, timedOut, request, consumer, closed, lost>>

\* The ten seconds are over.
ShutdownTimesOut ==
    /\ main = "draining"
    /\ Active # {}
    /\ timedOut' = TRUE
    /\ main' = IF service \in FatalTimeout THEN "exited" ELSE "waiting"
    /\ UNCHANGED <<service, listener, request, consumer, closed, lost>>

DoesNotWait ==
    /\ main = "waiting"
    /\ main' = "closing"
    /\ UNCHANGED <<service, listener, timedOut, request, consumer, closed, lost>>

\* wg.Wait in App.Close.
ConsumersDone ==
    /\ main = "waiting"
    /\ \A c \in Consumers : consumer[c] = "stopped"
    /\ main' = "closing"
    /\ UNCHANGED <<service, listener, timedOut, request, consumer, closed, lost>>

DoesNotFlush ==
    /\ main = "closing"
    /\ closed < Len(Closes(service))
    /\ closed' = closed + 1
    /\ UNCHANGED <<service, processVars, request, consumer, lost>>

\* A pool is closed to what comes later; a Kafka writer's Close goes on to wait.
ClosePool ==
    /\ main = "closing"
    /\ closed < Len(Closes(service))
    /\ closed' = closed + 1
    /\ main' = IF Closes(service)[closed + 1] = "producer" THEN "flushing" ELSE main
    /\ UNCHANGED <<service, listener, timedOut, request, consumer, lost>>

Flushed ==
    /\ main = "flushing"
    /\ \A r \in Handlers : request[r] # "publishing"
    /\ main' = "closing"
    /\ UNCHANGED <<service, listener, timedOut, request, consumer, closed, lost>>

\* notification-service returns at the first pool that fails to close.
CloseFails ==
    /\ main = "closing" /\ service = "notification"
    /\ closed < Len(Closes(service))
    /\ main' = "exited"
    /\ UNCHANGED <<service, listener, timedOut, request, consumer, closed, lost>>

Exit ==
    /\ main = "closing"
    /\ closed = Len(Closes(service))
    /\ main' = "exited"
    /\ UNCHANGED <<service, listener, timedOut, request, consumer, closed, lost>>

Close == ConsumersDone \/ ClosePool \/ Flushed \/ CloseFails \/ Exit

LifecycleNext ==
    \/ Listen \/ ListenFails \/ Signal \/ Drained \/ ShutdownTimesOut \/ Close
    \/ \E r \in Handlers : Accept(r) \/ Query(r) \/ Publish(r) \/ Written(r)
    \/ \E c \in Consumers : Fetch(c) \/ Handle(c) \/ Stop(c)

LifecycleSpec == LifecycleInit /\ [][LifecycleNext]_lifecycleVars

\* main goes on where nothing holds it, and its timer fires.  A consumer that
\* keeps coming back to FetchMessage with a cancelled context does not draw a
\* message every time.  Handlers, their writes to Kafka and the handling of a
\* message may hang.
FairSpec ==
    /\ LifecycleSpec
    /\ WF_lifecycleVars(Drained \/ ShutdownTimesOut) /\ WF_lifecycleVars(Close)
    /\ \A c \in Consumers :
          SF_lifecycleVars(Cancelled /\ consumer[c] = "idle" /\ Stop(c))

-----------------------------------------------------------------------------
\* Every variable keeps its type, and no more pools are closed than there are.
LifecycleTypeOK ==
    /\ service \in Services
    /\ listener \in {"none", "open", "closed"}
    /\ main \in {"serving", "draining", "waiting", "closing", "flushing", "exited"}
    /\ request \in [Handlers ->
          {"new", "querying", "announcing", "publishing", "answered", "failed"}]
    /\ consumer \in [Consumers -> {"idle", "handling", "stopped"}]
    /\ closed \in 0 .. Len(Closes(service))
    /\ timedOut \in BOOLEAN
    /\ lost \subseteq Handlers

\* Nothing is closed while a consumer runs.  A request fails or loses its event
\* on a closed pool, or is cut off by the end of the process, only when it was
\* still running after Shutdown's ten seconds; where that is fatal, requests are
\* cut off but never run into a closed pool, and only there a write to Kafka
\* that had begun is cut off.
PoolsOutliveUse ==
    /\ \A c \in Consumers : consumer[c] # "stopped" => ClosedPools = {}
    /\ \A r \in Handlers :
          /\ request[r] = "failed" \/ r \in lost => timedOut /\ service \notin FatalTimeout
          /\ r \in Active /\ ~ Alive => timedOut
          /\ request[r] = "publishing" /\ ~ Alive => service \in FatalTimeout

\* A signal ends the process, unless a write to Kafka or the handling of a
\* message hangs for good: App.Close waits for these, without a timeout.  A
\* handler that hangs in anything else does not keep it.
SignalEndsProcess ==
    (/\ \A r \in Handlers : []<>(request[r] # "publishing")
     /\ \A c \in Consumers : []<>(consumer[c] # "handling"))
        => (main = "draining" ~> ~ Alive)

=============================================================================
