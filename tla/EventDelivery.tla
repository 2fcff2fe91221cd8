----------------------------- MODULE EventDelivery -----------------------------
(***************************************************************************)
(* What a consumer of one Kafka partition promises for every event: events *)
(* are settled in the order of the log, and an event that was delivered    *)
(* stays delivered.  An event may be dead-lettered or dropped instead, and *)
(* a second look at it may still deliver it.                               *)
(***************************************************************************)
EXTENDS Integers

CONSTANT Events         \* offsets of the partition, a set of naturals

VARIABLE outcome

Outcomes == {"pending", "dropped", "dead", "delivered"}

Rank == [o \in Outcomes |->
          CASE o = "pending" -> 0 [] o = "dropped" -> 1 [] o = "dead" -> 2 [] OTHER -> 3]

\* Every event before e is settled.
EarlierSettled(e) == \A f \in Events : f < e => outcome[f] # "pending"

Init == outcome = [e \in Events |-> "pending"]

\* An event gets a better outcome than it had.
Settle(e) ==
    /\ EarlierSettled(e)
    /\ \E o \in Outcomes :
          /\ Rank[o] > Rank[outcome[e]]
          /\ outcome' = [outcome EXCEPT ![e] = o]

\* The consumer gives up every event up to n that is not settled yet.
GiveUpTo(n) ==
    outcome' = [e \in Events |->
                  IF e <= n /\ outcome[e] = "pending" THEN "dropped" ELSE outcome[e]]

Next == \E e \in Events : Settle(e) \/ GiveUpTo(e)

Spec == Init /\ [][Next]_outcome
=============================================================================
