---------------------------- MODULE DeliveryContract ----------------------------
(***************************************************************************)
(* What a persisted retry queue promises of each delivery, whatever stores *)
(* it and whoever drains it: it is recorded as sent only after the endpoint*)
(* took it, it is tried a bounded number of times, and once settled it is  *)
(* never touched again.                                                    *)
(***************************************************************************)
EXTENDS Integers, Sequences

CONSTANT MaxRetries         \* attempts after which a delivery has failed

VARIABLES
    jobs,       \* the deliveries queued so far: status and counted attempts
    acked       \* the deliveries the endpoint has taken at least once

vars == <<jobs, acked>>

Job == [status : {"pending", "sent", "failed"}, attempts : Nat]

Settled(j) == jobs[j].status # "pending"

Init == jobs = << >> /\ acked = {}

Enqueue ==
    /\ jobs' = Append(jobs, [status |-> "pending", attempts |-> 0])
    /\ UNCHANGED acked

Take(j) ==
    /\ ~Settled(j)
    /\ acked' = acked \cup {j}
    /\ UNCHANGED jobs

Settle(j, status) ==
    /\ ~Settled(j)
    /\ status = "sent" => j \in acked
    /\ status = "pending" => jobs[j].attempts + 1 < MaxRetries
    /\ jobs' = [jobs EXCEPT ![j] = [status |-> status, attempts |-> @.attempts + 1]]
    /\ UNCHANGED acked

Next ==
    \/ Enqueue
    \/ \E j \in DOMAIN jobs :
         Take(j) \/ \E status \in {"pending", "sent", "failed"} : Settle(j, status)

Spec == Init /\ [][Next]_vars
=============================================================================
