---------------------------- MODULE WebhookDelivery ----------------------------
(***************************************************************************)
(* Outgoing webhooks: handlers queue one delivery per subscribed endpoint  *)
(* (Store.QueueWebhook), and the worker goroutine posts the due ones and   *)
(* marks the outcome (internal/webhooks/worker.go). Both work on the one   *)
(* connection pool of the process: database/sql makes a statement wait     *)
(* until a connection is free, and an open result set keeps its own.       *)
(***************************************************************************)
EXTENDS Integers, Sequences, FiniteSets, FiniteSetsExt

CONSTANTS
    Endpoints,      \* rows webhook_endpoints may get
    Unusable,       \* those whose URL no request can be built for
    Events,         \* committed changes that raise an event, one request each
    Subscribed,     \* <<endpoint, event>>: enabled, and the event is allowed
    PoolSizes,      \* connections the pool may have; Open asks for one
    MaxRetries,     \* TOCKR_WEBHOOK_MAX_RETRIES
    BatchLimit,     \* deliveries one drain reads
    MaxFaults       \* bound: restarts and failed marks

ASSUME PoolAssumption == PoolSizes \subseteq Nat \ {0}
ASSUME LimitAssumption == MaxRetries \in Nat \ {0} /\ BatchLimit \in Nat \ {0} /\ MaxFaults \in Nat
ASSUME EndpointAssumption == Unusable \subseteq Endpoints /\ Subscribed \subseteq Endpoints \X Events

VARIABLES
    pool,           \* the size of the connection pool
    hooks,          \* table webhook_endpoints
    deliveries,     \* table webhook_deliveries: the id of a row is its index
    stage,          \* how far the request of each event is
    todo,           \* the endpoints QueueWebhook has still to insert a row for
    worker,         \* "asleep", "scanning" the open result set, or "marking"
    cursor,         \* the rows of the result set that are not read yet
    mark,           \* the outcome about to be written
    received,       \* for each delivery, the times its endpoint took it
    lost,           \* for each delivery, the times it was taken and that was not recorded
    faults

requests == <<stage, todo>>
drain    == <<worker, cursor, mark>>
ledger   == <<received, lost>>
vars     == <<pool, hooks, deliveries, requests, drain, ledger, faults>>

Delivery == [endpoint : Endpoints, event : Events, status : {"pending", "sent", "failed"},
             attempts : Nat, due : BOOLEAN]

Mark == [id : Nat, status : {"pending", "sent", "failed"}, attempts : Nat, due : BOOLEAN]

NoMark == [id |-> 0, status |-> "pending", attempts |-> 0, due |-> FALSE]

Init ==
    /\ pool \in PoolSizes
    /\ hooks = {}
    /\ deliveries = << >>
    /\ stage = [e \in Events |-> "new"]
    /\ todo = [e \in Events |-> {}]
    /\ worker = "asleep" /\ cursor = {} /\ mark = NoMark
    /\ received = << >> /\ lost = << >>
    /\ faults = 0

\* Rows hold their connection from the query until they are exhausted or closed;
\* every other statement takes a connection and gives it back.
HeldWhileNested == IF worker = "asleep" THEN 0 ELSE 2
Held == IF worker = "asleep" THEN 0 ELSE 1
Free == Held < pool

-----------------------------------------------------------------------------
(* Requests.                                                               *)

CreateWebhookEndpoint(k) ==
    /\ Free /\ k \notin hooks
    /\ hooks' = hooks \cup {k}
    /\ UNCHANGED <<pool, deliveries, requests, drain, ledger, faults>>

\* The change itself is committed before its event is queued.
CommitChange(e) ==
    /\ stage[e] = "new" /\ Free
    /\ stage' = [stage EXCEPT ![e] = "listing"]
    /\ UNCHANGED <<pool, hooks, deliveries, todo, drain, ledger, faults>>

ListWebhookEndpoints(e) ==
    /\ stage[e] = "listing" /\ Free
    /\ todo' = [todo EXCEPT ![e] = {k \in hooks : <<k, e>> \in Subscribed}]
    /\ stage' = [stage EXCEPT ![e] = "queueing"]
    /\ UNCHANGED <<pool, hooks, deliveries, drain, ledger, faults>>

InsertDeliveryAgain(e, k) ==
    /\ stage[e] = "queueing" /\ Free /\ k \in todo[e] /\ Len(deliveries) < 3
    /\ deliveries' = Append(deliveries, [endpoint |-> k, event |-> e, status |-> "pending",
                                         attempts |-> 0, due |-> TRUE])
    /\ received' = Append(received, 0) /\ lost' = Append(lost, 0)
    /\ UNCHANGED <<pool, hooks, stage, todo, drain, faults>>

InsertDelivery(e, k) ==
    /\ stage[e] = "queueing" /\ Free /\ k \in todo[e]
    /\ deliveries' = Append(deliveries, [endpoint |-> k, event |-> e, status |-> "pending",
                                         attempts |-> 0, due |-> TRUE])
    /\ received' = Append(received, 0) /\ lost' = Append(lost, 0)
    /\ todo' = [todo EXCEPT ![e] = @ \ {k}]
    /\ UNCHANGED <<pool, hooks, stage, drain, faults>>

Respond(e) ==
    /\ stage[e] = "queueing" /\ todo[e] = {}
    /\ stage' = [stage EXCEPT ![e] = "answered"]
    /\ UNCHANGED <<pool, hooks, deliveries, todo, drain, ledger, faults>>

\* The client hangs up (its context cancels the statements to come) or an insert
\* fails: QueueWebhook returns, and the rows it has not inserted never come.
Abandon(e) ==
    /\ stage[e] \in {"listing", "queueing"}
    /\ stage' = [stage EXCEPT ![e] = "dropped"]
    /\ todo' = [todo EXCEPT ![e] = {}]
    /\ UNCHANGED <<pool, hooks, deliveries, drain, ledger, faults>>

-----------------------------------------------------------------------------
(* The worker.                                                             *)

DueOfAnyStatus == {i \in DOMAIN deliveries : deliveries[i].due}
Due == {i \in DOMAIN deliveries : deliveries[i].status = "pending" /\ deliveries[i].due}

BatchOfPositions == 1..BatchLimit

\* ORDER BY d.id LIMIT ?
Batch == {i \in Due : Cardinality({j \in Due : j < i}) < BatchLimit}

\* The backoff of a delivery passes: next_attempt_at <= now.
Elapse(i) ==
    /\ deliveries[i].status = "pending" /\ ~deliveries[i].due
    /\ deliveries' = [deliveries EXCEPT ![i].due = TRUE]
    /\ UNCHANGED <<pool, hooks, requests, drain, ledger, faults>>

\* A tick of the worker finds due deliveries and opens the result set.
PendingWebhookDeliveries ==
    /\ worker = "asleep" /\ Free /\ Due # {}
    /\ cursor' = Batch
    /\ worker' = "scanning"
    /\ UNCHANGED <<pool, hooks, deliveries, requests, mark, ledger, faults>>

Attempted(i) == deliveries[i].attempts + 1

Sent(i)     == [id |-> i, status |-> "sent", attempts |-> Attempted(i), due |-> TRUE]
Rejected(i) == [id |-> i, status |-> "failed", attempts |-> Attempted(i), due |-> FALSE]
RetriedForever(i) == [id |-> i, status |-> "pending", attempts |-> Attempted(i), due |-> FALSE]
Retried(i) ==
    IF Attempted(i) >= MaxRetries
    THEN [id |-> i, status |-> "failed", attempts |-> Attempted(i), due |-> TRUE]
    ELSE [id |-> i, status |-> "pending", attempts |-> Attempted(i), due |-> FALSE]

\* deliver: no request for an unusable URL, otherwise a POST that is taken and
\* answered 2xx, is not taken, or is taken while the answer is late or not 2xx.
DeliverUnsent(i) ==
    /\ worker = "scanning" /\ cursor # {} /\ i = Min(cursor)
    /\ mark' = Sent(i)
    /\ UNCHANGED ledger
    /\ cursor' = cursor \ {i}
    /\ worker' = "marking"
    /\ UNCHANGED <<pool, hooks, deliveries, requests, faults>>

Deliver(i) ==
    /\ worker = "scanning" /\ cursor # {} /\ i = Min(cursor)
    /\ \/ /\ deliveries[i].endpoint \in Unusable
          /\ mark' = Rejected(i)
          /\ UNCHANGED ledger
       \/ /\ deliveries[i].endpoint \notin Unusable
          /\ mark' = Sent(i)
          /\ received' = [received EXCEPT ![i] = @ + 1]
          /\ UNCHANGED lost
       \/ /\ deliveries[i].endpoint \notin Unusable
          /\ mark' = Retried(i)
          /\ UNCHANGED ledger
       \/ /\ deliveries[i].endpoint \notin Unusable
          /\ mark' = Retried(i)
          /\ received' = [received EXCEPT ![i] = @ + 1]
          /\ lost' = [lost EXCEPT ![i] = @ + 1]
    /\ cursor' = cursor \ {i}
    /\ worker' = "marking"
    /\ UNCHANGED <<pool, hooks, deliveries, requests, faults>>

MarkHead ==
    /\ worker = "marking" /\ Free
    /\ deliveries' = [deliveries EXCEPT ![1].status = mark.status,
                                        ![1].attempts = mark.attempts, ![1].due = mark.due]
    /\ mark' = NoMark /\ worker' = "scanning"
    /\ UNCHANGED <<pool, hooks, requests, cursor, ledger, faults>>

\* The update needs a connection besides the one of the open result set.
MarkWebhookDelivery ==
    /\ worker = "marking" /\ Free
    /\ deliveries' = [deliveries EXCEPT ![mark.id] = [@ EXCEPT
          !.status = mark.status, !.attempts = mark.attempts, !.due = mark.due]]
    /\ mark' = NoMark /\ worker' = "scanning"
    /\ UNCHANGED <<pool, hooks, requests, cursor, ledger, faults>>

\* What is known of the outcome is gone: an endpoint that took it will get it again.
Forget == lost' = IF mark.status = "sent" THEN [lost EXCEPT ![mark.id] = @ + 1] ELSE lost

\* The update fails; deliver ignores the error.
FailMark ==
    /\ worker = "marking" /\ Free /\ faults < MaxFaults
    /\ Forget
    /\ mark' = NoMark /\ worker' = "scanning" /\ faults' = faults + 1
    /\ UNCHANGED <<pool, hooks, deliveries, requests, cursor, received>>

CloseRows ==
    /\ worker = "scanning" /\ cursor = {}
    /\ worker' = "asleep"
    /\ UNCHANGED <<pool, hooks, deliveries, requests, cursor, mark, ledger, faults>>

\* The process dies, or is told to shut down, and starts again on the same file.
Restart ==
    /\ faults < MaxFaults /\ faults' = faults + 1
    /\ stage' = [e \in Events |-> IF stage[e] \in {"listing", "queueing"} THEN "dropped" ELSE stage[e]]
    /\ todo' = [e \in Events |-> {}]
    /\ worker' = "asleep" /\ cursor' = {} /\ mark' = NoMark
    /\ Forget
    /\ UNCHANGED <<pool, hooks, deliveries, received>>

Drain ==
    \/ PendingWebhookDeliveries \/ MarkWebhookDelivery \/ CloseRows
    \/ \E i \in DOMAIN deliveries : Deliver(i)

Serve(e) ==
    ListWebhookEndpoints(e) \/ Respond(e) \/ \E k \in Endpoints : InsertDelivery(e, k)

Next ==
    \/ Drain \/ FailMark \/ Restart
    \/ \E k \in Endpoints : CreateWebhookEndpoint(k)
    \/ \E e \in Events : CommitChange(e) \/ Serve(e) \/ Abandon(e)
    \/ \E i \in DOMAIN deliveries : Elapse(i)

\* Goroutines that can run do run, and time passes.
Fairness ==
    /\ WF_vars(Drain)
    /\ \A e \in Events : WF_vars(Serve(e))
    /\ WF_vars(\E i \in DOMAIN deliveries : Elapse(i))

Spec == Init /\ [][Next]_vars /\ Fairness

-----------------------------------------------------------------------------
(* Properties.                                                             *)

TypeOK ==
    /\ pool \in PoolSizes
    /\ hooks \subseteq Endpoints
    /\ deliveries \in Seq(Delivery)
    /\ stage \in [Events -> {"new", "listing", "queueing", "answered", "dropped"}]
    /\ todo \in [Events -> SUBSET Endpoints]
    /\ worker \in {"asleep", "scanning", "marking"}
    /\ cursor \subseteq DOMAIN deliveries
    /\ mark \in Mark
    /\ received \in Seq(Nat) /\ Len(received) = Len(deliveries)
    /\ lost \in Seq(Nat) /\ Len(lost) = Len(deliveries)
    /\ faults \in 0..MaxFaults

\* A delivery is waiting only while it has attempts left, through restarts and
\* marks that failed.
PendingBelowLimit ==
    \A i \in DOMAIN deliveries : deliveries[i].status = "pending" =>
        deliveries[i].attempts < MaxRetries

\* An endpoint gets a delivery twice only if the first time was not recorded: its
\* answer did not arrive, or the process died or failed to write between the answer
\* and the mark.
DuplicatesExplained == \A i \in DOMAIN deliveries : received[i] <= lost[i] + 1

\* One event of one request makes one delivery per endpoint at most, and only for
\* an endpoint that subscribed to it.
OneRowPerEndpoint ==
    /\ \A i, j \in DOMAIN deliveries :
         /\ deliveries[i].endpoint = deliveries[j].endpoint
         /\ deliveries[i].event = deliveries[j].event
         => i = j
    /\ \A i \in DOMAIN deliveries : <<deliveries[i].endpoint, deliveries[i].event>> \in Subscribed

\* The queue implements its contract: recorded as sent only when taken, settled for
\* good, a bounded number of counted attempts.
Contract == INSTANCE DeliveryContract WITH
    jobs  <- [i \in DOMAIN deliveries |->
                [status |-> deliveries[i].status, attempts |-> deliveries[i].attempts]],
    acked <- {i \in DOMAIN received : received[i] > 0}

KeepsContract == Contract!Init /\ [][Contract!Next]_Contract!vars

\* With a connection to spare for the marks, every delivery that was queued is
\* settled in the end, and every request that queues one is answered.
SettlesWithSpareConnection ==
    pool > 1 => \A i \in 1..Cardinality(Subscribed) :
        (i \in DOMAIN deliveries) ~> (i \in DOMAIN deliveries /\ deliveries[i].status # "pending")

AnswersWithSpareConnection ==
    pool > 1 => \A e \in Events :
        (stage[e] = "listing") ~> (stage[e] \in {"answered", "dropped"})

\* The persisted retry queue delivers or gives up.
DeliverySettles ==
    \A i \in 1..Cardinality(Subscribed) :
        (i \in DOMAIN deliveries) ~> (i \in DOMAIN deliveries /\ deliveries[i].status # "pending")
=============================================================================
