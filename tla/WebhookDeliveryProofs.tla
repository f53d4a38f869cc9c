------------------------- MODULE WebhookDeliveryProofs -------------------------
(***************************************************************************)
(* Theorems about WebhookDelivery for every set of endpoints and events,   *)
(* every pool, batch and retry limit, and any number of restarts and       *)
(* failed marks.                                                           *)
(***************************************************************************)
EXTENDS WebhookDelivery, SequenceTheorems, WellFoundedInduction, TLAPS

(***************************************************************************)
(* The strengthening. What the worker holds between two statements: the    *)
(* rows of the open result set are still pending, because nobody else      *)
(* marks, and the outcome about to be written counts one attempt more than *)
(* the row says.                                                           *)
(***************************************************************************)
Scanned == \A i \in cursor : deliveries[i].status = "pending"

Marked ==
    /\ mark.id \in DOMAIN deliveries /\ mark.id \notin cursor
    /\ deliveries[mark.id].status = "pending"
    /\ mark.attempts = deliveries[mark.id].attempts + 1
    /\ mark.status = "pending" => mark.attempts < MaxRetries

WorkerHolds ==
    /\ worker = "asleep" => cursor = {}
    /\ worker # "marking" => mark = NoMark
    /\ worker = "marking" => Marked
    /\ Scanned

\* The outcome about to be written says that the endpoint of i took it.
AboutToBeSent(i) == worker = "marking" /\ mark.id = i /\ mark.status = "sent"

\* Every time an endpoint took a delivery that is still to be tried is accounted for.
Accounted ==
    \A i \in DOMAIN deliveries :
        /\ received[i] <= lost[i] + 1
        /\ deliveries[i].status = "pending" /\ ~AboutToBeSent(i) => received[i] <= lost[i]
        /\ AboutToBeSent(i) => received[i] > 0

\* A request inserts only rows it has not inserted, for endpoints that subscribed; before
\* it has listed them, there is none of its event.
Queued ==
    /\ \A e \in Events : stage[e] # "queueing" => todo[e] = {}
    /\ \A e \in Events : \A k \in todo[e] :
         /\ <<k, e>> \in Subscribed
         /\ \A i \in DOMAIN deliveries : deliveries[i].event = e => deliveries[i].endpoint # k
    /\ \A i \in DOMAIN deliveries : stage[deliveries[i].event] \notin {"new", "listing"}

-----------------------------------------------------------------------------
(* The first row of a result set.                                          *)

LEMMA LeastOf ==
    ASSUME NEW S, S \subseteq Nat, S # {}
    PROVE  Min(S) \in S
<1>1. PICK x \in S : \A y \in S : ~(<<y, x>> \in OpToRel(<, Nat))
  BY NatLessThanWellFounded, WFMin
<1>2. \A y \in S : x <= y
  <2>1. ASSUME NEW y \in S PROVE ~(y < x)
    BY <1>1, <2>1 DEF OpToRel
  <2> QED
    BY <2>1
<1> QED
  BY <1>2 DEF Min

LEMMA NextOfResultSet ==
    ASSUME TypeOK, NEW i, cursor # {}, i = Min(cursor)
    PROVE  i \in cursor /\ i \in DOMAIN deliveries /\ i \in Nat
<1>1. cursor \subseteq Nat
  BY LenProperties DEF TypeOK
<1> QED
  BY <1>1, LeastOf DEF TypeOK

-----------------------------------------------------------------------------
(* Type correctness.                                                       *)

LEMMA Appended ==
    ASSUME NEW S, NEW s \in Seq(S), NEW e \in S
    PROVE  /\ Append(s, e) \in Seq(S) /\ Len(Append(s, e)) = Len(s) + 1
           /\ DOMAIN Append(s, e) = DOMAIN s \cup {Len(s) + 1}
           /\ Len(s) + 1 \notin DOMAIN s
           /\ \A i \in DOMAIN s : Append(s, e)[i] = s[i]
           /\ Append(s, e)[Len(s) + 1] = e
OBVIOUS

LEMMA Replaced ==
    ASSUME NEW S, NEW s \in Seq(S), NEW i \in DOMAIN s, NEW e \in S
    PROVE  /\ [s EXCEPT ![i] = e] \in Seq(S) /\ Len([s EXCEPT ![i] = e]) = Len(s)
           /\ DOMAIN [s EXCEPT ![i] = e] = DOMAIN s
           /\ \A j \in DOMAIN s : [s EXCEPT ![i] = e][j] = IF j = i THEN e ELSE s[j]
BY ExceptSeq, LenProperties

\* A row and its two counters.
LEMMA RowTypes ==
    ASSUME TypeOK, NEW i \in DOMAIN deliveries
    PROVE  /\ deliveries[i] \in Delivery
           /\ i \in DOMAIN received /\ i \in DOMAIN lost
           /\ received[i] \in Nat /\ lost[i] \in Nat
           /\ i \in Nat
BY LenProperties, ElementOfSeq DEF TypeOK

LEMMA NoMarkType == NoMark \in Mark
BY DEF NoMark, Mark

\* A new row is of the types, and its counters begin at nothing.
NewRow(e, k) == [endpoint |-> k, event |-> e, status |-> "pending", attempts |-> 0, due |-> TRUE]

LEMMA InsertedRow ==
    ASSUME TypeOK, NEW e \in Events, NEW k \in Endpoints, InsertDelivery(e, k)
    PROVE  /\ deliveries' \in Seq(Delivery)
           /\ received' \in Seq(Nat) /\ Len(received') = Len(deliveries')
           /\ lost' \in Seq(Nat) /\ Len(lost') = Len(deliveries')
           /\ Len(deliveries) + 1 \notin DOMAIN deliveries
           /\ DOMAIN deliveries' = DOMAIN deliveries \cup {Len(deliveries) + 1}
           /\ deliveries'[Len(deliveries) + 1] = NewRow(e, k)
           /\ received'[Len(deliveries) + 1] = 0 /\ lost'[Len(deliveries) + 1] = 0
           /\ \A i \in DOMAIN deliveries : /\ deliveries'[i] = deliveries[i]
                                           /\ received'[i] = received[i] /\ lost'[i] = lost[i]
<1>1. NewRow(e, k) \in Delivery
  BY DEF NewRow, Delivery
<1>2. deliveries' = Append(deliveries, NewRow(e, k)) /\ deliveries \in Seq(Delivery)
  BY DEF InsertDelivery, NewRow, TypeOK
<1>3. /\ received' = Append(received, 0) /\ received \in Seq(Nat)
      /\ lost' = Append(lost, 0) /\ lost \in Seq(Nat)
      /\ Len(received) = Len(deliveries) /\ Len(lost) = Len(deliveries)
  BY DEF InsertDelivery, TypeOK
<1>4. DOMAIN received = DOMAIN deliveries /\ DOMAIN lost = DOMAIN deliveries
  BY <1>2, <1>3, LenProperties
<1> HIDE DEF NewRow
<1>5. /\ deliveries' \in Seq(Delivery) /\ Len(deliveries') = Len(deliveries) + 1
      /\ DOMAIN deliveries' = DOMAIN deliveries \cup {Len(deliveries) + 1}
      /\ Len(deliveries) + 1 \notin DOMAIN deliveries
      /\ \A i \in DOMAIN deliveries : deliveries'[i] = deliveries[i]
      /\ deliveries'[Len(deliveries) + 1] = NewRow(e, k)
  BY <1>1, <1>2, Appended
<1>6. /\ received' \in Seq(Nat) /\ Len(received') = Len(received) + 1
      /\ \A i \in DOMAIN received : received'[i] = received[i]
      /\ received'[Len(received) + 1] = 0
  BY <1>3, Appended
<1>7. /\ lost' \in Seq(Nat) /\ Len(lost') = Len(lost) + 1
      /\ \A i \in DOMAIN lost : lost'[i] = lost[i]
      /\ lost'[Len(lost) + 1] = 0
  BY <1>3, Appended
<1> QED
  BY <1>3, <1>4, <1>5, <1>6, <1>7

\* What an attempt at a row can come to.
LEMMA OutcomeTypes ==
    ASSUME TypeOK, NEW i \in DOMAIN deliveries
    PROVE  /\ Sent(i) \in Mark /\ Rejected(i) \in Mark /\ Retried(i) \in Mark
           /\ Attempted(i) = deliveries[i].attempts + 1
           /\ \A m \in {Sent(i), Rejected(i), Retried(i)} :
                /\ m.id = i /\ m.attempts = Attempted(i)
                /\ m.status = "pending" => m.attempts < MaxRetries
           /\ Sent(i).status = "sent" /\ Rejected(i).status # "sent" /\ Retried(i).status # "sent"
<1>1. Attempted(i) \in Nat /\ Attempted(i) = deliveries[i].attempts + 1 /\ i \in Nat
  BY RowTypes DEF Delivery, Attempted
<1>2. MaxRetries \in Nat
  BY LimitAssumption
<1> HIDE DEF Attempted
<1> QED
  BY <1>1, <1>2 DEF Sent, Rejected, Retried, Mark

\* A counter of a row goes up.
LEMMA CountedTypes ==
    ASSUME TypeOK, NEW c \in Seq(Nat), Len(c) = Len(deliveries), NEW i \in DOMAIN deliveries
    PROVE  /\ [c EXCEPT ![i] = @ + 1] \in Seq(Nat)
           /\ Len([c EXCEPT ![i] = @ + 1]) = Len(deliveries)
           /\ \A j \in DOMAIN deliveries :
                [c EXCEPT ![i] = @ + 1][j] = IF j = i THEN c[j] + 1 ELSE c[j]
<1>1. DOMAIN c = DOMAIN deliveries
  BY LenProperties DEF TypeOK
<1>2. c[i] + 1 \in Nat
  BY <1>1, ElementOfSeq, LenProperties
<1> QED
  BY <1>1, <1>2, Replaced

\* The row the worker writes: the outcome it holds, and nothing else of the row changes.
LEMMA MarkedRow ==
    ASSUME TypeOK, WorkerHolds, MarkWebhookDelivery
    PROVE  /\ mark.id \in DOMAIN deliveries /\ deliveries[mark.id].status = "pending"
           /\ deliveries' \in Seq(Delivery) /\ Len(deliveries') = Len(deliveries)
           /\ DOMAIN deliveries' = DOMAIN deliveries
           /\ \A i \in DOMAIN deliveries : i # mark.id => deliveries'[i] = deliveries[i]
           /\ deliveries'[mark.id].endpoint = deliveries[mark.id].endpoint
           /\ deliveries'[mark.id].event = deliveries[mark.id].event
           /\ deliveries'[mark.id].status = mark.status
           /\ deliveries'[mark.id].attempts = mark.attempts
<1> DEFINE row == [deliveries[mark.id] EXCEPT
                     !.status = mark.status, !.attempts = mark.attempts, !.due = mark.due]
<1>1. mark.id \in DOMAIN deliveries /\ deliveries[mark.id].status = "pending"
  BY DEF MarkWebhookDelivery, WorkerHolds, Marked
<1>2. deliveries[mark.id] \in Delivery /\ mark \in Mark
  BY <1>1, RowTypes DEF TypeOK
<1>3. /\ row \in Delivery
      /\ row.endpoint = deliveries[mark.id].endpoint /\ row.event = deliveries[mark.id].event
      /\ row.status = mark.status /\ row.attempts = mark.attempts
  BY <1>2 DEF Delivery, Mark
<1>4. deliveries' = [deliveries EXCEPT ![mark.id] = row] /\ deliveries \in Seq(Delivery)
  BY DEF MarkWebhookDelivery, TypeOK
<1> HIDE DEF row
<1> QED
  BY <1>1, <1>3, <1>4, Replaced

\* What one attempt does: an outcome to write, and the counters of its row.
LEMMA DeliveredRow ==
    ASSUME TypeOK, NEW i, Deliver(i)
    PROVE  /\ i \in cursor /\ i \in DOMAIN deliveries
           /\ mark' \in Mark /\ mark'.id = i
           /\ mark'.attempts = deliveries[i].attempts + 1
           /\ mark'.status = "pending" => mark'.attempts < MaxRetries
           /\ received' \in Seq(Nat) /\ Len(received') = Len(deliveries)
           /\ lost' \in Seq(Nat) /\ Len(lost') = Len(deliveries)
           /\ \A j \in DOMAIN deliveries : j # i => received'[j] = received[j] /\ lost'[j] = lost[j]
           /\ \/ mark'.status = "sent" /\ received'[i] = received[i] + 1 /\ lost'[i] = lost[i]
              \/ mark'.status # "sent" /\ received'[i] = received[i] /\ lost'[i] = lost[i]
              \/ mark'.status # "sent" /\ received'[i] = received[i] + 1 /\ lost'[i] = lost[i] + 1
<1>1. i \in cursor /\ i \in DOMAIN deliveries
  BY NextOfResultSet DEF Deliver
<1>2. /\ \A m \in {Sent(i), Rejected(i), Retried(i)} :
           /\ m \in Mark /\ m.id = i /\ m.attempts = deliveries[i].attempts + 1
           /\ m.status = "pending" => m.attempts < MaxRetries
      /\ Sent(i).status = "sent" /\ Rejected(i).status # "sent" /\ Retried(i).status # "sent"
  BY <1>1, OutcomeTypes
<1> DEFINE up(c) == [c EXCEPT ![i] = @ + 1]
<1>3. /\ received \in Seq(Nat) /\ Len(received) = Len(deliveries)
      /\ lost \in Seq(Nat) /\ Len(lost) = Len(deliveries)
  BY DEF TypeOK
<1>4. \A c \in {received, lost} :
        /\ up(c) \in Seq(Nat) /\ Len(up(c)) = Len(deliveries)
        /\ \A j \in DOMAIN deliveries : up(c)[j] = IF j = i THEN c[j] + 1 ELSE c[j]
  BY <1>1, <1>3, CountedTypes
<1>5. \/ mark' = Rejected(i) /\ received' = received /\ lost' = lost
      \/ mark' = Sent(i) /\ received' = up(received) /\ lost' = lost
      \/ mark' = Retried(i) /\ received' = received /\ lost' = lost
      \/ mark' = Retried(i) /\ received' = up(received) /\ lost' = up(lost)
  BY DEF Deliver, ledger
<1> HIDE DEF up
<1>6. /\ mark' \in Mark /\ mark'.id = i /\ mark'.attempts = deliveries[i].attempts + 1
      /\ mark'.status = "pending" => mark'.attempts < MaxRetries
  BY <1>2, <1>5
<1>7. CASE mark' = Rejected(i) /\ received' = received /\ lost' = lost
  BY <1>1, <1>2, <1>3, <1>6, <1>7
<1>8. CASE mark' = Sent(i) /\ received' = up(received) /\ lost' = lost
  BY <1>1, <1>2, <1>3, <1>4, <1>6, <1>8
<1>9. CASE mark' = Retried(i) /\ received' = received /\ lost' = lost
  BY <1>1, <1>2, <1>3, <1>6, <1>9
<1>10. CASE mark' = Retried(i) /\ received' = up(received) /\ lost' = up(lost)
  BY <1>1, <1>2, <1>3, <1>4, <1>6, <1>10
<1> QED
  BY <1>5, <1>7, <1>8, <1>9, <1>10

\* What a failed mark, and a restart, do to the counters of the ledger.
LEMMA Forgotten ==
    ASSUME TypeOK, WorkerHolds, Forget
    PROVE  /\ lost' \in Seq(Nat) /\ Len(lost') = Len(deliveries)
           /\ \A i \in DOMAIN deliveries :
                lost'[i] = IF AboutToBeSent(i) THEN lost[i] + 1 ELSE lost[i]
<1>1. lost \in Seq(Nat) /\ Len(lost) = Len(deliveries)
  BY DEF TypeOK
<1>2. CASE mark.status = "sent"
  <2>1. worker = "marking"
    BY <1>2 DEF WorkerHolds, NoMark
  <2>2. mark.id \in DOMAIN deliveries
    BY <2>1 DEF WorkerHolds, Marked
  <2>3. lost' = [lost EXCEPT ![mark.id] = @ + 1]
    BY <1>2 DEF Forget
  <2> QED
    BY <1>1, <1>2, <2>1, <2>2, <2>3, CountedTypes DEF AboutToBeSent
<1>3. CASE mark.status # "sent"
  BY <1>1, <1>3 DEF Forget, AboutToBeSent
<1> QED
  BY <1>2, <1>3

LEMMA ElapsedRow ==
    ASSUME TypeOK, NEW i \in DOMAIN deliveries, Elapse(i)
    PROVE  /\ deliveries' \in Seq(Delivery) /\ Len(deliveries') = Len(deliveries)
           /\ DOMAIN deliveries' = DOMAIN deliveries
           /\ \A j \in DOMAIN deliveries :
                /\ deliveries'[j].endpoint = deliveries[j].endpoint
                /\ deliveries'[j].event = deliveries[j].event
                /\ deliveries'[j].status = deliveries[j].status
                /\ deliveries'[j].attempts = deliveries[j].attempts
<1> DEFINE row == [deliveries[i] EXCEPT !.due = TRUE]
<1>1. deliveries[i] \in Delivery
  BY RowTypes
<1>2. /\ row \in Delivery
      /\ row.endpoint = deliveries[i].endpoint /\ row.event = deliveries[i].event
      /\ row.status = deliveries[i].status /\ row.attempts = deliveries[i].attempts
  BY <1>1 DEF Delivery
<1>3. deliveries' = [deliveries EXCEPT ![i] = row] /\ deliveries \in Seq(Delivery)
  BY DEF Elapse, TypeOK
<1> HIDE DEF row
<1> QED
  BY <1>2, <1>3, Replaced

\* A step is one of these.
LEMMA Steps ==
    ASSUME Next
    PROVE  \/ \E k \in Endpoints : CreateWebhookEndpoint(k)
           \/ \E e \in Events : CommitChange(e) \/ ListWebhookEndpoints(e) \/ Respond(e) \/ Abandon(e)
           \/ \E e \in Events : \E k \in Endpoints : InsertDelivery(e, k)
           \/ \E i \in DOMAIN deliveries : Elapse(i) \/ Deliver(i)
           \/ PendingWebhookDeliveries \/ MarkWebhookDelivery \/ CloseRows \/ FailMark \/ Restart
BY DEF Next, Drain, Serve

LEMMA TypeStep == TypeOK /\ WorkerHolds /\ [Next]_vars => TypeOK'
<1> SUFFICES ASSUME TypeOK, WorkerHolds, [Next]_vars PROVE TypeOK'
  OBVIOUS
<1> USE DEF requests, drain, ledger
<1>1. CASE UNCHANGED vars
  BY <1>1 DEF vars, TypeOK
<1>2. ASSUME NEW k \in Endpoints, CreateWebhookEndpoint(k) PROVE TypeOK'
  BY <1>2 DEF CreateWebhookEndpoint, TypeOK
<1>3. ASSUME NEW e \in Events, CommitChange(e) \/ ListWebhookEndpoints(e) \/ Respond(e) \/ Abandon(e)
      PROVE  TypeOK'
  <2>1. stage' \in [Events -> {"new", "listing", "queueing", "answered", "dropped"}]
    BY <1>3 DEF CommitChange, ListWebhookEndpoints, Respond, Abandon, TypeOK
  <2>2. todo' \in [Events -> SUBSET Endpoints]
    BY <1>3 DEF CommitChange, ListWebhookEndpoints, Respond, Abandon, TypeOK
  <2>3. UNCHANGED <<pool, hooks, deliveries, drain, ledger, faults>>
    BY <1>3 DEF CommitChange, ListWebhookEndpoints, Respond, Abandon
  <2> QED
    BY <2>1, <2>2, <2>3 DEF TypeOK
<1>4. ASSUME NEW e \in Events, NEW k \in Endpoints, InsertDelivery(e, k) PROVE TypeOK'
  <2>1. todo' \in [Events -> SUBSET Endpoints] /\ UNCHANGED <<pool, hooks, stage, drain, faults>>
    BY <1>4 DEF InsertDelivery, TypeOK
  <2>2. cursor' \subseteq DOMAIN deliveries'
    BY <1>4, <2>1, InsertedRow DEF TypeOK
  <2> QED
    BY <1>4, <2>1, <2>2, InsertedRow DEF TypeOK
<1>5. ASSUME NEW i \in DOMAIN deliveries, Elapse(i) PROVE TypeOK'
  <2>1. UNCHANGED <<pool, hooks, requests, drain, ledger, faults>>
    BY <1>5 DEF Elapse
  <2> QED
    BY <1>5, <2>1, ElapsedRow DEF TypeOK
<1>6. ASSUME NEW i \in DOMAIN deliveries, Deliver(i) PROVE TypeOK'
  <2>1. /\ cursor' \subseteq DOMAIN deliveries /\ worker' = "marking"
        /\ UNCHANGED <<pool, hooks, deliveries, requests, faults>>
    BY <1>6 DEF Deliver, TypeOK
  <2> QED
    BY <1>6, <2>1, DeliveredRow DEF TypeOK
<1>7. CASE PendingWebhookDeliveries
  <2>1. cursor' \subseteq DOMAIN deliveries
    BY <1>7 DEF PendingWebhookDeliveries, Batch, Due
  <2> QED
    BY <1>7, <2>1 DEF PendingWebhookDeliveries, TypeOK
<1>8. CASE MarkWebhookDelivery
  <2>1. mark' \in Mark /\ worker' = "scanning"
        /\ UNCHANGED <<pool, hooks, requests, cursor, ledger, faults>>
    BY <1>8, NoMarkType DEF MarkWebhookDelivery
  <2> QED
    BY <1>8, <2>1, MarkedRow DEF TypeOK
<1>9. CASE CloseRows
  BY <1>9 DEF CloseRows, TypeOK
<1>10. CASE FailMark
  <2>1. /\ mark' \in Mark /\ worker' = "scanning" /\ faults' \in 0..MaxFaults /\ Forget
        /\ UNCHANGED <<pool, hooks, deliveries, requests, cursor, received>>
    BY <1>10, NoMarkType, LimitAssumption DEF FailMark, TypeOK
  <2> QED
    BY <2>1, Forgotten DEF TypeOK
<1>11. CASE Restart
  <2>1. /\ stage' \in [Events -> {"new", "listing", "queueing", "answered", "dropped"}]
        /\ todo' \in [Events -> SUBSET Endpoints]
    BY <1>11 DEF Restart, TypeOK
  <2>2. /\ mark' \in Mark /\ worker' = "asleep" /\ cursor' = {} /\ faults' \in 0..MaxFaults /\ Forget
        /\ UNCHANGED <<pool, hooks, deliveries, received>>
    BY <1>11, NoMarkType, LimitAssumption DEF Restart, TypeOK
  <2> QED
    BY <2>1, <2>2, Forgotten DEF TypeOK
<1> QED
  BY <1>1, <1>2, <1>3, <1>4, <1>5, <1>6, <1>7, <1>8, <1>9, <1>10, <1>11, Steps

-----------------------------------------------------------------------------
(* What the worker holds.                                                  *)

\* Steps that leave the worker alone and settle no row.
LEMMA WorkerUndisturbed ==
    ASSUME TypeOK, WorkerHolds, UNCHANGED drain, DOMAIN deliveries \subseteq DOMAIN deliveries',
           \A i \in DOMAIN deliveries : /\ deliveries'[i].status = deliveries[i].status
                                        /\ deliveries'[i].attempts = deliveries[i].attempts
    PROVE  WorkerHolds'
<1>1. UNCHANGED <<worker, cursor, mark>> /\ cursor \subseteq DOMAIN deliveries
  BY DEF drain, TypeOK
<1>2. Scanned'
  BY <1>1 DEF Scanned, WorkerHolds
<1>3. worker' = "marking" => Marked'
  BY <1>1 DEF Marked, WorkerHolds
<1> QED
  BY <1>1, <1>2, <1>3 DEF WorkerHolds

LEMMA WorkerStep == TypeOK /\ WorkerHolds /\ [Next]_vars => WorkerHolds'
<1> SUFFICES ASSUME TypeOK, WorkerHolds, [Next]_vars PROVE WorkerHolds'
  OBVIOUS
<1>1. CASE UNCHANGED vars
  BY <1>1, WorkerUndisturbed DEF vars
<1>2. ASSUME NEW k \in Endpoints, CreateWebhookEndpoint(k) PROVE WorkerHolds'
  BY <1>2, WorkerUndisturbed DEF CreateWebhookEndpoint
<1>3. ASSUME NEW e \in Events, CommitChange(e) \/ ListWebhookEndpoints(e) \/ Respond(e) \/ Abandon(e)
      PROVE  WorkerHolds'
  <2>1. UNCHANGED <<deliveries, drain>>
    BY <1>3 DEF CommitChange, ListWebhookEndpoints, Respond, Abandon
  <2> QED
    BY <2>1, WorkerUndisturbed
<1>4. ASSUME NEW e \in Events, NEW k \in Endpoints, InsertDelivery(e, k) PROVE WorkerHolds'
  <2>1. UNCHANGED drain
    BY <1>4 DEF InsertDelivery
  <2> QED
    BY <1>4, <2>1, InsertedRow, WorkerUndisturbed
<1>5. ASSUME NEW i \in DOMAIN deliveries, Elapse(i) PROVE WorkerHolds'
  <2>1. UNCHANGED drain
    BY <1>5 DEF Elapse
  <2> QED
    BY <1>5, <2>1, ElapsedRow, WorkerUndisturbed
<1>6. ASSUME NEW i \in DOMAIN deliveries, Deliver(i) PROVE WorkerHolds'
  <2>1. cursor' = cursor \ {i} /\ worker' = "marking" /\ UNCHANGED deliveries
    BY <1>6 DEF Deliver
  <2>2. Scanned' /\ deliveries[i].status = "pending"
    BY <1>6, <2>1, DeliveredRow DEF Scanned, WorkerHolds
  <2>3. Marked'
    BY <1>6, <2>1, <2>2, DeliveredRow DEF Marked
  <2> QED
    BY <2>1, <2>2, <2>3 DEF WorkerHolds
<1>7. CASE PendingWebhookDeliveries
  <2>1. worker' = "scanning" /\ mark' = NoMark /\ UNCHANGED deliveries
    BY <1>7 DEF PendingWebhookDeliveries, WorkerHolds
  <2>2. Scanned'
    BY <1>7, <2>1 DEF PendingWebhookDeliveries, Scanned, Batch, Due
  <2> QED
    BY <2>1, <2>2 DEF WorkerHolds
<1>8. CASE MarkWebhookDelivery
  <2>1. worker' = "scanning" /\ mark' = NoMark /\ UNCHANGED cursor
    BY <1>8 DEF MarkWebhookDelivery
  <2>2. cursor \subseteq DOMAIN deliveries \ {mark.id}
    BY <1>8 DEF MarkWebhookDelivery, WorkerHolds, Marked, TypeOK
  <2>3. Scanned'
    BY <1>8, <2>1, <2>2, MarkedRow DEF Scanned, WorkerHolds
  <2> QED
    BY <2>1, <2>3 DEF WorkerHolds
<1>9. CASE CloseRows
  BY <1>9 DEF CloseRows, WorkerHolds, Scanned
<1>10. CASE FailMark
  BY <1>10 DEF FailMark, WorkerHolds, Scanned
<1>11. CASE Restart
  BY <1>11 DEF Restart, WorkerHolds, Scanned
<1> QED
  BY <1>1, <1>2, <1>3, <1>4, <1>5, <1>6, <1>7, <1>8, <1>9, <1>10, <1>11, Steps

LEMMA TypeInit == Init => TypeOK /\ WorkerHolds
<1> SUFFICES ASSUME Init PROVE TypeOK /\ WorkerHolds
  OBVIOUS
<1>1. deliveries = << >> /\ received = << >> /\ lost = << >> /\ cursor = {} /\ mark = NoMark
  BY DEF Init
<1>2. /\ deliveries \in Seq(Delivery) /\ received \in Seq(Nat) /\ lost \in Seq(Nat)
      /\ Len(received) = Len(deliveries) /\ Len(lost) = Len(deliveries)
  BY <1>1, EmptySeq
<1>3. faults \in 0..MaxFaults
  BY LimitAssumption DEF Init
<1>4. TypeOK
  BY <1>1, <1>2, <1>3, NoMarkType DEF Init, TypeOK
<1> QED
  BY <1>1, <1>4 DEF Init, WorkerHolds, Scanned

\* The tables, the requests and the worker keep their types.
THEOREM TypeCorrect == Spec => []TypeOK
<1>1. TypeOK /\ WorkerHolds /\ [Next]_vars => (TypeOK /\ WorkerHolds)'
  BY TypeStep, WorkerStep
<1> QED
  BY <1>1, TypeInit, PTL DEF Spec

\* The rows the worker has read and the outcome it is about to write are still those of
\* the table when it comes to write: nobody else marks a delivery, and a restart forgets both.
THEOREM WorkerIsCurrent == Spec => []WorkerHolds
<1>1. TypeOK /\ WorkerHolds /\ [Next]_vars => (TypeOK /\ WorkerHolds)'
  BY TypeStep, WorkerStep
<1> QED
  BY <1>1, TypeInit, PTL DEF Spec

-----------------------------------------------------------------------------
(* A bounded number of attempts.                                           *)

\* Steps that settle no row, count no attempt and insert none.
SameProgress ==
    /\ DOMAIN deliveries' = DOMAIN deliveries
    /\ \A i \in DOMAIN deliveries : /\ deliveries'[i].status = deliveries[i].status
                                    /\ deliveries'[i].attempts = deliveries[i].attempts
                                    /\ deliveries'[i].endpoint = deliveries[i].endpoint
                                    /\ deliveries'[i].event = deliveries[i].event

\* The only steps that change more of the table than the time a row is due.
LEMMA ProgressSteps ==
    ASSUME TypeOK, Next
    PROVE  \/ SameProgress \/ MarkWebhookDelivery
           \/ \E e \in Events : \E k \in Endpoints : InsertDelivery(e, k)
<1>1. ASSUME NEW i \in DOMAIN deliveries, Elapse(i) PROVE SameProgress
  BY <1>1, ElapsedRow DEF SameProgress
<1>2. CASE UNCHANGED deliveries
  BY <1>2 DEF SameProgress
<1>3. ASSUME NEW i \in DOMAIN deliveries, Deliver(i) PROVE UNCHANGED deliveries
  BY <1>3 DEF Deliver
<1>4. ASSUME NEW e \in Events, CommitChange(e) \/ ListWebhookEndpoints(e) \/ Respond(e) \/ Abandon(e)
      PROVE  UNCHANGED deliveries
  BY <1>4 DEF CommitChange, ListWebhookEndpoints, Respond, Abandon
<1>5. ASSUME NEW k \in Endpoints, CreateWebhookEndpoint(k) PROVE UNCHANGED deliveries
  BY <1>5 DEF CreateWebhookEndpoint
<1>6. CASE PendingWebhookDeliveries \/ CloseRows \/ FailMark \/ Restart
  BY <1>2, <1>6 DEF PendingWebhookDeliveries, CloseRows, FailMark, Restart
<1> QED
  BY <1>1, <1>2, <1>3, <1>4, <1>5, <1>6, Steps

LEMMA BelowLimitStep ==
    TypeOK /\ WorkerHolds /\ PendingBelowLimit /\ [Next]_vars => PendingBelowLimit'
<1> SUFFICES ASSUME TypeOK, WorkerHolds, PendingBelowLimit, [Next]_vars PROVE PendingBelowLimit'
  OBVIOUS
<1>1. CASE UNCHANGED vars
  BY <1>1 DEF vars, PendingBelowLimit
<1>2. CASE SameProgress
  BY <1>2 DEF SameProgress, PendingBelowLimit
<1>3. CASE MarkWebhookDelivery
  <2>1. mark.status = "pending" => mark.attempts < MaxRetries
    BY <1>3 DEF MarkWebhookDelivery, WorkerHolds, Marked
  <2> QED
    BY <1>3, <2>1, MarkedRow DEF PendingBelowLimit
<1>4. ASSUME NEW e \in Events, NEW k \in Endpoints, InsertDelivery(e, k) PROVE PendingBelowLimit'
  <2>1. NewRow(e, k).attempts < MaxRetries
    BY LimitAssumption DEF NewRow
  <2> QED
    BY <1>4, <2>1, InsertedRow DEF PendingBelowLimit
<1> QED
  BY <1>1, <1>2, <1>3, <1>4, ProgressSteps

\* A delivery waits only while it has attempts left: the retry that reaches the limit
\* settles it, and restarts and marks that fail do not wind the count back.
THEOREM AttemptsBounded == Spec => []PendingBelowLimit
<1>1. Init => PendingBelowLimit
  BY DEF Init, PendingBelowLimit
<1> QED
  BY <1>1, BelowLimitStep, TypeCorrect, WorkerIsCurrent, PTL DEF Spec

-----------------------------------------------------------------------------
(* Deliveries that were taken twice.                                       *)

LEMMA AccountedStep ==
    TypeOK /\ WorkerHolds /\ Accounted /\ [Next]_vars => Accounted'
<1> SUFFICES ASSUME TypeOK, WorkerHolds, Accounted, [Next]_vars PROVE Accounted'
  OBVIOUS
<1> DEFINE Row(i) == /\ received[i] <= lost[i] + 1
                     /\ deliveries[i].status = "pending" /\ ~AboutToBeSent(i) => received[i] <= lost[i]
                     /\ AboutToBeSent(i) => received[i] > 0
<1>0. \A i \in DOMAIN deliveries : Row(i) /\ received[i] \in Nat /\ lost[i] \in Nat
  BY RowTypes DEF Accounted
<1>1. ASSUME SameProgress, UNCHANGED drain, UNCHANGED ledger PROVE Accounted'
  BY <1>1 DEF SameProgress, Accounted, AboutToBeSent, drain, ledger
<1>2. CASE UNCHANGED vars
  BY <1>1, <1>2 DEF vars, SameProgress
<1>3. ASSUME NEW k \in Endpoints, CreateWebhookEndpoint(k) PROVE Accounted'
  BY <1>1, <1>3 DEF CreateWebhookEndpoint, SameProgress
<1>4. ASSUME NEW e \in Events, CommitChange(e) \/ ListWebhookEndpoints(e) \/ Respond(e) \/ Abandon(e)
      PROVE  Accounted'
  BY <1>1, <1>4 DEF CommitChange, ListWebhookEndpoints, Respond, Abandon, SameProgress
<1>5. ASSUME NEW i \in DOMAIN deliveries, Elapse(i) PROVE Accounted'
  <2>1. SameProgress
    BY <1>5, ElapsedRow DEF SameProgress
  <2> QED
    BY <1>1, <1>5, <2>1 DEF Elapse
<1>6. ASSUME NEW e \in Events, NEW k \in Endpoints, InsertDelivery(e, k) PROVE Accounted'
  <2>0. PICK n \in Nat : n = Len(deliveries) + 1
    BY LenProperties DEF TypeOK
  <2>1. UNCHANGED <<worker, mark>>
    BY <1>6 DEF InsertDelivery, drain
  <2>2. ~AboutToBeSent(n)'
    BY <1>6, <2>0, <2>1, InsertedRow DEF AboutToBeSent, WorkerHolds, Marked
  <2>3. \A i \in DOMAIN deliveries : Row(i)'
    BY <1>0, <1>6, <2>1, InsertedRow DEF AboutToBeSent
  <2>4. Row(n)'
    BY <1>6, <2>0, <2>2, InsertedRow
  <2> QED
    BY <1>6, <2>0, <2>3, <2>4, InsertedRow DEF Accounted
<1>7. ASSUME NEW i \in DOMAIN deliveries, Deliver(i) PROVE Accounted'
  <2>1. /\ UNCHANGED deliveries /\ worker = "scanning" /\ worker' = "marking"
        /\ deliveries[i].status = "pending"
    BY <1>7, DeliveredRow DEF Deliver, WorkerHolds, Scanned
  <2>2. \A j \in DOMAIN deliveries : ~AboutToBeSent(j)
    BY <2>1 DEF AboutToBeSent
  <2>3. ASSUME NEW j \in DOMAIN deliveries, j # i PROVE Row(j)'
    <3>1. ~AboutToBeSent(j)' /\ received'[j] = received[j] /\ lost'[j] = lost[j]
      BY <1>7, <2>3, DeliveredRow DEF AboutToBeSent
    <3> QED
      BY <1>0, <2>1, <2>2, <3>1
  <2>4. received[i] <= lost[i]
    BY <1>0, <2>1, <2>2
  <2>5. AboutToBeSent(i)' <=> mark'.status = "sent"
    BY <1>7, <2>1, DeliveredRow DEF AboutToBeSent
  <2>6. Row(i)'
    <3>1. received[i] \in Nat /\ lost[i] \in Nat
      BY <1>0
    <3>2. \/ mark'.status = "sent" /\ received'[i] = received[i] + 1 /\ lost'[i] = lost[i]
          \/ mark'.status # "sent" /\ received'[i] = received[i] /\ lost'[i] = lost[i]
          \/ mark'.status # "sent" /\ received'[i] = received[i] + 1 /\ lost'[i] = lost[i] + 1
      BY <1>7, DeliveredRow
    <3> QED
      BY <2>1, <2>4, <2>5, <3>1, <3>2
  <2> QED
    BY <2>1, <2>3, <2>6 DEF Accounted
<1>8. CASE PendingWebhookDeliveries \/ CloseRows
  <2>1. UNCHANGED <<deliveries, received, lost, mark>> /\ worker # "marking" /\ worker' # "marking"
    BY <1>8 DEF PendingWebhookDeliveries, CloseRows, ledger
  <2> QED
    BY <2>1 DEF Accounted, AboutToBeSent
<1>9. CASE MarkWebhookDelivery
  <2>0. PICK m \in DOMAIN deliveries : m = mark.id
    BY <1>9, MarkedRow
  <2>1. worker' = "scanning" /\ UNCHANGED <<received, lost>>
    BY <1>9 DEF MarkWebhookDelivery, ledger
  <2>2. \A i \in DOMAIN deliveries : ~AboutToBeSent(i)'
    BY <2>1 DEF AboutToBeSent
  <2>3. ASSUME NEW i \in DOMAIN deliveries, i # m PROVE Row(i)'
    BY <1>0, <1>9, <2>0, <2>1, <2>2, <2>3, MarkedRow DEF AboutToBeSent
  <2>4. deliveries'[m].status = "pending" => ~AboutToBeSent(m)
    BY <1>9, <2>0, MarkedRow DEF AboutToBeSent
  <2>5. deliveries[m].status = "pending"
    BY <1>9, <2>0, MarkedRow
  <2>6. Row(m)'
    BY <1>0, <2>1, <2>2, <2>4, <2>5
  <2> QED
    BY <1>9, <2>3, <2>6, MarkedRow DEF Accounted
<1>10. CASE FailMark \/ Restart
  <2>1. worker' # "marking" /\ UNCHANGED <<deliveries, received>> /\ Forget
    BY <1>10 DEF FailMark, Restart
  <2>2. \A i \in DOMAIN deliveries : lost'[i] = IF AboutToBeSent(i) THEN lost[i] + 1 ELSE lost[i]
    BY <2>1, Forgotten
  <2>3. \A i \in DOMAIN deliveries : ~AboutToBeSent(i)'
    BY <2>1 DEF AboutToBeSent
  <2>4. ASSUME NEW i \in DOMAIN deliveries PROVE Row(i)'
    BY <1>0, <2>1, <2>2, <2>3
  <2> QED
    BY <2>1, <2>4 DEF Accounted
<1> QED
  BY <1>2, <1>3, <1>4, <1>5, <1>6, <1>7, <1>8, <1>9, <1>10, Steps

LEMMA AlwaysAccounted == Spec => []Accounted
<1>1. Init => Accounted
  BY DEF Init, Accounted
<1> QED
  BY <1>1, AccountedStep, TypeCorrect, WorkerIsCurrent, PTL DEF Spec

\* An endpoint gets a delivery again only after an answer that did not arrive, or a mark
\* that was not written: any number of restarts and retries does not add another cause.
THEOREM DuplicatesAreExplained == Spec => []DuplicatesExplained
<1>1. Accounted => DuplicatesExplained
  BY DEF Accounted, DuplicatesExplained
<1> QED
  BY <1>1, AlwaysAccounted, PTL

-----------------------------------------------------------------------------
(* One row for each endpoint of an event.                                  *)

RowsOfRequests == OneRowPerEndpoint /\ Queued

LEMMA QueuedStep == TypeOK /\ WorkerHolds /\ RowsOfRequests /\ [Next]_vars => RowsOfRequests'
<1> SUFFICES ASSUME TypeOK, WorkerHolds, RowsOfRequests, [Next]_vars PROVE RowsOfRequests'
  OBVIOUS
<1>0. \A i \in DOMAIN deliveries : deliveries[i].event \in Events
  BY RowTypes DEF Delivery
<1>1. ASSUME DOMAIN deliveries' = DOMAIN deliveries,
             \A i \in DOMAIN deliveries : /\ deliveries'[i].endpoint = deliveries[i].endpoint
                                          /\ deliveries'[i].event = deliveries[i].event
      PROVE  /\ OneRowPerEndpoint'
             /\ UNCHANGED requests => Queued'
  BY <1>1 DEF RowsOfRequests, OneRowPerEndpoint, Queued, requests
<1>2. CASE UNCHANGED vars
  BY <1>1, <1>2 DEF vars, RowsOfRequests
<1>3. ASSUME NEW k \in Endpoints, CreateWebhookEndpoint(k) PROVE RowsOfRequests'
  BY <1>1, <1>3 DEF CreateWebhookEndpoint, RowsOfRequests
<1>4. ASSUME NEW i \in DOMAIN deliveries, Elapse(i) PROVE RowsOfRequests'
  BY <1>1, <1>4, ElapsedRow DEF Elapse, RowsOfRequests
<1>5. ASSUME NEW i \in DOMAIN deliveries, Deliver(i) PROVE RowsOfRequests'
  BY <1>1, <1>5 DEF Deliver, RowsOfRequests
<1>6. CASE MarkWebhookDelivery
  <2>1. UNCHANGED requests
    BY <1>6 DEF MarkWebhookDelivery
  <2>2. \A i \in DOMAIN deliveries : /\ deliveries'[i].endpoint = deliveries[i].endpoint
                                     /\ deliveries'[i].event = deliveries[i].event
    BY <1>6, MarkedRow
  <2> QED
    BY <1>1, <1>6, <2>1, <2>2, MarkedRow DEF RowsOfRequests
<1>7. CASE PendingWebhookDeliveries \/ CloseRows \/ FailMark
  BY <1>1, <1>7 DEF PendingWebhookDeliveries, CloseRows, FailMark, RowsOfRequests
<1>8. CASE Restart
  <2>1. UNCHANGED deliveries /\ \A e \in Events : todo'[e] = {} /\
          stage'[e] = IF stage[e] \in {"listing", "queueing"} THEN "dropped" ELSE stage[e]
    BY <1>8 DEF Restart
  <2>2. Queued'
    BY <1>0, <2>1 DEF RowsOfRequests, Queued
  <2> QED
    BY <1>1, <2>1, <2>2 DEF RowsOfRequests
<1>9. ASSUME NEW e \in Events, CommitChange(e) \/ Respond(e) \/ Abandon(e) PROVE RowsOfRequests'
  <2>1. UNCHANGED deliveries
    BY <1>9 DEF CommitChange, Respond, Abandon
  <2>2. /\ stage' = [stage EXCEPT ![e] = stage'[e]] /\ todo' = [todo EXCEPT ![e] = {}]
        /\ stage'[e] # "queueing"
        /\ stage'[e] \in {"new", "listing"} => stage[e] \in {"new", "listing"}
    BY <1>9 DEF CommitChange, Respond, Abandon, RowsOfRequests, Queued, TypeOK
  <2>3. \A f \in Events : f # e => stage'[f] = stage[f] /\ todo'[f] = todo[f]
    BY <2>2 DEF TypeOK
  <2>4. todo'[e] = {}
    BY <2>2 DEF TypeOK
  <2>5. Queued'
    BY <1>0, <2>1, <2>2, <2>3, <2>4 DEF RowsOfRequests, Queued
  <2> QED
    BY <1>1, <2>1, <2>5 DEF RowsOfRequests
<1>10. ASSUME NEW e \in Events, ListWebhookEndpoints(e) PROVE RowsOfRequests'
  <2>1. /\ UNCHANGED deliveries /\ stage[e] = "listing" /\ stage'[e] = "queueing"
        /\ todo'[e] = {k \in hooks : <<k, e>> \in Subscribed}
        /\ \A f \in Events : f # e => stage'[f] = stage[f] /\ todo'[f] = todo[f]
    BY <1>10 DEF ListWebhookEndpoints, TypeOK
  <2>2. \A i \in DOMAIN deliveries : deliveries[i].event # e
    BY <2>1 DEF RowsOfRequests, Queued
  <2>3. Queued'
    BY <1>0, <2>1, <2>2 DEF RowsOfRequests, Queued
  <2> QED
    BY <1>1, <2>1, <2>3 DEF RowsOfRequests
<1>11. ASSUME NEW e \in Events, NEW k \in Endpoints, InsertDelivery(e, k) PROVE RowsOfRequests'
  <2>0. PICK n \in Nat : n = Len(deliveries) + 1
    BY LenProperties DEF TypeOK
  <2>1. /\ stage[e] = "queueing" /\ UNCHANGED stage /\ k \in todo[e] /\ todo'[e] = todo[e] \ {k}
        /\ \A f \in Events : f # e => todo'[f] = todo[f]
    BY <1>11 DEF InsertDelivery, TypeOK
  <2>2. deliveries'[n].endpoint = k /\ deliveries'[n].event = e
    <3>1. deliveries'[n] = NewRow(e, k)
      BY <1>11, <2>0, InsertedRow
    <3> QED
      BY <3>1 DEF NewRow
  <2>3. /\ <<k, e>> \in Subscribed
        /\ \A i \in DOMAIN deliveries : deliveries[i].event = e => deliveries[i].endpoint # k
    BY <2>1 DEF RowsOfRequests, Queued
  <2>4. /\ DOMAIN deliveries' = DOMAIN deliveries \cup {n}
        /\ \A i \in DOMAIN deliveries : deliveries'[i] = deliveries[i]
    BY <1>11, <2>0, InsertedRow
  <2>5. OneRowPerEndpoint'
    BY <2>2, <2>3, <2>4 DEF RowsOfRequests, OneRowPerEndpoint
  <2>6. Queued'
    <3>1. \A f \in Events : stage'[f] # "queueing" => todo'[f] = {}
      BY <2>1 DEF RowsOfRequests, Queued
    <3>2. \A f \in Events : \A j \in todo'[f] : j \in todo[f] /\ (f = e => j # k)
      BY <2>1
    <3>3. ASSUME NEW f \in Events, NEW j \in todo'[f]
          PROVE  /\ <<j, f>> \in Subscribed
                 /\ \A i \in DOMAIN deliveries' :
                      deliveries'[i].event = f => deliveries'[i].endpoint # j
      <4>1. /\ <<j, f>> \in Subscribed
            /\ \A i \in DOMAIN deliveries : deliveries[i].event = f => deliveries[i].endpoint # j
        BY <3>2, <3>3 DEF RowsOfRequests, Queued
      <4>2. deliveries'[n].event = f => deliveries'[n].endpoint # j
        BY <2>2, <3>2, <3>3
      <4> QED
        BY <2>4, <4>1, <4>2
    <3>4. \A i \in DOMAIN deliveries' : stage'[deliveries'[i].event] \notin {"new", "listing"}
      BY <2>1, <2>2, <2>4 DEF RowsOfRequests, Queued
    <3> QED
      BY <3>1, <3>3, <3>4 DEF Queued
  <2> QED
    BY <2>5, <2>6 DEF RowsOfRequests
<1> QED
  BY <1>2, <1>3, <1>4, <1>5, <1>6, <1>7, <1>8, <1>9, <1>10, <1>11, Steps

\* One event of one request makes one delivery for each endpoint at most, all of them
\* subscribers, however requests, restarts and abandoned requests interleave.
THEOREM OneDeliveryPerSubscriber == Spec => []OneRowPerEndpoint
<1>1. Init => RowsOfRequests
  BY DEF Init, RowsOfRequests, OneRowPerEndpoint, Queued
<1>2. RowsOfRequests => OneRowPerEndpoint
  BY DEF RowsOfRequests
<1> QED
  BY <1>1, <1>2, QueuedStep, TypeCorrect, WorkerIsCurrent, PTL DEF Spec

-----------------------------------------------------------------------------
(* The queue implements its contract.                                      *)

\* The state of the contract that a state of the queue stands for.
Jobs == [i \in DOMAIN deliveries |->
            [status |-> deliveries[i].status, attempts |-> deliveries[i].attempts]]

Acked == {i \in DOMAIN received : received[i] > 0}

LEMMA JobsType ==
    ASSUME TypeOK
    PROVE  /\ Jobs \in Seq([status : {"pending", "sent", "failed"}, attempts : Nat])
           /\ Len(Jobs) = Len(deliveries) /\ DOMAIN Jobs = DOMAIN deliveries
           /\ \A i \in DOMAIN deliveries :
                Jobs[i] = [status |-> deliveries[i].status, attempts |-> deliveries[i].attempts]
<1>1. DOMAIN deliveries = 1..Len(deliveries) /\ Len(deliveries) \in Nat
  BY LenProperties DEF TypeOK
<1>2. \A i \in DOMAIN deliveries :
        Jobs[i] \in [status : {"pending", "sent", "failed"}, attempts : Nat]
  BY RowTypes DEF Jobs, Delivery
<1> QED
  BY <1>1, <1>2 DEF Jobs

LEMMA AckedIn ==
    ASSUME TypeOK
    PROVE  \A i : i \in Acked <=> i \in DOMAIN deliveries /\ received[i] > 0
BY LenProperties DEF TypeOK, Acked

LEMMA SameContract ==
    ASSUME Jobs' = Jobs, Acked' = Acked
    PROVE  UNCHANGED Contract!vars
BY DEF Contract!vars, Jobs, Acked

LEMMA ContractSteps ==
    ASSUME \/ /\ Jobs' = Append(Jobs, [status |-> "pending", attempts |-> 0])
              /\ Acked' = Acked
           \/ \E j \in DOMAIN Jobs :
                /\ Jobs[j].status = "pending"
                /\ \/ Acked' = Acked \cup {j} /\ Jobs' = Jobs
                   \/ \E status \in {"pending", "sent", "failed"} :
                        /\ status = "sent" => j \in Acked
                        /\ status = "pending" => Jobs[j].attempts + 1 < MaxRetries
                        /\ Jobs' = [Jobs EXCEPT ![j] = [status |-> status, attempts |-> @.attempts + 1]]
                        /\ Acked' = Acked
    PROVE  Contract!Next
BY DEF Contract!Next, Contract!Enqueue, Contract!Take, Contract!Settle, Contract!Settled, Jobs, Acked

\* Steps that settle, count, insert and hand over nothing do not concern the contract.
LEMMA Stutters ==
    ASSUME SameProgress, UNCHANGED received
    PROVE  UNCHANGED Contract!vars
<1>1. Jobs' = Jobs
  BY DEF SameProgress, Jobs
<1>2. Acked' = Acked
  BY DEF Acked
<1> QED
  BY <1>1, <1>2, SameContract

\* An inserted row is a job that is queued.
LEMMA InsertQueues ==
    ASSUME TypeOK, NEW e \in Events, NEW k \in Endpoints, InsertDelivery(e, k)
    PROVE  Contract!Next
<1> DEFINE job == [status |-> "pending", attempts |-> 0]
           Job == [status : {"pending", "sent", "failed"}, attempts : Nat]
<1>0. PICK n \in Nat : n = Len(deliveries) + 1
  BY LenProperties DEF TypeOK
<1>1. deliveries'[n].status = "pending" /\ deliveries'[n].attempts = 0 /\ received'[n] = 0
  <2>1. deliveries'[n] = NewRow(e, k) /\ received'[n] = 0
    BY <1>0, InsertedRow
  <2> QED
    BY <2>1 DEF NewRow
<1>2. DOMAIN received' = DOMAIN deliveries' /\ DOMAIN received = DOMAIN deliveries
  BY InsertedRow, LenProperties DEF TypeOK
<1>3. Acked' = Acked
  BY <1>0, <1>1, <1>2, InsertedRow DEF Acked
<1>4. job \in Job
  OBVIOUS
<1>5. /\ Jobs \in Seq(Job) /\ Len(Jobs) = Len(deliveries) /\ DOMAIN Jobs = DOMAIN deliveries
      /\ \A i \in DOMAIN deliveries :
           Jobs[i] = [status |-> deliveries[i].status, attempts |-> deliveries[i].attempts]
  BY JobsType
<1> HIDE DEF Job, job
<1>6. /\ Append(Jobs, job) \in Seq(Job) /\ DOMAIN Append(Jobs, job) = DOMAIN Jobs \cup {n}
      /\ \A i \in DOMAIN Jobs : Append(Jobs, job)[i] = Jobs[i]
      /\ Append(Jobs, job)[n] = job /\ Len(Append(Jobs, job)) = n
  BY <1>0, <1>4, <1>5, Appended
<1>7. Jobs' = [i \in DOMAIN deliveries \cup {n} |->
                 [status |-> deliveries'[i].status, attempts |-> deliveries'[i].attempts]]
  BY <1>0, InsertedRow DEF Jobs
<1>8. \A i \in DOMAIN deliveries \cup {n} : Jobs'[i] = Append(Jobs, job)[i]
  <2>1. \A i \in DOMAIN deliveries : deliveries'[i] = deliveries[i]
    BY InsertedRow
  <2>2. \A i \in DOMAIN deliveries : Jobs'[i] = Append(Jobs, job)[i]
    BY <1>5, <1>6, <1>7, <2>1
  <2>3. Jobs'[n] = job
    BY <1>1, <1>7 DEF job
  <2> QED
    BY <1>6, <2>2, <2>3
<1>9. Append(Jobs, job) = [i \in 1..n |-> Append(Jobs, job)[i]]
  BY <1>6, LenProperties
<1>10. DOMAIN Jobs' = 1..n
  BY <1>5, <1>6, <1>7, LenProperties
<1>11. Jobs' = Append(Jobs, job)
  BY <1>5, <1>6, <1>7, <1>8, <1>9, <1>10
<1> QED
  BY <1>3, <1>11, ContractSteps DEF job

\* An attempt that the endpoint took makes it one that was taken.
LEMMA DeliverTakes ==
    ASSUME TypeOK, WorkerHolds, NEW i \in DOMAIN deliveries, Deliver(i)
    PROVE  [Contract!Next]_Contract!vars
<1>1. UNCHANGED deliveries /\ deliveries[i].status = "pending"
  BY DeliveredRow DEF Deliver, WorkerHolds, Scanned
<1>2. Jobs' = Jobs
  BY <1>1 DEF Jobs
<1>3. i \in DOMAIN Jobs /\ Jobs[i].status = "pending"
  BY <1>1, JobsType
<1>4. DOMAIN received = DOMAIN deliveries /\ DOMAIN received' = DOMAIN deliveries
  BY DeliveredRow, LenProperties DEF TypeOK
<1>5. CASE received'[i] = received[i]
  <2>1. Acked' = Acked
    BY <1>4, <1>5, DeliveredRow DEF Acked
  <2> QED
    BY <1>2, <2>1, SameContract
<1>6. CASE received'[i] = received[i] + 1
  <2>1. received[i] + 1 > 0
    BY RowTypes
  <2>2. Acked' = Acked \cup {i}
    BY <1>4, <1>6, <2>1, DeliveredRow DEF Acked
  <2> QED
    BY <1>2, <1>3, <2>2, ContractSteps
<1> QED
  BY <1>5, <1>6, DeliveredRow

\* A mark settles a pending delivery, or counts one attempt more; as sent only one that
\* was taken.
LEMMA MarkSettles ==
    ASSUME TypeOK, WorkerHolds, Accounted, MarkWebhookDelivery
    PROVE  Contract!Next
<1>1. PICK m \in DOMAIN deliveries : m = mark.id
  BY MarkedRow
<1>2. /\ deliveries[m].status = "pending" /\ mark.attempts = deliveries[m].attempts + 1
      /\ mark.status = "pending" => mark.attempts < MaxRetries
  BY <1>1 DEF MarkWebhookDelivery, WorkerHolds, Marked
<1>3. mark.status \in {"pending", "sent", "failed"}
  BY DEF TypeOK, Mark
<1>4. Acked' = Acked
  BY DEF Acked, MarkWebhookDelivery, ledger
<1>5. mark.status = "sent" => m \in Acked
  <2>1. mark.status = "sent" => received[m] > 0
    BY <1>1 DEF MarkWebhookDelivery, Accounted, AboutToBeSent
  <2> QED
    BY <2>1, AckedIn
<1>6. m \in DOMAIN Jobs /\ Jobs[m].status = "pending" /\ Jobs[m].attempts = deliveries[m].attempts
  BY <1>2, JobsType
<1>7. Jobs' = [Jobs EXCEPT ![m] = [status |-> mark.status, attempts |-> @.attempts + 1]]
  <2>1. /\ DOMAIN deliveries' = DOMAIN deliveries
        /\ \A i \in DOMAIN deliveries : i # m => deliveries'[i] = deliveries[i]
        /\ deliveries'[m].status = mark.status
        /\ deliveries'[m].attempts = deliveries[m].attempts + 1
    BY <1>1, <1>2, MarkedRow
  <2> QED
    BY <2>1 DEF Jobs
<1> QED
  BY <1>2, <1>3, <1>4, <1>5, <1>6, <1>7, ContractSteps

\* The retry queue promises what its contract says, step for step: a delivery is recorded
\* as sent only after its endpoint took it, counts its attempts below the limit while it
\* waits, and is left alone once it is settled, whatever fails or restarts in between.
THEOREM QueueKeepsContract == Spec => KeepsContract
<1>1. Init => Contract!Init
  <2> SUFFICES ASSUME Init PROVE Contract!Init
    OBVIOUS
  <2>1. deliveries = << >> /\ received = << >>
    BY DEF Init
  <2>2. Jobs = << >> /\ Acked = {}
    BY <2>1 DEF Jobs, Acked
  <2> QED
    BY <2>2 DEF Contract!Init, Jobs, Acked
<1>2. TypeOK /\ WorkerHolds /\ Accounted /\ [Next]_vars => [Contract!Next]_Contract!vars
  <2> SUFFICES ASSUME TypeOK, WorkerHolds, Accounted, [Next]_vars
               PROVE  [Contract!Next]_Contract!vars
    OBVIOUS
  <2>1. CASE UNCHANGED vars
    BY <2>1, Stutters DEF vars, ledger, SameProgress
  <2>2. ASSUME NEW k \in Endpoints, CreateWebhookEndpoint(k) PROVE UNCHANGED Contract!vars
    BY <2>2, Stutters DEF CreateWebhookEndpoint, ledger, SameProgress
  <2>3. ASSUME NEW e \in Events,
               CommitChange(e) \/ ListWebhookEndpoints(e) \/ Respond(e) \/ Abandon(e)
        PROVE  UNCHANGED Contract!vars
    BY <2>3, Stutters DEF CommitChange, ListWebhookEndpoints, Respond, Abandon, ledger, SameProgress
  <2>4. ASSUME NEW i \in DOMAIN deliveries, Elapse(i) PROVE UNCHANGED Contract!vars
    <3>1. SameProgress
      BY <2>4, ElapsedRow DEF SameProgress
    <3> QED
      BY <2>4, <3>1, Stutters DEF Elapse, ledger
  <2>5. CASE PendingWebhookDeliveries \/ CloseRows \/ FailMark \/ Restart
    BY <2>5, Stutters
    DEF PendingWebhookDeliveries, CloseRows, FailMark, Restart, ledger, SameProgress
  <2> QED
    BY <2>1, <2>2, <2>3, <2>4, <2>5, InsertQueues, DeliverTakes, MarkSettles, Steps
<1> QED
  BY <1>1, <1>2, TypeCorrect, WorkerIsCurrent, AlwaysAccounted, PTL DEF Spec, KeepsContract
=============================================================================
