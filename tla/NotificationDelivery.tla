------------------------ MODULE NotificationDelivery ------------------------
(***************************************************************************)
(* The outbox of verification codes and recovery links.                    *)
(*                                                                         *)
(* DispatchNotificationJob writes a notification request with its delivery *)
(* (one each). Workers reserve a delivery, send it and record the outcome, *)
(* all in one transaction that stays open while the provider is called.    *)
(* The provider reports back through a webhook, in any order, more than    *)
(* once or never, and possibly before the sender has committed. The        *)
(* webhook reads the delivery without a lock and writes its copy back.     *)
(*                                                                         *)
(* A ProcessNotificationDeliveriesJob is queued with each request and each *)
(* retry and by a schedule every minute, so a worker may look for work at  *)
(* any time. The state of a delivery that is reserved or being sent is     *)
(* never committed: it is the row lock and the copy of a process.          *)
(***************************************************************************)
EXTENDS Naturals, FiniteSets

CONSTANTS
    Deliveries,
    Procs,         \* tasks of the worker and webhook handlers
    MaxEvents,     \* bound on the events that providers report
    MaxMishaps,    \* bound on failing steps and lost answers
    None

ASSUME ConstantsAssumption ==
    /\ MaxEvents \in Nat /\ MaxMishaps \in Nat
    /\ None \notin Procs \cup Deliveries

VARIABLES
    \* notification_deliveries and the status in notification_requests
    delivery, request,
    \* the authentication or recovery session that a delivery is for, and the
    \* deliveries whose request is more than five minutes old
    source, aged,
    \* who has the row of a delivery locked
    rowBy,
    \* a process: its position, its delivery and its copy of the row
    pc, job, copy,
    \* how often the provider has accepted a delivery
    accepted,
    \* bounds, and what went wrong in a way that a property allows for
    events, mishaps, lapses

dbVars == <<delivery, request, source, aged, rowBy>>
procVars == <<pc, job, copy>>
boundVars == <<events, mishaps, lapses>>
vars == <<dbVars, procVars, accepted, boundVars>>

Statuses == {"none", "pending", "delivered", "failed", "cancelled"}
Failures == {"none", "retryable", "terminal", "bounced"}
Kinds == {"code", "recovery"}
Rows == [status : Statuses, failure : Failures, retry : {"no", "later", "due"},
         attempts : Nat, kind : Kinds]
NoRow == [status |-> "none", failure |-> "none", retry |-> "no", attempts |-> 0,
          kind |-> "code"]
NewRow(kind) == [NoRow EXCEPT !.status = "pending", !.kind = kind]

Outcomes == {"delivered", "bounced"}
PCs == {"idle", "send", "save", "webhook"}
\* A delivery was sent and that was not recorded; a webhook wrote over a
\* delivery that had been cancelled since it read it.
LapseKinds == {"unrecorded", "staleWebhook"}

Reservable(r) == r.status = "pending" \/ (r.status = "failed" /\ r.retry = "due")
Settled(r) ==
    \/ r.status \in {"delivered", "cancelled"}
    \/ r.status = "failed" /\ r.retry = "no"

Init ==
    /\ delivery = [d \in Deliveries |-> NoRow]
    /\ request = [d \in Deliveries |-> "none"]
    /\ source = [d \in Deliveries |-> "open"]
    /\ aged = {}
    /\ rowBy = [d \in Deliveries |-> None]
    /\ pc = [p \in Procs |-> "idle"]
    /\ job = [p \in Procs |-> None]
    /\ copy = [p \in Procs |-> NoRow]
    /\ accepted = [d \in Deliveries |-> 0]
    /\ events = 0
    /\ mishaps = 0
    /\ lapses = {}
-----------------------------------------------------------------------------
(***************************************************************************)
(* What happens around the outbox.                                         *)
(***************************************************************************)
\* DispatchNotificationJob for a source that is still open: the code or
\* ticket, the request and the delivery are committed together.
EnqueueNotificationRequest(d, kind) ==
    /\ delivery[d].status = "none"
    /\ source[d] = "open"
    /\ delivery' = [delivery EXCEPT ![d] = NewRow(kind)]
    /\ request' = [request EXCEPT ![d] = "pending"]
    /\ UNCHANGED <<source, aged, rowBy, procVars, accepted, boundVars>>

\* The user completes the authentication or uses the recovery session; a
\* cleanup deletes it.
CloseSource(d, how) ==
    /\ source[d] # "gone" /\ source[d] # how
    /\ source' = [source EXCEPT ![d] = how]
    /\ UNCHANGED <<delivery, request, aged, rowBy, procVars, accepted, boundVars>>

\* The time of a retry comes; five minutes pass.
RetryDue(d) ==
    /\ delivery[d].retry = "later" /\ rowBy[d] = None
    /\ delivery' = [delivery EXCEPT ![d].retry = "due"]
    /\ UNCHANGED <<request, source, aged, rowBy, procVars, accepted, boundVars>>

Expire(d) ==
    /\ delivery[d].status # "none" /\ d \notin aged
    /\ aged' = aged \cup {d}
    /\ UNCHANGED <<delivery, request, source, rowBy, procVars, accepted, boundVars>>
-----------------------------------------------------------------------------
(***************************************************************************)
(* process_single_delivery.                                                *)
(***************************************************************************)
Idle(p) ==
    /\ pc' = [pc EXCEPT ![p] = "idle"]
    /\ job' = [job EXCEPT ![p] = None]
    /\ copy' = [copy EXCEPT ![p] = NoRow]
    /\ rowBy' = [d \in Deliveries |-> IF rowBy[d] = p THEN None ELSE rowBy[d]]

\* The columns mark_delivery_delivered, mark_delivery_failed and
\* cancel_delivery set on a copy.
MarkDelivered(r) == [r EXCEPT !.status = "delivered", !.failure = "none", !.retry = "no"]
MarkFailed(r, f, retry) == [r EXCEPT !.status = "failed", !.failure = f, !.retry = retry]
Cancel(r) == [r EXCEPT !.status = "cancelled", !.retry = "no"]

\* next_retry_delay: the delays it has, and the five minutes a code is good for.
MaxAttempts(r) == IF r.kind = "recovery" THEN 4 ELSE 3

\* Mutant: one retry more than the table has delays for.
UncappedNextRetry(d, r, f) ==
    IF /\ f = "retryable"
       /\ r.attempts <= MaxAttempts(r)
       /\ r.kind = "recovery" \/ d \notin aged
    THEN "later" ELSE "no"

NextRetry(d, r, f) ==
    IF /\ f = "retryable"
       /\ r.attempts < MaxAttempts(r)
       /\ r.kind = "recovery" \/ d \notin aged
    THEN "later" ELSE "no"

\* prepare_delivery and what follows from it: a source that was completed
\* cancels the delivery, one that is gone fails it for good.
Prepared(d, r) ==
    CASE source[d] = "completed" -> Cancel(r)
      [] source[d] = "gone" -> MarkFailed(r, "terminal", "no")
      [] OTHER -> [r EXCEPT !.failure = "none", !.retry = "no"]

\* Mutant: rows that others have locked are not skipped.
GreedyReserve(p, d) ==
    LET r == [delivery[d] EXCEPT !.attempts = @ + 1] IN
    /\ pc[p] = "idle"
    /\ Reservable(delivery[d])
    /\ rowBy' = [rowBy EXCEPT ![d] = p]
    /\ job' = [job EXCEPT ![p] = d]
    /\ copy' = [copy EXCEPT ![p] = Prepared(d, r)]
    /\ pc' = [pc EXCEPT ![p] = IF source[d] = "open" THEN "send" ELSE "save"]
    /\ UNCHANGED <<delivery, request, source, aged, accepted, boundVars>>

\* Mutant: a failed delivery is not looked at again.
ForgetfulReserve(p, d) ==
    LET r == [delivery[d] EXCEPT !.attempts = @ + 1] IN
    /\ pc[p] = "idle"
    /\ delivery[d].status = "pending" /\ rowBy[d] = None
    /\ rowBy' = [rowBy EXCEPT ![d] = p]
    /\ job' = [job EXCEPT ![p] = d]
    /\ copy' = [copy EXCEPT ![p] = Prepared(d, r)]
    /\ pc' = [pc EXCEPT ![p] = IF source[d] = "open" THEN "send" ELSE "save"]
    /\ UNCHANGED <<delivery, request, source, aged, accepted, boundVars>>

\* reserve_deliveries takes one row that is due and that nobody has locked,
\* and prepare_delivery looks at its source.
ReserveDelivery(p, d) ==
    LET r == [delivery[d] EXCEPT !.attempts = @ + 1] IN
    /\ pc[p] = "idle"
    /\ Reservable(delivery[d]) /\ rowBy[d] = None
    /\ rowBy' = [rowBy EXCEPT ![d] = p]
    /\ job' = [job EXCEPT ![p] = d]
    /\ copy' = [copy EXCEPT ![p] = Prepared(d, r)]
    /\ pc' = [pc EXCEPT ![p] = IF source[d] = "open" THEN "send" ELSE "save"]
    /\ UNCHANGED <<delivery, request, source, aged, accepted, boundVars>>

\* The provider accepts the message, or refuses it with an error that may go
\* away or one that will not.
Dispatch(p, answer) ==
    LET d == job[p] IN
    /\ pc[p] = "send"
    /\ answer \in {"accepted", "retryable", "terminal"}
    /\ accepted' = IF answer = "accepted" THEN [accepted EXCEPT ![d] = @ + 1] ELSE accepted
    /\ copy' = [copy EXCEPT ![p] =
         IF answer = "accepted" THEN MarkDelivered(@)
         ELSE MarkFailed(@, answer, NextRetry(d, @, answer))]
    /\ pc' = [pc EXCEPT ![p] = "save"]
    /\ UNCHANGED <<dbVars, job, boundVars>>

\* The provider accepts the message, but its answer does not arrive.
LoseAnswer(p) ==
    LET d == job[p] IN
    /\ pc[p] = "send"
    /\ mishaps < MaxMishaps /\ mishaps' = mishaps + 1   \* bound
    /\ accepted' = [accepted EXCEPT ![d] = @ + 1]
    /\ copy' = [copy EXCEPT ![p] = MarkFailed(@, "retryable", NextRetry(d, @, "retryable"))]
    /\ pc' = [pc EXCEPT ![p] = "save"]
    /\ lapses' = lapses \cup {<<"unrecorded", d>>}
    /\ UNCHANGED <<dbVars, job, events>>

\* The status of the request that goes with the row a worker writes.
RequestStatus(r) ==
    CASE r.status = "delivered" -> "succeeded"
      [] r.status = "cancelled" -> "cancelled"
      [] r.status = "failed" /\ r.retry # "no" -> "processing"
      [] r.status = "failed" /\ r.retry = "no" -> "failed"
      [] OTHER -> "pending"

Save(p) ==
    LET d == job[p] IN
    /\ pc[p] = "save"
    /\ delivery' = [delivery EXCEPT ![d] = copy[p]]
    /\ request' = [request EXCEPT ![d] = RequestStatus(copy[p])]
    /\ Idle(p)
    /\ UNCHANGED <<source, aged, accepted, boundVars>>

\* The commit or a statement fails, or the process stops: the reservation and
\* its attempt are rolled back, whatever was sent.
Fail(p) ==
    /\ pc[p] # "idle"
    /\ mishaps < MaxMishaps /\ mishaps' = mishaps + 1   \* bound
    /\ lapses' = IF pc[p] = "save" /\ copy[p].status = "delivered"
                 THEN lapses \cup {<<"unrecorded", job[p]>>} ELSE lapses
    /\ Idle(p)
    /\ UNCHANGED <<delivery, request, source, aged, accepted, events>>
-----------------------------------------------------------------------------
(***************************************************************************)
(* EmailWebhookService::process, for one event.                            *)
(***************************************************************************)
\* should_apply_delivery_update.
ShouldApply(r, outcome) ==
    IF outcome = "delivered" THEN r.status \notin {"delivered", "failed", "cancelled"}
    ELSE ~(r.status = "failed" /\ r.failure = "bounced")

\* An event is reported for a message that was accepted. The delivery is
\* found by its tag and read without a lock; an event that does not apply is
\* ignored. The copy holds the row to be written.
ReadWebhook(p, d, outcome) ==
    LET r == delivery[d] IN
    /\ pc[p] = "idle" /\ accepted[d] > 0
    /\ events < MaxEvents /\ events' = events + 1   \* bound
    /\ r.status # "cancelled" /\ ShouldApply(r, outcome)
    /\ pc' = [pc EXCEPT ![p] = "webhook"]
    /\ job' = [job EXCEPT ![p] = d]
    /\ copy' = [copy EXCEPT ![p] =
         IF outcome = "delivered" THEN MarkDelivered(r) ELSE MarkFailed(r, "bounced", "no")]
    /\ UNCHANGED <<dbVars, accepted, mishaps, lapses>>

\* reconcile_request_status: a failure counts as the end, and a request that
\* was cancelled stays so.
Reconciled(status, r) ==
    CASE status = "cancelled" -> status
      [] status # "cancelled" /\ r.status = "delivered" -> "succeeded"
      [] OTHER -> "failed"

\* Mutant: the request is left as it is.
UnreconciledApplyWebhook(p) ==
    LET d == job[p]
        r == [copy[p] EXCEPT !.attempts = delivery[d].attempts] IN
    /\ pc[p] = "webhook" /\ rowBy[d] = None
    /\ delivery' = [delivery EXCEPT ![d] = r]
    /\ Idle(p)
    /\ UNCHANGED <<request, source, aged, accepted, boundVars>>

\* persist_delivery waits for the row's lock and writes every column but the
\* number of attempts; then the status of the request is derived and the
\* handler commits.
ApplyWebhook(p) ==
    LET d == job[p]
        r == [copy[p] EXCEPT !.attempts = delivery[d].attempts] IN
    /\ pc[p] = "webhook" /\ rowBy[d] = None
    /\ delivery' = [delivery EXCEPT ![d] = r]
    /\ request' = [request EXCEPT ![d] = Reconciled(@, r)]
    /\ lapses' = IF delivery[d].status = "cancelled"
                 THEN lapses \cup {<<"staleWebhook", d>>} ELSE lapses
    /\ Idle(p)
    /\ UNCHANGED <<source, aged, accepted, events, mishaps>>
-----------------------------------------------------------------------------
Worker(p) ==
    \/ \E d \in Deliveries : ReserveDelivery(p, d)
    \/ \E answer \in {"accepted", "retryable", "terminal"} : Dispatch(p, answer)
    \/ Save(p)

Next ==
    \/ \E d \in Deliveries :
         \/ RetryDue(d) \/ Expire(d)
         \/ \E kind \in Kinds : EnqueueNotificationRequest(d, kind)
         \/ \E how \in {"completed", "gone"} : CloseSource(d, how)
    \/ \E p \in Procs :
         \/ Worker(p) \/ LoseAnswer(p) \/ ApplyWebhook(p) \/ Fail(p)
         \/ \E d \in Deliveries, o \in Outcomes : ReadWebhook(p, d, o)

Spec == Init /\ [][Next]_vars

\* Tasks and handlers that run go on, retries become due, and the schedule of
\* every minute makes some worker look for work.
Fairness ==
    /\ \A d \in Deliveries : WF_vars(RetryDue(d))
    /\ \A p \in Procs :
         /\ WF_vars(Save(p)) /\ WF_vars(ApplyWebhook(p))
         /\ WF_vars(\E a \in {"accepted", "retryable", "terminal"} : Dispatch(p, a))
    /\ \A d \in Deliveries : WF_vars(\E p \in Procs : ReserveDelivery(p, d))

FairSpec == Spec /\ Fairness
-----------------------------------------------------------------------------
\* The attempts that were committed stay within the schedule of
\* next_retry_delay.
TypeOK ==
    /\ delivery \in [Deliveries -> Rows]
    /\ \A d \in Deliveries : delivery[d].attempts <= MaxAttempts(delivery[d])
    /\ request \in [Deliveries ->
         {"none", "pending", "processing", "succeeded", "failed", "cancelled"}]
    /\ source \in [Deliveries -> {"open", "completed", "gone"}]
    /\ aged \subseteq Deliveries
    /\ rowBy \in [Deliveries -> Procs \cup {None}]
    /\ pc \in [Procs -> PCs]
    /\ job \in [Procs -> Deliveries \cup {None}]
    /\ copy \in [Procs -> Rows]
    /\ accepted \in [Deliveries -> Nat]
    /\ events \in 0 .. MaxEvents /\ mishaps \in 0 .. MaxMishaps
    /\ lapses \subseteq LapseKinds \X Deliveries

Lapsed(k, d) == <<k, d>> \in lapses

\* A message is not sent twice, however workers, retries and webhooks overlap,
\* unless the provider accepted it and that was not recorded.
SentOnce == \A d \in Deliveries : accepted[d] > 1 => Lapsed("unrecorded", d)

\* The status shown for a request always is the one of its delivery, whichever
\* of worker and webhook wrote last and however late, twice or out of order a
\* webhook comes. The exception is a webhook that read the delivery before it
\* was cancelled and wrote after: the request then stays cancelled.
RequestMatchesDelivery ==
    \A d \in Deliveries : delivery[d].status # "none" =>
      \/ request[d] = RequestStatus(delivery[d])
      \/ request[d] = "cancelled" /\ Lapsed("staleWebhook", d)

\* Every delivery comes to an end: it is delivered, cancelled, or failed for
\* good, whatever fails on the way.
EveryDeliverySettles ==
    \A d \in Deliveries : delivery[d].status = "pending" ~> Settled(delivery[d])
=============================================================================
