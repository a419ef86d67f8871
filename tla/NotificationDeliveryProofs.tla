--------------------- MODULE NotificationDeliveryProofs ---------------------
(***************************************************************************)
(* Proofs about NotificationDelivery, for any number of deliveries and     *)
(* processes and any bounds: the committed attempts stay within the        *)
(* schedule of retries, a message is sent once unless its acceptance was   *)
(* not recorded, and a request shows the status of its delivery.           *)
(***************************************************************************)
EXTENDS NotificationDelivery, TLAPS

\* The attempts a process counts are those of the committed row and one more,
\* and a row that is to be retried has one left.
Sending(p) == pc[p] \in {"send", "save"}

RetryLeft(r) == r.status = "failed" /\ r.retry # "no" => r.attempts < MaxAttempts(r)

AttemptsInv ==
    /\ \A d \in Deliveries :
         /\ delivery[d].status \in {"none", "pending"} => delivery[d].attempts = 0
         /\ RetryLeft(delivery[d])
    /\ \A p \in Procs :
         /\ Sending(p) =>
              /\ job[p] \in Deliveries
              /\ copy[p].kind = delivery[job[p]].kind
              /\ copy[p].attempts = delivery[job[p]].attempts + 1
         /\ pc[p] = "save" =>
              /\ copy[p].status \in {"delivered", "failed", "cancelled"}
              /\ RetryLeft(copy[p])
         /\ pc[p] = "webhook" =>
              /\ job[p] \in Deliveries
              /\ copy[p].kind = delivery[job[p]].kind
              /\ copy[p].status \in {"delivered", "failed"}
              /\ copy[p].retry = "no"
              /\ delivery[job[p]].status # "none"

\* The row that a process sends is locked by it, is locked by nobody else,
\* and stays as it was when it was reserved.
LockInv ==
    /\ \A p \in Procs : Sending(p) => rowBy[job[p]] = p
    /\ \A d \in Deliveries : rowBy[d] # None =>
         /\ Reservable(delivery[d])
         /\ Sending(rowBy[d]) /\ job[rowBy[d]] = d

\* A message that was accepted, and of which that is known, was accepted once:
\* it is settled, or its sender is about to record it.
SentInv ==
    \A d \in Deliveries : accepted[d] > 0 =>
      /\ delivery[d].status # "none"
      /\ \/ Lapsed("unrecorded", d)
         \/ /\ accepted[d] = 1
            /\ \/ Settled(delivery[d])
               \/ /\ rowBy[d] # None
                  /\ pc[rowBy[d]] = "save" /\ copy[rowBy[d]].status = "delivered"

IInv == TypeOK /\ AttemptsInv /\ LockInv /\ SentInv
-----------------------------------------------------------------------------
(***************************************************************************)
(* The rows that the operators build.                                      *)
(***************************************************************************)
\* MarkDelivered, MarkFailed and Cancel keep a row's kind and attempts.
LEMMA MarkFacts ==
    ASSUME NEW r \in Rows, NEW f \in Failures, NEW retry \in {"no", "later", "due"}
    PROVE /\ MarkDelivered(r) \in Rows
          /\ MarkDelivered(r).status = "delivered" /\ MarkDelivered(r).retry = "no"
          /\ MarkDelivered(r).kind = r.kind /\ MarkDelivered(r).attempts = r.attempts
          /\ MarkFailed(r, f, retry) \in Rows
          /\ MarkFailed(r, f, retry).status = "failed"
          /\ MarkFailed(r, f, retry).retry = retry
          /\ MarkFailed(r, f, retry).kind = r.kind
          /\ MarkFailed(r, f, retry).attempts = r.attempts
          /\ Cancel(r) \in Rows /\ Cancel(r).status = "cancelled"
          /\ Cancel(r).kind = r.kind /\ Cancel(r).attempts = r.attempts
BY DEF MarkDelivered, MarkFailed, Cancel, Rows, Statuses, Failures

\* A retry is only planned while attempts are left.
LEMMA NextRetryFacts ==
    ASSUME NEW d, NEW r \in Rows, NEW f
    PROVE /\ NextRetry(d, r, f) \in {"no", "later", "due"}
          /\ NextRetry(d, r, f) # "no" => r.attempts < MaxAttempts(r)
BY DEF NextRetry

\* The row of a new request, and the one that stands for no row.
LEMMA NewRowFacts ==
    ASSUME NEW kind \in Kinds
    PROVE /\ NewRow(kind) \in Rows /\ NewRow(kind).status = "pending"
          /\ NewRow(kind).attempts = 0 /\ NewRow(kind).retry = "no"
          /\ NoRow \in Rows /\ NoRow.status = "none"
          /\ NoRow.attempts = 0 /\ NoRow.retry = "no"
BY DEF NewRow, NoRow, Rows, Statuses, Failures, Kinds

\* prepare_delivery keeps the attempts, and ends in a row to be saved unless
\* the source is open.
LEMMA PreparedFacts ==
    ASSUME NEW d, NEW r \in Rows
    PROVE /\ Prepared(d, r) \in Rows
          /\ Prepared(d, r).kind = r.kind /\ Prepared(d, r).attempts = r.attempts
          /\ source[d] \in {"completed", "gone"} =>
               /\ Prepared(d, r).status \in {"failed", "cancelled"}
               /\ Prepared(d, r).retry = "no"
BY DEF Prepared, MarkFailed, Cancel, Rows, Statuses, Failures
-----------------------------------------------------------------------------
\* A process that ends lets go of its row, and of no other.
LEMMA IdleFacts ==
    ASSUME IInv, NEW p \in Procs, Idle(p)
    PROVE /\ pc' \in [Procs -> PCs] /\ pc'[p] = "idle"
          /\ job' \in [Procs -> Deliveries \cup {None}]
          /\ copy' \in [Procs -> Rows]
          /\ rowBy' \in [Deliveries -> Procs \cup {None}]
          /\ \A q \in Procs : q # p =>
               pc'[q] = pc[q] /\ job'[q] = job[q] /\ copy'[q] = copy[q]
          /\ \A d \in Deliveries :
               /\ rowBy[d] = p => rowBy'[d] = None
               /\ rowBy[d] # p => rowBy'[d] = rowBy[d]
  <1>1. NoRow \in Rows
    BY NewRowFacts DEF Kinds
  <1>2. QED
    BY <1>1 DEF IInv, TypeOK, Idle, PCs
-----------------------------------------------------------------------------
(***************************************************************************)
(* The invariant is inductive: one lemma per action.                       *)
(***************************************************************************)
LEMMA InitIInv == Init => IInv
  <1>1. NoRow \in Rows /\ NoRow.status = "none" /\ NoRow.attempts = 0 /\ NoRow.retry = "no"
    BY NewRowFacts DEF Kinds
  <1>2. QED
    BY <1>1, ConstantsAssumption
    DEF Init, IInv, TypeOK, AttemptsInv, LockInv, SentInv, Sending, RetryLeft,
        MaxAttempts, PCs, LapseKinds, Settled

\* A new request starts with no attempts, and was never sent.
LEMMA EnqueueStep ==
    ASSUME IInv, NEW d \in Deliveries, NEW kind \in Kinds, EnqueueNotificationRequest(d, kind)
    PROVE IInv'
  <1> USE DEF IInv, EnqueueNotificationRequest, procVars, boundVars
  <1>1. TypeOK'
    BY NewRowFacts DEF TypeOK, MaxAttempts
  <1>2. AttemptsInv'
    <2>1. \A p \in Procs : Sending(p) => job[p] # d
      BY ConstantsAssumption DEF TypeOK, AttemptsInv, LockInv, Sending, Reservable
    <2>2. /\ delivery'[d] = NewRow(kind)
          /\ \A e \in Deliveries : e # d => delivery'[e] = delivery[e]
      BY DEF TypeOK
    <2>3. QED
      BY <2>1, <2>2, NewRowFacts DEF TypeOK, AttemptsInv, Sending, RetryLeft
  <1>3. LockInv'
    BY NewRowFacts DEF TypeOK, LockInv, Sending, Reservable
  <1>4. SentInv'
    BY NewRowFacts DEF TypeOK, SentInv, Lapsed, Settled
  <1>5. QED
    BY <1>1, <1>2, <1>3, <1>4

\* The source of a delivery is no part of the invariant but of its type.
LEMMA CloseSourceStep ==
    ASSUME IInv, NEW d \in Deliveries, NEW how \in {"completed", "gone"}, CloseSource(d, how)
    PROVE IInv'
  BY DEF IInv, CloseSource, procVars, boundVars, TypeOK, AttemptsInv, LockInv, SentInv,
     Sending, Lapsed

\* Nor is its age.
LEMMA ExpireStep ==
    ASSUME IInv, NEW d \in Deliveries, Expire(d)
    PROVE IInv'
  BY DEF IInv, Expire, procVars, boundVars, TypeOK, AttemptsInv, LockInv, SentInv,
     Sending, Lapsed

\* A retry that becomes due leaves the attempts as they are.
LEMMA RetryDueStep ==
    ASSUME IInv, NEW d \in Deliveries, RetryDue(d)
    PROVE IInv'
  <1> USE DEF IInv, RetryDue, procVars, boundVars
  <1>1. /\ delivery'[d].status = delivery[d].status
        /\ delivery'[d].attempts = delivery[d].attempts
        /\ delivery'[d].kind = delivery[d].kind
        /\ delivery[d].retry # "no" /\ delivery'[d] \in Rows
        /\ \A e \in Deliveries : e # d => delivery'[e] = delivery[e]
    BY DEF TypeOK, Rows
  <1>2. TypeOK'
    BY <1>1 DEF TypeOK, MaxAttempts
  <1>3. AttemptsInv'
    BY <1>1 DEF TypeOK, AttemptsInv, LockInv, Sending, RetryLeft, MaxAttempts
  <1>4. LockInv'
    BY <1>1 DEF TypeOK, LockInv, Sending, Reservable
  <1>5. SentInv'
    BY <1>1 DEF TypeOK, SentInv, Lapsed, Settled
  <1>6. QED
    BY <1>2, <1>3, <1>4, <1>5

\* A reservation counts one more attempt of a row that nobody had locked.
LEMMA ReserveStep ==
    ASSUME IInv, NEW p \in Procs, NEW d \in Deliveries, ReserveDelivery(p, d)
    PROVE IInv'
  <1> DEFINE r == [delivery[d] EXCEPT !.attempts = @ + 1]
  <1> USE DEF IInv, ReserveDelivery, boundVars
  <1>1. /\ r \in Rows /\ r.kind = delivery[d].kind
        /\ r.attempts = delivery[d].attempts + 1
    <2>1. delivery[d] \in Rows
      BY DEF TypeOK
    <2>2. QED
      BY <2>1 DEF Rows
  <1>2. copy'[p] = Prepared(d, r) /\ source[d] \in {"open", "completed", "gone"}
    BY DEF TypeOK
  <1> HIDE DEF r
  <1>3. /\ copy'[p] \in Rows /\ copy'[p].kind = delivery[d].kind
        /\ copy'[p].attempts = delivery[d].attempts + 1
        /\ source[d] # "open" =>
             copy'[p].status \in {"failed", "cancelled"} /\ copy'[p].retry = "no"
    BY <1>1, <1>2, PreparedFacts
  <1>4. /\ pc' = [pc EXCEPT ![p] = IF source[d] = "open" THEN "send" ELSE "save"]
        /\ job' = [job EXCEPT ![p] = d] /\ rowBy' = [rowBy EXCEPT ![d] = p]
        /\ \A q \in Procs : q # p => copy'[q] = copy[q]
        /\ copy' \in [Procs -> Rows]
        /\ rowBy[d] = None /\ Reservable(delivery[d]) /\ pc[p] = "idle"
        /\ UNCHANGED <<delivery, request, source, aged, accepted, events, mishaps, lapses>>
    BY <1>3 DEF TypeOK
  <1> USE DEF TypeOK
  <1>5. TypeOK'
    BY <1>4 DEF PCs
  <1>6. AttemptsInv'
    BY <1>3, <1>4 DEF AttemptsInv, Sending, RetryLeft
  <1>7. LockInv'
    BY <1>4, ConstantsAssumption DEF LockInv, Sending
  <1>8. SentInv'
    BY <1>4 DEF SentInv, Lapsed, Settled, Reservable
  <1>9. QED
    BY <1>5, <1>6, <1>7, <1>8

\* What the provider accepts or refuses: a message in the hands of its sender
\* that was accepted before has a lapse to show for it.
LEMMA SendStep ==
    ASSUME IInv, NEW p \in Procs, pc[p] = "send",
           pc' = [pc EXCEPT ![p] = "save"], copy' \in [Procs -> Rows],
           \A q \in Procs : q # p => copy'[q] = copy[q],
           copy'[p].kind = copy[p].kind, copy'[p].attempts = copy[p].attempts,
           copy'[p].status \in {"delivered", "failed"}, RetryLeft(copy'[p]),
           UNCHANGED <<dbVars, job, events>>, mishaps' \in 0 .. MaxMishaps,
           lapses' \in {lapses, lapses \cup {<<"unrecorded", job[p]>>}},
           accepted' \in {accepted, [accepted EXCEPT ![job[p]] = @ + 1]},
           accepted' # accepted =>
             copy'[p].status = "delivered" \/ <<"unrecorded", job[p]>> \in lapses'
    PROVE IInv'
  <1> USE DEF IInv, TypeOK, dbVars
  <1>1. /\ job[p] \in Deliveries /\ rowBy[job[p]] = p
        /\ Reservable(delivery[job[p]]) /\ p # None
    BY ConstantsAssumption DEF AttemptsInv, LockInv, Sending
  <1>2. TypeOK'
    <2>1. lapses' \subseteq LapseKinds \X Deliveries
      BY <1>1 DEF LapseKinds
    <2>2. accepted' \in [Deliveries -> Nat]
      BY <1>1
    <2>3. pc' \in [Procs -> PCs]
      BY DEF PCs
    <2>4. QED
      BY <2>1, <2>2, <2>3
  <1>3. AttemptsInv'
    BY <1>1 DEF AttemptsInv, Sending
  <1>4. LockInv'
    BY <1>1 DEF LockInv, Sending
  <1>5. SentInv'
    <2> SUFFICES ASSUME NEW d \in Deliveries, accepted'[d] > 0
                 PROVE /\ delivery[d].status # "none"
                       /\ \/ Lapsed("unrecorded", d)'
                          \/ /\ accepted'[d] = 1
                             /\ \/ Settled(delivery[d])
                                \/ /\ rowBy[d] # None /\ pc'[rowBy[d]] = "save"
                                   /\ copy'[rowBy[d]].status = "delivered"
      BY DEF SentInv, Settled
    <2>1. CASE d # job[p]
      <3>1. accepted'[d] = accepted[d] /\ rowBy[d] # p
        BY <1>1, <2>1 DEF LockInv
      <3>2. QED
        BY <2>1, <3>1 DEF SentInv, Lapsed
    <2>2. CASE d = job[p]
      <3>1. delivery[d].status # "none" /\ ~Settled(delivery[d])
        BY <1>1, <2>2 DEF Reservable, Settled
      <3>2. accepted[d] > 0 => Lapsed("unrecorded", d)
        BY <1>1, <2>2, <3>1 DEF SentInv
      <3>3. CASE accepted[d] > 0
        BY <3>1, <3>2, <3>3 DEF Lapsed
      <3>4. CASE accepted[d] = 0
        BY <1>1, <2>2, <3>1, <3>4 DEF Lapsed
      <3>5. QED
        BY <3>3, <3>4
    <2>3. QED
      BY <2>1, <2>2
  <1>6. QED
    BY <1>2, <1>3, <1>4, <1>5

\* The provider answers.
LEMMA DispatchStep ==
    ASSUME IInv, NEW p \in Procs, NEW answer \in {"accepted", "retryable", "terminal"},
           Dispatch(p, answer)
    PROVE IInv'
  <1>1. copy[p] \in Rows
    BY DEF IInv, TypeOK
  <1>2. /\ copy'[p] = IF answer = "accepted" THEN MarkDelivered(copy[p])
                      ELSE MarkFailed(copy[p], answer, NextRetry(job[p], copy[p], answer))
        /\ \A q \in Procs : q # p => copy'[q] = copy[q]
    BY DEF IInv, TypeOK, Dispatch
  <1>3. /\ copy'[p] \in Rows /\ copy'[p].kind = copy[p].kind
        /\ copy'[p].attempts = copy[p].attempts
        /\ copy'[p].status = IF answer = "accepted" THEN "delivered" ELSE "failed"
        /\ RetryLeft(copy'[p])
    <2>1. CASE answer = "accepted"
      BY <1>1, <1>2, <2>1, MarkFacts DEF RetryLeft, Failures
    <2>2. CASE answer # "accepted"
      <3> DEFINE retry == NextRetry(job[p], copy[p], answer)
      <3>1. retry \in {"no", "later", "due"} /\ answer \in Failures
        BY <1>1, <2>2, NextRetryFacts DEF Failures
      <3>2. retry # "no" => copy[p].attempts < MaxAttempts(copy[p])
        BY <1>1, NextRetryFacts
      <3>3. copy'[p] = MarkFailed(copy[p], answer, retry)
        BY <1>2, <2>2
      <3> HIDE DEF retry
      <3>4. QED
        BY <1>1, <2>2, <3>1, <3>2, <3>3, MarkFacts DEF RetryLeft, MaxAttempts
    <2>3. QED
      BY <2>1, <2>2
  <1>4. copy' \in [Procs -> Rows]
    BY <1>3 DEF IInv, TypeOK, Dispatch
  <1>5. QED
    BY <1>2, <1>3, <1>4, SendStep DEF Dispatch, IInv, TypeOK, boundVars

\* The provider accepts and the answer is lost.
LEMMA LoseAnswerStep ==
    ASSUME IInv, NEW p \in Procs, LoseAnswer(p)
    PROVE IInv'
  <1> DEFINE retry == NextRetry(job[p], copy[p], "retryable")
  <1>1. copy[p] \in Rows
    BY DEF IInv, TypeOK
  <1>2. /\ copy'[p] = MarkFailed(copy[p], "retryable", retry)
        /\ \A q \in Procs : q # p => copy'[q] = copy[q]
    BY DEF IInv, TypeOK, LoseAnswer
  <1>3. retry \in {"no", "later", "due"}
        /\ (retry # "no" => copy[p].attempts < MaxAttempts(copy[p]))
    BY <1>1, NextRetryFacts
  <1> HIDE DEF retry
  <1>4. /\ copy'[p] \in Rows /\ copy'[p].kind = copy[p].kind
        /\ copy'[p].attempts = copy[p].attempts /\ copy'[p].status = "failed"
        /\ RetryLeft(copy'[p])
    BY <1>1, <1>2, <1>3, MarkFacts DEF RetryLeft, MaxAttempts, Failures
  <1>5. copy' \in [Procs -> Rows]
    BY <1>4 DEF IInv, TypeOK, LoseAnswer
  <1>6. mishaps' \in 0 .. MaxMishaps
    BY ConstantsAssumption DEF IInv, TypeOK, LoseAnswer
  <1>7. QED
    BY <1>2, <1>4, <1>5, <1>6, SendStep DEF LoseAnswer

\* The sender commits its copy, and only the row it has locked changes.
LEMMA SaveStep ==
    ASSUME IInv, NEW p \in Procs, Save(p)
    PROVE IInv'
  <1> DEFINE d == job[p]
  <1>1. /\ d \in Deliveries /\ rowBy[d] = p /\ p # None /\ pc[p] = "save"
        /\ copy[p] \in Rows /\ Reservable(delivery[d])
        /\ copy[p].kind = delivery[d].kind
        /\ copy[p].attempts = delivery[d].attempts + 1
        /\ copy[p].status \in {"delivered", "failed", "cancelled"} /\ RetryLeft(copy[p])
    BY ConstantsAssumption DEF Save, IInv, TypeOK, AttemptsInv, LockInv, Sending
  <1>2. copy[p].attempts <= MaxAttempts(copy[p])
    <2>1. delivery[d] \in Rows /\ delivery[d].attempts < MaxAttempts(delivery[d])
      BY <1>1 DEF IInv, TypeOK, AttemptsInv, RetryLeft, Reservable, MaxAttempts
    <2>2. QED
      BY <1>1, <2>1 DEF Rows, MaxAttempts
  <1>3. /\ delivery'[d] = copy[p]
        /\ \A e \in Deliveries : e # d => delivery'[e] = delivery[e]
        /\ delivery' \in [Deliveries -> Rows]
    BY <1>1 DEF Save, IInv, TypeOK
  <1>4. Idle(p)
    BY DEF Save
  <1>5. \A e \in Deliveries : rowBy[e] = p => e = d
    BY <1>1 DEF IInv, LockInv
  <1>6. \A e \in Deliveries : rowBy'[e] = IF e = d THEN None ELSE rowBy[e]
    BY <1>1, <1>4, <1>5, IdleFacts
  <1>7. \A q \in Procs : q # p /\ Sending(q) => job[q] # d
    BY <1>1 DEF IInv, LockInv
  <1>8. TypeOK'
    <2>1. request' \in [Deliveries ->
            {"none", "pending", "processing", "succeeded", "failed", "cancelled"}]
      BY <1>1 DEF Save, IInv, TypeOK, RequestStatus
    <2>2. UNCHANGED <<source, aged, accepted, events, mishaps, lapses>>
      BY DEF Save, boundVars
    <2>3. \A e \in Deliveries : delivery'[e].attempts <= MaxAttempts(delivery'[e])
      BY <1>2, <1>3 DEF IInv, TypeOK
    <2>4. QED
      BY <1>3, <1>4, <2>1, <2>2, <2>3, IdleFacts DEF IInv, TypeOK, MaxAttempts
  <1>9. AttemptsInv'
    <2>1. \A e \in Deliveries :
            /\ delivery'[e].status \in {"none", "pending"} => delivery'[e].attempts = 0
            /\ RetryLeft(delivery'[e])
      BY <1>1, <1>3 DEF IInv, AttemptsInv
    <2>2. \A q \in Procs : q # p =>
            pc'[q] = pc[q] /\ job'[q] = job[q] /\ copy'[q] = copy[q]
      BY <1>4, IdleFacts
    <2>3. ~Sending(p)' /\ pc'[p] # "webhook" /\ pc'[p] # "save"
      BY <1>4, IdleFacts DEF Sending
    <2>4. \A e \in Deliveries : delivery'[e].kind = delivery[e].kind
                             /\ (delivery[e].status # "none" => delivery'[e].status # "none")
      BY <1>1, <1>3
    <2>5. QED
      BY <1>3, <1>7, <2>1, <2>2, <2>3, <2>4
      DEF IInv, AttemptsInv, Sending, RetryLeft, MaxAttempts
  <1>10. LockInv'
    <2>1. ASSUME NEW q \in Procs, Sending(q)' PROVE rowBy'[job'[q]] = q
      <3>1. q # p /\ Sending(q) /\ job'[q] = job[q]
        BY <1>4, <2>1, IdleFacts DEF Sending
      <3>2. QED
        BY <1>6, <1>7, <3>1 DEF IInv, AttemptsInv, LockInv
    <2>2. ASSUME NEW e \in Deliveries, rowBy'[e] # None
          PROVE /\ Reservable(delivery'[e])
                /\ pc'[rowBy'[e]] \in {"send", "save"} /\ job'[rowBy'[e]] = e
      <3>1. rowBy'[e] = rowBy[e] /\ rowBy[e] \in Procs \ {p} /\ delivery'[e] = delivery[e]
        BY <1>1, <1>3, <1>5, <1>6, <2>2 DEF IInv, TypeOK
      <3>2. QED
        BY <1>4, <2>2, <3>1, IdleFacts DEF IInv, LockInv, Sending
    <2>3. QED
      BY <2>1, <2>2 DEF LockInv, Reservable, Sending
  <1>11. SentInv'
    <2> SUFFICES ASSUME NEW e \in Deliveries, accepted[e] > 0
                 PROVE /\ delivery'[e].status # "none"
                       /\ \/ Lapsed("unrecorded", e)
                          \/ /\ accepted[e] = 1
                             /\ \/ Settled(delivery'[e])
                                \/ /\ rowBy'[e] # None /\ pc'[rowBy'[e]] = "save"
                                   /\ copy'[rowBy'[e]].status = "delivered"
      BY DEF SentInv, Settled, Save, Lapsed, boundVars
    <2>1. CASE e = d
      BY <1>1, <1>3, <2>1 DEF IInv, SentInv, Settled, Reservable
    <2>2. CASE e # d
      BY <1>1, <1>3, <1>4, <1>5, <1>6, <2>2, IdleFacts DEF IInv, TypeOK, SentInv
    <2>3. QED
      BY <2>1, <2>2
  <1>12. QED
    BY <1>8, <1>9, <1>10, <1>11 DEF IInv

\* A transaction that is rolled back leaves the committed rows alone. If its
\* message was accepted, nothing records that.
LEMMA FailStep ==
    ASSUME IInv, NEW p \in Procs, Fail(p)
    PROVE IInv'
  <1>1. /\ Idle(p) /\ mishaps' \in 0 .. MaxMishaps
        /\ UNCHANGED <<delivery, request, source, aged, accepted, events>>
        /\ lapses \subseteq lapses'
        /\ pc[p] = "save" /\ copy[p].status = "delivered" =>
             <<"unrecorded", job[p]>> \in lapses'
    BY ConstantsAssumption DEF Fail, IInv, TypeOK
  <1>2. TypeOK'
    <2>1. lapses' \subseteq LapseKinds \X Deliveries
      BY DEF Fail, IInv, TypeOK, LapseKinds, AttemptsInv, Sending
    <2>2. QED
      BY <1>1, <2>1, IdleFacts DEF IInv, TypeOK
  <1>3. AttemptsInv'
    BY <1>1, IdleFacts DEF IInv, TypeOK, AttemptsInv, Sending
  <1>4. LockInv'
    <2>1. ASSUME NEW q \in Procs, Sending(q)' PROVE rowBy'[job'[q]] = q
      <3>1. q # p /\ Sending(q) /\ job'[q] = job[q]
        BY <1>1, <2>1, IdleFacts DEF Sending
      <3>2. QED
        BY <1>1, <3>1, IdleFacts DEF IInv, AttemptsInv, LockInv
    <2>2. ASSUME NEW e \in Deliveries, rowBy'[e] # None
          PROVE /\ Reservable(delivery[e])
                /\ pc'[rowBy'[e]] \in {"send", "save"} /\ job'[rowBy'[e]] = e
      <3>1. rowBy'[e] = rowBy[e] /\ rowBy[e] \in Procs \ {p}
        BY <1>1, <2>2, IdleFacts DEF IInv, TypeOK
      <3>2. QED
        BY <1>1, <2>2, <3>1, IdleFacts DEF IInv, LockInv, Sending
    <2>3. QED
      BY <1>1, <2>1, <2>2 DEF LockInv, Reservable, Sending
  <1>5. SentInv'
    <2> SUFFICES ASSUME NEW d \in Deliveries, accepted[d] > 0
                 PROVE /\ delivery[d].status # "none"
                       /\ \/ Lapsed("unrecorded", d)'
                          \/ /\ accepted[d] = 1
                             /\ \/ Settled(delivery[d])
                                \/ /\ rowBy'[d] # None /\ pc'[rowBy'[d]] = "save"
                                   /\ copy'[rowBy'[d]].status = "delivered"
      BY <1>1 DEF SentInv, Settled
    <2>1. CASE rowBy[d] = p
      <3>1. job[p] = d
        BY <2>1, ConstantsAssumption DEF IInv, LockInv
      <3>2. QED
        BY <1>1, <2>1, <3>1 DEF IInv, SentInv, Lapsed
    <2>2. CASE rowBy[d] # p
      BY <1>1, <2>2, IdleFacts DEF IInv, TypeOK, SentInv, Lapsed
    <2>3. QED
      BY <2>1, <2>2
  <1>6. QED
    BY <1>2, <1>3, <1>4, <1>5 DEF IInv

\* The webhook reads a row that is there and keeps a copy to write.
LEMMA ReadWebhookStep ==
    ASSUME IInv, NEW p \in Procs, NEW d \in Deliveries, NEW o \in Outcomes,
           ReadWebhook(p, d, o)
    PROVE IInv'
  <1>1. /\ copy'[p] = IF o = "delivered" THEN MarkDelivered(delivery[d])
                      ELSE MarkFailed(delivery[d], "bounced", "no")
        /\ \A q \in Procs : q # p =>
             copy'[q] = copy[q] /\ pc'[q] = pc[q] /\ job'[q] = job[q]
        /\ pc[p] = "idle" /\ pc'[p] = "webhook" /\ job'[p] = d
        /\ delivery[d] \in Rows /\ delivery[d].status # "none"
        /\ UNCHANGED <<dbVars, accepted, mishaps, lapses>>
        /\ events' \in 0 .. MaxEvents
    BY ConstantsAssumption DEF IInv, TypeOK, SentInv, ReadWebhook
  <1>2. /\ copy'[p] \in Rows /\ copy'[p].kind = delivery[d].kind
        /\ copy'[p].status \in {"delivered", "failed"} /\ copy'[p].retry = "no"
    BY <1>1, MarkFacts DEF Failures
  <1>3. TypeOK'
    BY <1>1, <1>2 DEF IInv, TypeOK, ReadWebhook, dbVars, PCs
  <1>4. AttemptsInv'
    BY <1>1, <1>2 DEF IInv, AttemptsInv, Sending, dbVars
  <1>5. LockInv'
    BY <1>1 DEF IInv, TypeOK, LockInv, Sending, dbVars
  <1>6. SentInv'
    BY <1>1 DEF IInv, TypeOK, SentInv, Lapsed, Settled, dbVars
  <1>7. QED
    BY <1>3, <1>4, <1>5, <1>6 DEF IInv

\* The webhook writes over a row that nobody has locked, and settles it.
LEMMA ApplyWebhookStep ==
    ASSUME IInv, NEW p \in Procs, ApplyWebhook(p)
    PROVE IInv'
  <1> DEFINE d == job[p]
             r == [copy[p] EXCEPT !.attempts = delivery[d].attempts]
  <1>1. /\ d \in Deliveries /\ copy[p] \in Rows /\ delivery[d] \in Rows
        /\ rowBy[d] = None /\ pc[p] = "webhook" /\ copy[p].kind = delivery[d].kind
        /\ copy[p].status \in {"delivered", "failed"} /\ copy[p].retry = "no"
    BY DEF ApplyWebhook, IInv, TypeOK, AttemptsInv
  <1>2. /\ r \in Rows /\ r.kind = delivery[d].kind /\ r.attempts = delivery[d].attempts
        /\ r.status \in {"delivered", "failed"} /\ r.retry = "no"
    BY <1>1 DEF Rows
  <1>3. /\ delivery' = [delivery EXCEPT ![d] = r] /\ Idle(p)
        /\ request' = [request EXCEPT ![d] = Reconciled(@, r)]
        /\ UNCHANGED <<source, aged, accepted, events, mishaps>>
        /\ lapses' \in {lapses, lapses \cup {<<"staleWebhook", d>>}}
    BY DEF ApplyWebhook
  <1> HIDE DEF r
  <1>4. /\ delivery'[d] = r
        /\ \A e \in Deliveries : e # d => delivery'[e] = delivery[e]
        /\ delivery' \in [Deliveries -> Rows]
    BY <1>1, <1>2, <1>3 DEF IInv, TypeOK
  <1>5. rowBy' = rowBy
    <2>1. \A e \in Deliveries : rowBy[e] # p
      BY <1>1, ConstantsAssumption DEF IInv, LockInv, Sending
    <2>2. QED
      BY <1>3, <2>1 DEF IInv, TypeOK, Idle
  <1>6. \A q \in Procs : Sending(q) => job[q] # d
    BY <1>1, ConstantsAssumption DEF IInv, LockInv
  <1>7. TypeOK'
    <2>1. request' \in [Deliveries ->
            {"none", "pending", "processing", "succeeded", "failed", "cancelled"}]
      BY <1>1, <1>3 DEF IInv, TypeOK, Reconciled
    <2>2. \A e \in Deliveries : delivery'[e].attempts <= MaxAttempts(delivery'[e])
      BY <1>1, <1>2, <1>4 DEF IInv, TypeOK, MaxAttempts
    <2>3. lapses' \subseteq LapseKinds \X Deliveries
      BY <1>1, <1>3 DEF IInv, TypeOK, LapseKinds
    <2>4. QED
      BY <1>3, <1>4, <2>1, <2>2, <2>3, IdleFacts DEF IInv, TypeOK, MaxAttempts
  <1>8. AttemptsInv'
    <2>1. \A e \in Deliveries :
            /\ delivery'[e].status \in {"none", "pending"} => delivery'[e].attempts = 0
            /\ RetryLeft(delivery'[e]) /\ delivery'[e].kind = delivery[e].kind
            /\ delivery[e].status # "none" => delivery'[e].status # "none"
      BY <1>2, <1>4 DEF IInv, AttemptsInv, RetryLeft
    <2>2. \A q \in Procs : q # p =>
            pc'[q] = pc[q] /\ job'[q] = job[q] /\ copy'[q] = copy[q]
      BY <1>3, IdleFacts
    <2>3. ~Sending(p)' /\ pc'[p] # "webhook" /\ pc'[p] # "save"
      BY <1>3, IdleFacts DEF Sending
    <2>4. QED
      BY <1>4, <1>6, <2>1, <2>2, <2>3 DEF IInv, AttemptsInv, Sending, RetryLeft, MaxAttempts
  <1>9. LockInv'
    BY <1>1, <1>3, <1>4, <1>5, <1>6, IdleFacts DEF IInv, TypeOK, LockInv, Sending
  <1>10. SentInv'
    <2> SUFFICES ASSUME NEW e \in Deliveries, accepted[e] > 0
                 PROVE /\ delivery'[e].status # "none"
                       /\ \/ Lapsed("unrecorded", e)'
                          \/ /\ accepted[e] = 1
                             /\ \/ Settled(delivery'[e])
                                \/ /\ rowBy[e] # None /\ pc'[rowBy[e]] = "save"
                                   /\ copy'[rowBy[e]].status = "delivered"
      BY <1>3, <1>5 DEF SentInv, Settled
    <2>1. CASE e = d
      BY <1>1, <1>2, <1>3, <1>4, <2>1 DEF IInv, SentInv, Settled, Lapsed
    <2>2. CASE e # d
      <3>1. rowBy[e] # p
        BY <1>1, ConstantsAssumption DEF IInv, LockInv, Sending
      <3>2. QED
        BY <1>3, <1>4, <2>2, <3>1, IdleFacts DEF IInv, TypeOK, SentInv, Lapsed
    <2>3. QED
      BY <2>1, <2>2
  <1>11. QED
    BY <1>7, <1>8, <1>9, <1>10 DEF IInv

\* Every step of the outbox keeps the invariant.
LEMMA NextIInv == IInv /\ [Next]_vars => IInv'
  <1> SUFFICES ASSUME IInv, [Next]_vars PROVE IInv'
    OBVIOUS
  <1>1. ASSUME NEW d \in Deliveries, RetryDue(d) PROVE IInv'
    BY <1>1, RetryDueStep
  <1>2. ASSUME NEW d \in Deliveries, Expire(d) PROVE IInv'
    BY <1>2, ExpireStep
  <1>3. ASSUME NEW d \in Deliveries, NEW kind \in Kinds, EnqueueNotificationRequest(d, kind)
        PROVE IInv'
    BY <1>3, EnqueueStep
  <1>4. ASSUME NEW d \in Deliveries, NEW how \in {"completed", "gone"}, CloseSource(d, how)
        PROVE IInv'
    BY <1>4, CloseSourceStep
  <1>5. ASSUME NEW p \in Procs, Worker(p) PROVE IInv'
    BY <1>5, ReserveStep, DispatchStep, SaveStep DEF Worker
  <1>6. ASSUME NEW p \in Procs, LoseAnswer(p) \/ ApplyWebhook(p) \/ Fail(p) PROVE IInv'
    BY <1>6, LoseAnswerStep, ApplyWebhookStep, FailStep
  <1>7. ASSUME NEW p \in Procs, NEW d \in Deliveries, NEW o \in Outcomes, ReadWebhook(p, d, o)
        PROVE IInv'
    BY <1>7, ReadWebhookStep
  <1>8. CASE UNCHANGED vars
    BY <1>8 DEF vars, dbVars, procVars, boundVars, IInv, TypeOK, AttemptsInv, LockInv,
       SentInv, Sending, Lapsed, Settled, Reservable, RetryLeft, MaxAttempts
  <1>9. QED
    BY <1>1, <1>2, <1>3, <1>4, <1>5, <1>6, <1>7, <1>8 DEF Next

\* The invariant holds of every reachable state.
THEOREM Invariance == Spec => []IInv
  <1>1. QED
    BY InitIInv, NextIInv, PTL DEF Spec

\* The rows have their type, and no delivery is tried more often than
\* next_retry_delay has delays for, whoever writes its row.
THEOREM TypeCorrect == Spec => []TypeOK
  <1>1. IInv => TypeOK
    BY DEF IInv
  <1>2. QED
    BY <1>1, Invariance, PTL

\* process_single_delivery sends a message once, unless the provider accepted
\* it and nothing recorded that: a lost answer, or a transaction that failed
\* after the call.
THEOREM NeverSentTwice == Spec => []SentOnce
  <1>1. IInv => SentOnce
    BY DEF IInv, TypeOK, SentInv, SentOnce
  <1>2. QED
    BY <1>1, Invariance, PTL
-----------------------------------------------------------------------------
(***************************************************************************)
(* The status of a request.                                                *)
(***************************************************************************)
\* The status that reconcile_request_status derives is the one of the row,
\* unless the request had been cancelled.
LEMMA ReconciledFacts ==
    ASSUME NEW s, NEW r \in Rows, r.status \in {"delivered", "failed"}, r.retry = "no"
    PROVE /\ s # "cancelled" => Reconciled(s, r) = RequestStatus(r)
          /\ s = "cancelled" => Reconciled(s, r) = "cancelled"
BY DEF Reconciled, RequestStatus

\* A request that shows "cancelled" belongs to a delivery that is.
LEMMA CancelledRequest ==
    ASSUME NEW r \in Rows, RequestStatus(r) = "cancelled"
    PROVE r.status = "cancelled"
BY DEF RequestStatus

\* Every step keeps request and delivery together: the two are written in one
\* transaction, and the webhook that writes over a cancelled delivery is
\* recorded as one that had read an old row.
LEMMA NextRequest ==
    IInv /\ IInv' /\ RequestMatchesDelivery /\ [Next]_vars => RequestMatchesDelivery'
  <1> SUFFICES ASSUME IInv, IInv', RequestMatchesDelivery, [Next]_vars
               PROVE RequestMatchesDelivery'
    OBVIOUS
  <1> DEFINE Row(f, r, l, d) ==
        f[d].status # "none" =>
          \/ r[d] = RequestStatus(f[d])
          \/ r[d] = "cancelled" /\ <<"staleWebhook", d>> \in l
  <1>1. SUFFICES ASSUME NEW d \in Deliveries PROVE Row(delivery', request', lapses', d)
    BY DEF RequestMatchesDelivery, Lapsed, RequestStatus
  <1>2. Row(delivery, request, lapses, d)
    BY DEF RequestMatchesDelivery, Lapsed
  <1>3. lapses \subseteq lapses'
    BY DEF Next, Worker, RetryDue, Expire, EnqueueNotificationRequest, CloseSource,
       ReserveDelivery, Dispatch, Save, LoseAnswer, ApplyWebhook, Fail, ReadWebhook,
       vars, boundVars
  <1>4. CASE delivery'[d] = delivery[d] /\ request'[d] = request[d]
    BY <1>2, <1>3, <1>4
  <1>5. ASSUME NEW e \in Deliveries, RetryDue(e)
        PROVE Row(delivery', request', lapses', d)
    <2>1. CASE e = d
      <3>1. /\ delivery'[d].status = delivery[d].status /\ request'[d] = request[d]
            /\ delivery[d].retry # "no" /\ delivery'[d].retry # "no"
        BY <1>5, <2>1 DEF RetryDue, IInv, TypeOK, Rows
      <3>2. RequestStatus(delivery'[d]) = RequestStatus(delivery[d])
        BY <3>1 DEF RequestStatus
      <3>3. QED
        BY <1>2, <1>3, <3>1, <3>2
    <2>2. CASE e # d
      BY <1>4, <1>5, <2>2 DEF RetryDue, IInv, TypeOK
    <2>3. QED
      BY <2>1, <2>2
  <1>6. ASSUME NEW e \in Deliveries, NEW kind \in Kinds, EnqueueNotificationRequest(e, kind)
        PROVE Row(delivery', request', lapses', d)
    <2>1. CASE e = d
      <3>1. delivery'[d].status = "pending" /\ request'[d] = "pending"
        BY <1>6, <2>1, NewRowFacts DEF EnqueueNotificationRequest, IInv, TypeOK
      <3>2. QED
        BY <3>1 DEF RequestStatus
    <2>2. CASE e # d
      BY <1>4, <1>6, <2>2 DEF EnqueueNotificationRequest, IInv, TypeOK
    <2>3. QED
      BY <2>1, <2>2
  <1>7. ASSUME NEW p \in Procs, Save(p)
        PROVE Row(delivery', request', lapses', d)
    <2>1. CASE job[p] = d
      BY <1>7, <2>1 DEF Save, IInv, TypeOK
    <2>2. CASE job[p] # d
      BY <1>4, <1>7, <2>2 DEF Save, IInv, TypeOK
    <2>3. QED
      BY <2>1, <2>2
  <1>8. ASSUME NEW p \in Procs, ApplyWebhook(p)
        PROVE Row(delivery', request', lapses', d)
    <2>1. CASE job[p] = d
      <3> DEFINE r == [copy[p] EXCEPT !.attempts = delivery[d].attempts]
      <3>1. /\ delivery'[d] = r /\ request'[d] = Reconciled(request[d], r)
            /\ delivery[d].status = "cancelled" => <<"staleWebhook", d>> \in lapses'
        BY <1>8, <2>1 DEF ApplyWebhook, IInv, TypeOK
      <3>2. /\ r \in Rows /\ r.status \in {"delivered", "failed"} /\ r.retry = "no"
            /\ delivery[d] \in Rows /\ delivery[d].status # "none"
        BY <1>8, <2>1 DEF ApplyWebhook, IInv, TypeOK, AttemptsInv, Rows
      <3> HIDE DEF r
      <3>3. CASE request[d] # "cancelled"
        BY <3>1, <3>2, <3>3, ReconciledFacts
      <3>4. CASE request[d] = "cancelled"
        BY <1>2, <1>3, <3>1, <3>2, <3>4, CancelledRequest, ReconciledFacts
      <3>5. QED
        BY <3>3, <3>4
    <2>2. CASE job[p] # d
      BY <1>4, <1>8, <2>2 DEF ApplyWebhook, IInv, TypeOK
    <2>3. QED
      BY <2>1, <2>2
  <1>9. CASE UNCHANGED <<delivery, request>>
    BY <1>4, <1>9
  <1>10. QED
    BY <1>5, <1>6, <1>7, <1>8, <1>9
    DEF Next, Worker, Expire, CloseSource, ReserveDelivery, Dispatch, LoseAnswer, Fail,
        ReadWebhook, vars, dbVars

\* The status of a request is the one of its delivery, whichever of worker
\* and webhook wrote last, but for a webhook that had read the delivery before
\* it was cancelled and wrote after: the request then stays cancelled.
THEOREM RequestStatusCorrect == Spec => []RequestMatchesDelivery
  <1>1. Init => RequestMatchesDelivery
    BY NewRowFacts DEF Init, RequestMatchesDelivery, Kinds
  <1>2. QED
    BY <1>1, NextRequest, Invariance, PTL DEF Spec
=============================================================================
