--------------------------- MODULE JobQueueProofs ---------------------------
(***************************************************************************)
(* Theorems about the job queue, for any number of workers, schedules and  *)
(* rows.                                                                   *)
(***************************************************************************)
EXTENDS JobQueue, FiniteSetTheorems, TLAPS

\* The table's bound is a number.
LEMMA MaxRowsNat == MaxRows \in Nat
BY SizeAssumption DEF MaxRows

\* The id the next INSERT gives is one of the table's rows.
LEMMA NewRow == ASSUME TypeOK, lastId < MaxRows
                PROVE lastId + 1 \in Rows /\ lastId + 1 \in 0 .. MaxRows
BY MaxRowsNat DEF TypeOK, Rows

\* The type invariant holds initially.
LEMMA TypeInit == Init => TypeOK
<1>1. Init => TypeOK
  <2> SUFFICES ASSUME Init PROVE TypeOK
    OBVIOUS
  <2>1. /\ due \in [Rows -> BOOLEAN]
        /\ amILeader \in [Workers -> BOOLEAN]
        /\ leaseFresh \in BOOLEAN
    BY Zenon DEF Init
  <2>2. /\ abandoned \in [Workers -> SUBSET Rows]
        /\ toSchedule \in [Workers -> SUBSET Schedules]
        /\ tracked \in [Workers -> SUBSET Rows]
        /\ shutdownAt \subseteq Workers
    BY DEF Init
  <2>3. lastId \in 0 .. MaxRows /\ attempt \in [Rows -> Nat]
    BY MaxRowsNat DEF Init
  <2> QED
    BY <2>1, <2>2, <2>3 DEF Init, TypeOK, Statuses, PCs
<1> QED
  BY <1>1

\* The type invariant is inductive by itself.
LEMMA TypeStep == TypeOK /\ [Next]_vars => TypeOK'
<1>2. TypeOK /\ [Next]_vars => TypeOK'
  <2> SUFFICES ASSUME TypeOK, [Next]_vars PROVE TypeOK'
    OBVIOUS
  <2> USE DEF jobVars, tableVars, leaderVars, localVars, trackVars, Goto
  <2>1. CASE Schedule
    BY <2>1, NewRow DEF Schedule, InsertRow, TypeOK, Statuses
  <2>2. CASE ScheduleLater
    BY <2>2, NewRow DEF ScheduleLater, InsertRow, TypeOK, Statuses
  <2>3. CASE LeaseExpires
    BY <2>3 DEF LeaseExpires, TypeOK
  <2>4. ASSUME NEW j \in Rows, FallDue(j) PROVE TypeOK'
    BY <2>4 DEF FallDue, TypeOK
  <2>5. ASSUME NEW w \in Workers, Register(w) \/ Cancelled(w) \/ ReleaseLock(w) \/ Age(w)
        PROVE TypeOK'
    <3>1. CASE Register(w)
      BY <3>1 DEF Register, TypeOK, PCs
    <3>2. CASE Cancelled(w)
      BY <3>2 DEF Cancelled, TypeOK, PCs
    <3>3. CASE ReleaseLock(w)
      BY <3>3 DEF ReleaseLock, TypeOK, PCs
    <3>4. CASE Age(w)
      BY <3>4 DEF Age, TypeOK, PCs
    <3> QED
      BY <2>5, <3>1, <3>2, <3>3, <3>4
  <2>6. ASSUME NEW w \in Workers, Die(w) PROVE TypeOK'
    BY <2>6 DEF Die, TypeOK, PCs
  <2>7. ASSUME NEW w \in Workers, NEW j \in Rows, NEW r \in {"ok", "retry", "fail"},
               TaskFinish(w, j, r)
        PROVE TypeOK'
    BY <2>7 DEF TaskFinish, TypeOK
  <2>9. ASSUME NEW w \in Workers, NEW j \in Rows, NEW d \in BOOLEAN,
               InsertRetry(w, j, d)
        PROVE TypeOK'
    <3>1. CASE status[j] = "failed"
      <4> DEFINE n == lastId + 1
      <4>1. /\ lastId < MaxRows
            /\ lastId' = n
            /\ status' = [status EXCEPT ![n] = "scheduled"]
            /\ attempt' = [attempt EXCEPT ![n] = attempt[j] + 1]
            /\ origin' = [origin EXCEPT ![n] = origin[j]]
            /\ due' = [due EXCEPT ![n] = d]
            /\ scheduleName' = [scheduleName EXCEPT ![n] = scheduleName[j]]
            /\ pc' = [pc EXCEPT ![w] = "retrySchedule"]
            /\ cur' = [cur EXCEPT ![w] = j]
            /\ new' = [new EXCEPT ![w] = n]
            /\ abandoned' = [abandoned EXCEPT ![w] = abandoned[w] \ {j}]
            /\ UNCHANGED <<startedBy, nextAttempt, tableVars, leaderVars, ctx,
                           toSchedule, amILeader, trackVars>>
        BY <2>9, <3>1 DEF InsertRetry, InsertRow
      <4>2. n \in Rows /\ n \in 0 .. MaxRows /\ attempt[j] + 1 \in Nat
        BY <4>1, NewRow DEF TypeOK
      <4> HIDE DEF n
      <4>3. due' \in [Rows -> BOOLEAN]
        BY <4>1, Zenon DEF TypeOK
      <4>4. /\ status' \in [Rows -> Statuses]
            /\ attempt' \in [Rows -> Nat]
            /\ origin' \in [Rows -> Rows \cup {None}]
            /\ scheduleName' \in [Rows -> Schedules \cup {None}]
        BY <4>1, <4>2 DEF TypeOK, Statuses
      <4>5. /\ pc' \in [Workers -> PCs]
            /\ cur' \in [Workers -> Rows \cup {None}]
            /\ new' \in [Workers -> Rows \cup {None}]
            /\ abandoned' \in [Workers -> SUBSET Rows]
        BY <4>1, <4>2 DEF TypeOK, PCs
      <4>6. \A v \in Workers :
              /\ pc'[v] \in {"retryInsert", "retrySchedule", "retryLink"} =>
                   cur'[v] \in Rows
              /\ pc'[v] \in {"retrySchedule", "retryLink", "cronLink"} =>
                   new'[v] \in Rows
        BY <4>1, <4>2 DEF TypeOK
      <4> QED
        BY <4>1, <4>2, <4>3, <4>4, <4>5, <4>6 DEF TypeOK
    <3>2. CASE status[j] # "failed"
      BY <2>6, <2>9, <3>2 DEF InsertRetry
    <3> QED
      BY <3>1, <3>2
  <2>10. ASSUME NEW w \in Workers, Tick(w) PROVE TypeOK'
    <3>1. CASE Heartbeat(w)
      <4>1. CASE w \in shutdownAt
        BY <2>6, <3>1, <4>1 DEF Heartbeat
      <4>2. CASE w \notin shutdownAt
        BY <3>1, <4>2 DEF Heartbeat, TypeOK, PCs
      <4> QED
        BY <4>1, <4>2
    <3>2. CASE RemoveLeaseIfExpired(w)
      BY <3>2 DEF RemoveLeaseIfExpired, TypeOK, PCs
    <3>10. CASE TryGetLeaderLease(w)
      <4>1. amILeader' \in [Workers -> BOOLEAN]
        BY <3>10 DEF TryGetLeaderLease, TypeOK
      <4> QED
        BY <3>10, <4>1 DEF TryGetLeaderLease, TypeOK, PCs
    <3>3. ASSUME NEW j \in Rows, MarkAsCompleted(w, j) PROVE TypeOK'
      <4>1. CASE status[j] = "running"
        <5>1. tracked' \in [Workers -> SUBSET Rows]
          BY <3>3, <4>1 DEF MarkAsCompleted, TypeOK
        <5> QED
          BY <3>3, <4>1, <5>1 DEF MarkAsCompleted, TypeOK, Statuses
      <4>2. CASE status[j] # "running"
        BY <2>6, <3>3, <4>2 DEF MarkAsCompleted
      <4> QED
        BY <4>1, <4>2
    <3>4. ASSUME NEW j \in Rows, MarkAsFailed(w, j) PROVE TypeOK'
      <4>1. CASE status[j] = "running"
        <5>1. tracked' \in [Workers -> SUBSET Rows]
          BY <3>4, <4>1, SMTT(30) DEF MarkAsFailed, TypeOK
        <5>2. status' \in [Rows -> Statuses]
          BY <3>4, <4>1, SMTT(30) DEF MarkAsFailed, TypeOK, Statuses
        <5> QED
          <6>1. CASE result[j] = "retry" /\ attempt[j] < MaxAttempts
            <7>1. /\ pc' = [pc EXCEPT ![w] = "retryInsert"]
                  /\ cur' = [cur EXCEPT ![w] = j]
                  /\ UNCHANGED <<lastId, attempt, startedBy, nextAttempt,
                        scheduleName, due, origin, tableVars, leaderVars, ctx,
                        new, abandoned, toSchedule, amILeader, result>>
              BY <3>4, <4>1, <6>1 DEF MarkAsFailed
            <7> QED
              BY <5>1, <5>2, <7>1 DEF TypeOK, PCs
          <6>2. CASE ~(result[j] = "retry" /\ attempt[j] < MaxAttempts)
            BY <3>4, <4>1, <5>1, <5>2, <6>2 DEF MarkAsFailed, TypeOK, PCs
          <6> QED
            BY <6>1, <6>2
      <4>2. CASE status[j] # "running"
        BY <2>6, <3>4, <4>2 DEF MarkAsFailed
      <4> QED
        BY <4>1, <4>2
    <3>5. CASE RetryInsert(w)
      BY <2>9, <3>5 DEF RetryInsert, TypeOK
    <3>6. CASE RetrySchedule(w)
      BY <3>6 DEF RetrySchedule, TypeOK, PCs
    <3>7. CASE RetryLink(w)
      BY <3>7 DEF RetryLink, TypeOK, PCs
    <3>8. CASE Reserve(w)
      BY <3>8 DEF Reserve, FirstAvailable, Available, TypeOK, Statuses, PCs
    <3>9. QED
      BY <2>10, <3>1, <3>2, <3>10, <3>3, <3>4, <3>5, <3>6, <3>7, <3>8 DEF Tick
  <2>11. ASSUME NEW w \in Workers, LeaderDuties(w) PROVE TypeOK'
    <3>1. CASE TryAdvisoryLock(w) \/ ShutdownDeadWorkers(w) \/ Unlock(w)
      <4>1. CASE TryAdvisoryLock(w)
        BY <4>1, SMTT(30) DEF TryAdvisoryLock, TypeOK, PCs
      <4>2. CASE ShutdownDeadWorkers(w)
        BY <4>2 DEF ShutdownDeadWorkers, TypeOK, PCs
      <4>3. CASE Unlock(w)
        BY <4>3 DEF Unlock, TypeOK, PCs
      <4> QED
        BY <3>1, <4>1, <4>2, <4>3
    <3>2. CASE MarkAbandonedJobsAsFailed(w)
      BY <3>2 DEF MarkAbandonedJobsAsFailed, Abandoned, TypeOK, Statuses, PCs
    <3>3. ASSUME NEW j \in Rows, RecoverInsert(w, j) PROVE TypeOK'
      BY <2>9, <3>3 DEF RecoverInsert
    <3>4. CASE ListSchedules(w)
      BY <3>4 DEF ListSchedules, TypeOK, PCs
    <3>5. ASSUME NEW s \in Schedules, CronInsert(w, s) PROVE TypeOK'
      BY <3>5, NewRow DEF CronInsert, InsertRow, TypeOK, Statuses, PCs
    <3>6. CASE CronLink(w)
      BY <3>6 DEF CronLink, TypeOK, PCs
    <3>7. CASE ScheduleAvailableJobs(w)
      BY <3>7 DEF ScheduleAvailableJobs, TypeOK, Statuses, PCs
    <3>8. QED
      BY <2>11, <3>1, <3>2, <3>3, <3>4, <3>5, <3>6, <3>7 DEF LeaderDuties
  <2>12. ASSUME NEW w \in Workers, Shutdown(w) PROVE TypeOK'
    <3>1. CASE Deregister(w)
      BY <3>1 DEF Deregister, TypeOK, PCs
    <3>2. CASE StepDown(w)
      <4>1. leaseFresh' \in BOOLEAN /\ amILeader' \in [Workers -> BOOLEAN]
        BY <3>2, Zenon DEF StepDown, TypeOK
      <4>2. /\ lease' \in Workers \cup {None}
            /\ ctx' \in [Workers -> {"tick", "recover", "drain"}]
            /\ pc' \in [Workers -> PCs]
        BY <3>2 DEF StepDown, TypeOK, PCs
      <4> QED
        BY <3>2, <4>1, <4>2 DEF StepDown, TypeOK
    <3> QED
      BY <2>12, <3>1, <3>2 DEF Shutdown
  <2>13. CASE UNCHANGED vars
    BY <2>13 DEF vars, TypeOK
  <2> QED
    BY <2>1, <2>2, <2>3, <2>4, <2>5, <2>6, <2>7, <2>10, <2>11, <2>12, <2>13
       DEF Next, Run, Crash
<1> QED
  BY <1>2

\* Every variable keeps its type, and a worker inside retry or schedule_later
\* always knows the rows it works on.
THEOREM TypeCorrect == Spec => []TypeOK
BY TypeInit, TypeStep, PTL DEF Spec
-----------------------------------------------------------------------------
(***************************************************************************)
(* AttemptHistory is not inductive: it says nothing of the retries that    *)
(* are under way. The strengthening treats the right to insert the next    *)
(* attempt of a row as a token. A worker takes it when it moves the row    *)
(* from running to failed, which only one worker can do, and gives it up   *)
(* with the insert; while it holds the token, the row is the latest        *)
(* attempt of its job.                                                     *)
(***************************************************************************)
RowsInv ==
    \A j \in Rows :
      /\ status[j] = "none" <=> lastId < j
      /\ j <= lastId => origin[j] \in 1 .. j

IsLatest(j) ==
    \A k \in Existing : k # j /\ origin[k] = origin[j] => attempt[k] < attempt[j]

TokenInv ==
    /\ \A w \in Workers : \A j \in Retrying(w) :
         /\ j \in Existing
         /\ status[j] = "failed"
         /\ attempt[j] < MaxAttempts
         /\ IsLatest(j)
    /\ \A w, v \in Workers : w # v => Retrying(w) \cap Retrying(v) = {}

HistoryInv == TypeOK /\ RowsInv /\ AttemptHistory /\ TokenInv

\* The rows that exist are rows of the table.
LEMMA ExistingRows == TypeOK => Existing \subseteq Rows
BY MaxRowsNat DEF TypeOK, Existing, Rows

\* A step that inserts no row, moves no row out of failed and gives nobody a
\* new token keeps the invariant.
LEMMA QuietStep ==
    ASSUME HistoryInv, TypeOK', UNCHANGED <<lastId, attempt, origin>>,
           \A j \in Rows : \/ status'[j] = status[j]
                           \/ status[j] \notin {"none", "failed"} /\ status'[j] # "none",
           \A v \in Workers : Retrying(v)' \subseteq Retrying(v)
    PROVE  HistoryInv'
<1> USE ExistingRows DEF HistoryInv
<1>1. RowsInv'
  BY DEF RowsInv
<1>2. AttemptHistory'
  BY DEF AttemptHistory, Existing
<1>3. TokenInv'
  <2>1. ASSUME NEW w \in Workers, NEW j \in Retrying(w)'
        PROVE j \in Existing' /\ status'[j] = "failed"
              /\ attempt'[j] < MaxAttempts /\ IsLatest(j)'
    BY <2>1 DEF TokenInv, IsLatest, Existing
  <2>2. ASSUME NEW w \in Workers, NEW v \in Workers, w # v
        PROVE Retrying(w)' \cap Retrying(v)' = {}
    BY <2>2 DEF TokenInv
  <2> QED
    BY <2>1, <2>2 DEF TokenInv
<1> QED
  BY <1>1, <1>2, <1>3

\* A running row is the latest attempt of its job.
LEMMA RunningIsLatest ==
    ASSUME HistoryInv, NEW j \in Rows, status[j] = "running"
    PROVE  j \in Existing /\ IsLatest(j)
<1>1. j \in Existing
  BY DEF HistoryInv, RowsInv, TypeOK, Existing, Rows
<1>2. ASSUME NEW k \in Existing, k # j, origin[k] = origin[j]
      PROVE attempt[k] < attempt[j]
  BY <1>1, <1>2 DEF HistoryInv, AttemptHistory
<1> QED
  BY <1>1, <1>2 DEF IsLatest

\* Worker w fails the running rows in S and takes tokens for some of those
\* that are below the limit.
LEMMA FailStep ==
    ASSUME HistoryInv, TypeOK', UNCHANGED <<lastId, attempt, origin>>,
           NEW w \in Workers, NEW S \in SUBSET Rows,
           \A j \in S : status[j] = "running",
           \A j \in Rows : status'[j] = IF j \in S THEN "failed" ELSE status[j],
           \A j \in Retrying(w)' : j \in Retrying(w) \/ (j \in S /\ attempt[j] < MaxAttempts),
           \A v \in Workers \ {w} : Retrying(v)' \subseteq Retrying(v)
    PROVE  HistoryInv'
<1> USE ExistingRows DEF HistoryInv
<1>1. RowsInv'
  BY DEF RowsInv
<1>2. AttemptHistory'
  BY DEF AttemptHistory, Existing
<1>3. TokenInv'
  <2>1. ASSUME NEW v \in Workers, NEW j \in Retrying(v)'
        PROVE j \in Existing' /\ status'[j] = "failed"
              /\ attempt'[j] < MaxAttempts /\ IsLatest(j)'
    <3>1. CASE j \in Retrying(v)
      BY <3>1 DEF TokenInv, IsLatest, Existing
    <3>2. CASE v = w /\ j \in S /\ attempt[j] < MaxAttempts
      BY <3>2, RunningIsLatest DEF IsLatest, Existing
    <3> QED
      BY <2>1, <3>1, <3>2
  <2>2. ASSUME NEW v \in Workers, NEW u \in Workers, v # u
        PROVE Retrying(v)' \cap Retrying(u)' = {}
    <3>1. ASSUME NEW j \in Retrying(v)', j \in Retrying(u)' PROVE FALSE
      <4>1. j \in Retrying(v) => status[j] = "failed"
        BY DEF TokenInv
      <4>2. j \in Retrying(u) => status[j] = "failed"
        BY DEF TokenInv
      <4>3. ~(j \in Retrying(v) /\ j \in Retrying(u))
        BY <2>2 DEF TokenInv
      <4> QED
        BY <2>2, <3>1, <4>1, <4>2, <4>3
    <3> QED
      BY <3>1
  <2> QED
    BY <2>1, <2>2 DEF TokenInv
<1> QED
  BY <1>1, <1>2, <1>3

\* A row is inserted that either begins a job of its own, or is the next
\* attempt of a row whose token the inserting worker gives up.
LEMMA InsertStep ==
    ASSUME HistoryInv, TypeOK',
           NEW st \in {"scheduled", "available"}, NEW att, NEW org, NEW d, NEW s,
           InsertRow(st, att, org, d, s),
           \A v \in Workers : Retrying(v)' \subseteq Retrying(v),
           \/ att = 0 /\ org = lastId + 1
           \/ \E w \in Workers : \E j \in Retrying(w) :
                /\ att = attempt[j] + 1 /\ org = origin[j]
                /\ j \notin Retrying(w)'
    PROVE  HistoryInv'
<1> DEFINE n == lastId + 1
<1>a. lastId \in 0 .. MaxRows /\ lastId < MaxRows /\ lastId' = n /\ n \in Rows
  BY NewRow DEF InsertRow, HistoryInv, TypeOK
<1>b. Existing' = Existing \cup {n} /\ n \notin Existing /\ Existing \subseteq Rows
  BY <1>a, ExistingRows, MaxRowsNat DEF Existing, HistoryInv
<1>c. /\ status' = [status EXCEPT ![n] = st]
      /\ attempt' = [attempt EXCEPT ![n] = att]
      /\ origin' = [origin EXCEPT ![n] = org]
      /\ DOMAIN status = Rows /\ DOMAIN attempt = Rows /\ DOMAIN origin = Rows
  BY DEF InsertRow, HistoryInv, TypeOK
<1>0. /\ n \in Rows /\ n \in Nat /\ lastId' = n
      /\ Existing' = Existing \cup {n} /\ n \notin Existing
      /\ Existing \subseteq Rows
      /\ status'[n] = st /\ attempt'[n] = att /\ origin'[n] = org
      /\ \A j \in Rows \ {n} : /\ status'[j] = status[j]
                               /\ attempt'[j] = attempt[j]
                               /\ origin'[j] = origin[j]
      /\ \A j \in Existing : /\ status'[j] = status[j]
                             /\ attempt'[j] = attempt[j]
                             /\ origin'[j] = origin[j]
  BY <1>a, <1>b, <1>c
<1>1. \A j \in Existing : /\ origin[j] \in 1 .. j /\ attempt[j] \in Nat /\ j < n
                          /\ origin[j] # n
  <2> SUFFICES ASSUME NEW j \in Existing
               PROVE origin[j] \in 1 .. j /\ attempt[j] \in Nat /\ j < n /\ origin[j] # n
    OBVIOUS
  <2>1. j \in Rows /\ j \in Nat /\ j <= lastId
    BY <1>a, <1>b, MaxRowsNat DEF Existing
  <2>2. origin[j] \in 1 .. j /\ attempt[j] \in Nat
    BY <2>1 DEF HistoryInv, RowsInv, TypeOK
  <2> QED
    BY <1>a, <2>1, <2>2
\* Every other attempt of the new row's job has failed and came before it.
<1>2. \A k \in Existing : origin[k] = org => status[k] = "failed" /\ attempt[k] < att
  <2>1. CASE att = 0 /\ org = n
    BY <1>0, <1>1, <2>1
  <2>2. ASSUME NEW w \in Workers, NEW j \in Retrying(w),
               att = attempt[j] + 1, org = origin[j]
        PROVE \A k \in Existing : origin[k] = org =>
                status[k] = "failed" /\ attempt[k] < att
    <3>1. j \in Existing /\ status[j] = "failed" /\ IsLatest(j)
      BY DEF HistoryInv, TokenInv
    <3>2. ASSUME NEW k \in Existing, origin[k] = org
          PROVE status[k] = "failed" /\ attempt[k] < att
      <4>1. CASE k = j
        BY <1>1, <2>2, <3>1, <4>1
      <4>2. CASE k # j
        <5>1. attempt[k] < attempt[j]
          BY <2>2, <3>1, <3>2, <4>2 DEF IsLatest
        <5>2. status[k] = "failed"
          BY <1>1, <2>2, <3>1, <3>2, <4>2, <5>1 DEF HistoryInv, AttemptHistory
        <5> QED
          BY <1>1, <2>2, <3>1, <5>1, <5>2
      <4> QED
        BY <4>1, <4>2
    <3> QED
      BY <3>2
  <2> QED
    BY <2>1, <2>2
<1>3. att \in Nat /\ att <= MaxAttempts /\ org \in 1 .. n
  <2>0. n \in Nat /\ 1 <= n /\ MaxAttempts \in Nat
    BY <1>a, SizeAssumption
  <2>1. CASE att = 0 /\ org = n
    BY <2>0, <2>1
  <2>2. ASSUME NEW w \in Workers, NEW j \in Retrying(w),
               att = attempt[j] + 1, org = origin[j]
        PROVE att \in Nat /\ att <= MaxAttempts /\ org \in 1 .. n
    <3>1. j \in Existing /\ attempt[j] < MaxAttempts
      BY DEF HistoryInv, TokenInv
    <3>2. attempt[j] \in Nat /\ origin[j] \in 1 .. j /\ j < n /\ j \in Nat
      BY <1>1, <3>1 DEF Existing
    <3> QED
      BY <2>0, <2>2, <3>1, <3>2
  <2> QED
    BY <2>1, <2>2
<1> HIDE DEF n
<1>4. RowsInv'
  <2>1. \A j \in Rows : status[j] = "none" <=> lastId < j
    BY DEF HistoryInv, RowsInv
  <2>2. ASSUME NEW j \in Rows PROVE status'[j] = "none" <=> lastId' < j
    <3>1. CASE j = n
      BY <1>0, <3>1
    <3>2. CASE j # n
      BY <1>0, <1>a, <2>1, <3>2, MaxRowsNat DEF Rows, n
    <3> QED
      BY <3>1, <3>2
  <2>3. ASSUME NEW j \in Rows, j <= lastId' PROVE origin'[j] \in 1 .. j
    <3>1. CASE j = n
      BY <1>0, <1>3, <3>1
    <3>2. CASE j # n
      BY <1>0, <1>a, <1>1, <2>3, <3>2, MaxRowsNat DEF Existing, Rows, n
    <3> QED
      BY <3>1, <3>2
  <2> QED
    BY <2>2, <2>3 DEF RowsInv
<1>5. AttemptHistory'
  <2>1. ASSUME NEW j \in Existing', NEW k \in Existing', j # k,
               origin'[j] = origin'[k]
        PROVE \/ attempt'[j] < attempt'[k] /\ status'[j] = "failed"
              \/ attempt'[k] < attempt'[j] /\ status'[k] = "failed"
    <3>1. CASE j \in Existing /\ k \in Existing
      BY <1>0, <2>1, <3>1 DEF HistoryInv, AttemptHistory
    <3>2. CASE j = n
      BY <1>0, <1>2, <2>1, <3>2
    <3>3. CASE k = n
      BY <1>0, <1>2, <2>1, <3>3
    <3> QED
      BY <1>0, <2>1, <3>1, <3>2, <3>3
  <2>2. \A j \in Existing' : attempt'[j] <= MaxAttempts
    BY <1>0, <1>3 DEF HistoryInv, AttemptHistory
  <2> QED
    BY <2>1, <2>2 DEF AttemptHistory
<1>6. TokenInv'
  <2>1. ASSUME NEW v \in Workers, NEW i \in Retrying(v)'
        PROVE i \in Existing' /\ status'[i] = "failed"
              /\ attempt'[i] < MaxAttempts /\ IsLatest(i)'
    <3>1. i \in Existing /\ status[i] = "failed" /\ attempt[i] < MaxAttempts
          /\ IsLatest(i) /\ i \in Retrying(v)
      BY <2>1 DEF HistoryInv, TokenInv
    \* Two tokens for one job would both be on its latest attempt.
    <3>2. origin[i] # org
      <4>1. CASE att = 0 /\ org = n
        BY <1>0, <1>1, <3>1, <4>1
      <4>2. ASSUME NEW w \in Workers, NEW j \in Retrying(w), j \notin Retrying(w)',
                   org = origin[j], origin[i] = org
            PROVE FALSE
        <5>1. j \in Existing /\ IsLatest(j)
          BY DEF HistoryInv, TokenInv
        <5>2. i = j
          BY <1>1, <3>1, <4>2, <5>1 DEF IsLatest
        <5>3. v = w
          BY <3>1, <5>2, <2>1 DEF HistoryInv, TokenInv
        <5> QED
          BY <2>1, <4>2, <5>2, <5>3
      <4> QED
        BY <4>1, <4>2 DEF n
    <3>3. IsLatest(i)'
      BY <1>0, <3>1, <3>2 DEF IsLatest
    <3> QED
      BY <1>0, <3>1, <3>3
  <2>2. ASSUME NEW v \in Workers, NEW u \in Workers, v # u
        PROVE Retrying(v)' \cap Retrying(u)' = {}
    BY <2>2 DEF HistoryInv, TokenInv
  <2> QED
    BY <2>1, <2>2 DEF TokenInv
<1> QED
  BY <1>4, <1>5, <1>6 DEF HistoryInv
-----------------------------------------------------------------------------
\* The empty table satisfies the history invariant.
LEMMA HistoryInit == Init => HistoryInv
<1> SUFFICES ASSUME Init PROVE HistoryInv
  OBVIOUS
<1>1. TypeOK
  BY TypeInit
<1>2. lastId = 0 /\ Existing = {}
  BY DEF Init, Existing
<1>3. \A w \in Workers : Retrying(w) = {}
  BY DEF Init, Retrying
<1>4. RowsInv
  BY MaxRowsNat DEF Init, RowsInv, Rows
<1>5. AttemptHistory /\ TokenInv
  BY <1>2, <1>3 DEF AttemptHistory, TokenInv
<1> QED
  BY <1>1, <1>4, <1>5 DEF HistoryInv

\* Every statement of every worker preserves the history invariant.
LEMMA HistoryStep == HistoryInv /\ [Next]_vars => HistoryInv'
<1> SUFFICES ASSUME HistoryInv, [Next]_vars PROVE HistoryInv'
  OBVIOUS
<1>0. TypeOK /\ TypeOK'
  BY TypeStep DEF HistoryInv
<1> USE DEF jobVars, tableVars, leaderVars, localVars, trackVars, Goto
<1>1. CASE Schedule
  <2>1. \A v \in Workers : Retrying(v)' \subseteq Retrying(v)
    BY <1>1 DEF Schedule, Retrying
  <2> QED
    BY <1>0, <1>1, <2>1, InsertStep DEF Schedule
<1>2. CASE ScheduleLater
  <2>1. \A v \in Workers : Retrying(v)' \subseteq Retrying(v)
    BY <1>2 DEF ScheduleLater, Retrying
  <2> QED
    BY <1>0, <1>2, <2>1, InsertStep DEF ScheduleLater
<1>3. CASE LeaseExpires
  BY <1>0, <1>3, QuietStep DEF LeaseExpires, Retrying
<1>4. ASSUME NEW j \in Rows, FallDue(j) PROVE HistoryInv'
  BY <1>0, <1>4, QuietStep DEF FallDue, Retrying
<1>5. ASSUME NEW w \in Workers,
             Register(w) \/ Cancelled(w) \/ ReleaseLock(w) \/ Age(w)
      PROVE HistoryInv'
  <2>1. \A v \in Workers : Retrying(v)' \subseteq Retrying(v)
    BY <1>0, <1>5 DEF Register, Cancelled, ReleaseLock, Age, Retrying, TypeOK
  <2> QED
    BY <1>0, <1>5, <2>1, QuietStep DEF Register, Cancelled, ReleaseLock, Age
<1>6. ASSUME NEW w \in Workers, Die(w) PROVE HistoryInv'
  <2>1. \A v \in Workers : Retrying(v)' \subseteq Retrying(v)
    BY <1>0, <1>6 DEF Die, Retrying, TypeOK
  <2> QED
    BY <1>0, <1>6, <2>1, QuietStep DEF Die
<1>7. ASSUME NEW w \in Workers, NEW j \in Rows, NEW r \in {"ok", "retry", "fail"},
             TaskFinish(w, j, r)
      PROVE HistoryInv'
  BY <1>0, <1>7, QuietStep DEF TaskFinish, Retrying
<1>8. ASSUME NEW w \in Workers, NEW j \in Retrying(w), NEW d \in BOOLEAN,
             InsertRetry(w, j, d)
      PROVE HistoryInv'
  <2>1. CASE status[j] = "failed"
    <3>1. /\ InsertRow("scheduled", attempt[j] + 1, origin[j], d, scheduleName[j])
          /\ pc' = [pc EXCEPT ![w] = "retrySchedule"]
          /\ cur' = [cur EXCEPT ![w] = j]
          /\ abandoned' = [abandoned EXCEPT ![w] = abandoned[w] \ {j}]
      BY <1>8, <2>1 DEF InsertRetry
    <3>2. Retrying(w)' = abandoned[w] \ {j}
      BY <1>0, <3>1 DEF Retrying, TypeOK
    <3>3. \A v \in Workers \ {w} : Retrying(v)' = Retrying(v)
      BY <1>0, <3>1 DEF Retrying, TypeOK
    <3>4. /\ \A v \in Workers : Retrying(v)' \subseteq Retrying(v)
          /\ j \notin Retrying(w)'
      BY <3>2, <3>3 DEF Retrying
    <3> QED
      BY <1>0, <3>1, <3>4, InsertStep
  <2>2. CASE status[j] # "failed"
    BY <1>6, <1>8, <2>2 DEF InsertRetry
  <2> QED
    BY <2>1, <2>2
<1>9. ASSUME NEW w \in Workers, Tick(w) PROVE HistoryInv'
  <2>1. CASE Heartbeat(w)
    <3>1. CASE w \in shutdownAt
      BY <1>6, <2>1, <3>1 DEF Heartbeat
    <3>2. CASE w \notin shutdownAt
      <4>1. \A v \in Workers : Retrying(v)' \subseteq Retrying(v)
        BY <1>0, <2>1, <3>2 DEF Heartbeat, Retrying, TypeOK
      <4> QED
        BY <1>0, <2>1, <3>2, <4>1, QuietStep DEF Heartbeat
    <3> QED
      BY <3>1, <3>2
  <2>2. CASE RemoveLeaseIfExpired(w)
    <3>1. \A v \in Workers : Retrying(v)' \subseteq Retrying(v)
      BY <1>0, <2>2 DEF RemoveLeaseIfExpired, Retrying, TypeOK
    <3> QED
      BY <1>0, <2>2, <3>1, QuietStep DEF RemoveLeaseIfExpired
  <2>8. CASE TryGetLeaderLease(w)
    <3>1. /\ pc' = [pc EXCEPT ![w] = "process"]
          /\ UNCHANGED <<lastId, attempt, origin, status, cur, abandoned>>
      BY <2>8 DEF TryGetLeaderLease
    <3>2. \A v \in Workers : Retrying(v)' \subseteq Retrying(v)
      BY <1>0, <3>1 DEF Retrying, TypeOK
    <3> QED
      BY <1>0, <3>1, <3>2, QuietStep
  <2>3. ASSUME NEW j \in Rows, MarkAsCompleted(w, j) PROVE HistoryInv'
    <3>1. CASE status[j] = "running"
      <4>1. /\ status' = [status EXCEPT ![j] = "completed"]
            /\ UNCHANGED <<lastId, attempt, origin, abandoned, pc, cur>>
        BY <2>3, <3>1 DEF MarkAsCompleted
      <4>2. \A i \in Rows : \/ status'[i] = status[i]
                            \/ /\ status[i] \notin {"none", "failed"}
                               /\ status'[i] # "none"
        BY <1>0, <3>1, <4>1 DEF TypeOK
      <4> QED
        BY <1>0, <4>1, <4>2, QuietStep DEF Retrying
    <3>2. CASE status[j] # "running"
      BY <1>6, <2>3, <3>2 DEF MarkAsCompleted
    <3> QED
      BY <3>1, <3>2
  <2>4. ASSUME NEW j \in Rows, MarkAsFailed(w, j) PROVE HistoryInv'
    <3>1. CASE status[j] = "running"
      <4>1. /\ status' = [status EXCEPT ![j] = "failed"]
            /\ UNCHANGED <<lastId, attempt, origin, abandoned>>
            /\ pc[w] = "process"
            /\ \/ /\ attempt[j] < MaxAttempts
                  /\ cur' = [cur EXCEPT ![w] = j]
                  /\ pc' = [pc EXCEPT ![w] = "retryInsert"]
               \/ UNCHANGED <<cur, pc>>
        BY <2>4, <3>1 DEF MarkAsFailed
      <4>2. \A i \in Rows : status'[i] = IF i \in {j} THEN "failed" ELSE status[i]
        BY <1>0, <4>1 DEF TypeOK
      <4>3. /\ \A i \in Retrying(w)' : \/ i \in Retrying(w)
                                       \/ i \in {j} /\ attempt[i] < MaxAttempts
            /\ \A v \in Workers \ {w} : Retrying(v)' \subseteq Retrying(v)
        BY <1>0, <4>1 DEF Retrying, TypeOK
      <4> QED
        BY <1>0, <3>1, <4>1, <4>2, <4>3, FailStep
    <3>2. CASE status[j] # "running"
      BY <1>6, <2>4, <3>2 DEF MarkAsFailed
    <3> QED
      BY <3>1, <3>2
  <2>5. CASE RetryInsert(w)
    <3>1. cur[w] \in Retrying(w)
      BY <2>5 DEF RetryInsert, Retrying
    <3> QED
      BY <1>8, <2>5, <3>1 DEF RetryInsert
  <2>6. CASE RetrySchedule(w) \/ RetryLink(w)
    <3>1. \A v \in Workers : Retrying(v)' \subseteq Retrying(v)
      BY <1>0, <2>6 DEF RetrySchedule, RetryLink, Retrying, TypeOK
    <3> QED
      BY <1>0, <2>6, <3>1, QuietStep DEF RetrySchedule, RetryLink
  <2>7. CASE Reserve(w)
    <3>1. \A v \in Workers : Retrying(v)' \subseteq Retrying(v)
      BY <1>0, <2>7 DEF Reserve, Retrying, TypeOK
    <3>2. \A i \in Rows : \/ status'[i] = status[i]
                          \/ status[i] = "available" /\ status'[i] = "running"
      BY <2>7 DEF Reserve, FirstAvailable, Available
    <3>3. UNCHANGED <<lastId, attempt, origin>>
      BY <2>7 DEF Reserve
    <3> QED
      BY <1>0, <3>1, <3>2, <3>3, QuietStep
  <2> QED
    BY <1>9, <2>1, <2>2, <2>3, <2>4, <2>5, <2>6, <2>7, <2>8 DEF Tick
<1>10. ASSUME NEW w \in Workers, LeaderDuties(w) PROVE HistoryInv'
  <2>1. CASE TryAdvisoryLock(w) \/ ShutdownDeadWorkers(w) \/ Unlock(w)
             \/ ListSchedules(w) \/ CronLink(w)
    <3>1. \A v \in Workers : Retrying(v)' \subseteq Retrying(v)
      BY <1>0, <2>1 DEF TryAdvisoryLock, ShutdownDeadWorkers, Unlock,
            ListSchedules, CronLink, Retrying, TypeOK
    <3> QED
      BY <1>0, <2>1, <3>1, QuietStep DEF TryAdvisoryLock, ShutdownDeadWorkers,
            Unlock, ListSchedules, CronLink
  <2>2. CASE MarkAbandonedJobsAsFailed(w)
    <3>1. /\ \A i \in Rows : status'[i] = IF i \in Abandoned THEN "failed" ELSE status[i]
          /\ UNCHANGED <<lastId, attempt, origin, cur>>
          /\ pc' = [pc EXCEPT ![w] = "recover"]
          /\ abandoned' = [abandoned EXCEPT ![w] =
                             {i \in Abandoned : attempt[i] < MaxAttempts}]
      BY <2>2 DEF MarkAbandonedJobsAsFailed
    <3>2. Abandoned \in SUBSET Rows /\ \A i \in Abandoned : status[i] = "running"
      BY DEF Abandoned
    <3>3. /\ \A i \in Retrying(w)' : i \in Abandoned /\ attempt[i] < MaxAttempts
          /\ \A v \in Workers \ {w} : Retrying(v)' \subseteq Retrying(v)
      BY <1>0, <3>1 DEF Retrying, TypeOK
    <3> QED
      BY <1>0, <3>1, <3>2, <3>3, FailStep
  <2>3. ASSUME NEW j \in Rows, RecoverInsert(w, j) PROVE HistoryInv'
    <3>1. j \in Retrying(w) /\ pc[w] # "retryInsert"
      BY <2>3 DEF RecoverInsert, Retrying
    <3> QED
      BY <1>8, <2>3, <3>1 DEF RecoverInsert
  <2>4. ASSUME NEW s \in Schedules, CronInsert(w, s) PROVE HistoryInv'
    <3>1. \A v \in Workers : Retrying(v)' \subseteq Retrying(v)
      BY <1>0, <2>4 DEF CronInsert, Retrying, TypeOK
    <3> QED
      BY <1>0, <2>4, <3>1, InsertStep DEF CronInsert
  <2>5. CASE ScheduleAvailableJobs(w)
    <3>1. \A v \in Workers : Retrying(v)' \subseteq Retrying(v)
      BY <1>0, <2>5 DEF ScheduleAvailableJobs, Retrying, TypeOK
    <3>2. \A i \in Rows : \/ status'[i] = status[i]
                          \/ status[i] = "scheduled" /\ status'[i] = "available"
      BY <2>5 DEF ScheduleAvailableJobs
    <3>3. UNCHANGED <<lastId, attempt, origin>>
      BY <2>5 DEF ScheduleAvailableJobs
    <3> QED
      BY <1>0, <3>1, <3>2, <3>3, QuietStep
  <2> QED
    BY <1>10, <2>1, <2>2, <2>3, <2>4, <2>5 DEF LeaderDuties
<1>11. ASSUME NEW w \in Workers, Shutdown(w) PROVE HistoryInv'
  <2>1. CASE Deregister(w)
    <3>1. \A v \in Workers : Retrying(v)' \subseteq Retrying(v)
      BY <1>0, <2>1 DEF Deregister, Retrying, TypeOK
    <3> QED
      BY <1>0, <2>1, <3>1, QuietStep DEF Deregister
  <2>2. CASE StepDown(w)
    <3>1. \A v \in Workers : Retrying(v)' \subseteq Retrying(v)
      BY <1>0, <2>2 DEF StepDown, Retrying, TypeOK
    <3> QED
      BY <1>0, <2>2, <3>1, QuietStep DEF StepDown
  <2> QED
    BY <1>11, <2>1, <2>2 DEF Shutdown
<1>12. CASE UNCHANGED vars
  BY <1>0, <1>12, QuietStep DEF vars, Retrying
<1> QED
  BY <1>1, <1>2, <1>3, <1>4, <1>5, <1>6, <1>7, <1>9, <1>10, <1>11, <1>12
     DEF Next, Run, Crash

\* No two attempts at a job are live together, none follows a success and none
\* exceeds the limit, for any number of workers that stall, crash, shut down
\* and recover each other's jobs at any statement.
THEOREM AttemptHistoryHolds == Spec => []AttemptHistory
<1>1. Spec => []HistoryInv
  BY HistoryInit, HistoryStep, PTL DEF Spec
<1>2. HistoryInv => AttemptHistory
  BY DEF HistoryInv
<1> QED
  BY <1>1, <1>2, PTL
-----------------------------------------------------------------------------
(***************************************************************************)
(* Ownership. started_by and the task trackers agree: what a worker tracks *)
(* it started, and a tracked row leaves running behind its worker's back   *)
(* only after that worker was shut down in the table.                      *)
(***************************************************************************)
TrackedInv ==
    \A w \in Workers : \A j \in tracked[w] :
      /\ startedBy[j] = w
      /\ status[j] \in {"running", "failed"}
      /\ status[j] = "failed" => w \in shutdownAt

RunningInv ==
    \A j \in Rows : status[j] = "running" =>
      \/ startedBy[j] \in Alive /\ j \in tracked[startedBy[j]]
      \/ startedBy[j] \in Workers /\ pc[startedBy[j]] = "dead"

DrainedInv ==
    \A w \in Workers : pc[w] \in {"stepdown", "stopped"} => tracked[w] = {}

OwnerInv == TrackedInv /\ RunningInv /\ DrainedInv

\* Steps that leave running and failed rows, started_by and the trackers alone
\* and move workers only between points of the loop.
LEMMA OwnerQuiet ==
    ASSUME TypeOK, TypeOK', OwnerInv, UNCHANGED <<startedBy, tracked>>,
           shutdownAt \subseteq shutdownAt',
           \A j \in Rows : /\ status'[j] = "running" <=> status[j] = "running"
                           /\ status[j] = "failed" => status'[j] = "failed",
           \A v \in Workers :
             \/ pc'[v] = pc[v]
             \/ /\ pc[v] \notin {"stepdown", "stopped", "dead"}
                /\ pc'[v] \notin {"off", "stopped", "dead"}
                /\ pc'[v] = "stepdown" => tracked[v] = {}
             \/ pc[v] = "stepdown" /\ pc'[v] = "stopped"
    PROVE  OwnerInv'
<1>1. TrackedInv'
  <2>1. ASSUME NEW w \in Workers, NEW j \in tracked'[w]
        PROVE /\ startedBy'[j] = w
              /\ status'[j] \in {"running", "failed"}
              /\ status'[j] = "failed" => w \in shutdownAt'
    <3>1. j \in tracked[w] /\ j \in Rows
      BY <2>1 DEF TypeOK
    <3>2. /\ startedBy[j] = w
          /\ status[j] \in {"running", "failed"}
          /\ status[j] = "failed" => w \in shutdownAt
      BY <3>1 DEF OwnerInv, TrackedInv
    <3> QED
      BY <3>1, <3>2
  <2> QED
    BY <2>1 DEF TrackedInv
<1>2. RunningInv'
  <2>1. ASSUME NEW j \in Rows, status'[j] = "running"
        PROVE \/ startedBy'[j] \in Alive' /\ j \in tracked'[startedBy'[j]]
              \/ startedBy'[j] \in Workers /\ pc'[startedBy'[j]] = "dead"
    BY <2>1 DEF OwnerInv, RunningInv, DrainedInv, Alive
  <2> QED
    BY <2>1 DEF RunningInv
<1>3. DrainedInv'
  BY DEF OwnerInv, DrainedInv
<1> QED
  BY <1>1, <1>2, <1>3 DEF OwnerInv

\* Inserting a row touches no running or failed row.
LEMMA OwnerInsert ==
    ASSUME TypeOK, RowsInv, NEW st \in {"scheduled", "available"}, NEW att, NEW org,
           NEW d, NEW s, InsertRow(st, att, org, d, s)
    PROVE  /\ startedBy' = startedBy
           /\ \A j \in Rows : /\ status'[j] = "running" <=> status[j] = "running"
                              /\ status[j] = "failed" => status'[j] = "failed"
<1>1. lastId + 1 \in Rows /\ lastId < MaxRows
  BY NewRow DEF InsertRow
<1>2. status[lastId + 1] = "none"
  BY <1>1 DEF RowsInv, TypeOK, Rows
<1> QED
  BY <1>1, <1>2 DEF InsertRow, TypeOK

\* Every statement preserves who owns the running rows.
LEMMA OwnerStep == HistoryInv /\ OwnerInv /\ [Next]_vars => OwnerInv'
<1> SUFFICES ASSUME HistoryInv, OwnerInv, [Next]_vars PROVE OwnerInv'
  OBVIOUS
<1>0. TypeOK /\ TypeOK' /\ RowsInv
  BY TypeStep DEF HistoryInv
<1> USE DEF jobVars, tableVars, leaderVars, localVars, trackVars, Goto
<1>1. CASE Schedule \/ ScheduleLater
  BY <1>0, <1>1, OwnerInsert, OwnerQuiet DEF Schedule, ScheduleLater
<1>2. CASE LeaseExpires \/ (\E j \in Rows : FallDue(j)) \/ UNCHANGED vars
  BY <1>0, <1>2, OwnerQuiet DEF LeaseExpires, FallDue, vars
<1>3. ASSUME NEW w \in Workers,
             Register(w) \/ Cancelled(w) \/ ReleaseLock(w) \/ Age(w)
      PROVE OwnerInv'
  <2>1. /\ UNCHANGED <<status, startedBy, tracked, shutdownAt>>
        /\ pc' = pc \/ (pc[w] \in {"off", "wait"}
                        /\ \E l \in {"wait", "process"} : pc' = [pc EXCEPT ![w] = l])
    BY <1>3 DEF Register, Cancelled, ReleaseLock, Age
  <2> QED
    BY <1>0, <2>1, OwnerQuiet DEF TypeOK
<1>4. ASSUME NEW w \in Workers, w \in Alive, Die(w) PROVE OwnerInv'
  <2>1. /\ UNCHANGED <<status, startedBy, shutdownAt>>
        /\ pc' = [pc EXCEPT ![w] = "dead"]
        /\ tracked' = [tracked EXCEPT ![w] = {}]
    BY <1>4 DEF Die
  <2>2. \A v \in Workers : tracked'[v] \subseteq tracked[v]
    BY <1>0, <2>1 DEF TypeOK
  <2>3. TrackedInv'
    BY <2>1, <2>2 DEF OwnerInv, TrackedInv
  <2>4. RunningInv'
    BY <1>0, <2>1 DEF OwnerInv, RunningInv, Alive, TypeOK
  <2>5. DrainedInv'
    BY <1>0, <2>1 DEF OwnerInv, DrainedInv, TypeOK
  <2> QED
    BY <2>3, <2>4, <2>5 DEF OwnerInv
<1>5. ASSUME NEW w \in Workers, NEW j \in Rows, NEW r \in {"ok", "retry", "fail"},
             TaskFinish(w, j, r)
      PROVE OwnerInv'
  BY <1>0, <1>5, OwnerQuiet DEF TaskFinish
<1>6. ASSUME NEW w \in Workers, NEW j \in Rows, NEW d \in BOOLEAN,
             pc[w] \in {"retryInsert", "recover"}, InsertRetry(w, j, d)
      PROVE OwnerInv'
  <2>1. CASE status[j] = "failed"
    <3>1. /\ InsertRow("scheduled", attempt[j] + 1, origin[j], d, scheduleName[j])
          /\ pc' = [pc EXCEPT ![w] = "retrySchedule"]
          /\ UNCHANGED <<tracked, shutdownAt>>
      BY <1>6, <2>1 DEF InsertRetry
    <3>2. /\ startedBy' = startedBy
          /\ \A i \in Rows : /\ status'[i] = "running" <=> status[i] = "running"
                             /\ status[i] = "failed" => status'[i] = "failed"
      BY <1>0, <3>1, OwnerInsert
    <3>3. \A v \in Workers : pc'[v] = pc[v] \/ (v = w /\ pc'[v] = "retrySchedule")
      BY <1>0, <3>1 DEF TypeOK
    <3> QED
      BY <1>0, <1>6, <3>1, <3>2, <3>3, OwnerQuiet
  <2>2. CASE status[j] # "failed"
    BY <1>4, <1>6, <2>2 DEF InsertRetry, Alive
  <2> QED
    BY <2>1, <2>2
\* Worker w records the end of a task of its own: the row is no longer running
\* and no longer tracked, by w or by anybody else.
<1>7. ASSUME NEW w \in Workers, NEW j \in tracked[w], NEW st \in {"completed", "failed"},
             status' = [status EXCEPT ![j] = st],
             tracked' = [tracked EXCEPT ![w] = tracked[w] \ {j}],
             UNCHANGED <<startedBy, shutdownAt>>,
             pc[w] = "process",
             pc' = pc \/ pc' = [pc EXCEPT ![w] = "retryInsert"]
      PROVE OwnerInv'
  <2>1. j \in Rows /\ startedBy[j] = w
    BY <1>0, <1>7 DEF TypeOK, OwnerInv, TrackedInv
  <2>2. ASSUME NEW v \in Workers, NEW i \in tracked'[v]
        PROVE i \in tracked[v] /\ i # j /\ i \in Rows
    <3>1. i \in tracked[v] /\ i \in Rows /\ (v = w => i # j)
      BY <1>0, <1>7, <2>2 DEF TypeOK
    <3>2. startedBy[i] = v
      BY <3>1 DEF OwnerInv, TrackedInv
    <3> QED
      BY <2>1, <3>1, <3>2
  <2>3. TrackedInv'
    <3>1. ASSUME NEW v \in Workers, NEW i \in tracked'[v]
          PROVE /\ startedBy'[i] = v
                /\ status'[i] \in {"running", "failed"}
                /\ status'[i] = "failed" => v \in shutdownAt'
      <4>1. i \in tracked[v] /\ i # j /\ i \in Rows
        BY <2>2
      <4>2. status'[i] = status[i]
        BY <1>0, <1>7, <4>1 DEF TypeOK
      <4> QED
        BY <1>7, <4>1, <4>2 DEF OwnerInv, TrackedInv
    <3> QED
      BY <3>1 DEF TrackedInv
  <2>4. RunningInv'
    <3>1. ASSUME NEW i \in Rows, status'[i] = "running"
          PROVE \/ startedBy'[i] \in Alive' /\ i \in tracked'[startedBy'[i]]
                \/ startedBy'[i] \in Workers /\ pc'[startedBy'[i]] = "dead"
      <4>1. i # j /\ status[i] = "running"
        BY <1>0, <1>7, <2>1, <3>1 DEF TypeOK
      <4>2. \/ startedBy[i] \in Alive /\ i \in tracked[startedBy[i]]
            \/ startedBy[i] \in Workers /\ pc[startedBy[i]] = "dead"
        BY <4>1 DEF OwnerInv, RunningInv
      <4>3. \A v \in Workers : pc'[v] = pc[v] \/ (v = w /\ pc'[v] = "retryInsert")
        BY <1>0, <1>7 DEF TypeOK
      <4> QED
        BY <1>0, <1>7, <4>1, <4>2, <4>3 DEF Alive, TypeOK
    <3> QED
      BY <3>1 DEF RunningInv
  <2>5. DrainedInv'
    BY <1>0, <1>7 DEF OwnerInv, DrainedInv, TypeOK
  <2> QED
    BY <2>3, <2>4, <2>5 DEF OwnerInv
<1>8. ASSUME NEW w \in Workers, Tick(w) PROVE OwnerInv'
  <2>1. CASE Heartbeat(w)
    <3>1. CASE w \in shutdownAt
      BY <1>4, <2>1, <3>1 DEF Heartbeat, Alive
    <3>2. CASE w \notin shutdownAt
      BY <1>0, <2>1, <3>2, OwnerQuiet DEF Heartbeat, TypeOK
    <3> QED
      BY <3>1, <3>2
  <2>2. CASE RemoveLeaseIfExpired(w)
    BY <1>0, <2>2, OwnerQuiet DEF RemoveLeaseIfExpired, TypeOK
  <2>3. CASE TryGetLeaderLease(w)
    <3>1. /\ pc[w] = "elect" /\ pc' = [pc EXCEPT ![w] = "process"]
          /\ UNCHANGED <<status, startedBy, tracked, shutdownAt>>
      BY <2>3 DEF TryGetLeaderLease
    <3> QED
      BY <1>0, <3>1, OwnerQuiet DEF TypeOK
  <2>4. ASSUME NEW j \in Rows, MarkAsCompleted(w, j) PROVE OwnerInv'
    <3>1. CASE status[j] = "running"
      BY <1>7, <2>4, <3>1 DEF MarkAsCompleted
    <3>2. CASE status[j] # "running"
      BY <1>4, <2>4, <3>2 DEF MarkAsCompleted, Alive
    <3> QED
      BY <3>1, <3>2
  <2>5. ASSUME NEW j \in Rows, MarkAsFailed(w, j) PROVE OwnerInv'
    <3>1. CASE status[j] = "running"
      BY <1>7, <2>5, <3>1 DEF MarkAsFailed
    <3>2. CASE status[j] # "running"
      BY <1>4, <2>5, <3>2 DEF MarkAsFailed, Alive
    <3> QED
      BY <3>1, <3>2
  <2>6. CASE RetryInsert(w)
    BY <1>0, <1>6, <2>6 DEF RetryInsert, TypeOK
  <2>7. CASE RetrySchedule(w)
    BY <1>0, <2>7, OwnerQuiet DEF RetrySchedule, TypeOK
  <2>8. CASE RetryLink(w)
    BY <1>0, <2>8, OwnerQuiet DEF RetryLink, TypeOK
  <2>9. CASE Reserve(w)
    <3> DEFINE jobs == FirstAvailable(Capacity(w))
    <3>1. /\ pc[w] = "process"
          /\ status' = [j \in Rows |-> IF j \in jobs THEN "running" ELSE status[j]]
          /\ startedBy' = [j \in Rows |-> IF j \in jobs THEN w ELSE startedBy[j]]
          /\ tracked' = [tracked EXCEPT ![w] = tracked[w] \cup jobs]
          /\ \E l \in {"lock", "wait"} : pc' = [pc EXCEPT ![w] = l]
          /\ UNCHANGED shutdownAt
      BY <2>9 DEF Reserve
    <3>2. jobs \subseteq Rows /\ \A j \in jobs : status[j] = "available"
      BY DEF FirstAvailable, Available
    <3> HIDE DEF jobs
    <3>3. TrackedInv'
      <4>1. ASSUME NEW v \in Workers, NEW i \in tracked'[v]
            PROVE /\ startedBy'[i] = v
                  /\ status'[i] \in {"running", "failed"}
                  /\ status'[i] = "failed" => v \in shutdownAt'
        <5>1. i \in Rows /\ (i \in tracked[v] \/ (v = w /\ i \in jobs))
          BY <1>0, <3>1, <3>2, <4>1 DEF TypeOK
        <5>2. CASE i \in tracked[v]
          <6>1. i \notin jobs
            BY <3>2, <5>2 DEF OwnerInv, TrackedInv
          <6> QED
            BY <3>1, <5>1, <5>2, <6>1 DEF OwnerInv, TrackedInv
        <5>3. CASE v = w /\ i \in jobs
          BY <3>1, <5>1, <5>3
        <5> QED
          BY <5>1, <5>2, <5>3
      <4> QED
        BY <4>1 DEF TrackedInv
    <3>4. RunningInv'
      <4>1. ASSUME NEW i \in Rows, status'[i] = "running"
            PROVE \/ startedBy'[i] \in Alive' /\ i \in tracked'[startedBy'[i]]
                  \/ startedBy'[i] \in Workers /\ pc'[startedBy'[i]] = "dead"
        <5>1. CASE i \in jobs
          BY <1>0, <3>1, <5>1 DEF Alive, TypeOK
        <5>2. CASE i \notin jobs
          <6>1. startedBy'[i] = startedBy[i] /\ status[i] = "running"
            BY <3>1, <4>1, <5>2
          <6>2. \/ startedBy[i] \in Alive /\ i \in tracked[startedBy[i]]
                \/ startedBy[i] \in Workers /\ pc[startedBy[i]] = "dead"
            BY <6>1 DEF OwnerInv, RunningInv
          <6> QED
            BY <1>0, <3>1, <6>1, <6>2 DEF Alive, TypeOK
        <5> QED
          BY <5>1, <5>2
      <4> QED
        BY <4>1 DEF RunningInv
    <3>5. DrainedInv'
      BY <1>0, <3>1 DEF OwnerInv, DrainedInv, TypeOK
    <3> QED
      BY <3>3, <3>4, <3>5 DEF OwnerInv
  <2> QED
    BY <1>8, <2>1, <2>2, <2>3, <2>4, <2>5, <2>6, <2>7, <2>8, <2>9 DEF Tick
<1>9. ASSUME NEW w \in Workers, LeaderDuties(w) PROVE OwnerInv'
  <2>1. CASE TryAdvisoryLock(w) \/ Unlock(w)
    <3>1. /\ pc[w] \in {"lock", "unlock"}
          /\ \E l \in {"evict", "wait"} : pc' = [pc EXCEPT ![w] = l]
          /\ UNCHANGED <<status, startedBy, tracked, shutdownAt>>
      BY <2>1 DEF TryAdvisoryLock, Unlock
    <3> QED
      BY <1>0, <3>1, OwnerQuiet DEF TypeOK
  <2>2. CASE ShutdownDeadWorkers(w)
    BY <1>0, <2>2, OwnerQuiet DEF ShutdownDeadWorkers, TypeOK
  <2>3. CASE MarkAbandonedJobsAsFailed(w)
    <3>1. /\ pc[w] = "mark" /\ pc' = [pc EXCEPT ![w] = "recover"]
          /\ status' = [j \in Rows |-> IF j \in Abandoned THEN "failed" ELSE status[j]]
          /\ UNCHANGED <<startedBy, tracked, shutdownAt>>
      BY <2>3 DEF MarkAbandonedJobsAsFailed
    <3>2. TrackedInv'
      <4>1. ASSUME NEW v \in Workers, NEW i \in tracked[v]
            PROVE /\ startedBy'[i] = v
                  /\ status'[i] \in {"running", "failed"}
                  /\ status'[i] = "failed" => v \in shutdownAt'
        <5>1. i \in Rows
          BY <1>0 DEF TypeOK
        <5> QED
          BY <3>1, <5>1 DEF OwnerInv, TrackedInv, Abandoned
      <4> QED
        BY <3>1, <4>1 DEF TrackedInv
    <3>3. RunningInv'
      BY <1>0, <3>1 DEF OwnerInv, RunningInv, Alive, TypeOK
    <3>4. DrainedInv'
      BY <1>0, <3>1 DEF OwnerInv, DrainedInv, TypeOK
    <3> QED
      BY <3>2, <3>3, <3>4 DEF OwnerInv
  <2>4. ASSUME NEW j \in Rows, RecoverInsert(w, j) PROVE OwnerInv'
    BY <1>6, <2>4 DEF RecoverInsert
  <2>5. CASE ListSchedules(w) \/ CronLink(w)
    <3>1. /\ pc[w] \in {"recover", "cronLink"} /\ pc' = [pc EXCEPT ![w] = "cron"]
          /\ UNCHANGED <<status, startedBy, tracked, shutdownAt>>
      BY <2>5 DEF ListSchedules, CronLink
    <3> QED
      BY <1>0, <3>1, OwnerQuiet DEF TypeOK
  <2>6. ASSUME NEW s \in Schedules, CronInsert(w, s) PROVE OwnerInv'
    <3>1. /\ InsertRow("scheduled", 0, lastId + 1, FALSE, s)
          /\ pc[w] = "cron" /\ pc' = [pc EXCEPT ![w] = "cronLink"]
          /\ UNCHANGED <<tracked, shutdownAt>>
      BY <2>6 DEF CronInsert
    <3>2. /\ startedBy' = startedBy
          /\ \A i \in Rows : /\ status'[i] = "running" <=> status[i] = "running"
                             /\ status[i] = "failed" => status'[i] = "failed"
      BY <1>0, <3>1, OwnerInsert
    <3> QED
      BY <1>0, <3>1, <3>2, OwnerQuiet DEF TypeOK
  <2>7. CASE ScheduleAvailableJobs(w)
    BY <1>0, <2>7, OwnerQuiet DEF ScheduleAvailableJobs, TypeOK
  <2> QED
    BY <1>9, <2>1, <2>2, <2>3, <2>4, <2>5, <2>6, <2>7 DEF LeaderDuties
<1>10. ASSUME NEW w \in Workers, Shutdown(w) PROVE OwnerInv'
  <2>1. CASE Deregister(w)
    BY <1>0, <2>1, OwnerQuiet DEF Deregister, TypeOK
  <2>2. CASE StepDown(w)
    <3>1. /\ pc[w] = "stepdown" /\ pc' = [pc EXCEPT ![w] = "stopped"]
          /\ UNCHANGED <<status, startedBy, tracked, shutdownAt>>
      BY <2>2 DEF StepDown
    <3> QED
      BY <1>0, <3>1, OwnerQuiet DEF TypeOK
  <2> QED
    BY <1>10, <2>1, <2>2 DEF Shutdown
<1> QED
  BY <1>1, <1>2, <1>3, <1>4, <1>5, <1>8, <1>9, <1>10 DEF Next, Run, Crash

\* With no worker registered, nobody owns a row.
LEMMA OwnerInit == Init => OwnerInv
BY DEF Init, OwnerInv, TrackedInv, RunningInv, DrainedInv

\* Both invariants hold in every reachable state.
LEMMA OwnerAlways == Spec => [](HistoryInv /\ OwnerInv)
<1>1. Init => HistoryInv /\ OwnerInv
  BY HistoryInit, OwnerInit
<1>2. (HistoryInv /\ OwnerInv) /\ [Next]_vars => (HistoryInv /\ OwnerInv)'
  BY HistoryStep, OwnerStep
<1> QED
  BY <1>1, <1>2, PTL DEF Spec

\* A running row is never orphaned: its worker tracks it, or is dead and leaves
\* it to the recovery.
THEOREM NoOrphanedRunningRowHolds == Spec => []NoOrphanedRunningRow
<1>1. HistoryInv /\ OwnerInv => NoOrphanedRunningRow
  BY ExistingRows DEF HistoryInv, OwnerInv, RunningInv, NoOrphanedRunningRow
<1> QED
  BY <1>1, OwnerAlways, PTL

\* Two attempts at one job never execute together while the table calls both
\* of their workers alive.
THEOREM OverlapOnlyAfterEvictionHolds == Spec => []OverlapOnlyAfterEviction
<1>1. ASSUME HistoryInv, OwnerInv PROVE OverlapOnlyAfterEviction
  <2> SUFFICES ASSUME NEW w \in Workers, NEW v \in Workers,
                      NEW j \in Executing(w), NEW k \in Executing(v),
                      origin[j] = origin[k], <<w, j>> # <<v, k>>,
                      w \notin shutdownAt, v \notin shutdownAt
               PROVE FALSE
    BY DEF OverlapOnlyAfterEviction
  <2>1. j \in tracked[w] /\ k \in tracked[v]
    BY DEF Executing
  <2>2. /\ status[j] = "running" /\ startedBy[j] = w
        /\ status[k] = "running" /\ startedBy[k] = v
    BY <1>1, <2>1 DEF OwnerInv, TrackedInv
  <2>3. j \in Rows /\ k \in Rows
    BY <1>1, <2>1 DEF HistoryInv, TypeOK
  <2>4. j \in Existing /\ k \in Existing
    BY <1>1, <2>2, <2>3, RunningIsLatest
  <2>5. j = k
    BY <1>1, <2>2, <2>4 DEF HistoryInv, AttemptHistory
  <2> QED
    BY <2>2, <2>5
<1> QED
  BY <1>1, OwnerAlways, PTL
-----------------------------------------------------------------------------
\* completed and failed are final: every statement that changes the status of
\* an existing row filters on a status that is not.
LEMMA FinalStep ==
    ASSUME HistoryInv, [Next]_vars, NEW j \in Rows, status[j] \in Finished
    PROVE  status'[j] = status[j]
<1>0. TypeOK /\ RowsInv
  BY DEF HistoryInv
<1> USE DEF jobVars, tableVars, leaderVars, localVars, trackVars
<1>1. ASSUME NEW st, NEW att, NEW org, NEW d, NEW s, InsertRow(st, att, org, d, s)
      PROVE status'[j] = status[j]
  <2>1. lastId + 1 \in Rows /\ lastId < MaxRows
    BY <1>0, <1>1, NewRow DEF InsertRow
  <2>2. status[lastId + 1] = "none"
    BY <1>0, <2>1 DEF RowsInv, TypeOK, Rows
  <2> QED
    BY <1>0, <1>1, <2>2 DEF InsertRow, TypeOK, Finished
<1>2. CASE Schedule \/ ScheduleLater \/ LeaseExpires \/ UNCHANGED vars
           \/ \E i \in Rows : FallDue(i)
  BY <1>1, <1>2 DEF Schedule, ScheduleLater, LeaseExpires, FallDue, vars
<1>3. ASSUME NEW w \in Workers,
             Register(w) \/ Cancelled(w) \/ Crash(w) \/ ReleaseLock(w) \/ Age(w)
             \/ \E i \in Rows, r \in {"ok", "retry", "fail"} : TaskFinish(w, i, r)
      PROVE status'[j] = status[j]
  BY <1>3 DEF Register, Cancelled, Crash, Die, ReleaseLock, Age, TaskFinish
<1>4. ASSUME NEW w \in Workers, NEW i, NEW d, InsertRetry(w, i, d)
      PROVE status'[j] = status[j]
  BY <1>1, <1>4 DEF InsertRetry, Die
<1>5. ASSUME NEW w \in Workers, Tick(w) PROVE status'[j] = status[j]
  <2>1. CASE Heartbeat(w) \/ RemoveLeaseIfExpired(w) \/ TryGetLeaderLease(w)
             \/ RetrySchedule(w) \/ RetryLink(w)
    BY <2>1 DEF Heartbeat, Die, RemoveLeaseIfExpired, TryGetLeaderLease,
          RetrySchedule, RetryLink
  <2>2. ASSUME NEW i \in Rows, MarkAsCompleted(w, i) \/ MarkAsFailed(w, i)
        PROVE status'[j] = status[j]
    BY <1>0, <2>2 DEF MarkAsCompleted, MarkAsFailed, Die, Finished, TypeOK
  <2>3. CASE RetryInsert(w)
    BY <1>4, <2>3 DEF RetryInsert
  <2>4. CASE Reserve(w)
    BY <2>4 DEF Reserve, FirstAvailable, Available, Finished
  <2> QED
    BY <1>5, <2>1, <2>2, <2>3, <2>4 DEF Tick
<1>6. ASSUME NEW w \in Workers, LeaderDuties(w) \/ Shutdown(w)
      PROVE status'[j] = status[j]
  <2>1. CASE TryAdvisoryLock(w) \/ ShutdownDeadWorkers(w) \/ ListSchedules(w)
             \/ CronLink(w) \/ Unlock(w) \/ Shutdown(w)
    BY <2>1 DEF TryAdvisoryLock, ShutdownDeadWorkers, ListSchedules, CronLink,
          Unlock, Shutdown, Deregister, StepDown
  <2>2. CASE MarkAbandonedJobsAsFailed(w) \/ ScheduleAvailableJobs(w)
    BY <2>2 DEF MarkAbandonedJobsAsFailed, ScheduleAvailableJobs, Abandoned, Finished
  <2>3. CASE \E i \in Rows : RecoverInsert(w, i)
    BY <1>4, <2>3 DEF RecoverInsert
  <2>4. CASE \E s \in Schedules : CronInsert(w, s)
    BY <1>1, <2>4 DEF CronInsert
  <2> QED
    BY <1>6, <2>1, <2>2, <2>3, <2>4 DEF LeaderDuties
<1> QED
  BY <1>2, <1>3, <1>5, <1>6 DEF Next, Run

\* A recorded outcome is never overwritten, by a late report least of all.
THEOREM FinalIsFinalHolds == Spec => FinalIsFinal
<1>1. HistoryInv /\ [Next]_vars =>
        [\A j \in Rows : status[j] \in Finished => status'[j] = status[j]]_vars
  BY FinalStep
<1>2. Spec => []HistoryInv
  BY HistoryInit, HistoryStep, PTL DEF Spec
<1> QED
  BY <1>1, <1>2, PTL DEF Spec, FinalIsFinal
-----------------------------------------------------------------------------
(***************************************************************************)
(* Leader duties: whoever is inside them holds the advisory lock.          *)
(***************************************************************************)
LockInv ==
    \A w \in Workers :
      /\ InDuties(w) => dutyLock = w
      /\ ctx[w] = "recover" => pc[w] \in {"recover", "retrySchedule", "retryLink"}

\* Every statement preserves that duties are performed under the session lock.
LEMMA LockStep == TypeOK /\ LockInv /\ [Next]_vars => LockInv'
<1> SUFFICES ASSUME TypeOK, LockInv, [Next]_vars, NEW v \in Workers
             PROVE /\ InDuties(v)' => dutyLock' = v
                   /\ ctx'[v] = "recover" =>
                        pc'[v] \in {"recover", "retrySchedule", "retryLink"}
  BY DEF LockInv
<1> USE DEF jobVars, tableVars, leaderVars, localVars, trackVars, Goto, LockInv,
            InDuties, TypeOK
<1>1. CASE Schedule \/ ScheduleLater \/ LeaseExpires \/ UNCHANGED vars
           \/ \E i \in Rows : FallDue(i)
  BY <1>1 DEF Schedule, ScheduleLater, LeaseExpires, FallDue, vars
<1>2. ASSUME NEW w \in Workers, Die(w)
      PROVE /\ InDuties(v)' => dutyLock' = v
            /\ ctx'[v] = "recover" =>
                 pc'[v] \in {"recover", "retrySchedule", "retryLink"}
  BY <1>2 DEF Die
<1>3. ASSUME NEW w \in Workers, Register(w) \/ Cancelled(w) \/ ReleaseLock(w)
             \/ Age(w) \/ \E i \in Rows, r \in {"ok", "retry", "fail"} : TaskFinish(w, i, r)
      PROVE /\ InDuties(v)' => dutyLock' = v
            /\ ctx'[v] = "recover" =>
                 pc'[v] \in {"recover", "retrySchedule", "retryLink"}
  BY <1>3 DEF Register, Cancelled, ReleaseLock, Age, TaskFinish
<1>4. ASSUME NEW w \in Workers, Tick(w)
      PROVE /\ InDuties(v)' => dutyLock' = v
            /\ ctx'[v] = "recover" =>
                 pc'[v] \in {"recover", "retrySchedule", "retryLink"}
  <2>1. CASE Heartbeat(w)
    BY <1>2, <2>1 DEF Heartbeat
  <2>2. CASE RemoveLeaseIfExpired(w) \/ TryGetLeaderLease(w)
    <3>1. /\ pc[w] \in {"expire", "wait", "elect"}
          /\ \E l \in {"elect", "process"} : pc' = [pc EXCEPT ![w] = l]
          /\ UNCHANGED <<ctx, dutyLock>>
      BY <2>2 DEF RemoveLeaseIfExpired, TryGetLeaderLease
    <3> QED
      BY <3>1
  <2>3. ASSUME NEW i \in Rows, MarkAsCompleted(w, i) \/ MarkAsFailed(w, i)
        PROVE /\ InDuties(v)' => dutyLock' = v
              /\ ctx'[v] = "recover" =>
                   pc'[v] \in {"recover", "retrySchedule", "retryLink"}
    <3>1. CASE Die(w)
      BY <1>2, <3>1
    <3>2. CASE ~Die(w)
      <4>1. /\ pc[w] = "process"
            /\ pc' = pc \/ pc' = [pc EXCEPT ![w] = "retryInsert"]
            /\ UNCHANGED <<ctx, dutyLock>>
        BY <2>3, <3>2 DEF MarkAsCompleted, MarkAsFailed
      <4> QED
        BY <4>1
    <3> QED
      BY <3>1, <3>2
  <2>4. CASE RetryInsert(w)
    <3>1. CASE Die(w)
      BY <1>2, <3>1
    <3>2. CASE ~Die(w)
      <4>1. /\ pc[w] = "retryInsert" /\ pc' = [pc EXCEPT ![w] = "retrySchedule"]
            /\ UNCHANGED <<ctx, dutyLock>>
        BY <2>4, <3>2 DEF RetryInsert, InsertRetry
      <4> QED
        BY <4>1
    <3> QED
      BY <3>1, <3>2
  <2>5. CASE RetrySchedule(w) \/ RetryLink(w)
    BY <2>5 DEF RetrySchedule, RetryLink
  <2>6. CASE Reserve(w)
    <3>1. /\ pc[w] = "process"
          /\ \E l \in {"lock", "wait"} : pc' = [pc EXCEPT ![w] = l]
          /\ UNCHANGED <<ctx, dutyLock>>
      BY <2>6 DEF Reserve
    <3> QED
      BY <3>1
  <2> QED
    BY <1>4, <2>1, <2>2, <2>3, <2>4, <2>5, <2>6 DEF Tick
<1>5. ASSUME NEW w \in Workers, LeaderDuties(w)
      PROVE /\ InDuties(v)' => dutyLock' = v
            /\ ctx'[v] = "recover" =>
                 pc'[v] \in {"recover", "retrySchedule", "retryLink"}
  <2>1. CASE TryAdvisoryLock(w)
    <3>1. /\ pc[w] = "lock" /\ UNCHANGED ctx
          /\ \/ dutyLock = None /\ dutyLock' = w /\ pc' = [pc EXCEPT ![w] = "evict"]
             \/ UNCHANGED dutyLock /\ pc' = [pc EXCEPT ![w] = "wait"]
      BY <2>1 DEF TryAdvisoryLock
    <3>2. None # v
      BY NoneAssumption
    <3>3. ctx[w] # "recover" /\ pc \in [Workers -> PCs] /\ ctx[v] = ctx'[v]
      BY <3>1
    <3>4. CASE v = w
      BY <3>1, <3>3, <3>4
    <3>5. CASE v # w
      <4>1. pc'[v] = pc[v]
        BY <3>1, <3>5
      <4> QED
        BY <3>1, <3>2, <3>3, <4>1
    <3> QED
      BY <3>4, <3>5
  <2>2. CASE ShutdownDeadWorkers(w)
    BY <2>2 DEF ShutdownDeadWorkers
  <2>3. CASE MarkAbandonedJobsAsFailed(w)
    <3>1. /\ pc[w] = "mark" /\ pc' = [pc EXCEPT ![w] = "recover"]
          /\ ctx' = [ctx EXCEPT ![w] = "recover"]
          /\ UNCHANGED dutyLock
      BY <2>3 DEF MarkAbandonedJobsAsFailed
    <3> QED
      BY <3>1
  <2>4. ASSUME NEW i \in Rows, RecoverInsert(w, i)
        PROVE /\ InDuties(v)' => dutyLock' = v
              /\ ctx'[v] = "recover" =>
                   pc'[v] \in {"recover", "retrySchedule", "retryLink"}
    <3>1. CASE Die(w)
      BY <1>2, <3>1
    <3>2. CASE ~Die(w)
      <4>1. /\ pc[w] = "recover" /\ pc' = [pc EXCEPT ![w] = "retrySchedule"]
            /\ UNCHANGED <<ctx, dutyLock>>
        BY <2>4, <3>2 DEF RecoverInsert, InsertRetry
      <4> QED
        BY <4>1
    <3> QED
      BY <3>1, <3>2
  <2>5. CASE ListSchedules(w)
    BY <2>5 DEF ListSchedules
  <2>6. CASE (\E s \in Schedules : CronInsert(w, s)) \/ CronLink(w) \/ ScheduleAvailableJobs(w)
    <3>1. /\ pc[w] \in {"cron", "cronLink"}
          /\ \E l \in {"cron", "cronLink", "unlock"} : pc' = [pc EXCEPT ![w] = l]
          /\ UNCHANGED <<ctx, dutyLock>>
      BY <2>6 DEF CronInsert, CronLink, ScheduleAvailableJobs
    <3> QED
      BY <3>1
  <2>7. CASE Unlock(w)
    BY <2>7 DEF Unlock
  <2> QED
    BY <1>5, <2>1, <2>2, <2>3, <2>4, <2>5, <2>6, <2>7 DEF LeaderDuties
<1>6. ASSUME NEW w \in Workers, Shutdown(w)
      PROVE /\ InDuties(v)' => dutyLock' = v
            /\ ctx'[v] = "recover" =>
                 pc'[v] \in {"recover", "retrySchedule", "retryLink"}
  <2>1. CASE Deregister(w)
    BY <2>1 DEF Deregister
  <2>2. CASE StepDown(w)
    BY <2>2 DEF StepDown
  <2> QED
    BY <1>6, <2>1, <2>2 DEF Shutdown
<1> QED
  BY <1>1, <1>2, <1>3, <1>4, <1>5, <1>6 DEF Next, Run, Crash

\* Leader duties are exclusive, whatever becomes of the lease meanwhile.
THEOREM DutiesExclusiveHolds == Spec => []DutiesExclusive
<1>1. Init => TypeOK /\ LockInv
  BY TypeInit DEF Init, LockInv, InDuties
<1>2. (TypeOK /\ LockInv) /\ [Next]_vars => (TypeOK /\ LockInv)'
  BY TypeStep, LockStep
<1>3. LockInv => DutiesExclusive
  BY DEF LockInv, DutiesExclusive
<1> QED
  BY <1>1, <1>2, <1>3, PTL DEF Spec

-----------------------------------------------------------------------------
(***************************************************************************)
(* One run per schedule. While worker w is the only one that ever          *)
(* registered, a row of a schedule that is live or about to be retried is  *)
(* the one queue_schedules points at, except between the INSERT and the    *)
(* UPDATE of one call; and a schedule the leader decided to run has none.  *)
(* OneRunPerSchedule alone is not inductive: it does not say that the row  *)
(* whose end ListSchedules waits for is the live one.                      *)
(***************************************************************************)
Solo(w) == \A v \in Workers \ {w} : pc[v] = "off"

Pending(w) ==
    {j \in Existing : /\ scheduleName[j] # None
                      /\ \/ status[j] \in {"scheduled", "available", "running"}
                         \/ j \in Retrying(w)}

\* No schedule has two pending rows.
Single(w) ==
    \A j, k \in Pending(w) : scheduleName[j] = scheduleName[k] => j = k

\* The schedule's pointer is at its pending row, or the worker is about to
\* put it there.
Linked(w) ==
    /\ pc[w] \in {"cronLink", "retrySchedule"} => new[w] \in Existing
    /\ pc[w] = "retrySchedule" => cur[w] \notin Pending(w)
    /\ \A j \in Pending(w) :
         \/ lastJob[scheduleName[j]] = j
         \/ /\ pc[w] \in {"cronLink", "retrySchedule"} /\ new[w] = j
            /\ pc[w] = "retrySchedule" => lastJob[scheduleName[j]] = cur[w]

\* A schedule that the leader is going to run has no pending row, the row it
\* has just inserted apart.
Chosen(w) ==
    pc[w] \in {"cron", "cronLink"} =>
      \A j \in Pending(w) :
        \/ scheduleName[j] \notin toSchedule[w]
               /\ (pc[w] = "cronLink" => scheduleName[j] # scheduleName[new[w]])
        \/ pc[w] = "cronLink" /\ j = new[w]

SoloAt(w) == Single(w) /\ (pc[w] # "dead" => Linked(w) /\ Chosen(w))

SoloInv == \A w \in Workers : Solo(w) => SoloAt(w)

\* A worker that takes a step of its own is registered afterwards, and no other
\* worker moves.
LEMMA OneMoves ==
    ASSUME TypeOK, NEW w \in Workers, Register(w) \/ Cancelled(w) \/ Crash(w) \/ Run(w)
    PROVE  pc'[w] # "off" /\ \A v \in Workers \ {w} : pc'[v] = pc[v]
<1>1. ASSUME NEW l \in PCs \ {"off"}, pc' = [pc EXCEPT ![w] = l]
      PROVE  pc'[w] # "off" /\ \A v \in Workers \ {w} : pc'[v] = pc[v]
  BY <1>1 DEF TypeOK
<1> USE DEF Goto
<1>2. CASE Register(w)
  BY <1>1, <1>2 DEF Register, PCs
<1>3. CASE Cancelled(w)
  BY <1>1, <1>3 DEF Cancelled, PCs
<1>4. ASSUME Die(w)
      PROVE  pc'[w] # "off" /\ \A v \in Workers \ {w} : pc'[v] = pc[v]
  BY <1>1, <1>4 DEF Die, PCs
<1>5. CASE Tick(w)
  <2>1. CASE Heartbeat(w)
    BY <1>1, <1>4, <2>1 DEF Heartbeat, PCs
  <2>2. CASE RemoveLeaseIfExpired(w)
    BY <1>1, <2>2 DEF RemoveLeaseIfExpired, PCs
  <2>3. CASE TryGetLeaderLease(w)
    BY <1>1, <2>3 DEF TryGetLeaderLease, PCs
  <2>4. ASSUME NEW j \in Rows, MarkAsCompleted(w, j)
        PROVE  pc'[w] # "off" /\ \A v \in Workers \ {w} : pc'[v] = pc[v]
    BY <1>4, <2>4 DEF MarkAsCompleted
  <2>5. ASSUME NEW j \in Rows, MarkAsFailed(w, j)
        PROVE  pc'[w] # "off" /\ \A v \in Workers \ {w} : pc'[v] = pc[v]
    <3>1. pc[w] = "process" /\ (Die(w) \/ pc' = pc \/ pc' = [pc EXCEPT ![w] = "retryInsert"])
      BY <2>5 DEF MarkAsFailed
    <3> QED
      BY <1>1, <1>4, <3>1 DEF PCs
  <2>6. CASE RetryInsert(w)
    BY <1>1, <1>4, <2>6 DEF RetryInsert, InsertRetry, PCs
  <2>7. CASE RetrySchedule(w)
    BY <1>1, <2>7 DEF RetrySchedule, PCs
  <2>8. CASE RetryLink(w)
    BY <1>1, <2>8 DEF RetryLink, PCs
  <2>9. CASE Reserve(w)
    BY <1>1, <2>9 DEF Reserve, PCs
  <2> QED
    BY <1>5, <2>1, <2>2, <2>3, <2>4, <2>5, <2>6, <2>7, <2>8, <2>9 DEF Tick
<1>6. CASE LeaderDuties(w)
  <2>1. CASE TryAdvisoryLock(w)
    BY <1>1, <2>1 DEF TryAdvisoryLock, PCs
  <2>2. CASE ShutdownDeadWorkers(w)
    BY <1>1, <2>2 DEF ShutdownDeadWorkers, PCs
  <2>3. CASE MarkAbandonedJobsAsFailed(w)
    BY <1>1, <2>3 DEF MarkAbandonedJobsAsFailed, PCs
  <2>4. ASSUME NEW j \in Rows, RecoverInsert(w, j)
        PROVE  pc'[w] # "off" /\ \A v \in Workers \ {w} : pc'[v] = pc[v]
    BY <1>1, <1>4, <2>4 DEF RecoverInsert, InsertRetry, PCs
  <2>5. CASE ListSchedules(w)
    BY <1>1, <2>5 DEF ListSchedules, PCs
  <2>6. ASSUME NEW s \in Schedules, CronInsert(w, s)
        PROVE  pc'[w] # "off" /\ \A v \in Workers \ {w} : pc'[v] = pc[v]
    BY <1>1, <2>6 DEF CronInsert, PCs
  <2>7. CASE CronLink(w)
    BY <1>1, <2>7 DEF CronLink, PCs
  <2>8. CASE ScheduleAvailableJobs(w)
    BY <1>1, <2>8 DEF ScheduleAvailableJobs, PCs
  <2>9. CASE Unlock(w)
    BY <1>1, <2>9 DEF Unlock, PCs
  <2> QED
    BY <1>6, <2>1, <2>2, <2>3, <2>4, <2>5, <2>6, <2>7, <2>8, <2>9 DEF LeaderDuties
<1>7. CASE Shutdown(w)
  <2>1. CASE Deregister(w)
    BY <1>1, <2>1 DEF Deregister, PCs
  <2>2. CASE StepDown(w)
    BY <1>1, <2>2 DEF StepDown, PCs
  <2> QED
    BY <1>7, <2>1, <2>2 DEF Shutdown
<1> QED
  BY <1>2, <1>3, <1>4, <1>5, <1>6, <1>7 DEF Crash, Run

\* Rows that end, or go from live to about to be retried, add no pending row.
LEMMA PendingShrinks ==
    ASSUME TypeOK, NEW w, UNCHANGED <<lastId, scheduleName>>,
           \A j \in Rows : status'[j] \in {"scheduled", "available", "running"} =>
             status[j] \in {"scheduled", "available", "running"},
           \A j \in Retrying(w)' :
             j \in Retrying(w) \/ status[j] \in {"scheduled", "available", "running"}
    PROVE  Pending(w)' \subseteq Pending(w)
<1>1. Existing' = Existing /\ Existing \subseteq Rows
  BY ExistingRows DEF Existing
<1> QED
  BY <1>1 DEF Pending

\* A step that adds no pending row and leaves the pointers alone, and starts or
\* ends no call that inserts a row, keeps the invariant.
LEMMA SoloQuiet ==
    ASSUME TypeOK, NEW w \in Workers, SoloAt(w), Existing \subseteq Existing',
           Pending(w)' \subseteq Pending(w), lastJob' = lastJob,
           \A j \in Existing : scheduleName'[j] = scheduleName[j],
           \/ UNCHANGED <<pc[w], cur[w], new[w], toSchedule[w]>>
           \/ /\ pc'[w] \notin {"cron", "cronLink", "retrySchedule"}
              /\ pc[w] \notin {"cronLink", "retrySchedule", "dead"}
           \/ pc'[w] = "dead"
    PROVE  SoloAt(w)'
<1>0. Pending(w) \subseteq Existing
  BY DEF Pending
<1>1. Single(w)'
  BY <1>0 DEF SoloAt, Single
<1>2. ASSUME pc'[w] # "dead" PROVE Linked(w)'
  <2>1. Linked(w) /\ Chosen(w)
    BY <1>2 DEF SoloAt
  <2>2. CASE pc'[w] \notin {"cron", "cronLink", "retrySchedule"}
             /\ pc[w] \notin {"cronLink", "retrySchedule", "dead"}
    BY <1>0, <2>1, <2>2 DEF Linked
  <2>3. CASE UNCHANGED <<pc[w], cur[w], new[w], toSchedule[w]>>
    BY <1>0, <2>1, <2>3 DEF Linked
  <2> QED
    BY <1>2, <2>2, <2>3
<1>3. ASSUME pc'[w] # "dead" PROVE Chosen(w)'
  <2>1. Linked(w) /\ Chosen(w)
    BY <1>3 DEF SoloAt
  <2>2. CASE pc'[w] \notin {"cron", "cronLink", "retrySchedule"}
    BY <2>2 DEF Chosen
  <2>3. CASE UNCHANGED <<pc[w], cur[w], new[w], toSchedule[w]>>
    <3>1. pc[w] = "cronLink" => scheduleName'[new[w]] = scheduleName[new[w]]
      BY <2>1 DEF Linked
    <3> QED
      BY <1>0, <2>1, <2>3, <3>1 DEF Chosen
  <2> QED
    BY <1>3, <2>2, <2>3
<1> QED
  BY <1>1, <1>2, <1>3 DEF SoloAt

\* Outside the two places where a call is under way, pointers that are right
\* leave no room for two pending rows of a schedule.
LEMMA LinkedIsSingle ==
    ASSUME NEW w \in Workers, Linked(w), Chosen(w)
    PROVE  Single(w)
<1> SUFFICES ASSUME NEW j \in Pending(w), NEW k \in Pending(w), scheduleName[j] = scheduleName[k]
             PROVE  j = k
  BY DEF Single
<1>1. CASE pc[w] = "cronLink"
  BY <1>1 DEF Linked, Chosen
<1>2. CASE pc[w] = "retrySchedule"
  BY <1>2 DEF Linked
<1>3. CASE pc[w] \notin {"cronLink", "retrySchedule"}
  BY <1>3 DEF Linked
<1> QED
  BY <1>1, <1>2, <1>3

\* The same after a step.
LEMMA LinkedIsSingleNext ==
    ASSUME NEW w \in Workers PROVE Linked(w)' /\ Chosen(w)' => Single(w)'
BY LinkedIsSingle, PTL

\* What an INSERT does to the rows the schedules see.
LEMMA InsertPending ==
    ASSUME HistoryInv, NEW st \in {"scheduled", "available"}, NEW att, NEW org, NEW d,
           NEW s \in Schedules \cup {None}, InsertRow(st, att, org, d, s)
    PROVE  /\ lastId + 1 \notin Existing /\ Existing \subseteq Rows
           /\ Existing' = Existing \cup {lastId + 1}
           /\ scheduleName'[lastId + 1] = s
           /\ \A j \in Existing : scheduleName'[j] = scheduleName[j] /\ status'[j] = status[j]
<1>1. TypeOK /\ lastId \in Nat /\ lastId + 1 \in Rows /\ lastId' = lastId + 1 /\ Existing \subseteq Rows
  BY NewRow, ExistingRows, MaxRowsNat DEF HistoryInv, TypeOK, InsertRow
<1>2. lastId + 1 \notin Existing /\ Existing' = Existing \cup {lastId + 1}
  BY <1>1 DEF Existing
<1> QED
  BY <1>1, <1>2 DEF InsertRow, TypeOK

\* The retry of a row moves the schedule's run from the row to the new one.
LEMMA SoloRetry ==
    ASSUME HistoryInv, NEW w \in Workers, SoloAt(w), NEW j \in Retrying(w), NEW d \in BOOLEAN,
           pc[w] \in {"retryInsert", "recover"}, pc[w] = "retryInsert" => j = cur[w],
           InsertRetry(w, j, d)
    PROVE  SoloAt(w)'
<1> USE DEF jobVars, tableVars, leaderVars, localVars, trackVars, Goto
<1>n. PICK n : n = lastId + 1
  OBVIOUS
<1>0. TypeOK /\ j \in Existing /\ status[j] = "failed" /\ scheduleName[j] \in Schedules \cup {None}
  BY ExistingRows DEF HistoryInv, TokenInv, TypeOK
<1>1. /\ InsertRow("scheduled", attempt[j] + 1, origin[j], d, scheduleName[j])
      /\ pc' = [pc EXCEPT ![w] = "retrySchedule"]
      /\ cur' = [cur EXCEPT ![w] = j]
      /\ new' = [new EXCEPT ![w] = n]
      /\ abandoned' = [abandoned EXCEPT ![w] = abandoned[w] \ {j}]
      /\ lastJob' = lastJob
  BY <1>n, <1>0 DEF InsertRetry
<1>2. /\ n \notin Existing /\ Existing' = Existing \cup {n}
      /\ scheduleName'[n] = scheduleName[j]
      /\ \A i \in Existing : scheduleName'[i] = scheduleName[i] /\ status'[i] = status[i]
  BY <1>n, <1>0, <1>1, InsertPending
<1>3. pc'[w] = "retrySchedule" /\ cur'[w] = j /\ new'[w] = n /\ Retrying(w)' = Retrying(w) \ {j}
  BY <1>0, <1>1 DEF TypeOK, Retrying
<1>4. \A i \in Pending(w) : lastJob[scheduleName[i]] = i
  BY DEF SoloAt, Linked
<1>5. \A i \in Pending(w)' : i = n \/ (i \in Pending(w) /\ i # j)
  BY <1>0, <1>2, <1>3 DEF Pending
<1>6. scheduleName[j] # None => j \in Pending(w)
  BY <1>0 DEF Pending
<1>7. j \notin Pending(w)'
  BY <1>0, <1>2, <1>5
<1>8. ASSUME NEW i \in Pending(w)'
      PROVE  \/ lastJob'[scheduleName'[i]] = i
             \/ i = n /\ lastJob'[scheduleName'[i]] = j
  <2>1. CASE i = n
    BY <1>1, <1>2, <1>4, <1>6, <2>1 DEF Pending
  <2>2. CASE i \in Pending(w)
    BY <1>1, <1>2, <1>4, <2>2 DEF Pending
  <2> QED
    BY <1>5, <2>1, <2>2
<1>9. Linked(w)' /\ Chosen(w)'
  BY <1>2, <1>3, <1>7, <1>8 DEF Linked, Chosen
<1> QED
  BY <1>9, LinkedIsSingleNext DEF SoloAt

\* The leader adds a run to a schedule that has none pending.
LEMMA SoloCronInsert ==
    ASSUME HistoryInv, NEW w \in Workers, SoloAt(w), NEW s \in Schedules, CronInsert(w, s)
    PROVE  SoloAt(w)'
<1> USE DEF jobVars, tableVars, leaderVars, localVars, trackVars, Goto
<1>n. PICK n : n = lastId + 1
  OBVIOUS
<1>1. /\ InsertRow("scheduled", 0, lastId + 1, FALSE, s)
      /\ pc[w] = "cron" /\ s \in toSchedule[w]
      /\ new' = [new EXCEPT ![w] = n] /\ pc' = [pc EXCEPT ![w] = "cronLink"]
      /\ UNCHANGED <<lastJob, toSchedule, abandoned, cur>>
  BY <1>n DEF CronInsert
<1>2. /\ n \notin Existing /\ Existing' = Existing \cup {n}
      /\ scheduleName'[n] = s
      /\ \A i \in Existing : scheduleName'[i] = scheduleName[i] /\ status'[i] = status[i]
  BY <1>n, <1>1, InsertPending
<1>3. pc'[w] = "cronLink" /\ new'[w] = n /\ Retrying(w)' = Retrying(w)
  BY <1>1 DEF HistoryInv, TypeOK, Retrying
<1>4. \A i \in Pending(w) : lastJob[scheduleName[i]] = i /\ scheduleName[i] \notin toSchedule[w]
  BY <1>1 DEF SoloAt, Linked, Chosen
<1>5. \A i \in Pending(w)' : i = n \/ (i \in Pending(w) /\ scheduleName'[i] = scheduleName[i])
  BY <1>2, <1>3 DEF Pending
<1>6. Linked(w)'
  BY <1>1, <1>2, <1>3, <1>4, <1>5 DEF Linked
<1>7. Chosen(w)'
  BY <1>1, <1>2, <1>3, <1>4, <1>5 DEF Chosen
<1> QED
  BY <1>6, <1>7, LinkedIsSingleNext DEF SoloAt

\* The second statement of retry or of schedule_later moves the pointer.
LEMMA SoloLink ==
    ASSUME HistoryInv, NEW w \in Workers, SoloAt(w), RetrySchedule(w) \/ CronLink(w)
    PROVE  SoloAt(w)'
<1> USE DEF jobVars, tableVars, leaderVars, localVars, trackVars, Goto
<1>0. /\ TypeOK /\ Linked(w) /\ Chosen(w)
      /\ \A j \in Pending(w) : scheduleName[j] \in Schedules
  BY ExistingRows DEF SoloAt, HistoryInv, TypeOK, RetrySchedule, CronLink, Pending
<1>1. CASE RetrySchedule(w)
  <2>1. /\ pc[w] = "retrySchedule" /\ pc'[w] = "retryLink"
        /\ \A s \in Schedules : lastJob'[s] = IF lastJob[s] = cur[w] THEN new[w] ELSE lastJob[s]
        /\ UNCHANGED <<lastId, status, scheduleName>> /\ Retrying(w)' = Retrying(w)
    BY <1>0, <1>1 DEF RetrySchedule, TypeOK, Retrying
  <2>2. Pending(w)' = Pending(w)
    BY <2>1 DEF Pending, Existing
  <2>3. Linked(w)' /\ Chosen(w)'
    BY <1>0, <2>1, <2>2 DEF Linked, Chosen
  <2> QED
    BY <2>3, LinkedIsSingleNext DEF SoloAt
<1>2. CASE CronLink(w)
  <2> DEFINE s == scheduleName[new[w]]
  <2>1. /\ pc[w] = "cronLink" /\ pc'[w] = "cron"
        /\ lastJob' = [lastJob EXCEPT ![s] = new[w]]
        /\ toSchedule'[w] = toSchedule[w] \ {s}
        /\ UNCHANGED <<lastId, status, scheduleName>> /\ Retrying(w)' = Retrying(w)
    BY <1>0, <1>2 DEF CronLink, TypeOK, Retrying
  <2>2. Pending(w)' = Pending(w)
    BY <2>1 DEF Pending, Existing
  <2>3. ASSUME NEW j \in Pending(w)
        PROVE  lastJob'[scheduleName[j]] = j /\ scheduleName[j] \notin toSchedule'[w]
    <3>1. CASE j = new[w]
      BY <1>0, <2>1, <3>1 DEF TypeOK
    <3>2. CASE j # new[w]
      <4>1. lastJob[scheduleName[j]] = j /\ scheduleName[j] # s /\ scheduleName[j] \notin toSchedule[w]
        BY <1>0, <2>1, <3>2 DEF Linked, Chosen
      <4> QED
        BY <1>0, <2>1, <4>1 DEF TypeOK
    <3> QED
      BY <3>1, <3>2
  <2>4. Linked(w)' /\ Chosen(w)'
    BY <2>1, <2>2, <2>3 DEF Linked, Chosen
  <2> QED
    BY <2>4, LinkedIsSingleNext DEF SoloAt
<1> QED
  BY <1>1, <1>2

\* The leader chooses the schedules whose last run is over.
LEMMA SoloList ==
    ASSUME HistoryInv, NEW w \in Workers, SoloAt(w), ListSchedules(w)
    PROVE  SoloAt(w)'
<1> USE DEF jobVars, tableVars, leaderVars, localVars, trackVars, Goto
<1>0. TypeOK /\ Existing \subseteq Rows
  BY ExistingRows DEF HistoryInv
<1>1. /\ pc[w] = "recover" /\ abandoned[w] = {} /\ pc'[w] = "cron"
      /\ toSchedule'[w] = {s \in Schedules : lastJob[s] # None =>
                             due[lastJob[s]] /\ status[lastJob[s]] \in Finished}
      /\ UNCHANGED <<lastId, status, scheduleName, lastJob, abandoned, cur>>
  BY <1>0 DEF ListSchedules, TypeOK
<1>2. Retrying(w) = {} /\ Retrying(w)' = {}
  BY <1>1 DEF Retrying
<1>3. Pending(w)' = Pending(w)
  BY <1>1, <1>2 DEF Pending, Existing
<1>4. \A j \in Pending(w) : lastJob[scheduleName[j]] = j
  BY <1>1 DEF SoloAt, Linked
<1>5. \A j \in Pending(w) : j # None /\ status[j] \notin Finished
  BY <1>0, <1>2, NoneAssumption DEF Pending, Finished
<1>6. Linked(w)' /\ Chosen(w)'
  BY <1>1, <1>3, <1>4, <1>5 DEF Linked, Chosen
<1> QED
  BY <1>6, LinkedIsSingleNext DEF SoloAt

\* Steps of the only worker that insert no row and move no pointer.
LEMMA SoloLocal ==
    ASSUME HistoryInv, NEW w \in Workers, SoloAt(w), UNCHANGED <<lastId, scheduleName, lastJob>>,
           \A j \in Rows : status'[j] \in {"scheduled", "available", "running"} =>
             status[j] \in {"scheduled", "available", "running"},
           \A j \in Retrying(w)' :
             j \in Retrying(w) \/ status[j] \in {"scheduled", "available", "running"},
           \/ UNCHANGED <<pc[w], cur[w], new[w], toSchedule[w]>>
           \/ /\ pc'[w] \notin {"cron", "cronLink", "retrySchedule"}
              /\ pc[w] \notin {"cronLink", "retrySchedule", "dead"}
           \/ pc'[w] = "dead"
    PROVE  SoloAt(w)'
<1>1. TypeOK /\ Existing' = Existing
  BY DEF HistoryInv, Existing
<1>2. Pending(w)' \subseteq Pending(w)
  BY <1>1, PendingShrinks
<1> QED
  BY <1>1, <1>2, SoloQuiet

\* Every statement of the only worker keeps the invariant.
LEMMA SoloRun ==
    ASSUME HistoryInv, NEW w \in Workers, SoloAt(w),
           Register(w) \/ Cancelled(w) \/ Crash(w) \/ Run(w)
    PROVE  SoloAt(w)'
<1> USE DEF jobVars, tableVars, leaderVars, localVars, trackVars, Goto
<1>0. TypeOK
  BY DEF HistoryInv
<1>1. ASSUME NEW l \in PCs \ {"cron", "cronLink", "retrySchedule", "retryInsert"},
             pc' = [pc EXCEPT ![w] = l],
             pc[w] \notin {"cronLink", "retrySchedule", "dead"} \/ l = "dead",
             UNCHANGED <<lastId, scheduleName, lastJob, status>>,
             abandoned'[w] \subseteq abandoned[w]
      PROVE  SoloAt(w)'
  <2>1. pc'[w] = l
    BY <1>0, <1>1 DEF TypeOK
  <2>2. Retrying(w)' \subseteq Retrying(w)
    BY <1>1, <2>1 DEF Retrying
  <2> QED
    BY <1>1, <2>1, <2>2, SoloLocal
<1>2. CASE Register(w)
  BY <1>1, <1>2 DEF Register, PCs
<1>3. CASE Cancelled(w)
  BY <1>1, <1>3 DEF Cancelled, PCs
<1>4. ASSUME Die(w) PROVE SoloAt(w)'
  BY <1>0, <1>1, <1>4 DEF Die, PCs, TypeOK
<1>5. CASE Tick(w)
  <2>1. CASE Heartbeat(w)
    BY <1>1, <1>4, <2>1 DEF Heartbeat, PCs
  <2>2. CASE RemoveLeaseIfExpired(w)
    BY <1>1, <2>2 DEF RemoveLeaseIfExpired, PCs
  <2>3. CASE TryGetLeaderLease(w)
    BY <1>1, <2>3 DEF TryGetLeaderLease, PCs
  <2>4. ASSUME NEW j \in Rows, MarkAsCompleted(w, j) PROVE SoloAt(w)'
    <3>1. CASE status[j] = "running"
      <4>1. /\ status' = [status EXCEPT ![j] = "completed"]
            /\ UNCHANGED <<lastId, scheduleName, lastJob, pc, cur, new, toSchedule, abandoned>>
        BY <2>4, <3>1 DEF MarkAsCompleted
      <4>2. Retrying(w)' = Retrying(w)
        BY <4>1 DEF Retrying
      <4>3. \A i \in Rows : status'[i] \in {"completed", status[i]}
        BY <1>0, <4>1 DEF TypeOK
      <4> QED
        BY <4>1, <4>2, <4>3, SoloLocal
    <3>2. CASE status[j] # "running"
      BY <1>4, <2>4, <3>2 DEF MarkAsCompleted
    <3> QED
      BY <3>1, <3>2
  <2>5. ASSUME NEW j \in Rows, MarkAsFailed(w, j) PROVE SoloAt(w)'
    <3>1. CASE status[j] = "running"
      <4>1. /\ status' = [status EXCEPT ![j] = "failed"] /\ pc[w] = "process"
            /\ UNCHANGED <<lastId, scheduleName, lastJob, new, toSchedule, abandoned>>
            /\ \/ /\ cur' = [cur EXCEPT ![w] = j]
                  /\ pc' = [pc EXCEPT ![w] = "retryInsert"]
               \/ UNCHANGED <<cur, pc>>
        BY <2>5, <3>1 DEF MarkAsFailed
      <4>2. \A i \in Retrying(w)' : i \in Retrying(w) \/ i = j
        BY <1>0, <4>1 DEF Retrying, TypeOK
      <4>3. \A i \in Rows : status'[i] \in {"failed", status[i]}
        BY <1>0, <4>1 DEF TypeOK
      <4>4. pc'[w] \in {"process", "retryInsert"}
        BY <1>0, <4>1 DEF TypeOK
      <4> QED
        BY <3>1, <4>1, <4>2, <4>3, <4>4, SoloLocal
    <3>2. CASE status[j] # "running"
      BY <1>4, <2>5, <3>2 DEF MarkAsFailed
    <3> QED
      BY <3>1, <3>2
  <2>6. CASE RetryInsert(w)
    <3>1. cur[w] \in Retrying(w) /\ pc[w] = "retryInsert" /\ InsertRetry(w, cur[w], FALSE)
      BY <2>6 DEF RetryInsert, Retrying
    <3> QED
      BY <3>1, SoloRetry
  <2>7. CASE RetrySchedule(w)
    BY <2>7, SoloLink
  <2>8. CASE RetryLink(w)
    BY <1>1, <2>8 DEF RetryLink, PCs
  <2>9. CASE Reserve(w)
    <3>1. /\ pc[w] = "process" /\ pc'[w] \in {"lock", "wait"}
          /\ UNCHANGED <<lastId, scheduleName, lastJob, abandoned, cur>>
      BY <1>0, <2>9 DEF Reserve, TypeOK
    <3>2. Retrying(w)' \subseteq Retrying(w)
      BY <3>1 DEF Retrying
    <3>3. \A i \in Rows : \/ status'[i] = status[i]
                          \/ status[i] = "available" /\ status'[i] = "running"
      BY <2>9 DEF Reserve, FirstAvailable, Available
    <3> QED
      BY <3>1, <3>2, <3>3, SoloLocal
  <2> QED
    BY <1>5, <2>1, <2>2, <2>3, <2>4, <2>5, <2>6, <2>7, <2>8, <2>9 DEF Tick
<1>6. CASE LeaderDuties(w)
  <2>1. CASE TryAdvisoryLock(w)
    BY <1>1, <2>1 DEF TryAdvisoryLock, PCs
  <2>2. CASE ShutdownDeadWorkers(w)
    BY <1>1, <2>2 DEF ShutdownDeadWorkers, PCs
  <2>3. CASE MarkAbandonedJobsAsFailed(w)
    <3>1. /\ pc[w] = "mark" /\ pc'[w] = "recover"
          /\ \A i \in Rows : status'[i] = IF i \in Abandoned THEN "failed" ELSE status[i]
          /\ abandoned'[w] \subseteq Abandoned
          /\ UNCHANGED <<lastId, scheduleName, lastJob>>
      BY <1>0, <2>3 DEF MarkAbandonedJobsAsFailed, TypeOK
    <3>2. \A i \in Abandoned : status[i] = "running"
      BY DEF Abandoned
    <3>3. Retrying(w)' \subseteq Abandoned
      BY <3>1 DEF Retrying
    <3> QED
      BY <3>1, <3>2, <3>3, SoloLocal
  <2>4. ASSUME NEW j \in Rows, RecoverInsert(w, j) PROVE SoloAt(w)'
    <3>1. j \in Retrying(w) /\ pc[w] = "recover" /\ InsertRetry(w, j, TRUE)
      BY <2>4 DEF RecoverInsert, Retrying
    <3> QED
      BY <3>1, SoloRetry
  <2>5. CASE ListSchedules(w)
    BY <2>5, SoloList
  <2>6. ASSUME NEW s \in Schedules, CronInsert(w, s) PROVE SoloAt(w)'
    BY <2>6, SoloCronInsert
  <2>7. CASE CronLink(w)
    BY <2>7, SoloLink
  <2>8. CASE ScheduleAvailableJobs(w)
    <3>1. /\ pc[w] = "cron" /\ pc'[w] = "unlock"
          /\ UNCHANGED <<lastId, scheduleName, lastJob, abandoned, cur>>
      BY <1>0, <2>8 DEF ScheduleAvailableJobs, TypeOK
    <3>2. Retrying(w)' \subseteq Retrying(w)
      BY <3>1 DEF Retrying
    <3>3. \A i \in Rows : \/ status'[i] = status[i]
                          \/ status[i] = "scheduled" /\ status'[i] = "available"
      BY <2>8 DEF ScheduleAvailableJobs
    <3> QED
      BY <3>1, <3>2, <3>3, SoloLocal
  <2>9. CASE Unlock(w)
    BY <1>1, <2>9 DEF Unlock, PCs
  <2> QED
    BY <1>6, <2>1, <2>2, <2>3, <2>4, <2>5, <2>6, <2>7, <2>8, <2>9 DEF LeaderDuties
<1>7. CASE Shutdown(w)
  <2>1. CASE Deregister(w)
    BY <1>1, <2>1 DEF Deregister, PCs
  <2>2. CASE StepDown(w)
    BY <1>1, <2>2 DEF StepDown, PCs
  <2> QED
    BY <1>7, <2>1, <2>2 DEF Shutdown
<1> QED
  BY <1>2, <1>3, <1>4, <1>5, <1>6, <1>7 DEF Crash, Run

\* Every step keeps the invariant: another worker that moved is registered,
\* and then w is not alone any more.
LEMMA SoloStep == HistoryInv /\ SoloInv /\ [Next]_vars => SoloInv'
<1> SUFFICES ASSUME HistoryInv, SoloInv, [Next]_vars, NEW w \in Workers, Solo(w)'
             PROVE  SoloAt(w)'
  BY DEF SoloInv
<1> USE DEF jobVars, tableVars, leaderVars, localVars, trackVars
<1>0. TypeOK
  BY DEF HistoryInv
<1>1. ASSUME NEW v \in Workers, Register(v) \/ Cancelled(v) \/ Crash(v) \/ Run(v)
      PROVE  SoloAt(w)'
  <2>1. v = w /\ Solo(w)
    BY <1>0, <1>1, OneMoves DEF Solo
  <2> QED
    BY <1>1, <2>1, SoloRun DEF SoloInv
<1>2. ASSUME UNCHANGED <<lastId, status, scheduleName, lastJob, pc, cur, new, toSchedule, abandoned>>
      PROVE  SoloAt(w)'
  <2>1. SoloAt(w)
    BY <1>2 DEF SoloInv, Solo
  <2>2. Retrying(w)' = Retrying(w)
    BY <1>2 DEF Retrying
  <2> QED
    BY <1>2, <2>1, <2>2, SoloLocal
<1>3. CASE LeaseExpires
  BY <1>2, <1>3 DEF LeaseExpires
<1>4. ASSUME NEW j \in Rows, FallDue(j) PROVE SoloAt(w)'
  BY <1>2, <1>4 DEF FallDue
<1>5. ASSUME NEW v \in Workers, ReleaseLock(v) \/ Age(v) PROVE SoloAt(w)'
  BY <1>2, <1>5 DEF ReleaseLock, Age
<1>6. ASSUME NEW v, NEW j, NEW r, TaskFinish(v, j, r) PROVE SoloAt(w)'
  BY <1>2, <1>6 DEF TaskFinish
<1>7. CASE UNCHANGED vars
  BY <1>2, <1>7 DEF vars
<1>8. CASE Schedule \/ ScheduleLater
  <2>1. /\ \E st \in {"scheduled", "available"}, d \in BOOLEAN : InsertRow(st, 0, lastId + 1, d, None)
        /\ UNCHANGED <<pc, cur, new, toSchedule, abandoned, lastJob>>
    BY <1>8 DEF Schedule, ScheduleLater
  <2>2. /\ Existing' = Existing \cup {lastId + 1} /\ scheduleName'[lastId + 1] = None
        /\ \A j \in Existing : scheduleName'[j] = scheduleName[j] /\ status'[j] = status[j]
    BY <2>1, InsertPending
  <2>3. SoloAt(w) /\ Retrying(w)' = Retrying(w)
    BY <2>1 DEF SoloInv, Solo, Retrying
  <2>4. Pending(w)' \subseteq Pending(w)
    BY <2>2, <2>3 DEF Pending
  <2> QED
    BY <1>0, <2>1, <2>2, <2>3, <2>4, SoloQuiet
<1> QED
  BY <1>1, <1>3, <1>4, <1>5, <1>6, <1>7, <1>8 DEF Next

-----------------------------------------------------------------------------
(***************************************************************************)
(* First attempts of a schedule, whatever workers run and die. O[s] holds  *)
(* the runs of schedule s whose worker died between the INSERT and the     *)
(* UPDATE of schedule_later: nobody points at them, and each is paid for   *)
(* with a death. Every other first attempt is the one the schedule points  *)
(* at, or is held by the leader that is about to point there; and a        *)
(* schedule the leader decided to run has none.                            *)
(***************************************************************************)
Covered(O) ==
    /\ \A s \in Schedules : \A j \in Begun(s) \ O[s] :
         \/ lastJob[s] = j
         \/ \E w \in Workers : pc[w] = "cronLink" /\ new[w] = j
    /\ \A w \in Workers : pc[w] \in {"cron", "cronLink"} =>
         \A s \in toSchedule[w] : \A j \in Begun(s) \ O[s] :
           pc[w] = "cronLink" /\ new[w] = j

\* The rows that a call under way is about.
CallInv ==
    \A w \in Workers :
      /\ pc[w] = "cronLink" => /\ new[w] \in Existing
                               /\ scheduleName[new[w]] \in toSchedule[w]
      /\ pc[w] = "retrySchedule" => /\ cur[w] \in Existing
                                    /\ status[cur[w]] = "failed"

Paid(O) == \A s \in Schedules : Cardinality(O[s]) <= Cardinality(Dead)

BeginAt(O) == Covered(O) /\ CallInv /\ IsFiniteSet(Dead) /\ Paid(O)

BeginInv == \E O \in [Schedules -> SUBSET Rows] : BeginAt(O)

\* A step that begins no run, takes no pointer from one, and neither enters nor
\* leaves schedule_later, keeps the invariant with the same orphans.
LEMMA BeginQuiet ==
    ASSUME TypeOK, NEW O \in [Schedules -> SUBSET Rows], BeginAt(O),
           \A s \in Schedules : Begun(s)' \subseteq Begun(s),
           \A s \in Schedules : \A j \in Begun(s) : lastJob[s] = j => lastJob'[s] = j,
           Existing \subseteq Existing',
           \A j \in Existing : /\ scheduleName'[j] = scheduleName[j]
                               /\ status[j] = "failed" => status'[j] = "failed",
           \A u \in Workers :
             \/ UNCHANGED <<pc[u], cur[u], new[u], toSchedule[u]>>
             \/ /\ pc[u] \notin {"cronLink", "dead"}
                /\ pc'[u] \notin {"cron", "cronLink", "dead"}
                /\ pc'[u] = "retrySchedule" =>
                     cur'[u] \in Existing /\ status[cur'[u]] = "failed"
    PROVE  BeginAt(O)'
<1>0. \A u \in Workers : toSchedule[u] \subseteq Schedules
  BY DEF TypeOK
<1>1. Dead' = Dead
  BY DEF Dead
<1>2. IsFiniteSet(Dead)' /\ Paid(O)'
  BY <1>1 DEF BeginAt, Paid
<1>3. ASSUME NEW s \in Schedules, NEW j \in Begun(s)', j \notin O[s]
      PROVE  lastJob'[s] = j \/ \E w \in Workers : pc'[w] = "cronLink" /\ new'[w] = j
  <2>1. j \in Begun(s)
    BY <1>3
  <2>2. CASE lastJob[s] = j
    BY <2>1, <2>2
  <2>3. ASSUME NEW w \in Workers, pc[w] = "cronLink", new[w] = j
        PROVE  pc'[w] = "cronLink" /\ new'[w] = j
    BY <2>3
  <2> QED
    BY <1>3, <2>1, <2>2, <2>3 DEF BeginAt, Covered
<1>4. ASSUME NEW w \in Workers, pc'[w] \in {"cron", "cronLink"}, NEW s \in toSchedule'[w],
             NEW j \in Begun(s)', j \notin O[s]
      PROVE  pc'[w] = "cronLink" /\ new'[w] = j
  <2>1. UNCHANGED <<pc[w], cur[w], new[w], toSchedule[w]>>
    BY <1>4
  <2>2. s \in Schedules /\ j \in Begun(s)
    BY <1>0, <1>4, <2>1
  <2> QED
    BY <1>4, <2>1, <2>2 DEF BeginAt, Covered
<1>5. ASSUME NEW w \in Workers, pc'[w] = "cronLink"
      PROVE  new'[w] \in Existing' /\ scheduleName'[new'[w]] \in toSchedule'[w]
  BY <1>5 DEF BeginAt, CallInv
<1>6. ASSUME NEW w \in Workers, pc'[w] = "retrySchedule"
      PROVE  cur'[w] \in Existing' /\ status'[cur'[w]] = "failed"
  BY <1>6 DEF BeginAt, CallInv
<1>7. Covered(O)'
  BY <1>3, <1>4 DEF Covered
<1>8. CallInv'
  BY <1>5, <1>6 DEF CallInv
<1> QED
  BY <1>2, <1>7, <1>8 DEF BeginAt

\* A worker dies: the run it had inserted and not pointed at becomes an orphan.
LEMMA BeginDie ==
    ASSUME HistoryInv, NEW O \in [Schedules -> SUBSET Rows], BeginAt(O),
           NEW w \in Workers, pc[w] # "dead", Die(w)
    PROVE  \E P \in [Schedules -> SUBSET Rows] : BeginAt(P)'
<1> USE DEF jobVars, tableVars, leaderVars, localVars, trackVars, Goto
<1>0. TypeOK
  BY DEF HistoryInv
<1>n. PICK n : n = new[w]
  OBVIOUS
<1>P. PICK P : P = [s \in Schedules |-> IF pc[w] = "cronLink" THEN O[s] \cup {n} ELSE O[s]]
  OBVIOUS
<1>1. P \in [Schedules -> SUBSET Rows]
  BY <1>0, <1>n, <1>P DEF TypeOK
<1>2. \A s \in Schedules : O[s] \subseteq P[s] /\ P[s] \subseteq O[s] \cup {n}
  BY <1>P
<1>3. /\ pc'[w] = "dead" /\ \A u \in Workers \ {w} : pc'[u] = pc[u]
      /\ \A u \in Workers \ {w} : new'[u] = new[u] /\ cur'[u] = cur[u] /\ toSchedule'[u] = toSchedule[u]
      /\ UNCHANGED <<lastId, status, attempt, scheduleName, lastJob>>
  BY <1>0 DEF Die, TypeOK
<1>4. Existing' = Existing /\ \A s : Begun(s)' = Begun(s)
  BY <1>3 DEF Existing, Begun, Live
<1>5. Dead' = Dead \cup {w} /\ w \notin Dead
  BY <1>3 DEF Dead
<1>6. IsFiniteSet(Dead') /\ Cardinality(Dead') = Cardinality(Dead) + 1
  BY <1>5, FS_AddElement DEF BeginAt
<1>7. ASSUME NEW s \in Schedules PROVE Cardinality(P[s]) <= Cardinality(Dead')
  <2>1. IsFiniteSet(Rows)
    BY FS_Interval, MaxRowsNat DEF Rows
  <2>2. IsFiniteSet(O[s])
    BY <2>1, FS_Subset
  <2>3. IsFiniteSet(O[s] \cup {n}) /\ Cardinality(O[s] \cup {n}) <= Cardinality(O[s]) + 1
        /\ Cardinality(O[s]) \in Nat
    BY <2>2, FS_AddElement, FS_CardinalityType
  <2>4. IsFiniteSet(P[s]) /\ Cardinality(P[s]) <= Cardinality(O[s] \cup {n})
    BY <1>2, <2>3, FS_Subset
  <2>5. Cardinality(Dead) \in Nat /\ Cardinality(O[s]) <= Cardinality(Dead)
    BY FS_CardinalityType DEF BeginAt, Paid
  <2>6. Cardinality(P[s]) \in Nat /\ Cardinality(O[s] \cup {n}) \in Nat
    BY <2>3, <2>4, FS_CardinalityType
  <2> QED
    BY <1>6, <2>3, <2>4, <2>5, <2>6
<1>8. ASSUME NEW s \in Schedules, NEW j \in Begun(s)', j \notin P[s]
      PROVE  lastJob'[s] = j \/ \E u \in Workers : pc'[u] = "cronLink" /\ new'[u] = j
  <2>1. j \in Begun(s) /\ j \notin O[s]
    BY <1>2, <1>4, <1>8
  <2>2. CASE lastJob[s] = j
    BY <1>3, <2>2
  <2>3. ASSUME NEW u \in Workers, pc[u] = "cronLink", new[u] = j
        PROVE  pc'[u] = "cronLink" /\ new'[u] = j
    <3>1. u # w
      BY <1>n, <1>P, <1>8, <2>3
    <3> QED
      BY <1>3, <2>3, <3>1
  <2> QED
    BY <2>1, <2>2, <2>3 DEF BeginAt, Covered
<1>9. ASSUME NEW u \in Workers, pc'[u] \in {"cron", "cronLink"}, NEW s \in toSchedule'[u],
             NEW j \in Begun(s)', j \notin P[s]
      PROVE  pc'[u] = "cronLink" /\ new'[u] = j
  <2>1. u # w
    BY <1>3, <1>9
  <2>2. pc'[u] = pc[u] /\ new'[u] = new[u] /\ s \in toSchedule[u] /\ s \in Schedules
    BY <1>0, <1>3, <1>9, <2>1 DEF TypeOK
  <2> QED
    BY <1>2, <1>4, <1>9, <2>2 DEF BeginAt, Covered
<1>10. ASSUME NEW u \in Workers
       PROVE  /\ pc'[u] = "cronLink" => new'[u] \in Existing' /\ scheduleName'[new'[u]] \in toSchedule'[u]
              /\ pc'[u] = "retrySchedule" => cur'[u] \in Existing' /\ status'[cur'[u]] = "failed"
  <2>1. CASE u = w
    BY <1>3, <2>1
  <2>2. CASE u # w
    BY <1>3, <1>4, <2>2 DEF BeginAt, CallInv
  <2> QED
    BY <2>1, <2>2
<1>11. Covered(P)'
  BY <1>8, <1>9 DEF Covered
<1>12. CallInv'
  BY <1>10 DEF CallInv
<1>13. BeginAt(P)'
  BY <1>6, <1>7, <1>11, <1>12 DEF BeginAt, Paid
<1> QED
  BY <1>1, <1>13

\* The leader decides what to run: a schedule whose last run is over has no
\* first attempt in the queue but orphans, since no other leader is at work.
LEMMA BeginList ==
    ASSUME HistoryInv, LockInv, NEW O \in [Schedules -> SUBSET Rows], BeginAt(O),
           NEW w \in Workers, ListSchedules(w)
    PROVE  BeginAt(O)'
<1> USE DEF jobVars, tableVars, leaderVars, localVars, trackVars, Goto
<1>0. TypeOK
  BY DEF HistoryInv
<1>1. /\ pc[w] = "recover" /\ pc'[w] = "cron"
      /\ \A u \in Workers \ {w} : pc'[u] = pc[u] /\ toSchedule'[u] = toSchedule[u]
      /\ toSchedule'[w] = {s \in Schedules : lastJob[s] # None =>
                             due[lastJob[s]] /\ status[lastJob[s]] \in Finished}
      /\ UNCHANGED <<lastId, status, attempt, scheduleName, lastJob, new, cur>>
  BY <1>0 DEF ListSchedules, TypeOK
<1>2. Existing' = Existing /\ \A s : Begun(s)' = Begun(s)
  BY <1>1 DEF Existing, Begun, Live
<1>3. Dead' = Dead
  BY <1>1 DEF Dead
<1>4. \A u \in Workers \ {w} : pc[u] \notin {"cron", "cronLink"}
  BY <1>1 DEF LockInv, InDuties
<1>5. ASSUME NEW s \in toSchedule'[w], NEW j \in Begun(s), j \notin O[s] PROVE FALSE
  <2>1. s \in Schedules /\ lastJob[s] # j
    BY <1>0, <1>1, <1>5, NoneAssumption DEF Begun, Live, Finished
  <2>2. \A u \in Workers : pc[u] # "cronLink"
    BY <1>1, <1>4
  <2> QED
    BY <1>5, <2>1, <2>2 DEF BeginAt, Covered
<1>6. Covered(O)'
  <2>1. \A s \in Schedules : \A j \in Begun(s)' \ O[s] :
          lastJob'[s] = j \/ \E u \in Workers : pc'[u] = "cronLink" /\ new'[u] = j
    BY <1>1, <1>2, <1>4 DEF BeginAt, Covered
  <2>2. \A u \in Workers : pc'[u] \in {"cron", "cronLink"} =>
          \A s \in toSchedule'[u] : \A j \in Begun(s)' \ O[s] : pc'[u] = "cronLink" /\ new'[u] = j
    BY <1>1, <1>2, <1>4, <1>5
  <2> QED
    BY <2>1, <2>2 DEF Covered
<1>7. CallInv'
  <2>1. \A u \in Workers : pc'[u] = "cronLink" => FALSE
    BY <1>1, <1>4
  <2>2. \A u \in Workers : pc'[u] = "retrySchedule" => cur'[u] \in Existing' /\ status'[cur'[u]] = "failed"
    BY <1>1, <1>2 DEF BeginAt, CallInv
  <2> QED
    BY <2>1, <2>2 DEF CallInv
<1> QED
  BY <1>3, <1>6, <1>7 DEF BeginAt, Paid

\* The leader begins a run.
LEMMA BeginCronInsert ==
    ASSUME HistoryInv, LockInv, NEW O \in [Schedules -> SUBSET Rows], BeginAt(O),
           NEW w \in Workers, NEW s \in Schedules, CronInsert(w, s)
    PROVE  BeginAt(O)'
<1> USE DEF jobVars, tableVars, leaderVars, localVars, trackVars, Goto
<1>0. TypeOK
  BY DEF HistoryInv
<1>n. PICK n : n = lastId + 1
  OBVIOUS
<1>1. /\ InsertRow("scheduled", 0, lastId + 1, FALSE, s)
      /\ pc[w] = "cron" /\ s \in toSchedule[w] /\ pc'[w] = "cronLink" /\ new'[w] = n
      /\ \A u \in Workers \ {w} : pc'[u] = pc[u] /\ new'[u] = new[u]
      /\ UNCHANGED <<lastJob, toSchedule, cur>>
  BY <1>0, <1>n DEF CronInsert, TypeOK
<1>2. /\ n \notin Existing /\ Existing' = Existing \cup {n}
      /\ scheduleName'[n] = s
      /\ \A i \in Existing : scheduleName'[i] = scheduleName[i] /\ status'[i] = status[i]
  <2>1. InsertRow("scheduled", 0, lastId + 1, FALSE, s) /\ s \in Schedules \cup {None}
    BY <1>1
  <2> QED
    BY <1>n, <2>1, InsertPending
<1>3. \A i \in Rows : i # n =>
        status'[i] = status[i] /\ scheduleName'[i] = scheduleName[i] /\ attempt'[i] = attempt[i]
  BY <1>0, <1>n, <1>1 DEF InsertRow, TypeOK
<1>4. \A t \in Schedules : \A j \in Begun(t)' : j \in Begun(t) \/ (j = n /\ t = s)
  BY <1>2, <1>3 DEF Begun, Live
<1>5. \A u \in Workers \ {w} : pc[u] \notin {"cron", "cronLink"}
  BY <1>1 DEF LockInv, InDuties
<1>6. Dead' = Dead
  BY <1>1 DEF Dead
<1>7. ASSUME NEW t \in Schedules, NEW j \in Begun(t)', j \notin O[t]
      PROVE  lastJob'[t] = j \/ \E u \in Workers : pc'[u] = "cronLink" /\ new'[u] = j
  <2>1. CASE j = n
    BY <1>1, <2>1
  <2>2. CASE j \in Begun(t)
    BY <1>1, <1>5, <1>7, <2>2 DEF BeginAt, Covered
  <2> QED
    BY <1>4, <1>7, <2>1, <2>2
<1>8. ASSUME NEW u \in Workers, pc'[u] \in {"cron", "cronLink"}, NEW t \in toSchedule'[u],
             NEW j \in Begun(t)', j \notin O[t]
      PROVE  pc'[u] = "cronLink" /\ new'[u] = j
  <2>1. u = w /\ t \in toSchedule[w] /\ t \in Schedules
    BY <1>0, <1>1, <1>5, <1>8 DEF TypeOK
  <2>2. j \notin Begun(t)
    BY <1>1, <1>8, <2>1 DEF BeginAt, Covered
  <2> QED
    BY <1>1, <1>4, <1>8, <2>1, <2>2
<1>9. CallInv'
  <2>1. \A u \in Workers : pc'[u] = "cronLink" =>
          new'[u] \in Existing' /\ scheduleName'[new'[u]] \in toSchedule'[u]
    BY <1>1, <1>2, <1>5
  <2>2. \A u \in Workers : pc'[u] = "retrySchedule" =>
          cur'[u] \in Existing' /\ status'[cur'[u]] = "failed"
    BY <1>1, <1>2 DEF BeginAt, CallInv
  <2> QED
    BY <2>1, <2>2 DEF CallInv
<1>10. Covered(O)'
  BY <1>7, <1>8 DEF Covered
<1> QED
  BY <1>6, <1>9, <1>10 DEF BeginAt, Paid

\* The leader points the schedule at the run it has begun.
LEMMA BeginCronLink ==
    ASSUME HistoryInv, LockInv, NEW O \in [Schedules -> SUBSET Rows], BeginAt(O),
           NEW w \in Workers, CronLink(w)
    PROVE  BeginAt(O)'
<1> USE DEF jobVars, tableVars, leaderVars, localVars, trackVars, Goto
<1>0. TypeOK
  BY DEF HistoryInv
<1>n. PICK n : n = new[w]
  OBVIOUS
<1>s. PICK s : s = scheduleName[n]
  OBVIOUS
<1>1. /\ pc[w] = "cronLink" /\ pc'[w] = "cron"
      /\ lastJob' = [lastJob EXCEPT ![s] = n]
      /\ toSchedule'[w] = toSchedule[w] \ {s}
      /\ \A u \in Workers \ {w} : /\ pc'[u] = pc[u] /\ new'[u] = new[u]
                                  /\ toSchedule'[u] = toSchedule[u]
      /\ UNCHANGED <<lastId, status, attempt, scheduleName, cur>>
  BY <1>0, <1>n, <1>s DEF CronLink, TypeOK
<1>2. s \in toSchedule[w] /\ toSchedule[w] \subseteq Schedules
  BY <1>0, <1>1, <1>n, <1>s DEF BeginAt, CallInv, TypeOK
<1>3. Existing' = Existing /\ \A t : Begun(t)' = Begun(t)
  BY <1>1 DEF Existing, Begun, Live
<1>4. \A u \in Workers \ {w} : pc[u] \notin {"cron", "cronLink"}
  BY <1>1 DEF LockInv, InDuties
<1>5. Dead' = Dead
  BY <1>1 DEF Dead
<1>6. \A t \in toSchedule[w] : \A j \in Begun(t) \ O[t] : j = n
  BY <1>n, <1>1 DEF BeginAt, Covered
<1>7. \A t \in Schedules : \A j \in Begun(t) : j = n => t = s
  BY <1>s DEF Begun
<1>8. ASSUME NEW t \in Schedules, NEW j \in Begun(t)', j \notin O[t]
      PROVE  lastJob'[t] = j
  <2>1. j \in Begun(t)
    BY <1>3, <1>8
  <2>2. CASE t = s
    BY <1>0, <1>1, <1>2, <1>6, <1>8, <2>1, <2>2 DEF TypeOK
  <2>3. CASE t # s
    <3>1. lastJob[t] = j \/ j = n
      BY <1>n, <1>4, <1>8, <2>1 DEF BeginAt, Covered
    <3> QED
      BY <1>0, <1>1, <1>7, <2>1, <2>3, <3>1 DEF TypeOK
  <2> QED
    BY <2>2, <2>3
<1>9. ASSUME NEW u \in Workers, pc'[u] \in {"cron", "cronLink"}, NEW t \in toSchedule'[u],
             NEW j \in Begun(t)', j \notin O[t]
      PROVE  FALSE
  <2>1. u = w /\ t \in toSchedule[w] /\ t # s /\ t \in Schedules
    BY <1>1, <1>2, <1>4, <1>9
  <2>2. j = n
    BY <1>3, <1>6, <1>9, <2>1
  <2> QED
    BY <1>3, <1>7, <1>9, <2>1, <2>2
<1>10. CallInv'
  <2>1. \A u \in Workers : pc'[u] # "cronLink"
    BY <1>1, <1>4
  <2>2. \A u \in Workers : pc'[u] = "retrySchedule" =>
          cur'[u] \in Existing' /\ status'[cur'[u]] = "failed"
    BY <1>1, <1>3 DEF BeginAt, CallInv
  <2> QED
    BY <2>1, <2>2 DEF CallInv
<1>11. Covered(O)'
  BY <1>8, <1>9 DEF Covered
<1> QED
  BY <1>5, <1>10, <1>11 DEF BeginAt, Paid

\* Rows that move along their statuses begin no run.
LEMMA BegunShrinks ==
    ASSUME TypeOK, UNCHANGED <<lastId, scheduleName, attempt>>,
           \A j \in Rows : status'[j] \in {"scheduled", "available", "running"} =>
             status[j] \in {"scheduled", "available", "running"}
    PROVE  Existing' = Existing /\ \A s \in Schedules : Begun(s)' \subseteq Begun(s)
BY DEF Existing, Begun, Live

\* A row that is a retry or belongs to no schedule begins no run.
LEMMA InsertBeginsNone ==
    ASSUME HistoryInv, NEW st \in {"scheduled", "available"}, NEW att \in Nat, NEW org, NEW d,
           NEW t \in Schedules \cup {None}, InsertRow(st, att, org, d, t), att > 0 \/ t = None
    PROVE  /\ \A s \in Schedules : Begun(s)' \subseteq Begun(s)
           /\ Existing \subseteq Existing'
           /\ \A j \in Existing : scheduleName'[j] = scheduleName[j] /\ status'[j] = status[j]
<1>1. TypeOK /\ lastId + 1 \in Rows
  BY NewRow DEF HistoryInv, InsertRow
<1>2. /\ attempt'[lastId + 1] = att /\ scheduleName'[lastId + 1] = t
      /\ \A j \in Rows : j # lastId + 1 => /\ status'[j] = status[j]
                                           /\ scheduleName'[j] = scheduleName[j]
                                           /\ attempt'[j] = attempt[j]
  BY <1>1 DEF InsertRow, TypeOK
<1>3. \A s \in Schedules : Begun(s)' \subseteq Begun(s)
  <2>1. \A s \in Schedules : s # None
    BY NoneAssumption
  <2> QED
    BY <1>2, <2>1 DEF Begun, Live
<1> QED
  BY <1>3, InsertPending

\* Every statement of a worker keeps the invariant, with an orphan more if the
\* worker dies.
LEMMA BeginRun ==
    ASSUME HistoryInv, LockInv, NEW O \in [Schedules -> SUBSET Rows], BeginAt(O), [Next]_vars,
           NEW w \in Workers, Register(w) \/ Cancelled(w) \/ Crash(w) \/ Run(w)
    PROVE  \E P \in [Schedules -> SUBSET Rows] : BeginAt(P)'
<1> USE DEF jobVars, tableVars, leaderVars, localVars, trackVars, Goto
<1> DEFINE Goal == \E P \in [Schedules -> SUBSET Rows] : BeginAt(P)'
<1>0. TypeOK /\ Existing \subseteq Rows
  BY ExistingRows DEF HistoryInv
<1>f. \A j \in Existing : status[j] = "failed" => status'[j] = "failed"
  BY <1>0, FinalStep DEF Finished
\* A step that leaves the other workers and the pointers alone.
<1>1. ASSUME NEW l \in PCs \ {"cron", "cronLink", "dead"}, pc' = [pc EXCEPT ![w] = l],
             pc[w] \notin {"cronLink", "dead"}, UNCHANGED lastJob,
             \A u \in Workers \ {w} : UNCHANGED <<cur[u], new[u], toSchedule[u]>>,
             l = "retrySchedule" => cur'[w] \in Existing /\ status[cur'[w]] = "failed",
             Existing \subseteq Existing',
             \A j \in Existing : scheduleName'[j] = scheduleName[j],
             \A s \in Schedules : Begun(s)' \subseteq Begun(s)
      PROVE  Goal
  <2>1. pc'[w] = l /\ \A u \in Workers \ {w} : pc'[u] = pc[u]
    BY <1>0, <1>1 DEF TypeOK
  <2>2. \A u \in Workers :
          \/ UNCHANGED <<pc[u], cur[u], new[u], toSchedule[u]>>
          \/ /\ pc[u] \notin {"cronLink", "dead"}
             /\ pc'[u] \notin {"cron", "cronLink", "dead"}
             /\ pc'[u] = "retrySchedule" => cur'[u] \in Existing /\ status[cur'[u]] = "failed"
    BY <1>1, <2>1
  <2>3. BeginAt(O)'
    BY <1>0, <1>f, <1>1, <2>2, BeginQuiet
  <2> QED
    BY <2>3
\* A step that moves no row.
<1>2. ASSUME NEW l \in PCs \ {"cron", "cronLink", "dead", "retrySchedule"},
             pc' = [pc EXCEPT ![w] = l],
             pc[w] \notin {"cronLink", "dead"},
             UNCHANGED <<lastId, scheduleName, attempt, lastJob>>,
             \A j \in Rows : status'[j] \in {"scheduled", "available", "running"} =>
               status[j] \in {"scheduled", "available", "running"},
             \A u \in Workers \ {w} : UNCHANGED <<cur[u], new[u], toSchedule[u]>>
      PROVE  Goal
  BY <1>0, <1>1, <1>2, BegunShrinks
<1>3. ASSUME Die(w), pc[w] # "dead" PROVE Goal
  BY <1>3, BeginDie
\* A retry is inserted.
<1>4. ASSUME NEW j \in Retrying(w), NEW d \in BOOLEAN, InsertRetry(w, j, d),
             pc[w] \in {"retryInsert", "recover"}
      PROVE  Goal
  <2>1. j \in Existing /\ status[j] = "failed" /\ attempt[j] + 1 \in Nat /\ attempt[j] + 1 > 0
        /\ scheduleName[j] \in Schedules \cup {None}
    BY <1>0 DEF HistoryInv, TokenInv, TypeOK
  <2>2. /\ InsertRow("scheduled", attempt[j] + 1, origin[j], d, scheduleName[j])
        /\ pc' = [pc EXCEPT ![w] = "retrySchedule"]
        /\ cur' = [cur EXCEPT ![w] = j]
        /\ new' = [new EXCEPT ![w] = lastId + 1]
        /\ UNCHANGED <<lastJob, toSchedule>>
    BY <1>4, <2>1 DEF InsertRetry
  <2>3. /\ \A s \in Schedules : Begun(s)' \subseteq Begun(s)
        /\ Existing \subseteq Existing'
        /\ \A i \in Existing : scheduleName'[i] = scheduleName[i]
    BY <2>1, <2>2, InsertBeginsNone
  <2>4. cur'[w] = j /\ \A u \in Workers \ {w} : UNCHANGED <<cur[u], new[u], toSchedule[u]>>
    BY <1>0, <2>2 DEF TypeOK
  <2> QED
    BY <1>1, <1>4, <2>1, <2>2, <2>3, <2>4 DEF PCs
<1>5. CASE Register(w)
  BY <1>2, <1>5 DEF Register, PCs
<1>6. CASE Cancelled(w)
  BY <1>2, <1>6 DEF Cancelled, PCs
<1>7. CASE Crash(w)
  BY <1>3, <1>7 DEF Crash, Alive
<1>8. CASE Tick(w)
  <2>1. CASE Heartbeat(w)
    BY <1>2, <1>3, <2>1 DEF Heartbeat, PCs
  <2>2. CASE RemoveLeaseIfExpired(w)
    BY <1>2, <2>2 DEF RemoveLeaseIfExpired, PCs
  <2>3. CASE TryGetLeaderLease(w)
    BY <1>2, <2>3 DEF TryGetLeaderLease, PCs
  <2>4. ASSUME NEW j \in Rows, MarkAsCompleted(w, j) PROVE Goal
    <3>1. CASE status[j] = "running"
      <4>1. /\ status' = [status EXCEPT ![j] = "completed"] /\ pc[w] = "process"
            /\ UNCHANGED <<lastId, scheduleName, attempt, lastJob, pc, cur, new, toSchedule>>
        BY <2>4, <3>1 DEF MarkAsCompleted
      <4>2. \A i \in Rows : status'[i] \in {"completed", status[i]}
        BY <1>0, <4>1 DEF TypeOK
      <4>3. pc' = [pc EXCEPT ![w] = "process"]
        BY <1>0, <4>1 DEF TypeOK
      <4> QED
        BY <1>2, <4>1, <4>2, <4>3 DEF PCs
    <3>2. CASE status[j] # "running"
      BY <1>3, <2>4, <3>2 DEF MarkAsCompleted
    <3> QED
      BY <3>1, <3>2
  <2>5. ASSUME NEW j \in Rows, MarkAsFailed(w, j) PROVE Goal
    <3>1. CASE status[j] = "running"
      <4>1. /\ status' = [status EXCEPT ![j] = "failed"] /\ pc[w] = "process"
            /\ UNCHANGED <<lastId, scheduleName, attempt, lastJob, new, toSchedule>>
            /\ \/ /\ cur' = [cur EXCEPT ![w] = j]
                  /\ pc' = [pc EXCEPT ![w] = "retryInsert"]
               \/ UNCHANGED <<cur, pc>>
        BY <2>5, <3>1 DEF MarkAsFailed
      <4>2. \A i \in Rows : status'[i] \in {"failed", status[i]}
        BY <1>0, <4>1 DEF TypeOK
      <4>3. \A u \in Workers \ {w} : UNCHANGED <<cur[u], new[u], toSchedule[u]>>
        BY <1>0, <4>1 DEF TypeOK
      <4>4. \E l \in {"process", "retryInsert"} : pc' = [pc EXCEPT ![w] = l]
        BY <1>0, <4>1 DEF TypeOK
      <4> QED
        BY <1>2, <4>1, <4>2, <4>3, <4>4 DEF PCs
    <3>2. CASE status[j] # "running"
      BY <1>3, <2>5, <3>2 DEF MarkAsFailed
    <3> QED
      BY <3>1, <3>2
  <2>6. CASE RetryInsert(w)
    <3>1. cur[w] \in Retrying(w) /\ pc[w] = "retryInsert" /\ InsertRetry(w, cur[w], FALSE)
      BY <2>6 DEF RetryInsert, Retrying
    <3> QED
      BY <1>4, <3>1
  <2>7. CASE RetrySchedule(w)
    <3>1. /\ pc[w] = "retrySchedule" /\ pc' = [pc EXCEPT ![w] = "retryLink"]
          /\ \A s \in Schedules : lastJob'[s] = IF lastJob[s] = cur[w] THEN new[w] ELSE lastJob[s]
          /\ UNCHANGED <<lastId, status, attempt, scheduleName, cur, new, toSchedule>>
      BY <2>7 DEF RetrySchedule
    <3>2. Existing' = Existing /\ \A s \in Schedules : Begun(s)' = Begun(s)
      BY <3>1 DEF Existing, Begun, Live
    <3>3. \A s \in Schedules : \A j \in Begun(s) : j # cur[w]
      BY <3>1 DEF BeginAt, CallInv, Begun, Live
    <3>4. \A s \in Schedules : \A j \in Begun(s) : lastJob[s] = j => lastJob'[s] = j
      BY <3>1, <3>3
    <3>5. pc'[w] = "retryLink" /\ \A u \in Workers \ {w} : pc'[u] = pc[u]
      BY <1>0, <3>1 DEF TypeOK
    <3>6. BeginAt(O)'
      BY <1>0, <1>f, <3>1, <3>2, <3>4, <3>5, BeginQuiet
    <3> QED
      BY <3>6
  <2>8. CASE RetryLink(w)
    <3>1. /\ pc[w] = "retryLink"
          /\ UNCHANGED <<lastId, status, attempt, scheduleName, lastJob, toSchedule>>
          /\ \E l \in {"recover", "process"} : pc' = [pc EXCEPT ![w] = l]
          /\ cur' = [cur EXCEPT ![w] = None] /\ new' = [new EXCEPT ![w] = None]
      BY <2>8 DEF RetryLink
    <3>2. \A u \in Workers \ {w} : UNCHANGED <<cur[u], new[u], toSchedule[u]>>
      BY <1>0, <3>1 DEF TypeOK
    <3> QED
      BY <1>2, <3>1, <3>2 DEF PCs
  <2>9. CASE Reserve(w)
    <3>1. /\ pc[w] = "process" /\ \E l \in {"lock", "wait"} : pc' = [pc EXCEPT ![w] = l]
          /\ UNCHANGED <<lastId, scheduleName, attempt, lastJob, cur, new, toSchedule>>
      BY <2>9 DEF Reserve
    <3>2. \A i \in Rows : \/ status'[i] = status[i]
                          \/ status[i] = "available" /\ status'[i] = "running"
      BY <2>9 DEF Reserve, FirstAvailable, Available
    <3> QED
      BY <1>2, <3>1, <3>2 DEF PCs
  <2> QED
    BY <1>8, <2>1, <2>2, <2>3, <2>4, <2>5, <2>6, <2>7, <2>8, <2>9 DEF Tick
<1>9. CASE LeaderDuties(w)
  <2>1. CASE TryAdvisoryLock(w)
    BY <1>2, <2>1 DEF TryAdvisoryLock, PCs
  <2>2. CASE ShutdownDeadWorkers(w)
    BY <1>2, <2>2 DEF ShutdownDeadWorkers, PCs
  <2>3. CASE MarkAbandonedJobsAsFailed(w)
    <3>1. /\ pc[w] = "mark" /\ pc' = [pc EXCEPT ![w] = "recover"]
          /\ \A i \in Rows : status'[i] = IF i \in Abandoned THEN "failed" ELSE status[i]
          /\ UNCHANGED <<lastId, scheduleName, attempt, lastJob, cur, new, toSchedule>>
      BY <2>3 DEF MarkAbandonedJobsAsFailed
    <3> QED
      BY <1>2, <3>1 DEF PCs
  <2>4. ASSUME NEW j \in Rows, RecoverInsert(w, j) PROVE Goal
    <3>1. j \in Retrying(w) /\ pc[w] = "recover" /\ InsertRetry(w, j, TRUE)
      BY <2>4 DEF RecoverInsert, Retrying
    <3> QED
      BY <1>4, <3>1
  <2>5. CASE ListSchedules(w)
    BY <2>5, BeginList
  <2>6. ASSUME NEW s \in Schedules, CronInsert(w, s) PROVE Goal
    BY <2>6, BeginCronInsert
  <2>7. CASE CronLink(w)
    BY <2>7, BeginCronLink
  <2>8. CASE ScheduleAvailableJobs(w)
    <3>1. /\ pc[w] = "cron" /\ pc' = [pc EXCEPT ![w] = "unlock"]
          /\ UNCHANGED <<lastId, scheduleName, attempt, lastJob, cur, new, toSchedule>>
      BY <2>8 DEF ScheduleAvailableJobs
    <3>2. \A i \in Rows : \/ status'[i] = status[i]
                          \/ status[i] = "scheduled" /\ status'[i] = "available"
      BY <2>8 DEF ScheduleAvailableJobs
    <3> QED
      BY <1>2, <3>1, <3>2 DEF PCs
  <2>9. CASE Unlock(w)
    BY <1>2, <2>9 DEF Unlock, PCs
  <2> QED
    BY <1>9, <2>1, <2>2, <2>3, <2>4, <2>5, <2>6, <2>7, <2>8, <2>9 DEF LeaderDuties
<1>10. CASE Shutdown(w)
  <2>1. CASE Deregister(w)
    BY <1>2, <2>1 DEF Deregister, PCs
  <2>2. CASE StepDown(w)
    BY <1>2, <2>2 DEF StepDown, PCs
  <2> QED
    BY <1>10, <2>1, <2>2 DEF Shutdown
<1> QED
  BY <1>5, <1>6, <1>7, <1>8, <1>9, <1>10 DEF Run

\* Every step keeps the invariant.
LEMMA BeginStep == HistoryInv /\ LockInv /\ BeginInv /\ [Next]_vars => BeginInv'
<1> SUFFICES ASSUME HistoryInv, LockInv, [Next]_vars,
                    NEW O \in [Schedules -> SUBSET Rows], BeginAt(O)
             PROVE  \E P \in [Schedules -> SUBSET Rows] : BeginAt(P)'
  BY DEF BeginInv
<1> USE DEF jobVars, tableVars, leaderVars, localVars, trackVars
<1>0. TypeOK
  BY DEF HistoryInv
<1>1. ASSUME UNCHANGED <<lastId, status, attempt, scheduleName, lastJob, pc, cur, new, toSchedule>>
      PROVE  BeginAt(O)'
  <2>1. Existing' = Existing /\ \A s \in Schedules : Begun(s)' = Begun(s)
    BY <1>1 DEF Existing, Begun, Live
  <2> QED
    BY <1>0, <1>1, <2>1, BeginQuiet
<1>2. CASE Schedule \/ ScheduleLater
  <2>1. /\ \E st \in {"scheduled", "available"}, d \in BOOLEAN : InsertRow(st, 0, lastId + 1, d, None)
        /\ UNCHANGED <<pc, cur, new, toSchedule, lastJob>>
    BY <1>2 DEF Schedule, ScheduleLater
  <2>2. /\ \A s \in Schedules : Begun(s)' \subseteq Begun(s)
        /\ Existing \subseteq Existing'
        /\ \A j \in Existing : scheduleName'[j] = scheduleName[j] /\ status'[j] = status[j]
    BY <2>1, InsertBeginsNone
  <2>3. BeginAt(O)'
    BY <1>0, <2>1, <2>2, BeginQuiet
  <2> QED
    BY <2>3
<1>3. ASSUME NEW w \in Workers, Register(w) \/ Cancelled(w) \/ Crash(w) \/ Run(w)
      PROVE  \E P \in [Schedules -> SUBSET Rows] : BeginAt(P)'
  BY <1>3, BeginRun
<1>4. CASE LeaseExpires
  BY <1>1, <1>4 DEF LeaseExpires
<1>5. ASSUME NEW j \in Rows, FallDue(j) PROVE BeginAt(O)'
  BY <1>1, <1>5 DEF FallDue
<1>6. ASSUME NEW w \in Workers, ReleaseLock(w) \/ Age(w) PROVE BeginAt(O)'
  BY <1>1, <1>6 DEF ReleaseLock, Age
<1>7. ASSUME NEW w, NEW j, NEW r, TaskFinish(w, j, r) PROVE BeginAt(O)'
  BY <1>1, <1>7 DEF TaskFinish
<1>8. CASE UNCHANGED vars
  BY <1>1, <1>8 DEF vars
<1> QED
  BY <1>2, <1>3, <1>4, <1>5, <1>6, <1>7, <1>8 DEF Next

\* The invariant counts the first attempts: those that are no orphans are one.
LEMMA BeginCount ==
    ASSUME HistoryInv, LockInv, BeginInv, NEW s \in Schedules
    PROVE  Cardinality(Begun(s)) <= Cardinality(Dead) + 1
<1>0. TypeOK
  BY DEF HistoryInv
<1>1. PICK O \in [Schedules -> SUBSET Rows] : BeginAt(O)
  BY DEF BeginInv
<1>2. \E x : Begun(s) \subseteq O[s] \cup {x}
  <2>1. CASE \E w \in Workers : pc[w] = "cronLink" /\ scheduleName[new[w]] = s
    <3>1. PICK w \in Workers : pc[w] = "cronLink" /\ scheduleName[new[w]] = s
      BY <2>1
    <3>2. s \in toSchedule[w]
      BY <1>1, <3>1 DEF BeginAt, CallInv
    <3>3. Begun(s) \subseteq O[s] \cup {new[w]}
      BY <1>1, <3>1, <3>2 DEF BeginAt, Covered
    <3> QED
      BY <3>3
  <2>2. CASE ~\E w \in Workers : pc[w] = "cronLink" /\ scheduleName[new[w]] = s
    <3>1. Begun(s) \subseteq O[s] \cup {lastJob[s]}
      BY <1>1, <2>2 DEF BeginAt, Covered, Begun
    <3> QED
      BY <3>1
  <2> QED
    BY <2>1, <2>2
<1>3. PICK x : Begun(s) \subseteq O[s] \cup {x}
  BY <1>2
<1>4. IsFiniteSet(Rows)
  BY FS_Interval, MaxRowsNat DEF Rows
<1>5. IsFiniteSet(O[s])
  BY <1>4, FS_Subset
<1>6. /\ IsFiniteSet(O[s] \cup {x}) /\ Cardinality(O[s]) \in Nat
      /\ Cardinality(O[s] \cup {x}) <= Cardinality(O[s]) + 1
  BY <1>5, FS_AddElement, FS_CardinalityType
<1>7. IsFiniteSet(Begun(s)) /\ Cardinality(Begun(s)) <= Cardinality(O[s] \cup {x})
  BY <1>3, <1>6, FS_Subset
<1>8. Cardinality(Begun(s)) \in Nat /\ Cardinality(O[s] \cup {x}) \in Nat
  BY <1>6, <1>7, FS_CardinalityType
<1>9. Cardinality(Dead) \in Nat /\ Cardinality(O[s]) <= Cardinality(Dead)
  BY <1>1, FS_CardinalityType DEF BeginAt, Paid
<1> QED
  BY <1>6, <1>7, <1>8, <1>9

\* Initially there is neither a run nor a death.
LEMMA BeginInit == Init => BeginInv
<1> SUFFICES ASSUME Init PROVE BeginInv
  OBVIOUS
<1>1. PICK O : O = [s \in Schedules |-> {}]
  OBVIOUS
<1>2. O \in [Schedules -> SUBSET Rows] /\ Dead = {} /\ \A s : Begun(s) = {}
  BY <1>1 DEF Init, Dead, Begun, Live
<1>3. Covered(O) /\ CallInv
  BY <1>2 DEF Init, Covered, CallInv
<1>4. IsFiniteSet(Dead) /\ Paid(O)
  BY <1>1, <1>2, FS_EmptySet DEF Paid
<1> QED
  BY <1>2, <1>3, <1>4 DEF BeginInv, BeginAt

\* A schedule has one run in the queue, retries included, while a single worker
\* has run. Whatever workers run and wherever they die, its first attempts in
\* the queue are at most one more than the workers that died.
THEOREM OneRunPerScheduleHolds == Spec => []OneRunPerSchedule
<1>1. Init => SoloInv
  <2> SUFFICES ASSUME Init, NEW w \in Workers PROVE SoloAt(w)
    BY DEF SoloInv
  <2>1. Pending(w) = {} /\ pc[w] = "off"
    BY DEF Init, Pending, Existing
  <2> QED
    BY <2>1 DEF SoloAt, Single, Linked, Chosen
<1>2. Init => TypeOK /\ LockInv
  <2>1. Init => LockInv
    BY DEF Init, LockInv, InDuties
  <2> QED
    BY <2>1, TypeInit
<1>3. HistoryInv => TypeOK
  BY DEF HistoryInv
<1>4. Spec => [](HistoryInv /\ SoloInv /\ LockInv /\ BeginInv)
  BY <1>1, <1>2, <1>3, HistoryInit, BeginInit, HistoryStep, SoloStep, LockStep, BeginStep, PTL
     DEF Spec
<1>5. HistoryInv /\ SoloInv =>
        ((\E w \in Workers : Solo(w)) =>
           \A j, k \in Live :
             scheduleName[j] = scheduleName[k] /\ scheduleName[j] # None => j = k)
  <2> SUFFICES ASSUME HistoryInv, SoloInv, NEW w \in Workers, Solo(w),
                      NEW j \in Live, NEW k \in Live,
                      scheduleName[j] = scheduleName[k], scheduleName[j] # None
               PROVE  j = k
    OBVIOUS
  <2>1. j \in Existing /\ k \in Existing
    BY DEF Live, Existing, Rows, HistoryInv, RowsInv, TypeOK
  <2>2. j \in Pending(w) /\ k \in Pending(w)
    BY <2>1 DEF Pending, Live
  <2> QED
    BY <2>2 DEF SoloInv, SoloAt, Single
<1>6. HistoryInv /\ SoloInv /\ LockInv /\ BeginInv => OneRunPerSchedule
  BY <1>5, BeginCount DEF OneRunPerSchedule, Solo
<1> QED
  BY <1>4, <1>6, PTL
=============================================================================
