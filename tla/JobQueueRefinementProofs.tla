---------------------- MODULE JobQueueRefinementProofs ----------------------
(***************************************************************************)
(* The queue implements its contract: a proof of the refinement that       *)
(* JobQueueRefinement states, for any number of workers, schedules and     *)
(* rows. A step of the queue is one of three kinds. It moves rows along    *)
(* their statuses; it inserts a row that begins a job; or it inserts the   *)
(* next attempt of a row whose token (see JobQueueProofs) it gives up.     *)
(***************************************************************************)
EXTENDS JobQueueRefinement, JobQueueProofs, WellFoundedInduction

\* The status columns a statement may write in place.
StatusMoves ==
    {<<"scheduled", "available">>, <<"available", "running">>,
     <<"running", "completed">>, <<"running", "failed">>}

\* Rows move along their statuses and only a row that fails gives a token.
Moves ==
    /\ UNCHANGED <<lastId, attempt, origin>>
    /\ \A j \in Rows : status'[j] = status[j] \/ <<status[j], status'[j]>> \in StatusMoves
    /\ \A v \in Workers : \A j \in Retrying(v)' : j \in Retrying(v) \/ status[j] = "running"

\* A row is inserted; the others keep what the contract sees of them.
Inserts(att, org) ==
    /\ lastId' = lastId + 1
    /\ lastId + 1 \in Rows
    /\ status'[lastId + 1] \in {"scheduled", "available"}
    /\ attempt'[lastId + 1] = att /\ origin'[lastId + 1] = org
    /\ \A j \in Rows \ {lastId + 1} :
         status'[j] = status[j] /\ attempt'[j] = attempt[j] /\ origin'[j] = origin[j]

\* The row is the first attempt of a job.
Begins ==
    /\ Inserts(0, lastId + 1)
    /\ \A v \in Workers : Retrying(v)' = Retrying(v)

\* The row is the next attempt after j, and the token is used up.
Repeats(w, j) ==
    /\ j \in Retrying(w)
    /\ Inserts(attempt[j] + 1, origin[j])
    /\ \A v \in Workers : Retrying(v)' = IF v = w THEN Retrying(w) \ {j} ELSE Retrying(v)
-----------------------------------------------------------------------------
\* Every statement is a step of one of the three kinds.
LEMMA StepKinds ==
    ASSUME HistoryInv, [Next]_vars
    PROVE  Moves \/ Begins \/ \E w \in Workers : \E j \in Rows : Repeats(w, j)
<1>0. TypeOK /\ Existing \subseteq Rows
  BY ExistingRows DEF HistoryInv
<1> USE DEF jobVars, tableVars, leaderVars, localVars, trackVars, Goto
<1>a. ASSUME NEW st \in {"scheduled", "available"}, NEW att, NEW org, NEW d, NEW s,
             InsertRow(st, att, org, d, s)
      PROVE  Inserts(att, org)
  BY <1>0, <1>a, NewRow DEF InsertRow, Inserts, TypeOK
<1>1. ASSUME Schedule \/ ScheduleLater PROVE Begins
  <2>1. \A v \in Workers : Retrying(v)' = Retrying(v)
    BY <1>1 DEF Schedule, ScheduleLater, Retrying
  <2> QED
    BY <1>a, <1>1, <2>1 DEF Schedule, ScheduleLater, Begins
<1>2. ASSUME LeaseExpires \/ (\E j \in Rows : FallDue(j)) \/ UNCHANGED vars PROVE Moves
  BY <1>2 DEF LeaseExpires, FallDue, vars, Retrying, Moves
<1>3. ASSUME NEW w \in Workers, UNCHANGED <<lastId, attempt, origin, status, abandoned, cur>>,
             NEW l \in PCs \ {"retryInsert"}, pc' = [pc EXCEPT ![w] = l]
      PROVE  Moves
  <2>1. \A v \in Workers : Retrying(v)' \subseteq Retrying(v)
    BY <1>0, <1>3 DEF Retrying, TypeOK
  <2> QED
    BY <1>3, <2>1 DEF Moves
<1>4. ASSUME NEW w \in Workers, Die(w) PROVE Moves
  <2>1. \A v \in Workers : Retrying(v)' \subseteq Retrying(v)
    BY <1>0, <1>4 DEF Die, Retrying, TypeOK
  <2> QED
    BY <1>4, <2>1 DEF Die, Moves
<1>5. ASSUME NEW w \in Workers, Register(w) \/ Cancelled(w) \/ ReleaseLock(w) \/ Age(w) PROVE Moves
  <2>1. CASE Register(w)
    BY <1>3, <2>1 DEF Register, PCs
  <2>2. CASE Cancelled(w)
    BY <1>3, <2>2 DEF Cancelled, PCs
  <2>3. CASE ReleaseLock(w) \/ Age(w)
    BY <2>3 DEF ReleaseLock, Age, Moves, Retrying
  <2> QED
    BY <1>5, <2>1, <2>2, <2>3
<1>6. ASSUME NEW w \in Workers, NEW j \in Rows, NEW r, TaskFinish(w, j, r) PROVE Moves
  BY <1>6 DEF TaskFinish, Moves, Retrying
<1>7. ASSUME NEW w \in Workers, NEW j \in Retrying(w), NEW d \in BOOLEAN, InsertRetry(w, j, d),
             pc[w] = "retryInsert" => j = cur[w]
      PROVE  j \in Rows /\ Repeats(w, j)
  <2>1. status[j] = "failed" /\ j \in Rows
    BY <1>0 DEF HistoryInv, TokenInv
  <2>2. /\ InsertRow("scheduled", attempt[j] + 1, origin[j], d, scheduleName[j])
        /\ pc' = [pc EXCEPT ![w] = "retrySchedule"]
        /\ cur' = [cur EXCEPT ![w] = j]
        /\ abandoned' = [abandoned EXCEPT ![w] = abandoned[w] \ {j}]
    BY <1>7, <2>1 DEF InsertRetry
  <2>3. /\ Retrying(w)' = abandoned[w] \ {j}
        /\ \A v \in Workers \ {w} : Retrying(v)' = Retrying(v)
    BY <1>0, <2>2 DEF Retrying, TypeOK
  <2>4. Retrying(w) \ {j} = abandoned[w] \ {j}
    BY <1>7 DEF Retrying
  <2> QED
    BY <1>a, <2>1, <2>2, <2>3, <2>4 DEF Repeats
<1>8. ASSUME NEW w \in Workers, Tick(w) PROVE Moves \/ \E j \in Rows : Repeats(w, j)
  <2>1. CASE Heartbeat(w)
    <3>1. CASE w \in shutdownAt
      BY <1>4, <2>1, <3>1 DEF Heartbeat
    <3>2. CASE w \notin shutdownAt
      BY <1>3, <2>1, <3>2 DEF Heartbeat, PCs
    <3> QED
      BY <3>1, <3>2
  <2>2. CASE RemoveLeaseIfExpired(w)
    BY <1>3, <2>2 DEF RemoveLeaseIfExpired, PCs
  <2>3. CASE TryGetLeaderLease(w)
    BY <1>3, <2>3 DEF TryGetLeaderLease, PCs
  <2>4. ASSUME NEW j \in Rows, MarkAsCompleted(w, j) PROVE Moves
    <3>1. CASE status[j] = "running"
      BY <1>0, <2>4, <3>1 DEF MarkAsCompleted, Moves, StatusMoves, Retrying, TypeOK
    <3>2. CASE status[j] # "running"
      BY <1>4, <2>4, <3>2 DEF MarkAsCompleted
    <3> QED
      BY <3>1, <3>2
  <2>5. ASSUME NEW j \in Rows, MarkAsFailed(w, j) PROVE Moves
    <3>1. CASE status[j] = "running"
      <4>1. /\ status' = [status EXCEPT ![j] = "failed"]
            /\ UNCHANGED <<lastId, attempt, origin, abandoned>>
            /\ \/ /\ cur' = [cur EXCEPT ![w] = j]
                  /\ pc' = [pc EXCEPT ![w] = "retryInsert"]
               \/ UNCHANGED <<cur, pc>>
        BY <2>5, <3>1 DEF MarkAsFailed
      <4>2. \A v \in Workers : \A i \in Retrying(v)' : i \in Retrying(v) \/ i = j
        BY <1>0, <4>1 DEF Retrying, TypeOK
      <4> QED
        BY <1>0, <3>1, <4>1, <4>2 DEF Moves, StatusMoves, TypeOK
    <3>2. CASE status[j] # "running"
      BY <1>4, <2>5, <3>2 DEF MarkAsFailed
    <3> QED
      BY <3>1, <3>2
  <2>6. CASE RetryInsert(w)
    BY <1>7, <2>6 DEF RetryInsert, Retrying
  <2>7. CASE RetrySchedule(w)
    BY <1>3, <2>7 DEF RetrySchedule, PCs
  <2>8. CASE RetryLink(w)
    <3>1. \A v \in Workers : Retrying(v)' \subseteq Retrying(v)
      BY <1>0, <2>8 DEF RetryLink, Retrying, TypeOK
    <3> QED
      BY <2>8, <3>1 DEF RetryLink, Moves
  <2>9. CASE Reserve(w)
    <3>1. \A v \in Workers : Retrying(v)' \subseteq Retrying(v)
      BY <1>0, <2>9 DEF Reserve, Retrying, TypeOK
    <3>2. \A i \in Rows : status'[i] = status[i] \/ <<status[i], status'[i]>> \in StatusMoves
      BY <2>9 DEF Reserve, FirstAvailable, Available, StatusMoves
    <3>3. UNCHANGED <<lastId, attempt, origin>>
      BY <2>9 DEF Reserve
    <3> QED
      BY <3>1, <3>2, <3>3 DEF Moves
  <2> QED
    BY <1>8, <2>1, <2>2, <2>3, <2>4, <2>5, <2>6, <2>7, <2>8, <2>9 DEF Tick
<1>9. ASSUME NEW w \in Workers, LeaderDuties(w)
      PROVE  Moves \/ Begins \/ \E j \in Rows : Repeats(w, j)
  <2>1. CASE TryAdvisoryLock(w)
    BY <1>3, <2>1 DEF TryAdvisoryLock, PCs
  <2>2. CASE ShutdownDeadWorkers(w)
    BY <1>3, <2>2 DEF ShutdownDeadWorkers, PCs
  <2>3. CASE ListSchedules(w)
    BY <1>3, <2>3 DEF ListSchedules, PCs
  <2>4. CASE CronLink(w)
    BY <1>3, <2>4 DEF CronLink, PCs
  <2>5. CASE Unlock(w)
    BY <1>3, <2>5 DEF Unlock, PCs
  <2>6. CASE MarkAbandonedJobsAsFailed(w)
    <3>1. /\ \A i \in Rows : status'[i] = IF i \in Abandoned THEN "failed" ELSE status[i]
          /\ UNCHANGED <<lastId, attempt, origin, cur>>
          /\ pc' = [pc EXCEPT ![w] = "recover"]
          /\ abandoned' = [abandoned EXCEPT ![w] = {i \in Abandoned : attempt[i] < MaxAttempts}]
      BY <2>6 DEF MarkAbandonedJobsAsFailed
    <3>2. \A i \in Abandoned : status[i] = "running"
      BY DEF Abandoned
    <3>3. /\ \A i \in Retrying(w)' : i \in Abandoned
          /\ \A v \in Workers \ {w} : Retrying(v)' \subseteq Retrying(v)
      BY <1>0, <3>1 DEF Retrying, TypeOK
    <3> QED
      BY <3>1, <3>2, <3>3 DEF Moves, StatusMoves
  <2>7. ASSUME NEW j \in Rows, RecoverInsert(w, j) PROVE Repeats(w, j)
    <3>1. j \in Retrying(w) /\ pc[w] # "retryInsert"
      BY <2>7 DEF RecoverInsert, Retrying
    <3> QED
      BY <1>7, <2>7, <3>1 DEF RecoverInsert
  <2>8. ASSUME NEW s \in Schedules, CronInsert(w, s) PROVE Begins
    <3>1. \A v \in Workers : Retrying(v)' = Retrying(v)
      BY <1>0, <2>8 DEF CronInsert, Retrying, TypeOK
    <3> QED
      BY <1>a, <2>8, <3>1 DEF CronInsert, Begins
  <2>9. CASE ScheduleAvailableJobs(w)
    <3>1. \A v \in Workers : Retrying(v)' \subseteq Retrying(v)
      BY <1>0, <2>9 DEF ScheduleAvailableJobs, Retrying, TypeOK
    <3>2. \A i \in Rows : status'[i] = status[i] \/ <<status[i], status'[i]>> \in StatusMoves
      BY <2>9 DEF ScheduleAvailableJobs, StatusMoves
    <3>3. UNCHANGED <<lastId, attempt, origin>>
      BY <2>9 DEF ScheduleAvailableJobs
    <3> QED
      BY <3>1, <3>2, <3>3 DEF Moves
  <2> QED
    BY <1>9, <2>1, <2>2, <2>3, <2>4, <2>5, <2>6, <2>7, <2>8, <2>9 DEF LeaderDuties
<1>10. ASSUME NEW w \in Workers, Shutdown(w) PROVE Moves
  <2>1. CASE Deregister(w)
    BY <1>3, <2>1 DEF Deregister, PCs
  <2>2. CASE StepDown(w)
    BY <1>3, <2>2 DEF StepDown, PCs
  <2> QED
    BY <1>10, <2>1, <2>2 DEF Shutdown
<1> QED
  BY <1>1, <1>2, <1>4, <1>5, <1>6, <1>8, <1>9, <1>10 DEF Next, Run, Crash

-----------------------------------------------------------------------------
\* What the contract sees of the latest attempt j of a job.
PhaseAt(j) ==
    IF status[j] \in {"scheduled", "available"} THEN "waiting"
    ELSE IF status[j] = "running" THEN "running"
    ELSE IF status[j] = "completed" THEN "succeeded"
    ELSE IF \E w \in Workers : j \in Retrying(w) THEN "retrying" ELSE "failed"

Sees(r, j) ==
    /\ j \in Existing /\ origin[j] = r /\ IsLatest(j)
    /\ PhaseOf(r) = PhaseAt(j) /\ TriesOf(r) = attempt[j]

\* A set of numbers that is not empty has a least element.
LEMMA LeastNumber ==
    ASSUME NEW T \in SUBSET Nat, T # {}
    PROVE  \E m \in T : \A x \in T : m <= x
<1> DEFINE R == OpToRel(<, Nat)
<1>1. IsWellFoundedOn(R, Nat)
  BY NatLessThanWellFounded
<1>2. \A x, y \in Nat : <<x, y>> \in R <=> x < y
  BY DEF OpToRel
<1> HIDE DEF R
<1>3. PICK m \in T : \A x \in T : ~(<<x, m>> \in R)
  BY <1>1, WFMin
<1>4. ASSUME NEW x \in T
      PROVE  m <= x
  <2>1. x \in Nat /\ m \in Nat /\ ~(<<x, m>> \in R)
    BY <1>3
  <2>2. ~(x < m)
    BY <1>2, <2>1, Zenon
  <2> QED
    BY <2>1, <2>2
<1> QED
  BY <1>4

\* A job that was enqueued has a latest attempt: the attempts are numbered, no
\* number is beyond the limit and no two attempts have the same.
LEMMA LatestExists ==
    ASSUME HistoryInv, NEW r, Chain(r) # {}
    PROVE  \E j \in Chain(r) : IsLatest(j)
<1>0. /\ Existing \subseteq Rows /\ MaxAttempts \in Nat
      /\ \A j \in Existing : attempt[j] \in Nat /\ attempt[j] <= MaxAttempts
  BY ExistingRows, SizeAssumption DEF HistoryInv, TypeOK, AttemptHistory
<1> DEFINE T == {MaxAttempts - attempt[j] : j \in Chain(r)}
<1>1. T \in SUBSET Nat /\ T # {}
  BY <1>0 DEF Chain
<1>2. PICK m \in T : \A x \in T : m <= x
  BY <1>1, LeastNumber
<1>3. PICK j \in Chain(r) : m = MaxAttempts - attempt[j]
  BY <1>2
<1>4. ASSUME NEW k \in Chain(r)
      PROVE  attempt[k] <= attempt[j]
  <2>1. MaxAttempts - attempt[k] \in T
    OBVIOUS
  <2>2. MaxAttempts - attempt[j] <= MaxAttempts - attempt[k]
    BY <1>2, <1>3, <2>1
  <2> QED
    BY <1>0, <2>2 DEF Chain
<1>5. ASSUME NEW k \in Existing, k # j, origin[k] = origin[j]
      PROVE  attempt[k] < attempt[j]
  <2>1. k \in Chain(r) /\ j \in Existing
    BY <1>5 DEF Chain
  <2> QED
    BY <1>0, <1>4, <1>5, <2>1 DEF HistoryInv, AttemptHistory
<1> QED
  BY <1>5 DEF IsLatest

\* The latest attempt decides what the contract sees of its job.
LEMMA SeesLatest ==
    HistoryInv => \A j \in Existing : IsLatest(j) => Sees(origin[j], j)
<1> SUFFICES ASSUME HistoryInv, NEW j \in Existing, IsLatest(j) PROVE Sees(origin[j], j)
  OBVIOUS
<1> DEFINE r == origin[j]
<1>0. \A k \in Existing : attempt[k] \in Nat
  BY ExistingRows DEF HistoryInv, TypeOK
<1>1. j \in Chain(r) /\ \A k \in Chain(r) : k \in Existing /\ (k # j => attempt[k] < attempt[j])
  BY DEF Chain, IsLatest
<1>2. \A k \in Chain(r) : attempt[k] <= attempt[j]
  BY <1>0, <1>1
<1>3. Latest(r) \in Chain(r) /\ \A k \in Chain(r) : attempt[k] <= attempt[Latest(r)]
  BY <1>1, <1>2 DEF Latest
<1>4. Latest(r) = j
  BY <1>0, <1>1, <1>3
<1> QED
  BY <1>1, <1>4 DEF Sees, PhaseOf, TriesOf, PhaseAt

\* The same after a step.
LEMMA SeesLatestNext ==
    HistoryInv' => (\A j \in Existing : IsLatest(j) => Sees(origin[j], j))'
BY SeesLatest, PTL

\* A job is absent, or its latest attempt says how it is.
LEMMA SeesSomething ==
    ASSUME HistoryInv, NEW r
    PROVE  \/ Chain(r) = {} /\ PhaseOf(r) = "absent" /\ TriesOf(r) = 0
           \/ \E j \in Rows : Sees(r, j)
<1>1. CASE Chain(r) = {}
  BY <1>1 DEF PhaseOf, TriesOf
<1>2. CASE Chain(r) # {}
  BY <1>2, LatestExists, SeesLatest, ExistingRows DEF Chain, HistoryInv
<1> QED
  BY <1>1, <1>2

\* One job's part of a step of the contract, on what the queue shows of it.
LifeStep(r) ==
    \/ PhaseOf(r)' = PhaseOf(r) /\ TriesOf(r)' = TriesOf(r)
    \/ PhaseOf(r) = "absent" /\ PhaseOf(r)' = "waiting" /\ TriesOf(r)' = 0
    \/ PhaseOf(r) = "retrying" /\ PhaseOf(r)' = "waiting" /\ TriesOf(r)' = TriesOf(r) + 1
    \/ /\ TriesOf(r)' = TriesOf(r)
       /\ \/ PhaseOf(r) = "waiting" /\ PhaseOf(r)' = "running"
          \/ PhaseOf(r) = "running" /\ PhaseOf(r)' \in {"succeeded", "failed"}
          \/ PhaseOf(r) = "running" /\ PhaseOf(r)' = "retrying" /\ TriesOf(r) < MaxAttempts
          \/ PhaseOf(r) = "retrying" /\ PhaseOf(r)' = "failed"

\* Rows that move along their statuses move their jobs along their lives.
LEMMA MovesLife ==
    ASSUME HistoryInv, HistoryInv', Moves, NEW r \in Rows
    PROVE  LifeStep(r)
<1>0. Existing' = Existing /\ Existing \subseteq Rows
  BY ExistingRows DEF Moves, Existing, HistoryInv
<1>1. CASE Chain(r) = {} /\ PhaseOf(r) = "absent" /\ TriesOf(r) = 0
  <2>1. Chain(r)' = {}
    BY <1>0, <1>1 DEF Chain, Moves
  <2> QED
    BY <1>1, <2>1 DEF PhaseOf, TriesOf, LifeStep
<1>2. ASSUME NEW j \in Rows, Sees(r, j) PROVE LifeStep(r)
  <2>1. IsLatest(j)' /\ origin'[j] = r /\ j \in Existing'
    BY <1>0, <1>2 DEF Sees, IsLatest, Moves
  <2>2. Sees(r, j)'
    BY <2>1, SeesLatestNext
  <2>3. /\ PhaseOf(r) = PhaseAt(j) /\ PhaseOf(r)' = PhaseAt(j)'
        /\ TriesOf(r) = attempt[j] /\ TriesOf(r)' = attempt[j]
    BY <1>2, <2>2 DEF Sees, Moves
  <2>4. \A w \in Workers : j \in Retrying(w)' => attempt[j] < MaxAttempts
    BY DEF HistoryInv, TokenInv, Moves
  <2>5. CASE status'[j] = status[j]
    <3>1. \A w \in Workers : j \in Retrying(w)' => j \in Retrying(w) \/ status[j] = "running"
      BY DEF Moves
    <3> QED
      BY <2>3, <2>5, <3>1 DEF PhaseAt, LifeStep
  <2>6. CASE <<status[j], status'[j]>> \in StatusMoves
    BY <2>3, <2>4, <2>6 DEF PhaseAt, LifeStep, StatusMoves
  <2> QED
    BY <2>5, <2>6 DEF Moves
<1> QED
  BY <1>1, <1>2, SeesSomething

\* The facts about an insert that the two kinds share.
LEMMA InsertFacts ==
    ASSUME HistoryInv, NEW att, NEW org, Inserts(att, org)
    PROVE  /\ Existing' = Existing \cup {lastId + 1} /\ Existing \subseteq Rows \ {lastId + 1}
           /\ \A j \in Existing : origin[j] # lastId + 1
<1>1. lastId \in Nat /\ lastId + 1 \in Rows /\ lastId' = lastId + 1 /\ Existing \subseteq Rows
  BY ExistingRows, MaxRowsNat DEF HistoryInv, TypeOK, Inserts
<1>2. \A j \in Existing : origin[j] \in 1 .. j /\ j \in 1 .. lastId
  BY <1>1 DEF HistoryInv, RowsInv, Existing, Rows
<1> QED
  BY <1>1, <1>2 DEF Existing

\* An insert leaves every other job as it is, if the tokens of its rows stay.
LEMMA OtherJobs ==
    ASSUME HistoryInv, HistoryInv', NEW att, NEW org, Inserts(att, org),
           NEW r \in Rows, r # org,
           \A j \in Existing : origin[j] = r =>
             \A v \in Workers : j \in Retrying(v)' <=> j \in Retrying(v)
    PROVE  LifeStep(r)
<1>0. Existing' = Existing \cup {lastId + 1} /\ Existing \subseteq Rows \ {lastId + 1}
  BY InsertFacts
<1>1. CASE Chain(r) = {} /\ PhaseOf(r) = "absent" /\ TriesOf(r) = 0
  <2>1. Chain(r)' = {}
    BY <1>0, <1>1 DEF Chain, Inserts
  <2> QED
    BY <1>1, <2>1 DEF PhaseOf, TriesOf, LifeStep
<1>2. ASSUME NEW j \in Rows, Sees(r, j) PROVE LifeStep(r)
  <2>0. j \in Existing /\ j # lastId + 1 /\ origin[j] = r
    BY <1>0, <1>2 DEF Sees
  <2>1. IsLatest(j)' /\ origin'[j] = r /\ j \in Existing'
    BY <1>0, <1>2, <2>0 DEF Sees, IsLatest, Inserts
  <2>2. Sees(r, j)'
    BY <2>1, SeesLatestNext
  <2>3. PhaseAt(j)' = PhaseAt(j) /\ attempt'[j] = attempt[j]
    BY <2>0 DEF PhaseAt, Inserts
  <2> QED
    BY <1>2, <2>2, <2>3 DEF Sees, LifeStep
<1> QED
  BY <1>1, <1>2, SeesSomething

\* A row that begins a job enqueues it.
LEMMA BeginsLife ==
    ASSUME HistoryInv, HistoryInv', Begins, NEW r \in Rows
    PROVE  LifeStep(r)
<1>n. PICK n : n = lastId + 1
  OBVIOUS
<1>0. /\ Inserts(0, n) /\ n \in Rows
      /\ Existing' = Existing \cup {n} /\ Existing \subseteq Rows \ {n}
      /\ \A j \in Existing : origin[j] # n
  BY <1>n, InsertFacts DEF Begins, Inserts
<1>1. CASE r = n
  <2>1. Chain(r) = {} /\ PhaseOf(r) = "absent"
    BY <1>0, <1>1 DEF Chain, PhaseOf
  <2>2. n \in Existing' /\ IsLatest(n)' /\ origin'[n] = r
    BY <1>n, <1>0, <1>1 DEF IsLatest, Inserts
  <2>3. Sees(r, n)'
    BY <2>2, SeesLatestNext
  <2>4. PhaseAt(n)' = "waiting" /\ attempt'[n] = 0
    BY <1>n, <1>0 DEF PhaseAt, Inserts
  <2> QED
    BY <2>1, <2>3, <2>4 DEF Sees, LifeStep
<1>2. CASE r # n
  BY <1>n, <1>0, <1>2, OtherJobs DEF Begins
<1> QED
  BY <1>1, <1>2

\* A retry takes its job from between two attempts to the next one.
LEMMA RepeatsLife ==
    ASSUME HistoryInv, HistoryInv', NEW w \in Workers, NEW j \in Rows, Repeats(w, j),
           NEW r \in Rows
    PROVE  LifeStep(r)
<1>n. PICK n : n = lastId + 1
  OBVIOUS
<1>0. /\ Inserts(attempt[j] + 1, origin[j]) /\ n \in Rows /\ j \in Retrying(w)
      /\ Existing' = Existing \cup {n} /\ Existing \subseteq Rows \ {n}
  BY <1>n, InsertFacts DEF Repeats, Inserts
<1>1. j \in Existing /\ status[j] = "failed" /\ IsLatest(j) /\ attempt[j] \in Nat
  BY <1>0 DEF HistoryInv, TokenInv, TypeOK
<1>2. CASE r = origin[j]
  <2>1. Sees(r, j) /\ PhaseAt(j) = "retrying"
    BY <1>0, <1>1, <1>2, SeesLatest DEF PhaseAt
  <2>2. n \in Existing' /\ IsLatest(n)' /\ origin'[n] = r
    <3>1. ASSUME NEW k \in Existing', k # n, origin'[k] = origin'[n]
          PROVE  attempt'[k] < attempt'[n]
      <4>1. k \in Existing /\ k \in Rows \ {n} /\ origin[k] = origin[j]
        <5>1. k \in Existing /\ k \in Rows \ {n}
          BY <1>0, <3>1
        <5>2. origin'[k] = origin[k] /\ origin'[n] = origin[j]
          BY <1>n, <1>0, <5>1 DEF Inserts
        <5> QED
          BY <3>1, <5>1, <5>2
      <4>2. attempt[k] \in Nat /\ attempt[k] <= attempt[j]
        <5>1. attempt[k] \in Nat
          BY <4>1 DEF HistoryInv, TypeOK
        <5>2. k # j => attempt[k] < attempt[j]
          BY <1>1, <4>1 DEF IsLatest
        <5> QED
          BY <1>1, <5>1, <5>2
      <4> QED
        BY <1>n, <1>0, <1>1, <4>1, <4>2 DEF Inserts
    <3> QED
      BY <1>n, <1>0, <1>2, <3>1 DEF IsLatest, Inserts
  <2>3. Sees(r, n)'
    BY <2>2, SeesLatestNext
  <2>4. PhaseAt(n)' = "waiting" /\ attempt'[n] = attempt[j] + 1
    BY <1>n, <1>0 DEF PhaseAt, Inserts
  <2> QED
    BY <2>1, <2>3, <2>4 DEF Sees, LifeStep
<1>3. CASE r # origin[j]
  BY <1>n, <1>0, <1>3, OtherJobs DEF Repeats
<1> QED
  BY <1>2, <1>3

\* Every step of the queue is a step of the contract.
LEMMA ContractStep ==
    HistoryInv /\ HistoryInv' /\ [Next]_vars =>
      [Contract!ContractNext]_<<[r \in Rows |-> PhaseOf(r)], [r \in Rows |-> TriesOf(r)]>>
<1> SUFFICES ASSUME HistoryInv, HistoryInv', [Next]_vars PROVE Contract!ContractNext
  OBVIOUS
<1>1. \A r \in Rows : LifeStep(r)
  BY StepKinds, MovesLife, BeginsLife, RepeatsLife
<1>2. \A r \in Rows : /\ [i \in Rows |-> PhaseOf(i)][r] = PhaseOf(r)
                      /\ ([i \in Rows |-> PhaseOf(i)])'[r] = PhaseOf(r)'
                      /\ [i \in Rows |-> TriesOf(i)][r] = TriesOf(r)
                      /\ ([i \in Rows |-> TriesOf(i)])'[r] = TriesOf(r)'
  OBVIOUS
<1> QED
  BY <1>1, <1>2 DEF LifeStep, Contract!ContractNext, Contract!Stay, Contract!Enqueue, Contract!Start,
        Contract!Succeed, Contract!Fail, Contract!PlanRetry, Contract!Retry, Contract!LoseRetry

\* Nothing is enqueued at first.
LEMMA ContractStarts == Init => Contract!ContractInit
<1> SUFFICES ASSUME Init PROVE Contract!ContractInit
  OBVIOUS
<1>1. \A r \in Rows : Chain(r) = {}
  BY DEF Init, Chain, Existing
<1>2. \A r \in Rows : PhaseOf(r) = "absent" /\ TriesOf(r) = 0
  BY <1>1 DEF PhaseOf, TriesOf
<1> QED
  BY <1>2 DEF Contract!ContractInit

\* The queue implements the contract.
THEOREM ContractHolds == Spec => ImplementsContract
<1>1. Spec => []HistoryInv
  BY HistoryInit, HistoryStep, PTL DEF Spec
<1> QED
  BY <1>1, ContractStarts, ContractStep, PTL DEF Spec, ImplementsContract, Contract!ContractSpec
=============================================================================
