------------------------------ MODULE JobQueue ------------------------------
(***************************************************************************)
(* The PostgreSQL job queue: the queue_jobs, queue_workers, queue_leader   *)
(* and queue_schedules tables, the statements of                           *)
(* crates/data/src/pg/queue/ that change them, and the worker loop of      *)
(* crates/tasks/src/new_queue/ that issues the statements.                 *)
(*                                                                         *)
(* The runtime wraps a bare pooled connection (PgRepository::new(conn)) and *)
(* never opens a transaction, so every SQL statement commits by itself.    *)
(* One action is therefore one statement together with the local code up   *)
(* to the next one, and a worker may die between any two of them.          *)
(*                                                                         *)
(* Time is abstracted to what the code compares: whether a row's           *)
(* scheduled_at has passed (due), whether last_seen_at is younger than the *)
(* one minute heartbeat period, older than it, or older than the two       *)
(* minute eviction threshold (seen), and whether the lease has expired.    *)
(***************************************************************************)
EXTENDS Naturals, FiniteSets

CONSTANTS
    Workers,        \* worker ids; a restarted process registers a new one
    Schedules,      \* names of the cron schedules every worker defines
    MaxRequests,    \* bound: jobs ever enqueued by request handlers
    MaxRuns,        \* bound: runs of cron schedules ever enqueued
    MaxAttempts,    \* MAX_ATTEMPTS
    MaxConcurrent,  \* MAX_CONCURRENT_JOBS
    MaxFetch,       \* MAX_JOBS_TO_FETCH
    Timely,         \* a looping worker never lets two minutes pass by
    None            \* SQL NULL / Option::None

\* Bound: every attempt of every enqueued job fits in the table.
MaxRows == (MaxRequests + MaxRuns) * (MaxAttempts + 1)
Rows == 1 .. MaxRows

ASSUME SizeAssumption ==
    /\ MaxRequests \in Nat
    /\ MaxRuns \in Nat
    /\ MaxAttempts \in Nat
    /\ MaxConcurrent \in Nat \ {0}
    /\ MaxFetch \in Nat \ {0}
    /\ Timely \in BOOLEAN

ASSUME NoneAssumption == None \notin Workers \cup Rows \cup Schedules

VARIABLES
    \* queue_jobs, one function per column; rows 1 .. lastId exist
    lastId,
    status, attempt, startedBy, nextAttempt, scheduleName, due,
    origin,         \* the payload: the row the chain of attempts began with
    \* queue_schedules.last_scheduled_job_id
    lastJob,
    \* queue_workers: shutdown_at IS NOT NULL, age of last_seen_at
    shutdownAt, seen,
    \* queue_leader: the holder of the single row, and expires_at >= NOW()
    lease, leaseFresh,
    \* session holding pg_try_advisory_lock("leader-duties")
    dutyLock,
    \* each worker: control point, handler it runs, local variables
    pc, ctx, cur, new, abandoned, toSchedule, amILeader,
    \* JobTracker: JoinSet and unrecorded results, and each task's result
    tracked, result

jobVars == <<lastId, status, attempt, startedBy, nextAttempt, scheduleName,
             due, origin>>
tableVars == <<lastJob, shutdownAt, seen>>
leaderVars == <<lease, leaseFresh, dutyLock>>
localVars == <<ctx, cur, new, abandoned, toSchedule, amILeader>>
trackVars == <<tracked, result>>
vars == <<jobVars, tableVars, leaderVars, pc, localVars, trackVars>>

Statuses == {"none", "scheduled", "available", "running", "completed", "failed"}
\* Where a worker is between two statements. "process" is process_jobs, both of
\* a tick and of a drain; the three "retry" points are inside retry.
PCs == {"off", "wait", "expire", "elect", "process", "retryInsert",
        "retrySchedule", "retryLink", "lock", "evict", "mark", "recover",
        "cron", "cronLink", "unlock", "stepdown", "stopped", "dead"}

Existing == 1 .. lastId
Finished == {"completed", "failed"}
Live == {j \in Rows : status[j] \in {"scheduled", "available", "running"}}
Alive == {w \in Workers : pc[w] \notin {"off", "stopped", "dead"}}
-----------------------------------------------------------------------------
Init ==
    /\ lastId = 0
    /\ status = [j \in Rows |-> "none"]
    /\ attempt = [j \in Rows |-> 0]
    /\ startedBy = [j \in Rows |-> None]
    /\ nextAttempt = [j \in Rows |-> None]
    /\ scheduleName = [j \in Rows |-> None]
    /\ due = [j \in Rows |-> FALSE]
    /\ origin = [j \in Rows |-> None]
    /\ lastJob = [s \in Schedules |-> None]
    /\ shutdownAt = {}
    /\ seen = [w \in Workers |-> "fresh"]
    /\ lease = None
    /\ leaseFresh = FALSE
    /\ dutyLock = None
    /\ pc = [w \in Workers |-> "off"]
    /\ ctx = [w \in Workers |-> "tick"]
    /\ cur = [w \in Workers |-> None]
    /\ new = [w \in Workers |-> None]
    /\ abandoned = [w \in Workers |-> {}]
    /\ toSchedule = [w \in Workers |-> {}]
    /\ amILeader = [w \in Workers |-> FALSE]
    /\ tracked = [w \in Workers |-> {}]
    /\ result = [j \in Rows |-> "none"]
-----------------------------------------------------------------------------
(***************************************************************************)
(* Statements that insert rows.                                            *)
(***************************************************************************)
Goto(w, label) == pc' = [pc EXCEPT ![w] = label]

\* INSERT INTO queue_jobs: a new id and the columns every insert sets.
InsertRow(st, att, org, isDue, sched) ==
    LET n == lastId + 1 IN
    /\ lastId < MaxRows
    /\ lastId' = n
    /\ status' = [status EXCEPT ![n] = st]
    /\ attempt' = [attempt EXCEPT ![n] = att]
    /\ origin' = [origin EXCEPT ![n] = org]
    /\ due' = [due EXCEPT ![n] = isDue]
    /\ scheduleName' = [scheduleName EXCEPT ![n] = sched]
    /\ UNCHANGED <<startedBy, nextAttempt>>

\* First attempts of jobs that came from requests, and from schedules.
Requested == {j \in Existing : origin[j] = j /\ scheduleName[j] = None}
CronRuns == {j \in Existing : origin[j] = j /\ scheduleName[j] # None}

\* A request handler commits schedule_job.
Schedule ==
    /\ Cardinality(Requested) < MaxRequests   \* bound
    /\ InsertRow("available", 0, lastId + 1, TRUE, None)
    /\ UNCHANGED <<tableVars, leaderVars, pc, localVars, trackVars>>

\* A request handler commits schedule_job_later, which names no schedule.
ScheduleLater ==
    /\ Cardinality(Requested) < MaxRequests   \* bound
    /\ InsertRow("scheduled", 0, lastId + 1, FALSE, None)
    /\ UNCHANGED <<tableVars, leaderVars, pc, localVars, trackVars>>

\* The clock passes a row's scheduled_at.
FallDue(j) ==
    /\ status[j] = "scheduled" /\ ~due[j]
    /\ scheduleName[j] # None => Cardinality(CronRuns) < MaxRuns   \* bound
    /\ due' = [due EXCEPT ![j] = TRUE]
    /\ UNCHANGED <<lastId, status, attempt, startedBy, nextAttempt,
                   scheduleName, origin, tableVars, leaderVars, pc, localVars,
                   trackVars>>
-----------------------------------------------------------------------------
(***************************************************************************)
(* Life of a worker.                                                       *)
(***************************************************************************)
\* QueueWorker::new inserts the row in queue_workers; setup_schedules inserts
\* the schedule rows ON CONFLICT DO NOTHING, still without a last job.
Register(w) ==
    /\ pc[w] = "off"
    /\ Goto(w, "wait")
    /\ UNCHANGED <<jobVars, tableVars, leaderVars, localVars, trackVars>>

\* The cancellation token is seen: leave the loop and drain.
Cancelled(w) ==
    /\ pc[w] = "wait"
    /\ Goto(w, "process")
    /\ ctx' = [ctx EXCEPT ![w] = "drain"]
    /\ UNCHANGED <<jobVars, tableVars, leaderVars, cur, new, abandoned,
                   toSchedule, amILeader, trackVars>>

\* The process is gone or the worker returned an error: the JoinSet aborts
\* its tasks and the local variables are lost. The worker's row, its lease and
\* its session's advisory lock stay behind.
Die(w) ==
    /\ Goto(w, "dead")
    /\ ctx' = [ctx EXCEPT ![w] = "tick"]
    /\ cur' = [cur EXCEPT ![w] = None]
    /\ new' = [new EXCEPT ![w] = None]
    /\ abandoned' = [abandoned EXCEPT ![w] = {}]
    /\ toSchedule' = [toSchedule EXCEPT ![w] = {}]
    /\ amILeader' = [amILeader EXCEPT ![w] = FALSE]
    /\ tracked' = [tracked EXCEPT ![w] = {}]
    /\ UNCHANGED <<jobVars, tableVars, leaderVars, result>>

\* A crash, or a failed query whose `?` ends run_inner.
Crash(w) == w \in Alive /\ Die(w)

\* The session of a dead worker is closed or recycled, which unlocks.
ReleaseLock(w) ==
    /\ pc[w] = "dead" /\ dutyLock = w
    /\ dutyLock' = None
    /\ UNCHANGED <<jobVars, tableVars, lease, leaseFresh, pc, localVars,
                   trackVars>>

\* A minute passes since last_seen_at was written. With Timely, a worker that
\* is in its loop heartbeats before the second one is over; one that drains
\* does not heartbeat at all.
Age(w) ==
    /\ pc[w] # "off" /\ seen[w] # "overdue" /\ w \notin shutdownAt
    /\ seen[w] = "old" /\ Timely => pc[w] = "dead" \/ ctx[w] = "drain"
    /\ seen' = [seen EXCEPT ![w] = IF @ = "fresh" THEN "old" ELSE "overdue"]
    /\ UNCHANGED <<jobVars, lastJob, shutdownAt, leaderVars, pc, localVars,
                   trackVars>>

\* A spawned task returns Ok, an error with its decision, or panics (which
\* process_jobs treats as a retryable error).
TaskFinish(w, j, r) ==
    /\ j \in tracked[w] /\ result[j] = "none"
    /\ r \in {"ok", "retry", "fail"}
    /\ result' = [result EXCEPT ![j] = r]
    /\ UNCHANGED <<jobVars, tableVars, leaderVars, pc, localVars, tracked>>
-----------------------------------------------------------------------------
(***************************************************************************)
(* tick_worker: heartbeat, election, recording of results, fetching.       *)
(***************************************************************************)
\* wait_until_wakeup returned (timer, finished task or notification) and a
\* minute has passed since the last heartbeat.
Heartbeat(w) ==
    /\ pc[w] = "wait" /\ seen[w] # "fresh"
    /\ IF w \in shutdownAt
       THEN Die(w)
       ELSE /\ seen' = [seen EXCEPT ![w] = "fresh"]
            /\ Goto(w, "expire")
            /\ UNCHANGED <<jobVars, lastJob, shutdownAt, leaderVars, localVars,
                           trackVars>>

LeaseExpires ==
    /\ lease # None /\ leaseFresh
    /\ leaseFresh' = FALSE
    /\ UNCHANGED <<jobVars, tableVars, lease, dutyLock, pc, localVars,
                   trackVars>>

\* Mutant: the expired lease of a dead leader is kept.
KeepExpiredLease(w) ==
    /\ pc[w] = "expire" \/ (pc[w] = "wait" /\ seen[w] = "fresh")
    /\ Goto(w, "elect")
    /\ UNCHANGED <<jobVars, tableVars, leaderVars, localVars, trackVars>>

RemoveLeaseIfExpired(w) ==
    /\ pc[w] = "expire" \/ (pc[w] = "wait" /\ seen[w] = "fresh")
    /\ lease' = IF leaseFresh THEN lease ELSE None
    /\ Goto(w, "elect")
    /\ UNCHANGED <<jobVars, tableVars, leaseFresh, dutyLock, localVars,
                   trackVars>>

\* The upsert affects one row when there is no lease or the lease is ours.
TryGetLeaderLease(w) ==
    /\ pc[w] = "elect"
    /\ LET won == lease \in {None, w} IN
       /\ lease' = IF won THEN w ELSE lease
       /\ leaseFresh' = IF won THEN TRUE ELSE leaseFresh
       /\ amILeader' = [amILeader EXCEPT ![w] = won]
    /\ Goto(w, "process")
    /\ UNCHANGED <<jobVars, tableVars, dutyLock, ctx, cur, new, abandoned,
                   toSchedule, trackVars>>

\* Mutant: mark_as_completed without its filter on the status.
UnfilteredMarkAsCompleted(w, j) ==
    /\ pc[w] = "process" /\ j \in tracked[w] /\ result[j] = "ok"
    /\ status' = [status EXCEPT ![j] = "completed"]
    /\ tracked' = [tracked EXCEPT ![w] = @ \ {j}]
    /\ UNCHANGED <<lastId, attempt, startedBy, nextAttempt, scheduleName, due,
                   origin, tableVars, leaderVars, pc, localVars, result>>

\* process_jobs takes a successful result: mark_as_completed.
MarkAsCompleted(w, j) ==
    /\ pc[w] = "process" /\ j \in tracked[w] /\ result[j] = "ok"
    /\ IF status[j] = "running"
       THEN /\ status' = [status EXCEPT ![j] = "completed"]
            /\ tracked' = [tracked EXCEPT ![w] = @ \ {j}]
            /\ UNCHANGED <<lastId, attempt, startedBy, nextAttempt,
                           scheduleName, due, origin, tableVars, leaderVars,
                           pc, localVars, result>>
       ELSE Die(w)

\* Mutant: the retry is decided and its job forgotten.
ForgetfulMarkAsFailed(w, j) ==
    /\ pc[w] = "process" /\ j \in tracked[w] /\ result[j] = "retry"
    /\ status[j] = "running" /\ attempt[j] < MaxAttempts
    /\ status' = [status EXCEPT ![j] = "failed"]
    /\ tracked' = [tracked EXCEPT ![w] = @ \ {j}]
    /\ Goto(w, "retryInsert")
    /\ UNCHANGED <<lastId, attempt, startedBy, nextAttempt, scheduleName, due,
                   origin, tableVars, leaderVars, localVars, result>>

\* process_jobs takes an error or a panic: mark_as_failed, and the decision
\* whether a retry follows.
MarkAsFailed(w, j) ==
    /\ pc[w] = "process" /\ j \in tracked[w] /\ result[j] \in {"retry", "fail"}
    /\ IF status[j] = "running"
       THEN /\ status' = [status EXCEPT ![j] = "failed"]
            /\ tracked' = [tracked EXCEPT ![w] = @ \ {j}]
            /\ IF result[j] = "retry" /\ attempt[j] < MaxAttempts
               THEN /\ cur' = [cur EXCEPT ![w] = j]
                    /\ Goto(w, "retryInsert")
               ELSE UNCHANGED <<cur, pc>>
            /\ UNCHANGED <<lastId, attempt, startedBy, nextAttempt,
                           scheduleName, due, origin, tableVars, leaderVars,
                           ctx, new, abandoned, toSchedule, amILeader, result>>
       ELSE Die(w)

\* jobs_to_fetch_capacity
Capacity(w) ==
    LET running == Cardinality(tracked[w])
        free == IF running > MaxConcurrent THEN 0 ELSE MaxConcurrent - running
    IN  IF free < MaxFetch THEN free ELSE MaxFetch

Available == {j \in Rows : status[j] = "available"}

\* SELECT ... WHERE status = 'available' ORDER BY id LIMIT n
FirstAvailable(n) ==
    {j \in Available : Cardinality({k \in Available : k < j}) < n}

\* No finished task is left to process: reserve, then spawn_reserved_jobs.
\* Afterwards run_loop looks at am_i_leader.
NoneFinished(w) == \A j \in tracked[w] : result[j] = "none"
Reserve(w) ==
    /\ pc[w] = "process" /\ ctx[w] = "tick" /\ NoneFinished(w)
    /\ LET jobs == FirstAvailable(Capacity(w)) IN
       /\ status' = [j \in Rows |-> IF j \in jobs THEN "running" ELSE status[j]]
       /\ startedBy' = [j \in Rows |-> IF j \in jobs THEN w ELSE startedBy[j]]
       /\ tracked' = [tracked EXCEPT ![w] = @ \cup jobs]
    /\ Goto(w, IF amILeader[w] THEN "lock" ELSE "wait")
    /\ UNCHANGED <<lastId, attempt, nextAttempt, scheduleName, due, origin,
                   tableVars, leaderVars, localVars, result>>
-----------------------------------------------------------------------------
(***************************************************************************)
(* QueueJobRepository::retry: three statements, called by process_jobs and *)
(* by recover_abandoned_jobs.                                              *)
(***************************************************************************)
InsertRetry(w, j, isDue) ==
    IF status[j] = "failed"
    THEN /\ InsertRow("scheduled", attempt[j] + 1, origin[j], isDue,
                      scheduleName[j])
         /\ cur' = [cur EXCEPT ![w] = j]
         /\ new' = [new EXCEPT ![w] = lastId + 1]
         /\ Goto(w, "retrySchedule")
         /\ abandoned' = [abandoned EXCEPT ![w] = @ \ {j}]
         /\ UNCHANGED <<tableVars, leaderVars, ctx, toSchedule, amILeader,
                        trackVars>>
    ELSE Die(w)

\* First statement, after mark_as_failed: the delay is positive.
RetryInsert(w) == pc[w] = "retryInsert" /\ InsertRetry(w, cur[w], FALSE)

\* Mutant: the schedule keeps pointing at the failed attempt.
StaleRetrySchedule(w) ==
    /\ pc[w] = "retrySchedule"
    /\ Goto(w, "retryLink")
    /\ UNCHANGED <<jobVars, tableVars, leaderVars, localVars, trackVars>>

\* UPDATE queue_schedules ... WHERE last_scheduled_job_id = the old row
RetrySchedule(w) ==
    /\ pc[w] = "retrySchedule"
    /\ lastJob' = [s \in Schedules |->
                     IF lastJob[s] = cur[w] THEN new[w] ELSE lastJob[s]]
    /\ Goto(w, "retryLink")
    /\ UNCHANGED <<jobVars, shutdownAt, seen, leaderVars, localVars, trackVars>>

RetryLink(w) ==
    /\ pc[w] = "retryLink"
    /\ nextAttempt' = [nextAttempt EXCEPT ![cur[w]] = new[w]]
    /\ cur' = [cur EXCEPT ![w] = None]
    /\ new' = [new EXCEPT ![w] = None]
    /\ Goto(w, IF ctx[w] = "recover" THEN "recover" ELSE "process")
    /\ UNCHANGED <<lastId, status, attempt, startedBy, scheduleName, due,
                   origin, tableVars, leaderVars, ctx, abandoned, toSchedule,
                   amILeader, trackVars>>
-----------------------------------------------------------------------------
(***************************************************************************)
(* run_leader_duties                                                       *)
(***************************************************************************)
\* Mutant: duties are performed whatever pg_try_advisory_lock answers.
IgnoredAdvisoryLock(w) ==
    /\ pc[w] = "lock"
    /\ dutyLock' = w /\ Goto(w, "evict")
    /\ UNCHANGED <<jobVars, tableVars, lease, leaseFresh, localVars, trackVars>>

TryAdvisoryLock(w) ==
    /\ pc[w] = "lock"
    /\ IF dutyLock = None
       THEN dutyLock' = w /\ Goto(w, "evict")
       ELSE UNCHANGED dutyLock /\ Goto(w, "wait")
    /\ UNCHANGED <<jobVars, tableVars, lease, leaseFresh, localVars, trackVars>>

ShutdownDeadWorkers(w) ==
    /\ pc[w] = "evict"
    /\ shutdownAt' = shutdownAt \cup {v \in Workers : seen[v] = "overdue"}
    /\ Goto(w, "mark")
    /\ UNCHANGED <<jobVars, lastJob, seen, leaderVars, localVars, trackVars>>

\* Mutants: one of the two filters of mark_abandoned_jobs_as_failed is gone.
AbandonedByAnyone == {j \in Rows : status[j] = "running"}
AbandonedInAnyStatus == {j \in Rows : startedBy[j] \in shutdownAt}

Abandoned ==
    {j \in Rows : status[j] = "running" /\ startedBy[j] \in shutdownAt}

\* One statement fails every abandoned row and returns them; the ones below
\* the retry limit are retried one after the other.
MarkAbandonedJobsAsFailed(w) ==
    /\ pc[w] = "mark"
    /\ status' = [j \in Rows |-> IF j \in Abandoned THEN "failed" ELSE status[j]]
    /\ abandoned' = [abandoned EXCEPT ![w] =
                       {j \in Abandoned : attempt[j] < MaxAttempts}]
    /\ ctx' = [ctx EXCEPT ![w] = "recover"]
    /\ Goto(w, "recover")
    /\ UNCHANGED <<lastId, attempt, startedBy, nextAttempt, scheduleName, due,
                   origin, tableVars, leaderVars, cur, new, toSchedule,
                   amILeader, trackVars>>

\* retry(.., Duration::zero()), first statement: due at once.
RecoverInsert(w, j) ==
    /\ pc[w] = "recover" /\ j \in abandoned[w]
    /\ InsertRetry(w, j, TRUE)

\* list, and the loop's two early `continue`s evaluated on what it returned:
\* a schedule is skipped when its last run is not due yet or not finished.
ListSchedules(w) ==
    /\ pc[w] = "recover" /\ abandoned[w] = {}
    /\ toSchedule' = [toSchedule EXCEPT ![w] =
         {s \in Schedules : lastJob[s] # None =>
            due[lastJob[s]] /\ status[lastJob[s]] \in Finished}]
    /\ ctx' = [ctx EXCEPT ![w] = "tick"]
    /\ Goto(w, "cron")
    /\ UNCHANGED <<jobVars, tableVars, leaderVars, cur, new, abandoned,
                   amILeader, trackVars>>

\* schedule_later(.., next_tick, Some(schedule)), first statement.
CronInsert(w, s) ==
    /\ pc[w] = "cron" /\ s \in toSchedule[w]
    /\ InsertRow("scheduled", 0, lastId + 1, FALSE, s)
    /\ new' = [new EXCEPT ![w] = lastId + 1]
    /\ Goto(w, "cronLink")
    /\ UNCHANGED <<tableVars, leaderVars, ctx, cur, abandoned, toSchedule,
                   amILeader, trackVars>>

\* schedule_later, second statement: UPDATE queue_schedules.
CronLink(w) ==
    /\ pc[w] = "cronLink"
    /\ LET s == scheduleName[new[w]] IN
       /\ lastJob' = [lastJob EXCEPT ![s] = new[w]]
       /\ toSchedule' = [toSchedule EXCEPT ![w] = @ \ {s}]
    /\ new' = [new EXCEPT ![w] = None]
    /\ Goto(w, "cron")
    /\ UNCHANGED <<jobVars, shutdownAt, seen, leaderVars, ctx, cur, abandoned,
                   amILeader, trackVars>>

\* Mutant: every row that is due becomes available.
UnfilteredScheduleAvailable(w) ==
    /\ pc[w] = "cron" /\ toSchedule[w] = {}
    /\ status' = [j \in Rows |-> IF due[j] THEN "available" ELSE status[j]]
    /\ Goto(w, "unlock")
    /\ UNCHANGED <<lastId, attempt, startedBy, nextAttempt, scheduleName, due,
                   origin, tableVars, leaderVars, localVars, trackVars>>

ScheduleAvailableJobs(w) ==
    /\ pc[w] = "cron" /\ toSchedule[w] = {}
    /\ status' = [j \in Rows |-> IF status[j] = "scheduled" /\ due[j]
                                 THEN "available" ELSE status[j]]
    /\ Goto(w, "unlock")
    /\ UNCHANGED <<lastId, attempt, startedBy, nextAttempt, scheduleName, due,
                   origin, tableVars, leaderVars, localVars, trackVars>>

Unlock(w) ==
    /\ pc[w] = "unlock"
    /\ dutyLock' = None
    /\ Goto(w, "wait")
    /\ UNCHANGED <<jobVars, tableVars, lease, leaseFresh, localVars, trackVars>>
-----------------------------------------------------------------------------
(***************************************************************************)
(* shutdown_worker: drain_jobs, then QueueWorkerRepository::shutdown.      *)
(***************************************************************************)
\* Mutant: the worker's row is closed without draining.
UndrainedDeregister(w) ==
    /\ pc[w] = "process" /\ ctx[w] = "drain"
    /\ shutdownAt' = shutdownAt \cup {w}
    /\ Goto(w, "stepdown")
    /\ UNCHANGED <<jobVars, lastJob, seen, leaderVars, localVars, trackVars>>

\* drain_jobs waits in collect_next_job and records each result with
\* process_jobs, exactly as a tick does; once nothing is tracked any more, the
\* worker's row gets its shutdown_at.
Deregister(w) ==
    /\ pc[w] = "process" /\ ctx[w] = "drain" /\ tracked[w] = {}
    /\ shutdownAt' = shutdownAt \cup {w}
    /\ Goto(w, "stepdown")
    /\ UNCHANGED <<jobVars, lastJob, seen, leaderVars, localVars, trackVars>>

\* DELETE FROM queue_leader; the NOTIFY that follows wakes workers that their
\* timer wakes anyway.
StepDown(w) ==
    /\ pc[w] = "stepdown"
    /\ lease' = IF lease = w THEN None ELSE lease
    /\ leaseFresh' = IF lease = w THEN FALSE ELSE leaseFresh
    /\ ctx' = [ctx EXCEPT ![w] = "tick"]
    /\ amILeader' = [amILeader EXCEPT ![w] = FALSE]
    /\ Goto(w, "stopped")
    /\ UNCHANGED <<jobVars, tableVars, dutyLock, cur, new, abandoned,
                   toSchedule, trackVars>>
-----------------------------------------------------------------------------
Tick(w) ==
    \/ Heartbeat(w) \/ RemoveLeaseIfExpired(w) \/ TryGetLeaderLease(w)
    \/ \E j \in Rows : MarkAsCompleted(w, j) \/ MarkAsFailed(w, j)
    \/ RetryInsert(w) \/ RetrySchedule(w) \/ RetryLink(w)
    \/ Reserve(w)

LeaderDuties(w) ==
    \/ TryAdvisoryLock(w) \/ ShutdownDeadWorkers(w)
    \/ MarkAbandonedJobsAsFailed(w)
    \/ \E j \in Rows : RecoverInsert(w, j)
    \/ ListSchedules(w)
    \/ \E s \in Schedules : CronInsert(w, s)
    \/ CronLink(w) \/ ScheduleAvailableJobs(w) \/ Unlock(w)

Shutdown(w) == Deregister(w) \/ StepDown(w)

Run(w) == Tick(w) \/ LeaderDuties(w) \/ Shutdown(w)

Next ==
    \/ Schedule \/ ScheduleLater \/ LeaseExpires
    \/ \E j \in Rows : FallDue(j)
    \/ \E w \in Workers :
         \/ Register(w) \/ Run(w) \/ Cancelled(w) \/ Crash(w)
         \/ ReleaseLock(w) \/ Age(w)
         \/ \E j \in Rows, r \in {"ok", "retry", "fail"} : TaskFinish(w, j, r)

Spec == Init /\ [][Next]_vars

(***************************************************************************)
(* Fairness. The tokio runtime polls every worker's loop, its tasks run to *)
(* an end, timestamps pass, and PostgreSQL closes the session of a process *)
(* that is gone. Nothing is assumed of crashes, cancellations, new jobs or *)
(* new workers.                                                            *)
(***************************************************************************)
Fairness ==
    /\ WF_vars(LeaseExpires)
    /\ \A j \in Rows : WF_vars(FallDue(j))
    /\ \A w \in Workers :
         /\ WF_vars(Run(w))
         /\ WF_vars(ReleaseLock(w))
         /\ WF_vars(Age(w))
         /\ \A j \in Rows :
              WF_vars(\E r \in {"ok", "retry", "fail"} : TaskFinish(w, j, r))

FairSpec == Spec /\ Fairness
-----------------------------------------------------------------------------
(***************************************************************************)
(* Properties.                                                             *)
(***************************************************************************)
\* Every variable has its type, and a worker inside retry or schedule_later
\* knows the rows that call is about.
TypeOK ==
    /\ lastId \in 0 .. MaxRows
    /\ status \in [Rows -> Statuses]
    /\ attempt \in [Rows -> Nat]
    /\ startedBy \in [Rows -> Workers \cup {None}]
    /\ nextAttempt \in [Rows -> Rows \cup {None}]
    /\ scheduleName \in [Rows -> Schedules \cup {None}]
    /\ due \in [Rows -> BOOLEAN]
    /\ origin \in [Rows -> Rows \cup {None}]
    /\ lastJob \in [Schedules -> Rows \cup {None}]
    /\ shutdownAt \subseteq Workers
    /\ seen \in [Workers -> {"fresh", "old", "overdue"}]
    /\ lease \in Workers \cup {None}
    /\ leaseFresh \in BOOLEAN
    /\ dutyLock \in Workers \cup {None}
    /\ pc \in [Workers -> PCs]
    /\ ctx \in [Workers -> {"tick", "recover", "drain"}]
    /\ cur \in [Workers -> Rows \cup {None}]
    /\ new \in [Workers -> Rows \cup {None}]
    /\ abandoned \in [Workers -> SUBSET Rows]
    /\ toSchedule \in [Workers -> SUBSET Schedules]
    /\ amILeader \in [Workers -> BOOLEAN]
    /\ tracked \in [Workers -> SUBSET Rows]
    /\ result \in [Rows -> {"none", "ok", "retry", "fail"}]
    /\ \A w \in Workers :
         /\ pc[w] \in {"retryInsert", "retrySchedule", "retryLink"} =>
              cur[w] \in Rows
         /\ pc[w] \in {"retrySchedule", "retryLink", "cronLink"} =>
              new[w] \in Rows

\* Of two attempts at one enqueued job, the earlier one has failed: a job that
\* completed is never run again and no two attempts are ever live together,
\* although the worker that ran a job and the leader that recovers it may both
\* try to record its end and to retry it. No attempt is beyond MAX_ATTEMPTS.
AttemptHistory ==
    /\ \A j, k \in Existing : j # k /\ origin[j] = origin[k] =>
         \/ attempt[j] < attempt[k] /\ status[j] = "failed"
         \/ attempt[k] < attempt[j] /\ status[k] = "failed"
    /\ \A j \in Existing : attempt[j] <= MaxAttempts

Executing(w) == {j \in tracked[w] : result[j] = "none"}

\* Two attempts at one job execute at the same time only when the worker of
\* one of them was shut down in queue_workers while it was still executing:
\* the recovery of abandoned jobs never duplicates the work of a worker that
\* the table calls alive.
OverlapOnlyAfterEviction ==
    \A w, v \in Workers : \A j \in Executing(w), k \in Executing(v) :
      origin[j] = origin[k] /\ <<w, j>> # <<v, k>> =>
        w \in shutdownAt \/ v \in shutdownAt

\* A row in status running is never orphaned: the worker in started_by is
\* alive and tracks its task, or it is dead and the leader will recover it. A
\* worker that shut down in good order leaves no running row behind.
NoOrphanedRunningRow ==
    \A j \in Existing : status[j] = "running" =>
      \/ startedBy[j] \in Alive /\ j \in tracked[startedBy[j]]
      \/ startedBy[j] \in Workers /\ pc[startedBy[j]] = "dead"

\* Inside run_leader_duties, between the advisory lock and its release.
InDuties(w) ==
    \/ pc[w] \in {"evict", "mark", "recover", "cron", "cronLink", "unlock"}
    \/ ctx[w] = "recover"

\* Leader duties are never performed by two workers at once, although the
\* lease may expire and move on while its old holder still performs them.
DutiesExclusive ==
    \A w, v \in Workers : InDuties(w) /\ InDuties(v) => w = v

\* A recorded outcome is never overwritten: completed and failed are final,
\* even when an evicted worker reports late.
FinalIsFinal ==
    [][\A j \in Rows : status[j] \in Finished => status'[j] = status[j]]_vars

\* Rows a worker has failed and is still going to retry.
Retrying(w) ==
    abandoned[w] \cup (IF pc[w] = "retryInsert" THEN {cur[w]} ELSE {})

\* A job that failed below the retry limit, and whose error did not say Fail,
\* has a next attempt or a worker about to insert it.
RetryNotLost ==
    \A j \in Existing :
      status[j] = "failed" /\ result[j] # "fail" /\ attempt[j] < MaxAttempts =>
        \/ \E k \in Existing : origin[k] = origin[j] /\ attempt[k] > attempt[j]
        \/ \E w \in Workers : j \in Retrying(w)

\* The first attempts of a schedule's runs that are in the queue, and the
\* workers that died.
Begun(s) == {j \in Live : scheduleName[j] = s /\ attempt[j] = 0}
Dead == {w \in Workers : pc[w] = "dead"}

\* The leader does not add a run while one is in the queue. While a single
\* worker has run that holds of retries too: the pointer of the schedule
\* follows them. However many workers run, overlap and die, two first attempts
\* are in the queue only if a worker died: between the insert of a run and the
\* update of the pointer a death costs one more run, and never two. (With
\* several workers a run may coexist with the retry of an earlier one: the
\* leader takes a failed attempt whose retry is not inserted yet for the end.)
OneRunPerSchedule ==
    /\ (\E w \in Workers : \A v \in Workers \ {w} : pc[v] = "off") =>
         \A j, k \in Live :
           scheduleName[j] = scheduleName[k] /\ scheduleName[j] # None => j = k
    /\ \A s \in Schedules : Cardinality(Begun(s)) <= Cardinality(Dead) + 1

\* The chain of attempts that began with row r has come to its end.
Settled(r) ==
    /\ \A j \in Existing : origin[j] = r => status[j] \in Finished
    /\ \A w \in Workers : \A j \in Retrying(w) : origin[j] # r

\* From some time on there is always a worker in its loop.
SomeWorkerStays == <>[](\E w \in Alive : ctx[w] # "drain")

\* Every enqueued job comes to an end, whichever workers crash or shut down
\* while they hold it, the lease or the advisory lock, if a worker stays.
EveryJobSettles ==
    SomeWorkerStays => \A r \in Rows : (r \in Existing /\ origin[r] = r) ~> Settled(r)
=============================================================================
