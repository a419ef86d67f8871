--------------------------- MODULE ActivityTracker ---------------------------
(***************************************************************************)
(* Session activity: the handlers that report it over a bounded channel,   *)
(* the task that batches it into the session tables, the task that asks    *)
(* for a flush every minute, the shutdown of the server around them, and   *)
(* the jobs that finish the sessions which the tables show as inactive.    *)
(*                                                                         *)
(* One server process is modelled with its tasks; the expiry jobs run in   *)
(* any process. Time is a counter of ticks. The three kinds of sessions    *)
(* are written in one transaction with the same statement and are one set  *)
(* here; addresses and user agents are left out.                           *)
(***************************************************************************)
EXTENDS Naturals, Sequences, FiniteSets

CONSTANTS
    NumSessions,    \* sessions are numbered in the order of their ULIDs
    Existing,       \* the sessions that exist at the start
    Handlers,       \* HTTP requests that may be under way together
    QueueSize,      \* MESSAGE_QUEUE_SIZE
    MaxPending,     \* MAX_PENDING_RECORDS
    PageSize,       \* SESSION_BATCH_SIZE
    TTL,            \* the inactivity TTL, in ticks
    FlushEvery,     \* a record is written this many ticks later at the latest
    MaxTime,        \* bound: the last tick
    MaxRecords,     \* bound: activity records the handlers build
    MaxCrons,       \* bound: runs of ExpireInactiveSessionsJob
    MaxMishaps,     \* bound: failures and deletions
    None

ASSUME ConstantsAssumption ==
    /\ {NumSessions, QueueSize, MaxPending, PageSize, TTL, MaxTime} \subseteq Nat \ {0}
    /\ {FlushEvery, MaxRecords, MaxCrons, MaxMishaps} \subseteq Nat
    /\ FlushEvery < TTL
    /\ Existing \subseteq 1 .. NumSessions

Sessions == 1 .. NumSessions
Times == 0 .. MaxTime
NoPending == [s \in Sessions |-> 0]
Records == [s : Sessions, t : Times]
ASSUME NoneAssumption == None \notin Records
Flush == [s |-> 0, t |-> 0]
Jobs == [threshold : Times, after : 0 .. NumSessions]

VARIABLES
    now,        \* the clock
    status,     \* per session: unborn, open (its insert is not committed), active, finished or gone
    last,       \* per session: last_active_at, 0 for NULL
    jobs,       \* queued expiry jobs
    job,        \* the expiry job that runs, with the page it listed, or None
    channel,    \* the messages between the tracker's handles and its worker
    closed,     \* the receiver was closed or dropped
    pending,    \* per session: end_time in pending_records, 0 when absent
    wpc,        \* the worker: recv, room, flush, final, ended or dead
    hand,       \* the record the worker makes room for, or None
    lpc,        \* flush_loop: wait, send, reply or ended
    cancelled,  \* the soft shutdown token
    exited,     \* LifecycleManager::run returned
    hpc,        \* per handler: idle, send or save
    msg,        \* per handler: the record it reports, or None
    built,      \* how many records were built
    crons,      \* how many expiry runs were started
    mishaps,    \* how many failures happened
    failing,    \* history: the last flush failed
    accepted,   \* history: the records the channel took
    late,       \* history: the records not written within FlushEvery ticks: flushes
                \* failed, or the handler waited that long for room in the channel
    lost,       \* history: the records given up for a reason the code logs
    expired     \* history: per session, the threshold it was expired with, or 0

db == <<status, last>>
expiry == <<jobs, job, crons, expired>>
worker == <<pending, wpc, hand>>
process == <<channel, closed, lpc, cancelled, exited>>
requests == <<hpc, msg, built>>
history == <<failing, accepted, late, lost>>
vars == <<now, db, expiry, worker, process, requests, mishaps, history>>

\* The sessions that exist before were active at tick 1; the process starts with
\* its tasks.
Init ==
    /\ now = 1
    /\ status = [s \in Sessions |-> IF s \in Existing THEN "active" ELSE "unborn"]
    /\ last = [s \in Sessions |-> IF s \in Existing THEN 1 ELSE 0]
    /\ jobs = {} /\ job = None /\ crons = 0 /\ expired = NoPending
    /\ channel = <<>> /\ closed = FALSE
    /\ pending = NoPending /\ wpc = "recv" /\ hand = None
    /\ lpc = "wait" /\ cancelled = FALSE /\ exited = FALSE
    /\ hpc = [h \in Handlers |-> "idle"] /\ msg = [h \in Handlers |-> None]
    /\ built = 0 /\ mishaps = 0
    /\ failing = FALSE /\ accepted = {} /\ late = {} /\ lost = {}

-----------------------------------------------------------------------------
(* What a failure or a deletion costs, and which records are on their way. *)

Mishap == mishaps < MaxMishaps /\ mishaps' = mishaps + 1

\* ensure_affected_rows_usize: the statement found a row for every id.
Found(s) == status[s] \in {"active", "finished"}

Written(a) == last[a.s] >= a.t
Stopped == wpc \in {"ended", "dead"}
PendingIds == {s \in Sessions : pending[s] # 0}
InChannel == {channel[i] : i \in DOMAIN channel}
UnderWay(a) == ~Stopped /\ (a \in InChannel \/ a = hand \/ pending[a.s] >= a.t)
Unwritten == {a \in accepted : ~Written(a)}

\* A record is overdue after the tick; this happens while flushes fail and in
\* no other case, since flush_loop asks for one every minute.
Tick ==
    LET overdue == {a \in Unwritten : a.t + FlushEvery < now + 1} \ lost IN
    /\ now < MaxTime
    /\ overdue = {} \/ failing
    /\ now' = now + 1
    /\ late' = late \cup overdue
    /\ UNCHANGED <<db, expiry, worker, process, requests, mishaps, failing, accepted, lost>>

-----------------------------------------------------------------------------
(* Requests. *)

Report(h, s) ==
    /\ hpc[h] = "idle" /\ ~exited /\ built < MaxRecords
    /\ built' = built + 1
    /\ hpc' = [hpc EXCEPT ![h] = "send"]
    /\ msg' = [msg EXCEPT ![h] = [s |-> s, t |-> now]]

\* A request of an active session; the time is read before the channel has room.
UseSession(h, s) ==
    /\ status[s] = "active"
    /\ Report(h, s)
    /\ UNCHANGED <<now, db, expiry, worker, process, mishaps, history>>

\* A token request that starts a session reports its activity in the
\* transaction that inserts it, before the commit.
StartSession(h, s) ==
    /\ status[s] = "unborn"
    /\ Report(h, s)
    /\ status' = [status EXCEPT ![s] = "open"]
    /\ UNCHANGED <<now, last, expiry, worker, process, mishaps, history>>

\* The handler goes on after the send: it commits what it opened or is done.
AfterSend(h) ==
    IF status[msg[h].s] = "open"
    THEN hpc' = [hpc EXCEPT ![h] = "save"] /\ UNCHANGED msg
    ELSE hpc' = [hpc EXCEPT ![h] = "idle"] /\ msg' = [msg EXCEPT ![h] = None]

\* channel.send(): waits for room; the time was read before the wait.
SendRecord(h) ==
    /\ hpc[h] = "send" /\ ~closed /\ Len(channel) < QueueSize
    /\ channel' = Append(channel, msg[h])
    /\ accepted' = accepted \cup {msg[h]}
    /\ late' = IF msg[h].t + FlushEvery < now THEN late \cup {msg[h]} ELSE late
    /\ AfterSend(h)
    /\ UNCHANGED <<now, db, expiry, worker, closed, lpc, cancelled, exited, built,
                   mishaps, failing, lost>>

\* The receiver is closed: the error is logged and the request goes on.
SendFails(h) ==
    /\ hpc[h] = "send" /\ closed
    /\ AfterSend(h)
    /\ UNCHANGED <<now, db, expiry, worker, process, built, mishaps, history>>

EndRequest(h, outcome) ==
    /\ hpc' = [hpc EXCEPT ![h] = "idle"] /\ msg' = [msg EXCEPT ![h] = None]
    /\ status' = [status EXCEPT ![msg[h].s] = IF @ = "open" THEN outcome ELSE @]
    /\ UNCHANGED <<now, last, expiry, worker, process, built, history>>

\* repo.save() at the end of the token endpoint.
CommitSession(h) ==
    /\ hpc[h] = "save"
    /\ EndRequest(h, "active")
    /\ UNCHANGED mishaps

\* The commit fails, and the row never exists.
CommitFails(h) ==
    /\ hpc[h] = "save"
    /\ Mishap
    /\ EndRequest(h, "gone")

\* The rows go with their client (config sync), or long after they finished.
DeleteSession(s) ==
    /\ Found(s)
    /\ Mishap
    /\ status' = [status EXCEPT ![s] = "gone"]
    /\ UNCHANGED <<now, last, expiry, worker, process, requests, history>>

-----------------------------------------------------------------------------
(* The worker. *)

LargerOf(a, b) == IF a >= b THEN a ELSE b

\* An entry of pending_records: inserted, or its end_time moved forward.
Absorb(p, a) == [p EXCEPT ![a.s] = LargerOf(@, a.t)]

\* record_batch_activity: GREATEST over the rows the pending records name.
BatchActivity ==
    [s \in Sessions |-> IF pending[s] # 0 THEN LargerOf(last[s], pending[s]) ELSE last[s]]

\* Mutant: the cancellation ends the loop instead of closing the receiver.
LeaveLoop ==
    /\ wpc = "recv" /\ cancelled /\ ~closed
    /\ closed' = TRUE /\ wpc' = "final"
    /\ UNCHANGED <<now, db, expiry, pending, hand, channel, lpc, cancelled, exited, requests,
                   mishaps, history>>

\* The cancellation closes the receiver once; what is queued is still taken.
CloseReceiver ==
    /\ wpc = "recv" /\ cancelled /\ ~closed
    /\ closed' = TRUE
    /\ UNCHANGED <<now, db, expiry, worker, channel, lpc, cancelled, exited, requests,
                   mishaps, history>>

\* Mutant: the limit is not looked at.
ReceiveUnlimited ==
    /\ wpc = "recv" /\ channel # <<>> /\ Head(channel) # Flush
    /\ channel' = Tail(channel)
    /\ pending' = Absorb(pending, Head(channel))
    /\ UNCHANGED <<now, db, expiry, wpc, hand, closed, lpc, cancelled, exited, requests,
                   mishaps, history>>

\* A record: at the limit the worker flushes first.
ReceiveRecord ==
    /\ wpc = "recv" /\ channel # <<>> /\ Head(channel) # Flush
    /\ channel' = Tail(channel)
    /\ IF Cardinality(PendingIds) >= MaxPending
       THEN wpc' = "room" /\ hand' = Head(channel) /\ UNCHANGED pending
       ELSE pending' = Absorb(pending, Head(channel)) /\ UNCHANGED <<wpc, hand>>
    /\ UNCHANGED <<now, db, expiry, closed, lpc, cancelled, exited, requests, mishaps, history>>

ReceiveFlush ==
    /\ wpc = "recv" /\ channel # <<>> /\ Head(channel) = Flush
    /\ channel' = Tail(channel)
    /\ wpc' = "flush"
    /\ UNCHANGED <<now, db, expiry, closed, lpc, cancelled, exited, pending, hand, requests,
                   mishaps, history>>

\* recv() gives None: closed and drained.
ReceiveNone ==
    /\ wpc = "recv" /\ closed /\ channel = <<>>
    /\ wpc' = "final"
    /\ UNCHANGED <<now, db, expiry, pending, hand, process, requests, mishaps, history>>

\* What follows a flush that leaves the records p pending and the rows at l: the
\* record at hand is absorbed, or dropped when there is still no room; the one
\* who asked is answered; or the worker ends, and what is pending ends with it.
AfterFlush(p, l) ==
    LET full == Cardinality({s \in Sessions : p[s] # 0}) >= MaxPending IN
    /\ last' = l
    /\ hand' = None
    /\ \/ /\ wpc = "room"
          /\ wpc' = "recv"
          /\ pending' = IF full THEN p ELSE Absorb(p, hand)
          /\ lost' = IF full THEN lost \cup {hand} ELSE lost
          /\ UNCHANGED lpc
       \/ /\ wpc = "flush"
          /\ wpc' = "recv"
          /\ pending' = p
          /\ lpc' = "wait"
          /\ UNCHANGED lost
       \/ /\ wpc = "final"
          /\ wpc' = "ended"
          /\ pending' = NoPending
          /\ lost' = lost \cup {a \in accepted : l[a.s] < a.t /\ p[a.s] >= a.t}
          /\ UNCHANGED lpc
    /\ UNCHANGED <<now, status, expiry, channel, closed, cancelled, exited, requests,
                   accepted, late>>

Flushing == wpc \in {"room", "flush", "final"}

\* Mutant: with nothing pending, the flush returns without an answer.
UnansweredFlush ==
    /\ Flushing
    /\ \A s \in PendingIds : Found(s)
    /\ IF wpc = "flush" /\ PendingIds = {}
       THEN /\ wpc' = "recv"
            /\ UNCHANGED <<now, db, expiry, pending, hand, process, requests, history>>
       ELSE failing' = FALSE /\ AfterFlush(NoPending, BatchActivity)
    /\ UNCHANGED mishaps

\* try_flush saves, and clears the pending records after that; with nothing
\* pending it returns at once.
FlushSucceeds ==
    /\ Flushing
    /\ \A s \in PendingIds : Found(s)
    /\ failing' = FALSE
    /\ AfterFlush(NoPending, BatchActivity)
    /\ UNCHANGED mishaps

\* A row is missing: the whole transaction is rolled back.
FlushRefused ==
    /\ Flushing
    /\ \E s \in PendingIds : ~Found(s)
    /\ failing' = TRUE
    /\ AfterFlush(pending, last)
    /\ UNCHANGED mishaps

\* The database fails before the commit, or after it, which the worker cannot
\* tell: it keeps the records in both cases.
FlushFails ==
    /\ Flushing /\ PendingIds # {}
    /\ Mishap
    /\ failing' = TRUE
    /\ \/ AfterFlush(pending, last)
       \/ (\A s \in PendingIds : Found(s)) /\ AfterFlush(pending, BatchActivity)

\* The task panics: the receiver is dropped and the guard cancels the token.
WorkerCrashes ==
    /\ ~Stopped
    /\ Mishap
    /\ wpc' = "dead" /\ hand' = None /\ pending' = NoPending
    /\ channel' = <<>> /\ closed' = TRUE /\ cancelled' = TRUE
    /\ lost' = lost \cup Unwritten
    /\ UNCHANGED <<now, db, expiry, lpc, exited, requests, failing, accepted, late>>

-----------------------------------------------------------------------------
(* flush_loop, with ActivityTracker::flush, which it calls. *)

\* The select is biased: it ticks only while nothing tells it to stop.
LoopTicks ==
    /\ lpc = "wait" /\ ~cancelled /\ ~closed
    /\ lpc' = "send"
    /\ UNCHANGED <<now, db, expiry, worker, channel, closed, cancelled, exited, requests,
                   mishaps, history>>

LoopEnds ==
    /\ lpc = "wait" /\ (cancelled \/ closed)
    /\ lpc' = "ended" /\ cancelled' = TRUE
    /\ UNCHANGED <<now, db, expiry, worker, channel, closed, exited, requests, mishaps, history>>

LoopAsks ==
    /\ lpc = "send" /\ ~closed /\ Len(channel) < QueueSize
    /\ channel' = Append(channel, Flush)
    /\ lpc' = "reply"
    /\ UNCHANGED <<now, db, expiry, worker, closed, cancelled, exited, requests, mishaps, history>>

\* Mutant: the loop waits for an answer of a worker that is gone.
LoopWaitsOn ==
    /\ lpc = "send" /\ closed
    /\ lpc' = "wait"
    /\ UNCHANGED <<now, db, expiry, worker, channel, closed, cancelled, exited, requests,
                   mishaps, history>>

\* The send fails on a closed channel, the answer when the worker is gone.
LoopGetsError ==
    /\ (lpc = "send" /\ closed) \/ (lpc = "reply" /\ Stopped)
    /\ lpc' = "wait"
    /\ UNCHANGED <<now, db, expiry, worker, channel, closed, cancelled, exited, requests,
                   mishaps, history>>

-----------------------------------------------------------------------------
(* LifecycleManager::run. *)

\* SIGTERM or SIGINT. (A task that ends early cancels the token itself.)
SoftShutdown ==
    /\ ~cancelled
    /\ cancelled' = TRUE
    /\ UNCHANGED <<now, db, expiry, worker, channel, closed, lpc, exited, requests,
                   mishaps, history>>

Drained == Stopped /\ lpc = "ended" /\ \A h \in Handlers : hpc[h] = "idle"

\* The process ends and takes what it held in memory and its open transactions.
EndProcess ==
    /\ cancelled /\ ~exited
    /\ exited' = TRUE
    /\ channel' = <<>> /\ closed' = TRUE
    /\ pending' = NoPending /\ hand' = None /\ wpc' = "ended" /\ lpc' = "ended"
    /\ hpc' = [h \in Handlers |-> "idle"] /\ msg' = [h \in Handlers |-> None]
    /\ status' = [s \in Sessions |-> IF status[s] = "open" THEN "gone" ELSE status[s]]
    /\ failing' = FALSE
    /\ UNCHANGED <<now, last, expiry, cancelled, built, mishaps, accepted, late>>

\* task_tracker.wait() returns.
GracefulExit == Drained /\ EndProcess /\ UNCHANGED lost

\* A second signal or the timeout, and then hard_timeout: the tasks are given up.
ForcedExit ==
    /\ ~Drained
    /\ EndProcess
    /\ lost' = IF Stopped THEN lost ELSE lost \cup Unwritten

-----------------------------------------------------------------------------
(* The expiry jobs. *)

\* ExpireInactiveSessionsJob: the threshold is set here, for the child and for
\* every page after it.
EnqueueExpiry ==
    /\ crons < MaxCrons /\ now >= TTL
    /\ crons' = crons + 1
    /\ jobs' = jobs \cup {[threshold |-> now - TTL, after |-> 0]}
    /\ UNCHANGED <<now, db, job, expired, worker, process, requests, mishaps, history>>

\* Mutant: last_active_at <= threshold.
InactiveInclusive(j) ==
    {s \in Sessions : /\ status[s] = "active" /\ s > j.after
                      /\ last[s] # 0 /\ last[s] <= j.threshold}

\* last_active_at < threshold (a NULL is not), active_only, after the cursor.
Inactive(j) ==
    {s \in Sessions : /\ status[s] = "active" /\ s > j.after
                      /\ last[s] # 0 /\ last[s] < j.threshold}

Page(j) == {s \in Inactive(j) : Cardinality({x \in Inactive(j) : x < s}) < PageSize}

\* The next page: the threshold is kept, the cursor is the last row's id.
NextJob(j, page) ==
    IF page = Inactive(j) THEN {}
    ELSE {[threshold |-> j.threshold, after |-> CHOOSE s \in page : \A x \in page : x <= s]}

ListPage(j) ==
    /\ job = None
    /\ jobs' = jobs \ {j}
    /\ job' = [j |-> j, page |-> Page(j), next |-> NextJob(j, Page(j))]
    /\ UNCHANGED <<now, db, crons, expired, worker, process, requests, mishaps, history>>

\* Every listed session is finished by its id, whatever happened to it since
\* the list; the next page is queued in the same transaction.
FinishPage ==
    /\ job # None
    /\ \A s \in job.page : Found(s)
    /\ status' = [s \in Sessions |-> IF s \in job.page THEN "finished" ELSE status[s]]
    /\ expired' = [s \in Sessions |->
          IF s \in job.page /\ status[s] = "active" THEN job.j.threshold ELSE expired[s]]
    /\ jobs' = jobs \cup job.next
    /\ job' = None
    /\ UNCHANGED <<now, last, crons, worker, process, requests, mishaps, history>>

\* A listed row is gone, or the database fails: the job is retried as it was.
JobFails ==
    /\ job # None
    /\ IF \E s \in job.page : ~Found(s) THEN UNCHANGED mishaps ELSE Mishap
    /\ jobs' = jobs \cup {job.j}
    /\ job' = None
    /\ UNCHANGED <<now, db, crons, expired, worker, process, requests, history>>

-----------------------------------------------------------------------------
Next ==
    \/ Tick
    \/ \E h \in Handlers, s \in Sessions : UseSession(h, s) \/ StartSession(h, s)
    \/ \E h \in Handlers :
          \/ SendRecord(h) \/ SendFails(h)
          \/ CommitSession(h) \/ CommitFails(h)
    \/ \E s \in Sessions : DeleteSession(s)
    \/ CloseReceiver \/ ReceiveRecord \/ ReceiveFlush \/ ReceiveNone
    \/ FlushSucceeds \/ FlushRefused \/ FlushFails \/ WorkerCrashes
    \/ LoopTicks \/ LoopEnds \/ LoopAsks \/ LoopGetsError
    \/ SoftShutdown \/ GracefulExit \/ ForcedExit
    \/ EnqueueExpiry \/ (\E j \in jobs : ListPage(j)) \/ FinishPage \/ JobFails

Spec == Init /\ [][Next]_vars

\* The runtime polls the two tasks and the requests under way, and a call to the
\* database returns. No signal, timeout, request or expiry run has to happen.
FairSpec ==
    /\ Spec
    /\ WF_vars(CloseReceiver) /\ WF_vars(ReceiveRecord \/ ReceiveFlush \/ ReceiveNone)
    /\ WF_vars(FlushSucceeds \/ FlushRefused)
    /\ WF_vars(LoopTicks \/ LoopEnds \/ LoopAsks \/ LoopGetsError)
    /\ \A h \in Handlers : WF_vars(CommitSession(h))

-----------------------------------------------------------------------------
TypeOK ==
    /\ now \in Times
    /\ status \in [Sessions -> {"unborn", "open", "active", "finished", "gone"}]
    /\ last \in [Sessions -> Times]
    /\ jobs \subseteq Jobs
    /\ job # None =>
          /\ job.j \in Jobs /\ job.page \subseteq Sessions /\ job.next \subseteq Jobs
          /\ Cardinality(job.page) <= PageSize
    /\ channel \in Seq(Records \cup {Flush}) /\ Len(channel) <= QueueSize
    /\ {closed, cancelled, exited} \subseteq BOOLEAN
    /\ pending \in [Sessions -> Times] /\ Cardinality(PendingIds) <= MaxPending
    /\ wpc \in {"recv", "room", "flush", "final", "ended", "dead"}
    /\ hand \in Records \cup {None}
    /\ wpc = "room" => hand \in Records
    /\ lpc \in {"wait", "send", "reply", "ended"}
    /\ hpc \in [Handlers -> {"idle", "send", "save"}]
    /\ msg \in [Handlers -> Records \cup {None}]
    /\ failing \in BOOLEAN
    /\ accepted \subseteq Records /\ late \subseteq accepted /\ lost \subseteq accepted
    /\ expired \in [Sessions -> Times]

\* No activity that the channel took disappears without a trace: it is written,
\* it is on its way, its session was deleted, or it was given up where the code
\* says so (dropped at the limit, a last flush that failed, a crash, or a hard
\* shutdown that did not wait). A graceful shutdown alone loses nothing, though
\* it closes the channel while handlers and flush_loop still send, and neither
\* does a record that arrives after a later one was written, or a batch that is
\* written twice because its commit was in doubt.
NothingLostSilently ==
    \A a \in accepted : Written(a) \/ UnderWay(a) \/ a \in lost \/ status[a.s] = "gone"

\* A session is expired only if it was not used between the threshold and the
\* last flush before the expiry run started, however the flushes, the pages and
\* the retries of the jobs interleave; excepted is activity that was not written
\* in time since flushes failed, that a handler could not send in time since the
\* channel was full, or that was given up.
ExpiredWasIdle ==
    \A a \in accepted :
        LET threshold == expired[a.s] IN
        threshold # 0 /\ a.t >= threshold /\ a.t + FlushEvery < threshold + TTL
            => a \in late \cup lost

\* A pending record of a row that does not exist and never will.
Poisoned == \E s \in PendingIds : status[s] = "gone"

\* Every record is written or given up in the end; the one thing that keeps the
\* others from being written is a pending record whose row is missing: every
\* flush is refused for it until the process ends.
EveryRecordSettles ==
    <>[](\A a \in accepted : Written(a) \/ a \in lost \/ status[a.s] = "gone" \/ Poisoned)

\* After a shutdown began, the worker and flush_loop end by themselves, without
\* any of the timeouts: neither waits for the other through a full or a closed
\* channel.
TasksEnd == <>[](cancelled => Stopped /\ lpc = "ended")
=============================================================================
