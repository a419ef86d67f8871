------------------------ MODULE ActivityTrackerProofs ------------------------
(***************************************************************************)
(* Proofs about ActivityTracker, for any number of sessions and handlers,  *)
(* any size of the channel, the batch and the page: no activity that the   *)
(* channel took is lost silently, and no session is expired that was used  *)
(* in time, with the exceptions the properties name.                       *)
(***************************************************************************)
EXTENDS ActivityTracker, FiniteSetTheorems, SequenceTheorems, WellFoundedInduction, TLAPS

\* Who holds which record: a handler the one it reports, the channel and the
\* worker those that were accepted. The worker ends only after the channel was
\* closed and drained, or dropped.
WorkerInv ==
    /\ now >= 1
    /\ \A h \in Handlers : hpc[h] # "idle" => msg[h] \in Records /\ msg[h].t >= 1
    /\ \A a \in accepted : a.t >= 1
    /\ InChannel \subseteq accepted \cup {Flush}
    /\ hand \in accepted \cup {None}
    /\ wpc # "room" => hand = None
    /\ wpc \in {"final", "ended", "dead"} => closed /\ channel = <<>>

\* A record that is older than a flush interval is written, or counted as late
\* or lost.
OnTime ==
    \A a \in accepted : a.t + FlushEvery < now => Written(a) \/ a \in late \cup lost

\* Nobody used the session from th up to a flush interval before th + TTL.
Idle(s, th) ==
    \A a \in accepted :
      a.s = s /\ a.t >= th /\ a.t + FlushEvery < th + TTL => a \in late \cup lost

\* Thresholds are a TTL old, on every page; what is listed was idle, and stays
\* so in the sense of the property whatever is written after the list.
ExpiryInv ==
    /\ \A j \in jobs : j.threshold + TTL <= now
    /\ job # None =>
         /\ job.j.threshold + TTL <= now
         /\ \A j \in job.next : j.threshold + TTL <= now
         /\ \A s \in job.page : Idle(s, job.j.threshold)
    /\ \A s \in Sessions : expired[s] # 0 => expired[s] + TTL <= now /\ Idle(s, expired[s])

IInv == TypeOK /\ WorkerInv /\ NothingLostSilently /\ OnTime /\ ExpiryInv

-----------------------------------------------------------------------------
(***************************************************************************)
(* Sets of sessions.                                                       *)
(***************************************************************************)
\* The constants, one by one.
LEMMA ConstantFacts ==
    /\ NumSessions \in Nat \ {0} /\ QueueSize \in Nat \ {0} /\ MaxPending \in Nat \ {0}
    /\ PageSize \in Nat \ {0} /\ TTL \in Nat \ {0} /\ MaxTime \in Nat \ {0} /\ FlushEvery \in Nat
    /\ MaxRecords \in Nat /\ MaxCrons \in Nat /\ MaxMishaps \in Nat
    /\ Existing \subseteq Sessions
    BY ConstantsAssumption DEF Sessions

\* Sets of sessions are finite.
LEMMA FiniteSessions ==
    ASSUME NEW S \in SUBSET Sessions
    PROVE  IsFiniteSet(S) /\ Cardinality(S) \in Nat
    <1>1. IsFiniteSet(Sessions)
        BY ConstantFacts, FS_Interval DEF Sessions
    <1>2. IsFiniteSet(S)
        BY <1>1, FS_Subset
    <1>. QED  BY <1>2, FS_CardinalityType

\* A set of sessions has a first and a last one.
LEMMA FirstAndLast ==
    ASSUME NEW S \in SUBSET Sessions, S # {}
    PROVE  /\ \E m \in S : \A x \in S : m <= x
           /\ \E m \in S : \A x \in S : x <= m
    <1>0. \A s \in S : s \in Nat /\ s <= NumSessions
        BY ConstantFacts DEF Sessions
    <1>1. ASSUME NEW T \in SUBSET Nat, T # {}
          PROVE  \E m \in T : \A x \in T : m <= x
      <2>. DEFINE R == OpToRel(<, Nat)
      <2>1. IsWellFoundedOn(R, Nat)
        BY NatLessThanWellFounded
      <2>2. \A x, m \in Nat : x < m => <<x, m>> \in R
        BY DEF OpToRel
      <2>. HIDE DEF R
      <2>3. \E m \in T : \A x \in T : ~(<<x, m>> \in R)
        BY <1>1, <2>1, WFMin
      <2>4. PICK m \in T : \A x \in T : ~(<<x, m>> \in R)
        BY <2>3
      <2>5. ASSUME NEW x \in T
            PROVE  m <= x
        <3>1. x \in Nat /\ m \in Nat /\ ~(<<x, m>> \in R)
            BY <2>4
        <3>2. ~(x < m)
            BY <2>2, <3>1, Zenon
        <3>. QED  BY <3>1, <3>2
      <2>. QED  BY <2>5
    <1>2. \E m \in S : \A x \in S : m <= x
        BY <1>0, <1>1
    <1>3. \E m \in S : \A x \in S : x <= m
      <2>. DEFINE T == {NumSessions - s : s \in S}
      <2>1. T \in SUBSET Nat /\ T # {}
        BY <1>0, ConstantFacts
      <2>2. PICK n \in T : \A x \in T : n <= x
        BY <1>1, <2>1
      <2>3. PICK m \in S : n = NumSessions - m
        BY <2>2
      <2>4. ASSUME NEW x \in S
            PROVE  x <= m
        <3>1. NumSessions - m <= NumSessions - x
            BY <2>2, <2>3
        <3>. QED  BY <1>0, <3>1, ConstantFacts
      <2>. QED  BY <2>4
    <1>. QED  BY <1>2, <1>3

\* A page has no more sessions than SESSION_BATCH_SIZE, none is empty while
\* there are inactive sessions, and its last row gives the next cursor.
LEMMA PageFact ==
    ASSUME NEW j \in Jobs
    PROVE  /\ Page(j) \subseteq Inactive(j) /\ Inactive(j) \subseteq Sessions
           /\ Cardinality(Page(j)) <= PageSize
           /\ \A k \in NextJob(j, Page(j)) : k \in Jobs /\ k.threshold = j.threshold
    <1>1. Page(j) \subseteq Inactive(j) /\ Inactive(j) \subseteq Sessions
        BY DEF Page, Inactive
    <1>2. Cardinality(Page(j)) <= PageSize
      <2>1. CASE Page(j) = {}
        BY <2>1, FS_EmptySet, ConstantFacts
      <2>2. CASE Page(j) # {}
        <3>0. \A s \in Page(j) : s \in Nat
            BY <1>1 DEF Sessions
        <3>1. PICK m \in Page(j) : \A x \in Page(j) : x <= m
          <4>1. Page(j) \in SUBSET Sessions
            BY <1>1
          <4>. QED  BY <2>2, <4>1, FirstAndLast
        <3>. DEFINE before == {x \in Inactive(j) : x < m}
        <3>2. Cardinality(before) < PageSize
            BY DEF Page
        <3>3. Page(j) \ {m} \subseteq before
            BY <1>1, <3>0, <3>1
        <3>4. before \in SUBSET Sessions /\ Page(j) \in SUBSET Sessions
            BY <1>1
        <3>. HIDE DEF before
        <3>5. IsFiniteSet(before) /\ Cardinality(before) \in Nat
              /\ IsFiniteSet(Page(j)) /\ Cardinality(Page(j)) \in Nat
            BY <3>4, FiniteSessions
        <3>6. Cardinality(Page(j) \ {m}) <= Cardinality(before)
            BY <3>3, <3>5, FS_Subset
        <3>7. Cardinality(Page(j) \ {m}) = Cardinality(Page(j)) - 1
            BY <3>5, FS_RemoveElement
        <3>. QED  BY <3>2, <3>5, <3>6, <3>7, ConstantFacts
      <2>. QED  BY <2>1, <2>2
    <1>3. ASSUME Page(j) # Inactive(j)
          PROVE  Page(j) # {}
      <2>1. SUFFICES ASSUME Inactive(j) # {}
            PROVE  Page(j) # {}
        BY <1>1, <1>3
      <2>2. PICK m \in Inactive(j) : \A x \in Inactive(j) : m <= x
        <3>1. Inactive(j) \in SUBSET Sessions
            BY <1>1
        <3>. QED  BY <2>1, <3>1, FirstAndLast
      <2>3. {x \in Inactive(j) : x < m} = {}
        <3>1. \A x \in Inactive(j) : x \in Nat
            BY <1>1 DEF Sessions
        <3>. QED  BY <2>2, <3>1
      <2>4. m \in Page(j)
        BY <2>2, <2>3, FS_EmptySet, ConstantFacts DEF Page
      <2>. QED  BY <2>4
    <1>4. ASSUME NEW k \in NextJob(j, Page(j))
          PROVE  k \in Jobs /\ k.threshold = j.threshold
      <2>. DEFINE end == CHOOSE s \in Page(j) : \A x \in Page(j) : x <= s
      <2>1. Page(j) # Inactive(j) /\ k = [threshold |-> j.threshold, after |-> end]
        BY DEF NextJob
      <2>2. \E s \in Page(j) : \A x \in Page(j) : x <= s
        <3>1. Page(j) \in SUBSET Sessions /\ Page(j) # {}
            BY <1>1, <1>3, <2>1
        <3>. QED  BY <3>1, FirstAndLast
      <2>3. end \in Page(j)
        BY <2>2
      <2>. HIDE DEF end
      <2>4. end \in 0 .. NumSessions
        BY <1>1, <2>3, ConstantFacts DEF Sessions
      <2>. QED  BY <2>1, <2>4 DEF Jobs
    <1>. QED  BY <1>1, <1>2, <1>4

-----------------------------------------------------------------------------
(***************************************************************************)
(* Records on their way.                                                   *)
(***************************************************************************)
\* A record keeps its session and its time, and is no request for a flush.
LEMMA RecordFact ==
    ASSUME NEW a \in Records
    PROVE  a.s \in Sessions /\ a.t \in Times /\ a.t \in Nat /\ a # Flush /\ a # None
    <1>1. a.s \in Sessions /\ a.t \in Times /\ a.t \in Nat
        BY ConstantFacts DEF Records, Times
    <1>2. a.s # 0
        BY <1>1 DEF Sessions
    <1>. QED  BY <1>1, <1>2, NoneAssumption DEF Flush

\* pending_records after one more record: no entry moves back, and there is at
\* most one more.
LEMMA AbsorbFact ==
    ASSUME NEW p \in [Sessions -> Times], NEW a \in Records
    PROVE  /\ Absorb(p, a) \in [Sessions -> Times]
           /\ \A s \in Sessions : Absorb(p, a)[s] >= p[s]
           /\ Absorb(p, a)[a.s] >= a.t
           /\ Cardinality({s \in Sessions : Absorb(p, a)[s] # 0}) <=
              Cardinality({s \in Sessions : p[s] # 0}) + 1
    <1>. DEFINE old == {s \in Sessions : p[s] # 0}
                new == {s \in Sessions : Absorb(p, a)[s] # 0}
    <1>0. /\ \A s \in Sessions : p[s] \in Nat /\ p[s] \in Times
          /\ a.s \in Sessions /\ a.t \in Nat /\ a.t \in Times
        BY RecordFact, ConstantFacts DEF Times
    <1>1. /\ Absorb(p, a)[a.s] = LargerOf(p[a.s], a.t)
          /\ \A s \in Sessions : s # a.s => Absorb(p, a)[s] = p[s]
          /\ Absorb(p, a) = [p EXCEPT ![a.s] = LargerOf(p[a.s], a.t)]
        BY <1>0 DEF Absorb
    <1>2. /\ LargerOf(p[a.s], a.t) \in Times /\ LargerOf(p[a.s], a.t) >= p[a.s]
          /\ LargerOf(p[a.s], a.t) >= a.t
        BY <1>0 DEF LargerOf
    <1>3. /\ Absorb(p, a) \in [Sessions -> Times]
          /\ \A s \in Sessions : Absorb(p, a)[s] >= p[s]
          /\ Absorb(p, a)[a.s] >= a.t
        BY <1>0, <1>1, <1>2
    <1>4. new \subseteq old \cup {a.s}
        BY <1>1
    <1>5. IsFiniteSet(old) /\ IsFiniteSet(new) /\ Cardinality(old) \in Nat /\ Cardinality(new) \in Nat
        BY FiniteSessions
    <1>. HIDE DEF old, new
    <1>6. IsFiniteSet(old \cup {a.s}) /\ Cardinality(old \cup {a.s}) <= Cardinality(old) + 1
        BY <1>5, FS_AddElement
    <1>7. Cardinality(new) <= Cardinality(old \cup {a.s}) /\ Cardinality(old \cup {a.s}) \in Nat
        BY <1>4, <1>6, FS_Subset, FS_CardinalityType
    <1>8. Cardinality(new) <= Cardinality(old) + 1
        BY <1>5, <1>6, <1>7
    <1>. QED  BY <1>3, <1>8 DEF old, new

\* record_batch_activity never moves a row back and writes what is pending.
LEMMA BatchFact ==
    ASSUME TypeOK
    PROVE  /\ BatchActivity \in [Sessions -> Times]
           /\ \A s \in Sessions : BatchActivity[s] >= last[s] /\ BatchActivity[s] >= pending[s]
    <1>1. \A s \in Sessions : last[s] \in Times /\ pending[s] \in Times
        BY DEF TypeOK
    <1>2. \A x \in Times : x \in Nat
        BY DEF Times
    <1>. QED  BY <1>1, <1>2 DEF BatchActivity, LargerOf

-----------------------------------------------------------------------------
(***************************************************************************)
(* What a step may do to the history, and the parts of the invariant that  *)
(* follow from it.                                                         *)
(***************************************************************************)
\* Records are only added; one that arrives too late is counted.
Grows ==
    /\ now <= now' /\ now' \in Nat
    /\ late \subseteq late' /\ lost \subseteq lost' /\ accepted' \subseteq Records
    /\ \A a \in accepted' : a \in accepted \/ (a.t + FlushEvery < now => a \in late')

\* No row moves back and no row comes back.
RowsGrow ==
    \A s \in Sessions : /\ last'[s] \in Nat /\ last'[s] >= last[s]
                        /\ status[s] = "gone" => status'[s] = "gone"

\* The numbers that the parts of the invariant compare.
LEMMA Numbers ==
    ASSUME IInv
    PROVE  /\ now \in Nat /\ now >= 1 /\ now <= MaxTime
           /\ \A a \in accepted : a \in Records /\ a.s \in Sessions /\ a.t \in Nat /\ a.t >= 1
           /\ \A s \in Sessions : last[s] \in Nat /\ pending[s] \in Nat /\ expired[s] \in Nat
           /\ \A j \in Jobs : j.threshold \in Nat
    <1>1. now \in Nat /\ now >= 1 /\ now <= MaxTime
        BY DEF IInv, TypeOK, WorkerInv, Times
    <1>2. \A a \in accepted : a \in Records /\ a.s \in Sessions /\ a.t \in Nat /\ a.t >= 1
        BY RecordFact DEF IInv, TypeOK, WorkerInv
    <1>3. \A s \in Sessions : last[s] \in Nat /\ pending[s] \in Nat /\ expired[s] \in Nat
        BY DEF IInv, TypeOK, Times
    <1>4. \A j \in Jobs : j.threshold \in Nat
        BY DEF Jobs, Times
    <1>. QED  BY <1>1, <1>2, <1>3, <1>4

\* What was idle stays idle: a record that the channel takes after its time
\* counts as late.
LEMMA IdleKept ==
    ASSUME IInv, Grows
    PROVE  \A s \in Sessions, th \in Nat : th + TTL <= now /\ Idle(s, th) =>
             \A a \in accepted' :
               a.s = s /\ a.t >= th /\ a.t + FlushEvery < th + TTL => a \in late' \cup lost'
    <1>1. SUFFICES ASSUME NEW s \in Sessions, NEW th \in Nat, th + TTL <= now, Idle(s, th),
                          NEW a \in accepted', a.s = s, a.t >= th, a.t + FlushEvery < th + TTL
                   PROVE  a \in late' \cup lost'
        OBVIOUS
    <1>2. CASE a \in accepted
        BY <1>1, <1>2 DEF Idle, Grows
    <1>3. CASE a \notin accepted
      <2>1. a.t \in Nat /\ now \in Nat
        BY RecordFact, Numbers DEF Grows
      <2>2. a.t + FlushEvery < now
        BY <1>1, <2>1, ConstantFacts
      <2>. QED  BY <1>3, <2>2 DEF Grows
    <1>. QED  BY <1>2, <1>3

\* The expiry jobs are not at work.
LEMMA ExpiryKept ==
    ASSUME IInv, Grows, UNCHANGED <<jobs, job, expired>>
    PROVE  ExpiryInv'
    <1>0. now \in Nat /\ now' \in Nat /\ now <= now' /\ TTL \in Nat
        BY Numbers, ConstantFacts DEF Grows
    <1>1. \A th \in Nat : th + TTL <= now => th + TTL <= now'
        BY <1>0
    <1>2. \A j \in jobs' : j.threshold + TTL <= now'
        BY <1>1, Numbers DEF IInv, ExpiryInv, TypeOK
    <1>3. job' # None =>
             /\ job'.j.threshold + TTL <= now'
             /\ \A j \in job'.next : j.threshold + TTL <= now'
             /\ \A s \in job'.page : Idle(s, job.j.threshold)'
      <2>1. SUFFICES ASSUME job # None
            PROVE  /\ job.j.threshold + TTL <= now'
                   /\ \A j \in job.next : j.threshold + TTL <= now'
                   /\ \A s \in job.page : Idle(s, job.j.threshold)'
        OBVIOUS
      <2>2. job.j \in Jobs /\ job.page \subseteq Sessions /\ job.next \subseteq Jobs
        BY <2>1 DEF IInv, TypeOK
      <2>3. /\ job.j.threshold \in Nat /\ job.j.threshold + TTL <= now
            /\ \A j \in job.next : j.threshold \in Nat /\ j.threshold + TTL <= now
            /\ \A s \in job.page : Idle(s, job.j.threshold)
        BY <2>1, <2>2, Numbers DEF IInv, ExpiryInv
      <2>4. \A s \in job.page : Idle(s, job.j.threshold)'
        BY <2>2, <2>3, IdleKept DEF Idle
      <2>. QED  BY <1>1, <2>3, <2>4
    <1>4. \A s \in Sessions : expired'[s] # 0 =>
             expired'[s] + TTL <= now' /\ Idle(s, expired[s])'
      <2>1. SUFFICES ASSUME NEW s \in Sessions, expired[s] # 0
            PROVE  expired[s] + TTL <= now' /\ Idle(s, expired[s])'
        OBVIOUS
      <2>2. expired[s] \in Nat /\ expired[s] + TTL <= now /\ Idle(s, expired[s])
        BY <2>1, Numbers DEF IInv, ExpiryInv
      <2>. QED  BY <1>1, <2>2, IdleKept DEF Idle
    <1>. QED  BY <1>2, <1>3, <1>4 DEF ExpiryInv

\* The clock stands still.
LEMMA OnTimeKept ==
    ASSUME IInv, Grows, RowsGrow, now' = now
    PROVE  OnTime'
    <1>1. SUFFICES ASSUME NEW a \in accepted', a.t + FlushEvery < now
          PROVE  Written(a)' \/ a \in late' \cup lost'
        BY DEF OnTime
    <1>2. CASE a \notin accepted
        BY <1>1, <1>2 DEF Grows
    <1>3. CASE a \in accepted
      <2>1. Written(a) \/ a \in late \cup lost
        BY <1>1, <1>3 DEF IInv, OnTime
      <2>2. last[a.s] \in Nat /\ a.t \in Nat /\ a.s \in Sessions
        BY <1>3, Numbers
      <2>3. Written(a) => Written(a)'
        BY <2>2 DEF Written, RowsGrow
      <2>. QED  BY <2>1, <2>3 DEF Grows
    <1>. QED  BY <1>2, <1>3

\* The step takes nothing from the channel and from the worker.
LEMMA NothingLostKept ==
    ASSUME IInv, Grows, RowsGrow, UNCHANGED <<accepted, channel, pending, wpc, hand>>
    PROVE  NothingLostSilently'
    <1>1. SUFFICES ASSUME NEW a \in accepted
          PROVE  (Written(a) \/ UnderWay(a) \/ a \in lost \/ status[a.s] = "gone")'
        BY DEF NothingLostSilently
    <1>2. Written(a) \/ UnderWay(a) \/ a \in lost \/ status[a.s] = "gone"
        BY DEF IInv, NothingLostSilently
    <1>3. last[a.s] \in Nat /\ a.t \in Nat /\ a.s \in Sessions
        BY Numbers
    <1>4. Written(a) => Written(a)'
        BY <1>3 DEF Written, RowsGrow
    <1>5. UnderWay(a)' <=> UnderWay(a)
        BY DEF UnderWay, Stopped, InChannel
    <1>. QED  BY <1>2, <1>3, <1>4, <1>5 DEF Grows, RowsGrow

\* A step that only moves flags, rows and requests.
LEMMA PlainStep ==
    ASSUME IInv, TypeOK', WorkerInv', RowsGrow,
           UNCHANGED <<now, jobs, job, expired, accepted, late, lost, channel, pending, wpc, hand>>
    PROVE  IInv'
    <1>1. Grows
        BY Numbers DEF Grows, IInv, TypeOK
    <1>. QED  BY <1>1, ExpiryKept, OnTimeKept, NothingLostKept DEF IInv
-----------------------------------------------------------------------------
(***************************************************************************)
(* The clock and the requests.                                             *)
(***************************************************************************)
\* The records that become overdue are counted.
LEMMA TickStep ==
    ASSUME IInv, Tick
    PROVE  IInv'
    <1>. DEFINE overdue == {a \in Unwritten : a.t + FlushEvery < now + 1} \ lost
    <1>0. TypeOK /\ now \in Nat /\ now >= 1
        BY Numbers DEF IInv
    <1>1. /\ now < MaxTime /\ now' = now + 1 /\ late' = late \cup overdue
          /\ UNCHANGED <<status, last, jobs, job, crons, expired, pending, wpc, hand, channel, closed, lpc,
                         cancelled, exited, hpc, msg, built, mishaps, failing, accepted, lost>>
        BY DEF Tick, db, expiry, worker, process, requests
    <1>2. overdue \subseteq accepted
        BY DEF Unwritten
    <1>3. TypeOK'
      <2>1. now' \in Times
        BY <1>0, <1>1, ConstantFacts DEF Times
      <2>. QED  BY <1>0, <1>1, <1>2, <2>1 DEF TypeOK, PendingIds
    <1>4. WorkerInv'
        BY <1>0, <1>1 DEF IInv, WorkerInv, InChannel
    <1>5. Grows
        BY <1>0, <1>1 DEF Grows, TypeOK
    <1>6. OnTime'
      <2>1. SUFFICES ASSUME NEW a \in accepted, a.t + FlushEvery < now + 1
            PROVE  Written(a)' \/ a \in late' \cup lost'
        BY <1>1 DEF OnTime
      <2>2. Written(a)' <=> Written(a)
        BY <1>1 DEF Written
      <2>. QED  BY <1>1, <2>1, <2>2 DEF Unwritten
    <1>7. NothingLostSilently'
        BY <1>1 DEF IInv, NothingLostSilently, Written, UnderWay, Stopped, InChannel
    <1>. QED  BY <1>1, <1>3, <1>4, <1>5, <1>6, <1>7, ExpiryKept DEF IInv

\* A request reports its activity: the record has the time of the report.
LEMMA ReportStep ==
    ASSUME IInv, NEW h \in Handlers, NEW s \in Sessions, UseSession(h, s) \/ StartSession(h, s)
    PROVE  IInv'
    <1>. DEFINE a == [s |-> s, t |-> now]
    <1>0. TypeOK /\ now \in Times /\ now >= 1
        BY Numbers DEF IInv, TypeOK
    <1>1. /\ hpc' = [hpc EXCEPT ![h] = "send"] /\ msg' = [msg EXCEPT ![h] = a]
          /\ UNCHANGED <<now, last, jobs, job, crons, expired, pending, wpc, hand, channel, closed, lpc,
                         cancelled, exited, mishaps, failing, accepted, late, lost>>
          /\ status' = status \/ (status[s] = "unborn" /\ status' = [status EXCEPT ![s] = "open"])
        BY DEF UseSession, StartSession, Report, db, expiry, worker, process, history
    <1>2. a \in Records /\ a.t = now
        BY <1>0 DEF Records
    <1>. HIDE DEF a
    <1>3. TypeOK'
      <2>1. /\ hpc' \in [Handlers -> {"idle", "send", "save"}]
            /\ msg' \in [Handlers -> Records \cup {None}]
        BY <1>0, <1>1, <1>2 DEF TypeOK
      <2>2. status' \in [Sessions -> {"unborn", "open", "active", "finished", "gone"}]
        BY <1>0, <1>1 DEF TypeOK
      <2>. QED  BY <1>0, <1>1, <2>1, <2>2 DEF TypeOK, PendingIds
    <1>4. WorkerInv'
      <2>1. ASSUME NEW g \in Handlers, hpc'[g] # "idle"
            PROVE  msg'[g] \in Records /\ msg'[g].t >= 1
        BY <1>0, <1>1, <1>2, <2>1 DEF IInv, WorkerInv, TypeOK
      <2>. QED  BY <1>1, <2>1 DEF IInv, WorkerInv, InChannel
    <1>5. RowsGrow
        BY <1>0, <1>1, Numbers DEF RowsGrow, TypeOK
    <1>. QED  BY <1>1, <1>3, <1>4, <1>5, PlainStep

\* A request goes on after its send: it keeps its record while it has to commit.
LEMMA AfterSendFact ==
    ASSUME IInv, NEW h \in Handlers, hpc[h] = "send", AfterSend(h)
    PROVE  /\ hpc' \in [Handlers -> {"idle", "send", "save"}]
           /\ msg' \in [Handlers -> Records \cup {None}]
           /\ \A g \in Handlers : hpc'[g] # "idle" => msg'[g] \in Records /\ msg'[g].t >= 1
    <1>0. /\ hpc \in [Handlers -> {"idle", "send", "save"}] /\ msg \in [Handlers -> Records \cup {None}]
          /\ \A g \in Handlers : hpc[g] # "idle" => msg[g] \in Records /\ msg[g].t >= 1
        BY DEF IInv, TypeOK, WorkerInv
    <1>1. CASE hpc' = [hpc EXCEPT ![h] = "save"] /\ msg' = msg
        BY <1>0, <1>1
    <1>2. CASE hpc' = [hpc EXCEPT ![h] = "idle"] /\ msg' = [msg EXCEPT ![h] = None]
        BY <1>0, <1>2
    <1>. QED  BY <1>1, <1>2 DEF AfterSend

\* A message is added at the end of the channel.
LEMMA SendFact ==
    ASSUME IInv, NEW m \in Records \cup {Flush}, Len(channel) < QueueSize, channel' = Append(channel, m)
    PROVE  /\ channel' \in Seq(Records \cup {Flush}) /\ Len(channel') <= QueueSize
           /\ InChannel' = InChannel \cup {m}
    <1>1. channel \in Seq(Records \cup {Flush}) /\ Len(channel) \in Nat /\ QueueSize \in Nat
        BY ConstantFacts DEF IInv, TypeOK
    <1>2. channel' \in Seq(Records \cup {Flush}) /\ Len(channel') = Len(channel) + 1
        BY <1>1, AppendProperties
    <1>3. InChannel' = InChannel \cup {m}
      <2>1. DOMAIN channel = 1 .. Len(channel) /\ DOMAIN channel' = 1 .. (Len(channel) + 1)
        BY <1>1, <1>2
      <2>2. \A i \in 1 .. Len(channel) : channel'[i] = channel[i]
        BY <1>1
      <2>3. channel'[Len(channel) + 1] = m
        BY <1>1
      <2>. QED  BY <1>1, <2>1, <2>2, <2>3 DEF InChannel
    <1>. QED  BY <1>1, <1>2, <1>3

\* A handler puts its record into the channel.
LEMMA SendRecordStep ==
    ASSUME IInv, NEW h \in Handlers, SendRecord(h)
    PROVE  IInv'
    <1>m. PICK m : m = msg[h]
        OBVIOUS
    <1>0. TypeOK /\ now \in Nat
        BY Numbers DEF IInv
    <1>1. /\ hpc[h] = "send" /\ ~closed /\ Len(channel) < QueueSize /\ channel' = Append(channel, m)
          /\ accepted' = accepted \cup {m}
          /\ late' = IF m.t + FlushEvery < now THEN late \cup {m} ELSE late
          /\ AfterSend(h)
          /\ UNCHANGED <<now, status, last, jobs, job, crons, expired, pending, wpc, hand, closed, lpc,
                         cancelled, exited, built, mishaps, failing, lost>>
        BY <1>m DEF SendRecord, db, expiry, worker
    <1>2. m \in Records /\ m.t >= 1
        BY <1>m, <1>1 DEF IInv, WorkerInv
    <1>3. /\ channel' \in Seq(Records \cup {Flush}) /\ Len(channel') <= QueueSize
          /\ InChannel' = InChannel \cup {m}
        BY <1>1, <1>2, SendFact
    <1>4. /\ hpc' \in [Handlers -> {"idle", "send", "save"}]
          /\ msg' \in [Handlers -> Records \cup {None}]
          /\ \A g \in Handlers : hpc'[g] # "idle" => msg'[g] \in Records /\ msg'[g].t >= 1
        BY <1>1, AfterSendFact
    <1>5. wpc \notin {"final", "ended", "dead"}
        BY <1>1 DEF IInv, WorkerInv
    <1>6. TypeOK'
        BY <1>0, <1>1, <1>2, <1>3, <1>4 DEF TypeOK, PendingIds
    <1>7. WorkerInv'
        BY <1>1, <1>2, <1>3, <1>4, <1>5 DEF IInv, WorkerInv
    <1>8. Grows
        BY <1>0, <1>1, <1>2 DEF Grows, TypeOK
    <1>9. RowsGrow
        BY <1>1, Numbers DEF RowsGrow
    <1>10. NothingLostSilently'
      <2>1. UnderWay(m)'
        BY <1>1, <1>3, <1>5 DEF UnderWay, Stopped
      <2>2. ASSUME NEW a \in accepted
            PROVE  (Written(a) \/ UnderWay(a) \/ a \in lost \/ status[a.s] = "gone")'
        <3>1. Written(a) \/ UnderWay(a) \/ a \in lost \/ status[a.s] = "gone"
            BY DEF IInv, NothingLostSilently
        <3>2. UnderWay(a) => UnderWay(a)'
            BY <1>1, <1>3 DEF UnderWay, Stopped
        <3>. QED  BY <1>1, <3>1, <3>2 DEF Written
      <2>. QED  BY <1>1, <2>1, <2>2 DEF NothingLostSilently
    <1>. QED  BY <1>1, <1>6, <1>7, <1>8, <1>9, <1>10, ExpiryKept, OnTimeKept DEF IInv

\* The rest of a request, and the end of a session's row.
LEMMA RequestStep ==
    ASSUME IInv, \/ \E h \in Handlers : SendFails(h) \/ CommitSession(h) \/ CommitFails(h)
                 \/ \E s \in Sessions : DeleteSession(s)
    PROVE  IInv'
    <1>0. TypeOK
        BY DEF IInv
    <1>1. UNCHANGED <<now, last, jobs, job, crons, expired, pending, wpc, hand, channel, closed, lpc,
                      cancelled, exited, failing, accepted, late, lost>>
        BY DEF SendFails, CommitSession, CommitFails, DeleteSession, EndRequest, db, expiry, worker,
               process, history
    <1>2. /\ hpc' \in [Handlers -> {"idle", "send", "save"}]
          /\ msg' \in [Handlers -> Records \cup {None}]
          /\ \A g \in Handlers : hpc'[g] # "idle" => msg'[g] \in Records /\ msg'[g].t >= 1
      <2>0. /\ hpc \in [Handlers -> {"idle", "send", "save"}] /\ msg \in [Handlers -> Records \cup {None}]
            /\ \A g \in Handlers : hpc[g] # "idle" => msg[g] \in Records /\ msg[g].t >= 1
        BY DEF IInv, TypeOK, WorkerInv
      <2>1. CASE \E h \in Handlers : SendFails(h)
        BY <2>1, AfterSendFact DEF SendFails
      <2>2. CASE \E h \in Handlers : CommitSession(h) \/ CommitFails(h)
        BY <2>0, <2>2 DEF CommitSession, CommitFails, EndRequest
      <2>3. CASE \E s \in Sessions : DeleteSession(s)
        BY <2>0, <2>3 DEF DeleteSession, requests
      <2>. QED  BY <2>1, <2>2, <2>3
    <1>3. /\ status' \in [Sessions -> {"unborn", "open", "active", "finished", "gone"}]
          /\ \A s \in Sessions : status[s] = "gone" => status'[s] = "gone"
      <2>1. CASE \E h \in Handlers : SendFails(h)
        BY <1>0, <2>1 DEF SendFails, db, TypeOK
      <2>2. CASE \E h \in Handlers : CommitSession(h) \/ CommitFails(h)
        BY <1>0, <2>2 DEF CommitSession, CommitFails, EndRequest, TypeOK
      <2>3. CASE \E s \in Sessions : DeleteSession(s)
        BY <1>0, <2>3 DEF DeleteSession, TypeOK
      <2>. QED  BY <2>1, <2>2, <2>3
    <1>4. TypeOK'
        BY <1>0, <1>1, <1>2, <1>3 DEF TypeOK, PendingIds
    <1>5. WorkerInv'
        BY <1>1, <1>2 DEF IInv, WorkerInv, InChannel
    <1>6. RowsGrow
        BY <1>1, <1>3, Numbers DEF RowsGrow
    <1>. QED  BY <1>1, <1>4, <1>5, <1>6, PlainStep

-----------------------------------------------------------------------------
(***************************************************************************)
(* The worker, the flush loop and the end of the process.                  *)
(***************************************************************************)
\* Flags of the shutdown and places of the flush loop.
LEMMA FlagStep ==
    ASSUME IInv, CloseReceiver \/ LoopTicks \/ LoopEnds \/ LoopGetsError \/ SoftShutdown \/ ReceiveNone
    PROVE  IInv'
    <1>0. TypeOK
        BY DEF IInv
    <1>1. UNCHANGED <<now, status, last, jobs, job, crons, expired, pending, hand, channel, exited,
                      hpc, msg, built, mishaps, failing, accepted, late, lost>>
        BY DEF CloseReceiver, LoopTicks, LoopEnds, LoopGetsError, SoftShutdown, ReceiveNone,
               db, expiry, worker, process, requests, history
    <1>2. /\ closed' \in {closed, TRUE} /\ cancelled' \in {cancelled, TRUE}
          /\ lpc' \in {lpc, "wait", "send", "ended"}
        BY DEF CloseReceiver, LoopTicks, LoopEnds, LoopGetsError, SoftShutdown, ReceiveNone, process
    <1>3. wpc' = wpc \/ (wpc = "recv" /\ wpc' = "final" /\ closed /\ channel = <<>>)
        BY DEF CloseReceiver, LoopTicks, LoopEnds, LoopGetsError, SoftShutdown, ReceiveNone, worker
    <1>4. TypeOK'
      <2>1. {closed', cancelled', exited'} \subseteq BOOLEAN
        BY <1>0, <1>1, <1>2 DEF TypeOK
      <2>2. lpc' \in {"wait", "send", "reply", "ended"}
        BY <1>0, <1>2 DEF TypeOK
      <2>. QED  BY <1>0, <1>1, <1>3, <2>1, <2>2 DEF TypeOK, PendingIds
    <1>5. WorkerInv'
      <2>1. closed => closed'
        BY <1>2
      <2>. QED  BY <1>1, <1>3, <2>1 DEF IInv, WorkerInv, InChannel
    <1>6. RowsGrow /\ Grows
        BY <1>0, <1>1, Numbers DEF RowsGrow, Grows, TypeOK
    <1>7. NothingLostSilently'
        BY <1>1, <1>3 DEF IInv, NothingLostSilently, Written, UnderWay, Stopped, InChannel
    <1>. QED  BY <1>1, <1>4, <1>5, <1>6, <1>7, ExpiryKept, OnTimeKept DEF IInv

\* flush_loop asks for a flush.
LEMMA LoopAsksStep ==
    ASSUME IInv, LoopAsks
    PROVE  IInv'
    <1>0. TypeOK
        BY DEF IInv
    <1>1. /\ ~closed /\ Len(channel) < QueueSize /\ channel' = Append(channel, Flush) /\ lpc' = "reply"
          /\ UNCHANGED <<now, status, last, jobs, job, crons, expired, pending, wpc, hand, closed,
                         cancelled, exited, hpc, msg, built, mishaps, failing, accepted, late, lost>>
        BY DEF LoopAsks, db, expiry, worker, requests, history
    <1>2. /\ channel' \in Seq(Records \cup {Flush}) /\ Len(channel') <= QueueSize
          /\ InChannel' = InChannel \cup {Flush}
        BY <1>1, SendFact
    <1>3. TypeOK'
        BY <1>0, <1>1, <1>2 DEF TypeOK, PendingIds
    <1>4. WorkerInv'
        BY <1>1, <1>2 DEF IInv, WorkerInv
    <1>5. RowsGrow /\ Grows
        BY <1>0, <1>1, Numbers DEF RowsGrow, Grows, TypeOK
    <1>6. NothingLostSilently'
        BY <1>1, <1>2 DEF IInv, NothingLostSilently, Written, UnderWay, Stopped
    <1>. QED  BY <1>1, <1>3, <1>4, <1>5, <1>6, ExpiryKept, OnTimeKept DEF IInv

\* A message is taken from the front of the channel.
LEMMA ReceiveFact ==
    ASSUME IInv, channel # <<>>, channel' = Tail(channel), NEW m, m = Head(channel)
    PROVE  /\ m \in Records \cup {Flush} /\ m \in InChannel
           /\ channel' \in Seq(Records \cup {Flush}) /\ Len(channel') <= QueueSize
           /\ InChannel' \subseteq InChannel /\ InChannel \subseteq InChannel' \cup {m}
    <1>1. /\ channel \in Seq(Records \cup {Flush}) /\ Len(channel) \in Nat /\ QueueSize \in Nat
          /\ Len(channel) <= QueueSize
        BY ConstantFacts DEF IInv, TypeOK
    <1>2. /\ m \in Records \cup {Flush} /\ channel' \in Seq(Records \cup {Flush})
          /\ Len(channel') = Len(channel) - 1
        BY <1>1, HeadTailProperties
    <1>3. Len(channel) >= 1
        BY <1>1
    <1>4. /\ DOMAIN channel = 1 .. Len(channel) /\ DOMAIN channel' = 1 .. (Len(channel) - 1)
          /\ m = channel[1] /\ \A i \in 1 .. (Len(channel) - 1) : channel'[i] = channel[i + 1]
        BY <1>1, <1>2, <1>3
    <1>5. m \in InChannel /\ InChannel' \subseteq InChannel
      <2>1. \A i \in 1 .. (Len(channel) - 1) : i + 1 \in 1 .. Len(channel)
        BY <1>1
      <2>. QED  BY <1>1, <1>3, <1>4, <2>1 DEF InChannel
    <1>6. ASSUME NEW i \in 1 .. Len(channel)
          PROVE  channel[i] = m \/ channel[i] \in InChannel'
      <2>1. CASE i = 1
        BY <1>4, <2>1
      <2>2. CASE i # 1
        <3>1. i - 1 \in 1 .. (Len(channel) - 1) /\ (i - 1) + 1 = i
            BY <1>1, <2>2
        <3>2. channel'[i - 1] = channel[i]
            BY <1>4, <3>1
        <3>. QED  BY <1>4, <3>1, <3>2 DEF InChannel
      <2>. QED  BY <2>1, <2>2
    <1>7. InChannel \subseteq InChannel' \cup {m}
        BY <1>4, <1>6 DEF InChannel
    <1>. QED  BY <1>1, <1>2, <1>5, <1>7

\* A record moves from the channel to pending_records, or waits for room.
LEMMA ReceiveRecordStep ==
    ASSUME IInv, ReceiveRecord
    PROVE  IInv'
    <1>m. PICK m : m = Head(channel)
        OBVIOUS
    <1>0. TypeOK /\ pending \in [Sessions -> Times]
        BY DEF IInv, TypeOK
    <1>1. /\ wpc = "recv" /\ channel # <<>> /\ m # Flush /\ channel' = Tail(channel)
          /\ UNCHANGED <<now, status, last, jobs, job, crons, expired, closed, lpc, cancelled, exited,
                         hpc, msg, built, mishaps, failing, accepted, late, lost>>
        BY <1>m DEF ReceiveRecord, db, expiry, requests, history
    <1>2. /\ channel' \in Seq(Records \cup {Flush}) /\ Len(channel') <= QueueSize
          /\ InChannel' \subseteq InChannel /\ InChannel \subseteq InChannel' \cup {m}
          /\ m \in Records \cup {Flush} /\ m \in InChannel
        BY <1>m, <1>1, ReceiveFact
    <1>3. m \in Records /\ m \in accepted /\ hand = None
        BY <1>1, <1>2 DEF IInv, WorkerInv
    <1>4. RowsGrow /\ Grows
        BY <1>0, <1>1, Numbers DEF RowsGrow, Grows, TypeOK
    <1>5. ASSUME NEW a \in accepted, wpc' \in {"recv", "room"},
                 UnderWay(a) => UnderWay(a)'
          PROVE  (Written(a) \/ UnderWay(a) \/ a \in lost \/ status[a.s] = "gone")'
        BY <1>1, <1>5 DEF IInv, NothingLostSilently, Written
    <1>6. CASE Cardinality(PendingIds) >= MaxPending
      <2>1. wpc' = "room" /\ hand' = m /\ pending' = pending
        BY <1>m, <1>6 DEF ReceiveRecord
      <2>2. TypeOK'
        BY <1>0, <1>1, <1>2, <1>3, <2>1 DEF TypeOK, PendingIds
      <2>3. WorkerInv'
        BY <1>1, <1>2, <1>3, <2>1 DEF IInv, WorkerInv
      <2>4. ASSUME NEW a \in accepted, UnderWay(a)
            PROVE  UnderWay(a)'
        <3>1. a # None
            BY Numbers, RecordFact
        <3>2. a \in InChannel \/ pending[a.s] >= a.t
            BY <1>3, <2>4, <3>1 DEF UnderWay
        <3>. QED  BY <1>2, <2>1, <3>2 DEF UnderWay, Stopped
      <2>5. NothingLostSilently'
        BY <1>1, <1>5, <2>1, <2>4 DEF NothingLostSilently
      <2>. QED  BY <1>1, <1>4, <2>2, <2>3, <2>5, ExpiryKept, OnTimeKept DEF IInv
    <1>7. CASE ~(Cardinality(PendingIds) >= MaxPending)
      <2>1. wpc' = "recv" /\ hand' = None /\ pending' = Absorb(pending, m)
        BY <1>m, <1>1, <1>3, <1>7 DEF ReceiveRecord
      <2>2. /\ pending' \in [Sessions -> Times] /\ pending'[m.s] >= m.t
            /\ \A s \in Sessions : pending'[s] >= pending[s] /\ pending'[s] \in Nat
            /\ Cardinality({s \in Sessions : pending'[s] # 0}) <= Cardinality(PendingIds) + 1
        <3>1. \A x \in Times : x \in Nat
            BY DEF Times
        <3>2. /\ Absorb(pending, m) \in [Sessions -> Times] /\ Absorb(pending, m)[m.s] >= m.t
              /\ \A s \in Sessions : Absorb(pending, m)[s] >= pending[s]
              /\ Cardinality({s \in Sessions : Absorb(pending, m)[s] # 0}) <=
                 Cardinality({s \in Sessions : pending[s] # 0}) + 1
            BY <1>0, <1>3, AbsorbFact
        <3>. QED  BY <2>1, <3>1, <3>2 DEF PendingIds
      <2>3. Cardinality(PendingIds') <= MaxPending
        <3>1. Cardinality(PendingIds) \in Nat /\ Cardinality(PendingIds') \in Nat
          <4>1. PendingIds \in SUBSET Sessions /\ PendingIds' \in SUBSET Sessions
            BY DEF PendingIds
          <4>. QED  BY <4>1, FiniteSessions
        <3>. QED  BY <1>7, <2>2, <3>1, ConstantFacts DEF PendingIds
      <2>4. TypeOK'
        BY <1>0, <1>1, <1>2, <2>1, <2>2, <2>3 DEF TypeOK
      <2>5. WorkerInv'
        BY <1>1, <1>2, <2>1 DEF IInv, WorkerInv
      <2>6. ASSUME NEW a \in accepted, UnderWay(a)
            PROVE  UnderWay(a)'
        <3>1. a # None /\ a.s \in Sessions /\ a.t \in Nat /\ pending[a.s] \in Nat
            BY Numbers, RecordFact
        <3>2. a \in InChannel' \/ a = m \/ pending[a.s] >= a.t
            BY <1>2, <1>3, <2>6, <3>1 DEF UnderWay
        <3>3. pending[a.s] >= a.t => pending'[a.s] >= a.t
            BY <2>2, <3>1
        <3>. QED  BY <2>1, <2>2, <3>2, <3>3 DEF UnderWay, Stopped
      <2>7. NothingLostSilently'
        BY <1>1, <1>5, <2>1, <2>6 DEF NothingLostSilently
      <2>. QED  BY <1>1, <1>4, <2>4, <2>5, <2>7, ExpiryKept, OnTimeKept DEF IInv
    <1>. QED  BY <1>6, <1>7

\* A request for a flush is no record.
LEMMA ReceiveFlushStep ==
    ASSUME IInv, ReceiveFlush
    PROVE  IInv'
    <1>m. PICK m : m = Head(channel)
        OBVIOUS
    <1>0. TypeOK
        BY DEF IInv
    <1>1. /\ wpc = "recv" /\ channel # <<>> /\ m = Flush /\ channel' = Tail(channel) /\ wpc' = "flush"
          /\ UNCHANGED <<now, status, last, jobs, job, crons, expired, closed, lpc, cancelled, exited,
                         pending, hand, hpc, msg, built, mishaps, failing, accepted, late, lost>>
        BY <1>m DEF ReceiveFlush, db, expiry, requests, history
    <1>2. /\ channel' \in Seq(Records \cup {Flush}) /\ Len(channel') <= QueueSize
          /\ InChannel' \subseteq InChannel /\ InChannel \subseteq InChannel' \cup {m}
        BY <1>m, <1>1, ReceiveFact
    <1>3. RowsGrow /\ Grows
        BY <1>0, <1>1, Numbers DEF RowsGrow, Grows, TypeOK
    <1>4. TypeOK'
        BY <1>0, <1>1, <1>2 DEF TypeOK, PendingIds
    <1>5. WorkerInv'
        BY <1>1, <1>2 DEF IInv, WorkerInv
    <1>6. NothingLostSilently'
      <2>1. ASSUME NEW a \in accepted, UnderWay(a)
            PROVE  UnderWay(a)'
        <3>1. a # Flush
            BY Numbers, RecordFact
        <3>. QED  BY <1>1, <1>2, <2>1, <3>1 DEF UnderWay, Stopped
      <2>. QED  BY <1>1, <2>1 DEF IInv, NothingLostSilently, Written
    <1>. QED  BY <1>1, <1>3, <1>4, <1>5, <1>6, ExpiryKept, OnTimeKept DEF IInv

\* What a flush leaves behind: with the records p pending and the rows at l,
\* every record that was pending is still pending or is written.
LEMMA AfterFlushStep ==
    ASSUME IInv, NEW p \in [Sessions -> Times], NEW l \in [Sessions -> Times], AfterFlush(p, l),
           Flushing, failing' \in BOOLEAN,
           \A s \in Sessions : l[s] >= last[s] /\ (p[s] >= pending[s] \/ l[s] >= pending[s]),
           Cardinality({s \in Sessions : p[s] # 0}) <= MaxPending
    PROVE  IInv'
    <1>. DEFINE ids == {s \in Sessions : p[s] # 0}
    <1>0. TypeOK /\ (\A s \in Sessions : p[s] \in Nat /\ l[s] \in Nat)
        BY DEF IInv, Times
    <1>1. /\ last' = l /\ hand' = None
          /\ UNCHANGED <<now, status, jobs, job, crons, expired, channel, closed, cancelled, exited,
                         hpc, msg, built, accepted, late>>
        BY DEF AfterFlush, expiry, requests
    <1>2. RowsGrow
        BY <1>0, <1>1 DEF RowsGrow
    <1>3. ASSUME lost \subseteq lost', lost' \subseteq accepted,
                 pending' \in [Sessions -> Times], Cardinality(PendingIds') <= MaxPending,
                 wpc' \in {"recv", "ended"}, wpc' = "ended" => wpc = "final",
                 lpc' \in {"wait", "send", "reply", "ended"},
                 \A a \in accepted : UnderWay(a) => Written(a)' \/ UnderWay(a)' \/ a \in lost'
          PROVE  IInv'
      <2>1. Grows
        BY <1>0, <1>1, <1>3, Numbers DEF Grows, TypeOK
      <2>2. TypeOK'
        BY <1>0, <1>1, <1>3 DEF TypeOK
      <2>3. WorkerInv'
        BY <1>1, <1>3 DEF IInv, WorkerInv, InChannel
      <2>4. NothingLostSilently'
        <3>1. ASSUME NEW a \in accepted
              PROVE  (Written(a) \/ UnderWay(a) \/ a \in lost \/ status[a.s] = "gone")'
          <4>1. Written(a) => Written(a)'
            BY <1>0, <1>1, Numbers DEF Written
          <4>2. Written(a) \/ UnderWay(a) \/ a \in lost \/ status[a.s] = "gone"
            BY DEF IInv, NothingLostSilently
          <4>. QED  BY <1>1, <1>3, <4>1, <4>2
        <3>. QED  BY <1>1, <3>1 DEF NothingLostSilently
      <2>. QED  BY <1>1, <1>2, <2>1, <2>2, <2>3, <2>4, ExpiryKept, OnTimeKept DEF IInv
    <1>4. Cardinality(ids) \in Nat /\ Cardinality(ids) <= MaxPending /\ MaxPending \in Nat
      <2>1. ids \in SUBSET Sessions
        OBVIOUS
      <2>. QED  BY <2>1, FiniteSessions, ConstantFacts
    <1>5. ASSUME NEW a \in accepted, pending[a.s] >= a.t
          PROVE  p[a.s] >= a.t \/ Written(a)'
        BY <1>0, <1>1, <1>5, Numbers DEF Written
    <1>6. \A a \in accepted : a # None
        BY Numbers, RecordFact
    <1>7. CASE wpc = "room"
      <2>1. wpc' = "recv" /\ lpc' = lpc /\ hand \in Records /\ hand \in accepted
        BY <1>0, <1>7, NoneAssumption DEF AfterFlush, TypeOK, IInv, WorkerInv
      <2>2. CASE Cardinality(ids) >= MaxPending
        <3>1. pending' = p /\ lost' = lost \cup {hand}
            BY <1>7, <2>2 DEF AfterFlush
        <3>2. PendingIds' = ids
            BY <3>1 DEF PendingIds
        <3>3. \A a \in accepted : UnderWay(a) => Written(a)' \/ UnderWay(a)' \/ a \in lost'
            BY <1>1, <1>5, <2>1, <3>1 DEF UnderWay, Stopped, InChannel
        <3>. QED  BY <1>0, <1>3, <1>4, <2>1, <3>1, <3>2, <3>3 DEF TypeOK
      <2>3. CASE ~(Cardinality(ids) >= MaxPending)
        <3>1. pending' = Absorb(p, hand) /\ lost' = lost
            BY <1>7, <2>3 DEF AfterFlush
        <3>2. /\ Absorb(p, hand) \in [Sessions -> Times] /\ Absorb(p, hand)[hand.s] >= hand.t
              /\ \A s \in Sessions : Absorb(p, hand)[s] >= p[s]
              /\ Cardinality({s \in Sessions : Absorb(p, hand)[s] # 0}) <= Cardinality(ids) + 1
            BY <2>1, AbsorbFact
        <3>3. PendingIds' = {s \in Sessions : Absorb(p, hand)[s] # 0}
            BY <3>1 DEF PendingIds
        <3>4. Cardinality(PendingIds') \in Nat
          <4>1. PendingIds' \in SUBSET Sessions
            BY DEF PendingIds
          <4>. QED  BY <4>1, FiniteSessions
        <3>5. Cardinality(PendingIds') <= MaxPending
            BY <1>4, <2>3, <3>2, <3>3, <3>4
        <3>6. ASSUME NEW a \in accepted, UnderWay(a)
              PROVE  Written(a)' \/ UnderWay(a)'
          <4>1. a \in InChannel \/ a = hand \/ pending[a.s] >= a.t
            BY <3>6 DEF UnderWay
          <4>2. p[a.s] >= a.t => pending'[a.s] >= a.t
            <5>1. pending'[a.s] \in Nat /\ pending'[a.s] >= p[a.s] /\ p[a.s] \in Nat /\ a.t \in Nat
                BY <1>0, <3>1, <3>2, Numbers DEF Times
            <5>. QED  BY <5>1
          <4>3. a = hand => pending'[a.s] >= a.t
            BY <3>1, <3>2
          <4>. QED  BY <1>1, <1>5, <2>1, <4>1, <4>2, <4>3 DEF UnderWay, Stopped, InChannel
        <3>. QED  BY <1>0, <1>3, <2>1, <3>1, <3>2, <3>5, <3>6 DEF TypeOK
      <2>. QED  BY <2>2, <2>3
    <1>8. CASE wpc = "flush"
      <2>1. wpc' = "recv" /\ lpc' = "wait" /\ pending' = p /\ lost' = lost /\ hand = None
        BY <1>8 DEF AfterFlush, IInv, WorkerInv
      <2>2. PendingIds' = ids
        BY <2>1 DEF PendingIds
      <2>3. \A a \in accepted : UnderWay(a) => Written(a)' \/ UnderWay(a)'
        BY <1>1, <1>5, <1>6, <2>1 DEF UnderWay, Stopped, InChannel
      <2>. QED  BY <1>0, <1>3, <1>4, <2>1, <2>2, <2>3 DEF TypeOK
    <1>9. CASE wpc = "final"
      <2>1. /\ wpc' = "ended" /\ lpc' = lpc /\ pending' = NoPending
            /\ lost' = lost \cup {a \in accepted : l[a.s] < a.t /\ p[a.s] >= a.t}
            /\ hand = None /\ InChannel = {}
        <3>1. DOMAIN <<>> = {}
            OBVIOUS
        <3>. QED  BY <1>9, <3>1 DEF AfterFlush, IInv, WorkerInv, InChannel
      <2>2. pending' \in [Sessions -> Times] /\ PendingIds' = {}
        BY <2>1, ConstantFacts DEF NoPending, PendingIds, Times
      <2>3. Cardinality(PendingIds') <= MaxPending
        BY <2>2, FS_EmptySet, ConstantFacts
      <2>4. ASSUME NEW a \in accepted, UnderWay(a)
            PROVE  Written(a)' \/ a \in lost'
        <3>1. pending[a.s] >= a.t
            BY <1>6, <2>1, <2>4 DEF UnderWay
        <3>2. l[a.s] < a.t \/ Written(a)'
            BY <1>0, <1>1, Numbers DEF Written
        <3>. QED  BY <1>5, <2>1, <3>1, <3>2
      <2>. QED  BY <1>0, <1>3, <1>9, <2>1, <2>2, <2>3, <2>4 DEF TypeOK
    <1>. QED  BY <1>7, <1>8, <1>9 DEF Flushing

\* A flush that succeeds, is refused, or fails with its commit in doubt.
LEMMA FlushStep ==
    ASSUME IInv, FlushSucceeds \/ FlushRefused \/ FlushFails
    PROVE  IInv'
    <1>p. PICK p, b, l : p = pending /\ b = BatchActivity /\ l = last
        OBVIOUS
    <1>0. /\ TypeOK /\ p \in [Sessions -> Times] /\ l \in [Sessions -> Times]
          /\ b \in [Sessions -> Times] /\ NoPending \in [Sessions -> Times]
        BY <1>p, BatchFact, ConstantFacts DEF IInv, TypeOK, NoPending, Times
    <1>1. \A s \in Sessions : b[s] >= last[s] /\ b[s] >= pending[s]
        BY <1>p, BatchFact DEF IInv
    <1>2. \A s \in Sessions : l[s] >= last[s] /\ p[s] >= pending[s]
        BY <1>p, Numbers
    <1>3. Cardinality({s \in Sessions : p[s] # 0}) <= MaxPending
        BY <1>p, <1>0 DEF TypeOK, PendingIds
    <1>4. Cardinality({s \in Sessions : NoPending[s] # 0}) <= MaxPending
      <2>1. {s \in Sessions : NoPending[s] # 0} = {}
        BY DEF NoPending
      <2>. QED  BY <2>1, FS_EmptySet, ConstantFacts
    <1>5. CASE FlushSucceeds
        BY <1>p, <1>0, <1>1, <1>4, <1>5, AfterFlushStep DEF FlushSucceeds
    <1>6. CASE FlushRefused
        BY <1>p, <1>0, <1>2, <1>3, <1>6, AfterFlushStep DEF FlushRefused
    <1>7. CASE FlushFails
        BY <1>p, <1>0, <1>1, <1>2, <1>3, <1>7, AfterFlushStep DEF FlushFails
    <1>. QED  BY <1>5, <1>6, <1>7

\* The worker or the process ends, and what it held is counted as lost.
LEMMA EndStep ==
    ASSUME IInv, WorkerCrashes \/ GracefulExit \/ ForcedExit
    PROVE  IInv'
    <1>0. TypeOK
        BY DEF IInv
    <1>1. /\ pending' = NoPending /\ hand' = None /\ wpc' \in {"ended", "dead"}
          /\ channel' = <<>> /\ closed' = TRUE /\ cancelled' \in {cancelled, TRUE}
          /\ exited' \in {exited, TRUE}
          /\ lpc' \in {lpc, "ended"} /\ failing' \in {failing, FALSE}
          /\ UNCHANGED <<now, last, jobs, job, crons, expired, accepted, late>>
        BY DEF WorkerCrashes, GracefulExit, ForcedExit, EndProcess, db, expiry
    <1>2. lost' = lost \cup Unwritten \/ (lost' = lost /\ Stopped)
        BY DEF WorkerCrashes, GracefulExit, ForcedExit, Drained
    <1>3. /\ hpc' \in [Handlers -> {"idle", "send", "save"}]
          /\ msg' \in [Handlers -> Records \cup {None}]
          /\ \A g \in Handlers : hpc'[g] # "idle" => msg'[g] \in Records /\ msg'[g].t >= 1
        BY <1>0 DEF IInv, WorkerInv, WorkerCrashes, GracefulExit, ForcedExit, EndProcess, requests, TypeOK
    <1>4. /\ status' \in [Sessions -> {"unborn", "open", "active", "finished", "gone"}]
          /\ \A s \in Sessions : status[s] = "gone" => status'[s] = "gone"
        BY <1>0 DEF WorkerCrashes, GracefulExit, ForcedExit, EndProcess, db, TypeOK
    <1>5. /\ pending' \in [Sessions -> Times] /\ Cardinality(PendingIds') <= MaxPending
      <2>1. PendingIds' = {}
        BY <1>1 DEF PendingIds, NoPending
      <2>. QED  BY <1>1, <2>1, FS_EmptySet, ConstantFacts DEF NoPending, Times
    <1>6. /\ channel' \in Seq(Records \cup {Flush}) /\ Len(channel') <= QueueSize /\ InChannel' = {}
      <2>1. <<>> \in Seq(Records \cup {Flush}) /\ Len(<<>>) = 0 /\ DOMAIN <<>> = {}
        OBVIOUS
      <2>. QED  BY <1>1, <2>1, ConstantFacts DEF InChannel
    <1>7. Unwritten \subseteq accepted
        BY DEF Unwritten
    <1>8. TypeOK'
      <2>1. {closed', cancelled', exited'} \subseteq BOOLEAN /\ failing' \in BOOLEAN
        BY <1>0, <1>1 DEF TypeOK
      <2>2. lost' \subseteq accepted'
        BY <1>0, <1>1, <1>2, <1>7 DEF TypeOK
      <2>. QED  BY <1>0, <1>1, <1>3, <1>4, <1>5, <1>6, <2>1, <2>2 DEF TypeOK
    <1>9. WorkerInv'
        BY <1>1, <1>3, <1>6 DEF IInv, WorkerInv
    <1>10. RowsGrow /\ Grows
        BY <1>0, <1>1, <1>2, <1>4, Numbers DEF RowsGrow, Grows, TypeOK
    <1>11. NothingLostSilently'
      <2>1. ASSUME NEW a \in accepted
            PROVE  (Written(a) \/ UnderWay(a) \/ a \in lost \/ status[a.s] = "gone")'
        <3>1. Written(a)' <=> Written(a)
            BY <1>1 DEF Written
        <3>2. CASE lost' = lost \cup Unwritten
            BY <3>1, <3>2 DEF Unwritten
        <3>3. CASE lost' = lost /\ Stopped
          <4>1. Written(a) \/ a \in lost \/ status[a.s] = "gone"
            BY <3>3 DEF IInv, NothingLostSilently, UnderWay
          <4>. QED  BY <1>4, <3>1, <3>3, <4>1, Numbers
        <3>. QED  BY <1>2, <3>2, <3>3
      <2>. QED  BY <1>1, <2>1 DEF NothingLostSilently
    <1>. QED  BY <1>1, <1>8, <1>9, <1>10, <1>11, ExpiryKept, OnTimeKept DEF IInv

-----------------------------------------------------------------------------
(***************************************************************************)
(* The expiry jobs.                                                        *)
(***************************************************************************)
\* Steps of the jobs leave the tracker alone.
LEMMA JobStep ==
    ASSUME IInv, ExpiryInv', RowsGrow,
           UNCHANGED <<now, last, pending, wpc, hand, channel, closed, lpc, cancelled, exited,
                       hpc, msg, built, failing, accepted, late, lost>>,
           status' \in [Sessions -> {"unborn", "open", "active", "finished", "gone"}],
           expired' \in [Sessions -> Times], jobs' \subseteq Jobs,
           job' # None => /\ job'.j \in Jobs /\ job'.page \subseteq Sessions /\ job'.next \subseteq Jobs
                          /\ Cardinality(job'.page) <= PageSize
    PROVE  IInv'
    <1>1. TypeOK'
        BY DEF IInv, TypeOK, PendingIds
    <1>2. WorkerInv'
        BY DEF IInv, WorkerInv, InChannel
    <1>3. Grows
        BY Numbers DEF Grows, IInv, TypeOK
    <1>. QED  BY <1>1, <1>2, <1>3, OnTimeKept, NothingLostKept DEF IInv

\* The history does not move, and neither does what was idle.
LEMMA IdleSame ==
    ASSUME UNCHANGED <<accepted, late, lost>>
    PROVE  \A s, th : Idle(s, th) =>
             \A a \in accepted' :
               a.s = s /\ a.t >= th /\ a.t + FlushEvery < th + TTL => a \in late' \cup lost'
    BY DEF Idle

\* The threshold is a TTL before the run.
LEMMA EnqueueStep ==
    ASSUME IInv, EnqueueExpiry
    PROVE  IInv'
    <1>. DEFINE j == [threshold |-> now - TTL, after |-> 0]
    <1>0. TypeOK /\ now \in Nat /\ now <= MaxTime /\ TTL \in Nat
        BY Numbers, ConstantFacts DEF IInv
    <1>1. /\ now >= TTL /\ jobs' = jobs \cup {j}
          /\ UNCHANGED <<now, status, last, job, expired, pending, wpc, hand, channel, closed, lpc,
                         cancelled, exited, hpc, msg, built, mishaps, failing, accepted, late, lost>>
        BY DEF EnqueueExpiry, db, worker, process, requests, history
    <1>2. j \in Jobs /\ j.threshold + TTL <= now
        BY <1>0, <1>1, ConstantFacts DEF Jobs, Times
    <1>. HIDE DEF j
    <1>3. ExpiryInv'
        BY <1>1, <1>2 DEF IInv, ExpiryInv, Idle
    <1>4. RowsGrow
        BY <1>1, Numbers DEF RowsGrow
    <1>. QED  BY <1>0, <1>1, <1>2, <1>3, <1>4, JobStep DEF TypeOK

\* What a page lists was idle: a record of the time in question would be
\* written, and the row would show it, or is counted as late or lost.
LEMMA ListedIdle ==
    ASSUME IInv, NEW j \in jobs, NEW s \in Page(j)
    PROVE  Idle(s, j.threshold)
    <1>0. /\ j \in Jobs /\ j.threshold \in Nat /\ j.threshold + TTL <= now /\ now \in Nat
          /\ TTL \in Nat /\ FlushEvery \in Nat
        BY Numbers, ConstantFacts DEF IInv, TypeOK, ExpiryInv
    <1>1. s \in Sessions /\ last[s] \in Nat /\ last[s] < j.threshold
        BY <1>0, Numbers DEF Page, Inactive
    <1>2. SUFFICES ASSUME NEW a \in accepted, a.s = s, a.t >= j.threshold,
                          a.t + FlushEvery < j.threshold + TTL
                   PROVE  a \in late \cup lost
        BY DEF Idle
    <1>3. a.t \in Nat /\ a.t + FlushEvery < now
        BY <1>0, <1>2, Numbers
    <1>4. ~Written(a)
        BY <1>0, <1>1, <1>2, <1>3 DEF Written
    <1>. QED  BY <1>3, <1>4 DEF IInv, OnTime

\* The expiry job reads a page of idle sessions and plans the next page.
LEMMA ListPageStep ==
    ASSUME IInv, NEW j \in jobs, ListPage(j)
    PROVE  IInv'
    <1>. DEFINE r == [j |-> j, page |-> Page(j), next |-> NextJob(j, Page(j))]
    <1>0. TypeOK /\ j \in Jobs /\ j.threshold + TTL <= now
        BY DEF IInv, TypeOK, ExpiryInv
    <1>1. /\ jobs' = jobs \ {j} /\ job' = r
          /\ UNCHANGED <<now, status, last, crons, expired, pending, wpc, hand, channel, closed, lpc,
                         cancelled, exited, hpc, msg, built, mishaps, failing, accepted, late, lost>>
        BY DEF ListPage, db, worker, process, requests, history
    <1>2. /\ r.j = j /\ r.page \subseteq Sessions /\ r.next \subseteq Jobs
          /\ Cardinality(r.page) <= PageSize
          /\ \A k \in r.next : k.threshold + TTL <= now
        BY <1>0, PageFact
    <1>3. \A s \in r.page : Idle(s, j.threshold)
        BY ListedIdle
    <1>. HIDE DEF r
    <1>4. ExpiryInv'
      <2>1. \A k \in jobs' : k.threshold + TTL <= now'
        BY <1>1 DEF IInv, ExpiryInv
      <2>2. \A s \in job'.page : Idle(s, job.j.threshold)'
        BY <1>1, <1>2, <1>3, IdleSame DEF Idle
      <2>3. \A s \in Sessions : expired'[s] # 0 => expired'[s] + TTL <= now' /\ Idle(s, expired[s])'
        BY <1>1 DEF IInv, ExpiryInv, Idle
      <2>. QED  BY <1>0, <1>1, <1>2, <2>1, <2>2, <2>3 DEF ExpiryInv
    <1>5. RowsGrow
        BY <1>1, Numbers DEF RowsGrow
    <1>. QED  BY <1>0, <1>1, <1>2, <1>4, <1>5, JobStep DEF TypeOK

\* The listed sessions are finished, with the threshold of their page.
LEMMA FinishPageStep ==
    ASSUME IInv, FinishPage
    PROVE  IInv'
    <1>0. TypeOK /\ job # None
        BY DEF IInv, FinishPage
    <1>1. /\ \A s \in job.page : Found(s)
          /\ status' = [s \in Sessions |-> IF s \in job.page THEN "finished" ELSE status[s]]
          /\ expired' = [s \in Sessions |->
                IF s \in job.page /\ status[s] = "active" THEN job.j.threshold ELSE expired[s]]
          /\ jobs' = jobs \cup job.next /\ job' = None
          /\ UNCHANGED <<now, last, crons, pending, wpc, hand, channel, closed, lpc,
                         cancelled, exited, hpc, msg, built, mishaps, failing, accepted, late, lost>>
        BY DEF FinishPage, worker, process, requests, history
    <1>2. /\ job.j \in Jobs /\ job.next \subseteq Jobs /\ job.j.threshold \in Times
          /\ job.j.threshold + TTL <= now /\ \A s \in job.page : Idle(s, job.j.threshold)
          /\ \A k \in job.next : k.threshold + TTL <= now
        BY <1>0 DEF IInv, TypeOK, ExpiryInv, Jobs
    <1>3. ExpiryInv'
      <2>1. \A k \in jobs' : k.threshold + TTL <= now'
        BY <1>1, <1>2 DEF IInv, ExpiryInv
      <2>2. ASSUME NEW s \in Sessions, expired'[s] # 0
            PROVE  expired'[s] + TTL <= now' /\ Idle(s, expired[s])'
        <3>1. CASE s \in job.page /\ status[s] = "active"
          <4>1. expired'[s] = job.j.threshold
            BY <1>1, <3>1
          <4>. QED  BY <1>1, <1>2, <3>1, <4>1 DEF Idle
        <3>2. CASE ~(s \in job.page /\ status[s] = "active")
          <4>1. expired'[s] = expired[s]
            BY <1>1, <3>2
          <4>. QED  BY <1>1, <2>2, <4>1 DEF IInv, ExpiryInv, Idle
        <3>. QED  BY <3>1, <3>2
      <2>. QED  BY <1>1, <2>1, <2>2 DEF ExpiryInv
    <1>4. RowsGrow
      <2>1. \A s \in Sessions : status[s] = "gone" => s \notin job.page
        BY <1>1 DEF Found
      <2>. QED  BY <1>1, <2>1, Numbers DEF RowsGrow
    <1>5. expired' \in [Sessions -> Times]
        BY <1>0, <1>1, <1>2 DEF TypeOK
    <1>6. status' \in [Sessions -> {"unborn", "open", "active", "finished", "gone"}]
        BY <1>0, <1>1 DEF TypeOK
    <1>. QED  BY <1>0, <1>1, <1>2, <1>3, <1>4, <1>5, <1>6, JobStep DEF TypeOK

\* A job that is retried keeps its threshold.
LEMMA JobFailsStep ==
    ASSUME IInv, JobFails
    PROVE  IInv'
    <1>0. TypeOK /\ job # None
        BY DEF IInv, JobFails
    <1>1. /\ jobs' = jobs \cup {job.j} /\ job' = None
          /\ UNCHANGED <<now, status, last, crons, expired, pending, wpc, hand, channel, closed, lpc,
                         cancelled, exited, hpc, msg, built, failing, accepted, late, lost>>
        BY DEF JobFails, db, worker, process, requests, history
    <1>2. job.j \in Jobs /\ job.j.threshold + TTL <= now
        BY <1>0 DEF IInv, TypeOK, ExpiryInv
    <1>3. ExpiryInv'
        BY <1>1, <1>2 DEF IInv, ExpiryInv, Idle
    <1>4. RowsGrow
        BY <1>1, Numbers DEF RowsGrow
    <1>. QED  BY <1>0, <1>1, <1>2, <1>3, <1>4, JobStep DEF TypeOK

-----------------------------------------------------------------------------
(***************************************************************************)
(* The theorems.                                                           *)
(***************************************************************************)
\* Nothing was reported and nothing expired.
LEMMA InitIInv == Init => IInv
    <1>. SUFFICES ASSUME Init
         PROVE  IInv
        OBVIOUS
    <1>0. 0 \in Times /\ 1 \in Times /\ NoPending \in [Sessions -> Times]
        BY ConstantFacts DEF Times, NoPending
    <1>1. PendingIds = {} /\ Cardinality(PendingIds) <= MaxPending
      <2>1. PendingIds = {}
        BY DEF Init, PendingIds, NoPending
      <2>. QED  BY <2>1, FS_EmptySet, ConstantFacts
    <1>2. channel \in Seq(Records \cup {Flush}) /\ Len(channel) <= QueueSize /\ InChannel = {}
      <2>1. <<>> \in Seq(Records \cup {Flush}) /\ Len(<<>>) = 0 /\ DOMAIN <<>> = {}
        OBVIOUS
      <2>. QED  BY <2>1, ConstantFacts DEF Init, InChannel
    <1>3. /\ status \in [Sessions -> {"unborn", "open", "active", "finished", "gone"}]
          /\ last \in [Sessions -> Times] /\ expired \in [Sessions -> Times]
          /\ hpc \in [Handlers -> {"idle", "send", "save"}] /\ msg \in [Handlers -> Records \cup {None}]
        BY <1>0 DEF Init
    <1>4. TypeOK
        BY <1>0, <1>1, <1>2, <1>3 DEF Init, TypeOK
    <1>5. WorkerInv
        BY <1>2 DEF Init, WorkerInv
    <1>6. NothingLostSilently /\ OnTime
        BY DEF Init, NothingLostSilently, OnTime
    <1>7. ExpiryInv
        BY DEF Init, ExpiryInv, NoPending
    <1>. QED  BY <1>4, <1>5, <1>6, <1>7 DEF IInv

\* Every step keeps the invariant.
LEMMA NextIInv == IInv /\ [Next]_vars => IInv'
    <1>. SUFFICES ASSUME IInv, [Next]_vars
         PROVE  IInv'
        OBVIOUS
    <1>1. CASE UNCHANGED vars
      <2>1. UNCHANGED <<now, status, last, jobs, job, crons, expired, pending, wpc, hand, channel, closed, lpc,
                        cancelled, exited, hpc, msg, built, mishaps, failing, accepted, late, lost>>
        BY <1>1 DEF vars, db, expiry, worker, process, requests, history
      <2>2. TypeOK' /\ WorkerInv'
        BY <2>1 DEF IInv, TypeOK, PendingIds, WorkerInv, InChannel
      <2>3. RowsGrow
        BY <2>1, Numbers DEF RowsGrow
      <2>. QED  BY <2>1, <2>2, <2>3, PlainStep
    <1>2. CASE Tick
        BY <1>2, TickStep
    <1>3. CASE \E h \in Handlers, s \in Sessions : UseSession(h, s) \/ StartSession(h, s)
        BY <1>3, ReportStep
    <1>4. CASE \E h \in Handlers : SendRecord(h)
        BY <1>4, SendRecordStep
    <1>5. CASE \/ \E h \in Handlers : SendFails(h) \/ CommitSession(h) \/ CommitFails(h)
               \/ \E s \in Sessions : DeleteSession(s)
        BY <1>5, RequestStep
    <1>6. CASE CloseReceiver \/ LoopTicks \/ LoopEnds \/ LoopGetsError \/ SoftShutdown \/ ReceiveNone
        BY <1>6, FlagStep
    <1>7. CASE ReceiveRecord \/ ReceiveFlush \/ LoopAsks
        BY <1>7, ReceiveRecordStep, ReceiveFlushStep, LoopAsksStep
    <1>8. CASE FlushSucceeds \/ FlushRefused \/ FlushFails
        BY <1>8, FlushStep
    <1>9. CASE WorkerCrashes \/ GracefulExit \/ ForcedExit
        BY <1>9, EndStep
    <1>10. CASE EnqueueExpiry \/ (\E j \in jobs : ListPage(j)) \/ FinishPage \/ JobFails
        BY <1>10, EnqueueStep, ListPageStep, FinishPageStep, JobFailsStep
    <1>. QED  BY <1>1, <1>2, <1>3, <1>4, <1>5, <1>6, <1>7, <1>8, <1>9, <1>10 DEF Next

\* The inductive invariant holds in every reachable state.
THEOREM Invariance == Spec => []IInv
    BY InitIInv, NextIInv, PTL DEF Spec

\* The variables keep their types; the channel, pending_records and the pages
\* keep to their limits.
THEOREM TypeCorrect == Spec => []TypeOK
    <1>1. IInv => TypeOK
        BY DEF IInv
    <1>. QED  BY <1>1, Invariance, PTL

\* No activity that the channel took disappears without a trace.
THEOREM ActivityIsNotLost == Spec => []NothingLostSilently
    <1>1. IInv => NothingLostSilently
        BY DEF IInv
    <1>. QED  BY <1>1, Invariance, PTL

\* A session is expired only if it was idle, but for activity that was not
\* written in time.
THEOREM ExpiresIdleSessions == Spec => []ExpiredWasIdle
    <1>1. ASSUME IInv
          PROVE  ExpiredWasIdle
        BY <1>1, Numbers DEF IInv, ExpiryInv, Idle, ExpiredWasIdle
    <1>. QED  BY <1>1, Invariance, PTL
=============================================================================
