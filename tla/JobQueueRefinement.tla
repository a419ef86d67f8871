------------------------- MODULE JobQueueRefinement -------------------------
(***************************************************************************)
(* The queue implements JobContract. A job is the chain of attempts that   *)
(* began with one row; its phase is the status of the latest attempt.      *)
(***************************************************************************)
EXTENDS JobQueue

Chain(r) == {j \in Existing : origin[j] = r}

Latest(r) == CHOOSE j \in Chain(r) : \A k \in Chain(r) : attempt[k] <= attempt[j]

PhaseOf(r) ==
    IF Chain(r) = {} THEN "absent"
    ELSE CASE status[Latest(r)] \in {"scheduled", "available"} -> "waiting"
           [] status[Latest(r)] = "running" -> "running"
           [] status[Latest(r)] = "completed" -> "succeeded"
           [] OTHER -> IF \E w \in Workers : Latest(r) \in Retrying(w)
                       THEN "retrying" ELSE "failed"

TriesOf(r) == IF Chain(r) = {} THEN 0 ELSE attempt[Latest(r)]

Contract == INSTANCE JobContract WITH
    Jobs <- Rows,
    phase <- [r \in Rows |-> PhaseOf(r)],
    tries <- [r \in Rows |-> TriesOf(r)]

\* Every step of every worker, crashes and stalls included, is a step of the
\* contract or leaves the job's phase alone: no attempt starts before the last
\* one failed, none follows a success, none exceeds the limit.
ImplementsContract == Contract!ContractSpec
=============================================================================
