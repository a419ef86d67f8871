---------------------------- MODULE JobContract ----------------------------
(***************************************************************************)
(* What the job queue promises about one enqueued job, whatever happens to *)
(* workers, leases and connections: at any time the job waits, runs, is    *)
(* between two attempts or is over; a success is final; there are at most  *)
(* MaxAttempts retries; and a retry that a worker was about to insert may  *)
(* be lost with that worker.                                               *)
(***************************************************************************)
EXTENDS Naturals

CONSTANTS Jobs, MaxAttempts

VARIABLES phase, tries

Phases == {"absent", "waiting", "running", "retrying", "succeeded", "failed"}

ContractInit ==
    /\ phase = [j \in Jobs |-> "absent"]
    /\ tries = [j \in Jobs |-> 0]

Enqueue(j) == phase[j] = "absent" /\ phase'[j] = "waiting" /\ tries'[j] = 0

Start(j) == phase[j] = "waiting" /\ phase'[j] = "running" /\ tries'[j] = tries[j]

Succeed(j) ==
    phase[j] = "running" /\ phase'[j] = "succeeded" /\ tries'[j] = tries[j]

Fail(j) == phase[j] = "running" /\ phase'[j] = "failed" /\ tries'[j] = tries[j]

PlanRetry(j) ==
    /\ phase[j] = "running" /\ tries[j] < MaxAttempts
    /\ phase'[j] = "retrying" /\ tries'[j] = tries[j]

Retry(j) ==
    phase[j] = "retrying" /\ phase'[j] = "waiting" /\ tries'[j] = tries[j] + 1

LoseRetry(j) ==
    phase[j] = "retrying" /\ phase'[j] = "failed" /\ tries'[j] = tries[j]

Stay(j) == phase'[j] = phase[j] /\ tries'[j] = tries[j]

\* One statement may move several jobs, each along its own life.
ContractNext ==
    \A j \in Jobs :
      \/ Stay(j)
      \/ Enqueue(j) \/ Start(j) \/ Succeed(j) \/ Fail(j)
      \/ PlanRetry(j) \/ Retry(j) \/ LoseRetry(j)

ContractSpec == ContractInit /\ [][ContractNext]_<<phase, tries>>
=============================================================================
