--------------------------- MODULE UserLifecycle ---------------------------
(***************************************************************************)
(* Accounts and their twins on the Matrix homeserver: who is locked,       *)
(* deactivated or an administrator.                                        *)
(*                                                                         *)
(* The row of a user is changed by the admin API (patch_user,              *)
(* risk_action), by the user (update_profile, deactivate_current_account,  *)
(* claim_bootstrap_admin) and by the jobs DeactivateUserJob and            *)
(* ReactivateUserJob. ProvisionUserJob copies the administrator flag to    *)
(* the homeserver. A handler reads the row, works on its copy and writes   *)
(* it back; most statements write every column of the copy. Two advisory   *)
(* locks, held to the end of a transaction, order some of them: one per    *)
(* user (acquire_lock_for_sync) and one for the whole deployment           *)
(* (acquire_bootstrap_admin_lock).                                         *)
(*                                                                         *)
(* A process is a request handler or a job the worker runs. Every step     *)
(* between two awaits that others can see is an action. Calls to the       *)
(* homeserver take effect at once or fail; commits and connections fail.   *)
(***************************************************************************)
EXTENDS Naturals, FiniteSets

CONSTANTS
    Users,
    Procs,         \* handlers and job tasks that run at the same time
    Kinds,         \* the requests that occur
    Patches,       \* the bodies of PATCH /users/:id that occur
    MaxRequests,   \* bound on the requests
    MaxMishaps,    \* bound on failing steps
    None

Fields == {"admin", "locked", "deactivated"}
AllPatches == UNION {[D -> BOOLEAN] : D \in SUBSET Fields}
RequestKinds == {"patch", "risk", "self", "profile", "claim", "cliReactivate"}
JobKinds == {"provision", "deactivate", "reactivate"}

ASSUME ConstantsAssumption ==
    /\ Kinds \subseteq RequestKinds
    /\ Patches \subseteq AllPatches \ {<<>>}
    /\ MaxRequests \in Nat /\ MaxMishaps \in Nat
    /\ IsFiniteSet(Procs)
    /\ None \notin Procs \cup Users \cup RequestKinds \cup JobKinds

VARIABLES
    \* users: the committed columns, and who holds the row's lock
    row, rowBy,
    \* the two advisory locks
    syncBy, bootBy,
    \* queue_jobs: jobs committed and not yet finished, per kind and user
    jobs,
    \* the homeserver's account
    hs,
    \* a process: where it is, what it does, its copy of the row, the row it
    \* wrote and the jobs it inserted, both uncommitted
    pc, op, copy, written, inserted,
    \* bounds, and what went wrong in a way that a property allows for
    requests, mishaps, lapses

dbVars == <<row, rowBy, syncBy, bootBy, jobs>>
procVars == <<pc, op, copy, written, inserted>>
ghostVars == <<requests, mishaps, lapses>>
vars == <<dbVars, hs, procVars, ghostVars>>

Rows == [Fields -> BOOLEAN]
NewUser == [f \in Fields |-> FALSE]
NoOp == [kind |-> None, user |-> None, patch |-> <<>>]
PCs == {"idle", "read", "sync", "guard", "update", "reactivate", "revoke",
        "push", "save", "grant", "delete"}
\* A write from a copy that was out of date; a deactivation job that hits an
\* account which is active again; a grant pushed after the flag was revoked; a
\* homeserver call made for a transaction that did not commit; a reactivation
\* that crosses a deactivation job on its way to the homeserver.
LapseKinds == {"stale", "lateDeactivation", "lateGrant", "lostCommit", "crossed"}

IsValid(r) == ~r.locked /\ ~r.deactivated
ActiveAdmins == {u \in Users : row[u].admin /\ IsValid(row[u])}
Admins == {u \in Users : row[u].admin}
Quiet ==
    /\ \A p \in Procs : pc[p] = "idle"
    /\ \A k \in JobKinds, u \in Users : jobs[k][u] = 0
-----------------------------------------------------------------------------
Init ==
    /\ row \in [Users -> {r \in Rows : ~r.locked /\ ~r.deactivated}]
    /\ rowBy = [u \in Users |-> None]
    /\ syncBy = [u \in Users |-> None]
    /\ bootBy = None
    /\ jobs = [k \in JobKinds |-> [u \in Users |-> 0]]
    /\ hs = [u \in Users |-> [admin |-> row[u].admin, deactivated |-> FALSE]]
    /\ pc = [p \in Procs |-> "idle"]
    /\ op = [p \in Procs |-> NoOp]
    /\ copy = [p \in Procs |-> NewUser]
    /\ written = [p \in Procs |-> NewUser]
    /\ inserted = [p \in Procs |-> {}]
    /\ requests = 0
    /\ mishaps = 0
    /\ lapses = {}

Goto(p, label) == pc' = [pc EXCEPT ![p] = label]
User(p) == op[p].user

\* The change each kind makes to the columns; update_profile changes none that
\* is modelled.
Change(k) ==
    CASE k = "risk" -> [f \in {"locked"} |-> TRUE]
      [] k \in {"self", "deactivate"} -> [f \in {"deactivated"} |-> TRUE]
      [] k = "reactivate" -> [f \in {"deactivated"} |-> FALSE]
      [] k = "claim" -> [f \in {"admin"} |-> TRUE]
      [] OTHER -> <<>>

Locking(k) == k \in {"patch", "provision"}

Start(p, k, u, patch) ==
    /\ op' = [op EXCEPT ![p] = [kind |-> k, user |-> u, patch |-> patch]]
    /\ Goto(p, IF Locking(k) THEN "sync" ELSE "read")

\* A request arrives. The admin API serves active administrators, a session is
\* only active while its user is (deactivate_current_account works on the user
\* that came with the session), and the CLI needs neither.
Request(p, k, u, patch) ==
    /\ pc[p] = "idle" /\ requests < MaxRequests   \* bound
    /\ k \in {"patch", "risk"} => ActiveAdmins # {}
    /\ k \in {"profile", "claim"} => IsValid(row[u])
    /\ Start(p, k, u, patch)
    /\ requests' = requests + 1
    /\ UNCHANGED <<dbVars, hs, copy, written, inserted, mishaps, lapses>>

\* The worker starts a job. It stays in jobs until it is done: a task that
\* fails is retried.
RunJob(p, k, u) ==
    /\ pc[p] = "idle" /\ jobs[k][u] > 0
    /\ Cardinality({q \in Procs : op[q].kind = k /\ User(q) = u}) < jobs[k][u]
    /\ Start(p, k, u, Change(k))
    /\ UNCHANGED <<dbVars, hs, copy, written, inserted, ghostVars>>

\* The end of a transaction that changed nothing, or is rolled back.
Release(p) ==
    /\ rowBy' = [u \in Users |-> IF rowBy[u] = p THEN None ELSE rowBy[u]]
    /\ syncBy' = [u \in Users |-> IF syncBy[u] = p THEN None ELSE syncBy[u]]
    /\ bootBy' = IF bootBy = p THEN None ELSE bootBy

\* What the process is once it is done.
Idle(p) ==
    /\ Goto(p, "idle")
    /\ op' = [op EXCEPT ![p] = NoOp]
    /\ copy' = [copy EXCEPT ![p] = NewUser]
    /\ written' = [written EXCEPT ![p] = NewUser]
    /\ inserted' = [inserted EXCEPT ![p] = {}]

RemovesActiveAdmin(r, patch) ==
    /\ r.admin /\ IsValid(r)
    /\ \E f \in DOMAIN patch : patch[f] = (f # "admin")
-----------------------------------------------------------------------------
(***************************************************************************)
(* Reading the row.                                                        *)
(***************************************************************************)
\* lookup without a lock. The "last administrator" check of risk_action and
\* of deactivate_current_account is decided on this copy.
ReadUser(p) ==
    /\ pc[p] = "read"
    /\ op[p].kind = "self" => IsValid(row[User(p)])
    /\ LET r == row[User(p)]
           k == op[p].kind IN
       /\ copy' = [copy EXCEPT ![p] = r]
       /\ Goto(p, CASE k = "risk" /\ r.admin /\ IsValid(r) -> "guard"
                    [] k = "self" /\ r.admin -> "guard"
                    [] k = "claim" -> "guard"
                    [] k = "reactivate" -> "reactivate"
                    [] k = "cliReactivate" -> "save"
                    [] OTHER -> "update")
       /\ inserted' = [inserted EXCEPT ![p] =
                         IF k = "cliReactivate" THEN {"reactivate"} ELSE {}]
    /\ UNCHANGED <<dbVars, hs, op, written, ghostVars>>

\* The session of deactivate_current_account is not active.
Unauthorized(p) ==
    /\ pc[p] = "read" /\ op[p].kind = "self" /\ ~IsValid(row[User(p)])
    /\ Idle(p)
    /\ UNCHANGED <<dbVars, hs, ghostVars>>

\* Mutant: the row read before the lock is used.
StaleLockForSync(p) ==
    /\ pc[p] = "sync"
    /\ copy' = [copy EXCEPT ![p] = row[User(p)]]
    /\ Goto(p, CASE op[p].kind = "provision" -> "push"
                 [] RemovesActiveAdmin(row[User(p)], op[p].patch) -> "guard"
                 [] OTHER -> "update")
    /\ UNCHANGED <<dbVars, hs, op, written, inserted, ghostVars>>

\* acquire_lock_for_sync, then the second lookup, under the lock.
AcquireLockForSync(p) ==
    LET u == User(p) IN
    /\ pc[p] = "sync" /\ syncBy[u] = None
    /\ syncBy' = [syncBy EXCEPT ![u] = p]
    /\ copy' = [copy EXCEPT ![p] = row[u]]
    /\ Goto(p, CASE op[p].kind = "provision" -> "push"
                 [] RemovesActiveAdmin(row[u], op[p].patch) -> "guard"
                 [] OTHER -> "update")
    /\ UNCHANGED <<row, rowBy, bootBy, jobs, hs, op, written, inserted, ghostVars>>

\* An administrator remains besides the one about to be removed; a bootstrap
\* claim wants none to exist, deactivated ones included.
GuardHolds(p) ==
    IF op[p].kind = "claim" THEN Admins = {} ELSE Cardinality(ActiveAdmins) > 1

\* Mutant: the check without its lock.
UnlockedGuard(p) ==
    /\ pc[p] = "guard"
    /\ IF GuardHolds(p)
       THEN /\ Goto(p, "update")
            /\ UNCHANGED <<dbVars, op, copy, written, inserted>>
       ELSE /\ Release(p) /\ Idle(p) /\ UNCHANGED <<row, jobs>>
    /\ UNCHANGED <<hs, ghostVars>>

\* acquire_bootstrap_admin_lock, then the count of administrators.
Guard(p) ==
    /\ pc[p] = "guard" /\ bootBy = None
    /\ IF GuardHolds(p)
       THEN /\ bootBy' = p
            /\ Goto(p, "update")
            /\ UNCHANGED <<row, rowBy, syncBy, jobs, op, copy, written, inserted>>
       ELSE /\ Release(p) /\ Idle(p) /\ UNCHANGED <<row, jobs>>
    /\ UNCHANGED <<hs, ghostVars>>
-----------------------------------------------------------------------------
(***************************************************************************)
(* Writing the row.                                                        *)
(***************************************************************************)
\* UserRepository::patch, through which lock, deactivate and update_profile go
\* too, writes every column of the copy; the others write one column.
WritesAllColumns(k) == k \in {"patch", "risk", "self", "profile", "deactivate"}

\* The early returns of patch, lock, deactivate and reactivate. An
\* administrator flag, and any field of a profile, always count as a change.
Changes(p) ==
    \/ op[p].kind = "profile"
    \/ "admin" \in DOMAIN op[p].patch
    \/ \E f \in DOMAIN op[p].patch : op[p].patch[f] # copy[p][f]

WrittenRow(p) ==
    LET base == IF WritesAllColumns(op[p].kind) THEN copy[p] ELSE row[User(p)] IN
    [f \in Fields |-> IF f \in DOMAIN op[p].patch THEN op[p].patch[f] ELSE base[f]]

Updated(p) ==
    [f \in Fields |-> IF f \in DOMAIN op[p].patch THEN op[p].patch[f] ELSE copy[p][f]]

AdminChanged(p) == op[p].kind = "patch" /\ Updated(p).admin # copy[p].admin
Deactivates(p) ==
    \/ op[p].kind = "self"
    \/ op[p].kind = "patch" /\ Updated(p).deactivated /\ ~copy[p].deactivated
Reactivates(p) ==
    op[p].kind = "patch" /\ copy[p].deactivated /\ ~Updated(p).deactivated
Revokes(p) == AdminChanged(p) /\ ~Updated(p).admin

AfterUpdate(p) ==
    IF Reactivates(p) THEN "reactivate" ELSE IF Revokes(p) THEN "revoke" ELSE "save"

\* Mutant: the jobs are not part of the transaction.
JoblessUpdate(p) ==
    LET u == User(p) IN
    /\ pc[p] = "update" /\ rowBy[u] = None
    /\ rowBy' = [rowBy EXCEPT ![u] = p]
    /\ written' = [written EXCEPT ![p] = WrittenRow(p)]
    /\ Goto(p, AfterUpdate(p))
    /\ UNCHANGED <<row, syncBy, bootBy, jobs, hs, op, copy, inserted, ghostVars>>

\* The UPDATE waits for the row's lock; the jobs are inserted in the same
\* transaction.
Update(p) ==
    LET u == User(p)
        k == op[p].kind IN
    /\ pc[p] = "update"
    /\ IF Changes(p)
       THEN /\ rowBy[u] = None
            /\ rowBy' = [rowBy EXCEPT ![u] = p]
            /\ written' = [written EXCEPT ![p] = WrittenRow(p)]
            /\ lapses' = lapses \cup
                 (IF WritesAllColumns(k) /\ copy[p] # row[u]
                  THEN {<<"stale", u>>} ELSE {}) \cup
                 (IF k = "deactivate" THEN {<<"lateDeactivation", u>>} ELSE {})
       ELSE UNCHANGED <<rowBy, written, lapses>>
    /\ inserted' = [inserted EXCEPT ![p] =
         (IF Deactivates(p) THEN {"deactivate"} ELSE {}) \cup
         (IF AdminChanged(p) \/ k = "claim" THEN {"provision"} ELSE {})]
    /\ Goto(p, AfterUpdate(p))
    /\ UNCHANGED <<row, syncBy, bootBy, jobs, hs, op, copy, requests, mishaps>>

-----------------------------------------------------------------------------
(***************************************************************************)
(* Calls to the homeserver, and the commit.                                *)
(***************************************************************************)
\* reactivate_user: patch_user calls it before its commit, ReactivateUserJob
\* before it touches the row.
HsReactivate(p) ==
    /\ pc[p] = "reactivate"
    /\ hs' = [hs EXCEPT ![User(p)].deactivated = FALSE]
    /\ Goto(p, CASE op[p].kind = "reactivate" -> "update"
                 [] Revokes(p) -> "revoke"
                 [] OTHER -> "save")
    /\ UNCHANGED <<dbVars, op, copy, written, inserted, ghostVars>>

\* patch_user pushes a revocation as its last step before the commit.
HsRevoke(p) ==
    /\ pc[p] = "revoke"
    /\ hs' = [hs EXCEPT ![User(p)].admin = FALSE]
    /\ Goto(p, "save")
    /\ UNCHANGED <<dbVars, op, copy, written, inserted, ghostVars>>

\* ProvisionUserJob pushes the flag it read under the lock.
HsProvision(p) ==
    /\ pc[p] = "push"
    /\ hs' = [hs EXCEPT ![User(p)].admin = copy[p].admin]
    /\ Goto(p, "save")
    /\ UNCHANGED <<dbVars, op, copy, written, inserted, ghostVars>>

\* Mutant: a job is finished by its commit and by its last call.
EagerJobsAfter(p, done) ==
    [k \in JobKinds |-> [u \in Users |->
        LET added == IF u = User(p) /\ k \in inserted[p] THEN 1 ELSE 0
            gone == IF u = User(p) /\ k = op[p].kind THEN 1 ELSE 0 IN
        jobs[k][u] + added - gone]]

\* The jobs after p's commit: the ones it inserted are there, and a job that
\* has nothing left to do is finished.
JobsAfter(p, done) ==
    [k \in JobKinds |-> [u \in Users |->
        LET added == IF u = User(p) /\ k \in inserted[p] THEN 1 ELSE 0
            gone == IF done /\ u = User(p) /\ k = op[p].kind THEN 1 ELSE 0 IN
        jobs[k][u] + added - gone]]

GrantFollows(p) ==
    /\ op[p].kind = "patch"
    /\ "admin" \in DOMAIN op[p].patch /\ op[p].patch["admin"]

\* COMMIT. What follows it: push_admin_grant, or delete_user.
Save(p) ==
    LET u == User(p)
        more == GrantFollows(p) \/ op[p].kind = "deactivate" IN
    /\ pc[p] = "save"
    /\ row' = IF rowBy[u] = p THEN [row EXCEPT ![u] = written[p]] ELSE row
    /\ jobs' = JobsAfter(p, ~more)
    /\ Release(p)
    /\ lapses' = IF /\ Reactivates(p) \/ op[p].kind = "reactivate"
                    /\ \/ jobs["deactivate"][u] > 0
                       \/ hs[u].deactivated
                       \/ row'[u].deactivated
                 THEN lapses \cup {<<"crossed", u>>} ELSE lapses
    /\ IF more
       THEN /\ Goto(p, IF GrantFollows(p) THEN "grant" ELSE "delete")
            /\ written' = [written EXCEPT ![p] = NewUser]
            /\ inserted' = [inserted EXCEPT ![p] = {}]
            /\ UNCHANGED <<op, copy>>
       ELSE Idle(p)
    /\ UNCHANGED <<hs, requests, mishaps>>

\* push_admin_grant: after the commit, without the lock, best effort.
PushAdminGrant(p) ==
    LET u == User(p) IN
    /\ pc[p] = "grant"
    /\ hs' = [hs EXCEPT ![u].admin = TRUE]
    /\ lapses' = IF row[u].admin THEN lapses ELSE lapses \cup {<<"lateGrant", u>>}
    /\ Idle(p)
    /\ UNCHANGED <<dbVars, requests, mishaps>>

\* DeactivateUserJob ends with delete_user, after its commit.
HsDelete(p) ==
    LET u == User(p) IN
    /\ pc[p] = "delete"
    /\ hs' = [hs EXCEPT ![u].deactivated = TRUE]
    /\ jobs' = JobsAfter(p, TRUE)
    /\ Idle(p)
    /\ UNCHANGED <<row, rowBy, syncBy, bootBy, ghostVars>>

\* A statement, the commit or a homeserver call fails, the client disconnects
\* or the process stops: the transaction is rolled back. A job is retried.
Fail(p) ==
    /\ pc[p] # "idle" /\ mishaps < MaxMishaps   \* bound
    /\ Release(p)
    /\ Idle(p)
    /\ mishaps' = mishaps + 1
    /\ lapses' = IF \/ pc[p] \in {"revoke", "save"} /\ Reactivates(p)
                    \/ pc[p] = "save" /\ Revokes(p)
                 THEN lapses \cup {<<"lostCommit", User(p)>>} ELSE lapses
    /\ UNCHANGED <<row, jobs, hs, requests>>
-----------------------------------------------------------------------------
Step(p) ==
    \/ ReadUser(p) \/ Unauthorized(p) \/ AcquireLockForSync(p) \/ Guard(p) \/ Update(p)
    \/ HsReactivate(p) \/ HsRevoke(p) \/ HsProvision(p) \/ Save(p)
    \/ PushAdminGrant(p) \/ HsDelete(p)

\* Everything that was asked for is done.
Terminated == Quiet /\ requests = MaxRequests /\ UNCHANGED vars

Next ==
    \/ Terminated
    \/ \E p \in Procs :
        \/ \E u \in Users :
             \/ \E k \in Kinds \ {"patch"} : Request(p, k, u, Change(k))
             \/ \E patch \in Patches : "patch" \in Kinds /\ Request(p, "patch", u, patch)
             \/ \E k \in JobKinds : RunJob(p, k, u)
        \/ Step(p)
        \/ Fail(p)

Spec == Init /\ [][Next]_vars
-----------------------------------------------------------------------------
TypeOK ==
    /\ row \in [Users -> Rows]
    /\ rowBy \in [Users -> Procs \cup {None}]
    /\ syncBy \in [Users -> Procs \cup {None}]
    /\ bootBy \in Procs \cup {None}
    /\ jobs \in [JobKinds -> [Users -> Nat]]
    /\ hs \in [Users -> [admin : BOOLEAN, deactivated : BOOLEAN]]
    /\ pc \in [Procs -> PCs]
    /\ \A p \in Procs :
         /\ op[p].kind \in RequestKinds \cup JobKinds \cup {None}
         /\ pc[p] # "idle" => op[p].kind # None /\ User(p) \in Users
         /\ op[p].patch \in AllPatches
    /\ copy \in [Procs -> Rows]
    /\ written \in [Procs -> Rows]
    /\ inserted \in [Procs -> SUBSET JobKinds]
    /\ requests \in 0 .. MaxRequests
    /\ mishaps \in 0 .. MaxMishaps
    /\ lapses \subseteq LapseKinds \X Users

Lapsed(kinds, u) == \E k \in kinds : <<k, u>> \in lapses

\* No step takes the last active administrator away, however demotions, locks
\* and deactivations of several administrators overlap, except by a write from
\* an outdated copy or a deactivation job that comes after a reactivation.
LastAdminKept ==
    [][ActiveAdmins # {} /\ ActiveAdmins' = {} =>
         \E u \in Users : Lapsed({"stale", "lateDeactivation"}, u)]_vars

\* As the code has it: "Never leave the deployment without an active
\* administrator" (patch_user, deactivate_current_account).
NeverWithoutAdmin == [][ActiveAdmins # {} => ActiveAdmins' # {}]_vars

\* A bootstrap claim never makes a second administrator, however many claims
\* run at once: when one commits, no user has the flag. With the exceptions of
\* LastAdminKept: requests of an administrator may be under way after the last
\* one is gone.
BootstrapOnce ==
    [][\A p \in Procs :
         op[p].kind = "claim" /\ pc[p] = "save" /\ row' # row
           => Admins = {} \/ \E u \in Users : Lapsed({"stale", "lateDeactivation"}, u)]_vars

\* Once requests and jobs are done the homeserver has the administrator flag
\* that was committed last, whatever failed and was retried on the way. It
\* differs only after a grant was pushed over a later revocation, a revocation
\* was pushed and not committed, or an outdated copy was written.
AdminFlagConverges ==
    Quiet => \A u \in Users :
      \/ hs[u].admin = row[u].admin
      \/ Lapsed({"lateGrant", "lostCommit", "stale"}, u)

\* Likewise an account is deactivated on the homeserver exactly when it is
\* here, unless a reactivation crossed a deactivation on its way there or was
\* made for a transaction that did not commit.
DeactivationConverges ==
    Quiet => \A u \in Users :
      \/ hs[u].deactivated = row[u].deactivated
      \/ Lapsed({"crossed", "lostCommit", "stale"}, u)
=============================================================================
