------------------------ MODULE UserLifecycleProofs ------------------------
(***************************************************************************)
(* Proofs about UserLifecycle, for any number of users, processes and      *)
(* requests: the last active administrator stays, a bootstrap claim finds  *)
(* no administrator, and the homeserver ends with the flags that were      *)
(* committed, each with the exceptions the property names.                 *)
(***************************************************************************)
EXTENDS UserLifecycle, FiniteSetTheorems, TLAPS

Kind(p) == op[p].kind
Patch(p) == op[p].patch

\* The process has made its UPDATE, if it has one to make.
Wrote(p) ==
    pc[p] \in {"revoke", "save"} \/ (pc[p] = "reactivate" /\ Kind(p) = "patch")

Loose == \E u \in Users : Lapsed({"stale", "lateDeactivation"}, u)
AdminLapse(u) == Lapsed({"lateGrant", "lostCommit", "stale"}, u)
DeactivationLapse(u) == Lapsed({"crossed", "lostCommit", "stale"}, u)

Ops == [kind : RequestKinds \cup JobKinds \cup {None}, user : Users \cup {None},
        patch : AllPatches]

\* Where a process of each kind can be, and the jobs it has inserted.
Shape(p) ==
    /\ pc[p] = "idle" => op[p] = NoOp
    /\ pc[p] # "idle" =>
         /\ Kind(p) \in RequestKinds \cup JobKinds /\ User(p) \in Users
         /\ Kind(p) # "patch" => Patch(p) = Change(Kind(p))
    /\ pc[p] = "sync" => Locking(Kind(p))
    /\ pc[p] = "read" => ~Locking(Kind(p))
    /\ pc[p] = "push" => Kind(p) = "provision"
    /\ pc[p] = "guard" => Kind(p) \in {"patch", "risk", "self", "claim"}
    /\ pc[p] = "update" => Kind(p) \notin {"provision", "cliReactivate"}
    /\ pc[p] = "reactivate" => Kind(p) = "reactivate" \/ Reactivates(p)
    /\ pc[p] = "revoke" => Revokes(p)
    /\ pc[p] = "grant" => Kind(p) = "patch"
    /\ pc[p] = "delete" => Kind(p) = "deactivate"
    /\ Wrote(p) =>
         /\ Deactivates(p) => "deactivate" \in inserted[p]
         /\ AdminChanged(p) \/ Kind(p) = "claim" => "provision" \in inserted[p]

\* The locks a process holds.
Locks(p) ==
    /\ /\ Locking(Kind(p))
       /\ pc[p] \in {"guard", "update", "reactivate", "revoke", "push", "save"}
       => syncBy[User(p)] = p
    /\ bootBy = p =>
         /\ Kind(p) \in {"patch", "risk", "self", "claim"}
         /\ pc[p] = "update" \/ Wrote(p)
    /\ Kind(p) = "claim" /\ pc[p] \in {"update", "save"} => bootBy = p
    /\ \A u \in Users : rowBy[u] = p => User(p) = u /\ Wrote(p)
    /\ Wrote(p) => (Changes(p) <=> rowBy[User(p)] = p)

\* The row it wrote is the committed one with its patch, unless its copy was
\* out of date.
Writes(p) ==
    \A u \in Users : rowBy[u] = p =>
      /\ \A f \in DOMAIN Patch(p) : written[p][f] = Patch(p)[f]
      /\ \/ <<"stale", u>> \in lapses
         \/ /\ \A f \in Fields : f \notin DOMAIN Patch(p) => written[p][f] = row[u][f]
            /\ WritesAllColumns(Kind(p)) => copy[p] = row[u]
      /\ Kind(p) = "deactivate" => <<"lateDeactivation", u>> \in lapses

\* Who removes an active administrator holds the deployment's lock, and has
\* seen another one.
Guarded(p) ==
    /\ Kind(p) \in {"patch", "risk", "self"} /\ (pc[p] = "update" \/ Wrote(p)) =>
         bootBy = p \/ ~RemovesActiveAdmin(copy[p], Patch(p))
    /\ bootBy = p /\ Kind(p) # "claim" => Loose \/ \E v \in ActiveAdmins : v # User(p)
    /\ Kind(p) = "patch" => Loose \/ ActiveAdmins # {}
    /\ Kind(p) = "claim" /\ pc[p] \in {"update", "save"} => Loose \/ Admins = {}

\* What a job pushes is what is committed, or another job follows.
Pushes(p) ==
    LET u == User(p) IN
    /\ Kind(p) = "provision" /\ pc[p] = "push" =>
         copy[p].admin = row[u].admin \/ AdminLapse(u) \/ jobs["provision"][u] > 1
    /\ Kind(p) = "provision" /\ pc[p] = "save" =>
         hs[u].admin = row[u].admin \/ AdminLapse(u) \/ jobs["provision"][u] > 1
    /\ Kind(p) = "deactivate" /\ pc[p] \in {"update", "save"} /\ copy[p].deactivated =>
         row[u].deactivated \/ DeactivationLapse(u)
    /\ Kind(p) = "deactivate" /\ pc[p] = "delete" =>
         row[u].deactivated \/ DeactivationLapse(u)

\* A job stays in the queue while it runs.
Running(k, u) == {p \in Procs : Kind(p) = k /\ User(p) = u}
JobsInv == \A k \in JobKinds, u \in Users : Cardinality(Running(k, u)) <= jobs[k][u]

\* Where the homeserver differs, somebody is about to change that.
AdminSynced ==
    \A u \in Users :
      \/ hs[u].admin = row[u].admin
      \/ AdminLapse(u)
      \/ jobs["provision"][u] > 0
      \/ \E p \in Procs : pc[p] = "save" /\ User(p) = u /\ Revokes(p)
DeactivationSynced ==
    \A u \in Users :
      \/ hs[u].deactivated = row[u].deactivated
      \/ DeactivationLapse(u)
      \/ jobs["deactivate"][u] > 0
      \/ jobs["reactivate"][u] > 0
      \/ \E p \in Procs : pc[p] \in {"revoke", "save"} /\ User(p) = u /\ Reactivates(p)

ProcInv ==
    \A p \in Procs : Shape(p) /\ Locks(p) /\ Writes(p) /\ Guarded(p) /\ Pushes(p)

IInv ==
    /\ TypeOK /\ op \in [Procs -> Ops]
    /\ ProcInv /\ JobsInv /\ AdminSynced /\ DeactivationSynced
-----------------------------------------------------------------------------
(***************************************************************************)
(* Facts about the operators of the model.                                 *)
(***************************************************************************)
\* What a patch is, field by field.
LEMMA PatchFact ==
    /\ \A D \in SUBSET Fields : \A g \in [D -> BOOLEAN] : g \in AllPatches
    /\ \A g \in AllPatches : DOMAIN g \subseteq Fields /\ \A f \in DOMAIN g : g[f] \in BOOLEAN
    BY DEF AllPatches

\* The change of every kind is a patch.
LEMMA ChangeType == \A k \in RequestKinds \cup JobKinds : Change(k) \in AllPatches
    <1>1. [f \in {"locked"} |-> TRUE] \in AllPatches
        BY PatchFact DEF Fields
    <1>2. [f \in {"deactivated"} |-> TRUE] \in AllPatches
        BY PatchFact DEF Fields
    <1>3. [f \in {"deactivated"} |-> FALSE] \in AllPatches
        BY PatchFact DEF Fields
    <1>4. [f \in {"admin"} |-> TRUE] \in AllPatches
        BY PatchFact DEF Fields
    <1>5. <<>> \in AllPatches
      <2>1. <<>> \in [{} -> BOOLEAN]
        OBVIOUS
      <2>. QED  BY <2>1, PatchFact DEF Fields
    <1>. QED  BY <1>1, <1>2, <1>3, <1>4, <1>5 DEF Change, RequestKinds, JobKinds

\* The rows a handler computes are rows.
LEMMA RowFacts ==
    ASSUME IInv, NEW p \in Procs, pc[p] # "idle"
    PROVE  /\ op[p] \in Ops /\ User(p) \in Users /\ Patch(p) \in AllPatches
           /\ Kind(p) \in RequestKinds \cup JobKinds
           /\ row[User(p)] \in Rows /\ copy[p] \in Rows /\ written[p] \in Rows
           /\ WrittenRow(p) \in Rows /\ Updated(p) \in Rows
    <1>1. op[p] \in Ops /\ User(p) \in Users /\ Patch(p) \in AllPatches
          /\ Kind(p) \in RequestKinds \cup JobKinds
        BY DEF IInv, ProcInv, Shape, Ops, Patch
    <1>2. row[User(p)] \in Rows /\ copy[p] \in Rows /\ written[p] \in Rows
        BY <1>1 DEF IInv, TypeOK
    <1>3. \A f \in DOMAIN op[p].patch : op[p].patch[f] \in BOOLEAN
        BY <1>1, PatchFact DEF Patch
    <1>4. WrittenRow(p) \in Rows
        BY <1>2, <1>3 DEF WrittenRow, Rows
    <1>5. Updated(p) \in Rows
        BY <1>2, <1>3 DEF Updated, Rows
    <1>. QED  BY <1>1, <1>2, <1>4, <1>5

\* The processes that run a job are finitely many, and a job that runs is in
\* the queue.
LEMMA RunningJob ==
    ASSUME IInv, NEW p \in Procs, Kind(p) \in JobKinds
    PROVE  /\ User(p) \in Users /\ jobs[Kind(p)][User(p)] \in Nat
           /\ jobs[Kind(p)][User(p)] >= 1
    <1>0. pc[p] # "idle"
        BY ConstantsAssumption DEF IInv, ProcInv, Shape, NoOp, Kind
    <1>1. User(p) \in Users /\ jobs[Kind(p)][User(p)] \in Nat
        BY <1>0, RowFacts DEF IInv, TypeOK
    <1>2. p \in Running(Kind(p), User(p))
        BY DEF Running
    <1>3. IsFiniteSet(Running(Kind(p), User(p)))
        BY ConstantsAssumption, FS_Subset DEF Running
    <1>4. Cardinality(Running(Kind(p), User(p))) \in Nat \ {0}
        BY <1>2, <1>3, FS_CardinalityType, FS_EmptySet
    <1>. QED  BY <1>1, <1>4 DEF IInv, JobsInv

\* A process in the state NoOp is idle.
LEMMA Idling ==
    /\ NoOp \in Ops /\ NewUser \in Rows
    /\ NoOp.kind = None /\ NoOp.user = None
    <1>1. <<>> \in AllPatches
      <2>1. <<>> \in [{} -> BOOLEAN]
        OBVIOUS
      <2>. QED  BY <2>1, PatchFact DEF Fields
    <1>2. NewUser \in Rows
        BY DEF NewUser, Rows
    <1>. QED  BY <1>1, <1>2 DEF NoOp, Ops

\* Idle(p) keeps the types.
LEMMA IdleType ==
    ASSUME IInv, NEW p \in Procs, Idle(p)
    PROVE  /\ pc' \in [Procs -> PCs] /\ op' \in [Procs -> Ops]
           /\ copy' \in [Procs -> Rows] /\ written' \in [Procs -> Rows]
           /\ inserted' \in [Procs -> SUBSET JobKinds]
    BY Idling DEF IInv, TypeOK, Idle, Goto, PCs

\* So does the release of the locks.
LEMMA ReleaseType ==
    ASSUME IInv, NEW p \in Procs, Release(p)
    PROVE  /\ rowBy' \in [Users -> Procs \cup {None}]
           /\ syncBy' \in [Users -> Procs \cup {None}]
           /\ bootBy' \in Procs \cup {None}
    BY DEF IInv, TypeOK, Release

\* The types of the variables, and no more.
Typed ==
    /\ row \in [Users -> Rows]
    /\ rowBy \in [Users -> Procs \cup {None}] /\ syncBy \in [Users -> Procs \cup {None}]
    /\ bootBy \in Procs \cup {None}
    /\ jobs \in [JobKinds -> [Users -> Nat]]
    /\ hs \in [Users -> [admin : BOOLEAN, deactivated : BOOLEAN]]
    /\ pc \in [Procs -> PCs] /\ op \in [Procs -> Ops]
    /\ copy \in [Procs -> Rows] /\ written \in [Procs -> Rows]
    /\ inserted \in [Procs -> SUBSET JobKinds]
    /\ requests \in 0 .. MaxRequests /\ mishaps \in 0 .. MaxMishaps
    /\ lapses \subseteq LapseKinds \X Users

\* TypeOK says that, and that a process at work has something to do.
LEMMA TypedFact ==
    /\ IInv => Typed
    /\ Typed /\ (\A p \in Procs : Shape(p)) => TypeOK
    <1>1. IInv => Typed
        BY DEF IInv, TypeOK, Typed
    <1>2. ASSUME Typed, \A p \in Procs : Shape(p)
          PROVE  TypeOK
      <2>1. ASSUME NEW p \in Procs
            PROVE  /\ op[p].kind \in RequestKinds \cup JobKinds \cup {None}
                   /\ pc[p] # "idle" => op[p].kind # None /\ User(p) \in Users
                   /\ op[p].patch \in AllPatches
        <3>1. op[p] \in Ops
            BY <1>2 DEF Typed
        <3>2. op[p].kind \in RequestKinds \cup JobKinds \cup {None} /\ op[p].patch \in AllPatches
            BY <3>1 DEF Ops
        <3>3. pc[p] # "idle" => op[p].kind # None /\ User(p) \in Users
            BY <1>2, ConstantsAssumption DEF Shape, Kind
        <3>. QED  BY <3>2, <3>3
      <2>. QED  BY <1>2, <2>1 DEF Typed, TypeOK
    <1>. QED  BY <1>1, <1>2

\* The type invariant from its two halves, after a step.
LEMMA TypedNext == Typed' /\ (\A p \in Procs : Shape(p))' => TypeOK'
    BY TypedFact, PTL

\* JobsAfter counts.
LEMMA JobsAfterType ==
    ASSUME IInv, NEW p \in Procs, pc[p] # "idle", NEW done \in BOOLEAN
    PROVE  JobsAfter(p, done) \in [JobKinds -> [Users -> Nat]]
    <1>1. ASSUME NEW k \in JobKinds, NEW u \in Users
          PROVE  /\ jobs[k][u] + (IF u = User(p) /\ k \in inserted[p] THEN 1 ELSE 0)
                      - (IF done /\ u = User(p) /\ k = op[p].kind THEN 1 ELSE 0) \in Nat
      <2>1. jobs[k][u] \in Nat
        BY DEF IInv, TypeOK
      <2>2. u = User(p) /\ k = op[p].kind => jobs[k][u] >= 1
        BY RunningJob DEF Kind
      <2>. QED  BY <2>1, <2>2
    <1>. QED  BY <1>1 DEF JobsAfter

\* Every step of p keeps the types.
LEMMA StartType ==
    ASSUME IInv, NEW p \in Procs, NEW u \in Users,
           NEW k \in RequestKinds \cup JobKinds, NEW patch \in AllPatches,
           Start(p, k, u, patch)
    PROVE  pc' \in [Procs -> PCs] /\ op' \in [Procs -> Ops]
    <1>1. [kind |-> k, user |-> u, patch |-> patch] \in Ops
        BY DEF Ops
    <1>. QED  BY <1>1, TypedFact DEF Typed, Start, Goto, PCs

\* Every step of a request or a job keeps the types.
LEMMA TypeStep ==
    ASSUME IInv, NEW p \in Procs
    PROVE  Step(p) \/ Fail(p) => Typed'
    <1>. USE TypedFact
    <1>0. pc[p] # "idle" => /\ User(p) \in Users /\ row[User(p)] \in Rows
                            /\ WrittenRow(p) \in Rows /\ written[p] \in Rows
                            /\ copy[p] \in Rows
        BY RowFacts
    <1>1. CASE ReadUser(p)
      <2>1. pc' \in [Procs -> PCs]
        BY <1>1 DEF ReadUser, Goto, Typed, PCs
      <2>2. copy' \in [Procs -> Rows] /\ inserted' \in [Procs -> SUBSET JobKinds]
        BY <1>0, <1>1 DEF ReadUser, Typed, JobKinds
      <2>. QED  BY <2>1, <2>2, <1>1 DEF ReadUser, Typed, dbVars, ghostVars
    <1>2. CASE Unauthorized(p)
        BY <1>2, IdleType DEF Unauthorized, Typed, dbVars, ghostVars
    <1>3. CASE AcquireLockForSync(p)
      <2>1. pc' \in [Procs -> PCs]
        BY <1>3 DEF AcquireLockForSync, Goto, Typed, PCs
      <2>2. copy' \in [Procs -> Rows] /\ syncBy' \in [Users -> Procs \cup {None}]
        BY <1>0, <1>3 DEF AcquireLockForSync, Typed
      <2>. QED  BY <2>1, <2>2, <1>3 DEF AcquireLockForSync, Typed, ghostVars
    <1>4. CASE Guard(p)
      <2>1. CASE GuardHolds(p)
        BY <1>4, <2>1 DEF Guard, Goto, Typed, PCs, ghostVars
      <2>2. CASE ~GuardHolds(p)
        <3>1. Release(p) /\ Idle(p) /\ UNCHANGED <<row, jobs, hs, requests, mishaps, lapses>>
            BY <1>4, <2>2 DEF Guard, ghostVars
        <3>. QED  BY <3>1, IdleType, ReleaseType DEF Typed
      <2>. QED  BY <2>1, <2>2
    <1>5. CASE Update(p)
      <2>1. pc[p] = "update"
        BY <1>5 DEF Update
      <2>2. rowBy' \in [Users -> Procs \cup {None}] /\ written' \in [Procs -> Rows]
        BY <1>0, <1>5, <2>1 DEF Update, Typed
      <2>3. lapses' \subseteq LapseKinds \X Users
        BY <1>0, <1>5, <2>1 DEF Update, Typed, LapseKinds
      <2>4. inserted' \in [Procs -> SUBSET JobKinds]
        BY <1>5 DEF Update, Typed, JobKinds
      <2>5. pc' \in [Procs -> PCs]
        BY <1>5 DEF Update, Typed, Goto, AfterUpdate, PCs
      <2>. QED  BY <2>2, <2>3, <2>4, <2>5, <1>5 DEF Update, Typed
    <1>6. CASE HsReactivate(p)
      <2>1. hs' \in [Users -> [admin : BOOLEAN, deactivated : BOOLEAN]]
        BY <1>0, <1>6 DEF HsReactivate, Typed
      <2>2. pc' \in [Procs -> PCs]
        BY <1>6 DEF HsReactivate, Goto, Typed, PCs
      <2>. QED  BY <2>1, <2>2, <1>6 DEF HsReactivate, Typed, dbVars, ghostVars
    <1>7. CASE HsRevoke(p)
      <2>1. hs' \in [Users -> [admin : BOOLEAN, deactivated : BOOLEAN]]
        BY <1>0, <1>7 DEF HsRevoke, Typed
      <2>. QED  BY <2>1, <1>7 DEF HsRevoke, Goto, PCs, Typed, dbVars, ghostVars
    <1>8. CASE HsProvision(p)
      <2>1. copy[p].admin \in BOOLEAN
        BY <1>0, <1>8 DEF HsProvision, Rows, Fields
      <2>2. hs' \in [Users -> [admin : BOOLEAN, deactivated : BOOLEAN]]
        BY <2>1, <1>0, <1>8 DEF HsProvision, Typed
      <2>. QED  BY <2>2, <1>8 DEF HsProvision, Goto, PCs, Typed, dbVars, ghostVars
    <1>9. CASE Save(p)
      <2>0. pc[p] # "idle" /\ User(p) \in Users
        BY <1>0, <1>9 DEF Save
      <2>1. row' \in [Users -> Rows]
        BY <1>0, <1>9, <2>0 DEF Save, Typed
      <2>2. jobs' \in [JobKinds -> [Users -> Nat]]
        BY <2>0, <1>9, JobsAfterType DEF Save
      <2>3. lapses' \subseteq LapseKinds \X Users
        BY <2>0, <1>9 DEF Save, Typed, LapseKinds
      <2>4. /\ pc' \in [Procs -> PCs] /\ op' \in [Procs -> Ops]
            /\ copy' \in [Procs -> Rows] /\ written' \in [Procs -> Rows]
            /\ inserted' \in [Procs -> SUBSET JobKinds]
        <3>1. CASE GrantFollows(p) \/ op[p].kind = "deactivate"
            BY <3>1, <1>9, Idling DEF Save, Typed, Goto, PCs
        <3>2. CASE ~(GrantFollows(p) \/ op[p].kind = "deactivate")
            BY <3>2, <1>9, IdleType DEF Save
        <3>. QED  BY <3>1, <3>2
      <2>. QED  BY <2>1, <2>2, <2>3, <2>4, <1>9, ReleaseType DEF Save, Typed
    <1>10. CASE PushAdminGrant(p)
      <2>0. User(p) \in Users
        BY <1>0, <1>10 DEF PushAdminGrant
      <2>1. hs' \in [Users -> [admin : BOOLEAN, deactivated : BOOLEAN]]
        BY <2>0, <1>10 DEF PushAdminGrant, Typed
      <2>2. lapses' \subseteq LapseKinds \X Users
        BY <2>0, <1>10 DEF PushAdminGrant, Typed, LapseKinds
      <2>. QED  BY <2>1, <2>2, <1>10, IdleType DEF PushAdminGrant, Typed, dbVars
    <1>11. CASE HsDelete(p)
      <2>0. pc[p] # "idle" /\ User(p) \in Users
        BY <1>0, <1>11 DEF HsDelete
      <2>1. hs' \in [Users -> [admin : BOOLEAN, deactivated : BOOLEAN]]
        BY <2>0, <1>11 DEF HsDelete, Typed
      <2>2. jobs' \in [JobKinds -> [Users -> Nat]]
        BY <2>0, <1>11, JobsAfterType DEF HsDelete
      <2>. QED  BY <2>1, <2>2, <1>11, IdleType DEF HsDelete, Typed, ghostVars
    <1>12. CASE Fail(p)
      <2>0. User(p) \in Users
        BY <1>0, <1>12 DEF Fail
      <2>1. lapses' \subseteq LapseKinds \X Users
        BY <2>0, <1>12 DEF Fail, Typed, LapseKinds
      <2>2. mishaps' \in 0 .. MaxMishaps
        BY <1>12, ConstantsAssumption DEF Fail, Typed
      <2>. QED  BY <2>1, <2>2, <1>12, IdleType, ReleaseType DEF Fail, Typed
    <1>. QED  BY <1>1, <1>2, <1>3, <1>4, <1>5, <1>6, <1>7, <1>8, <1>9, <1>10, <1>11, <1>12 DEF Step

-----------------------------------------------------------------------------
(***************************************************************************)
(* A step of p leaves the other processes alone.                           *)
(***************************************************************************)
Same(q) ==
    /\ pc'[q] = pc[q] /\ op'[q] = op[q] /\ copy'[q] = copy[q]
    /\ written'[q] = written[q] /\ inserted'[q] = inserted[q]

Others(p) ==
    /\ \A q \in Procs \ {p} :
         /\ Same(q)
         /\ \A u \in Users :
              (rowBy'[u] = q <=> rowBy[u] = q) /\ (syncBy'[u] = q <=> syncBy[u] = q)
         /\ bootBy' = q <=> bootBy = q
    /\ lapses \subseteq lapses'

\* The end of p's work.
LEMMA IdleOthers ==
    ASSUME IInv, NEW p \in Procs, Idle(p), NEW q \in Procs \ {p}
    PROVE  Same(q)
    BY TypedFact DEF Typed, Idle, Goto, Same

\* The locks one process releases are its own.
LEMMA ReleaseOthers ==
    ASSUME IInv, NEW p \in Procs, Release(p), NEW q \in Procs \ {p}
    PROVE  /\ \A u \in Users :
                (rowBy'[u] = q <=> rowBy[u] = q) /\ (syncBy'[u] = q <=> syncBy[u] = q)
           /\ bootBy' = q <=> bootBy = q
    <1>1. None \notin Procs
        BY ConstantsAssumption
    <1>. QED  BY <1>1, TypedFact DEF Typed, Release

\* Every step leaves the others alone.
LEMMA StepOthers ==
    ASSUME IInv, NEW p \in Procs
    PROVE  Step(p) \/ Fail(p) => Others(p)
    <1>. USE TypedFact
    <1>0. None \notin Procs
        BY ConstantsAssumption
    <1>1. CASE ReadUser(p)
        BY <1>1 DEF ReadUser, Goto, Others, Same, Typed, dbVars, ghostVars
    <1>2. CASE Unauthorized(p)
        BY <1>2, IdleOthers DEF Unauthorized, Others, dbVars, ghostVars
    <1>3. CASE AcquireLockForSync(p)
      <2>1. ASSUME NEW q \in Procs \ {p}
            PROVE  Same(q)
        BY <1>3 DEF AcquireLockForSync, Goto, Same, Typed, ghostVars
      <2>2. ASSUME NEW q \in Procs \ {p}, NEW u \in Users
            PROVE  syncBy'[u] = q <=> syncBy[u] = q
        BY <1>0, <1>3 DEF AcquireLockForSync, Typed
      <2>. QED  BY <2>1, <2>2, <1>3 DEF AcquireLockForSync, Others, ghostVars
    <1>4. CASE Guard(p)
      <2>1. CASE GuardHolds(p)
        BY <1>0, <1>4, <2>1 DEF Guard, Goto, Others, Same, Typed, ghostVars
      <2>2. CASE ~GuardHolds(p)
        <3>1. Release(p) /\ Idle(p) /\ UNCHANGED lapses
            BY <1>4, <2>2 DEF Guard, ghostVars
        <3>. QED  BY <3>1, IdleOthers, ReleaseOthers DEF Others
      <2>. QED  BY <2>1, <2>2
    <1>5. CASE Update(p)
      <2>1. ASSUME NEW q \in Procs \ {p}
            PROVE  Same(q)
        BY <1>5 DEF Update, Goto, Same, Typed
      <2>2. ASSUME NEW q \in Procs \ {p}, NEW u \in Users
            PROVE  rowBy'[u] = q <=> rowBy[u] = q
        BY <1>0, <1>5 DEF Update, Typed
      <2>3. lapses \subseteq lapses'
        BY <1>5 DEF Update
      <2>. QED  BY <2>1, <2>2, <2>3, <1>5 DEF Update, Others
    <1>6. CASE HsReactivate(p)
        BY <1>6 DEF HsReactivate, Goto, Others, Same, Typed, dbVars, ghostVars
    <1>7. CASE HsRevoke(p)
        BY <1>7 DEF HsRevoke, Goto, Others, Same, Typed, dbVars, ghostVars
    <1>8. CASE HsProvision(p)
        BY <1>8 DEF HsProvision, Goto, Others, Same, Typed, dbVars, ghostVars
    <1>9. CASE Save(p)
      <2>1. ASSUME NEW q \in Procs \ {p}
            PROVE  Same(q)
        <3>1. CASE GrantFollows(p) \/ op[p].kind = "deactivate"
            BY <3>1, <1>9 DEF Save, Typed, Goto, Same
        <3>2. CASE ~(GrantFollows(p) \/ op[p].kind = "deactivate")
            BY <3>2, <1>9, IdleOthers DEF Save
        <3>. QED  BY <3>1, <3>2
      <2>2. lapses \subseteq lapses' /\ Release(p)
        BY <1>9 DEF Save
      <2>. QED  BY <2>1, <2>2, ReleaseOthers DEF Others
    <1>10. CASE PushAdminGrant(p)
      <2>1. lapses \subseteq lapses'
        BY <1>10 DEF PushAdminGrant
      <2>. QED  BY <2>1, <1>10, IdleOthers DEF PushAdminGrant, Others, dbVars
    <1>11. CASE HsDelete(p)
        BY <1>11, IdleOthers DEF HsDelete, Others, ghostVars
    <1>12. CASE Fail(p)
      <2>1. lapses \subseteq lapses'
        BY <1>12 DEF Fail
      <2>. QED  BY <2>1, <1>12, IdleOthers, ReleaseOthers DEF Fail, Others
    <1>. QED  BY <1>1, <1>2, <1>3, <1>4, <1>5, <1>6, <1>7, <1>8, <1>9, <1>10, <1>11, <1>12 DEF Step

\* What is said of a process that made no step, of itself alone.
LEMMA SameFacts ==
    ASSUME NEW q, Same(q)
    PROVE  /\ Kind(q)' = Kind(q) /\ User(q)' = User(q) /\ Patch(q)' = Patch(q)
           /\ Wrote(q)' <=> Wrote(q)
           /\ Changes(q)' <=> Changes(q)
           /\ AdminChanged(q)' <=> AdminChanged(q)
           /\ Deactivates(q)' <=> Deactivates(q)
           /\ Reactivates(q)' <=> Reactivates(q)
           /\ Revokes(q)' <=> Revokes(q)
    <1>1. Kind(q)' = Kind(q) /\ User(q)' = User(q) /\ Patch(q)' = Patch(q)
        BY DEF Same, Kind, User, Patch
    <1>2. Updated(q)' = Updated(q)
        BY DEF Same, Updated
    <1>3. Wrote(q)' <=> Wrote(q)
        BY DEF Same, Wrote, Kind
    <1>4. Changes(q)' <=> Changes(q)
        BY DEF Same, Changes
    <1>5. AdminChanged(q)' <=> AdminChanged(q)
        BY <1>2 DEF Same, AdminChanged
    <1>6. Deactivates(q)' <=> Deactivates(q)
        BY <1>2 DEF Same, Deactivates
    <1>7. Reactivates(q)' <=> Reactivates(q)
        BY <1>2 DEF Same, Reactivates
    <1>8. Revokes(q)' <=> Revokes(q)
        BY <1>2, <1>5 DEF Same, Revokes
    <1>. QED  BY <1>1, <1>3, <1>4, <1>5, <1>6, <1>7, <1>8

\* A step of one process keeps the shape and the locks of the others.
LEMMA OthersShapeLocks ==
    ASSUME IInv, NEW p \in Procs, Others(p), NEW q \in Procs \ {p}
    PROVE  Shape(q)' /\ Locks(q)'
    <1>0. Same(q) /\ Shape(q) /\ Locks(q)
        BY DEF Others, IInv, ProcInv
    <1>1. Shape(q)'
      <2>1. (pc[q] = "idle" => op[q] = NoOp)'
        BY <1>0 DEF Shape, Same
      <2>. QED  BY <1>0, <2>1, SameFacts DEF Shape, Same
    <1>2. Locks(q)'
      <2>1. /\ \A u \in Users :
                (rowBy'[u] = q <=> rowBy[u] = q) /\ (syncBy'[u] = q <=> syncBy[u] = q)
            /\ bootBy' = q <=> bootBy = q
        BY DEF Others
      <2>2. pc[q] # "idle" => User(q) \in Users
        BY <1>0 DEF Shape
      <2>. QED  BY <1>0, <2>1, <2>2, SameFacts DEF Locks, Same, Wrote
    <1>. QED  BY <1>1, <1>2

\* A row that q wrote is protected by its lock.
LEMMA OthersWrites ==
    ASSUME IInv, NEW p \in Procs, Others(p), NEW q \in Procs \ {p},
           \A u \in Users : rowBy[u] = q => row'[u] = row[u]
    PROVE  Writes(q)'
    <1>0. Same(q) /\ Writes(q)
        BY DEF Others, IInv, ProcInv
    <1>. SUFFICES ASSUME NEW u \in Users, rowBy'[u] = q
         PROVE  (/\ \A f \in DOMAIN Patch(q) : written[q][f] = Patch(q)[f]
                 /\ \/ <<"stale", u>> \in lapses
                    \/ /\ \A f \in Fields : f \notin DOMAIN Patch(q) => written[q][f] = row[u][f]
                       /\ WritesAllColumns(Kind(q)) => copy[q] = row[u]
                 /\ Kind(q) = "deactivate" => <<"lateDeactivation", u>> \in lapses)'
        BY DEF Writes
    <1>1. rowBy[u] = q /\ lapses \subseteq lapses'
        BY DEF Others
    <1>2. row'[u] = row[u]
        BY <1>1
    <1>. QED  BY <1>0, <1>1, <1>2, SameFacts DEF Writes, Same

\* While no row changes, what the others saw of the administrators stays true.
LEMMA OthersGuarded ==
    ASSUME IInv, NEW p \in Procs, Others(p), NEW q \in Procs \ {p}, row' = row
    PROVE  Guarded(q)'
    <1>0. Same(q) /\ Guarded(q) /\ (bootBy' = q <=> bootBy = q)
        BY DEF Others, IInv, ProcInv
    <1>1. ActiveAdmins' = ActiveAdmins /\ Admins' = Admins
        BY DEF ActiveAdmins, Admins
    <1>2. Loose => Loose'
        BY DEF Loose, Lapsed, Others
    <1>. QED  BY <1>0, <1>1, <1>2, SameFacts DEF Guarded, Same, Wrote

\* Nor does what they are about to push, while the accounts stay as they are.
LEMMA OthersPushes ==
    ASSUME IInv, NEW p \in Procs, Others(p), NEW q \in Procs \ {p},
           row' = row, hs' = hs, jobs' = jobs
    PROVE  Pushes(q)'
    <1>0. Same(q) /\ Pushes(q)
        BY DEF Others, IInv, ProcInv
    <1>1. \A u : (AdminLapse(u) => AdminLapse(u)') /\ (DeactivationLapse(u) => DeactivationLapse(u)')
        BY DEF AdminLapse, DeactivationLapse, Lapsed, Others
    <1>. QED  BY <1>0, <1>1, SameFacts DEF Pushes, Same

-----------------------------------------------------------------------------
(***************************************************************************)
(* The process itself, when it is done, and the queue.                     *)
(***************************************************************************)
Own(p) == Shape(p) /\ Locks(p) /\ Writes(p) /\ Guarded(p) /\ Pushes(p)

\* An idle process without locks satisfies all that is said of a process.
LEMMA IdleOwn ==
    ASSUME IInv, NEW p \in Procs, Idle(p), bootBy' # p,
           \A u \in Users : rowBy'[u] # p
    PROVE  Own(p)'
    <1>1. pc'[p] = "idle" /\ op'[p] = NoOp
        BY TypedFact DEF Typed, Idle, Goto
    <1>2. op'[p].kind = None
        BY <1>1, Idling
    <1>3. None \notin RequestKinds \cup JobKinds
        BY ConstantsAssumption
    <1>4. /\ (Kind(p) = None)' /\ ~Wrote(p)' /\ ~Locking(Kind(p))'
          /\ (Kind(p) \notin {"claim", "patch", "risk", "self", "provision", "deactivate"})'
        BY <1>1, <1>2, <1>3 DEF Kind, Wrote, Locking, RequestKinds, JobKinds
    <1>5. Shape(p)'
        BY <1>1, <1>4 DEF Shape
    <1>6. Locks(p)' /\ Writes(p)'
        BY <1>1, <1>4 DEF Locks, Writes
    <1>7. Guarded(p)' /\ Pushes(p)'
        BY <1>1, <1>4 DEF Guarded, Pushes
    <1>. QED  BY <1>5, <1>6, <1>7 DEF Own

\* Release leaves no lock, and nobody holds the lock None.
LEMMA ReleaseAll ==
    ASSUME IInv, NEW p \in Procs, Release(p)
    PROVE  bootBy' # p /\ \A u \in Users : rowBy'[u] # p
    BY ConstantsAssumption DEF Release

\* The processes at a job, once p is done.
LEMMA RunningFinite ==
    \A k, u : IsFiniteSet(Running(k, u)) /\ Cardinality(Running(k, u)) \in Nat
    BY ConstantsAssumption, FS_Subset, FS_CardinalityType DEF Running

\* A process that becomes idle runs no job any more.
LEMMA RunningIdle ==
    ASSUME IInv, NEW p \in Procs, Idle(p), NEW k \in JobKinds, NEW u \in Users
    PROVE  Running(k, u)' = Running(k, u) \ {p}
    <1>1. None \notin JobKinds
        BY ConstantsAssumption
    <1>2. op'[p].kind = None
        BY TypedFact, Idling DEF Typed, Idle
    <1>3. ASSUME NEW q \in Procs \ {p}
          PROVE  op'[q] = op[q]
        BY <1>3, IdleOthers DEF Same
    <1>. QED  BY <1>1, <1>2, <1>3 DEF Running, Kind, User

\* A step that leaves the queue alone and starts no job keeps JobsInv.
LEMMA JobsKept ==
    ASSUME IInv, NEW p \in Procs, jobs' = jobs, Idle(p) \/ op' = op
    PROVE  JobsInv'
    <1>. SUFFICES ASSUME NEW k \in JobKinds, NEW u \in Users
         PROVE  Cardinality(Running(k, u)') <= jobs'[k][u]
        BY DEF JobsInv
    <1>1. Running(k, u)' \subseteq Running(k, u)
        BY RunningIdle DEF Running, Kind, User
    <1>2. /\ Cardinality(Running(k, u)') \in Nat
          /\ Cardinality(Running(k, u)') <= Cardinality(Running(k, u))
        BY <1>1, RunningFinite, FS_Subset, FS_CardinalityType
    <1>3. jobs[k][u] \in Nat
        BY TypedFact DEF Typed
    <1>. QED  BY <1>2, <1>3, RunningFinite DEF IInv, JobsInv

\* The commit of p, and the end of its job.
LEMMA JobsDone ==
    ASSUME IInv, NEW p \in Procs, pc[p] # "idle", NEW done \in BOOLEAN,
           jobs' = JobsAfter(p, done), IF done THEN Idle(p) ELSE op' = op
    PROVE  JobsInv'
    <1>. SUFFICES ASSUME NEW k \in JobKinds, NEW u \in Users
         PROVE  Cardinality(Running(k, u)') <= jobs'[k][u]
        BY DEF JobsInv
    <1>1. /\ Cardinality(Running(k, u)) \in Nat /\ jobs[k][u] \in Nat
          /\ Cardinality(Running(k, u)) <= jobs[k][u]
        BY RunningFinite, TypedFact DEF Typed, IInv, JobsInv
    <1>2. jobs'[k][u] = jobs[k][u] + (IF u = User(p) /\ k \in inserted[p] THEN 1 ELSE 0)
                          - (IF done /\ u = User(p) /\ k = op[p].kind THEN 1 ELSE 0)
        BY DEF JobsAfter
    <1>3. CASE ~done
      <2>1. Running(k, u)' = Running(k, u)
        BY <1>3 DEF Running, Kind, User
      <2>. QED  BY <1>1, <1>2, <1>3, <2>1
    <1>4. CASE done
      <2>1. Running(k, u)' = Running(k, u) \ {p}
        BY <1>4, RunningIdle
      <2>2. CASE u = User(p) /\ k = op[p].kind
        <3>1. p \in Running(k, u)
            BY <2>2 DEF Running, Kind
        <3>2. Cardinality(Running(k, u)') = Cardinality(Running(k, u)) - 1
            BY <2>1, <3>1, RunningFinite, FS_RemoveElement
        <3>. QED  BY <1>1, <1>2, <3>2
      <2>3. CASE ~(u = User(p) /\ k = op[p].kind)
        <3>1. p \notin Running(k, u)
            BY <2>3 DEF Running, Kind
        <3>2. Running(k, u)' = Running(k, u)
            BY <2>1, <3>1
        <3>. QED  BY <1>1, <1>2, <2>3, <3>2
      <2>. QED  BY <2>2, <2>3
    <1>. QED  BY <1>3, <1>4

\* A step that changes no account and no job keeps the homeserver as far behind
\* as it was, if it says so when it gives up what it pushed.
LEMMA SyncedKept ==
    ASSUME IInv, NEW p \in Procs, Others(p), row' = row, hs' = hs, jobs' = jobs,
           pc[p] = "save" /\ Revokes(p) => <<"lostCommit", User(p)>> \in lapses',
           pc[p] \in {"revoke", "save"} /\ Reactivates(p) => <<"lostCommit", User(p)>> \in lapses'
    PROVE  AdminSynced' /\ DeactivationSynced'
    <1>1. \A u : (AdminLapse(u) => AdminLapse(u)') /\ (DeactivationLapse(u) => DeactivationLapse(u)')
        BY DEF AdminLapse, DeactivationLapse, Lapsed, Others
    <1>2. ASSUME NEW u, <<"lostCommit", u>> \in lapses'
          PROVE  AdminLapse(u)' /\ DeactivationLapse(u)'
        BY <1>2 DEF AdminLapse, DeactivationLapse, Lapsed
    <1>3. ASSUME NEW q \in Procs \ {p}
          PROVE  /\ pc'[q] = pc[q] /\ User(q)' = User(q)
                 /\ (Revokes(q)' <=> Revokes(q)) /\ (Reactivates(q)' <=> Reactivates(q))
        BY <1>3, SameFacts DEF Others, Same
    <1>4. ASSUME NEW u \in Users
          PROVE  (\/ hs[u].admin = row[u].admin \/ AdminLapse(u) \/ jobs["provision"][u] > 0
                  \/ \E q \in Procs : pc[q] = "save" /\ User(q) = u /\ Revokes(q))'
      <2>1. CASE \E q \in Procs : pc[q] = "save" /\ User(q) = u /\ Revokes(q)
        <3>1. PICK q \in Procs : pc[q] = "save" /\ User(q) = u /\ Revokes(q)
            BY <2>1
        <3>2. CASE q = p
            BY <3>1, <3>2, <1>2
        <3>3. CASE q # p
            BY <3>1, <3>3, <1>3
        <3>. QED  BY <3>2, <3>3
      <2>. QED  BY <2>1, <1>1 DEF IInv, AdminSynced
    <1>5. ASSUME NEW u \in Users
          PROVE  (\/ hs[u].deactivated = row[u].deactivated \/ DeactivationLapse(u)
                  \/ jobs["deactivate"][u] > 0 \/ jobs["reactivate"][u] > 0
                  \/ \E q \in Procs : pc[q] \in {"revoke", "save"} /\ User(q) = u /\ Reactivates(q))'
      <2>1. CASE \E q \in Procs : pc[q] \in {"revoke", "save"} /\ User(q) = u /\ Reactivates(q)
        <3>1. PICK q \in Procs : pc[q] \in {"revoke", "save"} /\ User(q) = u /\ Reactivates(q)
            BY <2>1
        <3>2. CASE q = p
            BY <3>1, <3>2, <1>2
        <3>3. CASE q # p
            BY <3>1, <3>3, <1>3
        <3>. QED  BY <3>2, <3>3
      <2>. QED  BY <2>1, <1>1 DEF IInv, DeactivationSynced
    <1>. QED  BY <1>4, <1>5 DEF AdminSynced, DeactivationSynced

\* What is left to show for such a step is what it does to p.
LEMMA FrameStep ==
    ASSUME IInv, NEW p \in Procs, Others(p), row' = row, hs' = hs, jobs' = jobs,
           pc[p] = "save" /\ Revokes(p) => <<"lostCommit", User(p)>> \in lapses',
           pc[p] \in {"revoke", "save"} /\ Reactivates(p) => <<"lostCommit", User(p)>> \in lapses',
           Typed', JobsInv', Own(p)'
    PROVE  IInv'
    <1>1. ASSUME NEW q \in Procs
          PROVE  Own(q)'
      <2>1. CASE q = p
        BY <2>1
      <2>2. CASE q # p
        BY <2>2, OthersShapeLocks, OthersWrites, OthersGuarded, OthersPushes DEF Own
      <2>. QED  BY <2>1, <2>2
    <1>2. ProcInv' /\ (\A q \in Procs : Shape(q))'
        BY <1>1 DEF ProcInv, Own
    <1>3. AdminSynced' /\ DeactivationSynced'
        BY SyncedKept
    <1>4. TypeOK'
        BY <1>2, TypedNext
    <1>5. (op \in [Procs -> Ops])'
        BY DEF Typed
    <1>. QED  BY <1>2, <1>3, <1>4, <1>5 DEF IInv

-----------------------------------------------------------------------------
(***************************************************************************)
(* The steps that change no account and no job.                            *)
(***************************************************************************)
\* A process that has not written holds no row, and before its guard not the
\* deployment's lock either.
LEMMA NoLocks ==
    ASSUME IInv, NEW p \in Procs, ~Wrote(p)
    PROVE  /\ \A u \in Users : rowBy[u] # p
           /\ pc[p] # "update" => bootBy # p
    BY DEF IInv, ProcInv, Locks

\* A request or a job begins.
LEMMA StartOwn ==
    ASSUME IInv, NEW p \in Procs, NEW u \in Users, NEW k \in RequestKinds \cup JobKinds,
           NEW patch \in AllPatches, pc[p] = "idle", Start(p, k, u, patch),
           k # "patch" => patch = Change(k), k = "patch" => ActiveAdmins # {},
           UNCHANGED <<row, rowBy, bootBy>>
    PROVE  Own(p)'
    <1>1. /\ pc'[p] = IF Locking(k) THEN "sync" ELSE "read"
          /\ op'[p] = [kind |-> k, user |-> u, patch |-> patch]
        BY TypedFact DEF Typed, Start, Goto
    <1>2. (Kind(p) = k)' /\ (User(p) = u)' /\ (Patch(p) = patch)'
        BY <1>1 DEF Kind, User, Patch
    <1>3. ~Wrote(p)' /\ pc'[p] \in {"sync", "read"}
        BY <1>1 DEF Wrote
    <1>4. bootBy' # p /\ \A v \in Users : rowBy'[v] # p
        BY NoLocks DEF Wrote
    <1>5. Shape(p)'
        BY <1>1, <1>2, <1>3 DEF Shape
    <1>6. Locks(p)' /\ Writes(p)'
        BY <1>3, <1>4 DEF Locks, Writes
    <1>7. (Kind(p) = "patch" => ActiveAdmins # {})'
        BY <1>2 DEF ActiveAdmins
    <1>8. Guarded(p)' /\ Pushes(p)'
        BY <1>3, <1>4, <1>7 DEF Guarded, Pushes
    <1>. QED  BY <1>5, <1>6, <1>8 DEF Own

\* The start of a request or a job leaves the others alone.
LEMMA StartOthers ==
    ASSUME IInv, NEW p \in Procs, NEW u, NEW k, NEW patch, Start(p, k, u, patch),
           UNCHANGED <<dbVars, copy, written, inserted, lapses>>
    PROVE  Others(p)
    BY TypedFact DEF Typed, Start, Goto, Others, Same, dbVars

\* A request handler starts.
LEMMA RequestStep ==
    ASSUME IInv, NEW p \in Procs, NEW u \in Users, NEW k \in RequestKinds,
           NEW patch \in AllPatches, k # "patch" => patch = Change(k),
           Request(p, k, u, patch)
    PROVE  IInv'
    <1>1. /\ pc[p] = "idle" /\ Start(p, k, u, patch) /\ requests' = requests + 1
          /\ k = "patch" => ActiveAdmins # {}
          /\ UNCHANGED <<dbVars, hs, copy, written, inserted, mishaps, lapses>>
        BY DEF Request
    <1>2. Own(p)' /\ Others(p)
        BY <1>1, StartOwn, StartOthers DEF dbVars
    <1>3. Typed'
      <2>1. requests' \in 0 .. MaxRequests
        BY <1>1, TypedFact, ConstantsAssumption DEF Request, Typed
      <2>. QED  BY <1>1, <2>1, StartType, TypedFact DEF Typed, dbVars
    <1>4. JobsInv'
      <2>1. ASSUME NEW q \in Procs, NEW j \in JobKinds, NEW v \in Users
            PROVE  (Kind(q) = j /\ User(q) = v)' => Kind(q) = j /\ User(q) = v
        <3>1. CASE q = p
          <4>1. op'[p].kind = k
            BY <1>1, TypedFact DEF Typed, Start
          <4>. QED  BY <2>1, <3>1, <4>1 DEF Kind, RequestKinds, JobKinds
        <3>2. CASE q # p
            BY <3>2, <1>2 DEF Others, Same, Kind, User
        <3>. QED  BY <3>1, <3>2
      <2>2. ASSUME NEW j \in JobKinds, NEW v \in Users
            PROVE  Cardinality(Running(j, v)') <= jobs'[j][v]
        <3>1. Running(j, v)' \subseteq Running(j, v)
            BY <2>1 DEF Running
        <3>2. /\ Cardinality(Running(j, v)') \in Nat
              /\ Cardinality(Running(j, v)') <= Cardinality(Running(j, v))
            BY <3>1, RunningFinite, FS_Subset, FS_CardinalityType
        <3>3. jobs[j][v] \in Nat /\ jobs' = jobs
            BY <1>1, TypedFact DEF Typed, dbVars
        <3>. QED  BY <3>2, <3>3, RunningFinite DEF IInv, JobsInv
      <2>. QED  BY <2>2 DEF JobsInv
    <1>. QED  BY <1>1, <1>2, <1>3, <1>4, FrameStep DEF dbVars

\* A worker starts a job.
LEMMA RunJobStep ==
    ASSUME IInv, NEW p \in Procs, NEW u \in Users, NEW k \in JobKinds, RunJob(p, k, u)
    PROVE  IInv'
    <1>1. /\ pc[p] = "idle" /\ Start(p, k, u, Change(k))
          /\ Cardinality({q \in Procs : op[q].kind = k /\ User(q) = u}) < jobs[k][u]
          /\ UNCHANGED <<dbVars, hs, copy, written, inserted, ghostVars>>
        BY DEF RunJob
    <1>2. Own(p)' /\ Others(p)
        BY <1>1, StartOwn, StartOthers, ChangeType DEF dbVars, ghostVars, JobKinds
    <1>3. Typed'
        BY <1>1, StartType, TypedFact, ChangeType DEF Typed, dbVars, ghostVars
    <1>4. JobsInv'
      <2>0. op'[p].kind = k /\ op'[p].user = u /\ op[p].kind = None
        BY <1>1, TypedFact, Idling DEF Typed, Start, IInv, ProcInv, Shape
      <2>1. \A q \in Procs \ {p} : op'[q] = op[q]
        BY <1>2 DEF Others, Same
      <2>2. ASSUME NEW j \in JobKinds, NEW v \in Users
            PROVE  Cardinality(Running(j, v)') <= jobs'[j][v]
        <3>0. /\ jobs[j][v] \in Nat /\ jobs' = jobs /\ Cardinality(Running(j, v)) <= jobs[j][v]
            BY <1>1, TypedFact DEF Typed, dbVars, IInv, JobsInv
        <3>1. CASE j = k /\ v = u
          <4>1. Running(k, u)' = Running(k, u) \cup {p}
            BY <2>0, <2>1 DEF Running, Kind, User
          <4>2. p \notin Running(k, u)
            BY <2>0, ConstantsAssumption DEF Running, Kind
          <4>3. Cardinality(Running(k, u)') = Cardinality(Running(k, u)) + 1
            BY <4>1, <4>2, RunningFinite, FS_AddElement
          <4>4. Cardinality(Running(k, u)) < jobs[k][u]
            BY <1>1 DEF Running, Kind
          <4>. QED  BY <3>0, <3>1, <4>3, <4>4, RunningFinite
        <3>2. CASE ~(j = k /\ v = u)
          <4>1. Running(j, v)' = Running(j, v)
            BY <2>0, <2>1, <3>2, ConstantsAssumption DEF Running, Kind, User
          <4>. QED  BY <3>0, <4>1
        <3>. QED  BY <3>1, <3>2
      <2>. QED  BY <2>2 DEF JobsInv
    <1>. QED  BY <1>1, <1>2, <1>3, <1>4, FrameStep DEF dbVars

\* Nothing to do: the process ends without a commit.
LEMMA UnauthorizedStep ==
    ASSUME IInv, NEW p \in Procs, Unauthorized(p)
    PROVE  IInv'
    <1>1. pc[p] = "read" /\ Idle(p) /\ UNCHANGED <<dbVars, hs, ghostVars>>
        BY DEF Unauthorized
    <1>2. Own(p)'
        BY <1>1, NoLocks, IdleOwn DEF Wrote, dbVars
    <1>3. Others(p) /\ Typed'
        BY StepOthers, TypeStep DEF Step
    <1>. QED  BY <1>1, <1>2, <1>3, JobsKept, FrameStep DEF dbVars

\* A request or a job fails and its transaction is rolled back.
LEMMA FailStep ==
    ASSUME IInv, NEW p \in Procs, Fail(p)
    PROVE  IInv'
    <1>1. Idle(p) /\ Release(p) /\ UNCHANGED <<row, jobs, hs>>
        BY DEF Fail
    <1>2. Own(p)'
        BY <1>1, ReleaseAll, IdleOwn
    <1>3. Others(p) /\ Typed'
        BY StepOthers, TypeStep
    <1>4. /\ pc[p] = "save" /\ Revokes(p) => <<"lostCommit", User(p)>> \in lapses'
          /\ pc[p] \in {"revoke", "save"} /\ Reactivates(p) => <<"lostCommit", User(p)>> \in lapses'
        BY DEF Fail
    <1>. QED  BY <1>1, <1>2, <1>3, <1>4, JobsKept, FrameStep

\* Rows are compared field by field.
LEMMA RowFields ==
    ASSUME NEW r \in Rows
    PROVE  r.admin = r["admin"] /\ r.locked = r["locked"] /\ r.deactivated = r["deactivated"]
    OBVIOUS

\* A patch, a lock or a deactivation that removes no active administrator says
\* so by its copy.
LEMMA ReadUserStep ==
    ASSUME IInv, NEW p \in Procs, ReadUser(p)
    PROVE  IInv'
    <1>0. Others(p) /\ Typed'
        BY StepOthers, TypeStep DEF Step
    <1>1. /\ pc[p] = "read" /\ UNCHANGED <<row, rowBy, syncBy, bootBy, jobs, hs, op, written, lapses>>
        BY DEF ReadUser, dbVars, ghostVars
    <1>2. /\ User(p) \in Users /\ Kind(p) \in RequestKinds \cup JobKinds
          /\ Kind(p) \notin {"patch", "provision"}
          /\ Patch(p) = Change(Kind(p)) /\ row[User(p)] \in Rows
        BY <1>1, RowFacts DEF IInv, ProcInv, Shape, Locking
    <1>3. /\ copy'[p] = row[User(p)]
          /\ pc'[p] = CASE Kind(p) = "risk" /\ row[User(p)].admin /\ IsValid(row[User(p)]) -> "guard"
                        [] Kind(p) = "self" /\ row[User(p)].admin -> "guard"
                        [] Kind(p) = "claim" -> "guard"
                        [] Kind(p) = "reactivate" -> "reactivate"
                        [] Kind(p) = "cliReactivate" -> "save"
                        [] OTHER -> "update"
        BY TypedFact DEF ReadUser, Goto, Typed, Kind
    <1>4. Kind(p)' = Kind(p) /\ User(p)' = User(p) /\ Patch(p)' = Patch(p)
        BY <1>1 DEF Kind, User, Patch
    <1>5. /\ pc'[p] \in {"guard", "reactivate", "save", "update"}
          /\ pc'[p] = "guard" => Kind(p) \in {"risk", "self", "claim"}
          /\ pc'[p] = "reactivate" => Kind(p) = "reactivate"
          /\ pc'[p] = "save" => Kind(p) = "cliReactivate"
          /\ pc'[p] = "update" => Kind(p) \notin {"claim", "cliReactivate"}
        BY <1>3
    <1>6. bootBy' # p /\ \A v \in Users : rowBy'[v] # p
        BY <1>1, NoLocks DEF Wrote
    <1>7. Wrote(p)' => Kind(p) = "cliReactivate"
        BY <1>4, <1>5 DEF Wrote
    <1>8. Shape(p)'
      <2>1. Wrote(p)' => ~Deactivates(p)' /\ ~AdminChanged(p)' /\ Kind(p)' # "claim"
        BY <1>4, <1>7 DEF Deactivates, AdminChanged, Kind
      <2>. QED  BY <1>2, <1>4, <1>5, <2>1 DEF Shape
    <1>9. Locks(p)'
      <2>0. Change("cliReactivate") = <<>> /\ DOMAIN <<>> = {}
        BY DEF Change
      <2>1. Wrote(p)' => ~Changes(p)'
        BY <1>2, <1>4, <1>7, <2>0 DEF Changes, Kind, Patch
      <2>2. (pc[p] \in {"update", "save"} => Kind(p) # "claim")' /\ ~Locking(Kind(p))'
        BY <1>2, <1>4, <1>5 DEF Locking
      <2>. QED  BY <1>2, <1>4, <1>6, <2>1, <2>2 DEF Locks
    <1>10. Writes(p)'
        BY <1>6 DEF Writes
    <1>11. Guarded(p)'
      <2>1. ASSUME Kind(p) \in {"risk", "self"}, pc'[p] = "update"
            PROVE  ~RemovesActiveAdmin(row[User(p)], Patch(p))
        BY <1>3, <2>1 DEF RemovesActiveAdmin
      <2>2. (Kind(p) \in {"patch", "risk", "self"} /\ (pc[p] = "update" \/ Wrote(p)) =>
               bootBy = p \/ ~RemovesActiveAdmin(copy[p], Patch(p)))'
        BY <1>2, <1>3, <1>4, <1>7, <2>1
      <2>3. (Kind(p) # "patch")' /\ (pc[p] \in {"update", "save"} => Kind(p) # "claim")'
        BY <1>2, <1>4, <1>5
      <2>. QED  BY <1>6, <2>2, <2>3 DEF Guarded
    <1>12. Pushes(p)'
        BY <1>1, <1>2, <1>3, <1>4 DEF Pushes
    <1>. QED  BY <1>0, <1>1, <1>8, <1>9, <1>10, <1>11, <1>12, JobsKept, FrameStep DEF Own

\* The user row is locked for sync and read again.
LEMMA LockStep ==
    ASSUME IInv, NEW p \in Procs, AcquireLockForSync(p)
    PROVE  IInv'
    <1>0. Others(p) /\ Typed'
        BY StepOthers, TypeStep DEF Step
    <1>1. /\ pc[p] = "sync"
          /\ UNCHANGED <<row, rowBy, bootBy, jobs, hs, op, written, inserted, lapses>>
        BY DEF AcquireLockForSync, ghostVars
    <1>2. /\ User(p) \in Users /\ Kind(p) \in {"patch", "provision"}
        BY <1>1, RowFacts DEF IInv, ProcInv, Shape, Locking
    <1>3. /\ copy'[p] = row[User(p)] /\ syncBy'[User(p)] = p
          /\ pc'[p] = CASE Kind(p) = "provision" -> "push"
                        [] RemovesActiveAdmin(row[User(p)], Patch(p)) -> "guard"
                        [] OTHER -> "update"
        BY <1>2, TypedFact DEF AcquireLockForSync, Goto, Typed, Kind, Patch
    <1>4. Kind(p)' = Kind(p) /\ User(p)' = User(p) /\ Patch(p)' = Patch(p)
        BY <1>1 DEF Kind, User, Patch
    <1>5. /\ Kind(p) = "provision" => pc'[p] = "push"
          /\ Kind(p) = "patch" => pc'[p] \in {"guard", "update"}
          /\ pc'[p] = "update" => ~RemovesActiveAdmin(row[User(p)], Patch(p))
      <2>1. CASE Kind(p) = "provision"
        <3>1. Patch(p) = <<>> /\ DOMAIN <<>> = {}
            BY <2>1, <1>1 DEF IInv, ProcInv, Shape, Change
        <3>2. ~RemovesActiveAdmin(row[User(p)], Patch(p))
            BY <3>1 DEF RemovesActiveAdmin
        <3>. QED  BY <2>1, <3>2, <1>3
      <2>2. CASE Kind(p) = "patch" /\ RemovesActiveAdmin(row[User(p)], Patch(p))
        BY <2>2, <1>3
      <2>3. CASE Kind(p) = "patch" /\ ~RemovesActiveAdmin(row[User(p)], Patch(p))
        BY <2>3, <1>3
      <2>. QED  BY <1>2, <2>1, <2>2, <2>3
    <1>6. bootBy' # p /\ \A v \in Users : rowBy'[v] # p
        BY <1>1, NoLocks DEF Wrote
    <1>7. ~Wrote(p)'
        BY <1>2, <1>5 DEF Wrote
    <1>8. Shape(p)'
      <2>1. Kind(p) # "patch" => Patch(p) = Change(Kind(p))
        BY <1>1 DEF IInv, ProcInv, Shape
      <2>. QED  BY <1>2, <1>4, <1>5, <1>7, <2>1 DEF Shape, RequestKinds, JobKinds
    <1>9. Locks(p)' /\ Writes(p)'
        BY <1>2, <1>3, <1>4, <1>6, <1>7 DEF Locks, Writes
    <1>10. Guarded(p)'
      <2>1. (Kind(p) = "patch" => Loose \/ ActiveAdmins # {})'
        BY <1>1, <1>4 DEF IInv, ProcInv, Guarded, Loose, Lapsed, ActiveAdmins
      <2>. QED  BY <1>2, <1>3, <1>4, <1>5, <1>6, <1>7, <2>1 DEF Guarded
    <1>11. Pushes(p)'
        BY <1>1, <1>2, <1>3, <1>4, <1>5 DEF Pushes
    <1>. QED  BY <1>0, <1>1, <1>8, <1>9, <1>10, <1>11, JobsKept, FrameStep DEF Own

\* More than one: somebody else.
LEMMA AnotherOne ==
    ASSUME NEW S, NEW u, Cardinality(S) > 1
    PROVE  \E v \in S : v # u
    <1>. SUFFICES ASSUME \A v \in S : v = u
         PROVE  FALSE
        OBVIOUS
    <1>1. CASE S = {}
        BY <1>1, FS_EmptySet
    <1>2. CASE S = {u}
      <2>1. Cardinality({u}) = 1
        BY FS_Singleton
      <2>. QED  BY <1>2, <2>1
    <1>. QED  BY <1>1, <1>2

\* The guard for the last administrator takes the bootstrap lock and counts.
LEMMA GuardStep ==
    ASSUME IInv, NEW p \in Procs, Guard(p)
    PROVE  IInv'
    <1>0. Others(p) /\ Typed'
        BY StepOthers, TypeStep DEF Step
    <1>1. pc[p] = "guard" /\ UNCHANGED <<row, jobs, hs, lapses>>
        BY DEF Guard, ghostVars
    <1>2. CASE ~GuardHolds(p)
      <2>1. Release(p) /\ Idle(p)
        BY <1>2 DEF Guard
      <2>. QED  BY <1>0, <1>1, <2>1, ReleaseAll, IdleOwn, JobsKept, FrameStep
    <1>3. CASE GuardHolds(p)
      <2>1. bootBy' = p /\ pc'[p] = "update" /\ UNCHANGED <<rowBy, syncBy, op, copy, written, inserted>>
        BY <1>3, TypedFact DEF Guard, Goto, Typed
      <2>2. Kind(p)' = Kind(p) /\ User(p)' = User(p) /\ Patch(p)' = Patch(p)
        BY <2>1 DEF Kind, User, Patch
      <2>3. Shape(p) /\ Locks(p) /\ Guarded(p) /\ Kind(p) \in {"patch", "risk", "self", "claim"}
        BY <1>1 DEF IInv, ProcInv, Shape
      <2>4. ~Wrote(p)' /\ \A v \in Users : rowBy'[v] # p
        BY <1>1, <2>1, NoLocks DEF Wrote
      <2>5. Shape(p)'
        BY <1>1, <2>1, <2>2, <2>3, <2>4 DEF Shape
      <2>6. Locks(p)' /\ Writes(p)'
        BY <1>1, <2>1, <2>2, <2>3, <2>4 DEF Locks, Writes
      <2>7. Guarded(p)'
        <3>1. Kind(p) # "claim" => \E v \in ActiveAdmins : v # User(p)
            BY <1>3, AnotherOne DEF GuardHolds, Kind
        <3>2. Kind(p) = "claim" => Admins = {}
            BY <1>3 DEF GuardHolds, Kind
        <3>3. ActiveAdmins' = ActiveAdmins /\ Admins' = Admins /\ (Loose' <=> Loose)
            BY <1>1 DEF ActiveAdmins, Admins, Loose, Lapsed
        <3>. QED  BY <1>1, <2>1, <2>2, <2>3, <3>1, <3>2, <3>3 DEF Guarded
      <2>8. Pushes(p)'
        BY <2>1, <2>2, <2>3 DEF Pushes
      <2>. QED  BY <1>0, <1>1, <2>1, <2>5, <2>6, <2>7, <2>8, JobsKept, FrameStep DEF Own
    <1>. QED  BY <1>2, <1>3

\* The UPDATE: the row that is written has the patch, and of the rest what is
\* committed, unless the copy is out of date.
LEMMA UpdateStep ==
    ASSUME IInv, NEW p \in Procs, Update(p)
    PROVE  IInv'
    <1>0. Others(p) /\ Typed'
        BY StepOthers, TypeStep DEF Step
    <1>1. pc[p] = "update" /\ UNCHANGED <<row, syncBy, bootBy, jobs, hs, op, copy>>
        BY DEF Update
    <1>2. /\ User(p) \in Users /\ Patch(p) \in AllPatches
          /\ row[User(p)] \in Rows /\ copy[p] \in Rows
        BY <1>1, RowFacts
    <1>3. Shape(p) /\ Locks(p) /\ Guarded(p) /\ Pushes(p)
          /\ Kind(p) \notin {"provision", "cliReactivate"}
        BY <1>1 DEF IInv, ProcInv, Shape
    <1>4. /\ Kind(p)' = Kind(p) /\ User(p)' = User(p) /\ Patch(p)' = Patch(p)
          /\ Changes(p)' <=> Changes(p)
          /\ AdminChanged(p)' <=> AdminChanged(p)
          /\ Deactivates(p)' <=> Deactivates(p)
          /\ Reactivates(p)' <=> Reactivates(p)
          /\ Revokes(p)' <=> Revokes(p)
        BY <1>1 DEF Kind, User, Patch, Changes, AdminChanged, Deactivates, Reactivates, Revokes, Updated
    <1>5. pc'[p] = AfterUpdate(p)
        BY TypedFact DEF Update, Goto, Typed
    <1>6. /\ pc'[p] \in {"reactivate", "revoke", "save"}
          /\ pc'[p] = "reactivate" => Reactivates(p)
          /\ pc'[p] = "revoke" => Revokes(p)
        BY <1>5 DEF AfterUpdate
    <1>7. Reactivates(p) \/ Revokes(p) => Kind(p) = "patch"
        BY DEF Reactivates, Revokes, AdminChanged, Kind
    <1>8. Wrote(p)' /\ ~Wrote(p)
        BY <1>1, <1>4, <1>6, <1>7 DEF Wrote
    <1>9. Shape(p)'
      <2>1. inserted'[p] = (IF Deactivates(p) THEN {"deactivate"} ELSE {}) \cup
                           (IF AdminChanged(p) \/ Kind(p) = "claim" THEN {"provision"} ELSE {})
        BY TypedFact DEF Update, Typed, Kind
      <2>. QED  BY <1>1, <1>3, <1>4, <1>6, <2>1 DEF Shape
    <1>10. /\ \A v \in Users : rowBy[v] # p
           /\ \A v \in Users : rowBy'[v] = p <=> v = User(p) /\ Changes(p)
      <2>1. \A v \in Users : rowBy[v] # p
        BY <1>8, NoLocks
      <2>. QED  BY <2>1, <1>2, TypedFact DEF Update, Typed
    <1>11. Locks(p)'
        BY <1>1, <1>2, <1>3, <1>4, <1>8, <1>10 DEF Locks
    <1>12. Writes(p)'
      <2>. SUFFICES ASSUME NEW u \in Users, rowBy'[u] = p
           PROVE  (/\ \A f \in DOMAIN Patch(p) : written[p][f] = Patch(p)[f]
                   /\ \/ <<"stale", u>> \in lapses
                      \/ /\ \A f \in Fields : f \notin DOMAIN Patch(p) => written[p][f] = row[u][f]
                         /\ WritesAllColumns(Kind(p)) => copy[p] = row[u]
                   /\ Kind(p) = "deactivate" => <<"lateDeactivation", u>> \in lapses)'
        BY DEF Writes
      <2>1. u = User(p) /\ Changes(p)
        BY <1>10
      <2>2. written'[p] = WrittenRow(p)
        BY <2>1, TypedFact DEF Update, Typed
      <2>3. lapses' = lapses \cup
                 (IF WritesAllColumns(Kind(p)) /\ copy[p] # row[u]
                  THEN {<<"stale", u>>} ELSE {}) \cup
                 (IF Kind(p) = "deactivate" THEN {<<"lateDeactivation", u>>} ELSE {})
        BY <2>1 DEF Update, Kind
      <2>4. \A f \in DOMAIN Patch(p) : WrittenRow(p)[f] = Patch(p)[f]
        BY <1>2, PatchFact DEF WrittenRow, Patch
      <2>5. \/ <<"stale", u>> \in lapses'
            \/ /\ \A f \in Fields : f \notin DOMAIN Patch(p) => WrittenRow(p)[f] = row[u][f]
               /\ WritesAllColumns(Kind(p)) => copy[p] = row[u]
        BY <2>1, <2>3 DEF WrittenRow, Patch, Kind
      <2>6. Kind(p) = "deactivate" => <<"lateDeactivation", u>> \in lapses'
        BY <2>3
      <2>. QED  BY <1>1, <1>4, <2>2, <2>4, <2>5, <2>6
    <1>13. Guarded(p)'
      <2>1. ActiveAdmins' = ActiveAdmins /\ Admins' = Admins /\ (Loose => Loose')
        BY <1>0, <1>1 DEF ActiveAdmins, Admins, Loose, Lapsed, Others
      <2>. QED  BY <1>1, <1>3, <1>4, <2>1 DEF Guarded
    <1>14. Pushes(p)'
      <2>1. DeactivationLapse(User(p)) => DeactivationLapse(User(p))'
        BY <1>0, <1>4 DEF DeactivationLapse, Lapsed, Others
      <2>. QED  BY <1>1, <1>3, <1>4, <1>6, <2>1 DEF Pushes
    <1>. QED  BY <1>0, <1>1, <1>9, <1>11, <1>12, <1>13, <1>14, JobsKept, FrameStep DEF Own

-----------------------------------------------------------------------------
(***************************************************************************)
(* Calls to the homeserver.                                                *)
(***************************************************************************)
\* What the steps say of the lapses that count.
LEMMA LapsesGrow ==
    ASSUME NEW p, Others(p)
    PROVE  /\ Loose => Loose'
           /\ \A u : (AdminLapse(u) => AdminLapse(u)') /\ (DeactivationLapse(u) => DeactivationLapse(u)')
    BY DEF Loose, AdminLapse, DeactivationLapse, Lapsed, Others

\* Two processes that hold the lock of one user are one.
LEMMA OneHolder ==
    ASSUME IInv, NEW p \in Procs, NEW q \in Procs, User(p) = User(q),
           Locking(Kind(p)), Locking(Kind(q)),
           pc[p] \in {"guard", "update", "reactivate", "revoke", "push", "save"},
           pc[q] \in {"guard", "update", "reactivate", "revoke", "push", "save"}
    PROVE  p = q
    BY DEF IInv, ProcInv, Locks

\* A call to the homeserver leaves alone what the others are about to push,
\* unless another holder of the lock pushes too.
LEMMA OthersHs ==
    ASSUME IInv, NEW p \in Procs, Others(p), NEW q \in Procs \ {p}, row' = row, jobs' = jobs,
           Kind(q) = "provision" /\ pc[q] = "save" =>
             \/ hs'[User(q)].admin = hs[User(q)].admin
             \/ hs'[User(q)].admin = row[User(q)].admin
             \/ <<"lateGrant", User(q)>> \in lapses'
    PROVE  Own(q)'
    <1>1. Shape(q)' /\ Locks(q)' /\ Writes(q)' /\ Guarded(q)'
        BY OthersShapeLocks, OthersWrites, OthersGuarded
    <1>2. Pushes(q)'
      <2>0. Same(q) /\ Pushes(q)
        BY DEF Others, IInv, ProcInv
      <2>1. <<"lateGrant", User(q)>> \in lapses' => AdminLapse(User(q))'
        BY <2>0, SameFacts DEF AdminLapse, Lapsed
      <2>. QED  BY <2>0, <2>1, LapsesGrow, SameFacts DEF Pushes, Same
    <1>. QED  BY <1>1, <1>2 DEF Own

\* What is left to show for a call to the homeserver.
LEMMA HsStep ==
    ASSUME IInv, Typed', JobsInv', AdminSynced', DeactivationSynced',
           \A q \in Procs : Own(q)'
    PROVE  IInv'
    <1>1. ProcInv' /\ (\A q \in Procs : Shape(q))'
        BY DEF ProcInv, Own
    <1>2. TypeOK'
        BY <1>1, TypedNext
    <1>3. (op \in [Procs -> Ops])'
        BY DEF Typed
    <1>. QED  BY <1>1, <1>2, <1>3 DEF IInv

\* The derived facts about p, while it keeps its request and its copy.
LEMMA OwnFacts ==
    ASSUME NEW p, op' = op, copy' = copy
    PROVE  /\ Kind(p)' = Kind(p) /\ User(p)' = User(p) /\ Patch(p)' = Patch(p)
           /\ Changes(p)' <=> Changes(p)
           /\ AdminChanged(p)' <=> AdminChanged(p)
           /\ Deactivates(p)' <=> Deactivates(p)
           /\ Reactivates(p)' <=> Reactivates(p)
           /\ Revokes(p)' <=> Revokes(p)
    BY DEF Kind, User, Patch, Changes, AdminChanged, Deactivates, Reactivates, Revokes, Updated

\* Those who revoke or reactivate within a patch.
LEMMA PatchOnly ==
    \A p : Revokes(p) \/ Reactivates(p) \/ AdminChanged(p) => Kind(p) = "patch"
    BY DEF Reactivates, Revokes, AdminChanged, Kind

\* A process that goes on to its commit keeps what is said of it.
LEMMA ForwardOwn ==
    ASSUME IInv, NEW p \in Procs, pc[p] # "idle",
           UNCHANGED <<row, rowBy, syncBy, bootBy, jobs, op, copy, written, inserted, lapses>>,
           pc'[p] \in {"revoke", "save"},
           Wrote(p)', pc'[p] = "revoke" => Revokes(p),
           Wrote(p), Kind(p) = "patch"
    PROVE  Own(p)'
    <1>0. Shape(p) /\ Locks(p) /\ Writes(p) /\ Guarded(p)
        BY DEF IInv, ProcInv
    <1>1. Shape(p)'
        BY <1>0, OwnFacts DEF Shape, Wrote, Kind
    <1>2. Locks(p)'
      <2>1. syncBy[User(p)] = p
        BY <1>0 DEF Locks, Locking, Wrote
      <2>. QED  BY <1>0, <2>1, OwnFacts DEF Locks
    <1>3. Writes(p)'
        BY <1>0, OwnFacts DEF Writes
    <1>4. Guarded(p)'
      <2>1. ActiveAdmins' = ActiveAdmins /\ (Loose' <=> Loose)
        BY DEF ActiveAdmins, Loose, Lapsed
      <2>. QED  BY <1>0, <2>1, OwnFacts DEF Guarded
    <1>5. Pushes(p)'
        BY OwnFacts DEF Pushes
    <1>. QED  BY <1>1, <1>2, <1>3, <1>4, <1>5 DEF Own

\* The homeserver is told to reactivate a user.
LEMMA HsReactivateStep ==
    ASSUME IInv, NEW p \in Procs, HsReactivate(p)
    PROVE  IInv'
    <1>0. Others(p) /\ Typed'
        BY StepOthers, TypeStep DEF Step
    <1>1. /\ pc[p] = "reactivate"
          /\ UNCHANGED <<row, rowBy, syncBy, bootBy, jobs, op, copy, written, inserted, lapses>>
        BY DEF HsReactivate, dbVars, ghostVars
    <1>2. User(p) \in Users /\ (Kind(p) = "reactivate" \/ Reactivates(p)) /\ Shape(p) /\ Locks(p)
        BY <1>1, RowFacts DEF IInv, ProcInv, Shape
    <1>3. /\ Kind(p) = "reactivate" => pc'[p] = "update"
          /\ Reactivates(p) => pc'[p] \in {"revoke", "save"} /\ (pc'[p] = "revoke" => Revokes(p))
      <2>1. pc'[p] = CASE op[p].kind = "reactivate" -> "update"
                       [] Revokes(p) -> "revoke"
                       [] OTHER -> "save"
        BY TypedFact DEF HsReactivate, Goto, Typed
      <2>2. CASE Kind(p) = "reactivate"
        <3>1. ~Revokes(p) /\ ~Reactivates(p)
            BY <2>2, PatchOnly
        <3>. QED  BY <2>1, <2>2, <3>1 DEF Kind
      <2>3. CASE Kind(p) # "reactivate"
        <3>1. CASE Revokes(p)
            BY <2>1, <2>3, <3>1 DEF Kind
        <3>2. CASE ~Revokes(p)
            BY <2>1, <2>3, <3>2 DEF Kind
        <3>. QED  BY <3>1, <3>2, <2>3
      <2>. QED  BY <2>2, <2>3
    <1>4. \A v \in Users : hs'[v].admin = hs[v].admin /\ (v # User(p) => hs'[v] = hs[v])
        BY <1>2, TypedFact DEF HsReactivate, Typed
    <1>5. ASSUME NEW q \in Procs
          PROVE  Own(q)'
      <2>1. CASE q # p
        <3>1. Kind(q) = "provision" => User(q) \in Users
            BY RunningJob DEF JobKinds
        <3>. QED  BY <2>1, <3>1, <1>0, <1>1, <1>4, OthersHs
      <2>2. CASE q = p /\ Kind(p) = "reactivate"
        <3>1. pc'[p] = "update" /\ ~Wrote(p) /\ ~Wrote(p)'
            BY <1>1, <1>3, <2>2, OwnFacts DEF Wrote
        <3>2. bootBy' # p /\ \A v \in Users : rowBy'[v] # p
            BY <1>1, <3>1, NoLocks
        <3>3. Shape(p)'
            BY <1>1, <1>2, <2>2, <3>1, OwnFacts DEF Shape
        <3>4. Locks(p)' /\ Writes(p)'
            BY <1>1, <2>2, <3>1, <3>2, OwnFacts DEF Locks, Writes, Locking
        <3>5. Guarded(p)' /\ Pushes(p)'
            BY <1>1, <2>2, <3>1, <3>2, OwnFacts DEF Guarded, Pushes
        <3>. QED  BY <2>2, <3>3, <3>4, <3>5 DEF Own
      <2>3. CASE q = p /\ Reactivates(p)
        <3>1. Kind(p) = "patch" /\ Wrote(p) /\ Wrote(p)'
            BY <1>1, <1>3, <2>3, PatchOnly DEF Wrote
        <3>. QED  BY <1>1, <1>3, <2>3, <3>1, ForwardOwn
      <2>. QED  BY <1>2, <2>1, <2>2, <2>3
    <1>6. AdminSynced'
      <2>. SUFFICES ASSUME NEW u \in Users
           PROVE  (\/ hs[u].admin = row[u].admin \/ AdminLapse(u) \/ jobs["provision"][u] > 0
                   \/ \E q \in Procs : pc[q] = "save" /\ User(q) = u /\ Revokes(q))'
        BY DEF AdminSynced
      <2>1. ASSUME NEW q \in Procs, pc[q] = "save", User(q) = u, Revokes(q)
            PROVE  (pc[q] = "save" /\ User(q) = u /\ Revokes(q))'
        BY <2>1, <1>0, <1>1, SameFacts DEF Others, Same
      <2>. QED  BY <1>0, <1>1, <1>4, <2>1, LapsesGrow DEF IInv, AdminSynced
    <1>7. DeactivationSynced'
      <2>. SUFFICES ASSUME NEW u \in Users
           PROVE  (\/ hs[u].deactivated = row[u].deactivated \/ DeactivationLapse(u)
                   \/ jobs["deactivate"][u] > 0 \/ jobs["reactivate"][u] > 0
                   \/ \E q \in Procs : pc[q] \in {"revoke", "save"} /\ User(q) = u /\ Reactivates(q))'
        BY DEF DeactivationSynced
      <2>1. CASE u = User(p) /\ Kind(p) = "reactivate"
        BY <2>1, <1>1, RunningJob DEF JobKinds
      <2>2. CASE u = User(p) /\ Reactivates(p)
        BY <2>2, <1>1, <1>3, OwnFacts
      <2>3. CASE u # User(p)
        <3>1. ASSUME NEW q \in Procs, pc[q] \in {"revoke", "save"}, User(q) = u, Reactivates(q)
              PROVE  (pc[q] \in {"revoke", "save"} /\ User(q) = u /\ Reactivates(q))'
            BY <2>3, <3>1, <1>0, SameFacts DEF Others, Same
        <3>. QED  BY <1>0, <1>1, <1>4, <2>3, <3>1, LapsesGrow DEF IInv, DeactivationSynced
      <2>. QED  BY <1>2, <2>1, <2>2, <2>3
    <1>. QED  BY <1>0, <1>1, <1>5, <1>6, <1>7, JobsKept, HsStep

\* While the lock of a user is p's, no other process pushes the flag of that
\* user in its name.
LEMMA HsRevokeStep ==
    ASSUME IInv, NEW p \in Procs, HsRevoke(p)
    PROVE  IInv'
    <1>0. Others(p) /\ Typed'
        BY StepOthers, TypeStep DEF Step
    <1>1. /\ pc[p] = "revoke"
          /\ UNCHANGED <<row, rowBy, syncBy, bootBy, jobs, op, copy, written, inserted, lapses>>
        BY DEF HsRevoke, dbVars, ghostVars
    <1>2. User(p) \in Users /\ Revokes(p) /\ Kind(p) = "patch"
        BY <1>1, RowFacts, PatchOnly DEF IInv, ProcInv, Shape
    <1>3. pc'[p] = "save"
        BY TypedFact DEF HsRevoke, Goto, Typed
    <1>4. \A v \in Users : hs'[v].deactivated = hs[v].deactivated /\ (v # User(p) => hs'[v] = hs[v])
        BY <1>2, TypedFact DEF HsRevoke, Typed
    <1>5. ASSUME NEW q \in Procs
          PROVE  Own(q)'
      <2>1. CASE q # p
        <3>1. Kind(q) = "provision" /\ pc[q] = "save" => User(q) \in Users /\ User(q) # User(p)
            BY <1>1, <1>2, <2>1, RunningJob, OneHolder DEF JobKinds, Locking
        <3>. QED  BY <2>1, <3>1, <1>0, <1>1, <1>4, OthersHs
      <2>2. CASE q = p
        BY <1>1, <1>2, <1>3, <2>2, ForwardOwn DEF Wrote
      <2>. QED  BY <2>1, <2>2
    <1>6. AdminSynced'
      <2>. SUFFICES ASSUME NEW u \in Users
           PROVE  (\/ hs[u].admin = row[u].admin \/ AdminLapse(u) \/ jobs["provision"][u] > 0
                   \/ \E q \in Procs : pc[q] = "save" /\ User(q) = u /\ Revokes(q))'
        BY DEF AdminSynced
      <2>1. CASE u = User(p)
        BY <2>1, <1>1, <1>2, <1>3, OwnFacts
      <2>2. CASE u # User(p)
        <3>1. ASSUME NEW q \in Procs, pc[q] = "save", User(q) = u, Revokes(q)
              PROVE  (pc[q] = "save" /\ User(q) = u /\ Revokes(q))'
            BY <2>2, <3>1, <1>0, SameFacts DEF Others, Same
        <3>. QED  BY <1>0, <1>1, <1>4, <2>2, <3>1, LapsesGrow DEF IInv, AdminSynced
      <2>. QED  BY <2>1, <2>2
    <1>7. DeactivationSynced'
      <2>. SUFFICES ASSUME NEW u \in Users
           PROVE  (\/ hs[u].deactivated = row[u].deactivated \/ DeactivationLapse(u)
                   \/ jobs["deactivate"][u] > 0 \/ jobs["reactivate"][u] > 0
                   \/ \E q \in Procs : pc[q] \in {"revoke", "save"} /\ User(q) = u /\ Reactivates(q))'
        BY DEF DeactivationSynced
      <2>1. ASSUME NEW q \in Procs, pc[q] \in {"revoke", "save"}, User(q) = u, Reactivates(q)
            PROVE  (pc[q] \in {"revoke", "save"} /\ User(q) = u /\ Reactivates(q))'
        <3>1. CASE q = p
            BY <3>1, <2>1, <1>1, <1>3, OwnFacts
        <3>2. CASE q # p
            BY <3>2, <2>1, <1>0, SameFacts DEF Others, Same
        <3>. QED  BY <3>1, <3>2
      <2>. QED  BY <1>0, <1>1, <1>4, <2>1, LapsesGrow DEF IInv, DeactivationSynced
    <1>. QED  BY <1>0, <1>1, <1>5, <1>6, <1>7, JobsKept, HsStep

\* The homeserver is told the user's admin flag.
LEMMA HsProvisionStep ==
    ASSUME IInv, NEW p \in Procs, HsProvision(p)
    PROVE  IInv'
    <1>0. Others(p) /\ Typed'
        BY StepOthers, TypeStep DEF Step
    <1>1. /\ pc[p] = "push"
          /\ UNCHANGED <<row, rowBy, syncBy, bootBy, jobs, op, copy, written, inserted, lapses>>
        BY DEF HsProvision, dbVars, ghostVars
    <1>2. User(p) \in Users /\ Kind(p) = "provision" /\ Patch(p) = <<>> /\ Shape(p) /\ Locks(p) /\ Pushes(p)
        BY <1>1, RowFacts DEF IInv, ProcInv, Shape, Change
    <1>3. pc'[p] = "save" /\ hs'[User(p)].admin = copy[p].admin
        BY <1>2, TypedFact DEF HsProvision, Goto, Typed
    <1>4. \A v \in Users : hs'[v].deactivated = hs[v].deactivated /\ (v # User(p) => hs'[v] = hs[v])
        BY <1>2, TypedFact DEF HsProvision, Typed
    <1>5. ASSUME NEW q \in Procs
          PROVE  Own(q)'
      <2>1. CASE q # p
        <3>1. Kind(q) = "provision" /\ pc[q] = "save" => User(q) \in Users /\ User(q) # User(p)
            BY <1>1, <1>2, <2>1, RunningJob, OneHolder DEF JobKinds, Locking
        <3>. QED  BY <2>1, <3>1, <1>0, <1>1, <1>4, OthersHs
      <2>2. CASE q = p
        <3>0. bootBy' # p /\ \A v \in Users : rowBy'[v] # p
            BY <1>1, NoLocks DEF Wrote
        <3>1. ~Changes(p)' /\ ~AdminChanged(p)' /\ ~Deactivates(p)'
          <4>1. DOMAIN <<>> = {}
            OBVIOUS
          <4>2. ~Changes(p) /\ ~AdminChanged(p) /\ ~Deactivates(p)
            BY <4>1, <1>2 DEF Changes, AdminChanged, Deactivates, Kind, Patch
          <4>. QED  BY <4>2, <1>1, OwnFacts
        <3>2. Shape(p)'
            BY <1>1, <1>2, <1>3, <3>1, OwnFacts DEF Shape
        <3>3. Locks(p)' /\ Writes(p)'
            BY <1>1, <1>2, <1>3, <3>0, <3>1, OwnFacts DEF Locks, Writes, Locking
        <3>4. Guarded(p)'
            BY <1>1, <1>2, <1>3, <3>0, OwnFacts DEF Guarded
        <3>5. Pushes(p)'
          <4>1. AdminLapse(User(p)) => AdminLapse(User(p))'
            BY <1>1, OwnFacts DEF AdminLapse, Lapsed
          <4>. QED  BY <1>1, <1>2, <1>3, <4>1, OwnFacts DEF Pushes
        <3>. QED  BY <2>2, <3>2, <3>3, <3>4, <3>5 DEF Own
      <2>. QED  BY <2>1, <2>2
    <1>6. AdminSynced'
      <2>. SUFFICES ASSUME NEW u \in Users
           PROVE  (\/ hs[u].admin = row[u].admin \/ AdminLapse(u) \/ jobs["provision"][u] > 0
                   \/ \E q \in Procs : pc[q] = "save" /\ User(q) = u /\ Revokes(q))'
        BY DEF AdminSynced
      <2>1. CASE u = User(p)
        BY <2>1, <1>1, <1>2, RunningJob DEF JobKinds
      <2>2. CASE u # User(p)
        <3>1. ASSUME NEW q \in Procs, pc[q] = "save", User(q) = u, Revokes(q)
              PROVE  (pc[q] = "save" /\ User(q) = u /\ Revokes(q))'
            BY <2>2, <3>1, <1>0, SameFacts DEF Others, Same
        <3>. QED  BY <1>0, <1>1, <1>4, <2>2, <3>1, LapsesGrow DEF IInv, AdminSynced
      <2>. QED  BY <2>1, <2>2
    <1>7. DeactivationSynced'
      <2>. SUFFICES ASSUME NEW u \in Users
           PROVE  (\/ hs[u].deactivated = row[u].deactivated \/ DeactivationLapse(u)
                   \/ jobs["deactivate"][u] > 0 \/ jobs["reactivate"][u] > 0
                   \/ \E q \in Procs : pc[q] \in {"revoke", "save"} /\ User(q) = u /\ Reactivates(q))'
        BY DEF DeactivationSynced
      <2>1. ASSUME NEW q \in Procs, pc[q] \in {"revoke", "save"}, User(q) = u, Reactivates(q)
            PROVE  (pc[q] \in {"revoke", "save"} /\ User(q) = u /\ Reactivates(q))'
        BY <2>1, <1>0, <1>1, SameFacts DEF Others, Same
      <2>. QED  BY <1>0, <1>1, <1>4, <2>1, LapsesGrow DEF IInv, DeactivationSynced
    <1>. QED  BY <1>0, <1>1, <1>5, <1>6, <1>7, JobsKept, HsStep

\* The late grant is the lapse that AdminFlagConverges names.
LEMMA GrantStep ==
    ASSUME IInv, NEW p \in Procs, PushAdminGrant(p)
    PROVE  IInv'
    <1>0. Others(p) /\ Typed'
        BY StepOthers, TypeStep DEF Step
    <1>1. pc[p] = "grant" /\ Idle(p) /\ UNCHANGED <<row, rowBy, syncBy, bootBy, jobs>>
        BY DEF PushAdminGrant, dbVars
    <1>2. User(p) \in Users
        BY <1>1, RowFacts
    <1>3. \A v \in Users : hs'[v].deactivated = hs[v].deactivated /\ (v # User(p) => hs'[v] = hs[v])
        BY <1>2, TypedFact DEF PushAdminGrant, Typed
    <1>4. hs'[User(p)].admin = row[User(p)].admin \/ <<"lateGrant", User(p)>> \in lapses'
      <2>1. row[User(p)].admin \in BOOLEAN
        BY <1>2, TypedFact DEF Typed, Rows, Fields
      <2>2. hs'[User(p)].admin = TRUE
        BY <1>2, TypedFact DEF PushAdminGrant, Typed
      <2>. QED  BY <2>1, <2>2 DEF PushAdminGrant
    <1>5. ASSUME NEW q \in Procs
          PROVE  Own(q)'
      <2>1. CASE q # p
        <3>1. Kind(q) = "provision" => User(q) \in Users
            BY RunningJob DEF JobKinds
        <3>2. Kind(q) = "provision" /\ pc[q] = "save" =>
                 \/ hs'[User(q)].admin = hs[User(q)].admin
                 \/ hs'[User(q)].admin = row[User(q)].admin
                 \/ <<"lateGrant", User(q)>> \in lapses'
            BY <3>1, <1>3, <1>4
        <3>. QED  BY <2>1, <3>2, <1>0, <1>1, OthersHs
      <2>2. CASE q = p
        BY <1>1, <2>2, NoLocks, IdleOwn DEF Wrote
      <2>. QED  BY <2>1, <2>2
    <1>6. AdminSynced'
      <2>. SUFFICES ASSUME NEW u \in Users
           PROVE  (\/ hs[u].admin = row[u].admin \/ AdminLapse(u) \/ jobs["provision"][u] > 0
                   \/ \E q \in Procs : pc[q] = "save" /\ User(q) = u /\ Revokes(q))'
        BY DEF AdminSynced
      <2>1. CASE u = User(p)
        BY <2>1, <1>1, <1>4 DEF AdminLapse, Lapsed
      <2>2. CASE u # User(p)
        <3>1. ASSUME NEW q \in Procs, pc[q] = "save", User(q) = u, Revokes(q)
              PROVE  (pc[q] = "save" /\ User(q) = u /\ Revokes(q))'
            BY <2>2, <3>1, <1>0, SameFacts DEF Others, Same
        <3>. QED  BY <1>0, <1>1, <1>3, <2>2, <3>1, LapsesGrow DEF IInv, AdminSynced
      <2>. QED  BY <2>1, <2>2
    <1>7. DeactivationSynced'
      <2>. SUFFICES ASSUME NEW u \in Users
           PROVE  (\/ hs[u].deactivated = row[u].deactivated \/ DeactivationLapse(u)
                   \/ jobs["deactivate"][u] > 0 \/ jobs["reactivate"][u] > 0
                   \/ \E q \in Procs : pc[q] \in {"revoke", "save"} /\ User(q) = u /\ Reactivates(q))'
        BY DEF DeactivationSynced
      <2>1. ASSUME NEW q \in Procs, pc[q] \in {"revoke", "save"}, User(q) = u, Reactivates(q)
            PROVE  (pc[q] \in {"revoke", "save"} /\ User(q) = u /\ Reactivates(q))'
        BY <2>1, <1>0, <1>1, SameFacts DEF Others, Same
      <2>. QED  BY <1>0, <1>1, <1>3, <2>1, LapsesGrow DEF IInv, DeactivationSynced
    <1>. QED  BY <1>0, <1>1, <1>5, <1>6, <1>7, JobsKept, HsStep

-----------------------------------------------------------------------------
(***************************************************************************)
(* The commit, and the end of a deactivation.                              *)
(***************************************************************************)
\* How the queue changes: a job can only become fewer when its process is done.
LEMMA JobsAfterFacts ==
    ASSUME IInv, NEW p \in Procs, pc[p] # "idle", NEW done \in BOOLEAN,
           jobs' = JobsAfter(p, done)
    PROVE  \A k \in JobKinds, u \in Users :
             /\ jobs[k][u] \in Nat /\ jobs'[k][u] \in Nat
             /\ ~(done /\ u = User(p) /\ k = Kind(p)) => jobs'[k][u] >= jobs[k][u]
             /\ jobs'[k][u] >= jobs[k][u] - 1
             /\ u = User(p) /\ k \in inserted[p] /\ k # Kind(p) => jobs'[k][u] = jobs[k][u] + 1
    <1>. SUFFICES ASSUME NEW k \in JobKinds, NEW u \in Users
         PROVE  /\ jobs[k][u] \in Nat /\ jobs'[k][u] \in Nat
                /\ ~(done /\ u = User(p) /\ k = Kind(p)) => jobs'[k][u] >= jobs[k][u]
                /\ jobs'[k][u] >= jobs[k][u] - 1
                /\ u = User(p) /\ k \in inserted[p] /\ k # Kind(p) => jobs'[k][u] = jobs[k][u] + 1
        OBVIOUS
    <1>1. jobs[k][u] \in Nat /\ jobs'[k][u] \in Nat
        BY JobsAfterType, TypedFact DEF Typed
    <1>2. jobs'[k][u] = jobs[k][u] + (IF u = User(p) /\ k \in inserted[p] THEN 1 ELSE 0)
                          - (IF done /\ u = User(p) /\ k = Kind(p) THEN 1 ELSE 0)
        BY DEF JobsAfter, Kind
    <1>. QED  BY <1>1, <1>2

\* The homeserver is told to deactivate a user.
LEMMA HsDeleteStep ==
    ASSUME IInv, NEW p \in Procs, HsDelete(p)
    PROVE  IInv'
    <1>0. Others(p) /\ Typed'
        BY StepOthers, TypeStep DEF Step
    <1>1. pc[p] = "delete" /\ Idle(p) /\ jobs' = JobsAfter(p, TRUE)
          /\ UNCHANGED <<row, rowBy, syncBy, bootBy, lapses>>
        BY DEF HsDelete, ghostVars
    <1>2. User(p) \in Users /\ Kind(p) = "deactivate"
          /\ (row[User(p)].deactivated \/ DeactivationLapse(User(p)))
        BY <1>1, RowFacts DEF IInv, ProcInv, Shape, Pushes
    <1>3. \A v \in Users : hs'[v].admin = hs[v].admin /\ (v # User(p) => hs'[v] = hs[v])
        BY <1>2, TypedFact DEF HsDelete, Typed
    <1>4. /\ \A v \in Users : jobs'["provision"][v] >= jobs["provision"][v]
          /\ \A v \in Users \ {User(p)} : /\ jobs'["deactivate"][v] >= jobs["deactivate"][v]
                                          /\ jobs'["reactivate"][v] >= jobs["reactivate"][v]
          /\ \A k \in JobKinds, v \in Users : jobs[k][v] \in Nat /\ jobs'[k][v] \in Nat
        BY <1>1, <1>2, JobsAfterFacts DEF JobKinds
    <1>5. ASSUME NEW q \in Procs
          PROVE  Own(q)'
      <2>1. CASE q # p
        <3>0. Same(q) /\ Pushes(q) /\ Shape(q)
            BY <2>1, <1>0 DEF Others, IInv, ProcInv
        <3>1. Shape(q)' /\ Locks(q)' /\ Writes(q)' /\ Guarded(q)'
            BY <1>0, <1>1, <2>1, OthersShapeLocks, OthersWrites, OthersGuarded
        <3>2. Pushes(q)'
          <4>1. pc[q] # "idle" => User(q) \in Users
            BY <3>0 DEF Shape
          <4>2. pc[q] # "idle" => /\ jobs["provision"][User(q)] > 1 => jobs'["provision"][User(q)] > 1
                                  /\ hs'[User(q)].admin = hs[User(q)].admin
            BY <4>1, <1>3, <1>4 DEF JobKinds
          <4>. QED  BY <3>0, <4>2, <1>0, <1>1, LapsesGrow, SameFacts DEF Pushes, Same
        <3>. QED  BY <3>1, <3>2 DEF Own
      <2>2. CASE q = p
        BY <1>1, <2>2, NoLocks, IdleOwn DEF Wrote
      <2>. QED  BY <2>1, <2>2
    <1>6. AdminSynced'
      <2>. SUFFICES ASSUME NEW u \in Users
           PROVE  (\/ hs[u].admin = row[u].admin \/ AdminLapse(u) \/ jobs["provision"][u] > 0
                   \/ \E q \in Procs : pc[q] = "save" /\ User(q) = u /\ Revokes(q))'
        BY DEF AdminSynced
      <2>1. ASSUME NEW q \in Procs, pc[q] = "save", User(q) = u, Revokes(q)
            PROVE  (pc[q] = "save" /\ User(q) = u /\ Revokes(q))'
        BY <2>1, <1>0, <1>1, SameFacts DEF Others, Same
      <2>2. jobs["provision"][u] > 0 => jobs'["provision"][u] > 0
        BY <1>4 DEF JobKinds
      <2>. QED  BY <1>0, <1>1, <1>3, <2>1, <2>2, LapsesGrow DEF IInv, AdminSynced
    <1>7. DeactivationSynced'
      <2>. SUFFICES ASSUME NEW u \in Users
           PROVE  (\/ hs[u].deactivated = row[u].deactivated \/ DeactivationLapse(u)
                   \/ jobs["deactivate"][u] > 0 \/ jobs["reactivate"][u] > 0
                   \/ \E q \in Procs : pc[q] \in {"revoke", "save"} /\ User(q) = u /\ Reactivates(q))'
        BY DEF DeactivationSynced
      <2>1. CASE u = User(p)
        <3>1. hs'[u].deactivated = TRUE
            BY <2>1, TypedFact DEF HsDelete, Typed
        <3>2. row[u].deactivated \in BOOLEAN
            BY TypedFact DEF Typed, Rows, Fields
        <3>. QED  BY <2>1, <1>0, <1>1, <1>2, <3>1, <3>2, LapsesGrow
      <2>2. CASE u # User(p)
        <3>1. ASSUME NEW q \in Procs, pc[q] \in {"revoke", "save"}, User(q) = u, Reactivates(q)
              PROVE  (pc[q] \in {"revoke", "save"} /\ User(q) = u /\ Reactivates(q))'
            BY <2>2, <3>1, <1>0, SameFacts DEF Others, Same
        <3>2. /\ jobs["deactivate"][u] > 0 => jobs'["deactivate"][u] > 0
              /\ jobs["reactivate"][u] > 0 => jobs'["reactivate"][u] > 0
            BY <2>2, <1>4 DEF JobKinds
        <3>. QED  BY <1>0, <1>1, <1>3, <2>2, <3>1, <3>2, LapsesGrow DEF IInv, DeactivationSynced
      <2>. QED  BY <2>1, <2>2
    <1>8. JobsInv'
        BY <1>1, JobsDone
    <1>. QED  BY <1>0, <1>5, <1>6, <1>7, <1>8, HsStep

\* What a commit changes in the row of its user.
LEMMA SaveRow ==
    ASSUME IInv, NEW p \in Procs, Save(p), NEW u, u = User(p)
    PROVE  /\ u \in Users /\ row'[u] \in Rows /\ row[u] \in Rows
           /\ \A v \in Users \ {u} : row'[v] = row[v]
           /\ rowBy[u] # p => row'[u] = row[u]
           /\ Kind(p) \in {"patch", "provision"} => syncBy[u] = p
           /\ \/ <<"stale", u>> \in lapses
              \/ row'[u].admin = row[u].admin
              \/ AdminChanged(p) /\ "provision" \in inserted[p]
              \/ Kind(p) = "claim" /\ bootBy = p /\ "provision" \in inserted[p]
           /\ \/ <<"stale", u>> \in lapses
              \/ row'[u].deactivated = row[u].deactivated
              \/ row'[u].deactivated /\ (Kind(p) = "deactivate" \/ Deactivates(p))
              \/ ~row'[u].deactivated /\ (Kind(p) = "reactivate" \/ Reactivates(p))
           /\ row[u].admin /\ IsValid(row[u]) /\ ~(row'[u].admin /\ IsValid(row'[u])) =>
                Loose \/ (bootBy = p /\ Kind(p) # "claim")
    <1>1. pc[p] = "save" /\ Wrote(p)
        BY DEF Save, Wrote
    <1>2. /\ u \in Users /\ row[u] \in Rows /\ copy[p] \in Rows /\ written[p] \in Rows
          /\ Patch(p) \in AllPatches /\ Kind(p) \in RequestKinds \cup JobKinds
        BY <1>1, RowFacts
    <1>3. /\ row'[u] = IF rowBy[u] = p THEN written[p] ELSE row[u]
          /\ \A v \in Users \ {u} : row'[v] = row[v]
        BY <1>2, TypedFact DEF Save, Typed
    <1>4. row'[u] \in Rows
        BY <1>2, <1>3
    <1>5. Shape(p) /\ Locks(p) /\ Writes(p) /\ Guarded(p)
        BY DEF IInv, ProcInv
    <1>6. Kind(p) \in {"patch", "provision"} => syncBy[u] = p
        BY <1>1, <1>5 DEF Locks, Locking
    <1>7. CASE rowBy[u] # p
        BY <1>2, <1>3, <1>4, <1>6, <1>7
    <1>8. CASE rowBy[u] = p
      <2>1. row'[u] = written[p]
        BY <1>3, <1>8
      <2>2. \A f \in DOMAIN Patch(p) : written[p][f] = Patch(p)[f]
        BY <1>2, <1>5, <1>8 DEF Writes
      <2>3. \/ <<"stale", u>> \in lapses
            \/ /\ \A f \in Fields : f \notin DOMAIN Patch(p) => written[p][f] = row[u][f]
               /\ WritesAllColumns(Kind(p)) => copy[p] = row[u]
        BY <1>2, <1>5, <1>8 DEF Writes
      <2>4. Kind(p) # "patch" => Patch(p) = Change(Kind(p))
        BY <1>1, <1>5 DEF Shape
      <2>5. CASE <<"stale", u>> \in lapses
        <3>1. Loose
            BY <1>2, <2>5 DEF Loose, Lapsed
        <3>. QED  BY <1>2, <1>3, <1>4, <1>6, <1>8, <2>5, <3>1
      <2>6. CASE <<"stale", u>> \notin lapses
        <3>1. \A f \in Fields : written[p][f] = IF f \in DOMAIN Patch(p) THEN Patch(p)[f] ELSE row[u][f]
            BY <2>2, <2>3, <2>6
        <3>2. WritesAllColumns(Kind(p)) => copy[p] = row[u]
            BY <2>3, <2>6
        <3>3. Kind(p) = "patch" => copy[p] = row[u] /\ \A f \in Fields : Updated(p)[f] = written[p][f]
            BY <3>1, <3>2 DEF WritesAllColumns, Updated, Patch
        <3>4. ASSUME Kind(p) # "patch"
              PROVE  /\ "admin" \in DOMAIN Patch(p) => Kind(p) = "claim" /\ Patch(p)["admin"]
                     /\ "locked" \in DOMAIN Patch(p) => Kind(p) = "risk" /\ Patch(p)["locked"]
                     /\ "deactivated" \in DOMAIN Patch(p) =>
                          \/ Kind(p) \in {"self", "deactivate"} /\ Patch(p)["deactivated"]
                          \/ Kind(p) = "reactivate" /\ ~Patch(p)["deactivated"]
          <4>0. DOMAIN <<>> = {}
            OBVIOUS
          <4>1. CASE Kind(p) = "risk"
            BY <2>4, <4>1 DEF Change
          <4>2. CASE Kind(p) \in {"self", "deactivate"}
            BY <2>4, <4>2 DEF Change
          <4>3. CASE Kind(p) = "reactivate"
            BY <2>4, <4>3 DEF Change
          <4>4. CASE Kind(p) = "claim"
            BY <2>4, <4>4 DEF Change
          <4>5. CASE Kind(p) \in {"profile", "cliReactivate", "provision"}
            <5>1. Patch(p) = <<>>
                BY <2>4, <4>5 DEF Change
            <5>. QED  BY <4>0, <5>1
          <4>. QED  BY <1>2, <3>4, <4>1, <4>2, <4>3, <4>4, <4>5 DEF RequestKinds, JobKinds
        <3>5. \/ row'[u].admin = row[u].admin
              \/ AdminChanged(p) /\ "provision" \in inserted[p]
              \/ Kind(p) = "claim" /\ bootBy = p /\ "provision" \in inserted[p]
          <4>1. CASE Kind(p) = "patch"
            <5>1. row'[u].admin # row[u].admin => AdminChanged(p)
                BY <2>1, <3>3, <4>1 DEF AdminChanged, Kind, Fields
            <5>. QED  BY <1>1, <1>5, <5>1 DEF Shape
          <4>2. CASE Kind(p) # "patch"
            <5>1. row'[u].admin # row[u].admin => Kind(p) = "claim"
                BY <2>1, <3>1, <3>4, <4>2 DEF Fields
            <5>2. Kind(p) = "claim" => bootBy = p /\ "provision" \in inserted[p]
                BY <1>1, <1>5 DEF Shape, Locks
            <5>. QED  BY <5>1, <5>2
          <4>. QED  BY <4>1, <4>2
        <3>6. \/ row'[u].deactivated = row[u].deactivated
              \/ row'[u].deactivated /\ (Kind(p) = "deactivate" \/ Deactivates(p))
              \/ ~row'[u].deactivated /\ (Kind(p) = "reactivate" \/ Reactivates(p))
          <4>0. row[u].deactivated \in BOOLEAN /\ row'[u].deactivated \in BOOLEAN
            BY <1>2, <1>4 DEF Rows, Fields
          <4>1. CASE Kind(p) = "patch"
            BY <4>0, <2>1, <3>3, <4>1 DEF Deactivates, Reactivates, Kind, Fields
          <4>2. CASE Kind(p) # "patch"
            BY <4>0, <2>1, <3>1, <3>4, <4>2 DEF Deactivates, Kind, Fields
          <4>. QED  BY <4>1, <4>2
        <3>7. ASSUME row[u].admin, IsValid(row[u]), ~(row'[u].admin /\ IsValid(row'[u]))
              PROVE  Loose \/ (bootBy = p /\ Kind(p) # "claim")
          <4>0. /\ row[u].admin \in BOOLEAN /\ row'[u].admin \in BOOLEAN
                /\ row[u].locked \in BOOLEAN /\ row'[u].locked \in BOOLEAN
                /\ row[u].deactivated \in BOOLEAN /\ row'[u].deactivated \in BOOLEAN
            BY <1>2, <1>4 DEF Rows, Fields
          <4>1. Kind(p) = "deactivate" => Loose
            BY <1>2, <1>5, <1>8 DEF Writes, Loose, Lapsed
          <4>2. \/ "admin" \in DOMAIN Patch(p) /\ ~Patch(p)["admin"]
                \/ "locked" \in DOMAIN Patch(p) /\ Patch(p)["locked"]
                \/ "deactivated" \in DOMAIN Patch(p) /\ Patch(p)["deactivated"]
            BY <4>0, <2>1, <3>1, <3>7 DEF IsValid, Fields
          <4>3. CASE Kind(p) \in {"patch", "risk", "self"}
            <5>1. copy[p] = row[u]
                BY <3>2, <4>3 DEF WritesAllColumns
            <5>2. \E f \in DOMAIN Patch(p) : Patch(p)[f] = (f # "admin")
              <6>1. \A f \in DOMAIN Patch(p) : Patch(p)[f] \in BOOLEAN
                BY <1>2, PatchFact
              <6>2. CASE "admin" \in DOMAIN Patch(p) /\ ~Patch(p)["admin"]
                BY <6>1, <6>2
              <6>3. CASE "locked" \in DOMAIN Patch(p) /\ Patch(p)["locked"]
                BY <6>1, <6>3
              <6>4. CASE "deactivated" \in DOMAIN Patch(p) /\ Patch(p)["deactivated"]
                BY <6>1, <6>4
              <6>. QED  BY <4>2, <6>2, <6>3, <6>4
            <5>3. RemovesActiveAdmin(copy[p], Patch(p))
                BY <3>7, <5>1, <5>2 DEF RemovesActiveAdmin
            <5>. QED  BY <1>1, <1>5, <4>3, <5>3 DEF Guarded
          <4>4. CASE Kind(p) \notin {"patch", "risk", "self", "deactivate"}
            BY <3>4, <4>2, <4>4
          <4>. QED  BY <4>1, <4>3, <4>4
        <3>. QED  BY <1>2, <1>3, <1>4, <1>6, <1>8, <3>5, <3>6, <3>7
      <2>. QED  BY <2>5, <2>6
    <1>. QED  BY <1>7, <1>8

\* A commit leaves an active administrator if there was one.
LEMMA SaveAdmins ==
    ASSUME IInv, NEW p \in Procs, Save(p), ActiveAdmins # {}
    PROVE  Loose \/ ActiveAdmins' # {}
    <1>1. PICK v \in ActiveAdmins : TRUE
        OBVIOUS
    <1>. DEFINE u == User(p)
    <1>2. /\ \A w \in Users \ {u} : row'[w] = row[w]
          /\ row[u].admin /\ IsValid(row[u]) /\ ~(row'[u].admin /\ IsValid(row'[u])) =>
               Loose \/ (bootBy = p /\ Kind(p) # "claim")
        BY SaveRow
    <1>3. \A w \in ActiveAdmins : w # u => w \in ActiveAdmins'
        BY <1>2 DEF ActiveAdmins
    <1>4. CASE v # u
        BY <1>3, <1>4
    <1>5. CASE v = u
      <2>1. CASE row'[u].admin /\ IsValid(row'[u])
        <3>1. v \in ActiveAdmins'
            BY <1>5, <2>1 DEF ActiveAdmins
        <3>. QED  BY <3>1
      <2>2. CASE ~(row'[u].admin /\ IsValid(row'[u]))
        <3>1. Loose \/ (bootBy = p /\ Kind(p) # "claim")
            BY <1>2, <1>5, <2>2 DEF ActiveAdmins
        <3>2. Loose \/ \E w \in ActiveAdmins : w # u
            BY <3>1 DEF IInv, ProcInv, Guarded
        <3>. QED  BY <1>3, <3>2
      <2>. QED  BY <2>1, <2>2
    <1>. QED  BY <1>4, <1>5

\* What others saw of the administrators under the deployment's lock.
LEMMA SaveGuarded ==
    ASSUME IInv, NEW p \in Procs, Save(p), NEW q \in Procs \ {p}
    PROVE  Guarded(q)'
    <1>. DEFINE u == User(p)
    <1>0. Others(p)
        BY StepOthers DEF Step
    <1>1. Same(q) /\ Guarded(q) /\ Locks(q) /\ (bootBy' = q <=> bootBy = q)
        BY <1>0 DEF Others, IInv, ProcInv
    <1>2. /\ u \in Users /\ \A w \in Users \ {u} : row'[w] = row[w]
          /\ row[u].admin /\ IsValid(row[u]) /\ ~(row'[u].admin /\ IsValid(row'[u])) =>
               Loose \/ (bootBy = p /\ Kind(p) # "claim")
          /\ \/ <<"stale", u>> \in lapses
             \/ row'[u].admin = row[u].admin
             \/ AdminChanged(p)
             \/ Kind(p) = "claim" /\ bootBy = p
        BY SaveRow
    <1>3. Loose => Loose'
        BY <1>0, LapsesGrow
    <1>4. ASSUME bootBy = q, ~Loose, NEW v \in ActiveAdmins
          PROVE  v \in ActiveAdmins'
        BY <1>2, <1>4 DEF ActiveAdmins
    <1>5. ASSUME bootBy = q, ~Loose, Admins = {}
          PROVE  Admins' = {}
      <2>1. ActiveAdmins = {}
        BY <1>5 DEF ActiveAdmins, Admins
      <2>2. ~AdminChanged(p)
        BY <1>5, <2>1, PatchOnly DEF IInv, ProcInv, Guarded
      <2>3. row'[u].admin = row[u].admin
        BY <1>2, <1>5, <2>2 DEF Loose, Lapsed
      <2>. QED  BY <1>2, <1>5, <2>3 DEF Admins
    <1>6. (bootBy = q /\ Kind(q) # "claim" => Loose \/ \E v \in ActiveAdmins : v # User(q))'
        BY <1>1, <1>3, <1>4, SameFacts DEF Guarded
    <1>7. (Kind(q) = "patch" => Loose \/ ActiveAdmins # {})'
        BY <1>1, <1>3, SaveAdmins, SameFacts DEF Guarded
    <1>8. (Kind(q) = "claim" /\ pc[q] \in {"update", "save"} => Loose \/ Admins = {})'
      <2>1. Kind(q) = "claim" /\ pc[q] \in {"update", "save"} => bootBy = q /\ (Loose \/ Admins = {})
        BY <1>1 DEF Guarded, Locks
      <2>. QED  BY <1>1, <1>3, <1>5, <2>1, SameFacts DEF Same
    <1>9. (Kind(q) \in {"patch", "risk", "self"} /\ (pc[q] = "update" \/ Wrote(q)) =>
             bootBy = q \/ ~RemovesActiveAdmin(copy[q], Patch(q)))'
        BY <1>1, SameFacts DEF Guarded, Same
    <1>. QED  BY <1>6, <1>7, <1>8, <1>9 DEF Guarded

\* The commit ends p's transaction, and its job if nothing follows.
LEMMA SaveJobs ==
    ASSUME IInv, NEW p \in Procs, Save(p)
    PROVE  /\ \A k \in JobKinds, u \in Users :
                /\ jobs[k][u] \in Nat /\ jobs'[k][u] \in Nat
                /\ ~(u = User(p) /\ k = Kind(p)) => jobs'[k][u] >= jobs[k][u]
                /\ Kind(p) = "deactivate" => jobs'[k][u] >= jobs[k][u]
                /\ jobs'[k][u] >= jobs[k][u] - 1
                /\ u = User(p) /\ k \in inserted[p] /\ k # Kind(p) => jobs'[k][u] = jobs[k][u] + 1
           /\ JobsInv'
    <1>. DEFINE done == ~(GrantFollows(p) \/ op[p].kind = "deactivate")
    <1>1. pc[p] # "idle" /\ jobs' = JobsAfter(p, done) /\ done \in BOOLEAN
        BY DEF Save
    <1>2. IF done THEN Idle(p) ELSE op' = op
        BY DEF Save
    <1>3. Kind(p) = "deactivate" => ~done
        BY DEF Kind
    <1>. HIDE DEF done
    <1>4. JobsInv'
        BY <1>1, <1>2, JobsDone
    <1>. QED  BY <1>1, <1>3, <1>4, JobsAfterFacts

\* A reactivation that commits while a deactivation job is in the queue has
\* crossed it.
LEMMA SaveCrossed ==
    ASSUME IInv, NEW p \in Procs, Save(p), NEW u, u = User(p),
           Reactivates(p) \/ Kind(p) = "reactivate"
    PROVE  \/ DeactivationLapse(u)'
           \/ jobs["deactivate"][u] = 0 /\ ~hs[u].deactivated /\ ~row'[u].deactivated
    <1>1. u \in Users
        BY SaveRow
    <1>2. jobs["deactivate"][u] \in Nat
        BY <1>1, TypedFact DEF Typed, JobKinds
    <1>3. CASE \/ jobs["deactivate"][u] > 0 \/ hs[u].deactivated \/ row'[u].deactivated
      <2>1. <<"crossed", u>> \in lapses'
        BY <1>3 DEF Save, Kind
      <2>. QED  BY <2>1 DEF DeactivationLapse, Lapsed
    <1>. QED  BY <1>2, <1>3

\* What other jobs are about to push.
LEMMA SavePushes ==
    ASSUME IInv, NEW p \in Procs, Save(p), NEW q \in Procs \ {p}
    PROVE  Pushes(q)'
    <1>0. Others(p)
        BY StepOthers DEF Step
    <1>1. Same(q) /\ Pushes(q) /\ Locks(q) /\ pc'[q] = pc[q] /\ copy'[q] = copy[q] /\ hs' = hs
        BY <1>0 DEF Others, IInv, ProcInv, Same, Save
    <1>2. PICK u : u = User(q)
        OBVIOUS
    <1>3. User(q)' = u /\ Kind(q)' = Kind(q)
        BY <1>1, <1>2, SameFacts
    <1>4. /\ AdminLapse(u) => AdminLapse(u)'
          /\ DeactivationLapse(u) => DeactivationLapse(u)'
          /\ <<"stale", u>> \in lapses => AdminLapse(u)' /\ DeactivationLapse(u)'
      <2>1. <<"stale", u>> \in lapses => AdminLapse(u) /\ DeactivationLapse(u)
        BY DEF AdminLapse, DeactivationLapse, Lapsed
      <2>. QED  BY <1>0, <2>1, LapsesGrow
    <1>14. \A v \in Users \ {User(p)} : row'[v] = row[v]
        BY SaveRow
    <1>5. ASSUME Kind(q) = "provision", pc[q] \in {"push", "save"}
          PROVE  /\ row'[u].admin = row[u].admin \/ AdminLapse(u)' \/ jobs'["provision"][u] > 1
                 /\ jobs["provision"][u] > 1 => jobs'["provision"][u] > 1
      <2>1. u \in Users /\ jobs["provision"][u] \in Nat /\ jobs["provision"][u] >= 1
        BY <1>2, <1>5, RunningJob DEF JobKinds
      <2>2. syncBy[u] = q
        BY <1>1, <1>2, <1>5 DEF Locks, Locking
      <2>3. CASE u # User(p)
        <3>1. row'[u] = row[u] /\ jobs'["provision"][u] >= jobs["provision"][u]
              /\ jobs'["provision"][u] \in Nat
            BY <2>1, <2>3, <1>14, SaveJobs DEF JobKinds
        <3>. QED  BY <2>1, <3>1
      <2>4. CASE u = User(p)
        <3>1. Kind(p) \notin {"patch", "provision"}
            BY <2>2, <2>4, SaveRow
        <3>2. jobs'["provision"][u] >= jobs["provision"][u] /\ jobs'["provision"][u] \in Nat
            BY <2>1, <3>1, SaveJobs DEF JobKinds
        <3>3. "provision" \in inserted[p] => jobs'["provision"][u] = jobs["provision"][u] + 1
            BY <2>1, <2>4, <3>1, SaveJobs DEF JobKinds
        <3>4. \/ <<"stale", u>> \in lapses
              \/ row'[u].admin = row[u].admin
              \/ "provision" \in inserted[p]
            BY <2>4, SaveRow
        <3>. QED  BY <2>1, <3>2, <3>3, <3>4, <1>4
      <2>. QED  BY <2>3, <2>4
    <1>6. ASSUME Kind(q) = "deactivate", row[u].deactivated
          PROVE  row'[u].deactivated \/ DeactivationLapse(u)'
      <2>1. u \in Users /\ jobs["deactivate"][u] \in Nat /\ jobs["deactivate"][u] >= 1
        BY <1>2, <1>6, RunningJob DEF JobKinds
      <2>2. CASE u # User(p)
        BY <1>6, <2>1, <2>2, <1>14
      <2>3. CASE u = User(p)
        <3>1. \/ <<"stale", u>> \in lapses
              \/ row'[u].deactivated = row[u].deactivated
              \/ row'[u].deactivated
              \/ Kind(p) = "reactivate" \/ Reactivates(p)
            BY <2>3, SaveRow
        <3>2. Kind(p) = "reactivate" \/ Reactivates(p) => DeactivationLapse(u)'
            BY <2>1, <2>3, SaveCrossed
        <3>. QED  BY <1>4, <1>6, <3>1, <3>2
      <2>. QED  BY <2>2, <2>3
    <1>7. (Kind(q) = "provision" /\ pc[q] = "push" =>
             copy[q].admin = row[u].admin \/ AdminLapse(u) \/ jobs["provision"][u] > 1)'
        BY <1>1, <1>2, <1>3, <1>4, <1>5 DEF Pushes
    <1>8. (Kind(q) = "provision" /\ pc[q] = "save" =>
             hs[u].admin = row[u].admin \/ AdminLapse(u) \/ jobs["provision"][u] > 1)'
        BY <1>1, <1>2, <1>3, <1>4, <1>5 DEF Pushes
    <1>9. /\ (Kind(q) = "deactivate" /\ pc[q] \in {"update", "save"} /\ copy[q].deactivated =>
                row[u].deactivated \/ DeactivationLapse(u))'
          /\ (Kind(q) = "deactivate" /\ pc[q] = "delete" =>
                row[u].deactivated \/ DeactivationLapse(u))'
        BY <1>1, <1>2, <1>3, <1>4, <1>6 DEF Pushes
    <1>. QED  BY <1>3, <1>7, <1>8, <1>9 DEF Pushes

\* p itself after its commit: done, or about to call the homeserver.
LEMMA SaveOwn ==
    ASSUME IInv, NEW p \in Procs, Save(p)
    PROVE  Own(p)'
    <1>0. Others(p) /\ Release(p) /\ pc[p] = "save" /\ Wrote(p)
        BY StepOthers DEF Step, Save, Wrote
    <1>1. bootBy' # p /\ \A u \in Users : rowBy'[u] # p
        BY <1>0, ReleaseAll
    <1>2. CASE ~(GrantFollows(p) \/ op[p].kind = "deactivate")
      <2>1. Idle(p)
        BY <1>2 DEF Save
      <2>. QED  BY <1>1, <2>1, IdleOwn
    <1>3. CASE GrantFollows(p) \/ op[p].kind = "deactivate"
      <2>0. Shape(p) /\ Locks(p) /\ Writes(p) /\ Guarded(p) /\ Pushes(p) /\ User(p) \in Users
        BY <1>0, RowFacts DEF IInv, ProcInv
      <2>1. UNCHANGED <<op, copy>> /\ pc'[p] = IF GrantFollows(p) THEN "grant" ELSE "delete"
        BY <1>3, TypedFact DEF Save, Goto, Typed
      <2>2. /\ pc'[p] \in {"grant", "delete"}
            /\ pc'[p] = "grant" => Kind(p) = "patch"
            /\ pc'[p] = "delete" => Kind(p) = "deactivate"
            /\ Kind(p) \in {"patch", "deactivate"}
        BY <1>3, <2>1 DEF GrantFollows, Kind
      <2>3. ~Wrote(p)'
        BY <2>2 DEF Wrote
      <2>4. Shape(p)'
        BY <1>0, <2>0, <2>1, <2>2, <2>3, OwnFacts DEF Shape
      <2>5. Locks(p)' /\ Writes(p)'
        BY <1>1, <2>2, <2>3 DEF Locks, Writes
      <2>6. Guarded(p)'
        <3>1. (Kind(p) = "patch" => Loose \/ ActiveAdmins # {})'
            BY <1>0, <2>0, <2>1, SaveAdmins, LapsesGrow, OwnFacts DEF Guarded
        <3>. QED  BY <1>1, <2>2, <2>3, <3>1 DEF Guarded
      <2>7. Pushes(p)'
        <3>0. PICK u : u = User(p)
            OBVIOUS
        <3>1. User(p)' = u /\ Kind(p)' = Kind(p) /\ u \in Users
            BY <2>0, <2>1, <3>0, OwnFacts
        <3>2. ASSUME Kind(p) = "deactivate"
              PROVE  row'[u].deactivated \/ DeactivationLapse(u)'
          <4>1. Patch(p) = [f \in {"deactivated"} |-> TRUE]
            BY <1>0, <2>0, <3>2 DEF Shape, Change
          <4>2. CASE rowBy[u] = p
            <5>1. row'[u] = written[p]
                BY <3>0, <3>1, <4>2, TypedFact DEF Save, Typed
            <5>2. written[p]["deactivated"] = TRUE
                BY <2>0, <3>1, <4>1, <4>2 DEF Writes
            <5>. QED  BY <5>1, <5>2
          <4>3. CASE rowBy[u] # p
            <5>1. row'[u] = row[u]
                BY <3>0, <4>3, SaveRow
            <5>2. ~Changes(p)
                BY <1>0, <2>0, <3>0, <4>3 DEF Locks
            <5>3. copy[p].deactivated = TRUE
                BY <4>1, <5>2 DEF Changes, Patch
            <5>4. row[u].deactivated \/ DeactivationLapse(u)
                BY <1>0, <2>0, <3>0, <3>2, <5>3 DEF Pushes
            <5>. QED  BY <1>0, <5>1, <5>4, LapsesGrow
          <4>. QED  BY <4>2, <4>3
        <3>. QED  BY <2>2, <3>1, <3>2 DEF Pushes
      <2>. QED  BY <2>4, <2>5, <2>6, <2>7 DEF Own
    <1>. QED  BY <1>2, <1>3

\* The flags: what the commit changes, a job it inserted will push.
LEMMA SaveAdminSynced ==
    ASSUME IInv, NEW p \in Procs, Save(p)
    PROVE  AdminSynced'
    <1>0. Others(p) /\ hs' = hs /\ pc[p] = "save" /\ Wrote(p)
        BY StepOthers DEF Step, Save, Wrote
    <1>. SUFFICES ASSUME NEW u \in Users
         PROVE  (\/ hs[u].admin = row[u].admin \/ AdminLapse(u) \/ jobs["provision"][u] > 0
                 \/ \E q \in Procs : pc[q] = "save" /\ User(q) = u /\ Revokes(q))'
        BY DEF AdminSynced
    <1>1. /\ jobs["provision"][u] \in Nat /\ jobs'["provision"][u] \in Nat
          /\ ~(u = User(p) /\ Kind(p) = "provision") => jobs'["provision"][u] >= jobs["provision"][u]
          /\ jobs'["provision"][u] >= jobs["provision"][u] - 1
          /\ u = User(p) /\ "provision" \in inserted[p] /\ Kind(p) # "provision" =>
               jobs'["provision"][u] = jobs["provision"][u] + 1
        BY SaveJobs DEF JobKinds
    <1>2. /\ AdminLapse(u) => AdminLapse(u)'
          /\ <<"stale", u>> \in lapses => AdminLapse(u)'
      <2>1. <<"stale", u>> \in lapses => AdminLapse(u)
        BY DEF AdminLapse, Lapsed
      <2>. QED  BY <1>0, <2>1, LapsesGrow
    <1>3. ASSUME NEW q \in Procs \ {p}, pc[q] = "save", User(q) = u, Revokes(q)
          PROVE  (pc[q] = "save" /\ User(q) = u /\ Revokes(q))'
        BY <1>3, <1>0, SameFacts DEF Others, Same
    <1>4. /\ hs[u].admin = row[u].admin \/ AdminLapse(u) \/ jobs["provision"][u] > 0
             \/ \E q \in Procs : pc[q] = "save" /\ User(q) = u /\ Revokes(q)
        BY DEF IInv, AdminSynced
    <1>5. CASE u # User(p)
      <2>1. row'[u] = row[u]
        <3>1. \A v \in Users \ {User(p)} : row'[v] = row[v]
            BY SaveRow
        <3>. QED  BY <1>5, <3>1
      <2>. QED  BY <1>0, <1>1, <1>2, <1>3, <1>4, <1>5, <2>1
    <1>6. CASE u = User(p) /\ Kind(p) = "provision"
      <2>1. row'[u] = row[u]
        <3>1. ~Changes(p)
          <4>1. Patch(p) = <<>> /\ DOMAIN <<>> = {}
            BY <1>0, <1>6 DEF IInv, ProcInv, Shape, Change
          <4>. QED  BY <1>6, <4>1 DEF Changes, Patch, Kind
        <3>2. rowBy[u] # p
            BY <1>0, <1>6, <3>1 DEF IInv, ProcInv, Locks
        <3>. QED  BY <1>6, <3>2, SaveRow
      <2>2. hs[u].admin = row[u].admin \/ AdminLapse(u) \/ jobs["provision"][u] > 1
        BY <1>0, <1>6 DEF IInv, ProcInv, Pushes
      <2>. QED  BY <1>0, <1>1, <1>2, <2>1, <2>2
    <1>7. CASE u = User(p) /\ Kind(p) # "provision"
      <2>1. \/ <<"stale", u>> \in lapses
            \/ row'[u].admin = row[u].admin
            \/ "provision" \in inserted[p]
        BY <1>7, SaveRow
      <2>2. CASE "provision" \in inserted[p]
        BY <1>1, <1>7, <2>2
      <2>3. CASE row'[u].admin = row[u].admin /\ "provision" \notin inserted[p]
        <3>1. ~Revokes(p)
            BY <1>0, <2>3 DEF IInv, ProcInv, Shape, Revokes
        <3>. QED  BY <1>0, <1>1, <1>2, <1>3, <1>4, <1>7, <2>3, <3>1
      <2>. QED  BY <1>2, <2>1, <2>2, <2>3
    <1>. QED  BY <1>5, <1>6, <1>7

\* A commit keeps the deactivation flags synced or a job pending.
LEMMA SaveDeactivationSynced ==
    ASSUME IInv, NEW p \in Procs, Save(p)
    PROVE  DeactivationSynced'
    <1>0. Others(p) /\ hs' = hs /\ pc[p] = "save" /\ Wrote(p)
        BY StepOthers DEF Step, Save, Wrote
    <1>. SUFFICES ASSUME NEW u \in Users
         PROVE  (\/ hs[u].deactivated = row[u].deactivated \/ DeactivationLapse(u)
                 \/ jobs["deactivate"][u] > 0 \/ jobs["reactivate"][u] > 0
                 \/ \E q \in Procs : pc[q] \in {"revoke", "save"} /\ User(q) = u /\ Reactivates(q))'
        BY DEF DeactivationSynced
    <1>1. /\ jobs["deactivate"][u] \in Nat /\ jobs'["deactivate"][u] \in Nat
          /\ jobs["reactivate"][u] \in Nat /\ jobs'["reactivate"][u] \in Nat
          /\ jobs'["deactivate"][u] >= jobs["deactivate"][u]
          /\ ~(u = User(p) /\ Kind(p) = "reactivate") => jobs'["reactivate"][u] >= jobs["reactivate"][u]
          /\ u = User(p) /\ "deactivate" \in inserted[p] /\ Kind(p) # "deactivate" =>
               jobs'["deactivate"][u] = jobs["deactivate"][u] + 1
        BY SaveJobs DEF JobKinds
    <1>2. /\ DeactivationLapse(u) => DeactivationLapse(u)'
          /\ <<"stale", u>> \in lapses => DeactivationLapse(u)'
      <2>1. <<"stale", u>> \in lapses => DeactivationLapse(u)
        BY DEF DeactivationLapse, Lapsed
      <2>. QED  BY <1>0, <2>1, LapsesGrow
    <1>3. ASSUME NEW q \in Procs \ {p}, pc[q] \in {"revoke", "save"}, User(q) = u, Reactivates(q)
          PROVE  (pc[q] \in {"revoke", "save"} /\ User(q) = u /\ Reactivates(q))'
        BY <1>3, <1>0, SameFacts DEF Others, Same
    <1>4. \/ hs[u].deactivated = row[u].deactivated \/ DeactivationLapse(u)
          \/ jobs["deactivate"][u] > 0 \/ jobs["reactivate"][u] > 0
          \/ \E q \in Procs : pc[q] \in {"revoke", "save"} /\ User(q) = u /\ Reactivates(q)
        BY DEF IInv, DeactivationSynced
    <1>5. CASE u # User(p)
      <2>1. row'[u] = row[u]
        <3>1. \A v \in Users \ {User(p)} : row'[v] = row[v]
            BY SaveRow
        <3>. QED  BY <1>5, <3>1
      <2>. QED  BY <1>0, <1>1, <1>2, <1>3, <1>4, <1>5, <2>1
    <1>6. CASE u = User(p) /\ (Reactivates(p) \/ Kind(p) = "reactivate")
      <2>1. DeactivationLapse(u)' \/ (~hs[u].deactivated /\ ~row'[u].deactivated)
        BY <1>6, SaveCrossed
      <2>2. hs[u].deactivated \in BOOLEAN /\ row'[u].deactivated \in BOOLEAN
        BY <1>6, SaveRow, TypedFact DEF Typed, Rows, Fields
      <2>. QED  BY <1>0, <2>1, <2>2
    <1>7. CASE u = User(p) /\ Kind(p) = "deactivate"
        BY <1>1, <1>7, RunningJob DEF JobKinds
    <1>8. CASE u = User(p) /\ Deactivates(p)
      <2>1. "deactivate" \in inserted[p] /\ Kind(p) # "deactivate"
        BY <1>0, <1>8 DEF IInv, ProcInv, Shape, Deactivates, Kind
      <2>. QED  BY <1>1, <1>8, <2>1
    <1>9. CASE /\ u = User(p) /\ Kind(p) \notin {"deactivate", "reactivate"}
               /\ ~Deactivates(p) /\ ~Reactivates(p)
      <2>1. <<"stale", u>> \in lapses \/ row'[u].deactivated = row[u].deactivated
        BY <1>9, SaveRow
      <2>. QED  BY <1>0, <1>1, <1>2, <1>3, <1>4, <1>9, <2>1
    <1>. QED  BY <1>5, <1>6, <1>7, <1>8, <1>9

\* A commit keeps the invariant.
LEMMA SaveStep ==
    ASSUME IInv, NEW p \in Procs, Save(p)
    PROVE  IInv'
    <1>0. Others(p) /\ Typed'
        BY StepOthers, TypeStep DEF Step
    <1>1. ASSUME NEW q \in Procs
          PROVE  Own(q)'
      <2>1. CASE q = p
        BY <2>1, SaveOwn
      <2>2. CASE q # p
        <3>1. ASSUME NEW v \in Users, rowBy[v] = q
              PROVE  row'[v] = row[v]
          <4>1. /\ \A w \in Users \ {User(p)} : row'[w] = row[w]
                /\ rowBy[User(p)] # p => row'[User(p)] = row[User(p)]
            BY SaveRow
          <4>. QED  BY <2>2, <3>1, <4>1
        <3>. QED  BY <2>2, <3>1, <1>0, OthersShapeLocks, OthersWrites, SaveGuarded, SavePushes DEF Own
      <2>. QED  BY <2>1, <2>2
    <1>. QED  BY <1>0, <1>1, SaveJobs, SaveAdminSynced, SaveDeactivationSynced, HsStep

-----------------------------------------------------------------------------
(***************************************************************************)
(* The theorems.                                                           *)
(***************************************************************************)
\* At the start nobody does anything and the homeserver is up to date.
LEMMA InitIInv == Init => IInv
    <1>. SUFFICES ASSUME Init
         PROVE  IInv
        OBVIOUS
    <1>1. Typed
      <2>1. row \in [Users -> Rows]
        BY DEF Init
      <2>2. hs \in [Users -> [admin : BOOLEAN, deactivated : BOOLEAN]]
        BY <2>1 DEF Init, Rows, Fields
      <2>. QED  BY <2>1, <2>2, Idling, ConstantsAssumption DEF Init, Typed, PCs
    <1>2. None \notin RequestKinds \cup JobKinds /\ None \notin Procs
        BY ConstantsAssumption
    <1>3. ASSUME NEW p \in Procs
          PROVE  Own(p)
      <2>1. pc[p] = "idle" /\ op[p] = NoOp /\ bootBy # p /\ \A u \in Users : rowBy[u] # p
        BY <1>2 DEF Init
      <2>2. /\ Kind(p) = None /\ ~Wrote(p) /\ ~Locking(Kind(p))
            /\ Kind(p) \notin {"claim", "patch", "risk", "self", "provision", "deactivate"}
        BY <1>2, <2>1, Idling DEF Kind, Wrote, Locking, RequestKinds, JobKinds
      <2>3. Shape(p)
        BY <2>1, <2>2 DEF Shape
      <2>4. Locks(p) /\ Writes(p)
        BY <2>1, <2>2 DEF Locks, Writes
      <2>5. Guarded(p) /\ Pushes(p)
        BY <2>1, <2>2 DEF Guarded, Pushes
      <2>. QED  BY <2>3, <2>4, <2>5 DEF Own
    <1>4. JobsInv
      <2>1. ASSUME NEW k \in JobKinds, NEW u \in Users
            PROVE  Cardinality(Running(k, u)) <= jobs[k][u]
        <3>1. \A p \in Procs : op[p].kind = None
            BY Idling DEF Init
        <3>2. Running(k, u) = {}
            BY <1>2, <3>1 DEF Running, Kind
        <3>3. Cardinality({}) = 0 /\ jobs[k][u] = 0
            BY FS_EmptySet DEF Init
        <3>. QED  BY <3>2, <3>3
      <2>. QED  BY <2>1 DEF JobsInv
    <1>5. AdminSynced /\ DeactivationSynced
      <2>1. ASSUME NEW u \in Users
            PROVE  hs[u].admin = row[u].admin /\ hs[u].deactivated = row[u].deactivated
        <3>1. row[u] \in Rows /\ ~row[u].deactivated
            BY DEF Init
        <3>2. row[u].deactivated \in BOOLEAN
            BY <3>1 DEF Rows, Fields
        <3>. QED  BY <3>1, <3>2 DEF Init
      <2>. QED  BY <2>1 DEF AdminSynced, DeactivationSynced
    <1>. QED  BY <1>1, <1>3, <1>4, <1>5, TypedFact DEF IInv, ProcInv, Own, Typed

\* Every step keeps the invariant.
LEMMA NextIInv == IInv /\ [Next]_vars => IInv'
    <1>. SUFFICES ASSUME IInv, [Next]_vars
         PROVE  IInv'
        OBVIOUS
    <1>1. CASE UNCHANGED vars
      <2>. USE <1>1 DEF vars, dbVars, procVars, ghostVars
      <2>1. (TypeOK /\ op \in [Procs -> Ops])'
        BY DEF IInv, TypeOK, User
      <2>2. ASSUME NEW p \in Procs
            PROVE  Own(p)'
        <3>0. Same(p) /\ Shape(p) /\ Locks(p) /\ Writes(p) /\ Guarded(p) /\ Pushes(p)
            BY DEF Same, IInv, ProcInv
        <3>1. Shape(p)'
            BY <3>0, SameFacts DEF Shape
        <3>2. Locks(p)' /\ Writes(p)'
            BY <3>0, SameFacts DEF Locks, Writes
        <3>3. Guarded(p)'
          <4>1. ActiveAdmins' = ActiveAdmins /\ Admins' = Admins /\ (Loose' <=> Loose)
            BY DEF ActiveAdmins, Admins, Loose, Lapsed
          <4>. QED  BY <3>0, <4>1, SameFacts DEF Guarded
        <3>4. Pushes(p)'
          <4>1. \A u : (AdminLapse(u)' <=> AdminLapse(u)) /\ (DeactivationLapse(u)' <=> DeactivationLapse(u))
            BY DEF AdminLapse, DeactivationLapse, Lapsed
          <4>. QED  BY <3>0, <4>1, SameFacts DEF Pushes
        <3>. QED  BY <3>1, <3>2, <3>3, <3>4 DEF Own
      <2>3. JobsInv'
        BY DEF IInv, JobsInv, Running, Kind, User
      <2>4. AdminSynced' /\ DeactivationSynced'
        <3>1. \A u : (AdminLapse(u)' <=> AdminLapse(u)) /\ (DeactivationLapse(u)' <=> DeactivationLapse(u))
            BY DEF AdminLapse, DeactivationLapse, Lapsed
        <3>2. \A q : /\ User(q)' = User(q) /\ (Revokes(q)' <=> Revokes(q))
                     /\ (Reactivates(q)' <=> Reactivates(q))
            BY OwnFacts
        <3>. QED  BY <3>1, <3>2 DEF IInv, AdminSynced, DeactivationSynced
      <2>. QED  BY <2>1, <2>2, <2>3, <2>4 DEF IInv, ProcInv, Own
    <1>2. ASSUME NEW p \in Procs, NEW u \in Users, NEW k \in Kinds \ {"patch"},
                 Request(p, k, u, Change(k))
          PROVE  IInv'
        BY <1>2, RequestStep, ChangeType, ConstantsAssumption
    <1>3. ASSUME NEW p \in Procs, NEW u \in Users, NEW patch \in Patches,
                 Request(p, "patch", u, patch)
          PROVE  IInv'
        BY <1>3, RequestStep, ConstantsAssumption DEF RequestKinds
    <1>4. ASSUME NEW p \in Procs, NEW u \in Users, NEW k \in JobKinds, RunJob(p, k, u)
          PROVE  IInv'
        BY <1>4, RunJobStep
    <1>5. ASSUME NEW p \in Procs, Step(p) \/ Fail(p)
          PROVE  IInv'
        BY <1>5, ReadUserStep, UnauthorizedStep, LockStep, GuardStep, UpdateStep,
           HsReactivateStep, HsRevokeStep, HsProvisionStep, SaveStep, GrantStep,
           HsDeleteStep, FailStep DEF Step
    <1>. QED  BY <1>1, <1>2, <1>3, <1>4, <1>5 DEF Next, Terminated

\* In every reachable state a process holds the locks its place in the handler
\* implies, writes what it read unless it read too early, saw another
\* administrator before it removes one, and whatever the homeserver lacks is
\* queued or under way.
THEOREM Invariance == Spec => []IInv
    BY InitIInv, NextIInv, PTL DEF Spec

\* Every variable keeps its type: what users, jobs and the homeserver's
\* accounts are, and what a handler holds between two awaits.
THEOREM TypeCorrect == Spec => []TypeOK
    <1>1. IInv => TypeOK
        BY DEF IInv
    <1>. QED  BY <1>1, Invariance, PTL

\* Once all requests and jobs are done, the homeserver has the administrator
\* flag that patch_user, claim_bootstrap_admin and ProvisionUserJob committed
\* last, except after a late grant, a lost commit or a write of an old copy.
THEOREM AdminFlagsConverge == Spec => []AdminFlagConverges
    <1>1. IInv => AdminFlagConverges
      <2>. SUFFICES ASSUME IInv, Quiet, NEW u \in Users
           PROVE  hs[u].admin = row[u].admin \/ AdminLapse(u)
        BY DEF AdminFlagConverges, AdminLapse
      <2>1. jobs["provision"][u] = 0 /\ \A p \in Procs : pc[p] # "save"
        BY DEF Quiet, JobKinds
      <2>. QED  BY <2>1 DEF IInv, AdminSynced
    <1>. QED  BY <1>1, Invariance, PTL

\* Likewise for deactivation, which DeactivateUserJob, ReactivateUserJob and
\* patch_user bring to the homeserver.
THEOREM DeactivationsConverge == Spec => []DeactivationConverges
    <1>1. IInv => DeactivationConverges
      <2>. SUFFICES ASSUME IInv, Quiet, NEW u \in Users
           PROVE  hs[u].deactivated = row[u].deactivated \/ DeactivationLapse(u)
        BY DEF DeactivationConverges, DeactivationLapse
      <2>1. /\ jobs["deactivate"][u] = 0 /\ jobs["reactivate"][u] = 0
            /\ \A p \in Procs : pc[p] \notin {"revoke", "save"}
        BY DEF Quiet, JobKinds
      <2>. QED  BY <2>1 DEF IInv, DeactivationSynced
    <1>. QED  BY <1>1, Invariance, PTL

\* No commit of patch_user, risk_action, deactivate_current_account or any
\* other takes the last active administrator away, except by a write from an
\* outdated copy or a late deactivation job.
THEOREM LastAdminStays == Spec => LastAdminKept
    <1>1. IInv /\ [Next]_vars =>
            [ActiveAdmins # {} /\ ActiveAdmins' = {} =>
               \E u \in Users : Lapsed({"stale", "lateDeactivation"}, u)]_vars
      <2>. SUFFICES ASSUME IInv, Next, ActiveAdmins # {}, ActiveAdmins' = {}
           PROVE  Loose
        BY DEF Loose
      <2>1. row' # row
        BY DEF ActiveAdmins
      <2>2. ASSUME NEW p \in Procs, Save(p)
            PROVE  Loose
        BY <2>2, SaveAdmins
      <2>3. ASSUME NEW p \in Procs, Step(p) \/ Fail(p), ~Save(p)
            PROVE  row' = row
        BY <2>3 DEF Step, ReadUser, Unauthorized, AcquireLockForSync, Guard, Update,
           HsReactivate, HsRevoke, HsProvision, PushAdminGrant, HsDelete, Fail, dbVars
      <2>4. ASSUME NEW p, NEW k, NEW u, NEW patch, Request(p, k, u, patch) \/ RunJob(p, k, u)
            PROVE  row' = row
        BY <2>4 DEF Request, RunJob, dbVars
      <2>5. Terminated => row' = row
        BY DEF Terminated, vars, dbVars
      <2>. QED  BY <2>1, <2>2, <2>3, <2>4, <2>5 DEF Next
    <1>. QED  BY <1>1, Invariance, PTL DEF Spec, LastAdminKept

\* When claim_bootstrap_admin commits, nobody was an administrator, however
\* many claims run at once, with the exceptions of LastAdminKept.
THEOREM BootstrapClaimsOnce == Spec => BootstrapOnce
    <1>1. IInv => \A p \in Procs : op[p].kind = "claim" /\ pc[p] = "save" /\ row' # row =>
            Admins = {} \/ \E u \in Users : Lapsed({"stale", "lateDeactivation"}, u)
        BY DEF IInv, ProcInv, Guarded, Kind, Loose
    <1>. QED  BY <1>1, Invariance, PTL DEF BootstrapOnce
=============================================================================
