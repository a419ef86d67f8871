--------------------------- MODULE GrantExchange ---------------------------
(***************************************************************************)
(* From consent to tokens to devices: the authorization codes and device   *)
(* codes of one user, the sessions they lead to, and the device list of    *)
(* the user on the Matrix homeserver.                                      *)
(*                                                                         *)
(* A request reads the row of its code, decides on that copy and updates   *)
(* the row by its id, without looking again. What orders requests is the   *)
(* row locks that updates hold to the end of their transaction and one     *)
(* advisory lock per user, acquire_lock_for_sync, which every transaction  *)
(* that adds a device, and SyncDevicesJob, takes before it talks to the    *)
(* homeserver. A process is a request handler or the task of a job;        *)
(* requests that end with an error and change nothing are no steps.        *)
(***************************************************************************)
EXTENDS Naturals, FiniteSets

CONSTANTS
    AuthCodes,     \* oauth2_authorization_grants
    DeviceCodes,   \* oauth2_device_code_grant
    AdminGrants,   \* those whose scope includes an administrative one
    Devices,
    DeviceOf,      \* the device named in the scope of a grant
    Procs,
    MaxSessions, MaxRequests, MaxMishaps,   \* bounds
    None

Grants == AuthCodes \cup DeviceCodes

ASSUME ConstantsAssumption ==
    /\ AdminGrants \subseteq Grants /\ AuthCodes \cap DeviceCodes = {}
    /\ DeviceOf \in [Grants -> Devices]
    /\ MaxSessions \in Nat /\ MaxRequests \in Nat /\ MaxMishaps \in Nat
    /\ None \notin Grants \cup Devices \cup Procs \cup 1 .. MaxSessions

VARIABLES
    \* the rows of the grants and of the sessions; sessions are numbered in
    \* the order in which they are started, committed or not
    authCode, deviceCode, session, minted,
    \* the browser session of the user, and their can_request_admin
    browser, admin,
    \* SyncDevicesJobs that wait for a worker
    syncJobs,
    \* the devices of the user on the homeserver
    hs,
    \* the advisory lock and the row locks
    syncBy, rowBy,
    \* what a process is doing: its position and the locals of its request
    pc, txn,
    \* history: the sessions consents started for a code, the sessions each
    \* grant has given tokens for, how often, the codes refused as a late
    \* replay, devices left behind on the homeserver without a job that would
    \* remove them, and bounds
    consented, issued, exchanges, replayed, strays, requests, mishaps

dbVars == <<authCode, deviceCode, session, browser, admin, syncJobs>>
lockVars == <<syncBy, rowBy>>
procVars == <<pc, txn, minted>>
historyVars == <<consented, issued, exchanges, replayed, strays, requests, mishaps>>
vars == <<dbVars, hs, lockVars, procVars, historyVars>>

Sessions == 1 .. MaxSessions
Lockable == Sessions \cup DeviceCodes

AuthRow == [fulfilled : {"no", "fresh", "late"}, exchanged : {"no", "recent", "old"},
            session : Sessions \cup {None}]
DeviceRow == [fulfilled : BOOLEAN, rejected : BOOLEAN, exchanged : BOOLEAN,
              session : Sessions \cup {None}, expired : BOOLEAN]
SessionRow == [state : {"none", "active", "finished"}, type : {"oauth2", "personal"},
               device : Devices \cup {None}]

\* The stage a row of oauth2_authorization_grants decodes to.
AuthStage(r) ==
    LET has == <<r.fulfilled # "no", r.exchanged # "no", r.session # None>> IN
    CASE has = <<FALSE, FALSE, FALSE>> -> "Pending"
      [] has = <<TRUE, FALSE, TRUE>> -> "Fulfilled"
      [] has = <<TRUE, TRUE, TRUE>> -> "Exchanged"
      [] OTHER -> "inconsistent"

\* The state a row of oauth2_device_code_grant decodes to; whoever decides
\* leaves their browser session in it.
DeviceState(r) ==
    LET has == <<r.fulfilled, r.rejected, r.exchanged, r.session # None>> IN
    CASE has = <<FALSE, FALSE, FALSE, FALSE>> -> "Pending"
      [] has = <<TRUE, FALSE, FALSE, FALSE>> -> "Fulfilled"
      [] has = <<FALSE, TRUE, FALSE, FALSE>> -> "Rejected"
      [] has = <<TRUE, FALSE, TRUE, TRUE>> -> "Exchanged"
      [] OTHER -> "inconsistent"

Active == {s \in Sessions : session[s].state = "active"}
OnDevice(d) == {s \in Active : session[s].device = d}
DevicesOf(ss) == {session[s].device : s \in ss}

\* What an exchange must not find: the code is spent, or was turned down.
Spent(g) ==
    \/ exchanges[g] > 0
    \/ g \in DeviceCodes /\ deviceCode[g].rejected

NoTxn == [kind |-> None, grant |-> None, session |-> None, device |-> None,
          agent |-> FALSE, spent |-> FALSE, devices |-> {}]
Kinds == {"consent", "exchange", "approve", "reject", "poll", "login",
          "personal", "sync"}
ASSUME KindAssumption == None \notin Kinds

PCs == {"idle", "decide", "session", "row", "lock", "finish", "upsert",
        "collect", "collectPersonal", "push", "save"}

Quiet == syncJobs = 0 /\ \A p \in Procs : pc[p] = "idle"
-----------------------------------------------------------------------------
Init ==
    /\ authCode = [c \in AuthCodes |->
                     [fulfilled |-> "no", exchanged |-> "no", session |-> None]]
    /\ deviceCode = [c \in DeviceCodes |->
                     [fulfilled |-> FALSE, rejected |-> FALSE, exchanged |-> FALSE,
                      session |-> None, expired |-> FALSE]]
    /\ session = [s \in Sessions |->
                     [state |-> "none", type |-> "oauth2", device |-> None]]
    /\ minted = 0
    /\ browser = "active"
    /\ admin = TRUE
    /\ syncJobs = 0
    /\ hs = {}
    /\ syncBy = None
    /\ rowBy = [r \in Lockable |-> None]
    /\ pc = [p \in Procs |-> "idle"]
    /\ txn = [p \in Procs |-> NoTxn]
    /\ consented = [c \in AuthCodes |-> {}]
    /\ issued = [g \in Grants |-> {}]
    /\ exchanges = [g \in Grants |-> 0]
    /\ replayed = {}
    /\ strays = {}
    /\ requests = 0
    /\ mishaps = 0

Goto(p, label) == pc' = [pc EXCEPT ![p] = label]

\* A request arrives and is served up to its first wait.
Begin(p, label, t) ==
    /\ pc[p] = "idle" /\ requests < MaxRequests   \* bound
    /\ Goto(p, label)
    /\ txn' = [txn EXCEPT ![p] = t]
    /\ requests' = requests + 1
    /\ UNCHANGED <<consented, issued, exchanges, replayed, strays, mishaps>>

\* A transaction that is committed or rolled back releases its locks.
End(p) ==
    /\ Goto(p, "idle")
    /\ txn' = [txn EXCEPT ![p] = NoTxn]
    /\ syncBy' = IF syncBy = p THEN None ELSE syncBy
    /\ rowBy' = [r \in Lockable |-> IF rowBy[r] = p THEN None ELSE rowBy[r]]

Mint == minted < MaxSessions /\ minted' = minted + 1   \* bound
NewSession(type, d) == [state |-> "active", type |-> type, device |-> d]
Finished(ss) ==
    [s \in Sessions |-> IF s \in ss THEN [session[s] EXCEPT !.state = "finished"]
                                    ELSE session[s]]

\* has_policy_violation, session_may_keep_admin_scope, admin_scope_allowed.
AdminScopeAllowed(g) == g \in AdminGrants => admin
-----------------------------------------------------------------------------
(***************************************************************************)
(* The user decides.                                                       *)
(***************************************************************************)
\* accept_authorization_consent and submit_device_consent, up to the decision
\* that the grant is pending. A grant that was already fulfilled is answered
\* from the row.
ReadConsent(p, k, g) ==
    /\ browser = "active"
    /\ AdminScopeAllowed(g)
    /\ IF g \in AuthCodes
       THEN /\ k = "consent" /\ AuthStage(authCode[g]) = "Pending"
            /\ Mint
       ELSE /\ k \in {"approve", "reject"}
            /\ DeviceState(deviceCode[g]) = "Pending" /\ ~deviceCode[g].expired
            /\ UNCHANGED minted
    /\ Begin(p, "decide", [NoTxn EXCEPT !.kind = k, !.grant = g,
               !.session = IF g \in AuthCodes THEN minted' ELSE None])
    /\ UNCHANGED <<dbVars, hs, lockVars>>

\* Mutant: the code is fulfilled without its session.
SessionlessFulfillAuthCode(p) ==
    LET g == txn[p].grant
        s == txn[p].session IN
    /\ pc[p] = "decide" /\ txn[p].kind = "consent"
    /\ session' = [session EXCEPT ![s] = NewSession("oauth2", DeviceOf[g])]
    /\ authCode' = [authCode EXCEPT ![g].fulfilled = "fresh"]
    /\ consented' = [consented EXCEPT ![g] = @ \cup {s}]
    /\ End(p)
    /\ UNCHANGED <<deviceCode, browser, admin, syncJobs, hs, minted, issued, exchanges,
                   replayed, strays, requests, mishaps>>

\* The consent to an authorization request starts the session that the code
\* will be exchanged for.
FulfillAuthCode(p) ==
    LET g == txn[p].grant
        s == txn[p].session IN
    /\ pc[p] = "decide" /\ txn[p].kind = "consent"
    /\ session' = [session EXCEPT ![s] = NewSession("oauth2", DeviceOf[g])]
    /\ authCode' = [authCode EXCEPT ![g].fulfilled = "fresh", ![g].session = s]
    /\ consented' = [consented EXCEPT ![g] = @ \cup {s}]
    /\ End(p)
    /\ UNCHANGED <<deviceCode, browser, admin, syncJobs, hs, minted, issued, exchanges,
                   replayed, strays, requests, mishaps>>

\* fulfill and reject of the device code, whatever the row has become.
DecideDeviceCode(p) ==
    LET g == txn[p].grant IN
    /\ pc[p] = "decide" /\ txn[p].kind \in {"approve", "reject"}
    /\ rowBy[g] = None
    /\ deviceCode' = [deviceCode EXCEPT
         ![g].fulfilled = @ \/ txn[p].kind = "approve",
         ![g].rejected = @ \/ txn[p].kind = "reject"]
    /\ End(p)
    /\ UNCHANGED <<authCode, session, browser, admin, syncJobs, hs, minted,
                   historyVars>>
-----------------------------------------------------------------------------
(***************************************************************************)
(* The client exchanges its code.                                          *)
(***************************************************************************)
\* Mutant: a code may be exchanged again within the grace period.
GraciousReadAuthCode(p, c, agent) ==
    /\ \/ AuthStage(authCode[c]) = "Fulfilled" /\ authCode[c].fulfilled = "fresh"
       \/ AuthStage(authCode[c]) = "Exchanged" /\ authCode[c].exchanged = "recent"
    /\ Begin(p, "session", [NoTxn EXCEPT !.kind = "exchange", !.grant = c,
               !.session = authCode[c].session, !.device = DeviceOf[c],
               !.agent = agent, !.spent = Spent(c)])
    /\ UNCHANGED <<dbVars, hs, lockVars, minted>>

\* exchange_authorization_code: find_by_code. The state of the session is not
\* looked at.
ReadAuthCode(p, c, agent) ==
    /\ AuthStage(authCode[c]) = "Fulfilled" /\ authCode[c].fulfilled = "fresh"
    /\ Begin(p, "session", [NoTxn EXCEPT !.kind = "exchange", !.grant = c,
               !.session = authCode[c].session, !.device = DeviceOf[c],
               !.agent = agent, !.spent = Spent(c)])
    /\ UNCHANGED <<dbVars, hs, lockVars, minted>>

\* Mutant: the refusal of a replay is not saved.
UnsavedReplayAuthCode(c) ==
    /\ AuthStage(authCode[c]) = "Exchanged" /\ authCode[c].exchanged = "old"
    /\ session[authCode[c].session].state = "active"
    /\ rowBy[authCode[c].session] = None
    /\ requests < MaxRequests /\ requests' = requests + 1   \* bound
    /\ replayed' = replayed \cup {c}
    /\ UNCHANGED <<dbVars, hs, lockVars, procVars, consented, issued, exchanges,
                   strays, mishaps>>

\* A code exchanged more than 20 seconds ago ends the session of its row, and
\* schedules no SyncDevicesJob.
ReplayAuthCode(c) ==
    LET s == authCode[c].session IN
    /\ AuthStage(authCode[c]) = "Exchanged" /\ authCode[c].exchanged = "old"
    /\ session[s].state = "active" /\ rowBy[s] = None
    /\ requests < MaxRequests /\ requests' = requests + 1   \* bound
    /\ session' = Finished({s})
    /\ replayed' = replayed \cup {c}
    /\ strays' = strays \cup {session[s].device}
    /\ UNCHANGED <<authCode, deviceCode, browser, admin, syncJobs, hs, lockVars,
                   procVars, consented, issued, exchanges, mishaps>>

\* record_user_agent updates the session, and so locks its row; then the client
\* has proved that the code is its own, and tokens are inserted.
UseSession(p) ==
    LET s == txn[p].session IN
    /\ pc[p] = "session"
    /\ AdminScopeAllowed(txn[p].grant)
    /\ txn[p].agent => rowBy[s] = None
    /\ rowBy' = IF txn[p].agent THEN [rowBy EXCEPT ![s] = p] ELSE rowBy
    /\ Goto(p, "lock")
    /\ UNCHANGED <<dbVars, hs, syncBy, txn, minted, historyVars>>

\* A user who is no administrator any more loses the session; a session that
\* is finished already is left alone.
RefuseAdminScope(p) ==
    LET s == txn[p].session IN
    /\ pc[p] = "session"
    /\ ~AdminScopeAllowed(txn[p].grant)
    /\ rowBy[s] = None
    /\ session' = Finished({s} \cap Active)
    /\ strays' = strays \cup DevicesOf({s} \cap Active)
    /\ End(p)
    /\ UNCHANGED <<authCode, deviceCode, browser, admin, syncJobs, hs, minted,
                   consented, issued, exchanges, replayed, requests, mishaps>>

\* exchange_device_code: find_by_device_code, and a session of its own.
ReadDeviceCode(p, c) ==
    /\ DeviceState(deviceCode[c]) = "Fulfilled" /\ ~deviceCode[c].expired
    /\ AdminScopeAllowed(c)
    /\ Mint
    /\ Begin(p, "row", [NoTxn EXCEPT !.kind = "poll", !.grant = c,
               !.session = minted', !.device = DeviceOf[c], !.spent = Spent(c)])
    /\ UNCHANGED <<dbVars, hs, lockVars>>

\* The update that marks the device code as exchanged comes before the lock.
MarkDeviceCode(p) ==
    /\ pc[p] = "row"
    /\ rowBy[txn[p].grant] = None
    /\ rowBy' = [rowBy EXCEPT ![txn[p].grant] = p]
    /\ Goto(p, "lock")
    /\ UNCHANGED <<dbVars, hs, syncBy, txn, minted, historyVars>>
-----------------------------------------------------------------------------
(***************************************************************************)
(* Other sessions come and go.                                             *)
(***************************************************************************)
\* POST /matrix/login with a device id ("login"), and the admin API's new
\* personal session for a device ("personal").
BeginPersonal(p, k, d) ==
    /\ Mint
    /\ Begin(p, "lock", [NoTxn EXCEPT !.kind = k, !.session = minted', !.device = d])
    /\ UNCHANGED <<dbVars, hs, lockVars>>

\* A login takes over its device: it finishes the sessions that are on it,
\* once nobody else has their rows locked.
TakeOverDevice(p) ==
    LET old == OnDevice(txn[p].device) IN
    /\ pc[p] = "finish"
    /\ \A s \in old : rowBy[s] = None
    /\ rowBy' = [r \in Lockable |-> IF r \in old THEN p ELSE rowBy[r]]
    /\ Goto(p, "upsert")
    /\ UNCHANGED <<dbVars, hs, syncBy, txn, minted, historyVars>>

\* Mutant: the homeserver is not told.
SilentEndSession(s) ==
    /\ s \in Active /\ rowBy[s] = None
    /\ requests < MaxRequests /\ requests' = requests + 1   \* bound
    /\ session' = Finished({s})
    /\ UNCHANGED <<authCode, deviceCode, browser, admin, syncJobs, hs, lockVars,
                   procVars, consented, issued, exchanges, replayed, strays, mishaps>>

\* Revocation of a token, the end of a session asked for by its user or by an
\* administrator, and expiry: the session is finished and the devices are
\* synced by a job inserted in the same transaction.
EndSession(s) ==
    /\ s \in Active /\ rowBy[s] = None
    /\ requests < MaxRequests /\ requests' = requests + 1   \* bound
    /\ session' = Finished({s})
    /\ syncJobs' = syncJobs + 1
    /\ UNCHANGED <<authCode, deviceCode, browser, admin, hs, lockVars, procVars,
                   consented, issued, exchanges, replayed, strays, mishaps>>

\* Back-channel logout with logout_all: the browser session and the OAuth 2.0
\* sessions that were started from it.
LogoutAll ==
    LET ss == {s \in Active : session[s].type = "oauth2"} IN
    /\ browser = "active"
    /\ \A s \in ss : rowBy[s] = None
    /\ requests < MaxRequests /\ requests' = requests + 1   \* bound
    /\ browser' = "finished"
    /\ session' = Finished(ss)
    /\ syncJobs' = syncJobs + 1
    /\ UNCHANGED <<authCode, deviceCode, admin, hs, lockVars, procVars,
                   consented, issued, exchanges, replayed, strays, mishaps>>

\* patch_user takes the administrator flag away (see UserLifecycle).
Demote ==
    /\ admin
    /\ admin' = FALSE
    /\ UNCHANGED <<authCode, deviceCode, session, browser, syncJobs, hs, lockVars,
                   procVars, historyVars>>

\* 20 seconds after the exchange, 10 minutes after the consent, and the end of
\* a device code's life.
Age(g) ==
    /\ IF g \in AuthCodes
       THEN /\ \/ authCode[g].exchanged = "recent" /\
                  authCode' = [authCode EXCEPT ![g].exchanged = "old"]
               \/ authCode[g].fulfilled = "fresh" /\
                  authCode' = [authCode EXCEPT ![g].fulfilled = "late"]
            /\ UNCHANGED deviceCode
       ELSE /\ ~deviceCode[g].expired
            /\ deviceCode' = [deviceCode EXCEPT ![g].expired = TRUE]
            /\ UNCHANGED authCode
    /\ UNCHANGED <<session, browser, admin, syncJobs, hs, lockVars, procVars, historyVars>>
-----------------------------------------------------------------------------
(***************************************************************************)
(* SyncDevicesJob.                                                         *)
(***************************************************************************)
RunSync(p) ==
    /\ pc[p] = "idle" /\ syncJobs > 0
    /\ syncJobs' = syncJobs - 1
    /\ Goto(p, "lock")
    /\ txn' = [txn EXCEPT ![p] = [NoTxn EXCEPT !.kind = "sync"]]
    /\ UNCHANGED <<authCode, deviceCode, session, browser, admin, hs, lockVars,
                   minted, historyVars>>

\* One query for the OAuth 2.0 sessions, then one for the personal sessions.
\* What was left behind until now is in neither and goes with the push.
Collect(p) ==
    LET type == IF pc[p] = "collect" THEN "oauth2" ELSE "personal" IN
    /\ pc[p] \in {"collect", "collectPersonal"}
    /\ txn' = [txn EXCEPT ![p].devices =
                 @ \cup DevicesOf({s \in Active : session[s].type = type})]
    /\ Goto(p, IF pc[p] = "collect" THEN "collectPersonal" ELSE "push")
    /\ strays' = IF pc[p] = "collect" THEN {} ELSE strays
    /\ UNCHANGED <<dbVars, hs, lockVars, minted, consented, issued, exchanges, replayed,
                   requests, mishaps>>

\* The homeserver replaces the device list by the one it is given.
PushDevices(p) ==
    /\ pc[p] = "push"
    /\ hs' = txn[p].devices
    /\ Goto(p, "save")
    /\ UNCHANGED <<dbVars, lockVars, txn, minted, historyVars>>
-----------------------------------------------------------------------------
(***************************************************************************)
(* The lock, the homeserver, the commit, and what can go wrong.            *)
(***************************************************************************)
AfterLock(p) ==
    CASE txn[p].kind = "sync" -> "collect"
      [] txn[p].kind = "login" -> "finish"
      [] OTHER -> "upsert"

\* Mutant: the lock is not waited for.
NoLockForSync(p) ==
    /\ pc[p] = "lock"
    /\ syncBy' = p
    /\ Goto(p, AfterLock(p))
    /\ UNCHANGED <<dbVars, hs, rowBy, txn, minted, historyVars>>

AcquireLockForSync(p) ==
    /\ pc[p] = "lock" /\ syncBy = None
    /\ syncBy' = p
    /\ Goto(p, AfterLock(p))
    /\ UNCHANGED <<dbVars, hs, rowBy, txn, minted, historyVars>>

UpsertDevice(p) ==
    /\ pc[p] = "upsert"
    /\ hs' = hs \cup {txn[p].device}
    /\ Goto(p, "save")
    /\ UNCHANGED <<dbVars, lockVars, txn, minted, historyVars>>

\* grant.exchange and the commit of the token endpoint. Tokens for a session
\* that was finished meanwhile are of no use, but its device was added.
SaveExchange(p) ==
    LET g == txn[p].grant
        s == txn[p].session IN
    /\ pc[p] = "save" /\ txn[p].kind \in {"exchange", "poll"}
    /\ IF g \in AuthCodes
       THEN /\ authCode' = [authCode EXCEPT ![g].exchanged = "recent"]
            /\ strays' = IF s \in Active THEN strays ELSE strays \cup {txn[p].device}
            /\ UNCHANGED <<deviceCode, session>>
       ELSE /\ deviceCode' = [deviceCode EXCEPT ![g].exchanged = TRUE, ![g].session = s]
            /\ session' = [session EXCEPT ![s] = NewSession("oauth2", DeviceOf[g])]
            /\ UNCHANGED <<authCode, strays>>
    /\ issued' = [issued EXCEPT ![g] = @ \cup {s}]
    /\ exchanges' = [exchanges EXCEPT ![g] = @ + 1]
    /\ End(p)
    /\ UNCHANGED <<browser, admin, syncJobs, hs, minted, consented, replayed,
                   requests, mishaps>>

\* The commit of a login or of a new personal session.
SavePersonal(p) ==
    /\ pc[p] = "save" /\ txn[p].kind \in {"login", "personal"}
    /\ session' = [Finished({s \in Sessions : rowBy[s] = p}) EXCEPT
                     ![txn[p].session] = NewSession("personal", txn[p].device)]
    /\ End(p)
    /\ UNCHANGED <<authCode, deviceCode, browser, admin, syncJobs, hs, minted, historyVars>>

SaveSync(p) ==
    /\ pc[p] = "save" /\ txn[p].kind = "sync"
    /\ End(p)
    /\ UNCHANGED <<dbVars, hs, minted, historyVars>>

\* A transaction is rolled back; a job is retried. A device that was added
\* stays on the homeserver.
Rollback(p) ==
    /\ End(p)
    /\ syncJobs' = IF txn[p].kind = "sync" THEN syncJobs + 1 ELSE syncJobs
    /\ strays' = IF pc[p] = "save" /\ txn[p].kind # "sync"
                 THEN strays \cup {txn[p].device} ELSE strays
    /\ UNCHANGED <<authCode, deviceCode, session, browser, admin, hs, minted,
                   consented, issued, exchanges, replayed, requests>>

\* A statement, the commit or a call to the homeserver fails, the proof that
\* comes with a code is wrong, or the process stops.
Fail(p) ==
    /\ pc[p] # "idle" /\ mishaps < MaxMishaps   \* bound
    /\ mishaps' = mishaps + 1
    /\ Rollback(p)

\* PostgreSQL breaks a cycle of waits: a login holds the advisory lock and
\* waits for the row of a session, whose exchange holds the row and waits for
\* the lock. One of the two is told that it is deadlocked.
Deadlocked(p, q) ==
    /\ pc[p] = "lock" /\ syncBy = q
    /\ pc[q] = "finish"
    /\ \E s \in OnDevice(txn[q].device) : rowBy[s] = p

BreakDeadlock(p) ==
    /\ \E q \in Procs : Deadlocked(p, q) \/ Deadlocked(q, p)
    /\ Rollback(p)
    /\ UNCHANGED mishaps
-----------------------------------------------------------------------------
Step(p) ==
    \/ FulfillAuthCode(p) \/ DecideDeviceCode(p)
    \/ UseSession(p) \/ RefuseAdminScope(p) \/ MarkDeviceCode(p) \/ TakeOverDevice(p)
    \/ RunSync(p) \/ Collect(p) \/ PushDevices(p)
    \/ AcquireLockForSync(p) \/ UpsertDevice(p)
    \/ SaveExchange(p) \/ SavePersonal(p) \/ SaveSync(p)
    \/ BreakDeadlock(p)

Request(p) ==
    \/ \E g \in Grants, k \in {"consent", "approve", "reject"} : ReadConsent(p, k, g)
    \/ \E c \in AuthCodes, agent \in BOOLEAN : ReadAuthCode(p, c, agent)
    \/ \E c \in DeviceCodes : ReadDeviceCode(p, c)
    \/ \E d \in Devices, k \in {"login", "personal"} : BeginPersonal(p, k, d)

\* Everything that was asked for is done.
Terminated == Quiet /\ UNCHANGED vars

Next ==
    \/ Terminated
    \/ Demote \/ LogoutAll
    \/ \E g \in Grants : Age(g)
    \/ \E c \in AuthCodes : ReplayAuthCode(c)
    \/ \E s \in Sessions : EndSession(s)
    \/ \E p \in Procs : Request(p) \/ Step(p) \/ Fail(p)

Spec == Init /\ [][Next]_vars
-----------------------------------------------------------------------------
\* Every row of oauth2_authorization_grants decodes; a device code does not
\* once it was both approved and rejected.
TypeOK ==
    /\ authCode \in [AuthCodes -> AuthRow]
    /\ \A c \in AuthCodes : AuthStage(authCode[c]) # "inconsistent"
    /\ \A c \in DeviceCodes :
         DeviceState(deviceCode[c]) = "inconsistent" =>
           deviceCode[c].fulfilled /\ deviceCode[c].rejected
    /\ deviceCode \in [DeviceCodes -> DeviceRow]
    /\ session \in [Sessions -> SessionRow]
    /\ minted \in 0 .. MaxSessions
    /\ browser \in {"active", "finished"} /\ admin \in BOOLEAN
    /\ syncJobs \in Nat
    /\ hs \subseteq Devices
    /\ syncBy \in Procs \cup {None}
    /\ rowBy \in [Lockable -> Procs \cup {None}]
    /\ pc \in [Procs -> PCs]
    /\ \A p \in Procs :
         /\ txn[p].kind \in Kinds \cup {None}
         /\ txn[p].grant \in Grants \cup {None}
         /\ txn[p].session \in Sessions \cup {None}
         /\ txn[p].device \in Devices \cup {None}
         /\ txn[p].devices \subseteq Devices
         /\ pc[p] = "idle" <=> txn[p] = NoTxn
    /\ consented \in [AuthCodes -> SUBSET Sessions]
    /\ issued \in [Grants -> SUBSET Sessions]
    /\ exchanges \in [Grants -> Nat]
    /\ replayed \subseteq AuthCodes
    /\ strays \subseteq Devices
    /\ requests \in 0 .. MaxRequests /\ mishaps \in 0 .. MaxMishaps

\* The sessions clients hold tokens of.
InUse ==
    {s \in Active : session[s].type = "personal" \/ \E g \in Grants : s \in issued[g]}

\* Once requests and jobs are done, the homeserver has the device of every
\* session a client holds tokens of, however exchanges, logins and device
\* syncs overlapped: no sync pushes a list that a new device is missing from.
DevicesPresent == Quiet => DevicesOf(InUse) \subseteq hs

\* And it has no device without an active session, however the end of sessions
\* fell among them, but the ones left behind where no job was scheduled: a
\* transaction that failed after it added its device, a code exchanged for a
\* session that had ended, and a session ended as compromised or demoted.
DevicesRemoved == Quiet => hs \subseteq DevicesOf(Active) \cup strays

\* A replay of a code after the grace period leaves no session with tokens of
\* that code alive, however many exchanges had raced for it; two consents that
\* overlapped can have put another session in the row.
ReplayKillsTokens ==
    \A c \in replayed : Cardinality(consented[c]) > 1 \/ issued[c] \cap Active = {}

\* Tokens are only issued to a request that began before the code was first
\* exchanged and before the device request was rejected.
SpentCodeIsRefused ==
    [][\A g \in Grants, p \in Procs :
         exchanges'[g] # exchanges[g] /\ pc[p] = "save" /\ pc'[p] = "idle"
           /\ txn[p].grant = g => ~txn[p].spent]_vars

\* As the documentation has it: logout_all ends all sessions started by the
\* upstream session, "including 'remote' ones done through the Device Code
\* flow".
LogoutAllReachesDevices ==
    browser = "finished" /\ Quiet =>
      \A s \in Active : session[s].type = "personal" \/
        \A c \in DeviceCodes : s \notin issued[c]
=============================================================================
