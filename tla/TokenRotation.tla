--------------------------- MODULE TokenRotation ---------------------------
(***************************************************************************)
(* Refresh token rotation of one OAuth 2.0 session: the refresh token      *)
(* grant of the token endpoint, introspection (which marks an access token *)
(* as used), token revocation and the hourly cleanups, over the tables     *)
(* oauth2_refresh_tokens, oauth2_access_tokens and oauth2_sessions.        *)
(*                                                                         *)
(* A request is one transaction at READ COMMITTED. One action is one SQL   *)
(* statement with the local code up to the next. A statement reads what is *)
(* committed and what its own transaction wrote; an UPDATE locks its row   *)
(* until the transaction ends. A handler that returns an error drops its   *)
(* repository: the connection goes back to the pool with its transaction   *)
(* open and its locks held, until the pool's hook rolls it back.           *)
(*                                                                         *)
(* The tokens of a pair are inserted together and never re-assigned, so    *)
(* they share one id; oauth2_access_token_id is NULL if and only if the    *)
(* access token was deleted (ON DELETE SET NULL). Pair 1 is the one the    *)
(* session began with. The client presents the pair it received last; a    *)
(* response may get lost.                                                  *)
(***************************************************************************)
EXTENDS Naturals

CONSTANTS
    Requests,       \* request ids; each is one HTTP request
    Kinds,          \* the endpoints in use: refresh, introspect, revoke
    MaxPairs,       \* bound: pairs ever issued in the session
    Overlap,        \* the client may retry while an attempt is in progress
    LongAbsence,    \* the client may stay away for more than thirty days
    AdminScope,     \* the session holds scopes only an administrator may hold
    None            \* Option::None

Pairs == 1 .. MaxPairs

ASSUME RotationAssumption ==
    /\ MaxPairs \in Nat \ {0}
    /\ Kinds \subseteq {"refresh", "introspect", "revoke"}
    /\ Overlap \in BOOLEAN
    /\ LongAbsence \in BOOLEAN
    /\ AdminScope \in BOOLEAN
    /\ None \notin Requests

VARIABLES
    \* committed rows, the version the writing transaction sees, the writer
    refresh, refreshW, refreshBy,
    access, accessW, accessBy,
    finished, finishedW, sessionBy,     \* oauth2_sessions.finished_at
    lastPair,
    isAdmin,        \* users.can_request_admin of the session's user
    \* each request: control point, input, copies of rows it read
    pc, kind, token, agent, copy, ended, accessCopy, issued,
    \* the client: the pair it received last, the request it waits for
    held, waiting

refreshVars == <<refresh, refreshW, refreshBy>>
accessVars == <<access, accessW, accessBy>>
sessionVars == <<finished, finishedW, sessionBy>>
localVars == <<kind, token, agent, copy, ended, accessCopy, issued>>
clientVars == <<held, waiting>>
vars == <<refreshVars, accessVars, sessionVars, lastPair, isAdmin, pc,
          localVars, clientVars>>

RefreshRows == [here : BOOLEAN, consumed : BOOLEAN, revoked : BOOLEAN,
                next : 0 .. MaxPairs]    \* 0 is NULL
AccessRows == [here : BOOLEAN, revoked : BOOLEAN, used : BOOLEAN]

NoRefresh == [here |-> FALSE, consumed |-> FALSE, revoked |-> FALSE,
              next |-> 0]
NoAccess == [here |-> FALSE, revoked |-> FALSE, used |-> FALSE]
NewRefresh == [NoRefresh EXCEPT !.here = TRUE]
NewAccess == [NoAccess EXCEPT !.here = TRUE]

\* The statement a request is about to issue. "leaked" is a request that has
\* ended with its transaction open.
PCs == {"idle", "find", "session", "agent", "check", "next", "nextAccess",
        "revokeAccess", "revokeRefresh", "generate", "consume", "lookupAccess",
        "revoke", "mark", "finish", "save", "saveRefused", "leaked", "done"}

Running == {r \in Requests : pc[r] \notin {"idle", "leaked", "done"}}
Quiet == \A r \in Requests : pc[r] \in {"idle", "done"}
-----------------------------------------------------------------------------
Init ==
    /\ refresh = [i \in Pairs |-> IF i = 1 THEN NewRefresh ELSE NoRefresh]
    /\ access = [i \in Pairs |-> IF i = 1 THEN NewAccess ELSE NoAccess]
    /\ finished = FALSE
    /\ refreshW = refresh
    /\ accessW = access
    /\ finishedW = finished
    /\ refreshBy = [i \in Pairs |-> None]
    /\ accessBy = [i \in Pairs |-> None]
    /\ sessionBy = None
    /\ lastPair = 1
    /\ isAdmin = TRUE
    /\ pc = [r \in Requests |-> "idle"]
    /\ kind = [r \in Requests |-> None]
    /\ token = [r \in Requests |-> 0]
    /\ agent = [r \in Requests |-> FALSE]
    /\ copy = [r \in Requests |-> NoRefresh]
    /\ ended = [r \in Requests |-> FALSE]
    /\ accessCopy = [r \in Requests |-> NoAccess]
    /\ issued = [r \in Requests |-> 0]
    /\ held = 1
    /\ waiting = None
-----------------------------------------------------------------------------
(***************************************************************************)
(* Rows as the code sees them.                                             *)
(***************************************************************************)
\* TryFrom<OAuth2RefreshTokenRow>: the combinations of columns it accepts.
Decodable(row) ==
    \/ ~row.revoked /\ (row.next # 0 => row.consumed)
    \/ row.revoked /\ ~row.consumed /\ row.next = 0
\* RefreshTokenState::is_valid of a decoded row.
IsValid(row) == ~row.consumed /\ ~row.revoked

\* What a statement of r reads.
RefreshSeen(r, i) == IF refreshBy[i] = r THEN refreshW[i] ELSE refresh[i]
AccessSeen(r, i) == IF accessBy[i] = r THEN accessW[i] ELSE access[i]

Goto(r, label) == pc' = [pc EXCEPT ![r] = label]
\* The client stops waiting for r without an answer it can use.
Unanswered(r) == waiting' = IF waiting = r THEN None ELSE waiting
\* The handler returns an error: the repository is dropped, the transaction
\* stays open.
Refuse(r) ==
    /\ Goto(r, "leaked")
    /\ Unanswered(r)
    /\ UNCHANGED held
\* The handler goes on with its next statement.
Continue(r, label) == Goto(r, label) /\ UNCHANGED clientVars

\* UPDATE oauth2_refresh_tokens / oauth2_access_tokens ... WHERE id = i.
UpdateRefresh(r, i, row) ==
    /\ refreshBy[i] \in {None, r}
    /\ refreshW' = [refreshW EXCEPT ![i] = row]
    /\ refreshBy' = [refreshBy EXCEPT ![i] = r]
    /\ UNCHANGED refresh
UpdateAccess(r, i, row) ==
    /\ accessBy[i] \in {None, r}
    /\ accessW' = [accessW EXCEPT ![i] = row]
    /\ accessBy' = [accessBy EXCEPT ![i] = r]
    /\ UNCHANGED access
\* UPDATE oauth2_sessions; only finished_at is modelled.
UpdateSession(r, end) ==
    /\ sessionBy \in {None, r}
    /\ sessionBy' = r
    /\ finishedW' = end
    /\ UNCHANGED finished

\* The locals of a request are gone when its transaction has ended.
Forget(r) ==
    /\ kind' = [kind EXCEPT ![r] = None]
    /\ token' = [token EXCEPT ![r] = 0]
    /\ agent' = [agent EXCEPT ![r] = FALSE]
    /\ copy' = [copy EXCEPT ![r] = NoRefresh]
    /\ ended' = [ended EXCEPT ![r] = FALSE]
    /\ accessCopy' = [accessCopy EXCEPT ![r] = NoAccess]
    /\ issued' = [issued EXCEPT ![r] = 0]

Commit(r) ==
    /\ refresh' = [i \in Pairs |-> RefreshSeen(r, i)]
    /\ access' = [i \in Pairs |-> AccessSeen(r, i)]
    /\ finished' = IF sessionBy = r THEN finishedW ELSE finished
    /\ refreshBy' = [i \in Pairs |-> IF refreshBy[i] = r THEN None ELSE refreshBy[i]]
    /\ accessBy' = [i \in Pairs |-> IF accessBy[i] = r THEN None ELSE accessBy[i]]
    /\ sessionBy' = IF sessionBy = r THEN None ELSE sessionBy
    /\ UNCHANGED <<refreshW, accessW, finishedW>>

Rollback(r) ==
    /\ refreshW' = [i \in Pairs |-> IF refreshBy[i] = r THEN refresh[i] ELSE refreshW[i]]
    /\ accessW' = [i \in Pairs |-> IF accessBy[i] = r THEN access[i] ELSE accessW[i]]
    /\ finishedW' = IF sessionBy = r THEN finished ELSE finishedW
    /\ refreshBy' = [i \in Pairs |-> IF refreshBy[i] = r THEN None ELSE refreshBy[i]]
    /\ accessBy' = [i \in Pairs |-> IF accessBy[i] = r THEN None ELSE accessBy[i]]
    /\ sessionBy' = IF sessionBy = r THEN None ELSE sessionBy
    /\ UNCHANGED <<refresh, access, finished>>
-----------------------------------------------------------------------------
(***************************************************************************)
(* The client.                                                             *)
(***************************************************************************)
\* It presents the tokens it received last, with or without a User-Agent
\* header, once it has given up on its previous request; a client without
\* overlap also waits until that request has ended.
Send(r) ==
    /\ pc[r] = "idle"
    /\ waiting = None
    /\ Overlap \/ Running = {}
    /\ \E k \in Kinds, a \in BOOLEAN :
          /\ kind' = [kind EXCEPT ![r] = k]
          /\ agent' = [agent EXCEPT ![r] = a /\ k = "refresh"]
    /\ token' = [token EXCEPT ![r] = held]
    /\ waiting' = r
    /\ Goto(r, "find")
    /\ UNCHANGED <<refreshVars, accessVars, sessionVars, lastPair, isAdmin,
                   copy, ended, accessCopy, issued, held>>

\* Its timeout passes; the request goes on.
GiveUp ==
    /\ Overlap
    /\ waiting # None
    /\ waiting' = None
    /\ UNCHANGED <<refreshVars, accessVars, sessionVars, lastPair, isAdmin, pc,
                   localVars, held>>
-----------------------------------------------------------------------------
(***************************************************************************)
(* handle_refresh_token.                                                   *)
(***************************************************************************)
At(r, k, label) == kind[r] = k /\ pc[r] = label

\* find_by_token; an undecodable row is an error.
FindByToken(r) ==
    LET row == RefreshSeen(r, token[r]) IN
    /\ At(r, "refresh", "find")
    /\ IF row.here /\ Decodable(row)
       THEN /\ copy' = [copy EXCEPT ![r] = row]
            /\ Continue(r, "session")
       ELSE Refuse(r) /\ UNCHANGED copy
    /\ UNCHANGED <<refreshVars, accessVars, sessionVars, lastPair, isAdmin,
                   kind, token, agent, ended, accessCopy, issued>>

\* oauth2_session().lookup. is_valid is tested on this copy after the user agent
\* was recorded, so the row of a finished session gets locked too.
LookupSession(r) ==
    /\ At(r, "refresh", "session")
    /\ ended' = [ended EXCEPT ![r] = finished]
    /\ IF agent[r] THEN Continue(r, "agent")
       ELSE IF finished THEN Refuse(r) ELSE Continue(r, "check")
    /\ UNCHANGED <<refreshVars, accessVars, sessionVars, lastPair, isAdmin,
                   kind, token, agent, copy, accessCopy, issued>>

\* Mutant: writes the session back as it was read.
StaleRecordUserAgent(r) ==
    /\ pc[r] = "agent"
    /\ UpdateSession(r, ended[r])
    /\ IF ended[r] THEN Refuse(r) ELSE Continue(r, "check")
    /\ UNCHANGED <<refreshVars, accessVars, lastPair, isAdmin, localVars>>

\* record_user_agent: updates one other column, but locks the row.
RecordUserAgent(r) ==
    /\ pc[r] = "agent"
    /\ UpdateSession(r, finishedW)
    /\ IF ended[r] THEN Refuse(r) ELSE Continue(r, "check")
    /\ UNCHANGED <<refreshVars, accessVars, lastPair, isAdmin, localVars>>

\* session_may_keep_admin_scope, then the state of the token as it was read.
CheckToken(r) ==
    /\ pc[r] = "check"
    /\ IF AdminScope /\ ~isAdmin THEN Continue(r, "finish")
       ELSE IF IsValid(copy[r]) THEN Continue(r, "generate")
       ELSE IF copy[r].next = 0 THEN Refuse(r)
       ELSE Continue(r, "next")
    /\ UNCHANGED <<refreshVars, accessVars, sessionVars, lastPair, isAdmin,
                   localVars>>

\* lookup of next_refresh_token_id: it must exist, be unconsumed and unrevoked,
\* and still have its access token.
LookupNext(r) ==
    LET row == RefreshSeen(r, copy[r].next) IN
    /\ pc[r] = "next"
    /\ IF /\ row.here /\ Decodable(row) /\ IsValid(row)
          /\ AccessSeen(r, copy[r].next).here
       THEN Continue(r, "nextAccess")
       ELSE Refuse(r)
    /\ UNCHANGED <<refreshVars, accessVars, sessionVars, lastPair, isAdmin,
                   localVars>>

\* lookup of its access token, which must not have been used.
LookupNextAccess(r) ==
    LET row == AccessSeen(r, copy[r].next) IN
    /\ pc[r] = "nextAccess"
    /\ IF row.here /\ ~row.used
       THEN /\ accessCopy' = [accessCopy EXCEPT ![r] = row]
            /\ Continue(r, "revokeAccess")
       ELSE Refuse(r) /\ UNCHANGED accessCopy
    /\ UNCHANGED <<refreshVars, accessVars, sessionVars, lastPair, isAdmin,
                   kind, token, agent, copy, ended, issued>>

\* Mutant: takes only the refresh token for lost.
SkippedRevokeNextAccess(r) ==
    /\ pc[r] = "revokeAccess"
    /\ Continue(r, "revokeRefresh")
    /\ UNCHANGED <<refreshVars, accessVars, sessionVars, lastPair, isAdmin,
                   localVars>>

\* oauth2_access_token().revoke(next_access_token): the UPDATE, then the
\* transition of the copy, which is an error if that was already revoked.
RevokeNextAccess(r) ==
    LET n == copy[r].next IN
    /\ pc[r] = "revokeAccess"
    /\ UpdateAccess(r, n, [accessW[n] EXCEPT !.revoked = TRUE])
    /\ IF accessCopy[r].revoked THEN Refuse(r) ELSE Continue(r, "revokeRefresh")
    /\ UNCHANGED <<refreshVars, sessionVars, lastPair, isAdmin, localVars>>

\* Mutant: the lost refresh token stays valid.
SkippedRevokeNextRefresh(r) ==
    /\ pc[r] = "revokeRefresh"
    /\ Continue(r, "generate")
    /\ UNCHANGED <<refreshVars, accessVars, sessionVars, lastPair, isAdmin,
                   localVars>>

\* oauth2_refresh_token().revoke(next_refresh_token), whose copy was valid.
RevokeNextRefresh(r) ==
    LET n == copy[r].next IN
    /\ pc[r] = "revokeRefresh"
    /\ UpdateRefresh(r, n, [refreshW[n] EXCEPT !.revoked = TRUE])
    /\ Continue(r, "generate")
    /\ UNCHANGED <<accessVars, sessionVars, lastPair, isAdmin, localVars>>

\* Mutant: the id of the new pair is handed out again.
ReusedTokenPair(r) ==
    LET n == lastPair + 1 IN
    /\ pc[r] = "generate"
    /\ lastPair < MaxPairs
    /\ UpdateAccess(r, n, NewAccess)
    /\ UpdateRefresh(r, n, NewRefresh)
    /\ issued' = [issued EXCEPT ![r] = n]
    /\ Continue(r, "consume")
    /\ UNCHANGED <<lastPair, sessionVars, isAdmin, kind, token, agent, copy,
                   ended, accessCopy>>

\* generate_token_pair: two inserts that nothing can conflict with.
GenerateTokenPair(r) ==
    LET n == lastPair + 1 IN
    /\ pc[r] = "generate"
    /\ lastPair < MaxPairs   \* bound
    /\ lastPair' = n
    /\ UpdateAccess(r, n, NewAccess)
    /\ UpdateRefresh(r, n, NewRefresh)
    /\ issued' = [issued EXCEPT ![r] = n]
    /\ Continue(r, "consume")
    /\ UNCHANGED <<sessionVars, isAdmin, kind, token, agent, copy, ended,
                   accessCopy>>

\* Mutant: keeps the replacement that was recorded first.
FirstNextConsume(r) ==
    LET t == token[r]
        n == IF refreshW[t].next = 0 THEN issued[r] ELSE refreshW[t].next IN
    /\ pc[r] = "consume"
    /\ UpdateRefresh(r, t, [refreshW[t] EXCEPT !.consumed = TRUE, !.next = n])
    /\ Continue(r, "lookupAccess")
    /\ UNCHANGED <<accessVars, sessionVars, lastPair, isAdmin, localVars>>

\* consume: an UPDATE by id, whatever the row says by now. The copy is valid or
\* consumed here, so the transition of the copy succeeds.
Consume(r) ==
    LET t == token[r] IN
    /\ pc[r] = "consume"
    /\ UpdateRefresh(r, t, [refreshW[t] EXCEPT !.consumed = TRUE,
                                              !.next = issued[r]])
    /\ Continue(r, "lookupAccess")
    /\ UNCHANGED <<accessVars, sessionVars, lastPair, isAdmin, localVars>>

\* lookup of the access token that came with the consumed refresh token.
LookupAccess(r) ==
    LET row == AccessSeen(r, token[r]) IN
    /\ pc[r] = "lookupAccess"
    /\ Continue(r, IF row.here /\ ~row.revoked
                   THEN "revoke" ELSE "save")
    /\ UNCHANGED <<refreshVars, accessVars, sessionVars, lastPair, isAdmin,
                   localVars>>

RevokeAccess(r) ==
    LET t == token[r] IN
    /\ pc[r] = "revoke"
    /\ UpdateAccess(r, t, [accessW[t] EXCEPT !.revoked = TRUE])
    /\ Continue(r, "save")
    /\ UNCHANGED <<refreshVars, sessionVars, lastPair, isAdmin, localVars>>
-----------------------------------------------------------------------------
(***************************************************************************)
(* introspect_token, for an access token the client used at the homeserver, *)
(* and revoke_token.                                                       *)
(***************************************************************************)
FindAccessToken(r) ==
    LET row == AccessSeen(r, token[r]) IN
    /\ At(r, "introspect", "find")
    /\ IF row.here /\ ~row.revoked
       THEN /\ accessCopy' = [accessCopy EXCEPT ![r] = row]
            /\ Continue(r, "session")
       ELSE Refuse(r) /\ UNCHANGED accessCopy
    /\ UNCHANGED <<refreshVars, accessVars, sessionVars, lastPair, isAdmin,
                   kind, token, agent, copy, ended, issued>>

IntrospectSession(r) ==
    /\ At(r, "introspect", "session")
    /\ IF finished THEN Refuse(r)
       ELSE Continue(r, IF accessCopy[r].used THEN "save" ELSE "mark")
    /\ UNCHANGED <<refreshVars, accessVars, sessionVars, lastPair, isAdmin,
                   localVars>>

MarkUsed(r) ==
    LET t == token[r] IN
    /\ pc[r] = "mark"
    /\ UpdateAccess(r, t, [accessW[t] EXCEPT !.used = TRUE])
    /\ Continue(r, "save")
    /\ UNCHANGED <<refreshVars, sessionVars, lastPair, isAdmin, localVars>>

\* The presented token is the access or the refresh token of the pair.
FindRevokedToken(r) ==
    LET a == AccessSeen(r, token[r])
        t == RefreshSeen(r, token[r]) IN
    /\ At(r, "revoke", "find")
    /\ \E ok \in {a.here /\ ~a.revoked, t.here /\ Decodable(t) /\ IsValid(t)} :
          IF ok THEN Continue(r, "session") ELSE Refuse(r)
    /\ UNCHANGED <<refreshVars, accessVars, sessionVars, lastPair, isAdmin,
                   localVars>>

\* The session must be valid. The SyncDevicesJob that is enqueued here goes to
\* queue_jobs, which no statement of this module reads.
RevokeSession(r) ==
    /\ At(r, "revoke", "session")
    /\ IF finished THEN Refuse(r) ELSE Continue(r, "finish")
    /\ UNCHANGED <<refreshVars, accessVars, sessionVars, lastPair, isAdmin,
                   localVars>>

\* oauth2_session().finish, by a revocation or by a refresh whose user is no
\* administrator any more; the latter commits and then answers with an error.
FinishSession(r) ==
    /\ pc[r] = "finish"
    /\ UpdateSession(r, TRUE)
    /\ Continue(r, IF kind[r] = "revoke" THEN "save" ELSE "saveRefused")
    /\ UNCHANGED <<refreshVars, accessVars, lastPair, isAdmin, localVars>>
-----------------------------------------------------------------------------
(***************************************************************************)
(* The end of a request.                                                   *)
(***************************************************************************)
\* repo.save() and the answer, which may get lost.
Save(r) ==
    /\ pc[r] = "save"
    /\ Commit(r)
    /\ Goto(r, "done")
    /\ held' \in IF waiting = r /\ kind[r] = "refresh" THEN {held, issued[r]}
                 ELSE {held}
    /\ Unanswered(r)
    /\ Forget(r)
    /\ UNCHANGED <<lastPair, isAdmin>>

SaveRefused(r) ==
    /\ pc[r] = "saveRefused"
    /\ Commit(r)
    /\ Goto(r, "done")
    /\ Unanswered(r)
    /\ Forget(r)
    /\ UNCHANGED <<lastPair, isAdmin, held>>

\* The handler is dropped at an await: a client that disconnects, a panic, or
\* one of the lookups without effect that are left out here refuses.
Drop(r) ==
    /\ r \in Running
    /\ Refuse(r)
    /\ UNCHANGED <<refreshVars, accessVars, sessionVars, lastPair, isAdmin,
                   localVars>>

\* The row r waits for is locked by this transaction.
Holder(r) ==
    CASE pc[r] \in {"agent", "finish"} -> sessionBy
      [] pc[r] = "revokeAccess" -> accessBy[copy[r].next]
      [] pc[r] = "revokeRefresh" -> refreshBy[copy[r].next]
      [] pc[r] = "consume" -> refreshBy[token[r]]
      [] pc[r] \in {"revoke", "mark"} -> accessBy[token[r]]
      [] OTHER -> None

Deadlocked(r) ==
    \E C \in SUBSET Requests : r \in C /\ \A s \in C : Holder(s) \in C \ {s}

\* A statement fails: PostgreSQL aborts the transaction and frees its locks.
DatabaseError(r) ==
    /\ r \in Running
    /\ Rollback(r)
    /\ Goto(r, "done")
    /\ Unanswered(r)
    /\ Forget(r)
    /\ UNCHANGED <<lastPair, isAdmin, held>>

\* Deadlock detection picks a victim.
DeadlockVictim(r) == Deadlocked(r) /\ DatabaseError(r)

\* Mutant: the connection is handed out as it is.
UncleanRecycle(r) ==
    /\ pc[r] = "leaked"
    /\ Goto(r, "done")
    /\ Forget(r)
    /\ UNCHANGED <<refreshVars, accessVars, sessionVars, lastPair, isAdmin,
                   clientVars>>

\* The pool's hook: ROLLBACK before the connection is handed out again.
Recycle(r) ==
    /\ pc[r] = "leaked"
    /\ Rollback(r)
    /\ Goto(r, "done")
    /\ Forget(r)
    /\ UNCHANGED <<lastPair, isAdmin, clientVars>>
-----------------------------------------------------------------------------
(***************************************************************************)
(* The cleanup jobs, each a transaction of its own. They delete rows that  *)
(* are at least an hour old, which no request in progress works on.        *)
(***************************************************************************)
DeleteAccess(i) ==
    /\ Quiet
    /\ access' = [access EXCEPT ![i] = NoAccess]
    /\ accessW' = access'
    /\ UNCHANGED <<refreshVars, accessBy, sessionVars, lastPair, isAdmin, pc,
                   localVars, clientVars>>

\* Deletes refresh token i: ON DELETE SET NULL in the one before it.
DeleteRefresh(i) ==
    /\ Quiet
    /\ refresh' = [j \in Pairs |->
                     IF j = i THEN NoRefresh
                     ELSE IF refresh[j].next = i THEN [refresh[j] EXCEPT !.next = 0]
                     ELSE refresh[j]]
    /\ refreshW' = refresh'
    /\ UNCHANGED <<refreshBy, accessVars, sessionVars, lastPair, isAdmin, pc,
                   localVars, clientVars>>

CleanupRevokedAccess(i) == access[i].here /\ access[i].revoked /\ DeleteAccess(i)

\* Access tokens live for minutes; cleanup_expired deletes them thirty days after
\* they expired.
CleanupExpiredAccess(i) == LongAbsence /\ access[i].here /\ DeleteAccess(i)

CleanupRevokedRefresh(i) == refresh[i].here /\ refresh[i].revoked /\ DeleteRefresh(i)

\* Mutant: deletes a consumed token whatever became of its replacement.
EagerCleanupConsumed(i) == refresh[i].here /\ refresh[i].consumed /\ DeleteRefresh(i)

CleanupConsumedRefresh(i) ==
    /\ refresh[i].here
    /\ refresh[i].consumed
    /\ refresh[i].next # 0 => refresh[refresh[i].next].consumed
    /\ DeleteRefresh(i)

\* An administrator is demoted.
Demote ==
    /\ AdminScope
    /\ isAdmin
    /\ isAdmin' = FALSE
    /\ UNCHANGED <<refreshVars, accessVars, sessionVars, lastPair, pc, localVars,
                   clientVars>>
-----------------------------------------------------------------------------
RefreshStep(r) ==
    \/ FindByToken(r) \/ LookupSession(r) \/ RecordUserAgent(r) \/ CheckToken(r)
    \/ LookupNext(r) \/ LookupNextAccess(r) \/ RevokeNextAccess(r)
    \/ RevokeNextRefresh(r) \/ GenerateTokenPair(r) \/ Consume(r)
    \/ LookupAccess(r) \/ RevokeAccess(r)

OtherStep(r) ==
    \/ FindAccessToken(r) \/ IntrospectSession(r) \/ MarkUsed(r)
    \/ FindRevokedToken(r) \/ RevokeSession(r)

\* What the server does for a request on its own account.
Serve(r) ==
    RefreshStep(r) \/ OtherStep(r) \/ FinishSession(r) \/ Save(r) \/ SaveRefused(r)

Cleanup ==
    \E i \in Pairs : \/ CleanupRevokedAccess(i)
                     \/ CleanupExpiredAccess(i)
                     \/ CleanupRevokedRefresh(i)
                     \/ CleanupConsumedRefresh(i)

Next ==
    \/ \E r \in Requests : \/ Send(r) \/ Serve(r)
                           \/ Drop(r) \/ DatabaseError(r) \/ Recycle(r)
    \/ GiveUp
    \/ Cleanup
    \/ Demote

Spec == Init /\ [][Next]_vars

\* The runtime polls every handler, deadlocks are detected, and the pool hands
\* out every connection again: the worker takes one every second.
FairSpec ==
    /\ Spec
    /\ \A r \in Requests : /\ WF_vars(Serve(r))
                           /\ WF_vars(DeadlockVictim(r))
                           /\ WF_vars(Recycle(r))
-----------------------------------------------------------------------------
TypeOK ==
    /\ refresh \in [Pairs -> RefreshRows]
    /\ refreshW \in [Pairs -> RefreshRows]
    /\ refreshBy \in [Pairs -> Requests \cup {None}]
    /\ access \in [Pairs -> AccessRows]
    /\ accessW \in [Pairs -> AccessRows]
    /\ accessBy \in [Pairs -> Requests \cup {None}]
    /\ finished \in BOOLEAN
    /\ finishedW \in BOOLEAN
    /\ sessionBy \in Requests \cup {None}
    /\ lastPair \in Pairs
    /\ isAdmin \in BOOLEAN
    /\ pc \in [Requests -> PCs]
    /\ kind \in [Requests -> Kinds \cup {None}]
    /\ token \in [Requests -> 0 .. lastPair]
    /\ agent \in [Requests -> BOOLEAN]
    /\ copy \in [Requests -> RefreshRows]
    /\ ended \in [Requests -> BOOLEAN]
    /\ accessCopy \in [Requests -> AccessRows]
    /\ issued \in [Requests -> 0 .. lastPair]
    /\ \A r \in Requests :
          /\ pc[r] \notin {"idle", "done"} => token[r] # 0
          /\ pc[r] \in {"next", "nextAccess", "revokeAccess", "revokeRefresh"}
                => copy[r].next # 0
          /\ \/ pc[r] \in {"consume", "lookupAccess", "revoke"}
             \/ At(r, "refresh", "save")
             => issued[r] # 0
          /\ pc[r] = "mark" => kind[r] # "refresh"
    /\ held \in 1 .. lastPair
    /\ waiting \in Requests \cup {None}

\* A refresh token that was consumed or revoked leaves no working access token
\* behind (handle_refresh_token revokes the access token in the transaction that
\* ends the refresh token), however the requests of a session overlap.
AccessDiesWithRefresh ==
    \A i \in Pairs :
        refresh[i].here /\ ~IsValid(refresh[i]) /\ access[i].here => access[i].revoked

\* A refresh with pair i would succeed: its token is valid, or it is consumed and
\* the pair that replaced it was not used.
CanRefresh(i) ==
    LET row == refresh[i]
        n == row.next IN
    /\ row.here /\ Decodable(row)
    /\ \/ IsValid(row)
       \/ /\ n # 0
          /\ refresh[n].here /\ Decodable(refresh[n]) /\ IsValid(refresh[n])
          /\ access[n].here /\ ~access[n].used

\* A client that sends one request at a time, and does not stay away until
\* expired tokens are cleaned up, is never locked out of its session, whichever
\* responses it lost, requests failed and rows were cleaned up: what it received
\* last can always be refreshed (the double-refresh branch).
NeverLockedOut == ~Overlap /\ ~LongAbsence /\ Quiet => CanRefresh(held)

\* With such a client the session never has two refresh tokens that are valid:
\* the pair that got lost is revoked when its replacement is issued.
SingleChain ==
    ~Overlap => \A i, j \in Pairs :
        refresh[i].here /\ IsValid(refresh[i]) /\ refresh[j].here /\ IsValid(refresh[j])
            => i = j

\* A client whose attempts overlap with each other and with introspections of
\* its access tokens (which decide whether the replacement counts as used) is
\* locked out by two things only: a delayed duplicate of its request took the
\* pair it received for lost and revoked it, or it stayed away until the
\* replacement's access token was cleaned up.
LockedOutOnlyByDuplicate ==
    LET row == refresh[held] IN
    Quiet => \/ CanRefresh(held) \/ ~row.here \/ row.revoked
             \/ LongAbsence /\ row.next # 0 /\ ~access[row.next].here

\* A session that is finished stays finished, although a refresh in progress
\* updates its row later from a copy it read before (record_user_agent).
SessionStaysFinished == [][finished => finished']_vars

\* Every request ends and gives its locks back (each is started once, so from
\* some time on none is under way): deadlocks are broken, and a refused
\* request's open transaction is rolled back by the pool's hook.
EveryRequestEnds == <>[](\A r \in Requests : pc[r] \in {"idle", "done"})
=============================================================================
