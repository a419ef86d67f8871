------------------------ MODULE TokenRotationProofs ------------------------
(***************************************************************************)
(* Proofs about TokenRotation, for any set of requests, any number of      *)
(* pairs, and clients that overlap their requests or do not.               *)
(***************************************************************************)
EXTENDS TokenRotation, TLAPS

\* A row nobody writes reads the same for everyone.
SyncInv ==
    \A i \in Pairs : /\ refreshBy[i] = None => refreshW[i] = refresh[i]
                     /\ accessBy[i] = None => accessW[i] = access[i]

\* A request that has not begun or has ended locks nothing.
OwnInv ==
    \A r \in Requests : pc[r] \in {"idle", "done"} =>
        \A i \in Pairs : refreshBy[i] # r /\ accessBy[i] # r

\* Pairs that were not handed out do not exist and are not locked.
FreshInv ==
    \A i \in Pairs : i > lastPair =>
        /\ ~refresh[i].here /\ ~access[i].here
        /\ refreshBy[i] = None /\ accessBy[i] = None

\* A transaction never takes a revocation back, and an access token it inserts
\* comes with the refresh token of the same pair, inserted by it as well.
WriteInv ==
    \A i \in Pairs :
        /\ access[i].here => /\ accessW[i].here
                             /\ access[i].revoked => accessW[i].revoked
        /\ accessW[i].here /\ ~access[i].here =>
              /\ accessBy[i] \in Requests
              /\ refreshBy[i] = accessBy[i]
              /\ ~refresh[i].here

TablesInv == SyncInv /\ FreshInv /\ WriteInv /\ AccessDiesWithRefresh

\* What r would commit for pair i respects AccessDiesWithRefresh.
Sound(r, i) ==
    /\ refreshBy[i] = r
    /\ refreshW[i].here
    /\ ~IsValid(refreshW[i])
    /\ AccessSeen(r, i).here
    => AccessSeen(r, i).revoked

\* r has revoked access token i, and not committed yet.
Revoking(r, i) == accessBy[i] = r /\ accessW[i].revoked

\* A running request is sound for every pair, except for the presented token
\* between its consumption and the revocation of its access token.
SoundFor(r) ==
    /\ \A i \in Pairs :
          \/ i = token[r] /\ pc[r] \in {"lookupAccess", "revoke"}
          \/ Sound(r, i)
    /\ pc[r] = "revokeRefresh" => Revoking(r, copy[r].next)

SoundInv == \A r \in Running : SoundFor(r)

\* The replacement a request looks at was handed out.
NextInv ==
    \A r \in Requests :
        pc[r] \in {"nextAccess", "revokeAccess", "revokeRefresh"}
            => copy[r].next \in 1 .. lastPair

RotationInv == TablesInv /\ OwnInv /\ NextInv /\ SoundInv

SessionInv ==
    /\ sessionBy = None => finishedW = finished
    /\ finished => finishedW
-----------------------------------------------------------------------------
\* The rows the statements write are rows.
LEMMA RowTypes ==
    /\ NoRefresh \in RefreshRows /\ NewRefresh \in RefreshRows
    /\ NoAccess \in AccessRows /\ NewAccess \in AccessRows
    /\ \A row \in RefreshRows :
          /\ [row EXCEPT !.revoked = TRUE] \in RefreshRows
          /\ [row EXCEPT !.next = 0] \in RefreshRows
          /\ \A n \in 0 .. MaxPairs :
                [row EXCEPT !.consumed = TRUE, !.next = n] \in RefreshRows
    /\ \A row \in AccessRows :
          /\ [row EXCEPT !.revoked = TRUE] \in AccessRows
          /\ [row EXCEPT !.used = TRUE] \in AccessRows
<1>1. 0 \in 0 .. MaxPairs
  BY RotationAssumption
<1> QED
  BY <1>1 DEF NoRefresh, NewRefresh, NoAccess, NewAccess, RefreshRows, AccessRows

\* The type invariant holds initially.
LEMMA TypeInit == Init => TypeOK
<1> SUFFICES ASSUME Init PROVE TypeOK
  OBVIOUS
<1>1. 1 \in Pairs /\ 0 \in 0 .. lastPair /\ 1 \in 1 .. lastPair
  BY RotationAssumption DEF Init, Pairs
<1>2. /\ refresh \in [Pairs -> RefreshRows]
      /\ refreshW \in [Pairs -> RefreshRows]
      /\ access \in [Pairs -> AccessRows]
      /\ accessW \in [Pairs -> AccessRows]
  BY RowTypes DEF Init
<1>3. /\ agent \in [Requests -> BOOLEAN]
      /\ ended \in [Requests -> BOOLEAN]
      /\ finished \in BOOLEAN
      /\ finishedW \in BOOLEAN
      /\ isAdmin \in BOOLEAN
  BY Zenon DEF Init
<1>4. /\ copy \in [Requests -> RefreshRows]
      /\ accessCopy \in [Requests -> AccessRows]
  BY RowTypes DEF Init
<1> QED
  BY <1>1, <1>2, <1>3, <1>4 DEF Init, TypeOK, PCs, At

\* An UPDATE that writes a row leaves the table well-typed.
LEMMA UpdateType ==
    ASSUME TypeOK, NEW r \in Requests, NEW i \in Pairs
    PROVE  /\ \A row \in RefreshRows : UpdateRefresh(r, i, row) =>
                 /\ refresh' \in [Pairs -> RefreshRows]
                 /\ refreshW' \in [Pairs -> RefreshRows]
                 /\ refreshBy' \in [Pairs -> Requests \cup {None}]
           /\ \A row \in AccessRows : UpdateAccess(r, i, row) =>
                 /\ access' \in [Pairs -> AccessRows]
                 /\ accessW' \in [Pairs -> AccessRows]
                 /\ accessBy' \in [Pairs -> Requests \cup {None}]
BY DEF TypeOK, UpdateRefresh, UpdateAccess

\* A request's token, and the replacement it looks at, are pairs.
LEMMA Indices ==
    ASSUME TypeOK, NEW r \in Requests
    PROVE  /\ lastPair \in Nat
           /\ pc[r] \notin {"idle", "done"} => token[r] \in Pairs
           /\ pc[r] \in {"next", "nextAccess", "revokeAccess", "revokeRefresh"}
                => copy[r].next \in Pairs
           /\ issued[r] \in 0 .. MaxPairs
<1>1. lastPair \in Pairs /\ token[r] \in 0 .. lastPair /\ issued[r] \in 0 .. lastPair
  BY DEF TypeOK
<1>2. copy[r].next \in 0 .. MaxPairs
  BY DEF TypeOK, RefreshRows
<1> QED
  BY <1>1, <1>2, RotationAssumption DEF Pairs, TypeOK

\* The end of a transaction leaves the tables well-typed.
LEMMA EndType ==
    ASSUME TypeOK, NEW r \in Requests, Commit(r) \/ Rollback(r)
    PROVE  /\ refresh' \in [Pairs -> RefreshRows]
           /\ refreshW' \in [Pairs -> RefreshRows]
           /\ refreshBy' \in [Pairs -> Requests \cup {None}]
           /\ access' \in [Pairs -> AccessRows]
           /\ accessW' \in [Pairs -> AccessRows]
           /\ accessBy' \in [Pairs -> Requests \cup {None}]
           /\ finished' \in BOOLEAN
           /\ finishedW' \in BOOLEAN
           /\ sessionBy' \in Requests \cup {None}
<1>1. CASE Commit(r)
  BY <1>1 DEF Commit, TypeOK, RefreshSeen, AccessSeen
<1>2. CASE Rollback(r)
  BY <1>2 DEF Rollback, TypeOK
<1> QED
  BY <1>1, <1>2

\* So does forgetting the locals of a request that has ended.
LEMMA ForgetType ==
    ASSUME TypeOK, NEW r \in Requests, Forget(r), Goto(r, "done"),
           UNCHANGED lastPair
    PROVE  /\ pc' \in [Requests -> PCs]
           /\ kind' \in [Requests -> Kinds \cup {None}]
           /\ token' \in [Requests -> 0 .. lastPair']
           /\ agent' \in [Requests -> BOOLEAN]
           /\ copy' \in [Requests -> RefreshRows]
           /\ ended' \in [Requests -> BOOLEAN]
           /\ accessCopy' \in [Requests -> AccessRows]
           /\ issued' \in [Requests -> 0 .. lastPair']
           /\ \A s \in Requests :
                /\ pc'[s] \notin {"idle", "done"} => token'[s] # 0
                /\ pc'[s] \in {"next", "nextAccess", "revokeAccess", "revokeRefresh"}
                      => copy'[s].next # 0
                /\ \/ pc'[s] \in {"consume", "lookupAccess", "revoke"}
                   \/ kind'[s] = "refresh" /\ pc'[s] = "save"
                   => issued'[s] # 0
                /\ pc'[s] = "mark" => kind'[s] # "refresh"
<1>1. 0 \in 0 .. lastPair
  BY Indices
<1>2. /\ agent' \in [Requests -> BOOLEAN]
      /\ ended' \in [Requests -> BOOLEAN]
  BY Zenon DEF Forget, TypeOK
<1>3. /\ copy' \in [Requests -> RefreshRows]
      /\ accessCopy' \in [Requests -> AccessRows]
  BY RowTypes DEF Forget, TypeOK
<1>4. /\ pc' \in [Requests -> PCs]
      /\ kind' \in [Requests -> Kinds \cup {None}]
      /\ token' \in [Requests -> 0 .. lastPair']
      /\ issued' \in [Requests -> 0 .. lastPair']
  BY <1>1 DEF Forget, Goto, TypeOK, PCs
<1>5. ASSUME NEW s \in Requests
      PROVE  /\ pc'[s] \notin {"idle", "done"} => token'[s] # 0
             /\ pc'[s] \in {"next", "nextAccess", "revokeAccess", "revokeRefresh"}
                   => copy'[s].next # 0
             /\ \/ pc'[s] \in {"consume", "lookupAccess", "revoke"}
                \/ kind'[s] = "refresh" /\ pc'[s] = "save"
                => issued'[s] # 0
             /\ pc'[s] = "mark" => kind'[s] # "refresh"
  <2>1. CASE s = r
    BY <2>1 DEF Forget, Goto, TypeOK
  <2>2. CASE s # r
    BY <2>2 DEF Forget, Goto, TypeOK, At
  <2> QED
    BY <2>1, <2>2
<1> QED
  BY <1>2, <1>3, <1>4, <1>5

\* A statement that only moves the request on.
LEMMA MoveType ==
    ASSUME TypeOK, NEW r \in Requests, NEW l \in PCs,
           Continue(r, l) \/ (l = "leaked" /\ Refuse(r)),
           UNCHANGED <<lastPair, isAdmin, localVars>>,
           pc[r] \notin {"idle", "done"},
           l \in {"next", "nextAccess", "revokeAccess", "revokeRefresh"}
              => copy[r].next # 0,
           l \in {"consume", "lookupAccess", "revoke"} => issued[r] # 0,
           l = "save" => kind[r] # "refresh" \/ issued[r] # 0,
           l = "mark" => kind[r] # "refresh",
           /\ refresh' \in [Pairs -> RefreshRows]
           /\ refreshW' \in [Pairs -> RefreshRows]
           /\ refreshBy' \in [Pairs -> Requests \cup {None}]
           /\ access' \in [Pairs -> AccessRows]
           /\ accessW' \in [Pairs -> AccessRows]
           /\ accessBy' \in [Pairs -> Requests \cup {None}]
           /\ finished' \in BOOLEAN
           /\ finishedW' \in BOOLEAN
           /\ sessionBy' \in Requests \cup {None}
    PROVE  TypeOK'
<1>1. pc' = [pc EXCEPT ![r] = l] /\ held' = held /\ waiting' \in Requests \cup {None}
  BY DEF Continue, Refuse, Unanswered, Goto, clientVars, TypeOK
<1>2. ASSUME NEW s \in Requests
      PROVE  /\ pc'[s] \notin {"idle", "done"} => token'[s] # 0
             /\ pc'[s] \in {"next", "nextAccess", "revokeAccess", "revokeRefresh"}
                   => copy'[s].next # 0
             /\ \/ pc'[s] \in {"consume", "lookupAccess", "revoke"}
                \/ kind'[s] = "refresh" /\ pc'[s] = "save"
                => issued'[s] # 0
             /\ pc'[s] = "mark" => kind'[s] # "refresh"
  <2>1. CASE s = r
    BY <1>1, <2>1 DEF TypeOK, localVars
  <2>2. CASE s # r
    BY <1>1, <2>2 DEF TypeOK, localVars, At
  <2> QED
    BY <2>1, <2>2
<1> QED
  BY <1>1, <1>2 DEF TypeOK, localVars, At

\* The tables are well-typed.
TablesType ==
    /\ refresh \in [Pairs -> RefreshRows]
    /\ refreshW \in [Pairs -> RefreshRows]
    /\ refreshBy \in [Pairs -> Requests \cup {None}]
    /\ access \in [Pairs -> AccessRows]
    /\ accessW \in [Pairs -> AccessRows]
    /\ accessBy \in [Pairs -> Requests \cup {None}]
    /\ finished \in BOOLEAN
    /\ finishedW \in BOOLEAN
    /\ sessionBy \in Requests \cup {None}

\* Every statement of a request preserves the type invariant.
LEMMA ServeType ==
    ASSUME TypeOK, NEW r \in Requests, Serve(r)
    PROVE  TypeOK'
<1> USE DEF refreshVars, accessVars, sessionVars
<1>0. TablesType
  BY DEF TypeOK, TablesType
<1>1. CASE FindByToken(r)
  <2>1. TablesType'
    BY <1>0, <1>1 DEF FindByToken, TablesType
  <2>2. RefreshSeen(r, token[r]) \in RefreshRows
    BY <1>1, Indices DEF FindByToken, At, RefreshSeen, TypeOK
  <2>3. copy' \in [Requests -> RefreshRows]
    BY <1>1, <2>2 DEF FindByToken, TypeOK
  <2>4. \E l \in {"session", "leaked"} : pc' = [pc EXCEPT ![r] = l]
    BY <1>1 DEF FindByToken, Continue, Refuse, Goto
  <2>5. held' = held /\ waiting' \in Requests \cup {None}
    BY <1>1 DEF FindByToken, Continue, Refuse, Unanswered, clientVars, TypeOK
  <2>6. \A s \in Requests \ {r} : copy'[s] = copy[s]
    BY <1>1 DEF FindByToken, TypeOK
  <2>7. pc[r] = "find"
    BY <1>1 DEF FindByToken, At
  <2> QED
    BY <1>1, <2>1, <2>3, <2>4, <2>5, <2>6, <2>7 DEF FindByToken, TablesType, TypeOK, PCs, At
<1>2. CASE LookupSession(r)
  <2>1. TablesType'
    BY <1>0, <1>2 DEF LookupSession, TablesType
  <2>2. ended' \in [Requests -> BOOLEAN]
    BY <1>2, Zenon DEF LookupSession, TypeOK
  <2>3. \E l \in {"agent", "check", "leaked"} : pc' = [pc EXCEPT ![r] = l]
    BY <1>2 DEF LookupSession, Continue, Refuse, Goto
  <2>4. held' = held /\ waiting' \in Requests \cup {None}
    BY <1>2 DEF LookupSession, Continue, Refuse, Unanswered, clientVars, TypeOK
  <2>5. pc[r] = "session"
    BY <1>2 DEF LookupSession, At
  <2> QED
    BY <1>2, <2>1, <2>2, <2>3, <2>4, <2>5 DEF LookupSession, TablesType, TypeOK, PCs, At
<1>3. CASE RecordUserAgent(r)
  <2>10. UpdateSession(r, finishedW) /\ UNCHANGED <<refreshVars, accessVars>>
    BY <1>3 DEF RecordUserAgent
  <2>11. finishedW \in BOOLEAN
    BY <1>0 DEF TablesType
  <2>1. TablesType'
    BY <1>0, <2>10, <2>11 DEF UpdateSession, TablesType
  <2>2. UNCHANGED <<lastPair, isAdmin, localVars>>
    BY <1>3 DEF RecordUserAgent
  <2>3. Refuse(r) \/ Continue(r, "check")
    BY <1>3 DEF RecordUserAgent
  <2>4. pc[r] \notin {"idle", "done"}
    BY <1>3 DEF RecordUserAgent, At, TypeOK
  <2>5. CASE Refuse(r)
    BY <2>1, <2>2, <2>4, <2>5, MoveType DEF TablesType, PCs
  <2>6. CASE Continue(r, "check")
    BY <2>1, <2>2, <2>4, <2>6, MoveType DEF TablesType, PCs
  <2> QED
    BY <2>3, <2>5, <2>6
<1>4. CASE CheckToken(r)
  <2>1. TablesType'
    BY <1>0, <1>4 DEF CheckToken, TablesType
  <2>2. UNCHANGED <<lastPair, isAdmin, localVars>>
    BY <1>4 DEF CheckToken
  <2>3. Continue(r, "finish") \/ Continue(r, "generate") \/ Refuse(r) \/ Continue(r, "next")
    BY <1>4 DEF CheckToken
  <2>4. pc[r] \notin {"idle", "done"}
    BY <1>4 DEF CheckToken, At, TypeOK
  <2>5. CASE Continue(r, "finish")
    BY <2>1, <2>2, <2>4, <2>5, MoveType DEF TablesType, PCs
  <2>6. CASE Continue(r, "generate")
    BY <2>1, <2>2, <2>4, <2>6, MoveType DEF TablesType, PCs
  <2>7. CASE Refuse(r)
    BY <2>1, <2>2, <2>4, <2>7, MoveType DEF TablesType, PCs
  <2>8. CASE Continue(r, "next")
    <3>1. copy[r].next # 0
      BY <1>4, <2>8 DEF CheckToken, Continue, Refuse, Goto, At, TypeOK, PCs
    <3> QED
      BY <2>1, <2>2, <2>4, <2>8, <3>1, MoveType DEF TablesType, PCs
  <2> QED
    BY <2>3, <2>5, <2>6, <2>7, <2>8
<1>5. CASE LookupNext(r)
  <2>1. TablesType'
    BY <1>0, <1>5 DEF LookupNext, TablesType
  <2>2. UNCHANGED <<lastPair, isAdmin, localVars>>
    BY <1>5 DEF LookupNext
  <2>3. Continue(r, "nextAccess") \/ Refuse(r)
    BY <1>5 DEF LookupNext
  <2>4. pc[r] \notin {"idle", "done"} /\ copy[r].next # 0
    BY <1>5 DEF LookupNext, At, TypeOK
  <2>5. CASE Continue(r, "nextAccess")
    BY <2>1, <2>2, <2>4, <2>5, MoveType DEF TablesType, PCs
  <2>6. CASE Refuse(r)
    BY <2>1, <2>2, <2>4, <2>6, MoveType DEF TablesType, PCs
  <2> QED
    BY <2>3, <2>5, <2>6
<1>6. CASE LookupNextAccess(r)
  <2>1. TablesType'
    BY <1>0, <1>6 DEF LookupNextAccess, TablesType
  <2>2. AccessSeen(r, copy[r].next) \in AccessRows
    BY <1>6, Indices DEF LookupNextAccess, AccessSeen, TypeOK
  <2>3. accessCopy' \in [Requests -> AccessRows]
    BY <1>6, <2>2 DEF LookupNextAccess, TypeOK
  <2>4. \E l \in {"revokeAccess", "leaked"} : pc' = [pc EXCEPT ![r] = l]
    BY <1>6 DEF LookupNextAccess, Continue, Refuse, Goto
  <2>5. held' = held /\ waiting' \in Requests \cup {None}
    BY <1>6 DEF LookupNextAccess, Continue, Refuse, Unanswered, clientVars, TypeOK
  <2>6. pc[r] = "nextAccess"
    BY <1>6 DEF LookupNextAccess
  <2> QED
    BY <1>6, <2>1, <2>3, <2>4, <2>5, <2>6 DEF LookupNextAccess, TablesType, TypeOK, PCs, At
<1>7. CASE RevokeNextAccess(r)
  <2> DEFINE i == copy[r].next
             row == [accessW[i] EXCEPT !.revoked = TRUE]
  <2>0. i \in Pairs
    BY <1>7, Indices DEF RevokeNextAccess
  <2>10. row \in AccessRows
    BY <1>0, <2>0, RowTypes, Zenon DEF TablesType
  <2>11. UpdateAccess(r, i, row) /\ UNCHANGED <<refreshVars, sessionVars>>
    BY <1>7 DEF RevokeNextAccess
  <2> HIDE DEF row
  <2>1. TablesType'
    BY <1>0, <2>0, <2>10, <2>11, UpdateType DEF TablesType
  <2>2. UNCHANGED <<lastPair, isAdmin, localVars>>
    BY <1>7 DEF RevokeNextAccess
  <2>3. Refuse(r) \/ Continue(r, "revokeRefresh")
    BY <1>7 DEF RevokeNextAccess
  <2>4. pc[r] \notin {"idle", "done"} /\ copy[r].next # 0
    BY <1>7 DEF RevokeNextAccess, At, TypeOK
  <2>5. CASE Refuse(r)
    BY <2>1, <2>2, <2>4, <2>5, MoveType DEF TablesType, PCs
  <2>6. CASE Continue(r, "revokeRefresh")
    BY <2>1, <2>2, <2>4, <2>6, MoveType DEF TablesType, PCs
  <2> QED
    BY <2>3, <2>5, <2>6
<1>8. CASE RevokeNextRefresh(r)
  <2> DEFINE i == copy[r].next
             row == [refreshW[i] EXCEPT !.revoked = TRUE]
  <2>0. i \in Pairs
    BY <1>8, Indices DEF RevokeNextRefresh
  <2>10. row \in RefreshRows
    BY <1>0, <2>0, Indices, RowTypes, Zenon DEF TablesType
  <2>11. UpdateRefresh(r, i, row) /\ UNCHANGED <<accessVars, sessionVars>>
    BY <1>8 DEF RevokeNextRefresh
  <2> HIDE DEF row
  <2>1. TablesType'
    BY <1>0, <2>0, <2>10, <2>11, UpdateType DEF TablesType
  <2>2. UNCHANGED <<lastPair, isAdmin, localVars>>
    BY <1>8 DEF RevokeNextRefresh
  <2>3. Continue(r, "generate")
    BY <1>8 DEF RevokeNextRefresh
  <2>4. pc[r] \notin {"idle", "done"}
    BY <1>8 DEF RevokeNextRefresh, At, TypeOK
  <2>5. CASE Continue(r, "generate")
    BY <2>1, <2>2, <2>4, <2>5, MoveType DEF TablesType, PCs
  <2> QED
    BY <2>3, <2>5
<1>9. CASE GenerateTokenPair(r)
  <2> DEFINE n == lastPair + 1
  <2>1. n \in Pairs /\ n # 0 /\ lastPair \in 0 .. n /\ 1 .. lastPair \subseteq 1 .. n
        /\ 0 .. lastPair \subseteq 0 .. n /\ n \in 0 .. n
    BY <1>9, Indices, RotationAssumption DEF GenerateTokenPair, Pairs, TypeOK
  <2>2. /\ UpdateAccess(r, n, NewAccess)
        /\ UpdateRefresh(r, n, NewRefresh)
        /\ UNCHANGED <<sessionVars, isAdmin, kind, token, agent, copy, ended,
                       accessCopy>>
        /\ lastPair' = n
        /\ issued' = [issued EXCEPT ![r] = n]
        /\ pc[r] = "generate"
        /\ pc' = [pc EXCEPT ![r] = "consume"]
        /\ UNCHANGED <<held, waiting>>
    BY <1>9 DEF GenerateTokenPair, Continue, Goto, clientVars
  <2>3. TablesType'
    BY <1>0, <2>1, <2>2, RowTypes, UpdateType DEF TablesType
  <2> HIDE DEF n
  <2>4. /\ token' \in [Requests -> 0 .. lastPair']
        /\ issued' \in [Requests -> 0 .. lastPair']
        /\ held' \in 1 .. lastPair'
        /\ lastPair' \in Pairs
    BY <2>1, <2>2 DEF TypeOK
  <2>5. ASSUME NEW s \in Requests
        PROVE  /\ pc'[s] \notin {"idle", "done"} => token'[s] # 0
               /\ pc'[s] \in {"next", "nextAccess", "revokeAccess", "revokeRefresh"}
                     => copy'[s].next # 0
               /\ \/ pc'[s] \in {"consume", "lookupAccess", "revoke"}
                  \/ kind'[s] = "refresh" /\ pc'[s] = "save"
                  => issued'[s] # 0
               /\ pc'[s] = "mark" => kind'[s] # "refresh"
    <3>1. CASE s = r
      BY <2>1, <2>2, <3>1 DEF TypeOK
    <3>2. CASE s # r
      BY <2>2, <3>2 DEF TypeOK, At
    <3> QED
      BY <3>1, <3>2
  <2> QED
    BY <2>2, <2>3, <2>4, <2>5 DEF TablesType, TypeOK, PCs, At
<1>10. CASE Consume(r)
  <2> DEFINE i == token[r]
             row == [refreshW[i] EXCEPT !.consumed = TRUE, !.next = issued[r]]
  <2>0. i \in Pairs
    BY <1>10, Indices DEF Consume
  <2>10. row \in RefreshRows
    BY <1>0, <2>0, Indices, RowTypes, Zenon DEF TablesType
  <2>11. UpdateRefresh(r, i, row) /\ UNCHANGED <<accessVars, sessionVars>>
    BY <1>10 DEF Consume
  <2> HIDE DEF row
  <2>1. TablesType'
    BY <1>0, <2>0, <2>10, <2>11, UpdateType DEF TablesType
  <2>2. UNCHANGED <<lastPair, isAdmin, localVars>>
    BY <1>10 DEF Consume
  <2>3. Continue(r, "lookupAccess")
    BY <1>10 DEF Consume
  <2>4. pc[r] \notin {"idle", "done"} /\ issued[r] # 0
    BY <1>10 DEF Consume, At, TypeOK
  <2>5. CASE Continue(r, "lookupAccess")
    BY <2>1, <2>2, <2>4, <2>5, MoveType DEF TablesType, PCs
  <2> QED
    BY <2>3, <2>5
<1>11. CASE LookupAccess(r)
  <2>1. TablesType'
    BY <1>0, <1>11 DEF LookupAccess, TablesType
  <2>2. UNCHANGED <<lastPair, isAdmin, localVars>>
    BY <1>11 DEF LookupAccess
  <2>3. Continue(r, "revoke") \/ Continue(r, "save")
    BY <1>11 DEF LookupAccess
  <2>4. pc[r] \notin {"idle", "done"} /\ issued[r] # 0
    BY <1>11 DEF LookupAccess, At, TypeOK
  <2>5. CASE Continue(r, "revoke")
    BY <2>1, <2>2, <2>4, <2>5, MoveType DEF TablesType, PCs
  <2>6. CASE Continue(r, "save")
    BY <2>1, <2>2, <2>4, <2>6, MoveType DEF TablesType, PCs
  <2> QED
    BY <2>3, <2>5, <2>6
<1>12. CASE RevokeAccess(r)
  <2> DEFINE i == token[r]
             row == [accessW[i] EXCEPT !.revoked = TRUE]
  <2>0. i \in Pairs
    BY <1>12, Indices DEF RevokeAccess
  <2>10. row \in AccessRows
    BY <1>0, <2>0, RowTypes, Zenon DEF TablesType
  <2>11. UpdateAccess(r, i, row) /\ UNCHANGED <<refreshVars, sessionVars>>
    BY <1>12 DEF RevokeAccess
  <2> HIDE DEF row
  <2>1. TablesType'
    BY <1>0, <2>0, <2>10, <2>11, UpdateType DEF TablesType
  <2>2. UNCHANGED <<lastPair, isAdmin, localVars>>
    BY <1>12 DEF RevokeAccess
  <2>3. Continue(r, "save")
    BY <1>12 DEF RevokeAccess
  <2>4. pc[r] \notin {"idle", "done"} /\ issued[r] # 0
    BY <1>12 DEF RevokeAccess, At, TypeOK
  <2>5. CASE Continue(r, "save")
    BY <2>1, <2>2, <2>4, <2>5, MoveType DEF TablesType, PCs
  <2> QED
    BY <2>3, <2>5
<1>13. CASE FindAccessToken(r)
  <2>1. TablesType'
    BY <1>0, <1>13 DEF FindAccessToken, TablesType
  <2>2. AccessSeen(r, token[r]) \in AccessRows
    BY <1>13, Indices DEF FindAccessToken, At, AccessSeen, TypeOK
  <2>3. accessCopy' \in [Requests -> AccessRows]
    BY <1>13, <2>2 DEF FindAccessToken, TypeOK
  <2>4. \E l \in {"session", "leaked"} : pc' = [pc EXCEPT ![r] = l]
    BY <1>13 DEF FindAccessToken, Continue, Refuse, Goto
  <2>5. held' = held /\ waiting' \in Requests \cup {None}
    BY <1>13 DEF FindAccessToken, Continue, Refuse, Unanswered, clientVars, TypeOK
  <2>6. pc[r] = "find"
    BY <1>13 DEF FindAccessToken, At
  <2> QED
    BY <1>13, <2>1, <2>3, <2>4, <2>5, <2>6 DEF FindAccessToken, TablesType, TypeOK, PCs, At
<1>14. CASE IntrospectSession(r)
  <2>1. TablesType'
    BY <1>0, <1>14 DEF IntrospectSession, TablesType
  <2>2. UNCHANGED <<lastPair, isAdmin, localVars>>
    BY <1>14 DEF IntrospectSession
  <2>3. Refuse(r) \/ Continue(r, "save") \/ Continue(r, "mark")
    BY <1>14 DEF IntrospectSession
  <2>4. pc[r] \notin {"idle", "done"} /\ kind[r] # "refresh"
    BY <1>14 DEF IntrospectSession, At, TypeOK
  <2>5. CASE Refuse(r)
    BY <2>1, <2>2, <2>4, <2>5, MoveType DEF TablesType, PCs
  <2>6. CASE Continue(r, "save")
    BY <2>1, <2>2, <2>4, <2>6, MoveType DEF TablesType, PCs
  <2>7. CASE Continue(r, "mark")
    BY <2>1, <2>2, <2>4, <2>7, MoveType DEF TablesType, PCs
  <2> QED
    BY <2>3, <2>5, <2>6, <2>7
<1>15. CASE MarkUsed(r)
  <2> DEFINE i == token[r]
             row == [accessW[i] EXCEPT !.used = TRUE]
  <2>0. i \in Pairs
    BY <1>15, Indices DEF MarkUsed
  <2>10. row \in AccessRows
    BY <1>0, <2>0, RowTypes, Zenon DEF TablesType
  <2>11. UpdateAccess(r, i, row) /\ UNCHANGED <<refreshVars, sessionVars>>
    BY <1>15 DEF MarkUsed
  <2> HIDE DEF row
  <2>1. TablesType'
    BY <1>0, <2>0, <2>10, <2>11, UpdateType DEF TablesType
  <2>2. UNCHANGED <<lastPair, isAdmin, localVars>>
    BY <1>15 DEF MarkUsed
  <2>3. Continue(r, "save")
    BY <1>15 DEF MarkUsed
  <2>4. pc[r] \notin {"idle", "done"} /\ kind[r] # "refresh"
    BY <1>15 DEF MarkUsed, At, TypeOK
  <2>5. CASE Continue(r, "save")
    BY <2>1, <2>2, <2>4, <2>5, MoveType DEF TablesType, PCs
  <2> QED
    BY <2>3, <2>5
<1>16. CASE FindRevokedToken(r)
  <2>1. TablesType'
    BY <1>0, <1>16 DEF FindRevokedToken, TablesType
  <2>2. UNCHANGED <<lastPair, isAdmin, localVars>>
    BY <1>16 DEF FindRevokedToken
  <2>3. Continue(r, "session") \/ Refuse(r)
    BY <1>16 DEF FindRevokedToken
  <2>4. pc[r] \notin {"idle", "done"}
    BY <1>16 DEF FindRevokedToken, At, TypeOK
  <2>5. CASE Continue(r, "session")
    BY <2>1, <2>2, <2>4, <2>5, MoveType DEF TablesType, PCs
  <2>6. CASE Refuse(r)
    BY <2>1, <2>2, <2>4, <2>6, MoveType DEF TablesType, PCs
  <2> QED
    BY <2>3, <2>5, <2>6
<1>17. CASE RevokeSession(r)
  <2>1. TablesType'
    BY <1>0, <1>17 DEF RevokeSession, TablesType
  <2>2. UNCHANGED <<lastPair, isAdmin, localVars>>
    BY <1>17 DEF RevokeSession
  <2>3. Refuse(r) \/ Continue(r, "finish")
    BY <1>17 DEF RevokeSession
  <2>4. pc[r] \notin {"idle", "done"}
    BY <1>17 DEF RevokeSession, At, TypeOK
  <2>5. CASE Refuse(r)
    BY <2>1, <2>2, <2>4, <2>5, MoveType DEF TablesType, PCs
  <2>6. CASE Continue(r, "finish")
    BY <2>1, <2>2, <2>4, <2>6, MoveType DEF TablesType, PCs
  <2> QED
    BY <2>3, <2>5, <2>6
<1>18. CASE FinishSession(r)
  <2>10. UpdateSession(r, TRUE) /\ UNCHANGED <<refreshVars, accessVars>>
    BY <1>18 DEF FinishSession
  <2>11. TRUE \in BOOLEAN
    BY <1>0 DEF TablesType
  <2>1. TablesType'
    BY <1>0, <2>10, <2>11 DEF UpdateSession, TablesType
  <2>2. UNCHANGED <<lastPair, isAdmin, localVars>>
    BY <1>18 DEF FinishSession
  <2>3. Continue(r, "save") \/ Continue(r, "saveRefused")
    BY <1>18 DEF FinishSession
  <2>4. pc[r] \notin {"idle", "done"}
    BY <1>18 DEF FinishSession, At, TypeOK
  <2>5. CASE Continue(r, "save")
    <3>1. kind[r] # "refresh"
      BY <1>18, <2>5 DEF FinishSession, Continue, Refuse, Goto, At, TypeOK, PCs
    <3> QED
      BY <2>1, <2>2, <2>4, <2>5, <3>1, MoveType DEF TablesType, PCs
  <2>6. CASE Continue(r, "saveRefused")
    BY <2>1, <2>2, <2>4, <2>6, MoveType DEF TablesType, PCs
  <2> QED
    BY <2>3, <2>5, <2>6
<1>19. CASE Save(r)
  <2>1. Commit(r) /\ Forget(r) /\ Goto(r, "done") /\ UNCHANGED <<lastPair, isAdmin>>
    BY <1>19 DEF Save
  <2>2. held' \in 1 .. lastPair
    <3>1. held' \in {held, issued[r]} /\ (kind[r] # "refresh" => held' = held)
      BY <1>19 DEF Save
    <3>2. kind[r] = "refresh" => issued[r] \in 1 .. lastPair
      BY <1>19, Indices DEF Save, TypeOK, At
    <3> QED
      BY <3>1, <3>2 DEF TypeOK
  <2>3. waiting' \in Requests \cup {None}
    BY <1>19 DEF Save, Unanswered, TypeOK
  <2> QED
    BY <2>1, <2>2, <2>3, EndType, ForgetType DEF TypeOK, At
<1>20. CASE SaveRefused(r)
  <2>1. Commit(r) /\ Forget(r) /\ Goto(r, "done") /\ UNCHANGED <<lastPair, isAdmin, held>>
    BY <1>20 DEF SaveRefused
  <2>2. waiting' \in Requests \cup {None}
    BY <1>20 DEF SaveRefused, Unanswered, TypeOK
  <2> QED
    BY <2>1, <2>2, EndType, ForgetType DEF TypeOK, At
<1> QED
  BY <1>1, <1>2, <1>3, <1>4, <1>5, <1>6, <1>7, <1>8, <1>9, <1>10, <1>11, <1>12, <1>13, <1>14, <1>15, <1>16, <1>17, <1>18, <1>19, <1>20 DEF Serve, RefreshStep, OtherStep

\* The type invariant is inductive by itself.
LEMMA TypeStep == TypeOK /\ [Next]_vars => TypeOK'
<1> SUFFICES ASSUME TypeOK, [Next]_vars PROVE TypeOK'
  OBVIOUS
<1> USE DEF refreshVars, accessVars, sessionVars
<1>0. TablesType
  BY DEF TypeOK, TablesType
<1>1. ASSUME NEW r \in Requests, Send(r) PROVE TypeOK'
  <2>1. agent' \in [Requests -> BOOLEAN]
    BY <1>1, Zenon DEF Send, TypeOK
  <2>2. held \in 0 .. lastPair /\ held # 0
    BY Indices DEF TypeOK
  <2> QED
    BY <1>1, <2>1, <2>2 DEF Send, Goto, TypeOK, PCs, At
<1>2. ASSUME NEW r \in Requests, Serve(r) PROVE TypeOK'
  BY <1>2, ServeType
<1>3. ASSUME NEW r \in Requests, Drop(r) PROVE TypeOK'
  <2>1. /\ Refuse(r)
        /\ TablesType'
        /\ UNCHANGED <<lastPair, isAdmin, localVars>>
        /\ pc[r] \notin {"idle", "done"}
    BY <1>0, <1>3 DEF Drop, Running, TablesType
  <2> QED
    BY <2>1, MoveType DEF TablesType, PCs
<1>4. ASSUME NEW r \in Requests, DatabaseError(r) PROVE TypeOK'
  <2>1. /\ Rollback(r) /\ Forget(r) /\ Goto(r, "done")
        /\ UNCHANGED <<lastPair, isAdmin, held>>
    BY <1>4 DEF DatabaseError
  <2>2. waiting' \in Requests \cup {None}
    BY <1>4 DEF DatabaseError, Unanswered, TypeOK
  <2> QED
    BY <2>1, <2>2, EndType, ForgetType DEF TypeOK, At
<1>5. ASSUME NEW r \in Requests, Recycle(r) PROVE TypeOK'
  <2>1. /\ Rollback(r) /\ Forget(r) /\ Goto(r, "done")
        /\ UNCHANGED <<lastPair, isAdmin, held, waiting>>
    BY <1>5 DEF Recycle, clientVars
  <2> QED
    BY <2>1, EndType, ForgetType DEF TypeOK, At
<1>6. CASE GiveUp
  BY <1>6 DEF GiveUp, localVars, TypeOK, At
<1>7. ASSUME NEW i \in Pairs, DeleteAccess(i) PROVE TypeOK'
  <2>1. access' \in [Pairs -> AccessRows] /\ accessW' = access'
    BY <1>7, RowTypes DEF DeleteAccess, TypeOK
  <2> QED
    BY <1>7, <2>1 DEF DeleteAccess, localVars, clientVars, TypeOK, At
<1>8. ASSUME NEW i \in Pairs, DeleteRefresh(i) PROVE TypeOK'
  <2>1. ASSUME NEW j \in Pairs PROVE [refresh[j] EXCEPT !.next = 0] \in RefreshRows
    BY RowTypes, Zenon DEF TypeOK
  <2>2. refreshW' = refresh'
    BY <1>8 DEF DeleteRefresh
  <2>3. refresh' \in [Pairs -> RefreshRows]
    BY <1>8, <2>1, RowTypes, Zenon DEF DeleteRefresh, TypeOK
  <2> QED
    BY <1>8, <2>2, <2>3 DEF DeleteRefresh, localVars, clientVars, TypeOK, At
<1>9. CASE Cleanup
  BY <1>7, <1>8, <1>9 DEF Cleanup, CleanupRevokedAccess, CleanupExpiredAccess,
     CleanupRevokedRefresh, CleanupConsumedRefresh
<1>10. CASE Demote
  BY <1>10 DEF Demote, localVars, clientVars, TypeOK, At
<1>11. CASE UNCHANGED vars
  BY <1>11 DEF vars, localVars, clientVars, TypeOK, At
<1> QED
  BY <1>1, <1>2, <1>3, <1>4, <1>5, <1>6, <1>9, <1>10, <1>11 DEF Next

\* The type invariant, for any number of requests and pairs.
THEOREM RotationTypeCorrect == Spec => []TypeOK
<1> QED
  BY TypeInit, TypeStep, PTL DEF Spec

-----------------------------------------------------------------------------
(***************************************************************************)
(* Each kind of statement keeps the tables in order, and keeps every other *)
(* request sound.                                                          *)
(***************************************************************************)
\* A statement that writes nothing.
LEMMA ReadKeeps ==
    ASSUME TypeOK, TablesInv, UNCHANGED <<refreshVars, accessVars, lastPair>>
    PROVE  /\ TablesInv'
           /\ \A s \in Requests, j \in Pairs :
                /\ Sound(s, j) => Sound(s, j)'
                /\ Revoking(s, j) => Revoking(s, j)'
<1> USE DEF refreshVars, accessVars
<1>1. TablesInv'
  BY DEF TablesInv, SyncInv, FreshInv, WriteInv, AccessDiesWithRefresh, IsValid
<1>2. \A s \in Requests, j \in Pairs :
          /\ Sound(s, j) => Sound(s, j)'
          /\ Revoking(s, j) => Revoking(s, j)'
  BY DEF Sound, Revoking, AccessSeen, IsValid
<1> QED
  BY <1>1, <1>2

\* An UPDATE of an access token that takes nothing back.
LEMMA AccessKeeps ==
    ASSUME TypeOK, TablesInv, NEW r \in Requests, NEW i \in Pairs,
           NEW row \in AccessRows, UpdateAccess(r, i, row),
           row.here = accessW[i].here, accessW[i].revoked => row.revoked,
           UNCHANGED <<refreshVars, lastPair>>, i \in 1 .. lastPair
    PROVE  /\ TablesInv'
           /\ \A s \in Requests, j \in Pairs :
                /\ Sound(s, j) => Sound(s, j)'
                /\ Revoking(s, j) => Revoking(s, j)'
           /\ row.revoked => Revoking(r, i)' /\ Sound(r, i)'
           /\ \A s \in Requests \ {r}, j \in Pairs :
                /\ refreshBy'[j] = s => refreshBy[j] = s
                /\ accessBy'[j] = s => accessBy[j] = s
<1> USE DEF refreshVars
<1>1. /\ accessBy[i] \in {None, r}
      /\ access' = access
      /\ accessW' = [accessW EXCEPT ![i] = row]
      /\ accessBy' = [accessBy EXCEPT ![i] = r]
  BY DEF UpdateAccess
<1>2. accessW'[i] = row /\ accessBy'[i] = r
  BY <1>1 DEF TypeOK
<1>3. \A j \in Pairs \ {i} : accessW'[j] = accessW[j] /\ accessBy'[j] = accessBy[j]
  BY <1>1 DEF TypeOK
<1>4. r # None /\ i \in Nat /\ lastPair \in Nat /\ ~(i > lastPair)
  BY RotationAssumption, Indices DEF Pairs
<1>5. AccessSeen(r, i) = accessW[i]
  BY <1>1 DEF TablesInv, SyncInv, AccessSeen
<1>6. SyncInv' /\ FreshInv'
  BY <1>1, <1>2, <1>3, <1>4 DEF TablesInv, SyncInv, FreshInv
<1>7. WriteInv'
  <2> SUFFICES ASSUME NEW j \in Pairs
               PROVE  /\ access[j].here => /\ accessW'[j].here
                                           /\ access[j].revoked => accessW'[j].revoked
                      /\ accessW'[j].here /\ ~access[j].here =>
                            /\ accessBy'[j] \in Requests
                            /\ refreshBy[j] = accessBy'[j]
                            /\ ~refresh[j].here
    BY <1>1 DEF WriteInv
  <2>1. CASE j = i
    BY <1>1, <1>2, <1>4, <2>1 DEF TablesInv, WriteInv, SyncInv
  <2>2. CASE j # i
    BY <1>3, <2>2 DEF TablesInv, WriteInv
  <2> QED
    BY <2>1, <2>2
<1>8. AccessDiesWithRefresh'
  BY <1>1 DEF TablesInv, AccessDiesWithRefresh, IsValid
<1>9. ASSUME NEW s \in Requests, NEW j \in Pairs
      PROVE  /\ Sound(s, j) => Sound(s, j)'
             /\ Revoking(s, j) => Revoking(s, j)'
  <2>1. CASE j # i
    BY <1>1, <1>3, <2>1 DEF Sound, Revoking, AccessSeen, IsValid
  <2>2. CASE j = i /\ s = r
    BY <1>1, <1>2, <1>5, <2>2 DEF Sound, Revoking, AccessSeen, IsValid
  <2>3. CASE j = i /\ s # r
    BY <1>1, <1>2, <1>4, <2>3, RotationAssumption DEF Sound, Revoking, AccessSeen, IsValid
  <2> QED
    BY <2>1, <2>2, <2>3
<1>10. row.revoked => Revoking(r, i)' /\ Sound(r, i)'
  BY <1>2 DEF Revoking, Sound, AccessSeen
<1>11. \A s \in Requests \ {r}, j \in Pairs :
           /\ refreshBy'[j] = s => refreshBy[j] = s
           /\ accessBy'[j] = s => accessBy[j] = s
  BY <1>1, <1>2, <1>3 DEF refreshVars
<1> QED
  BY <1>6, <1>7, <1>8, <1>9, <1>10, <1>11 DEF TablesInv

\* An UPDATE of a refresh token: it may only unsettle the writer, for that token.
LEMMA RefreshKeeps ==
    ASSUME TypeOK, TablesInv, NEW r \in Requests, NEW i \in Pairs,
           NEW row \in RefreshRows, UpdateRefresh(r, i, row),
           UNCHANGED <<accessVars, lastPair>>, i \in 1 .. lastPair
    PROVE  /\ TablesInv'
           /\ \A s \in Requests, j \in Pairs :
                /\ Sound(s, j) => (s = r /\ j = i) \/ Sound(s, j)'
                /\ Revoking(s, j) => Revoking(s, j)'
           /\ Revoking(r, i) => Sound(r, i)'
           /\ \A s \in Requests \ {r}, j \in Pairs :
                /\ refreshBy'[j] = s => refreshBy[j] = s
                /\ accessBy'[j] = s => accessBy[j] = s
<1> USE DEF accessVars
<1>1. /\ refreshBy[i] \in {None, r}
      /\ refresh' = refresh
      /\ refreshW' = [refreshW EXCEPT ![i] = row]
      /\ refreshBy' = [refreshBy EXCEPT ![i] = r]
  BY DEF UpdateRefresh
<1>2. refreshW'[i] = row /\ refreshBy'[i] = r
  BY <1>1 DEF TypeOK
<1>3. \A j \in Pairs \ {i} : refreshW'[j] = refreshW[j] /\ refreshBy'[j] = refreshBy[j]
  BY <1>1 DEF TypeOK
<1>4. r # None /\ i \in Nat /\ lastPair \in Nat /\ ~(i > lastPair)
  BY RotationAssumption, Indices DEF Pairs
<1>5. SyncInv' /\ FreshInv'
  BY <1>1, <1>2, <1>3, <1>4 DEF TablesInv, SyncInv, FreshInv
<1>6. WriteInv'
  <2> SUFFICES ASSUME NEW j \in Pairs
               PROVE  accessW[j].here /\ ~access[j].here =>
                         /\ accessBy[j] \in Requests
                         /\ refreshBy'[j] = accessBy[j]
                         /\ ~refresh[j].here
    BY <1>1 DEF WriteInv, TablesInv
  <2>1. CASE j = i
    BY <1>1, <1>2, <1>4, <2>1, RotationAssumption DEF TablesInv, WriteInv
  <2>2. CASE j # i
    BY <1>3, <2>2 DEF TablesInv, WriteInv
  <2> QED
    BY <2>1, <2>2
<1>7. AccessDiesWithRefresh'
  BY <1>1 DEF TablesInv, AccessDiesWithRefresh, IsValid
<1>8. ASSUME NEW s \in Requests, NEW j \in Pairs
      PROVE  /\ Sound(s, j) => (s = r /\ j = i) \/ Sound(s, j)'
             /\ Revoking(s, j) => Revoking(s, j)'
  <2>1. CASE j # i
    BY <1>1, <1>3, <2>1 DEF Sound, Revoking, AccessSeen, IsValid
  <2>2. CASE j = i /\ s = r
    BY <2>2 DEF Revoking
  <2>3. CASE j = i /\ s # r
    BY <1>2, <2>3 DEF Sound, Revoking
  <2> QED
    BY <2>1, <2>2, <2>3
<1>9. Revoking(r, i) => Sound(r, i)'
  BY DEF Revoking, Sound, AccessSeen
<1>10. \A s \in Requests \ {r}, j \in Pairs :
           /\ refreshBy'[j] = s => refreshBy[j] = s
           /\ accessBy'[j] = s => accessBy[j] = s
  BY <1>1, <1>2, <1>3 DEF accessVars
<1> QED
  BY <1>5, <1>6, <1>7, <1>8, <1>9, <1>10 DEF TablesInv

\* The inserts of generate_token_pair.
LEMMA GenerateKeeps ==
    ASSUME TypeOK, TablesInv, NEW r \in Requests, GenerateTokenPair(r)
    PROVE  /\ TablesInv'
           /\ \A s \in Requests, j \in Pairs :
                /\ Sound(s, j) => Sound(s, j)'
                /\ Revoking(s, j) => Revoking(s, j)'
           /\ \A s \in Requests \ {r}, j \in Pairs :
                /\ refreshBy'[j] = s => refreshBy[j] = s
                /\ accessBy'[j] = s => accessBy[j] = s
<1> DEFINE n == lastPair + 1
<1>1. /\ n \in Pairs /\ n > lastPair /\ n \in Nat /\ lastPair \in Nat
      /\ lastPair' = n
  BY Indices, RotationAssumption DEF GenerateTokenPair, Pairs
<1>2. /\ UpdateAccess(r, n, NewAccess)
      /\ UpdateRefresh(r, n, NewRefresh)
  BY DEF GenerateTokenPair
<1> HIDE DEF n
<1>3. /\ access' = access /\ refresh' = refresh
      /\ accessW'[n] = NewAccess /\ accessBy'[n] = r
      /\ refreshW'[n] = NewRefresh /\ refreshBy'[n] = r
  BY <1>1, <1>2 DEF UpdateAccess, UpdateRefresh, TypeOK
<1>4. \A j \in Pairs \ {n} :
        /\ accessW'[j] = accessW[j] /\ accessBy'[j] = accessBy[j]
        /\ refreshW'[j] = refreshW[j] /\ refreshBy'[j] = refreshBy[j]
  BY <1>1, <1>2 DEF UpdateAccess, UpdateRefresh, TypeOK
<1>5. /\ ~refresh[n].here /\ ~access[n].here
      /\ refreshBy[n] = None /\ accessBy[n] = None
  BY <1>1 DEF TablesInv, FreshInv
<1>6. r # None
  BY RotationAssumption
<1>7. SyncInv'
  BY <1>3, <1>4, <1>6 DEF TablesInv, SyncInv
<1>8. FreshInv'
  <2> SUFFICES ASSUME NEW j \in Pairs, j > n
               PROVE  /\ ~refresh[j].here /\ ~access[j].here
                      /\ refreshBy'[j] = None /\ accessBy'[j] = None
    BY <1>1, <1>3 DEF FreshInv
  <2>1. j # n /\ j > lastPair
    BY <1>1 DEF n, Pairs
  <2> QED
    BY <1>4, <2>1 DEF TablesInv, FreshInv
<1>9. WriteInv'
  BY <1>3, <1>4, <1>5 DEF TablesInv, WriteInv
<1>10. AccessDiesWithRefresh'
  BY <1>3 DEF TablesInv, AccessDiesWithRefresh, IsValid
<1>11. ASSUME NEW s \in Requests, NEW j \in Pairs
       PROVE  /\ Sound(s, j) => Sound(s, j)'
              /\ Revoking(s, j) => Revoking(s, j)'
  <2>1. CASE j # n
    BY <1>3, <1>4, <2>1 DEF Sound, Revoking, AccessSeen, IsValid
  <2>2. CASE j = n
    <3>1. IsValid(NewRefresh)
      BY DEF IsValid, NewRefresh, NoRefresh
    <3>2. ~Revoking(s, j)
      BY <1>5, <2>2, RotationAssumption DEF Revoking
    <3>3. IsValid(refreshW'[j])
      BY <1>3, <2>2, <3>1
    <3>4. Sound(s, j)'
      BY <3>3 DEF Sound, IsValid
    <3> QED
      BY <3>2, <3>4
  <2> QED
    BY <2>1, <2>2
<1>12. \A s \in Requests \ {r}, j \in Pairs :
           /\ refreshBy'[j] = s => refreshBy[j] = s
           /\ accessBy'[j] = s => accessBy[j] = s
  BY <1>3, <1>4
<1> QED
  BY <1>7, <1>8, <1>9, <1>10, <1>11, <1>12 DEF TablesInv

\* COMMIT of a request that is sound for every pair.
LEMMA CommitKeeps ==
    ASSUME TypeOK, TablesInv, NEW r \in Requests, Commit(r), UNCHANGED lastPair,
           \A i \in Pairs : Sound(r, i)
    PROVE  /\ TablesInv'
           /\ \A s \in Requests \ {r}, j \in Pairs :
                /\ Sound(s, j) => Sound(s, j)'
                /\ Revoking(s, j) => Revoking(s, j)'
           /\ \A j \in Pairs : refreshBy'[j] # r /\ accessBy'[j] # r
           /\ \A s \in Requests \ {r}, j \in Pairs :
                /\ refreshBy'[j] = s => refreshBy[j] = s
                /\ accessBy'[j] = s => accessBy[j] = s
<1>0. r # None
  BY RotationAssumption
<1>1. \A j \in Pairs :
        /\ refresh'[j] = RefreshSeen(r, j)
        /\ access'[j] = AccessSeen(r, j)
        /\ refreshBy'[j] = IF refreshBy[j] = r THEN None ELSE refreshBy[j]
        /\ accessBy'[j] = IF accessBy[j] = r THEN None ELSE accessBy[j]
        /\ refreshW'[j] = refreshW[j]
        /\ accessW'[j] = accessW[j]
  BY DEF Commit
<1>2. SyncInv'
  BY <1>0, <1>1 DEF TablesInv, SyncInv, RefreshSeen, AccessSeen
<1>3. FreshInv'
  BY <1>0, <1>1 DEF TablesInv, FreshInv, RefreshSeen, AccessSeen
<1>4. WriteInv'
  <2> SUFFICES ASSUME NEW j \in Pairs
               PROVE  /\ access'[j].here => /\ accessW'[j].here
                                            /\ access'[j].revoked => accessW'[j].revoked
                      /\ accessW'[j].here /\ ~access'[j].here =>
                            /\ accessBy'[j] \in Requests
                            /\ refreshBy'[j] = accessBy'[j]
                            /\ ~refresh'[j].here
    BY DEF WriteInv
  <2>1. CASE accessBy[j] = r
    BY <1>1, <2>1 DEF AccessSeen
  <2>2. CASE accessBy[j] # r
    BY <1>0, <1>1, <2>2 DEF TablesInv, WriteInv, AccessSeen, RefreshSeen
  <2> QED
    BY <2>1, <2>2
<1>5. AccessDiesWithRefresh'
  <2> SUFFICES ASSUME NEW j \in Pairs, refresh'[j].here, ~IsValid(refresh'[j]),
                      access'[j].here
               PROVE  access'[j].revoked
    BY DEF AccessDiesWithRefresh, IsValid
  <2>1. CASE refreshBy[j] = r
    BY <1>1, <2>1 DEF Sound, RefreshSeen, IsValid
  <2>2. CASE refreshBy[j] # r /\ accessBy[j] # r
    BY <1>1, <2>2 DEF TablesInv, AccessDiesWithRefresh, RefreshSeen, AccessSeen, IsValid
  <2>3. CASE refreshBy[j] # r /\ accessBy[j] = r
    <3>1. refresh[j].here /\ ~IsValid(refresh[j]) /\ accessW[j].here
          /\ access'[j] = accessW[j]
      BY <1>1, <2>3 DEF RefreshSeen, AccessSeen, IsValid
    <3>2. access[j].here
      BY <2>3, <3>1 DEF TablesInv, WriteInv
    <3> QED
      BY <3>1, <3>2 DEF TablesInv, WriteInv, AccessDiesWithRefresh
  <2> QED
    BY <2>1, <2>2, <2>3
<1>6. ASSUME NEW s \in Requests \ {r}, NEW j \in Pairs
      PROVE  /\ Sound(s, j) => Sound(s, j)'
             /\ Revoking(s, j) => Revoking(s, j)'
  <2>0. s # None
    BY RotationAssumption
  <2>1. Revoking(s, j) => Revoking(s, j)'
    BY <1>1 DEF Revoking
  <2>2. CASE accessBy[j] = s
    <3>1. accessBy'[j] = s /\ accessW'[j] = accessW[j] /\ refreshW'[j] = refreshW[j]
      BY <1>1, <2>2
    <3> QED
      BY <1>1, <2>0, <2>1, <2>2, <3>1 DEF Sound, AccessSeen, IsValid
  <2>3. CASE accessBy[j] # s /\ accessBy[j] # r
    <3>1. /\ accessBy'[j] # s /\ access'[j] = access[j] /\ refreshW'[j] = refreshW[j]
          /\ refreshBy'[j] = s => refreshBy[j] = s
      BY <1>1, <2>0, <2>3 DEF AccessSeen
    <3> QED
      BY <2>1, <2>3, <3>1 DEF Sound, AccessSeen, IsValid
  <2>4. CASE accessBy[j] = r
    <3>1. /\ accessBy'[j] # s /\ access'[j] = accessW[j] /\ refreshW'[j] = refreshW[j]
          /\ refreshBy'[j] = s => refreshBy[j] = s
      BY <1>1, <2>0, <2>4 DEF AccessSeen
    <3>2. refreshBy[j] = s /\ accessW[j].here => access[j].here
      BY <2>4 DEF TablesInv, WriteInv
    <3>3. access[j].here /\ access[j].revoked => accessW[j].revoked
      BY DEF TablesInv, WriteInv
    <3> QED
      BY <2>1, <2>4, <3>1, <3>2, <3>3 DEF Sound, AccessSeen, IsValid
  <2> QED
    BY <2>2, <2>3, <2>4
<1>7. \A j \in Pairs : refreshBy'[j] # r /\ accessBy'[j] # r
  BY <1>0, <1>1
<1>8. \A s \in Requests \ {r}, j \in Pairs :
           /\ refreshBy'[j] = s => refreshBy[j] = s
           /\ accessBy'[j] = s => accessBy[j] = s
  BY <1>1, RotationAssumption
<1> QED
  BY <1>2, <1>3, <1>4, <1>5, <1>6, <1>7, <1>8 DEF TablesInv

\* ROLLBACK, by an error or by the pool's hook.
LEMMA RollbackKeeps ==
    ASSUME TypeOK, TablesInv, NEW r \in Requests, Rollback(r), UNCHANGED lastPair
    PROVE  /\ TablesInv'
           /\ \A s \in Requests \ {r}, j \in Pairs :
                /\ Sound(s, j) => Sound(s, j)'
                /\ Revoking(s, j) => Revoking(s, j)'
           /\ \A j \in Pairs : refreshBy'[j] # r /\ accessBy'[j] # r
           /\ \A s \in Requests \ {r}, j \in Pairs :
                /\ refreshBy'[j] = s => refreshBy[j] = s
                /\ accessBy'[j] = s => accessBy[j] = s
<1>0. r # None
  BY RotationAssumption
<1>1. /\ refresh' = refresh /\ access' = access
      /\ \A j \in Pairs :
           /\ refreshW'[j] = IF refreshBy[j] = r THEN refresh[j] ELSE refreshW[j]
           /\ accessW'[j] = IF accessBy[j] = r THEN access[j] ELSE accessW[j]
           /\ refreshBy'[j] = IF refreshBy[j] = r THEN None ELSE refreshBy[j]
           /\ accessBy'[j] = IF accessBy[j] = r THEN None ELSE accessBy[j]
  BY DEF Rollback
<1>2. SyncInv' /\ FreshInv'
  BY <1>0, <1>1 DEF TablesInv, SyncInv, FreshInv
<1>3. WriteInv'
  BY <1>0, <1>1 DEF TablesInv, WriteInv
<1>4. AccessDiesWithRefresh'
  BY <1>1 DEF TablesInv, AccessDiesWithRefresh, IsValid
<1>5. ASSUME NEW s \in Requests \ {r}, NEW j \in Pairs
      PROVE  /\ Sound(s, j) => Sound(s, j)'
             /\ Revoking(s, j) => Revoking(s, j)'
  <2>0. s # None
    BY RotationAssumption
  <2>1. CASE accessBy[j] = s
    BY <1>1, <2>0, <2>1 DEF Sound, Revoking, AccessSeen, IsValid
  <2>2. CASE accessBy[j] # s
    <3>1. /\ accessBy'[j] # s
          /\ refreshBy'[j] = s => refreshBy[j] = s /\ refreshW'[j] = refreshW[j]
      BY <1>1, <2>0, <2>2
    <3> QED
      BY <1>1, <2>2, <3>1 DEF Sound, Revoking, AccessSeen, IsValid
  <2> QED
    BY <2>1, <2>2
<1>6. \A j \in Pairs : refreshBy'[j] # r /\ accessBy'[j] # r
  BY <1>0, <1>1
<1>7. \A s \in Requests \ {r}, j \in Pairs :
           /\ refreshBy'[j] = s => refreshBy[j] = s
           /\ accessBy'[j] = s => accessBy[j] = s
  BY <1>1, RotationAssumption
<1> QED
  BY <1>2, <1>3, <1>4, <1>5, <1>6, <1>7 DEF TablesInv

-----------------------------------------------------------------------------
(***************************************************************************)
(* Every step preserves the invariant.                                     *)
(***************************************************************************)
\* A step of r that keeps the tables in order and every other request sound
\* preserves the invariant if it leaves r sound.
LEMMA Reassemble ==
    ASSUME TypeOK, TypeOK', RotationInv, NEW r \in Requests, TablesInv',
           \A s \in Requests \ {r} :
              pc'[s] = pc[s] /\ token'[s] = token[s] /\ copy'[s] = copy[s],
           \A s \in Requests \ {r}, j \in Pairs :
              /\ Sound(s, j) => Sound(s, j)'
              /\ Revoking(s, j) => Revoking(s, j)'
              /\ refreshBy'[j] = s => refreshBy[j] = s
              /\ accessBy'[j] = s => accessBy[j] = s,
           pc'[r] \in {"idle", "done"} =>
              \A j \in Pairs : refreshBy'[j] # r /\ accessBy'[j] # r,
           pc'[r] \in {"nextAccess", "revokeAccess", "revokeRefresh"} =>
              copy'[r].next \in 1 .. lastPair',
           lastPair <= lastPair',
           pc'[r] \notin {"idle", "leaked", "done"} => SoundFor(r)'
    PROVE  RotationInv'
<1>1. OwnInv'
  <2> SUFFICES ASSUME NEW s \in Requests, pc'[s] \in {"idle", "done"}, NEW j \in Pairs
               PROVE  refreshBy'[j] # s /\ accessBy'[j] # s
    BY DEF OwnInv
  <2>1. CASE s = r
    BY <2>1
  <2>2. CASE s # r
    BY <2>2 DEF RotationInv, OwnInv
  <2> QED
    BY <2>1, <2>2
<1>2. NextInv'
  <2> SUFFICES ASSUME NEW s \in Requests,
                      pc'[s] \in {"nextAccess", "revokeAccess", "revokeRefresh"}
               PROVE  copy'[s].next \in 1 .. lastPair'
    BY DEF NextInv
  <2>1. CASE s = r
    BY <2>1
  <2>2. CASE s # r
    <3>1. copy'[s].next \in 1 .. lastPair
      BY <2>2 DEF RotationInv, NextInv
    <3>2. lastPair \in Nat /\ lastPair' \in Nat
      BY RotationAssumption DEF TypeOK, Pairs
    <3> QED
      BY <3>1, <3>2
  <2> QED
    BY <2>1, <2>2
<1>3. SoundInv'
  <2> SUFFICES ASSUME NEW s \in Requests, pc'[s] \notin {"idle", "leaked", "done"}
               PROVE  SoundFor(s)'
    BY DEF SoundInv, Running
  <2>1. CASE s = r
    BY <2>1
  <2>2. CASE s # r
    <3>1. SoundFor(s) /\ pc'[s] = pc[s] /\ token'[s] = token[s] /\ copy'[s] = copy[s]
      BY <2>2 DEF RotationInv, SoundInv, Running
    <3>2. pc[s] = "revokeRefresh" => copy[s].next \in Pairs
      BY Indices
    <3>3. ASSUME NEW i \in Pairs
          PROVE  (i = token'[s] /\ pc'[s] \in {"lookupAccess", "revoke"}) \/ Sound(s, i)'
      BY <2>2, <3>1 DEF SoundFor
    <3>4. pc'[s] = "revokeRefresh" => Revoking(s, copy[s].next)'
      <4>1. ASSUME NEW j \in Pairs, j = copy[s].next, Revoking(s, j)
            PROVE  accessBy'[j] = s /\ accessW'[j].revoked
        BY <2>2, <4>1 DEF Revoking
      <4> QED
        BY <3>1, <3>2, <4>1 DEF SoundFor, Revoking
    <3> QED
      BY <3>3, <3>4 DEF SoundFor, Revoking
  <2> QED
    BY <2>1, <2>2
<1> QED
  BY <1>1, <1>2, <1>3 DEF RotationInv

\* A statement that writes nothing, and moves the request to where it has no more
\* to prove.
LEMMA MoveKeeps ==
    ASSUME TypeOK, TypeOK', RotationInv, NEW r \in Requests, NEW l,
           pc' = [pc EXCEPT ![r] = l], pc[r] \notin {"leaked", "done"},
           l \notin {"idle", "done", "revokeRefresh", "lookupAccess", "revoke"},
           UNCHANGED <<refreshVars, accessVars, lastPair>>,
           \A s \in Requests \ {r} : token'[s] = token[s] /\ copy'[s] = copy[s],
           l \in {"nextAccess", "revokeAccess"} => copy'[r].next \in 1 .. lastPair,
           l = "leaked" \/ pc[r] \notin {"lookupAccess", "revoke"}
    PROVE  RotationInv'
<1>1. pc'[r] = l /\ \A s \in Requests \ {r} : pc'[s] = pc[s]
  BY DEF TypeOK
<1>2. /\ TablesInv'
      /\ \A s \in Requests, j \in Pairs :
           /\ Sound(s, j) => Sound(s, j)'
           /\ Revoking(s, j) => Revoking(s, j)'
  BY ReadKeeps DEF RotationInv
<1>3. lastPair' = lastPair /\ lastPair <= lastPair'
  BY RotationAssumption DEF TypeOK, Pairs
<1>4. l # "leaked" => SoundFor(r)'
  <2> SUFFICES ASSUME l # "leaked" PROVE SoundFor(r)'
    OBVIOUS
  <2>1. ASSUME NEW i \in Pairs PROVE Sound(r, i)
    <3>1. CASE pc[r] = "idle"
      BY <3>1 DEF RotationInv, OwnInv, Sound
    <3>2. CASE pc[r] # "idle"
      BY <3>2 DEF RotationInv, SoundInv, Running, SoundFor
    <3> QED
      BY <3>1, <3>2
  <2>2. ASSUME NEW i \in Pairs PROVE Sound(r, i)'
    BY <1>2, <2>1
  <2> QED
    BY <1>1, <2>2 DEF SoundFor
<1> QED
  BY <1>1, <1>2, <1>3, <1>4, Reassemble DEF refreshVars, accessVars


\* The statements that only read, or write the session.
LEMMA ReadStep ==
    ASSUME TypeOK, TypeOK', RotationInv, NEW r \in Requests,
           \/ FindByToken(r) \/ LookupSession(r) \/ RecordUserAgent(r)
           \/ CheckToken(r) \/ LookupNext(r) \/ LookupNextAccess(r)
           \/ FindAccessToken(r) \/ IntrospectSession(r)
           \/ FindRevokedToken(r) \/ RevokeSession(r) \/ FinishSession(r)
           \/ Send(r) \/ Drop(r)
    PROVE  RotationInv'
<1> USE DEF refreshVars, accessVars, localVars
<1>1. CASE FindByToken(r)
  <2>1. PICK l \in {"session", "leaked"} : pc' = [pc EXCEPT ![r] = l]
    BY <1>1 DEF FindByToken, Continue, Refuse, Goto
  <2>2. /\ pc[r] \notin {"leaked", "done", "lookupAccess", "revoke"}
        /\ UNCHANGED <<refreshVars, accessVars, lastPair>>
        /\ \A s \in Requests \ {r} : token'[s] = token[s] /\ copy'[s] = copy[s]
    BY <1>1 DEF FindByToken, At, UpdateSession, TypeOK
  <2> QED
    BY <2>1, <2>2, MoveKeeps
<1>2. CASE LookupSession(r)
  <2>1. PICK l \in {"agent", "check", "leaked"} : pc' = [pc EXCEPT ![r] = l]
    BY <1>2 DEF LookupSession, Continue, Refuse, Goto
  <2>2. /\ pc[r] \notin {"leaked", "done", "lookupAccess", "revoke"}
        /\ UNCHANGED <<refreshVars, accessVars, lastPair>>
        /\ \A s \in Requests \ {r} : token'[s] = token[s] /\ copy'[s] = copy[s]
    BY <1>2 DEF LookupSession, At, UpdateSession, TypeOK
  <2> QED
    BY <2>1, <2>2, MoveKeeps
<1>3. CASE RecordUserAgent(r)
  <2>1. PICK l \in {"check", "leaked"} : pc' = [pc EXCEPT ![r] = l]
    BY <1>3 DEF RecordUserAgent, Continue, Refuse, Goto
  <2>2. /\ pc[r] \notin {"leaked", "done", "lookupAccess", "revoke"}
        /\ UNCHANGED <<refreshVars, accessVars, lastPair>>
        /\ \A s \in Requests \ {r} : token'[s] = token[s] /\ copy'[s] = copy[s]
    BY <1>3 DEF RecordUserAgent, At, UpdateSession, TypeOK
  <2> QED
    BY <2>1, <2>2, MoveKeeps
<1>4. CASE CheckToken(r)
  <2>1. PICK l \in {"finish", "generate", "next", "leaked"} : pc' = [pc EXCEPT ![r] = l]
    BY <1>4 DEF CheckToken, Continue, Refuse, Goto
  <2>2. /\ pc[r] \notin {"leaked", "done", "lookupAccess", "revoke"}
        /\ UNCHANGED <<refreshVars, accessVars, lastPair>>
        /\ \A s \in Requests \ {r} : token'[s] = token[s] /\ copy'[s] = copy[s]
    BY <1>4 DEF CheckToken, At, UpdateSession, TypeOK
  <2> QED
    BY <2>1, <2>2, MoveKeeps
<1>5. CASE LookupNext(r)
  <2>1. PICK l \in {"nextAccess", "leaked"} : pc' = [pc EXCEPT ![r] = l]
    BY <1>5 DEF LookupNext, Continue, Refuse, Goto
  <2>2. /\ pc[r] \notin {"leaked", "done", "lookupAccess", "revoke"}
        /\ UNCHANGED <<refreshVars, accessVars, lastPair>>
        /\ \A s \in Requests \ {r} : token'[s] = token[s] /\ copy'[s] = copy[s]
    BY <1>5 DEF LookupNext, At, UpdateSession, TypeOK
  <2>3. l = "nextAccess" => copy'[r].next \in 1 .. lastPair
    <3> SUFFICES ASSUME l = "nextAccess" PROVE copy'[r].next \in 1 .. lastPair
      OBVIOUS
    <3>1. copy[r].next \in Pairs /\ copy' = copy /\ pc[r] = "next"
      BY <1>5, Indices DEF LookupNext
    <3>2. pc'[r] = "nextAccess"
      BY <2>1 DEF TypeOK
    <3>3. RefreshSeen(r, copy[r].next).here
      BY <1>5, <3>2 DEF LookupNext, Refuse, Goto, TypeOK
    <3>4. ~(copy[r].next > lastPair)
      BY <3>1, <3>3, RotationAssumption DEF RefreshSeen, RotationInv, TablesInv, FreshInv
    <3> QED
      BY <3>1, <3>4, Indices DEF Pairs
  <2> QED
    BY <2>1, <2>2, <2>3, MoveKeeps
<1>6. CASE LookupNextAccess(r)
  <2>1. PICK l \in {"revokeAccess", "leaked"} : pc' = [pc EXCEPT ![r] = l]
    BY <1>6 DEF LookupNextAccess, Continue, Refuse, Goto
  <2>2. /\ pc[r] \notin {"leaked", "done", "lookupAccess", "revoke"}
        /\ UNCHANGED <<refreshVars, accessVars, lastPair>>
        /\ \A s \in Requests \ {r} : token'[s] = token[s] /\ copy'[s] = copy[s]
    BY <1>6 DEF LookupNextAccess, At, UpdateSession, TypeOK
  <2>3. copy'[r].next \in 1 .. lastPair
    BY <1>6 DEF LookupNextAccess, RotationInv, NextInv
  <2> QED
    BY <2>1, <2>2, <2>3, MoveKeeps
<1>7. CASE FindAccessToken(r)
  <2>1. PICK l \in {"session", "leaked"} : pc' = [pc EXCEPT ![r] = l]
    BY <1>7 DEF FindAccessToken, Continue, Refuse, Goto
  <2>2. /\ pc[r] \notin {"leaked", "done", "lookupAccess", "revoke"}
        /\ UNCHANGED <<refreshVars, accessVars, lastPair>>
        /\ \A s \in Requests \ {r} : token'[s] = token[s] /\ copy'[s] = copy[s]
    BY <1>7 DEF FindAccessToken, At, UpdateSession, TypeOK
  <2> QED
    BY <2>1, <2>2, MoveKeeps
<1>8. CASE IntrospectSession(r)
  <2>1. PICK l \in {"save", "mark", "leaked"} : pc' = [pc EXCEPT ![r] = l]
    BY <1>8 DEF IntrospectSession, Continue, Refuse, Goto
  <2>2. /\ pc[r] \notin {"leaked", "done", "lookupAccess", "revoke"}
        /\ UNCHANGED <<refreshVars, accessVars, lastPair>>
        /\ \A s \in Requests \ {r} : token'[s] = token[s] /\ copy'[s] = copy[s]
    BY <1>8 DEF IntrospectSession, At, UpdateSession, TypeOK
  <2> QED
    BY <2>1, <2>2, MoveKeeps
<1>9. CASE FindRevokedToken(r)
  <2>1. PICK l \in {"session", "leaked"} : pc' = [pc EXCEPT ![r] = l]
    BY <1>9 DEF FindRevokedToken, Continue, Refuse, Goto
  <2>2. /\ pc[r] \notin {"leaked", "done", "lookupAccess", "revoke"}
        /\ UNCHANGED <<refreshVars, accessVars, lastPair>>
        /\ \A s \in Requests \ {r} : token'[s] = token[s] /\ copy'[s] = copy[s]
    BY <1>9 DEF FindRevokedToken, At, UpdateSession, TypeOK
  <2> QED
    BY <2>1, <2>2, MoveKeeps
<1>10. CASE RevokeSession(r)
  <2>1. PICK l \in {"finish", "leaked"} : pc' = [pc EXCEPT ![r] = l]
    BY <1>10 DEF RevokeSession, Continue, Refuse, Goto
  <2>2. /\ pc[r] \notin {"leaked", "done", "lookupAccess", "revoke"}
        /\ UNCHANGED <<refreshVars, accessVars, lastPair>>
        /\ \A s \in Requests \ {r} : token'[s] = token[s] /\ copy'[s] = copy[s]
    BY <1>10 DEF RevokeSession, At, UpdateSession, TypeOK
  <2> QED
    BY <2>1, <2>2, MoveKeeps
<1>11. CASE FinishSession(r)
  <2>1. PICK l \in {"save", "saveRefused"} : pc' = [pc EXCEPT ![r] = l]
    BY <1>11 DEF FinishSession, Continue, Refuse, Goto
  <2>2. /\ pc[r] \notin {"leaked", "done", "lookupAccess", "revoke"}
        /\ UNCHANGED <<refreshVars, accessVars, lastPair>>
        /\ \A s \in Requests \ {r} : token'[s] = token[s] /\ copy'[s] = copy[s]
    BY <1>11 DEF FinishSession, At, UpdateSession, TypeOK
  <2> QED
    BY <2>1, <2>2, MoveKeeps
<1>12. CASE Send(r)
  <2>1. PICK l \in {"find"} : pc' = [pc EXCEPT ![r] = l]
    BY <1>12 DEF Send, Continue, Refuse, Goto
  <2>2. /\ pc[r] \notin {"leaked", "done", "lookupAccess", "revoke"}
        /\ UNCHANGED <<refreshVars, accessVars, lastPair>>
        /\ \A s \in Requests \ {r} : token'[s] = token[s] /\ copy'[s] = copy[s]
    BY <1>12 DEF Send, At, UpdateSession, TypeOK
  <2> QED
    BY <2>1, <2>2, MoveKeeps
<1>13. CASE Drop(r)
  <2>1. /\ pc' = [pc EXCEPT ![r] = "leaked"]
        /\ pc[r] \notin {"leaked", "done"}
        /\ UNCHANGED <<refreshVars, accessVars, lastPair>>
        /\ \A s \in Requests \ {r} : token'[s] = token[s] /\ copy'[s] = copy[s]
    BY <1>13 DEF Drop, Running, Refuse, Goto
  <2> QED
    BY <2>1, MoveKeeps
<1> QED
  BY <1>1, <1>2, <1>3, <1>4, <1>5, <1>6, <1>7, <1>8, <1>9, <1>10, <1>11, <1>12, <1>13

\* The access token that came with the consumed refresh token: if the request
\* finds it revoked, or gone, it is sound again.
LEMMA LookupAccessStep ==
    ASSUME TypeOK, TypeOK', RotationInv, NEW r \in Requests, LookupAccess(r)
    PROVE  RotationInv'
<1> USE DEF refreshVars, accessVars, localVars
<1>1. /\ pc[r] = "lookupAccess"
      /\ UNCHANGED <<refreshVars, accessVars, lastPair, token, copy>>
      /\ pc'[r] \in {"revoke", "save"}
      /\ \A s \in Requests \ {r} : pc'[s] = pc[s]
  BY DEF LookupAccess, Continue, Goto, TypeOK
<1>2. /\ TablesInv'
      /\ \A s \in Requests, j \in Pairs :
           /\ Sound(s, j) => Sound(s, j)'
           /\ Revoking(s, j) => Revoking(s, j)'
  BY <1>1, ReadKeeps DEF RotationInv
<1>3. SoundFor(r)'
  <2>1. \A i \in Pairs : i # token[r] => Sound(r, i)
    BY <1>1 DEF RotationInv, SoundInv, Running, SoundFor
  <2>2. pc'[r] = "save" => Sound(r, token[r])
    BY <1>1 DEF LookupAccess, Continue, Goto, TypeOK, Sound
  <2>3. ASSUME NEW i \in Pairs
        PROVE  (i = token'[r] /\ pc'[r] \in {"lookupAccess", "revoke"}) \/ Sound(r, i)'
    BY <1>1, <1>2, <2>1, <2>2
  <2> QED
    BY <1>1, <2>3 DEF SoundFor
<1>4. lastPair <= lastPair'
  BY <1>1, Indices
<1> QED
  BY <1>1, <1>2, <1>3, <1>4, Reassemble

\* The statements that write an access token.
LEMMA AccessStep ==
    ASSUME TypeOK, TypeOK', RotationInv, NEW r \in Requests,
           RevokeNextAccess(r) \/ RevokeAccess(r) \/ MarkUsed(r)
    PROVE  RotationInv'
<1> USE DEF refreshVars, localVars
<1>1. PICK i \in Pairs, row \in AccessRows :
         /\ UpdateAccess(r, i, row)
         /\ row.here = accessW[i].here
         /\ accessW[i].revoked => row.revoked
         /\ i \in 1 .. lastPair
         /\ pc[r] = "revokeAccess" => i = copy[r].next /\ row.revoked
         /\ pc[r] = "revoke" => i = token[r] /\ row.revoked
  <2>1. CASE RevokeNextAccess(r)
    <3> DEFINE i == copy[r].next
               row == [accessW[i] EXCEPT !.revoked = TRUE]
    <3>1. i \in Pairs /\ i \in 1 .. lastPair /\ pc[r] = "revokeAccess"
      BY <2>1, Indices DEF RevokeNextAccess, RotationInv, NextInv
    <3>2. accessW[i] \in AccessRows
      BY <3>1 DEF TypeOK
    <3>3. row \in AccessRows
      BY <3>2, RowTypes, Zenon
    <3>4. row.here = accessW[i].here /\ row.revoked
      BY <3>2 DEF AccessRows
    <3>5. UpdateAccess(r, i, row)
      BY <2>1 DEF RevokeNextAccess
    <3> HIDE DEF row
    <3> QED
      BY <3>1, <3>3, <3>4, <3>5
  <2>2. CASE RevokeAccess(r)
    <3> DEFINE i == token[r]
               row == [accessW[i] EXCEPT !.revoked = TRUE]
    <3>1. i \in Pairs /\ i \in 1 .. lastPair /\ pc[r] = "revoke"
      BY <2>2, Indices DEF RevokeAccess, TypeOK
    <3>2. accessW[i] \in AccessRows
      BY <3>1 DEF TypeOK
    <3>3. row \in AccessRows
      BY <3>2, RowTypes, Zenon
    <3>4. row.here = accessW[i].here /\ row.revoked
      BY <3>2 DEF AccessRows
    <3>5. UpdateAccess(r, i, row)
      BY <2>2 DEF RevokeAccess
    <3> HIDE DEF row
    <3> QED
      BY <3>1, <3>3, <3>4, <3>5
  <2>3. CASE MarkUsed(r)
    <3> DEFINE i == token[r]
               row == [accessW[i] EXCEPT !.used = TRUE]
    <3>1. i \in Pairs /\ i \in 1 .. lastPair /\ pc[r] = "mark"
      BY <2>3, Indices DEF MarkUsed, TypeOK
    <3>2. accessW[i] \in AccessRows
      BY <3>1 DEF TypeOK
    <3>3. row \in AccessRows
      BY <3>2, RowTypes, Zenon
    <3>4. row.here = accessW[i].here /\ row.revoked = accessW[i].revoked
      BY <3>2 DEF AccessRows
    <3>5. UpdateAccess(r, i, row)
      BY <2>3 DEF MarkUsed
    <3> HIDE DEF row
    <3> QED
      BY <3>1, <3>3, <3>4, <3>5
  <2> QED
    BY <2>1, <2>2, <2>3
<1>2. /\ UNCHANGED <<refreshVars, lastPair, token, copy>>
      /\ \A s \in Requests \ {r} : pc'[s] = pc[s]
      /\ pc[r] = "revokeAccess" => pc'[r] \in {"leaked", "revokeRefresh"}
      /\ pc[r] \in {"revoke", "mark"} => pc'[r] = "save"
      /\ pc[r] \in {"revokeAccess", "revoke", "mark"}
  BY DEF RevokeNextAccess, RevokeAccess, MarkUsed, Continue, Refuse, Goto, TypeOK
<1>3. /\ TablesInv'
      /\ \A s \in Requests, j \in Pairs :
           /\ Sound(s, j) => Sound(s, j)'
           /\ Revoking(s, j) => Revoking(s, j)'
      /\ row.revoked => Revoking(r, i)' /\ Sound(r, i)'
      /\ \A s \in Requests \ {r}, j \in Pairs :
           /\ refreshBy'[j] = s => refreshBy[j] = s
           /\ accessBy'[j] = s => accessBy[j] = s
  BY <1>1, <1>2, AccessKeeps DEF RotationInv
<1>4. pc'[r] # "leaked" => SoundFor(r)'
  <2>1. \A j \in Pairs : Sound(r, j) \/ (j = token[r] /\ pc[r] = "revoke")
    BY <1>2 DEF RotationInv, SoundInv, Running, SoundFor
  <2>2. \A j \in Pairs : Sound(r, j)'
    BY <1>1, <1>3, <2>1
  <2>3. pc'[r] = "revokeRefresh" => Revoking(r, copy[r].next)'
    BY <1>1, <1>2, <1>3 DEF Revoking
  <2> QED
    BY <2>2, <2>3 DEF SoundFor
<1>5. pc'[r] = "revokeRefresh" => copy'[r].next \in 1 .. lastPair'
  BY <1>1, <1>2
<1>6. lastPair <= lastPair'
  BY <1>2, Indices
<1> QED
  BY <1>2, <1>3, <1>4, <1>5, <1>6, Reassemble

\* The statements that write a refresh token.
LEMMA RefreshWriteStep ==
    ASSUME TypeOK, TypeOK', RotationInv, NEW r \in Requests,
           RevokeNextRefresh(r) \/ Consume(r)
    PROVE  RotationInv'
<1> USE DEF accessVars, localVars
<1>1. PICK i \in Pairs, row \in RefreshRows :
         /\ UpdateRefresh(r, i, row)
         /\ i \in 1 .. lastPair
         /\ pc[r] = "revokeRefresh" => i = copy[r].next
         /\ pc[r] = "consume" => i = token[r]
  <2>1. CASE RevokeNextRefresh(r)
    <3> DEFINE i == copy[r].next
               row == [refreshW[i] EXCEPT !.revoked = TRUE]
    <3>1. i \in Pairs /\ i \in 1 .. lastPair /\ pc[r] = "revokeRefresh"
      BY <2>1, Indices DEF RevokeNextRefresh, RotationInv, NextInv
    <3>2. refreshW[i] \in RefreshRows
      BY <3>1 DEF TypeOK
    <3>3. row \in RefreshRows
      BY <3>2, RowTypes, Zenon
    <3>4. UpdateRefresh(r, i, row)
      BY <2>1 DEF RevokeNextRefresh
    <3> HIDE DEF row
    <3> QED
      BY <3>1, <3>3, <3>4
  <2>2. CASE Consume(r)
    <3> DEFINE i == token[r]
               row == [refreshW[i] EXCEPT !.consumed = TRUE, !.next = issued[r]]
    <3>1. i \in Pairs /\ i \in 1 .. lastPair /\ pc[r] = "consume"
      BY <2>2, Indices DEF Consume, TypeOK
    <3>2. refreshW[i] \in RefreshRows /\ issued[r] \in 0 .. MaxPairs
      BY <3>1, Indices DEF TypeOK
    <3>3. row \in RefreshRows
      BY <3>2, RowTypes, Zenon
    <3>4. UpdateRefresh(r, i, row)
      BY <2>2 DEF Consume
    <3> HIDE DEF row
    <3> QED
      BY <3>1, <3>3, <3>4
  <2> QED
    BY <2>1, <2>2
<1>2. /\ UNCHANGED <<accessVars, lastPair, token, copy>>
      /\ \A s \in Requests \ {r} : pc'[s] = pc[s]
      /\ pc[r] = "revokeRefresh" => pc'[r] = "generate"
      /\ pc[r] = "consume" => pc'[r] = "lookupAccess"
      /\ pc[r] \in {"revokeRefresh", "consume"}
  BY DEF RevokeNextRefresh, Consume, Continue, Goto, TypeOK
<1>3. /\ TablesInv'
      /\ \A s \in Requests, j \in Pairs :
           /\ Sound(s, j) => (s = r /\ j = i) \/ Sound(s, j)'
           /\ Revoking(s, j) => Revoking(s, j)'
      /\ Revoking(r, i) => Sound(r, i)'
      /\ \A s \in Requests \ {r}, j \in Pairs :
           /\ refreshBy'[j] = s => refreshBy[j] = s
           /\ accessBy'[j] = s => accessBy[j] = s
  BY <1>1, <1>2, RefreshKeeps DEF RotationInv
<1>4. SoundFor(r)'
  <2>1. /\ \A j \in Pairs : Sound(r, j)
        /\ pc[r] = "revokeRefresh" => Revoking(r, copy[r].next)
    BY <1>2 DEF RotationInv, SoundInv, Running, SoundFor
  <2>2. \A j \in Pairs : j # i => Sound(r, j)'
    BY <1>3, <2>1
  <2>3. pc[r] = "revokeRefresh" => Sound(r, i)'
    BY <1>1, <1>3, <2>1
  <2>4. ASSUME NEW j \in Pairs
        PROVE  (j = token'[r] /\ pc'[r] \in {"lookupAccess", "revoke"}) \/ Sound(r, j)'
    BY <1>1, <1>2, <2>2, <2>3
  <2> QED
    BY <1>2, <2>4 DEF SoundFor
<1>5. lastPair <= lastPair'
  BY <1>2, Indices
<1> QED
  BY <1>2, <1>3, <1>4, <1>5, Reassemble

\* The inserts.
LEMMA GenerateStep ==
    ASSUME TypeOK, TypeOK', RotationInv, NEW r \in Requests, GenerateTokenPair(r)
    PROVE  RotationInv'
<1>1. /\ UNCHANGED <<token, copy>>
      /\ \A s \in Requests \ {r} : pc'[s] = pc[s]
      /\ pc[r] = "generate" /\ pc'[r] = "consume"
      /\ lastPair' = lastPair + 1
  BY DEF GenerateTokenPair, Continue, Goto, TypeOK
<1>2. /\ TablesInv'
      /\ \A s \in Requests, j \in Pairs :
           /\ Sound(s, j) => Sound(s, j)'
           /\ Revoking(s, j) => Revoking(s, j)'
      /\ \A s \in Requests \ {r}, j \in Pairs :
           /\ refreshBy'[j] = s => refreshBy[j] = s
           /\ accessBy'[j] = s => accessBy[j] = s
  BY GenerateKeeps DEF RotationInv
<1>3. SoundFor(r)'
  BY <1>1, <1>2 DEF RotationInv, SoundInv, Running, SoundFor
<1>4. lastPair <= lastPair'
  BY <1>1, Indices
<1> QED
  BY <1>1, <1>2, <1>3, <1>4, Reassemble

\* The end of a transaction.
LEMMA EndStep ==
    ASSUME TypeOK, TypeOK', RotationInv, NEW r \in Requests,
           Save(r) \/ SaveRefused(r) \/ DatabaseError(r) \/ Recycle(r)
    PROVE  RotationInv'
<1>1. /\ \A s \in Requests \ {r} :
           pc'[s] = pc[s] /\ token'[s] = token[s] /\ copy'[s] = copy[s]
      /\ pc'[r] = "done" /\ lastPair' = lastPair
  BY DEF Save, SaveRefused, DatabaseError, Recycle, Forget, Goto, TypeOK
<1>2. /\ TablesInv'
      /\ \A s \in Requests \ {r}, j \in Pairs :
           /\ Sound(s, j) => Sound(s, j)'
           /\ Revoking(s, j) => Revoking(s, j)'
           /\ refreshBy'[j] = s => refreshBy[j] = s
           /\ accessBy'[j] = s => accessBy[j] = s
      /\ \A j \in Pairs : refreshBy'[j] # r /\ accessBy'[j] # r
  <2>1. CASE Save(r) \/ SaveRefused(r)
    <3>1. Commit(r) /\ pc[r] \in {"save", "saveRefused"}
      BY <2>1 DEF Save, SaveRefused
    <3>2. \A i \in Pairs : Sound(r, i)
      BY <3>1 DEF RotationInv, SoundInv, Running, SoundFor
    <3> QED
      BY <1>1, <3>1, <3>2, CommitKeeps DEF RotationInv
  <2>2. CASE DatabaseError(r) \/ Recycle(r)
    <3>1. Rollback(r)
      BY <2>2 DEF DatabaseError, Recycle
    <3> QED
      BY <1>1, <3>1, RollbackKeeps DEF RotationInv
  <2> QED
    BY <2>1, <2>2
<1>3. lastPair <= lastPair'
  BY <1>1, Indices
<1> QED
  BY <1>1, <1>2, <1>3, Reassemble

\* The cleanup jobs, which run when no transaction of the session is open.
LEMMA CleanupStep ==
    ASSUME TypeOK, RotationInv, Cleanup
    PROVE  RotationInv'
<1> USE DEF refreshVars, accessVars, localVars
<1>1. ASSUME Quiet
      PROVE  /\ \A i \in Pairs : refreshBy[i] = None /\ accessBy[i] = None
             /\ Running = {}
  BY <1>1 DEF Quiet, Running, RotationInv, OwnInv, TypeOK
<1>2. ASSUME NEW i \in Pairs, DeleteAccess(i) PROVE RotationInv'
  <2>1. /\ Quiet /\ UNCHANGED <<refreshVars, accessBy, lastPair, pc, copy>>
        /\ access' = [access EXCEPT ![i] = NoAccess] /\ accessW' = access'
    BY <1>2 DEF DeleteAccess
  <2>2. ~NoAccess.here
    BY DEF NoAccess
  <2>3. \A j \in Pairs : access'[j] = access[j] \/ access'[j] = NoAccess
    BY <2>1 DEF TypeOK
  <2>4. TablesInv'
    <3>1. SyncInv'
      BY <1>1, <2>1 DEF RotationInv, TablesInv, SyncInv
    <3>2. FreshInv'
      BY <2>1, <2>2, <2>3 DEF RotationInv, TablesInv, FreshInv
    <3>3. WriteInv'
      BY <2>1 DEF WriteInv
    <3>4. AccessDiesWithRefresh'
      BY <2>1, <2>2, <2>3 DEF RotationInv, TablesInv, AccessDiesWithRefresh, IsValid
    <3> QED
      BY <3>1, <3>2, <3>3, <3>4 DEF TablesInv
  <2> QED
    BY <1>1, <2>1, <2>4 DEF RotationInv, OwnInv, NextInv, SoundInv, Running
<1>3. ASSUME NEW i \in Pairs, DeleteRefresh(i) PROVE RotationInv'
  <2>1. /\ Quiet /\ UNCHANGED <<refreshBy, accessVars, lastPair, pc, copy>>
        /\ refreshW' = refresh'
    BY <1>3 DEF DeleteRefresh
  <2>2. \A j \in Pairs :
           refresh'[j].here => refresh[j].here /\ IsValid(refresh'[j]) = IsValid(refresh[j])
    <3> SUFFICES ASSUME NEW j \in Pairs, refresh'[j].here
                 PROVE  refresh[j].here /\ IsValid(refresh'[j]) = IsValid(refresh[j])
      OBVIOUS
    <3>1. refresh'[j] \in {NoRefresh, [refresh[j] EXCEPT !.next = 0], refresh[j]}
      BY <1>3, Zenon DEF DeleteRefresh
    <3>2. ~NoRefresh.here
      BY DEF NoRefresh
    <3>3. refresh[j] \in RefreshRows
      BY DEF TypeOK
    <3>4. ASSUME NEW row, row = [refresh[j] EXCEPT !.next = 0]
          PROVE  row.here = refresh[j].here /\ IsValid(row) = IsValid(refresh[j])
      BY <3>3, <3>4 DEF RefreshRows, IsValid
    <3> QED
      BY <3>1, <3>2, <3>4
  <2>3. TablesInv'
    <3>1. SyncInv'
      BY <1>1, <2>1 DEF RotationInv, TablesInv, SyncInv
    <3>2. FreshInv'
      BY <2>1, <2>2 DEF RotationInv, TablesInv, FreshInv
    <3>3. WriteInv'
      BY <1>1, <2>1, RotationAssumption DEF RotationInv, TablesInv, SyncInv, WriteInv
    <3>4. AccessDiesWithRefresh'
      BY <2>1, <2>2 DEF RotationInv, TablesInv, AccessDiesWithRefresh
    <3> QED
      BY <3>1, <3>2, <3>3, <3>4 DEF TablesInv
  <2> QED
    BY <1>1, <2>1, <2>3 DEF RotationInv, OwnInv, NextInv, SoundInv, Running
<1> QED
  BY <1>2, <1>3 DEF Cleanup, CleanupRevokedAccess, CleanupExpiredAccess,
     CleanupRevokedRefresh, CleanupConsumedRefresh

\* The invariant is inductive.
LEMMA RotationStep ==
    ASSUME TypeOK, TypeOK', RotationInv, [Next]_vars
    PROVE  RotationInv'
<1> USE DEF refreshVars, accessVars, localVars
<1>1. ASSUME UNCHANGED <<refreshVars, accessVars, lastPair, pc, token, copy>>
      PROVE  RotationInv'
  <2>1. /\ TablesInv'
        /\ \A s \in Requests, j \in Pairs :
             /\ Sound(s, j) => Sound(s, j)'
             /\ Revoking(s, j) => Revoking(s, j)'
    BY <1>1, ReadKeeps DEF RotationInv
  <2>2. OwnInv' /\ NextInv'
    BY <1>1 DEF RotationInv, OwnInv, NextInv
  <2>3. SoundInv'
    BY <1>1 DEF RotationInv, SoundInv, Running, SoundFor, Sound, Revoking,
       AccessSeen, IsValid
  <2> QED
    BY <2>1, <2>2, <2>3 DEF RotationInv
<1>2. CASE GiveUp \/ Demote \/ UNCHANGED vars
  BY <1>1, <1>2 DEF GiveUp, Demote, vars
<1>3. CASE Cleanup
  BY <1>3, CleanupStep
<1>4. ASSUME NEW r \in Requests, Send(r) \/ Drop(r) PROVE RotationInv'
  BY <1>4, ReadStep
<1>5. ASSUME NEW r \in Requests, DatabaseError(r) \/ Recycle(r) PROVE RotationInv'
  BY <1>5, EndStep
<1>6. ASSUME NEW r \in Requests, Serve(r) PROVE RotationInv'
  BY <1>6, ReadStep, LookupAccessStep, AccessStep, RefreshWriteStep, GenerateStep,
     EndStep DEF Serve, RefreshStep, OtherStep
<1> QED
  BY <1>2, <1>3, <1>4, <1>5, <1>6 DEF Next

\* A fresh session satisfies the invariant.
LEMMA RotationInit == Init => RotationInv
<1> SUFFICES ASSUME Init PROVE RotationInv
  OBVIOUS
<1>1. /\ NewRefresh.here /\ ~NewRefresh.consumed /\ ~NewRefresh.revoked
      /\ ~NoRefresh.here /\ NewAccess.here /\ ~NoAccess.here
  BY DEF NewRefresh, NoRefresh, NewAccess, NoAccess
<1>2. \A i \in Pairs : i > 1 => i # 1
  BY DEF Pairs
<1>3. TablesInv
  <2>1. SyncInv
    BY DEF Init, SyncInv
  <2>2. FreshInv
    BY <1>1, <1>2 DEF Init, FreshInv
  <2>3. WriteInv
    BY DEF Init, WriteInv
  <2>4. AccessDiesWithRefresh
    BY <1>1 DEF Init, AccessDiesWithRefresh, IsValid
  <2> QED
    BY <2>1, <2>2, <2>3, <2>4 DEF TablesInv
<1>4. OwnInv /\ NextInv /\ SoundInv
  BY RotationAssumption DEF Init, OwnInv, NextInv, SoundInv, Running
<1> QED
  BY <1>3, <1>4 DEF RotationInv

\* However the requests of a session overlap, fail and are retried, a refresh
\* token that was consumed or revoked leaves no working access token behind.
THEOREM AccessDiesWithRefreshHolds == Spec => []AccessDiesWithRefresh
<1>1. RotationInv => AccessDiesWithRefresh
  BY DEF RotationInv, TablesInv
<1> QED
  BY <1>1, TypeInit, TypeStep, RotationInit, RotationStep, PTL DEF Spec

\* The write of a session row never undoes a finish that was committed.
LEMMA SessionStep ==
    ASSUME TypeOK, SessionInv, [Next]_vars
    PROVE  SessionInv' /\ (finished => finished')
<1> USE DEF sessionVars
<1>1. ASSUME UNCHANGED sessionVars PROVE SessionInv' /\ (finished => finished')
  BY <1>1 DEF SessionInv
<1>2. ASSUME NEW r \in Requests, RecordUserAgent(r) \/ FinishSession(r)
      PROVE  SessionInv' /\ (finished => finished')
  <2>1. r # None
    BY RotationAssumption
  <2> QED
    BY <1>2, <2>1 DEF RecordUserAgent, FinishSession, UpdateSession, SessionInv
<1>3. ASSUME NEW r \in Requests, Commit(r) \/ Rollback(r)
      PROVE  SessionInv' /\ (finished => finished')
  <2>1. CASE Commit(r)
    BY <2>1, RotationAssumption DEF Commit, SessionInv
  <2>2. CASE Rollback(r)
    BY <2>2, RotationAssumption DEF Rollback, SessionInv
  <2> QED
    BY <1>3, <2>1, <2>2
<1>4. ASSUME NEW r \in Requests, Serve(r) PROVE SessionInv' /\ (finished => finished')
  <2>1. CASE RefreshStep(r)
    BY <1>1, <1>2, <2>1 DEF RefreshStep, FindByToken, LookupSession, CheckToken,
       LookupNext, LookupNextAccess, RevokeNextAccess, RevokeNextRefresh,
       GenerateTokenPair, Consume, LookupAccess, RevokeAccess
  <2>2. CASE OtherStep(r)
    BY <1>1, <2>2 DEF OtherStep, FindAccessToken, IntrospectSession, MarkUsed,
       FindRevokedToken, RevokeSession
  <2>3. CASE FinishSession(r) \/ Save(r) \/ SaveRefused(r)
    BY <1>2, <1>3, <2>3 DEF Save, SaveRefused
  <2> QED
    BY <1>4, <2>1, <2>2, <2>3 DEF Serve
<1>5. ASSUME NEW r \in Requests, DatabaseError(r) \/ Recycle(r)
      PROVE  SessionInv' /\ (finished => finished')
  BY <1>3, <1>5 DEF DatabaseError, Recycle
<1>6. ASSUME NEW r \in Requests, Send(r) \/ Drop(r)
      PROVE  SessionInv' /\ (finished => finished')
  BY <1>1, <1>6 DEF Send, Drop
<1>7. CASE GiveUp \/ Cleanup \/ Demote \/ UNCHANGED vars
  BY <1>1, <1>7 DEF GiveUp, Cleanup, CleanupRevokedAccess, CleanupExpiredAccess,
     CleanupRevokedRefresh, CleanupConsumedRefresh, DeleteAccess, DeleteRefresh,
     Demote, vars
<1> QED
  BY <1>4, <1>5, <1>6, <1>7 DEF Next

\* A finished session stays finished, whatever requests with an older copy of it
\* are still in progress.
THEOREM SessionStaysFinishedHolds == Spec => SessionStaysFinished
<1>1. Init => SessionInv
  BY DEF Init, SessionInv
<1>2. TypeOK /\ SessionInv /\ [Next]_vars => [finished => finished']_vars
  BY SessionStep
<1>3. TypeOK /\ SessionInv /\ [Next]_vars => SessionInv'
  BY SessionStep
<1> QED
  BY <1>1, <1>2, <1>3, TypeInit, TypeStep, PTL DEF Spec, SessionStaysFinished
-----------------------------------------------------------------------------
(***************************************************************************)
(* What a client can rely on. The pair it received last is the one every   *)
(* request in progress was sent with, or a later one; so a pair that       *)
(* replaced it, which the client never saw, can only be touched by a       *)
(* request that replaces it in turn.                                       *)
(***************************************************************************)
\* A refresh that has dealt with a lost replacement, has issued a pair, and
\* has consumed the token it was sent with.
Generating(r) ==
    pc[r] \in {"generate", "consume", "lookupAccess", "revoke"} \/ At(r, "refresh", "save")
Generated(r) == pc[r] \in {"consume", "lookupAccess", "revoke"} \/ At(r, "refresh", "save")
Consumed(r) == pc[r] \in {"lookupAccess", "revoke"} \/ At(r, "refresh", "save")

\* Where requests of each kind can be, and what they have read by then.
Place(r) ==
    /\ pc[r] \in {"agent", "check", "next", "nextAccess", "revokeAccess", "revokeRefresh",
                  "generate", "consume", "lookupAccess", "revoke", "saveRefused"}
          => kind[r] = "refresh"
    /\ pc[r] = "finish" => kind[r] \in {"refresh", "revoke"}
    /\ kind[r] # "refresh" \/ pc[r] \in {"idle", "find", "done"} => copy[r].next = 0
    /\ issued[r] # 0 => Generated(r) \/ pc[r] = "leaked"
    /\ Decodable(copy[r])

\* What a running request has written, and so will commit.
Writes(r) ==
    /\ \A i \in Pairs : refreshBy[i] = r =>
         \/ /\ i = copy[r].next /\ Generating(r)
            /\ refreshW[i] = [refresh[i] EXCEPT !.revoked = TRUE]
         \/ /\ i = issued[r] /\ Generated(r)
            /\ refreshW[i] = NewRefresh
         \/ /\ i = token[r] /\ Consumed(r)
            /\ refreshW[i] = [refresh[i] EXCEPT !.consumed = TRUE, !.next = issued[r]]
    /\ \A i \in Pairs : accessBy[i] = r =>
         \/ i = token[r] /\ pc[r] = "save"
         \/ i = copy[r].next /\ (pc[r] = "revokeRefresh" \/ Generating(r))
         \/ i = issued[r] /\ Generated(r) /\ accessW[i] = NewAccess
    /\ Generating(r) /\ copy[r].next # 0 => refreshBy[copy[r].next] = r
    /\ Generated(r) => refreshBy[issued[r]] = r /\ accessBy[issued[r]] = r
    /\ Consumed(r) => refreshBy[token[r]] = r

\* The client waits for a request sent with the pair it holds, and no request
\* was sent with a later one.
ClientInv ==
    /\ waiting # None => waiting \in Running /\ token[waiting] = held
    /\ \A r \in Requests : token[r] <= held /\ issued[r] # held

\* A pair replaces one other, an earlier one; a request knows a replacement
\* only of the token it was sent with, and a pair it issued is unknown.
NamesInv ==
    /\ \A i, j \in Pairs : refresh[i].next # 0 /\ refresh[i].next = refresh[j].next => i = j
    /\ \A i \in Pairs : refresh[i].next # 0 => refresh[i].next > i /\ refresh[i].next <= lastPair
    /\ \A r \in Requests : copy[r].next # 0 =>
         /\ copy[r].next > token[r] /\ copy[r].next <= lastPair
         /\ \A i \in Pairs : refresh[i].next = copy[r].next => i = token[r]
    /\ \A r \in Requests : issued[r] # 0 =>
         /\ issued[r] > token[r]
         /\ \A i \in Pairs : refresh[i].next # issued[r]
         /\ \A q \in Requests : copy[q].next # issued[r]
         /\ \A q \in Requests : issued[q] = issued[r] => q = r

\* The pair the client holds, if it was not revoked, is valid, or its
\* replacement is, which was never used.
Unseen(n) ==
    /\ refresh[n].here /\ IsValid(refresh[n]) /\ refresh[n].next = 0
    /\ access[n].here => ~access[n].used /\ ~access[n].revoked
    /\ access[n].here \/ LongAbsence
HeldInv ==
    LET row == refresh[held] IN
    row.here /\ ~row.revoked =>
        \/ ~row.consumed /\ row.next = 0
        \/ row.consumed /\ row.next # 0 /\ Unseen(row.next)

\* A client without overlap: its request works on what it has read, the pair
\* it holds was not revoked, and no other pair is valid but the replacement.
SerialInv ==
    ~Overlap =>
        /\ \A r \in Running : r = waiting
        /\ \A r \in Running : kind[r] = "refresh" /\ pc[r] # "find" => copy[r] = refresh[held]
        /\ refresh[held].here /\ ~refresh[held].revoked
        /\ \A i \in Pairs : refresh[i].here /\ IsValid(refresh[i])
              => i = held \/ i = refresh[held].next

ChainInv ==
    /\ \A r \in Requests : Place(r)
    /\ \A r \in Running : Writes(r)
    /\ ClientInv /\ NamesInv /\ HeldInv /\ SerialInv

\* A step that leaves request s and the rows it writes alone.
LeavesAlone(s) ==
    /\ pc'[s] = pc[s] /\ kind'[s] = kind[s] /\ token'[s] = token[s]
    /\ copy'[s] = copy[s] /\ issued'[s] = issued[s]
    /\ \A i \in Pairs :
         /\ refreshBy'[i] = s <=> refreshBy[i] = s
         /\ accessBy'[i] = s <=> accessBy[i] = s
         /\ refreshBy[i] = s => refreshW'[i] = refreshW[i] /\ refresh'[i] = refresh[i]
         /\ accessBy[i] = s => accessW'[i] = accessW[i]

\* The pairs a running request knows of are pairs.
LEMMA KnownPairs ==
    ASSUME TypeOK, NEW r \in Requests
    PROVE  /\ r \in Running => token[r] \in Pairs
           /\ copy[r].next # 0 => copy[r].next \in Pairs
           /\ issued[r] # 0 => issued[r] \in Pairs
           /\ issued[r] <= lastPair /\ issued[r] \in Nat /\ token[r] \in Nat
           /\ token[r] <= lastPair
           /\ Generated(r) => issued[r] # 0
           /\ copy[r] \in RefreshRows /\ copy[r].next \in Nat
<1>1. lastPair \in 1 .. MaxPairs /\ token[r] \in 0 .. lastPair /\ issued[r] \in 0 .. lastPair
  BY DEF TypeOK, Pairs
<1>2. copy[r] \in RefreshRows /\ copy[r].next \in 0 .. MaxPairs
  BY DEF TypeOK, RefreshRows
<1>3. r \in Running => token[r] # 0
  BY DEF TypeOK, Running
<1>4. Generated(r) => issued[r] # 0
  BY DEF TypeOK, Generated
<1> QED
  BY <1>1, <1>2, <1>3, <1>4, RotationAssumption DEF Pairs

\* It keeps what is known of s.
LEMMA OthersKeep ==
    ASSUME TypeOK, NEW s \in Requests, LeavesAlone(s)
    PROVE  /\ Place(s) => Place(s)'
           /\ s \in Running /\ Writes(s) => Writes(s)'
           /\ s \in Running <=> (s \in Running)'
<1>1. /\ Generating(s)' <=> Generating(s)
      /\ Generated(s)' <=> Generated(s)
      /\ Consumed(s)' <=> Consumed(s)
      /\ s \in Running <=> (s \in Running)'
  BY DEF LeavesAlone, Generating, Generated, Consumed, At, Running
<1>2. Place(s) => Place(s)'
  BY <1>1 DEF LeavesAlone, Place, Decodable
<1>3. ASSUME s \in Running, Writes(s) PROVE Writes(s)'
  <2>1. ASSUME NEW i \in Pairs, refreshBy'[i] = s
        PROVE  \/ /\ i = copy'[s].next /\ Generating(s)'
                  /\ refreshW'[i] = [refresh'[i] EXCEPT !.revoked = TRUE]
               \/ /\ i = issued'[s] /\ Generated(s)'
                  /\ refreshW'[i] = NewRefresh
               \/ /\ i = token'[s] /\ Consumed(s)'
                  /\ refreshW'[i] = [refresh'[i] EXCEPT !.consumed = TRUE, !.next = issued'[s]]
    <3>1. /\ refreshBy[i] = s /\ refreshW'[i] = refreshW[i] /\ refresh'[i] = refresh[i]
          /\ copy'[s] = copy[s] /\ issued'[s] = issued[s] /\ token'[s] = token[s]
      BY <2>1 DEF LeavesAlone
    <3> QED
      BY <1>1, <1>3, <3>1 DEF Writes
  <2>2. ASSUME NEW i \in Pairs, accessBy'[i] = s
        PROVE  \/ i = token'[s] /\ pc'[s] = "save"
               \/ i = copy'[s].next /\ (pc'[s] = "revokeRefresh" \/ Generating(s)')
               \/ i = issued'[s] /\ Generated(s)' /\ accessW'[i] = NewAccess
    <3>1. /\ accessBy[i] = s /\ accessW'[i] = accessW[i] /\ pc'[s] = pc[s]
          /\ copy'[s] = copy[s] /\ issued'[s] = issued[s] /\ token'[s] = token[s]
      BY <2>2 DEF LeavesAlone
    <3> QED
      BY <1>1, <1>3, <3>1 DEF Writes
  <2>3. /\ Generating(s) /\ copy[s].next # 0 => refreshBy'[copy[s].next] = s
        /\ Generated(s) => refreshBy'[issued[s]] = s /\ accessBy'[issued[s]] = s
        /\ Consumed(s) => refreshBy'[token[s]] = s
    BY <1>3, KnownPairs DEF Writes, LeavesAlone
  <2>4. copy'[s] = copy[s] /\ issued'[s] = issued[s] /\ token'[s] = token[s]
    BY DEF LeavesAlone
  <2> QED
    BY <1>1, <2>1, <2>2, <2>3, <2>4 DEF Writes
<1> QED
  BY <1>1, <1>2, <1>3

\* A step of a request that goes on, once its own part is known.
LEMMA Assemble ==
    ASSUME TypeOK, ChainInv, NEW r \in Running, NEW l \in PCs \ {"idle", "done", "leaked"},
           pc' = [pc EXCEPT ![r] = l], UNCHANGED <<refresh, access, token, held, waiting>>,
           \A s \in Requests \ {r} : LeavesAlone(s),
           Place(r)', Writes(r)', NamesInv', issued'[r] # held,
           kind'[r] = kind[r],
           ~Overlap /\ kind[r] = "refresh" => copy'[r] = refresh[held]
    PROVE  ChainInv'
<1>0. r \in Requests /\ (r \in Running)'
  BY DEF Running, TypeOK
<1>1. \A s \in Requests : Place(s)'
  BY OthersKeep DEF ChainInv
<1>2. \A s \in Requests : (s \in Running)' <=> s \in Running
  BY <1>0, OthersKeep
<1>3. ASSUME NEW s \in Running' PROVE Writes(s)'
  BY <1>2, <1>3, OthersKeep DEF ChainInv, Running
<1>4. ClientInv'
  <2>1. \A s \in Requests : token'[s] <= held' /\ issued'[s] # held'
    BY DEF ChainInv, ClientInv, LeavesAlone
  <2>2. waiting' # None => waiting' \in Running' /\ token'[waiting'] = held'
    BY <1>2 DEF ChainInv, ClientInv, Running
  <2> QED
    BY <2>1, <2>2 DEF ClientInv
<1>5. HeldInv'
  BY DEF ChainInv, HeldInv, Unseen, IsValid
<1>6. SerialInv'
  <2>1. \A s \in Running' : s \in Running
    BY <1>2 DEF Running
  <2>2. ASSUME ~Overlap, NEW s \in Running', kind'[s] = "refresh", pc'[s] # "find"
        PROVE  copy'[s] = refresh'[held']
    <3>1. s \in Requests
      BY DEF Running
    <3>2. CASE s = r
      BY <2>2, <3>2
    <3>3. CASE s # r
      BY <2>1, <2>2, <3>1, <3>3 DEF LeavesAlone, ChainInv, SerialInv
    <3> QED
      BY <3>2, <3>3
  <2> QED
    BY <2>1, <2>2 DEF ChainInv, SerialInv, IsValid
<1> QED
  BY <1>1, <1>3, <1>4, <1>5, <1>6 DEF ChainInv

\* A statement that reads, and how its request may go on.
Unwritten == {"find", "session", "agent", "check", "next", "nextAccess", "mark", "finish",
              "saveRefused"}
GoesOn(r, l) ==
    \/ pc[r] \in Unwritten /\ l \in Unwritten \cup {"revokeAccess"}
    \/ pc[r] \in Unwritten /\ l = "generate" /\ copy[r].next = 0
    \/ pc[r] \in Unwritten /\ l = "save" /\ kind[r] # "refresh"
    \/ pc[r] = "lookupAccess" /\ l \in {"revoke", "save"}

\* A statement that reads keeps the invariant.
LEMMA MoveClient ==
    ASSUME TypeOK, ChainInv, NEW r \in Running, NEW l \in PCs,
           Continue(r, l), GoesOn(r, l),
           l \in {"agent", "check", "next", "nextAccess", "revokeAccess", "generate",
                  "revoke", "saveRefused"} => kind[r] = "refresh",
           l = "finish" => kind[r] \in {"refresh", "revoke"},
           kind[r] # "refresh" \/ (pc[r] # "find" /\ l # "find"),
           UNCHANGED <<refreshVars, accessVars, lastPair, kind, token, copy, issued>>
    PROVE  ChainInv'
<1> USE DEF refreshVars, accessVars
<1>1. pc' = [pc EXCEPT ![r] = l] /\ UNCHANGED <<held, waiting>>
  BY DEF Continue, Goto, clientVars
<1>2. l \notin {"idle", "done", "leaked"} /\ r \in Requests
  BY DEF GoesOn, Unwritten, Running
<1>3. pc'[r] = l /\ \A s \in Requests \ {r} : pc'[s] = pc[s]
  BY <1>1, <1>2 DEF TypeOK
<1>4. \A s \in Requests \ {r} : LeavesAlone(s)
  BY <1>3 DEF LeavesAlone
<1>5. Place(r) /\ Writes(r)
  BY DEF ChainInv, Running
<1>6. ASSUME pc[r] = "lookupAccess" PROVE Place(r)' /\ Writes(r)'
  <2>1. l \in {"revoke", "save"} /\ kind[r] = "refresh"
    BY <1>5, <1>6 DEF GoesOn, Unwritten, Place
  <2>2. /\ Generating(r) /\ Generated(r) /\ Consumed(r)
        /\ Generating(r)' /\ Generated(r)' /\ Consumed(r)'
    BY <1>3, <1>6, <2>1 DEF Generating, Generated, Consumed, At
  <2>3. Place(r)'
    BY <1>3, <1>5, <2>1, <2>2 DEF Place, Decodable
  <2>4. Writes(r)'
    BY <1>3, <1>5, <1>6, <2>1, <2>2 DEF Writes
  <2> QED
    BY <2>3, <2>4
<1>7. ASSUME pc[r] \in Unwritten PROVE Place(r)' /\ Writes(r)'
  <2>1. ~Generating(r) /\ ~Generated(r) /\ ~Consumed(r)
    BY <1>7 DEF Generating, Generated, Consumed, At, Unwritten
  <2>2. issued[r] = 0
    BY <1>5, <1>7, <2>1 DEF Place, Unwritten
  <2>3. \A i \in Pairs : refreshBy[i] # r /\ accessBy[i] # r
    BY <1>5, <1>7, <2>1 DEF Writes, Unwritten
  <2>4. ~Generated(r)' /\ ~Consumed(r)' /\ (Generating(r)' => copy[r].next = 0)
    BY <1>3, <1>7 DEF GoesOn, Unwritten, Generating, Generated, Consumed, At
  <2>5. Place(r)'
    <3>1. l \notin {"consume", "lookupAccess", "revoke", "revokeRefresh"}
      BY <1>7 DEF GoesOn, Unwritten
    <3> QED
      BY <1>2, <1>3, <1>5, <2>2, <3>1 DEF Place, Decodable
  <2>6. Writes(r)'
    BY <1>3, <2>3, <2>4 DEF Writes
  <2> QED
    BY <2>5, <2>6
<1>8. Place(r)' /\ Writes(r)'
  BY <1>6, <1>7 DEF GoesOn
<1>9. NamesInv'
  BY DEF ChainInv, NamesInv
<1>10. issued'[r] # held
  BY <1>2 DEF ChainInv, ClientInv
<1>11. ~Overlap /\ kind[r] = "refresh" => copy'[r] = refresh[held]
  BY DEF ChainInv, SerialInv
<1> QED
  BY <1>1, <1>2, <1>4, <1>8, <1>9, <1>10, <1>11, Assemble

\* A request that is refused keeps its locks and commits nothing.
LEMMA RefuseClient ==
    ASSUME TypeOK, ChainInv, NEW r \in Running, Refuse(r),
           UNCHANGED <<refreshVars, accessVars, lastPair, kind, token, copy, issued>>
    PROVE  ChainInv'
<1> USE DEF refreshVars, accessVars
<1>0. r \in Requests
  BY DEF Running
<1>1. /\ pc' = [pc EXCEPT ![r] = "leaked"] /\ held' = held
      /\ waiting' = IF waiting = r THEN None ELSE waiting
  BY DEF Refuse, Goto, Unanswered
<1>2. pc'[r] = "leaked" /\ \A s \in Requests \ {r} : pc'[s] = pc[s]
  BY <1>0, <1>1 DEF TypeOK
<1>3. \A s \in Requests \ {r} : LeavesAlone(s)
  BY <1>2 DEF LeavesAlone
<1>4. Running' = Running \ {r}
  BY <1>0, <1>2 DEF Running
<1>5. ASSUME NEW s \in Requests PROVE Place(s)'
  <2>1. CASE s = r
    BY <1>0, <1>2, <2>1 DEF ChainInv, Place, Decodable
  <2>2. CASE s # r
    BY <1>3, <2>2, OthersKeep DEF ChainInv
  <2> QED
    BY <2>1, <2>2
<1>6. \A s \in Running' : Writes(s)'
  BY <1>3, <1>4, OthersKeep DEF ChainInv, Running
<1>7. ClientInv'
  BY <1>1, <1>4 DEF ChainInv, ClientInv
<1>8. NamesInv' /\ HeldInv'
  BY <1>1 DEF ChainInv, NamesInv, HeldInv, Unseen, IsValid
<1>9. SerialInv'
  <2>1. ASSUME ~Overlap, NEW s \in Running' PROVE s = waiting'
    BY <1>1, <1>4, <2>1 DEF ChainInv, SerialInv
  <2>2. ASSUME ~Overlap, NEW s \in Running', kind'[s] = "refresh", pc'[s] # "find"
        PROVE  copy'[s] = refresh'[held']
    BY <1>1, <1>2, <1>4, <2>2 DEF ChainInv, SerialInv, Running
  <2> QED
    BY <1>1, <2>1, <2>2 DEF ChainInv, SerialInv, IsValid
<1> QED
  BY <1>5, <1>6, <1>7, <1>8, <1>9 DEF ChainInv

\* The statements that only read.
LEMMA ReadsKeepChain ==
    ASSUME TypeOK, ChainInv, NEW r \in Requests,
           \/ LookupSession(r) \/ RecordUserAgent(r) \/ CheckToken(r) \/ LookupNext(r)
           \/ LookupNextAccess(r) \/ LookupAccess(r) \/ FindAccessToken(r)
           \/ IntrospectSession(r) \/ FindRevokedToken(r) \/ RevokeSession(r)
           \/ FinishSession(r) \/ Drop(r)
    PROVE  ChainInv'
<1> USE DEF refreshVars, accessVars, localVars, At
<1>0. Place(r)
  BY DEF ChainInv
<1>1. UNCHANGED <<refreshVars, accessVars, lastPair, kind, token, copy, issued>>
  BY DEF LookupSession, RecordUserAgent, CheckToken, LookupNext, LookupNextAccess,
     LookupAccess, FindAccessToken, IntrospectSession, FindRevokedToken, RevokeSession,
     FinishSession, Drop
<1>2. r \in Running
  BY DEF LookupSession, RecordUserAgent, CheckToken, LookupNext, LookupNextAccess,
     LookupAccess, FindAccessToken, IntrospectSession, FindRevokedToken, RevokeSession,
     FinishSession, Drop, Running
<1>3. CASE Refuse(r)
  BY <1>1, <1>2, <1>3, RefuseClient
<1>4. ASSUME NEW l \in PCs, Continue(r, l), GoesOn(r, l), l # "find",
             l \in {"agent", "check", "next", "nextAccess", "revokeAccess", "generate",
                    "revoke", "saveRefused"} => kind[r] = "refresh",
             l = "finish" => kind[r] \in {"refresh", "revoke"},
             kind[r] # "refresh" \/ pc[r] # "find"
      PROVE  ChainInv'
  BY <1>1, <1>2, <1>4, MoveClient
<1>5. CASE LookupSession(r)
  <2>1. \/ Refuse(r)
        \/ \E l \in {"agent", "check"} : Continue(r, l)
    BY <1>5 DEF LookupSession
  <2>2. pc[r] = "session" /\ kind[r] = "refresh"
    BY <1>5 DEF LookupSession
  <2> QED
    BY <1>3, <1>4, <2>1, <2>2 DEF GoesOn, Unwritten, PCs
<1>6. CASE RecordUserAgent(r)
  <2>1. pc[r] = "agent" /\ (Refuse(r) \/ Continue(r, "check"))
    BY <1>6 DEF RecordUserAgent
  <2> QED
    BY <1>0, <1>3, <1>4, <2>1 DEF GoesOn, Unwritten, PCs, Place
<1>7. CASE CheckToken(r)
  <2>1. /\ pc[r] = "check" /\ kind[r] = "refresh"
        /\ \/ Continue(r, "finish") \/ Refuse(r) \/ Continue(r, "next")
           \/ IsValid(copy[r]) /\ Continue(r, "generate")
    BY <1>0, <1>7 DEF CheckToken, Place
  <2>2. IsValid(copy[r]) => copy[r].next = 0
    BY <1>0 DEF Place, Decodable, IsValid
  <2> QED
    BY <1>3, <1>4, <2>1, <2>2 DEF GoesOn, Unwritten, PCs
<1>8. CASE LookupNext(r) \/ LookupNextAccess(r)
  <2>1. /\ pc[r] \in {"next", "nextAccess"} /\ kind[r] = "refresh"
        /\ Refuse(r) \/ \E l \in {"nextAccess", "revokeAccess"} : Continue(r, l)
    BY <1>0, <1>8 DEF LookupNext, LookupNextAccess, Place
  <2> QED
    BY <1>3, <1>4, <2>1 DEF GoesOn, Unwritten, PCs
<1>9. CASE LookupAccess(r)
  <2>1. /\ pc[r] = "lookupAccess" /\ kind[r] = "refresh"
        /\ \E l \in {"revoke", "save"} : Continue(r, l)
    BY <1>0, <1>9 DEF LookupAccess, Place
  <2> QED
    BY <1>4, <2>1 DEF GoesOn, PCs
<1>10. CASE FindAccessToken(r) \/ IntrospectSession(r) \/ FindRevokedToken(r) \/ RevokeSession(r)
  <2>1. /\ pc[r] \in {"find", "session"} /\ kind[r] # "refresh"
        /\ \/ Refuse(r) \/ \E l \in {"session", "save", "mark"} : Continue(r, l)
           \/ kind[r] = "revoke" /\ Continue(r, "finish")
    BY <1>10 DEF FindAccessToken, IntrospectSession, FindRevokedToken, RevokeSession
  <2> QED
    BY <1>3, <1>4, <2>1 DEF GoesOn, Unwritten, PCs
<1>11. CASE FinishSession(r)
  <2>1. /\ pc[r] = "finish"
        /\ \/ kind[r] # "refresh" /\ Continue(r, "save")
           \/ kind[r] = "refresh" /\ Continue(r, "saveRefused")
    BY <1>0, <1>11 DEF FinishSession, Place
  <2> QED
    BY <1>4, <2>1 DEF GoesOn, Unwritten, PCs
<1>12. CASE Drop(r)
  BY <1>3, <1>12 DEF Drop
<1> QED
  BY <1>5, <1>6, <1>7, <1>8, <1>9, <1>10, <1>11, <1>12

\* find_by_token reads the presented token as it is committed.
LEMMA FindKeepsChain ==
    ASSUME TypeOK, ChainInv, NEW r \in Requests, FindByToken(r)
    PROVE  ChainInv'
<1> USE DEF refreshVars, accessVars
<1>1. /\ r \in Running /\ pc[r] = "find" /\ kind[r] = "refresh"
      /\ UNCHANGED <<refreshVars, accessVars, lastPair, kind, token, issued>>
  BY DEF FindByToken, At, Running
<1>2. CASE Refuse(r)
  <2>1. UNCHANGED copy
    <3>1. Refuse(r) => ~Continue(r, "session")
      BY DEF Refuse, Continue, Goto, TypeOK
    <3> QED
      BY <1>2, <3>1 DEF FindByToken
  <2> QED
    BY <1>1, <1>2, <2>1, RefuseClient
<1>3. CASE ~Refuse(r)
  <2> DEFINE t == token[r]
  <2>1. Place(r) /\ Writes(r)
    BY <1>1 DEF ChainInv
  <2>2. /\ ~Generating(r) /\ ~Generated(r) /\ ~Consumed(r)
        /\ issued[r] = 0
        /\ \A i \in Pairs : refreshBy[i] # r /\ accessBy[i] # r
    BY <1>1, <2>1 DEF Generating, Generated, Consumed, At, Place, Writes
  <2>3. t \in Pairs
    BY <1>1, KnownPairs
  <2>4. /\ Decodable(refresh[t]) /\ copy' = [copy EXCEPT ![r] = refresh[t]]
        /\ Continue(r, "session")
    BY <1>3, <2>2, <2>3 DEF FindByToken, RefreshSeen
  <2>5. /\ copy'[r] = refresh[t] /\ pc'[r] = "session"
        /\ \A s \in Requests \ {r} : copy'[s] = copy[s] /\ pc'[s] = pc[s]
        /\ pc' = [pc EXCEPT ![r] = "session"] /\ UNCHANGED <<held, waiting>>
    BY <2>4 DEF TypeOK, Continue, Goto, clientVars
  <2>6. \A s \in Requests \ {r} : LeavesAlone(s)
    BY <1>1, <2>5 DEF LeavesAlone
  <2>7. ~Generating(r)' /\ ~Generated(r)' /\ ~Consumed(r)'
    BY <2>5 DEF Generating, Generated, Consumed, At
  <2>8. Place(r)'
    BY <1>1, <2>2, <2>4, <2>5 DEF Place, Decodable
  <2>9. Writes(r)'
    BY <1>1, <2>2, <2>7 DEF Writes
  <2>10. NamesInv'
    <3>1. ASSUME NEW s \in Requests, copy'[s].next # 0
          PROVE  /\ copy'[s].next > token[s] /\ copy'[s].next <= lastPair
                 /\ \A i \in Pairs : refresh[i].next = copy'[s].next => i = token[s]
      <4>1. CASE s = r
        BY <2>3, <2>5, <3>1, <4>1 DEF ChainInv, NamesInv
      <4>2. CASE s # r
        BY <2>5, <3>1, <4>2 DEF ChainInv, NamesInv
      <4> QED
        BY <4>1, <4>2
    <3>2. ASSUME NEW s \in Requests, issued[s] # 0, NEW q \in Requests
          PROVE  copy'[q].next # issued[s]
      <4>1. CASE q = r
        BY <2>3, <2>5, <3>2, <4>1 DEF ChainInv, NamesInv
      <4>2. CASE q # r
        BY <2>5, <3>2, <4>2 DEF ChainInv, NamesInv
      <4> QED
        BY <4>1, <4>2
    <3> QED
      BY <1>1, <3>1, <3>2 DEF ChainInv, NamesInv
  <2>11. issued'[r] # held
    BY <1>1 DEF ChainInv, ClientInv
  <2>12. ~Overlap => copy'[r] = refresh[held]
    BY <1>1, <2>5, RotationAssumption DEF ChainInv, SerialInv, ClientInv
  <2> QED
    BY <1>1, <2>5, <2>6, <2>8, <2>9, <2>10, <2>11, <2>12, Assemble DEF PCs
<1> QED
  BY <1>2, <1>3

\* A request that takes the lock of a row leaves the others alone.
LEMMA WriteLeaves ==
    ASSUME TypeOK, NEW r \in Requests, NEW s \in Requests \ {r},
           pc'[s] = pc[s], kind'[s] = kind[s], token'[s] = token[s],
           copy'[s] = copy[s], issued'[s] = issued[s],
           \/ UNCHANGED refreshVars
           \/ \E i \in Pairs, row \in RefreshRows : UpdateRefresh(r, i, row),
           \/ UNCHANGED accessVars
           \/ \E i \in Pairs, row \in AccessRows : UpdateAccess(r, i, row)
    PROVE  LeavesAlone(s)
<1>0. s # None
  BY RotationAssumption
<1>1. ASSUME NEW j \in Pairs
      PROVE  /\ refreshBy'[j] = s <=> refreshBy[j] = s
             /\ refreshBy[j] = s => refreshW'[j] = refreshW[j] /\ refresh'[j] = refresh[j]
  <2>1. CASE UNCHANGED refreshVars
    BY <2>1 DEF refreshVars
  <2>2. ASSUME NEW i \in Pairs, NEW row \in RefreshRows, UpdateRefresh(r, i, row)
        PROVE  /\ refreshBy'[j] = s <=> refreshBy[j] = s
               /\ refreshBy[j] = s => refreshW'[j] = refreshW[j] /\ refresh'[j] = refresh[j]
    <3>1. /\ refreshBy[i] \in {None, r} /\ UNCHANGED refresh
          /\ refreshW'[j] = IF j = i THEN row ELSE refreshW[j]
          /\ refreshBy'[j] = IF j = i THEN r ELSE refreshBy[j]
      BY <2>2 DEF UpdateRefresh, TypeOK
    <3> QED
      BY <1>0, <3>1
  <2> QED
    BY <2>1, <2>2
<1>2. ASSUME NEW j \in Pairs
      PROVE  /\ accessBy'[j] = s <=> accessBy[j] = s
             /\ accessBy[j] = s => accessW'[j] = accessW[j]
  <2>1. CASE UNCHANGED accessVars
    BY <2>1 DEF accessVars
  <2>2. ASSUME NEW i \in Pairs, NEW row \in AccessRows, UpdateAccess(r, i, row)
        PROVE  /\ accessBy'[j] = s <=> accessBy[j] = s
               /\ accessBy[j] = s => accessW'[j] = accessW[j]
    <3>1. /\ accessBy[i] \in {None, r}
          /\ accessW'[j] = IF j = i THEN row ELSE accessW[j]
          /\ accessBy'[j] = IF j = i THEN r ELSE accessBy[j]
      BY <2>2 DEF UpdateAccess, TypeOK
    <3> QED
      BY <1>0, <3>1
  <2> QED
    BY <2>1, <2>2
<1> QED
  BY <1>1, <1>2 DEF LeavesAlone

\* The statements that update an access token: of the replacement, of the token
\* that was presented, or to mark it as used.
LEMMA AccessKeepsChain ==
    ASSUME TypeOK, ChainInv, NEW r \in Requests,
           RevokeNextAccess(r) \/ RevokeAccess(r) \/ MarkUsed(r)
    PROVE  ChainInv'
<1> USE DEF refreshVars, accessVars, localVars
<1>1. /\ r \in Running
      /\ UNCHANGED <<refreshVars, access, lastPair, kind, token, copy, issued>>
  BY DEF RevokeNextAccess, RevokeAccess, MarkUsed, UpdateAccess, Running
<1>2. PICK i \in Pairs, row \in AccessRows :
        /\ UpdateAccess(r, i, row)
        /\ \/ pc[r] = "revokeAccess" /\ i = copy[r].next
           \/ pc[r] \in {"revoke", "mark"} /\ i = token[r]
  <2>1. \A j \in Pairs : /\ [accessW[j] EXCEPT !.revoked = TRUE] \in AccessRows
                         /\ [accessW[j] EXCEPT !.used = TRUE] \in AccessRows
    BY RowTypes DEF TypeOK
  <2>2. CASE RevokeNextAccess(r)
    BY <2>1, <2>2, Indices DEF RevokeNextAccess
  <2>3. CASE RevokeAccess(r) \/ MarkUsed(r)
    BY <2>1, <2>3, Indices DEF RevokeAccess, MarkUsed
  <2> QED
    BY <2>2, <2>3
<1>3. \/ pc[r] = "revokeAccess" /\ Refuse(r)
      \/ pc[r] = "revokeAccess" /\ Continue(r, "revokeRefresh")
      \/ pc[r] \in {"revoke", "mark"} /\ Continue(r, "save")
  BY DEF RevokeNextAccess, RevokeAccess, MarkUsed
<1>4. ASSUME NEW s \in Requests \ {r} PROVE LeavesAlone(s)
  <2>1. pc'[s] = pc[s]
    BY <1>3 DEF Refuse, Continue, Goto, TypeOK
  <2> QED
    BY <1>1, <1>2, <2>1, WriteLeaves
<1>5. Place(r) /\ Writes(r) /\ NamesInv'
  BY <1>1 DEF ChainInv, NamesInv
<1>6. \A j \in Pairs : /\ accessW'[j] = IF j = i THEN row ELSE accessW[j]
                       /\ accessBy'[j] = IF j = i THEN r ELSE accessBy[j]
  BY <1>2 DEF UpdateAccess, TypeOK
<1>7. CASE Refuse(r)
  <2>1. /\ pc' = [pc EXCEPT ![r] = "leaked"] /\ held' = held
        /\ waiting' = IF waiting = r THEN None ELSE waiting
    BY <1>7 DEF Refuse, Goto, Unanswered
  <2>2. pc'[r] = "leaked" /\ \A s \in Requests \ {r} : pc'[s] = pc[s]
    BY <2>1 DEF TypeOK
  <2>3. Running' = Running \ {r}
    BY <2>2 DEF Running
  <2>4. Place(r)'
    BY <1>1, <1>5, <2>2 DEF Place, Decodable
  <2>5. (\A s \in Requests : Place(s)') /\ (\A s \in Running' : Writes(s)')
    BY <1>4, <2>3, <2>4, OthersKeep DEF ChainInv, Running
  <2>6. ClientInv' /\ HeldInv'
    BY <1>1, <2>1, <2>3 DEF ChainInv, ClientInv, HeldInv, Unseen, IsValid
  <2>7. SerialInv'
    <3>1. ASSUME ~Overlap, NEW s \in Running'
          PROVE  /\ s = waiting'
                 /\ kind'[s] = "refresh" /\ pc'[s] # "find" => copy'[s] = refresh'[held']
      BY <1>1, <2>1, <2>2, <2>3, <3>1 DEF ChainInv, SerialInv, Running
    <3> QED
      BY <1>1, <2>1, <3>1 DEF ChainInv, SerialInv, IsValid
  <2> QED
    BY <1>5, <2>5, <2>6, <2>7 DEF ChainInv
<1>8. ASSUME NEW l \in {"revokeRefresh", "save"}, Continue(r, l),
             l = "revokeRefresh" => pc[r] = "revokeAccess" /\ i = copy[r].next,
             l = "save" => pc[r] \in {"revoke", "mark"} /\ i = token[r]
      PROVE  ChainInv'
  <2>1. /\ pc' = [pc EXCEPT ![r] = l] /\ UNCHANGED <<held, waiting>> /\ pc'[r] = l
    BY <1>8 DEF Continue, Goto, clientVars, TypeOK
  <2>2. /\ kind[r] = "refresh" <=> pc[r] # "mark"
    BY <1>2, <1>5 DEF Place, TypeOK
  <2>3. /\ Generating(r)' <=> Generating(r)
        /\ Generated(r)' <=> Generated(r)
        /\ Consumed(r)' <=> Consumed(r)
    BY <1>1, <1>8, <2>1, <2>2 DEF Generating, Generated, Consumed, At
  <2>4. Place(r)'
    BY <1>1, <1>5, <1>8, <2>1, <2>2, <2>3 DEF Place, Decodable
  <2>5. Writes(r)'
    <3>1. \A j \in Pairs : refreshBy[j] = r =>
            \/ /\ j = copy[r].next /\ Generating(r)
               /\ refreshW[j] = [refresh[j] EXCEPT !.revoked = TRUE]
            \/ /\ j = issued[r] /\ Generated(r)
               /\ refreshW[j] = NewRefresh
            \/ /\ j = token[r] /\ Consumed(r)
               /\ refreshW[j] = [refresh[j] EXCEPT !.consumed = TRUE, !.next = issued[r]]
      BY <1>5 DEF Writes
    <3>2. ASSUME NEW j \in Pairs, accessBy'[j] = r
          PROVE  \/ j = token[r] /\ l = "save"
                 \/ j = copy[r].next /\ (l = "revokeRefresh" \/ Generating(r))
                 \/ j = issued[r] /\ Generated(r) /\ accessW'[j] = NewAccess
      <4>1. CASE j = i
        BY <1>8, <4>1
      <4>2. CASE j # i
        <5>1. pc[r] # "save" /\ pc[r] # "revokeRefresh"
          BY <1>8
        <5> QED
          BY <1>5, <1>6, <3>2, <4>2, <5>1 DEF Writes
      <4> QED
        BY <4>1, <4>2
    <3>3. Generated(r) => accessBy'[issued[r]] = r
      BY <1>2, <1>5, <1>6, KnownPairs DEF Writes
    <3> QED
      BY <1>1, <1>5, <2>1, <2>3, <3>1, <3>2, <3>3 DEF Writes
  <2>6. issued'[r] # held
    BY <1>1 DEF ChainInv, ClientInv
  <2>7. ~Overlap /\ kind[r] = "refresh" => copy'[r] = refresh[held]
    BY <1>1, <1>2 DEF ChainInv, SerialInv
  <2> QED
    BY <1>1, <1>4, <1>5, <2>1, <2>4, <2>5, <2>6, <2>7, Assemble DEF PCs
<1> QED
  BY <1>2, <1>3, <1>7, <1>8

\* The statements that update a refresh token: the replacement that got lost is
\* revoked, and the token that was presented is consumed.
LEMMA RefreshKeepsChain ==
    ASSUME TypeOK, SyncInv, ChainInv, NEW r \in Requests,
           RevokeNextRefresh(r) \/ Consume(r)
    PROVE  ChainInv'
<1> USE DEF refreshVars, accessVars, localVars
<1>1. /\ r \in Running
      /\ UNCHANGED <<accessVars, refresh, lastPair, kind, token, copy, issued>>
  BY DEF RevokeNextRefresh, Consume, UpdateRefresh, Running
<1>2. Place(r) /\ Writes(r) /\ NamesInv' /\ kind[r] = "refresh"
  BY <1>1 DEF ChainInv, NamesInv, RevokeNextRefresh, Consume, Place
<1>3. issued'[r] # held /\ (~Overlap => copy'[r] = refresh[held])
  BY <1>1, <1>2 DEF ChainInv, ClientInv, SerialInv, RevokeNextRefresh, Consume
<1>4. /\ token[r] \in Pairs /\ (copy[r].next # 0 => copy[r].next > token[r])
      /\ issued[r] # 0 => issued[r] > token[r] /\ copy[r].next # issued[r]
  BY <1>1, KnownPairs DEF ChainInv, NamesInv
<1>5. CASE RevokeNextRefresh(r)
  <2> DEFINE n == copy[r].next
  <2>1. /\ pc[r] = "revokeRefresh" /\ Continue(r, "generate")
        /\ UpdateRefresh(r, n, [refreshW[n] EXCEPT !.revoked = TRUE])
    BY <1>5 DEF RevokeNextRefresh
  <2>2. n \in Pairs /\ n # 0 /\ [refreshW[n] EXCEPT !.revoked = TRUE] \in RefreshRows
    BY <2>1, Indices, RowTypes DEF TypeOK
  <2>3. /\ pc' = [pc EXCEPT ![r] = "generate"] /\ pc'[r] = "generate"
        /\ UNCHANGED <<held, waiting>>
        /\ \A s \in Requests \ {r} : pc'[s] = pc[s]
    BY <2>1 DEF Continue, Goto, clientVars, TypeOK
  <2>4. \A s \in Requests \ {r} : LeavesAlone(s)
    BY <1>1, <2>1, <2>2, <2>3, WriteLeaves
  <2>5. ~Generating(r) /\ ~Generated(r) /\ ~Consumed(r)
    BY <2>1 DEF Generating, Generated, Consumed, At
  <2>6. Generating(r)' /\ ~Generated(r)' /\ ~Consumed(r)'
    BY <2>3 DEF Generating, Generated, Consumed, At
  <2>7. \A j \in Pairs : refreshBy[j] # r
    BY <1>2, <2>5 DEF Writes
  <2>8. /\ \A j \in Pairs : refreshBy'[j] = r <=> j = n
        /\ refreshW'[n] = [refresh[n] EXCEPT !.revoked = TRUE]
    BY <2>1, <2>2, <2>7 DEF UpdateRefresh, TypeOK, SyncInv
  <2>9. Place(r)'
    BY <1>1, <1>2, <2>3, <2>5, <2>1 DEF Place, Decodable
  <2>10. Writes(r)'
    <3>1. \A j \in Pairs : accessBy[j] = r => j = copy[r].next
      BY <1>2, <2>1, <2>5 DEF Writes
    <3> QED
      BY <1>1, <2>2, <2>6, <2>8, <3>1 DEF Writes
  <2> QED
    BY <1>1, <1>2, <1>3, <2>3, <2>4, <2>9, <2>10, Assemble DEF PCs
<1>6. CASE Consume(r)
  <2> DEFINE t == token[r]
             row == [refreshW[t] EXCEPT !.consumed = TRUE, !.next = issued[r]]
  <2>1. pc[r] = "consume" /\ Continue(r, "lookupAccess") /\ UpdateRefresh(r, t, row)
    BY <1>6 DEF Consume
  <2>2. row \in RefreshRows /\ issued[r] # 0
    BY <1>4, <2>1, Indices, RowTypes DEF TypeOK
  <2>3. /\ pc' = [pc EXCEPT ![r] = "lookupAccess"] /\ pc'[r] = "lookupAccess"
        /\ UNCHANGED <<held, waiting>>
        /\ \A s \in Requests \ {r} : pc'[s] = pc[s]
    BY <2>1 DEF Continue, Goto, clientVars, TypeOK
  <2>4. \A s \in Requests \ {r} : LeavesAlone(s)
    BY <1>1, <1>4, <2>1, <2>2, <2>3, WriteLeaves
  <2>5. Generating(r) /\ Generated(r) /\ ~Consumed(r)
    BY <2>1 DEF Generating, Generated, Consumed, At
  <2>6. Generating(r)' /\ Generated(r)' /\ Consumed(r)'
    BY <2>3 DEF Generating, Generated, Consumed, At
  <2>7. /\ copy[r].next # t /\ issued[r] # t /\ t # 0
        /\ copy[r].next # 0 => copy[r].next \in Pairs
        /\ issued[r] \in Pairs
    BY <1>4, <2>2, KnownPairs DEF Pairs
  <2>8. refreshBy[t] # r
    BY <1>2, <1>4, <2>5, <2>7 DEF Writes
  <2>9. refreshBy[t] = None /\ refreshW[t] = refresh[t]
    BY <1>4, <2>1, <2>8 DEF UpdateRefresh, SyncInv
  <2>10. \A j \in Pairs : /\ refreshBy'[j] = IF j = t THEN r ELSE refreshBy[j]
                          /\ refreshW'[j] = IF j = t THEN row ELSE refreshW[j]
    BY <1>4, <2>1 DEF UpdateRefresh, TypeOK
  <2>11. Place(r)'
    BY <1>1, <1>2, <2>3, <2>6 DEF Place, Decodable
  <2>12. Writes(r)'
    <3>1. ASSUME NEW j \in Pairs, refreshBy'[j] = r
          PROVE  \/ /\ j = copy[r].next
                    /\ refreshW'[j] = [refresh[j] EXCEPT !.revoked = TRUE]
                 \/ j = issued[r] /\ refreshW'[j] = NewRefresh
                 \/ /\ j = token[r]
                    /\ refreshW'[j] = [refresh[j] EXCEPT !.consumed = TRUE, !.next = issued[r]]
      <4>1. CASE j = t
        BY <2>9, <2>10, <4>1
      <4>2. CASE j # t
        BY <1>2, <2>10, <3>1, <4>2 DEF Writes
      <4> QED
        BY <4>1, <4>2
    <3>2. \A j \in Pairs : accessBy[j] = r =>
            \/ j = copy[r].next
            \/ j = issued[r] /\ accessW[j] = NewAccess
      BY <1>2, <2>1 DEF Writes
    <3>3. /\ copy[r].next # 0 => refreshBy'[copy[r].next] = r
          /\ refreshBy'[issued[r]] = r /\ accessBy[issued[r]] = r
          /\ refreshBy'[t] = r
      BY <1>2, <1>4, <2>5, <2>7, <2>10 DEF Writes
    <3> QED
      BY <1>1, <2>6, <3>1, <3>2, <3>3 DEF Writes
  <2> QED
    BY <1>1, <1>2, <1>3, <2>3, <2>4, <2>11, <2>12, Assemble DEF PCs
<1> QED
  BY <1>5, <1>6

\* A pair that is issued has a name nobody knows.
LEMMA GenerateKeepsChain ==
    ASSUME TypeOK, ChainInv, NEW r \in Requests, GenerateTokenPair(r)
    PROVE  ChainInv'
<1> USE DEF refreshVars, accessVars
<1> DEFINE n == lastPair + 1
<1>1. /\ r \in Running /\ pc[r] = "generate" /\ lastPair' = n /\ lastPair < MaxPairs
      /\ UpdateAccess(r, n, NewAccess) /\ UpdateRefresh(r, n, NewRefresh)
      /\ issued' = [issued EXCEPT ![r] = n] /\ Continue(r, "consume")
      /\ UNCHANGED <<refresh, access, kind, token, copy>>
  BY DEF GenerateTokenPair, UpdateRefresh, UpdateAccess, Running
<1>2. Place(r) /\ Writes(r) /\ kind[r] = "refresh"
  BY <1>1 DEF ChainInv, Place
<1>3. n \in Pairs /\ lastPair \in Nat /\ held \in 1 .. lastPair
  BY <1>1, RotationAssumption DEF TypeOK, Pairs
<1>4. /\ issued'[r] = n /\ \A s \in Requests \ {r} : issued'[s] = issued[s]
      /\ pc' = [pc EXCEPT ![r] = "consume"] /\ pc'[r] = "consume"
      /\ UNCHANGED <<held, waiting>>
      /\ \A s \in Requests \ {r} : pc'[s] = pc[s]
  BY <1>1 DEF Continue, Goto, clientVars, TypeOK
<1>5. \A s \in Requests \ {r} : LeavesAlone(s)
  BY <1>1, <1>3, <1>4, RowTypes, WriteLeaves
<1>6. NamesInv'
  <2>1. ASSUME NEW s \in Requests
        PROVE  /\ token[s] < n /\ issued[s] < n /\ issued[s] \in Nat /\ copy[s].next < n
               /\ copy[s].next # 0 => copy[s].next <= lastPair
    BY <1>3, KnownPairs DEF ChainInv, NamesInv
  <2>2. ASSUME NEW i \in Pairs PROVE refresh[i].next # n
    BY <1>3 DEF ChainInv, NamesInv
  <2>3. ASSUME NEW i \in Pairs, refresh[i].next # 0
        PROVE  refresh[i].next > i /\ refresh[i].next <= lastPair'
    <3>1. refresh[i].next \in Nat
      BY RotationAssumption DEF TypeOK, RefreshRows
    <3> QED
      BY <1>1, <1>3, <2>3, <3>1 DEF ChainInv, NamesInv
  <2>4. ASSUME NEW s \in Requests, copy[s].next # 0
        PROVE  /\ copy[s].next > token[s] /\ copy[s].next <= lastPair'
               /\ \A i \in Pairs : refresh[i].next = copy[s].next => i = token[s]
    BY <1>1, <1>3, <2>4, KnownPairs DEF ChainInv, NamesInv
  <2>5. ASSUME NEW s \in Requests, issued'[s] # 0
        PROVE  /\ issued'[s] > token[s]
               /\ \A i \in Pairs : refresh[i].next # issued'[s]
               /\ \A q \in Requests : copy[q].next # issued'[s]
               /\ \A q \in Requests : issued'[q] = issued'[s] => q = s
    <3>1. CASE s = r
      <4>1. issued'[s] = n /\ n > token[s]
        BY <1>3, <1>4, <2>1, <3>1, KnownPairs
      <4>2. \A q \in Requests : copy[q].next # n /\ issued[q] # n
        BY <1>3, <2>1, KnownPairs
      <4>3. \A q \in Requests : issued'[q] = n => q = s
        BY <1>4, <3>1, <4>2
      <4> QED
        BY <2>2, <4>1, <4>2, <4>3
    <3>2. CASE s # r
      BY <1>4, <2>1, <2>5, <3>2 DEF ChainInv, NamesInv
    <3> QED
      BY <3>1, <3>2
  <2> QED
    BY <1>1, <2>3, <2>4, <2>5 DEF ChainInv, NamesInv
<1>7. Generating(r) /\ ~Generated(r) /\ ~Consumed(r)
  BY <1>1 DEF Generating, Generated, Consumed, At
<1>8. Generating(r)' /\ Generated(r)' /\ ~Consumed(r)'
  BY <1>4 DEF Generating, Generated, Consumed, At
<1>9. Place(r)'
  BY <1>1, <1>2, <1>4, <1>8 DEF Place, Decodable
<1>10. Writes(r)'
  <2>1. \A j \in Pairs : /\ refreshBy'[j] = IF j = n THEN r ELSE refreshBy[j]
                         /\ refreshW'[j] = IF j = n THEN NewRefresh ELSE refreshW[j]
                         /\ accessBy'[j] = IF j = n THEN r ELSE accessBy[j]
                         /\ accessW'[j] = IF j = n THEN NewAccess ELSE accessW[j]
    BY <1>1, <1>3 DEF UpdateRefresh, UpdateAccess, TypeOK
  <2>2. ASSUME NEW j \in Pairs, refreshBy'[j] = r
        PROVE  \/ /\ j = copy[r].next
                  /\ refreshW'[j] = [refresh[j] EXCEPT !.revoked = TRUE]
               \/ j = issued'[r] /\ refreshW'[j] = NewRefresh
    BY <1>2, <1>4, <1>7, <2>1, <2>2 DEF Writes
  <2>3. ASSUME NEW j \in Pairs, accessBy'[j] = r
        PROVE  \/ j = copy[r].next
               \/ j = issued'[r] /\ accessW'[j] = NewAccess
    BY <1>1, <1>2, <1>4, <1>7, <2>1, <2>3 DEF Writes
  <2>4. copy[r].next # 0 => refreshBy'[copy[r].next] = r
    BY <1>2, <1>7, <2>1, KnownPairs DEF Writes
  <2> QED
    BY <1>1, <1>3, <1>4, <1>8, <2>1, <2>2, <2>3, <2>4 DEF Writes
<1>11. issued'[r] # held
  BY <1>3, <1>4
<1>12. ~Overlap => copy'[r] = refresh[held]
  BY <1>1, <1>2 DEF ChainInv, SerialInv
<1> QED
  BY <1>1, <1>4, <1>5, <1>6, <1>9, <1>10, <1>11, <1>12, Assemble DEF PCs

\* A request is sent with the pair the client holds and has written nothing.
LEMMA SendKeepsChain ==
    ASSUME TypeOK, OwnInv, ChainInv, NEW r \in Requests, Send(r)
    PROVE  ChainInv'
<1> USE DEF refreshVars, accessVars
<1>1. /\ pc[r] = "idle" /\ waiting = None /\ (Overlap \/ Running = {})
      /\ token' = [token EXCEPT ![r] = held] /\ waiting' = r
      /\ pc' = [pc EXCEPT ![r] = "find"]
      /\ UNCHANGED <<refreshVars, accessVars, lastPair, copy, issued, held>>
  BY DEF Send, Goto
<1>2. /\ token'[r] = held /\ pc'[r] = "find"
      /\ \A s \in Requests \ {r} : pc'[s] = pc[s] /\ token'[s] = token[s]
  BY <1>1 DEF TypeOK
<1>3. \A s \in Requests \ {r} : kind'[s] = kind[s]
  BY DEF Send, TypeOK
<1>4. \A s \in Requests \ {r} : LeavesAlone(s)
  BY <1>1, <1>2, <1>3 DEF LeavesAlone
<1>5. Place(r)
  BY DEF ChainInv
<1>6. copy[r].next = 0 /\ issued[r] = 0
  BY <1>1, <1>5 DEF Place, Generated, At
<1>7. Place(r)'
  BY <1>1, <1>2, <1>5, <1>6 DEF Place, Decodable
<1>8. Writes(r)'
  <2>1. \A i \in Pairs : refreshBy[i] # r /\ accessBy[i] # r
    BY <1>1 DEF OwnInv
  <2>2. ~Generating(r)' /\ ~Generated(r)' /\ ~Consumed(r)'
    BY <1>2 DEF Generating, Generated, Consumed, At
  <2> QED
    BY <1>1, <2>1, <2>2 DEF Writes
<1>9. Running' = Running \cup {r}
  BY <1>1, <1>2 DEF Running
<1>10. (\A s \in Requests : Place(s)') /\ (\A s \in Running' : Writes(s)')
  BY <1>4, <1>7, <1>8, <1>9, OthersKeep DEF ChainInv, Running
<1>11. ClientInv'
  <2>1. held \in Nat
    BY DEF TypeOK, Pairs
  <2> QED
    BY <1>1, <1>2, <1>9, <2>1 DEF ChainInv, ClientInv
<1>12. NamesInv' /\ HeldInv'
  <2>1. HeldInv'
    BY <1>1 DEF ChainInv, HeldInv, Unseen, IsValid
  <2>2. NamesInv'
    <3>1. \A s \in Requests : copy'[s].next # 0 \/ issued'[s] # 0 => token'[s] = token[s]
      BY <1>1, <1>2, <1>6
    <3> QED
      BY <1>1, <3>1 DEF ChainInv, NamesInv
  <2> QED
    BY <2>1, <2>2
<1>13. SerialInv'
  <2>1. ASSUME ~Overlap, NEW s \in Running'
        PROVE  s = waiting' /\ pc'[s] = "find"
    BY <1>1, <1>2, <1>9, <2>1
  <2> QED
    BY <1>1, <2>1 DEF ChainInv, SerialInv, IsValid
<1> QED
  BY <1>10, <1>11, <1>12, <1>13 DEF ChainInv

\* What the end of a transaction leaves of the requests.
LEMMA EndLeaves ==
    ASSUME TypeOK, ChainInv, NEW r \in Requests,
           Commit(r) \/ Rollback(r), Goto(r, "done"), Forget(r)
    PROVE  /\ \A s \in Requests : Place(s)'
           /\ \A s \in Running' : Writes(s)'
           /\ Running' = Running \ {r}
           /\ token'[r] = 0 /\ copy'[r].next = 0 /\ issued'[r] = 0
           /\ \A s \in Requests \ {r} :
                /\ pc'[s] = pc[s] /\ kind'[s] = kind[s] /\ token'[s] = token[s]
                /\ copy'[s] = copy[s] /\ issued'[s] = issued[s]
<1>0. r # None /\ NoRefresh.next = 0
  BY RotationAssumption DEF NoRefresh
<1>1. /\ pc'[r] = "done" /\ kind'[r] = None /\ token'[r] = 0
      /\ copy'[r] = NoRefresh /\ issued'[r] = 0
      /\ \A s \in Requests \ {r} :
           /\ pc'[s] = pc[s] /\ kind'[s] = kind[s] /\ token'[s] = token[s]
           /\ copy'[s] = copy[s] /\ issued'[s] = issued[s]
  BY DEF Goto, Forget, TypeOK
<1>2. ASSUME NEW s \in Requests \ {r} PROVE LeavesAlone(s)
  <2>1. s # None
    BY RotationAssumption
  <2>2. ASSUME NEW i \in Pairs
        PROVE  /\ refreshBy'[i] = s <=> refreshBy[i] = s
               /\ accessBy'[i] = s <=> accessBy[i] = s
               /\ refreshBy[i] = s => refreshW'[i] = refreshW[i] /\ refresh'[i] = refresh[i]
               /\ accessBy[i] = s => accessW'[i] = accessW[i]
    <3>1. CASE Commit(r)
      BY <2>1, <3>1 DEF Commit, RefreshSeen, AccessSeen
    <3>2. CASE Rollback(r)
      BY <2>1, <3>2 DEF Rollback
    <3> QED
      BY <3>1, <3>2
  <2> QED
    BY <1>1, <2>2 DEF LeavesAlone
<1>3. Running' = Running \ {r}
  BY <1>1 DEF Running
<1>4. Place(r)'
  <2>1. Decodable(NoRefresh)
    BY DEF Decodable, NoRefresh
  <2> QED
    BY <1>0, <1>1, <2>1 DEF Place, Decodable
<1>5. (\A s \in Requests : Place(s)') /\ (\A s \in Running' : Writes(s)')
  BY <1>2, <1>3, <1>4, OthersKeep DEF ChainInv, Running
<1> QED
  BY <1>0, <1>1, <1>3, <1>5

\* A transaction that is rolled back leaves the committed rows as they are.
LEMMA RollbackKeepsChain ==
    ASSUME TypeOK, ChainInv, NEW r \in Requests, DatabaseError(r) \/ Recycle(r)
    PROVE  ChainInv'
<1>1. /\ Rollback(r) /\ Goto(r, "done") /\ Forget(r)
      /\ lastPair' = lastPair /\ held' = held
      /\ waiting' = IF waiting = r THEN None ELSE waiting
  <2>1. CASE DatabaseError(r)
    BY <2>1 DEF DatabaseError, Unanswered
  <2>2. CASE Recycle(r)
    <3>1. waiting # r
      BY <2>2, RotationAssumption DEF Recycle, ChainInv, ClientInv, Running
    <3> QED
      BY <2>2, <3>1 DEF Recycle, clientVars
  <2> QED
    BY <2>1, <2>2
<1>2. UNCHANGED <<refresh, access>>
  BY <1>1 DEF Rollback
<1>3. /\ \A s \in Requests : Place(s)'
      /\ \A s \in Running' : Writes(s)'
      /\ Running' = Running \ {r}
      /\ token'[r] = 0 /\ copy'[r].next = 0 /\ issued'[r] = 0
      /\ \A s \in Requests \ {r} :
           /\ pc'[s] = pc[s] /\ kind'[s] = kind[s] /\ token'[s] = token[s]
           /\ copy'[s] = copy[s] /\ issued'[s] = issued[s]
  BY <1>1, EndLeaves
<1>4. held \in Nat /\ held # 0
  BY DEF TypeOK, Pairs
<1>5. ClientInv'
  BY <1>1, <1>3, <1>4 DEF ChainInv, ClientInv, Running
<1>6. NamesInv'
  BY <1>1, <1>2, <1>3 DEF ChainInv, NamesInv
<1>7. HeldInv'
  BY <1>1, <1>2 DEF ChainInv, HeldInv, Unseen, IsValid
<1>8. SerialInv'
  <2>1. ASSUME ~Overlap, NEW s \in Running'
        PROVE  /\ s = waiting'
               /\ kind'[s] = "refresh" /\ pc'[s] # "find" => copy'[s] = refresh'[held']
    BY <1>1, <1>2, <1>3, <2>1 DEF ChainInv, SerialInv, Running
  <2> QED
    BY <1>1, <1>2, <2>1 DEF ChainInv, SerialInv, IsValid
<1> QED
  BY <1>3, <1>5, <1>6, <1>7, <1>8 DEF ChainInv

\* A commit that writes no refresh token: of an introspection, of a revocation
\* or of a refresh that ended the session.
LEMMA PlainSaveKeepsChain ==
    ASSUME TypeOK, ChainInv, NEW r \in Requests,
           \/ Save(r) /\ kind[r] # "refresh"
           \/ SaveRefused(r)
    PROVE  ChainInv'
<1>1. /\ Commit(r) /\ Goto(r, "done") /\ Forget(r) /\ r \in Running
      /\ lastPair' = lastPair /\ held' = held
      /\ waiting' = IF waiting = r THEN None ELSE waiting
      /\ pc[r] \in {"save", "saveRefused"}
  BY DEF Save, SaveRefused, Unanswered, Running
<1>2. Place(r) /\ Writes(r)
  BY <1>1 DEF ChainInv
<1>3. ~Generating(r) /\ ~Generated(r) /\ ~Consumed(r)
  BY DEF Save, SaveRefused, Generating, Generated, Consumed, At
<1>4. \A i \in Pairs : refresh'[i] = refresh[i]
  <2>1. \A i \in Pairs : refreshBy[i] # r
    BY <1>2, <1>3 DEF Writes
  <2> QED
    BY <1>1, <2>1 DEF Commit, RefreshSeen
<1>5. \A i \in Pairs : i # token[r] => access'[i] = access[i]
  <2>1. \A i \in Pairs : accessBy[i] = r => i = token[r]
    BY <1>1, <1>2, <1>3 DEF Writes
  <2> QED
    BY <1>1, <2>1 DEF Commit, AccessSeen
<1>6. /\ \A s \in Requests : Place(s)'
      /\ \A s \in Running' : Writes(s)'
      /\ Running' = Running \ {r}
      /\ token'[r] = 0 /\ copy'[r].next = 0 /\ issued'[r] = 0
      /\ \A s \in Requests \ {r} :
           /\ pc'[s] = pc[s] /\ kind'[s] = kind[s] /\ token'[s] = token[s]
           /\ copy'[s] = copy[s] /\ issued'[s] = issued[s]
  BY <1>1, EndLeaves
<1>7. held \in Nat /\ held # 0 /\ held \in Pairs
  BY RotationAssumption DEF TypeOK, Pairs
<1>8. ClientInv'
  BY <1>1, <1>6, <1>7 DEF ChainInv, ClientInv, Running
<1>9. NamesInv'
  <2>1. NamesInv
    BY DEF ChainInv
  <2> QED
    BY <1>1, <1>4, <1>6, <2>1 DEF NamesInv
<1>10. HeldInv'
  <2>1. ASSUME refresh[held].next # 0
        PROVE  /\ refresh[held].next \in Pairs
               /\ refresh'[refresh[held].next] = refresh[refresh[held].next]
               /\ access'[refresh[held].next] = access[refresh[held].next]
    <3>1. refresh[held].next \in Pairs /\ refresh[held].next > held
      BY <1>7, <2>1, RotationAssumption DEF ChainInv, NamesInv, TypeOK, RefreshRows, Pairs
    <3>2. token[r] <= held /\ token[r] \in Nat
      BY KnownPairs DEF ChainInv, ClientInv
    <3> QED
      BY <1>4, <1>5, <1>7, <3>1, <3>2 DEF Pairs
  <2>2. refresh'[held'] = refresh[held]
    BY <1>1, <1>4, <1>7
  <2> QED
    BY <2>1, <2>2 DEF ChainInv, HeldInv, Unseen, IsValid
<1>11. SerialInv'
  <2>1. refresh'[held'] = refresh[held]
    BY <1>1, <1>4, <1>7
  <2>2. ASSUME ~Overlap, NEW s \in Running'
        PROVE  /\ s = waiting'
               /\ kind'[s] = "refresh" /\ pc'[s] # "find" => copy'[s] = refresh'[held']
    BY <1>1, <1>6, <2>1, <2>2 DEF ChainInv, SerialInv, Running
  <2> QED
    BY <1>1, <1>4, <2>1, <2>2 DEF ChainInv, SerialInv, IsValid
<1> QED
  BY <1>6, <1>8, <1>9, <1>10, <1>11 DEF ChainInv

\* The commit of a refresh: the presented token names the new pair, which is
\* valid, and the replacement that got lost is revoked.
LEMMA RefreshCommit ==
    ASSUME TypeOK, ChainInv, NEW r \in Requests, Commit(r), At(r, "refresh", "save")
    PROVE  LET t == token[r]
               n == copy[r].next
               m == issued[r]
           IN
           /\ t \in Pairs /\ m \in Pairs /\ m > t /\ n # t /\ n # m /\ m # 0
           /\ refresh'[t] = [refresh[t] EXCEPT !.consumed = TRUE, !.next = m]
           /\ refresh'[m] = NewRefresh /\ access'[m] = NewAccess
           /\ n # 0 => n \in Pairs /\ refresh'[n] = [refresh[n] EXCEPT !.revoked = TRUE]
           /\ \A i \in Pairs \ {t, n, m} : refresh'[i] = refresh[i] /\ access'[i] = access[i]
<1> DEFINE t == token[r]
           n == copy[r].next
           m == issued[r]
<1>1. r \in Running /\ Writes(r) /\ Generating(r) /\ Generated(r) /\ Consumed(r)
  BY DEF ChainInv, Running, At, Generating, Generated, Consumed
<1>2. /\ t \in Pairs /\ m \in Pairs /\ m # 0 /\ (n # 0 => n \in Pairs)
      /\ m > t /\ n # m /\ (n # 0 => n > t)
  BY <1>1, KnownPairs DEF ChainInv, NamesInv
<1>3. t # 0 /\ n # t /\ m # t
  BY <1>2 DEF Pairs
<1>4. /\ \A i \in Pairs : refresh'[i] = IF refreshBy[i] = r THEN refreshW[i] ELSE refresh[i]
      /\ \A i \in Pairs : access'[i] = IF accessBy[i] = r THEN accessW[i] ELSE access[i]
  BY DEF Commit, RefreshSeen, AccessSeen
<1>5. /\ refreshBy[t] = r /\ refreshBy[m] = r /\ accessBy[m] = r
      /\ n # 0 => refreshBy[n] = r
  BY <1>1 DEF Writes
<1>6. refreshW[t] = [refresh[t] EXCEPT !.consumed = TRUE, !.next = m]
  BY <1>1, <1>2, <1>3, <1>5 DEF Writes
<1>7. refreshW[m] = NewRefresh
  BY <1>1, <1>2, <1>3, <1>5 DEF Writes
<1>8. n # 0 => refreshW[n] = [refresh[n] EXCEPT !.revoked = TRUE]
  BY <1>1, <1>2, <1>3, <1>5 DEF Writes
<1>9. accessW[m] = NewAccess
  BY <1>1, <1>2, <1>3, <1>5 DEF Writes
<1>10. \A i \in Pairs \ {t, n, m} : refreshBy[i] # r /\ accessBy[i] # r
  BY <1>1 DEF Writes
<1> QED
  BY <1>2, <1>3, <1>4, <1>5, <1>6, <1>7, <1>8, <1>9, <1>10

\* The commit of a refresh, whose answer may arrive.
LEMMA SaveKeepsChain ==
    ASSUME TypeOK, ChainInv, NEW r \in Requests, Save(r), kind[r] = "refresh"
    PROVE  ChainInv'
<1>1. /\ Commit(r) /\ Goto(r, "done") /\ Forget(r) /\ At(r, "refresh", "save")
      /\ lastPair' = lastPair /\ r \in Running
      /\ waiting' = IF waiting = r THEN None ELSE waiting
      /\ held' = held \/ (waiting = r /\ held' = issued[r])
  BY DEF Save, Unanswered, Running, At
<1>2. PICK t, n, m : t = token[r] /\ n = copy[r].next /\ m = issued[r]
  OBVIOUS
<1>3. /\ t \in Pairs /\ m \in Pairs /\ m > t /\ n # t /\ n # m /\ m # 0
      /\ refresh'[t] = [refresh[t] EXCEPT !.consumed = TRUE, !.next = m]
      /\ refresh'[m] = NewRefresh /\ access'[m] = NewAccess
      /\ n # 0 => n \in Pairs /\ refresh'[n] = [refresh[n] EXCEPT !.revoked = TRUE]
      /\ \A i \in Pairs \ {t, n, m} : refresh'[i] = refresh[i] /\ access'[i] = access[i]
  BY <1>1, <1>2, RefreshCommit
<1>4. /\ \A s \in Requests : Place(s)'
      /\ \A s \in Running' : Writes(s)'
      /\ Running' = Running \ {r}
      /\ token'[r] = 0 /\ copy'[r].next = 0 /\ issued'[r] = 0
      /\ \A s \in Requests \ {r} :
           /\ pc'[s] = pc[s] /\ kind'[s] = kind[s] /\ token'[s] = token[s]
           /\ copy'[s] = copy[s] /\ issued'[s] = issued[s]
  BY <1>1, EndLeaves
<1>5. /\ held \in Nat /\ held # 0 /\ held \in Pairs /\ t <= held
      /\ m <= lastPair /\ m \in Nat /\ t \in Nat /\ m # held
      /\ waiting = r => t = held
  BY <1>2, KnownPairs, RotationAssumption DEF TypeOK, Pairs, ChainInv, ClientInv
<1>6. /\ \A i \in Pairs : refresh[i] \in RefreshRows /\ refresh[i].next \in 0 .. MaxPairs
      /\ \A i \in Pairs : access[i] \in AccessRows
  BY DEF TypeOK, RefreshRows
<1>7. /\ refresh'[t].consumed /\ refresh'[t].next = m
      /\ refresh'[t].here = refresh[t].here /\ refresh'[t].revoked = refresh[t].revoked
      /\ n # 0 => /\ refresh'[n].revoked /\ refresh'[n].next = refresh[n].next
  BY <1>3, <1>6 DEF RefreshRows
<1>8. /\ NewRefresh.here /\ ~NewRefresh.consumed /\ ~NewRefresh.revoked /\ NewRefresh.next = 0
      /\ NewAccess.here /\ ~NewAccess.revoked /\ ~NewAccess.used
  BY DEF NewRefresh, NoRefresh, NewAccess, NoAccess
<1>9. \A i \in Pairs : refresh'[i].next = IF i = t THEN m ELSE IF i = m THEN 0 ELSE refresh[i].next
  <2> SUFFICES ASSUME NEW i \in Pairs
               PROVE  refresh'[i].next = IF i = t THEN m ELSE IF i = m THEN 0 ELSE refresh[i].next
    OBVIOUS
  <2>1. i # 0 /\ t # m
    BY <1>3, <1>5 DEF Pairs
  <2>2. CASE i = t
    BY <1>7, <2>2
  <2>3. CASE i = m
    BY <1>3, <1>8, <2>1, <2>3
  <2>4. CASE i = n /\ i # m /\ i # t
    BY <1>7, <2>1, <2>4
  <2>5. CASE i \notin {t, n, m}
    BY <1>3, <2>5
  <2> QED
    BY <2>2, <2>3, <2>4, <2>5
<1>10. ClientInv'
  <2>1. waiting' # None => waiting' \in Running' /\ token'[waiting'] = held'
    BY <1>1, <1>4 DEF ChainInv, ClientInv, Running
  <2>2. ASSUME NEW s \in Requests PROVE token'[s] <= held' /\ issued'[s] # held'
    <3>1. held' >= held /\ held' \in Nat
      BY <1>1, <1>2, <1>3, <1>5
    <3>2. token[s] <= held /\ issued[s] # held /\ token[s] \in Nat
      BY KnownPairs DEF ChainInv, ClientInv
    <3>3. s # r => issued[s] # m
      BY <1>2, <1>3 DEF ChainInv, NamesInv
    <3> QED
      BY <1>1, <1>2, <1>3, <1>4, <1>5, <3>1, <3>2, <3>3
  <2> QED
    BY <2>1, <2>2 DEF ClientInv
<1>11. NamesInv'
  <2>1. /\ \A i \in Pairs : refresh[i].next # m
        /\ \A q \in Requests : copy[q].next # m
        /\ \A q \in Requests : issued[q] = m => q = r
    BY <1>2, <1>3 DEF ChainInv, NamesInv
  <2>2. \A i, j \in Pairs : refresh'[i].next # 0 /\ refresh'[i].next = refresh'[j].next => i = j
    BY <1>9, <2>1 DEF ChainInv, NamesInv
  <2>3. \A i \in Pairs : refresh'[i].next # 0 =>
          refresh'[i].next > i /\ refresh'[i].next <= lastPair'
    BY <1>1, <1>3, <1>5, <1>9 DEF ChainInv, NamesInv
  <2>4. ASSUME NEW s \in Requests, copy'[s].next # 0
        PROVE  /\ copy'[s].next > token'[s] /\ copy'[s].next <= lastPair'
               /\ \A i \in Pairs : refresh'[i].next = copy'[s].next => i = token'[s]
    <3>1. s # r /\ copy'[s] = copy[s] /\ token'[s] = token[s]
      BY <1>4, <2>4
    <3> QED
      BY <1>1, <1>9, <2>1, <2>4, <3>1 DEF ChainInv, NamesInv
  <2>5. ASSUME NEW s \in Requests, issued'[s] # 0
        PROVE  /\ issued'[s] > token'[s]
               /\ \A i \in Pairs : refresh'[i].next # issued'[s]
               /\ \A q \in Requests : copy'[q].next # issued'[s]
               /\ \A q \in Requests : issued'[q] = issued'[s] => q = s
    <3>1. s # r /\ issued'[s] = issued[s] /\ token'[s] = token[s]
      BY <1>4, <2>5
    <3>2. issued[s] # m
      BY <2>1, <3>1
    <3>3. \A i \in Pairs : refresh'[i].next # issued[s]
      BY <1>9, <2>5, <3>1, <3>2 DEF ChainInv, NamesInv
    <3>4. \A q \in Requests : copy'[q].next # issued[s]
      BY <1>4, <2>5, <3>1 DEF ChainInv, NamesInv
    <3>5. \A q \in Requests : issued'[q] = issued[s] => q = s
      BY <1>4, <2>5, <3>1 DEF ChainInv, NamesInv
    <3> QED
      BY <2>5, <3>1, <3>3, <3>4, <3>5 DEF ChainInv, NamesInv
  <2> QED
    BY <2>2, <2>3, <2>4, <2>5 DEF NamesInv
<1>12. HeldInv'
  <2>1. CASE held' = m
    BY <1>3, <1>8, <2>1 DEF HeldInv
  <2>2. CASE held' = held /\ t = held
    <3>1. refresh'[held'].consumed /\ refresh'[held'].next = m
      BY <1>7, <2>2
    <3>2. Unseen(m)'
      BY <1>3, <1>8 DEF Unseen, IsValid
    <3> QED
      BY <1>3, <3>1, <3>2 DEF HeldInv
  <2>3. CASE held' = held /\ t # held /\ n = held
    BY <1>5, <1>7, <2>3 DEF HeldInv
  <2>4. CASE held' = held /\ t # held /\ n # held
    <3>1. refresh'[held] = refresh[held]
      BY <1>3, <1>5, <2>4
    <3>2. ASSUME NEW k \in Pairs, k = refresh[held].next, k # 0
          PROVE  refresh'[k] = refresh[k] /\ access'[k] = access[k]
      <4>1. k > held /\ k # m
        BY <1>2, <1>3, <1>5, <3>2 DEF ChainInv, NamesInv
      <4>2. k # n
        BY <1>2, <1>5, <2>4, <3>2 DEF ChainInv, NamesInv
      <4>3. k # t
        BY <1>5, <4>1 DEF Pairs
      <4> QED
        BY <1>3, <4>1, <4>2, <4>3
    <3>3. refresh[held].next # 0 => refresh[held].next \in Pairs
      BY <1>5, <1>6, RotationAssumption DEF Pairs
    <3> QED
      BY <2>4, <3>1, <3>2, <3>3 DEF ChainInv, HeldInv, Unseen, IsValid
  <2> QED
    BY <1>1, <1>2, <2>1, <2>2, <2>3, <2>4
<1>13. SerialInv'
  <2> SUFFICES ASSUME ~Overlap PROVE SerialInv'
    BY DEF SerialInv
  <2>1. /\ \A s \in Running : s = waiting
        /\ copy[r] = refresh[held]
        /\ refresh[held].here /\ ~refresh[held].revoked
        /\ \A i \in Pairs : refresh[i].here /\ IsValid(refresh[i])
              => i = held \/ i = refresh[held].next
    BY <1>1 DEF ChainInv, SerialInv, At
  <2>2. t = held /\ n = refresh[held].next /\ Running' = {}
    BY <1>1, <1>2, <1>4, <1>5, <2>1
  <2>3. refresh'[held'].here /\ ~refresh'[held'].revoked
    <3>1. CASE held' = m
      BY <1>3, <1>8, <3>1
    <3>2. CASE held' = held
      BY <1>7, <2>1, <2>2, <3>2
    <3> QED
      BY <1>1, <1>2, <3>1, <3>2
  <2>4. ASSUME NEW i \in Pairs, refresh'[i].here, IsValid(refresh'[i])
        PROVE  i = held' \/ i = refresh'[held'].next
    <3>1. i # t
      BY <1>7, <2>4 DEF IsValid
    <3>2. i # n
      BY <1>7, <2>4 DEF IsValid, Pairs
    <3>3. CASE i # m
      <4>1. refresh'[i] = refresh[i]
        BY <1>3, <3>1, <3>2, <3>3
      <4> QED
        BY <2>1, <2>2, <2>4, <3>1, <3>2, <4>1
    <3>4. CASE i = m
      BY <1>1, <1>2, <1>7, <2>2, <3>4
    <3> QED
      BY <3>3, <3>4
  <2> QED
    BY <2>2, <2>3, <2>4 DEF SerialInv
<1> QED
  BY <1>4, <1>10, <1>11, <1>12, <1>13 DEF ChainInv

\* The cleanup jobs do not delete a token the client depends on.
LEMMA CleanupKeepsChain ==
    ASSUME TypeOK, OwnInv, ChainInv, Cleanup
    PROVE  ChainInv'
<1> USE DEF refreshVars, accessVars, localVars, clientVars
<1>0. /\ held \in Pairs
      /\ \A i \in Pairs : refresh[i] \in RefreshRows /\ refresh[i].next \in 0 .. MaxPairs
  BY RotationAssumption DEF TypeOK, Pairs, RefreshRows
<1>1. /\ Quiet /\ UNCHANGED <<pc, kind, token, copy, issued, held, waiting, lastPair>>
      /\ UNCHANGED <<refreshBy, accessBy>>
  BY DEF Cleanup, CleanupRevokedAccess, CleanupExpiredAccess, CleanupRevokedRefresh,
     CleanupConsumedRefresh, DeleteAccess, DeleteRefresh
<1>2. Running = {} /\ Running' = {}
  BY <1>1 DEF Quiet, Running
<1>3. \A s \in Requests : Place(s)'
  BY <1>1 DEF ChainInv, Place, Generated, At, Decodable
<1>4. ClientInv'
  BY <1>1, <1>2 DEF ChainInv, ClientInv
<1>5. ASSUME NEW i \in Pairs, DeleteAccess(i), access[i].revoked \/ LongAbsence, access[i].here
      PROVE  NamesInv' /\ HeldInv' /\ SerialInv'
  <2>1. /\ UNCHANGED refresh
        /\ \A j \in Pairs : access'[j] = IF j = i THEN NoAccess ELSE access[j]
    BY <1>5 DEF DeleteAccess, TypeOK
  <2>2. NamesInv' /\ SerialInv'
    BY <1>1, <1>2, <2>1 DEF ChainInv, NamesInv, SerialInv, IsValid
  <2>3. ASSUME NEW k \in Pairs, Unseen(k) PROVE Unseen(k)'
    <3>1. CASE k = i
      <4>1. LongAbsence /\ ~NoAccess.here
        BY <1>5, <2>3, <3>1 DEF Unseen, NoAccess
      <4> QED
        BY <2>1, <2>3, <3>1, <4>1 DEF Unseen, IsValid
    <3>2. CASE k # i
      BY <2>1, <2>3, <3>2 DEF Unseen, IsValid
    <3> QED
      BY <3>1, <3>2
  <2>4. HeldInv'
    <3>1. refresh[held].next # 0 => refresh[held].next \in Pairs
      BY <1>0, RotationAssumption DEF Pairs
    <3> QED
      BY <1>1, <2>1, <2>3, <3>1 DEF ChainInv, HeldInv
  <2> QED
    BY <2>2, <2>4
<1>6. ASSUME NEW i \in Pairs, DeleteRefresh(i), refresh[i].here,
             \/ refresh[i].revoked
             \/ /\ refresh[i].consumed
                /\ refresh[i].next # 0 => refresh[refresh[i].next].consumed
      PROVE  NamesInv' /\ HeldInv' /\ SerialInv'
  <2>1. /\ UNCHANGED access
        /\ \A j \in Pairs : refresh'[j] = IF j = i THEN NoRefresh
                                          ELSE IF refresh[j].next = i THEN [refresh[j] EXCEPT !.next = 0]
                                          ELSE refresh[j]
    BY <1>6 DEF DeleteRefresh
  <2>2. /\ ~NoRefresh.here /\ NoRefresh.next = 0 /\ i # 0
        /\ \A j \in Pairs : LET row == [refresh[j] EXCEPT !.next = 0] IN
             /\ row.next = 0 /\ row.here = refresh[j].here
             /\ row.consumed = refresh[j].consumed /\ row.revoked = refresh[j].revoked
    BY <1>0 DEF NoRefresh, RefreshRows, Pairs
  <2>3. \A j \in Pairs : refresh'[j].next \in {0, refresh[j].next}
    BY <2>1, <2>2
  <2>4. NamesInv'
    <3>1. NamesInv
      BY DEF ChainInv
    <3>2. /\ \A j, k \in Pairs : refresh'[j].next # 0 /\ refresh'[j].next = refresh'[k].next => j = k
          /\ \A j \in Pairs : refresh'[j].next # 0 => refresh'[j].next > j /\ refresh'[j].next <= lastPair
      BY <2>3, <3>1 DEF NamesInv
    <3>3. ASSUME NEW s \in Requests, copy[s].next # 0
          PROVE  \A j \in Pairs : refresh'[j].next = copy[s].next => j = token[s]
      BY <2>3, <3>1, <3>3 DEF NamesInv
    <3>4. ASSUME NEW s \in Requests, issued[s] # 0
          PROVE  \A j \in Pairs : refresh'[j].next # issued[s]
      BY <2>3, <3>1, <3>4 DEF NamesInv
    <3> QED
      BY <1>1, <3>1, <3>2, <3>3, <3>4 DEF NamesInv
  <2>5. ASSUME NEW k \in Pairs, Unseen(k) PROVE k # i /\ Unseen(k)'
    <3>1. k # i
      BY <1>6, <2>5 DEF Unseen, IsValid
    <3>2. refresh'[k] = refresh[k]
      BY <2>1, <2>2, <2>5, <3>1 DEF Unseen
    <3> QED
      BY <2>1, <2>5, <3>1, <3>2 DEF Unseen, IsValid
  <2>6. refresh[held].next # 0 => refresh[held].next \in Pairs
    BY <1>0, RotationAssumption DEF Pairs
  <2>7. ASSUME refresh[held].here, ~refresh[held].revoked
        PROVE  refresh'[held] = refresh[held] /\ held # i /\ refresh[held].next # i
    <3>1. held # i
      <4> SUFFICES ASSUME held = i PROVE FALSE
        OBVIOUS
      <4>1. refresh[i].consumed /\ (refresh[i].next # 0 => refresh[refresh[i].next].consumed)
        BY <1>6, <2>7
      <4> QED
        BY <2>7, <4>1 DEF ChainInv, HeldInv, Unseen, IsValid
    <3>2. refresh[held].next # i
      BY <2>2, <2>5, <2>6, <2>7 DEF ChainInv, HeldInv
    <3> QED
      BY <1>0, <2>1, <3>1, <3>2
  <2>8. HeldInv'
    <3>1. refresh'[held].here => refresh[held].here /\ refresh'[held].revoked = refresh[held].revoked
      BY <1>0, <2>1, <2>2
    <3> QED
      BY <1>1, <2>5, <2>6, <2>7, <3>1 DEF ChainInv, HeldInv
  <2>9. SerialInv'
    <3>1. ASSUME NEW j \in Pairs, refresh'[j].here, IsValid(refresh'[j])
          PROVE  refresh[j].here /\ IsValid(refresh[j])
      BY <2>1, <2>2, <3>1 DEF IsValid
    <3> QED
      BY <1>1, <1>2, <2>7, <3>1 DEF ChainInv, SerialInv
  <2> QED
    BY <2>4, <2>8, <2>9
<1>7. NamesInv' /\ HeldInv' /\ SerialInv'
  BY <1>5, <1>6 DEF Cleanup, CleanupRevokedAccess, CleanupExpiredAccess,
     CleanupRevokedRefresh, CleanupConsumedRefresh
<1> QED
  BY <1>2, <1>3, <1>4, <1>7 DEF ChainInv

\* The invariant is inductive.
LEMMA ChainStep ==
    ASSUME TypeOK, RotationInv, ChainInv, [Next]_vars
    PROVE  ChainInv'
<1> USE DEF refreshVars, accessVars, localVars, clientVars
<1>0. SyncInv /\ OwnInv
  BY DEF RotationInv, TablesInv
<1>1. ASSUME UNCHANGED <<refreshVars, accessVars, lastPair, pc, kind, token, copy, issued, held>>,
             waiting' = waiting \/ (Overlap /\ waiting' = None)
      PROVE  ChainInv'
  <2>1. \A s \in Requests : LeavesAlone(s)
    BY <1>1 DEF LeavesAlone
  <2>2. Running' = Running
    BY <1>1 DEF Running
  <2>3. (\A s \in Requests : Place(s)') /\ (\A s \in Running' : Writes(s)')
    BY <2>1, <2>2, OthersKeep DEF ChainInv, Running
  <2>4. ClientInv' /\ NamesInv'
    BY <1>1, <2>2 DEF ChainInv, ClientInv, NamesInv
  <2>5. HeldInv' /\ SerialInv'
    BY <1>1, <2>2 DEF ChainInv, HeldInv, SerialInv, Unseen, IsValid
  <2> QED
    BY <2>3, <2>4, <2>5 DEF ChainInv
<1>2. CASE GiveUp \/ Demote \/ UNCHANGED vars
  BY <1>1, <1>2 DEF GiveUp, Demote, vars
<1>3. CASE Cleanup
  BY <1>0, <1>3, CleanupKeepsChain
<1>4. ASSUME NEW r \in Requests, Serve(r) PROVE ChainInv'
  <2>1. CASE RefreshStep(r)
    BY <1>0, <2>1, FindKeepsChain, ReadsKeepChain, AccessKeepsChain, RefreshKeepsChain,
       GenerateKeepsChain DEF RefreshStep
  <2>2. CASE OtherStep(r) \/ FinishSession(r)
    BY <2>2, ReadsKeepChain, AccessKeepsChain DEF OtherStep
  <2>3. CASE Save(r) \/ SaveRefused(r)
    BY <2>3, SaveKeepsChain, PlainSaveKeepsChain
  <2> QED
    BY <1>4, <2>1, <2>2, <2>3 DEF Serve
<1>5. ASSUME NEW r \in Requests, Send(r) \/ Drop(r) \/ DatabaseError(r) \/ Recycle(r)
      PROVE  ChainInv'
  BY <1>0, <1>5, SendKeepsChain, ReadsKeepChain, RollbackKeepsChain
<1> QED
  BY <1>2, <1>3, <1>4, <1>5 DEF Next

\* A fresh session satisfies the invariant.
LEMMA ChainInit == Init => ChainInv
<1> SUFFICES ASSUME Init PROVE ChainInv
  OBVIOUS
<1>1. /\ NewRefresh.here /\ ~NewRefresh.consumed /\ ~NewRefresh.revoked /\ NewRefresh.next = 0
      /\ ~NoRefresh.here /\ NoRefresh.next = 0 /\ Decodable(NoRefresh)
  BY DEF NewRefresh, NoRefresh, Decodable
<1>2. 1 \in Pairs /\ Running = {}
  BY RotationAssumption DEF Pairs, Init, Running
<1>3. \A i \in Pairs : refresh[i].next = 0 /\ (refresh[i].here => i = 1)
  BY <1>1 DEF Init
<1>4. \A s \in Requests : Place(s)
  BY <1>1 DEF Init, Place
<1>5. ClientInv /\ NamesInv
  BY <1>1, <1>2, <1>3 DEF Init, ClientInv, NamesInv
<1>6. HeldInv /\ SerialInv
  BY <1>1, <1>2, <1>3 DEF Init, HeldInv, SerialInv
<1> QED
  BY <1>2, <1>4, <1>5, <1>6 DEF ChainInv

\* The invariant holds in every reachable state.
THEOREM ChainHolds == Spec => [](TypeOK /\ ChainInv)
BY TypeInit, TypeStep, RotationInit, RotationStep, ChainInit, ChainStep, PTL DEF Spec

\* The pair the client holds can be refreshed, if it was not revoked or deleted
\* and the client has not stayed away too long.
LEMMA HeldFact ==
    ASSUME TypeOK, ChainInv, refresh[held].here, ~refresh[held].revoked
    PROVE  \/ CanRefresh(held)
           \/ LongAbsence /\ refresh[held].next # 0 /\ ~access[refresh[held].next].here
<1>1. CASE ~refresh[held].consumed /\ refresh[held].next = 0
  BY <1>1 DEF CanRefresh, Decodable, IsValid
<1>2. CASE /\ refresh[held].consumed /\ refresh[held].next # 0
           /\ Unseen(refresh[held].next)
  BY <1>2 DEF CanRefresh, Decodable, IsValid, Unseen
<1> QED
  BY <1>1, <1>2 DEF ChainInv, HeldInv

\* A client that sends one request at a time can always refresh with the pair
\* it received last, whichever answers got lost and requests failed.
THEOREM NeverLockedOutHolds == Spec => []NeverLockedOut
<1>1. TypeOK /\ ChainInv => NeverLockedOut
  BY HeldFact DEF NeverLockedOut, ChainInv, SerialInv
<1> QED
  BY <1>1, ChainHolds, PTL

\* Its session never has two refresh tokens that are valid.
THEOREM SingleChainHolds == Spec => []SingleChain
<1>1. ASSUME TypeOK, ChainInv, ~Overlap, NEW i \in Pairs, NEW j \in Pairs,
             refresh[i].here, IsValid(refresh[i]), refresh[j].here, IsValid(refresh[j])
      PROVE  i = j
  <2>1. (i = held \/ i = refresh[held].next) /\ (j = held \/ j = refresh[held].next)
    BY <1>1 DEF ChainInv, SerialInv
  <2>2. \/ ~refresh[held].consumed /\ refresh[held].next = 0
        \/ refresh[held].consumed
    BY <1>1 DEF ChainInv, SerialInv, HeldInv
  <2>3. i # 0 /\ j # 0
    BY DEF Pairs
  <2> QED
    BY <1>1, <2>1, <2>2, <2>3 DEF IsValid
<1>2. TypeOK /\ ChainInv => SingleChain
  BY <1>1 DEF SingleChain
<1> QED
  BY <1>2, ChainHolds, PTL

\* A client whose requests overlap is locked out only by a duplicate that
\* revoked the pair it holds, or by a long absence.
THEOREM LockedOutOnlyByDuplicateHolds == Spec => []LockedOutOnlyByDuplicate
<1>1. TypeOK /\ ChainInv => LockedOutOnlyByDuplicate
  BY HeldFact DEF LockedOutOnlyByDuplicate
<1> QED
  BY <1>1, ChainHolds, PTL
=============================================================================
