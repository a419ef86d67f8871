------------------------ MODULE GrantExchangeProofs ------------------------
(***************************************************************************)
(* Proofs about GrantExchange, for any number of codes, devices, requests  *)
(* and sessions: a spent code gives no tokens, a late replay ends the      *)
(* sessions of its code, and the homeserver ends with the devices of the   *)
(* sessions that are in use, each with the exceptions the property names.  *)
(***************************************************************************)
EXTENDS GrantExchange, FiniteSetTheorems, TLAPS

Kind(p) == txn[p].kind
Txns == [kind : Kinds \cup {None}, grant : Grants \cup {None},
         session : Sessions \cup {None}, device : Devices \cup {None},
         agent : BOOLEAN, spent : BOOLEAN, devices : SUBSET Devices]

\* The types of the variables, and no more.
Typed ==
    /\ authCode \in [AuthCodes -> AuthRow] /\ deviceCode \in [DeviceCodes -> DeviceRow]
    /\ session \in [Sessions -> SessionRow]
    /\ minted \in 0 .. MaxSessions
    /\ browser \in {"active", "finished"} /\ admin \in BOOLEAN
    /\ syncJobs \in Nat /\ hs \subseteq Devices
    /\ syncBy \in Procs \cup {None} /\ rowBy \in [Lockable -> Procs \cup {None}]
    /\ pc \in [Procs -> PCs] /\ txn \in [Procs -> Txns]
    /\ consented \in [AuthCodes -> SUBSET Sessions]
    /\ issued \in [Grants -> SUBSET Sessions] /\ exchanges \in [Grants -> Nat]
    /\ replayed \subseteq AuthCodes /\ strays \subseteq Devices
    /\ requests \in 0 .. MaxRequests /\ mishaps \in 0 .. MaxMishaps

\* Where a request of each kind can be.
PlacesOf(k) ==
    CASE k = None -> {"idle"}
      [] k \in {"consent", "approve", "reject"} -> {"decide"}
      [] k = "exchange" -> {"session", "lock", "upsert", "save"}
      [] k = "poll" -> {"row", "lock", "upsert", "save"}
      [] k = "login" -> {"lock", "finish", "upsert", "save"}
      [] k = "personal" -> {"lock", "upsert", "save"}
      [] k = "sync" -> {"lock", "collect", "collectPersonal", "push", "save"}

\* The requests that start a session of their own.
Starts(p) == Kind(p) \in {"consent", "poll", "login", "personal"}

\* What a request knows of the grant, the session and the device it is about.
Knows(p) ==
    LET t == txn[p] IN
    /\ pc[p] \in PlacesOf(t.kind)
    /\ t.kind = None => t = NoTxn
    /\ ~t.spent
    /\ t.kind = "consent" => t.grant \in AuthCodes
    /\ t.kind \in {"approve", "reject"} => t.grant \in DeviceCodes
    /\ t.kind = "exchange" =>
         t.grant \in AuthCodes /\ t.session \in consented[t.grant] /\ t.device = DeviceOf[t.grant]
    /\ t.kind = "poll" =>
         t.grant \in DeviceCodes /\ t.device = DeviceOf[t.grant] /\ deviceCode[t.grant].fulfilled
    /\ t.kind \in {"login", "personal"} => t.device \in Devices
    /\ t.kind = "sync" /\ pc[p] \in {"lock", "collect"} => t.devices = {}
    /\ Starts(p) => t.session \in 1 .. minted /\ session[t.session].state = "none"

\* The locks it holds.
Locks(p) ==
    /\ pc[p] = "idle" => \A r \in Lockable : rowBy[r] # p
    /\ pc[p] \in {"finish", "upsert", "collect", "collectPersonal", "push", "save"} => syncBy = p
    /\ Kind(p) \in {"login", "personal"} =>
         \A s \in Sessions : rowBy[s] = p =>
           session[s].state # "none" /\ session[s].device = txn[p].device

\* A row of a code says whether it was consented to and exchanged.
AuthInv ==
    \A c \in AuthCodes :
      /\ authCode[c].fulfilled = "no" <=> authCode[c].session = None
      /\ authCode[c].session # None => authCode[c].session \in consented[c]
      /\ authCode[c].exchanged # "no" \/ consented[c] # {} => authCode[c].fulfilled # "no"
      /\ exchanges[c] > 0 => authCode[c].exchanged # "no"
      /\ issued[c] \subseteq consented[c]
      /\ \A s \in consented[c] :
           session[s].state # "none" /\ session[s].device = DeviceOf[c]
DeviceInv ==
    \A c \in DeviceCodes :
      /\ deviceCode[c].exchanged <=> deviceCode[c].session # None
      /\ deviceCode[c].exchanged => deviceCode[c].fulfilled
      /\ exchanges[c] > 0 => deviceCode[c].exchanged
      /\ \A s \in issued[c] : session[s].state # "none"

\* Sessions are started once, by one request.
SessionInv ==
    /\ \A s \in Sessions :
         /\ s > minted => session[s].state = "none"
         /\ session[s].state # "none" => session[s].device \in Devices
    /\ \A p, q \in Procs :
         Starts(p) /\ Starts(q) /\ txn[p].session = txn[q].session => p = q

\* A late replay has ended the sessions consents had started for the code.
ReplayInv ==
    \A c \in replayed :
      /\ consented[c] # {}
      /\ \/ \E s1, s2 \in consented[c] : s1 # s2
         \/ \A s \in consented[c] : session[s].state # "active"

\* The homeserver has the devices that are in use, and a sync that is under
\* way will not take one from it: nothing comes into use while it has the lock.
PresentInv ==
    /\ DevicesOf(InUse) \subseteq hs
    /\ \A p \in Procs :
         /\ pc[p] = "collectPersonal" =>
              DevicesOf({s \in InUse : session[s].type = "oauth2"}) \subseteq txn[p].devices
         /\ pc[p] = "push" => DevicesOf(InUse) \subseteq txn[p].devices
         /\ pc[p] = "save" /\ Kind(p) # "sync" => txn[p].device \in hs

\* A device on the homeserver has a session, or is about to get one, or was
\* left behind, or a sync that has still to read the sessions will remove it.
SyncWaits ==
    syncJobs > 0 \/ \E p \in Procs : Kind(p) = "sync" /\ pc[p] \in {"lock", "collect"}
Covered ==
    DevicesOf(Active) \cup strays \cup
      {d \in Devices : \E p \in Procs : pc[p] = "save" /\ Kind(p) # "sync" /\ txn[p].device = d}
RemovedInv ==
    /\ SyncWaits \/ (\E p \in Procs : pc[p] \in {"collectPersonal", "push"}) \/ hs \subseteq Covered
    /\ \A p \in Procs : pc[p] \in {"collectPersonal", "push"} =>
         SyncWaits \/ txn[p].devices \subseteq Covered

IInv ==
    /\ Typed /\ (\A p \in Procs : Knows(p) /\ Locks(p))
    /\ AuthInv /\ DeviceInv /\ SessionInv /\ ReplayInv /\ PresentInv /\ RemovedInv

-----------------------------------------------------------------------------
(***************************************************************************)
(* Facts about the state.                                                  *)
(***************************************************************************)
\* What a process does, by its place.
LEMMA Places ==
    ASSUME IInv, NEW p \in Procs
    PROVE  /\ txn[p] \in Txns /\ Kind(p) \in Kinds \cup {None} /\ pc[p] \in PCs
           /\ pc[p] = "idle" <=> Kind(p) = None
           /\ pc[p] = "idle" <=> txn[p] = NoTxn
           /\ pc[p] = "decide" <=> Kind(p) \in {"consent", "approve", "reject"}
           /\ pc[p] = "session" => Kind(p) = "exchange"
           /\ pc[p] = "row" => Kind(p) = "poll"
           /\ pc[p] = "finish" => Kind(p) = "login"
           /\ pc[p] = "upsert" => Kind(p) \in {"exchange", "poll", "login", "personal"}
           /\ pc[p] \in {"collect", "collectPersonal", "push"} => Kind(p) = "sync"
           /\ pc[p] \in {"lock", "save"} => Kind(p) \in {"exchange", "poll", "login", "personal", "sync"}
           /\ Kind(p) \in {"exchange", "poll", "login", "personal"} => txn[p].device \in Devices
           /\ Kind(p) \in {"exchange", "poll", "consent", "login", "personal"} => txn[p].session \in Sessions
           /\ Kind(p) \in {"exchange", "poll", "consent", "approve", "reject"} => txn[p].grant \in Grants
    <1>1. txn[p] \in Txns /\ Kind(p) \in Kinds \cup {None} /\ pc[p] \in PCs
        BY DEF IInv, Typed, Txns, Kind
    <1>2. pc[p] \in PlacesOf(Kind(p)) /\ (Kind(p) = None => txn[p] = NoTxn)
        BY DEF IInv, Knows, Kind
    <1>3. NoTxn.kind = None /\ None \notin Kinds
        BY KindAssumption DEF NoTxn
    <1>4. /\ Kind(p) = None => PlacesOf(Kind(p)) = {"idle"}
          /\ Kind(p) \in {"consent", "approve", "reject"} => PlacesOf(Kind(p)) = {"decide"}
          /\ Kind(p) = "exchange" => PlacesOf(Kind(p)) = {"session", "lock", "upsert", "save"}
          /\ Kind(p) = "poll" => PlacesOf(Kind(p)) = {"row", "lock", "upsert", "save"}
          /\ Kind(p) = "login" => PlacesOf(Kind(p)) = {"lock", "finish", "upsert", "save"}
          /\ Kind(p) = "personal" => PlacesOf(Kind(p)) = {"lock", "upsert", "save"}
          /\ Kind(p) = "sync" => PlacesOf(Kind(p)) = {"lock", "collect", "collectPersonal", "push", "save"}
        BY <1>3 DEF PlacesOf, Kinds
    <1>5. /\ pc[p] = "idle" <=> Kind(p) = None
          /\ pc[p] = "decide" <=> Kind(p) \in {"consent", "approve", "reject"}
          /\ pc[p] = "session" => Kind(p) = "exchange"
          /\ pc[p] = "row" => Kind(p) = "poll"
          /\ pc[p] = "finish" => Kind(p) = "login"
          /\ pc[p] = "upsert" => Kind(p) \in {"exchange", "poll", "login", "personal"}
          /\ pc[p] \in {"collect", "collectPersonal", "push"} => Kind(p) = "sync"
          /\ pc[p] \in {"lock", "save"} => Kind(p) \in {"exchange", "poll", "login", "personal", "sync"}
      <2>1. CASE Kind(p) = None
        BY <1>2, <1>3, <1>4, <2>1 DEF Kinds
      <2>2. CASE Kind(p) \in Kinds
        BY <1>2, <1>3, <1>4, <2>2 DEF Kinds
      <2>. QED  BY <1>1, <2>1, <2>2
    <1>6. pc[p] = "idle" <=> txn[p] = NoTxn
        BY <1>2, <1>3, <1>5 DEF Kind
    <1>7. /\ Kind(p) \in {"exchange", "poll", "login", "personal"} => txn[p].device \in Devices
          /\ Kind(p) \in {"exchange", "poll", "consent", "login", "personal"} => txn[p].session \in Sessions
          /\ Kind(p) \in {"exchange", "poll", "consent", "approve", "reject"} => txn[p].grant \in Grants
      <2>1. Knows(p) /\ Typed
        BY DEF IInv
      <2>2. \A g \in Grants : DeviceOf[g] \in Devices
        BY ConstantsAssumption
      <2>3. minted \in 0 .. MaxSessions /\ MaxSessions \in Nat /\ consented \in [AuthCodes -> SUBSET Sessions]
        BY <2>1, ConstantsAssumption DEF Typed
      <2>. QED  BY <2>1, <2>2, <2>3 DEF Knows, Kind, Starts, Grants, Sessions
    <1>. QED  BY <1>1, <1>5, <1>6, <1>7

\* The inductive invariant gives the types.
LEMMA TypedFact == IInv => Typed
    BY DEF IInv

\* The empty transaction.
LEMMA NoTxnFact ==
    /\ NoTxn \in Txns /\ NoTxn.kind = None /\ NoTxn.spent = FALSE /\ NoTxn.devices = {}
    /\ \A k : k \in Kinds => k # None
    BY KindAssumption DEF NoTxn, Txns

\* The end of a transaction keeps the types.
LEMMA EndType ==
    ASSUME IInv, NEW p \in Procs, End(p)
    PROVE  /\ pc' \in [Procs -> PCs] /\ txn' \in [Procs -> Txns]
           /\ syncBy' \in Procs \cup {None} /\ rowBy' \in [Lockable -> Procs \cup {None}]
    BY NoTxnFact, TypedFact DEF Typed, End, Goto, PCs

\* Every session that ends stays as it is otherwise.
LEMMA FinishedFact ==
    ASSUME IInv, NEW ss
    PROVE  /\ Finished(ss) \in [Sessions -> SessionRow]
           /\ \A s \in Sessions :
                /\ Finished(ss)[s].state = IF s \in ss THEN "finished" ELSE session[s].state
                /\ Finished(ss)[s].type = session[s].type
                /\ Finished(ss)[s].device = session[s].device
                /\ s \notin ss => Finished(ss)[s] = session[s]
    <1>1. \A s \in Sessions : session[s] \in SessionRow
        BY TypedFact DEF Typed
    <1>2. ASSUME NEW s \in Sessions
          PROVE  /\ [session[s] EXCEPT !.state = "finished"] \in SessionRow
                 /\ [session[s] EXCEPT !.state = "finished"].state = "finished"
                 /\ [session[s] EXCEPT !.state = "finished"].type = session[s].type
                 /\ [session[s] EXCEPT !.state = "finished"].device = session[s].device
        BY <1>1 DEF SessionRow
    <1>. QED  BY <1>1, <1>2 DEF Finished
-----------------------------------------------------------------------------
(***************************************************************************)
(* What a step of p, or of nobody that is modelled as a process (None),    *)
(* leaves alone.                                                           *)
(***************************************************************************)
Keeps(p) ==
    /\ \A q \in Procs \ {p} :
         /\ pc'[q] = pc[q] /\ txn'[q] = txn[q]
         /\ \A r \in Lockable : rowBy'[r] = q => rowBy[r] = q
         /\ syncBy = q => syncBy' = q
    /\ minted <= minted'
    /\ \A c \in AuthCodes : consented[c] \subseteq consented'[c]
    /\ \A c \in DeviceCodes : deviceCode[c].fulfilled => deviceCode'[c].fulfilled
    /\ \A s \in Sessions :
         /\ session[s].state # "none" =>
              /\ session'[s].state # "none"
              /\ session'[s].device = session[s].device
              /\ session'[s].type = session[s].type
              /\ session'[s].state = "active" => session[s].state = "active"
         /\ session[s].state = "none" =>
              session'[s] = session[s] \/ (p \in Procs /\ Starts(p) /\ s = txn[p].session)

\* The other processes still know what they knew.
LEMMA KnowsKept ==
    ASSUME IInv, NEW p, Keeps(p), Typed', NEW q \in Procs, q # p
    PROVE  Knows(q)' /\ Locks(q)'
    <1>1. pc'[q] = pc[q] /\ txn'[q] = txn[q] /\ (syncBy = q => syncBy' = q)
          /\ \A r \in Lockable : rowBy'[r] = q => rowBy[r] = q
        BY DEF Keeps
    <1>2. (Kind(q)' = Kind(q)) /\ (Starts(q)' <=> Starts(q))
        BY <1>1 DEF Kind, Starts
    <1>3. Knows(q) /\ Locks(q) /\ txn[q] \in Txns
        BY Places DEF IInv
    <1>4. Starts(q) => txn[q].session \in 1 .. minted' /\ session'[txn[q].session].state = "none"
      <2>1. SUFFICES ASSUME Starts(q)
            PROVE  txn[q].session \in 1 .. minted' /\ session'[txn[q].session].state = "none"
        OBVIOUS
      <2>2. txn[q].session \in 1 .. minted /\ session[txn[q].session].state = "none"
        BY <1>3, <2>1 DEF Knows
      <2>3. minted \in Nat /\ minted' \in Nat /\ minted <= minted'
        BY TypedFact DEF Typed, Keeps
      <2>4. txn[q].session \in Sessions
        BY <2>1, Places DEF Starts
      <2>5. ~(p \in Procs /\ Starts(p) /\ txn[q].session = txn[p].session)
        BY <2>1 DEF IInv, SessionInv
      <2>6. session'[txn[q].session] = session[txn[q].session]
        BY <2>2, <2>4, <2>5 DEF Keeps
      <2>. QED  BY <2>2, <2>3, <2>6
    <1>5. Knows(q)'
      <2>1. Kind(q) = "exchange" => txn[q].session \in consented'[txn[q].grant]
        BY <1>3 DEF Knows, Kind, Keeps
      <2>2. Kind(q) = "poll" => deviceCode'[txn[q].grant].fulfilled
        BY <1>3 DEF Knows, Kind, Keeps
      <2>. QED  BY <1>1, <1>2, <1>3, <1>4, <2>1, <2>2 DEF Knows, Kind
    <1>6. Locks(q)'
      <2>1. ASSUME NEW s \in Sessions, rowBy'[s] = q, Kind(q) \in {"login", "personal"}
            PROVE  session'[s].state # "none" /\ session'[s].device = txn[q].device
        <3>1. rowBy[s] = q
            BY <1>1, <2>1 DEF Lockable
        <3>2. session[s].state # "none" /\ session[s].device = txn[q].device
            BY <1>3, <2>1, <3>1 DEF Locks
        <3>. QED  BY <3>2 DEF Keeps
      <2>. QED  BY <1>1, <1>2, <1>3, <2>1 DEF Locks
    <1>. QED  BY <1>5, <1>6

\* The rows of the codes stay in step with their history.
LEMMA CodesKept ==
    ASSUME IInv, NEW p, Keeps(p), UNCHANGED <<consented, issued, exchanges>>
    PROVE  /\ UNCHANGED authCode => AuthInv'
           /\ UNCHANGED deviceCode => DeviceInv'
    <1>1. \A c \in AuthCodes : consented[c] \subseteq Sessions
        BY TypedFact DEF Typed
    <1>2. \A c \in DeviceCodes : issued[c] \subseteq Sessions
        BY TypedFact DEF Typed, Grants
    <1>3. UNCHANGED authCode => AuthInv'
        BY <1>1 DEF IInv, AuthInv, Keeps
    <1>4. UNCHANGED deviceCode => DeviceInv'
        BY <1>2 DEF IInv, DeviceInv, Keeps
    <1>. QED  BY <1>3, <1>4

\* A step that neither records a consent nor sees a replay keeps ReplayInv.
LEMMA ReplayKept ==
    ASSUME IInv, NEW p, Keeps(p), UNCHANGED <<consented, replayed>>
    PROVE  ReplayInv'
    <1>1. \A c \in AuthCodes : consented[c] \subseteq Sessions
        BY TypedFact DEF Typed
    <1>2. \A c \in AuthCodes : \A s \in consented[c] : session[s].state # "none"
        BY DEF IInv, AuthInv
    <1>3. replayed \subseteq AuthCodes
        BY TypedFact DEF Typed
    <1>. QED  BY <1>1, <1>2, <1>3 DEF IInv, ReplayInv, Keeps

\* A session number belongs to one request.
LEMMA SessionKept ==
    ASSUME IInv, NEW p, Keeps(p), Typed',
           \A s \in Sessions : session[s].state = "none" /\ session'[s].state # "none" =>
             session'[s].device \in Devices,
           p \in Procs /\ Starts(p)' =>
             \/ Starts(p) /\ txn'[p].session = txn[p].session
             \/ txn'[p].session > minted
    PROVE  SessionInv'
    <1>1. minted \in Nat /\ minted' \in Nat /\ minted <= minted'
        BY TypedFact DEF Typed, Keeps
    <1>2. ASSUME NEW s \in Sessions
          PROVE  /\ s > minted' => session'[s].state = "none"
                 /\ session'[s].state # "none" => session'[s].device \in Devices
      <2>0. s \in Nat
        BY ConstantsAssumption DEF Sessions
      <2>1. s > minted' => session'[s].state = "none"
        <3>1. SUFFICES ASSUME s > minted'
              PROVE  session'[s].state = "none"
            OBVIOUS
        <3>2. session[s].state = "none"
            BY <1>1, <2>0, <3>1 DEF IInv, SessionInv
        <3>3. p \in Procs /\ Starts(p) => txn[p].session \in 1 .. minted
            BY DEF IInv, Knows
        <3>4. ~(p \in Procs /\ Starts(p) /\ s = txn[p].session)
            BY <1>1, <2>0, <3>1, <3>3
        <3>. QED  BY <3>2, <3>4 DEF Keeps
      <2>2. session'[s].state # "none" => session'[s].device \in Devices
        BY DEF IInv, SessionInv, Keeps
      <2>. QED  BY <2>1, <2>2
    <1>3. ASSUME NEW q \in Procs, NEW r \in Procs, Starts(q)', Starts(r)',
                 txn'[q].session = txn'[r].session
          PROVE  q = r
      <2>1. ASSUME NEW x \in Procs, x # p, Starts(x)'
            PROVE  Starts(x) /\ txn'[x].session = txn[x].session /\ txn[x].session \in 1 .. minted
        BY <2>1 DEF Keeps, Starts, Kind, IInv, Knows
      <2>2. CASE q # p /\ r # p
        BY <1>3, <2>1, <2>2 DEF IInv, SessionInv
      <2>3. CASE q = p /\ r # p
        BY <1>1, <1>3, <2>1, <2>3 DEF IInv, SessionInv
      <2>4. CASE q # p /\ r = p
        BY <1>1, <1>3, <2>1, <2>4 DEF IInv, SessionInv
      <2>. QED  BY <2>2, <2>3, <2>4
    <1>. QED  BY <1>2, <1>3 DEF SessionInv

\* No session comes into use unless tokens are issued.
LEMMA InUseKept ==
    ASSUME IInv, NEW p, Keeps(p), issued' = issued,
           \A s \in Sessions : session[s].state = "none" /\ session'[s].state = "active" =>
             session'[s].type = "oauth2",
           NEW s \in InUse'
    PROVE  /\ s \in InUse /\ s \in Sessions /\ session'[s].device = session[s].device
           /\ session'[s].type = session[s].type
    <1>1. s \in Sessions /\ session'[s].state = "active"
          /\ (session'[s].type = "personal" \/ \E g \in Grants : s \in issued[g])
        BY DEF InUse, Active
    <1>2. session[s].state # "none"
      <2>1. CASE session'[s].type = "personal"
        BY <1>1, <2>1
      <2>2. CASE \E g \in Grants : s \in issued[g]
        BY <2>2 DEF IInv, AuthInv, DeviceInv, Grants
      <2>. QED  BY <1>1, <2>1, <2>2
    <1>. QED  BY <1>1, <1>2 DEF Keeps, InUse, Active

\* A step that issues no token and leaves the homeserver alone keeps PresentInv.
LEMMA PresentKept ==
    ASSUME IInv, NEW p, Keeps(p), issued' = issued, hs' = hs,
           \A s \in Sessions : session[s].state = "none" /\ session'[s].state = "active" =>
             session'[s].type = "oauth2",
           p \in Procs =>
             /\ pc'[p] = "collectPersonal" =>
                  DevicesOf({s \in InUse : session[s].type = "oauth2"}) \subseteq txn'[p].devices
             /\ pc'[p] = "push" => DevicesOf(InUse) \subseteq txn'[p].devices
             /\ pc'[p] = "save" /\ (Kind(p) # "sync")' => txn'[p].device \in hs
    PROVE  PresentInv'
    <1>1. \A s \in InUse' : /\ s \in InUse /\ session'[s].device = session[s].device
                            /\ session'[s].type = session[s].type
        BY InUseKept
    <1>2. DevicesOf(InUse)' \subseteq DevicesOf(InUse)
        BY <1>1 DEF DevicesOf
    <1>3. DevicesOf({s \in InUse : session[s].type = "oauth2"})' \subseteq
          DevicesOf({s \in InUse : session[s].type = "oauth2"})
        BY <1>1 DEF DevicesOf
    <1>4. DevicesOf(InUse)' \subseteq hs'
        BY <1>2 DEF IInv, PresentInv
    <1>5. ASSUME NEW q \in Procs
          PROVE  (/\ pc[q] = "collectPersonal" =>
                       DevicesOf({s \in InUse : session[s].type = "oauth2"}) \subseteq txn[q].devices
                  /\ pc[q] = "push" => DevicesOf(InUse) \subseteq txn[q].devices
                  /\ pc[q] = "save" /\ Kind(q) # "sync" => txn[q].device \in hs)'
      <2>1. CASE q = p
        BY <1>2, <1>3, <2>1
      <2>2. CASE q # p
        <3>1. pc'[q] = pc[q] /\ txn'[q] = txn[q]
            BY <2>2 DEF Keeps
        <3>. QED  BY <1>2, <1>3, <3>1 DEF IInv, PresentInv, Kind
      <2>. QED  BY <2>1, <2>2
    <1>. QED  BY <1>4, <1>5 DEF PresentInv

\* While a sync has still to read the sessions, nothing is left to show.
LEMMA RemovedBySync == SyncWaits' => RemovedInv'
    BY DEF RemovedInv

\* A step that is no part of a sync leaves no device behind if those whose
\* last session ends are counted as strays.
LEMMA RemovedPlain ==
    ASSUME IInv, NEW p, Keeps(p), hs' = hs, syncJobs' = syncJobs, strays \subseteq strays',
           DevicesOf(Active) \subseteq DevicesOf(Active)' \cup strays',
           p \in Procs => /\ Kind(p) # "sync" \/ pc[p] = "save"
                          /\ pc'[p] \notin {"collectPersonal", "push"}
                          /\ pc[p] = "save" /\ Kind(p) # "sync" => txn[p].device \in Covered'
    PROVE  RemovedInv'
    <1>1. CASE SyncWaits
      <2>1. SyncWaits'
        <3>1. CASE syncJobs > 0
            BY <3>1 DEF SyncWaits
        <3>2. CASE \E q \in Procs : Kind(q) = "sync" /\ pc[q] \in {"lock", "collect"}
          <4>1. PICK q \in Procs : Kind(q) = "sync" /\ pc[q] \in {"lock", "collect"}
            BY <3>2
          <4>2. pc'[q] = pc[q] /\ txn'[q] = txn[q]
            BY <4>1 DEF Keeps
          <4>. QED  BY <4>1, <4>2 DEF SyncWaits, Kind
        <3>. QED  BY <1>1, <3>1, <3>2 DEF SyncWaits
      <2>. QED  BY <2>1, RemovedBySync
    <1>2. CASE ~SyncWaits
      <2>1. Covered \subseteq Covered'
        <3>1. ASSUME NEW d \in Covered
              PROVE  d \in Covered'
          <4>1. CASE d \in DevicesOf(Active) \cup strays
            BY <4>1 DEF Covered
          <4>2. CASE d \in Devices /\ \E q \in Procs :
                       pc[q] = "save" /\ Kind(q) # "sync" /\ txn[q].device = d
            <5>1. PICK q \in Procs : pc[q] = "save" /\ Kind(q) # "sync" /\ txn[q].device = d
                BY <4>2
            <5>2. CASE q = p
                BY <5>1, <5>2
            <5>3. CASE q # p
              <6>1. pc'[q] = pc[q] /\ txn'[q] = txn[q]
                BY <5>3 DEF Keeps
              <6>. QED  BY <4>2, <5>1, <6>1 DEF Covered, Kind
            <5>. QED  BY <5>2, <5>3
          <4>. QED  BY <3>1, <4>1, <4>2 DEF Covered
        <3>. QED  BY <3>1
      <2>2. ASSUME NEW q \in Procs, pc'[q] \in {"collectPersonal", "push"}
            PROVE  txn'[q].devices \subseteq Covered'
        <3>1. q # p /\ pc'[q] = pc[q] /\ txn'[q] = txn[q]
            BY <2>2 DEF Keeps
        <3>. QED  BY <1>2, <2>1, <2>2, <3>1 DEF IInv, RemovedInv
      <2>3. (\E q \in Procs : pc[q] \in {"collectPersonal", "push"}) =>
            (\E q \in Procs : pc'[q] \in {"collectPersonal", "push"})
        <3>1. SUFFICES ASSUME NEW q \in Procs, pc[q] \in {"collectPersonal", "push"}
              PROVE  pc'[q] = pc[q]
            OBVIOUS
        <3>2. Kind(q) = "sync"
            BY <3>1, Places
        <3>. QED  BY <3>1, <3>2 DEF Keeps
      <2>. QED  BY <1>2, <2>1, <2>2, <2>3 DEF IInv, RemovedInv
    <1>. QED  BY <1>1, <1>2

\* All parts together.
LEMMA Combine ==
    ASSUME IInv, NEW p, Keeps(p), Typed', p \in Procs => Knows(p)' /\ Locks(p)',
           AuthInv', DeviceInv', SessionInv', ReplayInv', PresentInv', RemovedInv'
    PROVE  IInv'
    <1>1. ASSUME NEW q \in Procs
          PROVE  Knows(q)' /\ Locks(q)'
        BY KnowsKept
    <1>. QED  BY <1>1 DEF IInv

\* A step that changes neither codes nor sessions.
LEMMA LocalStep ==
    ASSUME IInv, NEW p, Keeps(p), Typed', p \in Procs => Knows(p)' /\ Locks(p)',
           UNCHANGED <<authCode, deviceCode, session, consented, issued, exchanges, replayed>>,
           p \in Procs /\ Starts(p)' =>
             \/ Starts(p) /\ txn'[p].session = txn[p].session
             \/ txn'[p].session > minted,
           PresentInv', RemovedInv'
    PROVE  IInv'
    BY CodesKept, ReplayKept, SessionKept, Combine

\* The same where the homeserver and the queue stay as they are too and p is no
\* sync.
LEMMA QuietStep ==
    ASSUME IInv, NEW p \in Procs, Keeps(p), Typed', Knows(p)', Locks(p)',
           UNCHANGED <<authCode, deviceCode, session, consented, issued, exchanges, replayed>>,
           Starts(p)' =>
             \/ Starts(p) /\ txn'[p].session = txn[p].session
             \/ txn'[p].session > minted,
           hs' = hs, syncJobs' = syncJobs, strays \subseteq strays',
           Kind(p) # "sync" \/ pc[p] = "save", pc'[p] \notin {"collectPersonal", "push", "save"},
           pc[p] = "save" /\ Kind(p) # "sync" => txn[p].device \in strays'
    PROVE  IInv'
    <1>1. PresentInv'
        BY PresentKept
    <1>2. DevicesOf(Active)' = DevicesOf(Active)
        BY DEF DevicesOf, Active
    <1>3. RemovedInv'
        BY <1>2, RemovedPlain DEF Covered
    <1>. QED  BY <1>1, <1>3, LocalStep

-----------------------------------------------------------------------------
(***************************************************************************)
(* Requests arrive.                                                        *)
(***************************************************************************)
LEMMA PlacesOfFact ==
    /\ PlacesOf(None) = {"idle"}
    /\ \A k \in {"consent", "approve", "reject"} : PlacesOf(k) = {"decide"}
    /\ PlacesOf("exchange") = {"session", "lock", "upsert", "save"}
    /\ PlacesOf("poll") = {"row", "lock", "upsert", "save"}
    /\ PlacesOf("login") = {"lock", "finish", "upsert", "save"}
    /\ PlacesOf("personal") = {"lock", "upsert", "save"}
    /\ PlacesOf("sync") = {"lock", "collect", "collectPersonal", "push", "save"}
    <1>1. \A k \in Kinds : k # None
        BY KindAssumption
    <1>. QED  BY <1>1 DEF PlacesOf, Kinds

\* A request that begins changes nothing but its own state and perhaps the
\* numbering of sessions.
LEMMA BeginKeeps ==
    ASSUME IInv, NEW p \in Procs, NEW label \in PCs, NEW t \in Txns, Begin(p, label, t),
           UNCHANGED <<dbVars, hs, lockVars>>, minted' = minted \/ Mint
    PROVE  /\ Keeps(p) /\ Typed' /\ pc'[p] = label /\ txn'[p] = t
           /\ Kind(p) = None /\ pc[p] = "idle"
           /\ UNCHANGED <<authCode, deviceCode, session, consented, issued, exchanges,
                          replayed, strays, syncJobs, hs>>
    <1>0. Typed
        BY TypedFact
    <1>1. minted \in Nat /\ minted <= minted' /\ minted' \in 0 .. MaxSessions
        BY <1>0, ConstantsAssumption DEF Typed, Mint
    <1>2. requests' \in 0 .. MaxRequests
        BY <1>0, ConstantsAssumption DEF Typed, Begin
    <1>3. pc'[p] = label /\ txn'[p] = t /\ pc' \in [Procs -> PCs] /\ txn' \in [Procs -> Txns]
        BY <1>0 DEF Typed, Begin, Goto
    <1>4. ASSUME NEW q \in Procs \ {p}
          PROVE  pc'[q] = pc[q] /\ txn'[q] = txn[q]
        BY <1>0 DEF Typed, Begin, Goto
    <1>5. UNCHANGED <<authCode, deviceCode, session, consented, issued, exchanges,
                      replayed, strays, syncJobs, hs, syncBy, rowBy, browser, admin, mishaps>>
        BY DEF Begin, dbVars, lockVars
    <1>6. Keeps(p)
        BY <1>1, <1>4, <1>5 DEF Keeps
    <1>7. Typed'
        BY <1>0, <1>1, <1>2, <1>3, <1>5 DEF Typed
    <1>8. Kind(p) = None /\ pc[p] = "idle"
        BY Places DEF Begin
    <1>. QED  BY <1>3, <1>5, <1>6, <1>7, <1>8

\* The number that is minted is nobody's.
LEMMA MintFact ==
    ASSUME IInv, Mint
    PROVE  /\ minted' \in Sessions /\ minted' \in 1 .. minted' /\ minted' > minted
           /\ session[minted'].state = "none"
    <1>1. minted \in Nat /\ minted' = minted + 1 /\ minted < MaxSessions /\ MaxSessions \in Nat
        BY TypedFact, ConstantsAssumption DEF Typed, Mint
    <1>2. minted' \in Sessions /\ minted' \in 1 .. minted' /\ minted' > minted
        BY <1>1 DEF Sessions
    <1>. QED  BY <1>2 DEF IInv, SessionInv

\* No lock is taken at the start.
LEMMA BeginLocks ==
    ASSUME IInv, NEW p \in Procs, pc'[p] \in {"decide", "session", "row", "lock"},
           (\A s \in Sessions : rowBy'[s] # p) \/ (Kind(p) \notin {"login", "personal"})'
    PROVE  Locks(p)'
    BY DEF Locks

\* Consent is given to a grant that was pending.
LEMMA ReadConsentStep ==
    ASSUME IInv, NEW p \in Procs, NEW g \in Grants, NEW k \in {"consent", "approve", "reject"},
           ReadConsent(p, k, g)
    PROVE  IInv'
    <1>. DEFINE t == [NoTxn EXCEPT !.kind = k, !.grant = g,
                        !.session = IF g \in AuthCodes THEN minted' ELSE None]
    <1>1. Begin(p, "decide", t) /\ UNCHANGED <<dbVars, hs, lockVars>>
        BY DEF ReadConsent
    <1>2. /\ g \in AuthCodes => k = "consent" /\ Mint
          /\ g \notin AuthCodes => k \in {"approve", "reject"} /\ minted' = minted
        BY DEF ReadConsent
    <1>3. /\ t.kind = k /\ t.grant = g /\ t.spent = FALSE
          /\ t.session = IF g \in AuthCodes THEN minted' ELSE None
        BY DEF NoTxn
    <1>4. t \in Txns
      <2>1. (IF g \in AuthCodes THEN minted' ELSE None) \in Sessions \cup {None}
        BY <1>2, MintFact
      <2>. QED  BY <2>1, NoTxnFact DEF NoTxn, Txns, Kinds
    <1>. HIDE DEF t
    <1>5. /\ Keeps(p) /\ Typed' /\ pc'[p] = "decide" /\ txn'[p] = t /\ Kind(p) = None /\ pc[p] = "idle"
          /\ UNCHANGED <<authCode, deviceCode, session, consented, issued, exchanges,
                         replayed, strays, syncJobs, hs>>
        BY <1>1, <1>2, <1>4, BeginKeeps DEF PCs
    <1>6. (Kind(p) = k)' /\ (Starts(p) <=> g \in AuthCodes)'
        BY <1>2, <1>3, <1>5 DEF Kind, Starts
    <1>7. Knows(p)'
      <2>1. k \in Kinds /\ k # None /\ "decide" \in PlacesOf(k)
        BY NoTxnFact, PlacesOfFact DEF Kinds
      <2>2. g \notin AuthCodes => g \in DeviceCodes
        BY DEF Grants
      <2>3. g \in AuthCodes => t.session \in 1 .. minted' /\ session'[t.session].state = "none"
        BY <1>2, <1>3, <1>5, MintFact
      <2>. QED  BY <1>2, <1>3, <1>5, <1>6, <2>1, <2>2, <2>3 DEF Knows
    <1>8. Locks(p)'
        BY <1>5, <1>6, BeginLocks
    <1>9. Starts(p)' => txn'[p].session > minted
        BY <1>2, <1>3, <1>5, <1>6, MintFact
    <1>. QED  BY <1>5, <1>7, <1>8, <1>9, QuietStep, NoTxnFact DEF Kinds

\* A code that can be read for an exchange was never exchanged.
LEMMA ReadAuthCodeStep ==
    ASSUME IInv, NEW p \in Procs, NEW c \in AuthCodes, NEW agent \in BOOLEAN,
           ReadAuthCode(p, c, agent)
    PROVE  IInv'
    <1>. DEFINE t == [NoTxn EXCEPT !.kind = "exchange", !.grant = c,
                        !.session = authCode[c].session, !.device = DeviceOf[c],
                        !.agent = agent, !.spent = Spent(c)]
    <1>1. Begin(p, "session", t) /\ UNCHANGED <<dbVars, hs, lockVars>> /\ minted' = minted
        BY DEF ReadAuthCode
    <1>2. authCode[c].exchanged = "no" /\ authCode[c].session # None
      <2>1. AuthStage(authCode[c]) = "Fulfilled"
        BY DEF ReadAuthCode
      <2>. QED  BY <2>1 DEF AuthStage
    <1>3. ~Spent(c) /\ Spent(c) \in BOOLEAN
      <2>1. c \notin DeviceCodes
        BY ConstantsAssumption
      <2>. QED  BY <1>2, <2>1 DEF Spent, IInv, AuthInv
    <1>4. /\ t.kind = "exchange" /\ t.grant = c /\ t.spent = FALSE
          /\ t.session = authCode[c].session /\ t.device = DeviceOf[c]
        BY <1>3 DEF NoTxn
    <1>5. t \in Txns
      <2>1. authCode[c].session \in Sessions \cup {None} /\ DeviceOf[c] \in Devices /\ c \in Grants
        BY TypedFact, ConstantsAssumption DEF Typed, AuthRow, Grants
      <2>. QED  BY <1>3, <2>1, NoTxnFact DEF NoTxn, Txns, Kinds
    <1>. HIDE DEF t
    <1>6. /\ Keeps(p) /\ Typed' /\ pc'[p] = "session" /\ txn'[p] = t /\ Kind(p) = None /\ pc[p] = "idle"
          /\ UNCHANGED <<authCode, deviceCode, session, consented, issued, exchanges,
                         replayed, strays, syncJobs, hs>>
        BY <1>1, <1>5, BeginKeeps DEF PCs
    <1>7. (Kind(p) = "exchange")' /\ ~Starts(p)'
        BY <1>4, <1>6 DEF Kind, Starts
    <1>8. Knows(p)'
      <2>1. "exchange" # None /\ "session" \in PlacesOf("exchange")
        BY NoTxnFact, PlacesOfFact DEF Kinds
      <2>2. t.session \in consented'[c]
        BY <1>2, <1>4, <1>6 DEF IInv, AuthInv
      <2>. QED  BY <1>4, <1>6, <1>7, <2>1, <2>2 DEF Knows
    <1>9. Locks(p)'
        BY <1>6, <1>7, BeginLocks
    <1>. QED  BY <1>6, <1>7, <1>8, <1>9, QuietStep, NoTxnFact DEF Kinds

\* A poll reads a device code that is fulfilled and not exchanged.
LEMMA ReadDeviceCodeStep ==
    ASSUME IInv, NEW p \in Procs, NEW c \in DeviceCodes, ReadDeviceCode(p, c)
    PROVE  IInv'
    <1>. DEFINE t == [NoTxn EXCEPT !.kind = "poll", !.grant = c,
                        !.session = minted', !.device = DeviceOf[c], !.spent = Spent(c)]
    <1>1. Begin(p, "row", t) /\ UNCHANGED <<dbVars, hs, lockVars>> /\ Mint
        BY DEF ReadDeviceCode
    <1>2. ~deviceCode[c].exchanged /\ deviceCode[c].fulfilled /\ ~deviceCode[c].rejected
      <2>1. DeviceState(deviceCode[c]) = "Fulfilled"
        BY DEF ReadDeviceCode
      <2>2. /\ deviceCode[c].exchanged \in BOOLEAN /\ deviceCode[c].fulfilled \in BOOLEAN
            /\ deviceCode[c].rejected \in BOOLEAN
        BY TypedFact DEF Typed, DeviceRow
      <2>. QED  BY <2>1, <2>2 DEF DeviceState
    <1>3. ~Spent(c) /\ Spent(c) \in BOOLEAN
        BY <1>2 DEF Spent, IInv, DeviceInv
    <1>4. /\ t.kind = "poll" /\ t.grant = c /\ t.spent = FALSE
          /\ t.session = minted' /\ t.device = DeviceOf[c]
        BY <1>3 DEF NoTxn
    <1>5. t \in Txns
      <2>1. minted' \in Sessions /\ DeviceOf[c] \in Devices /\ c \in Grants
        BY <1>1, MintFact, ConstantsAssumption DEF Grants
      <2>. QED  BY <1>3, <2>1, NoTxnFact DEF NoTxn, Txns, Kinds
    <1>. HIDE DEF t
    <1>6. /\ Keeps(p) /\ Typed' /\ pc'[p] = "row" /\ txn'[p] = t /\ Kind(p) = None /\ pc[p] = "idle"
          /\ UNCHANGED <<authCode, deviceCode, session, consented, issued, exchanges,
                         replayed, strays, syncJobs, hs>>
        BY <1>1, <1>5, BeginKeeps DEF PCs
    <1>7. (Kind(p) = "poll")' /\ Starts(p)'
        BY <1>4, <1>6 DEF Kind, Starts
    <1>8. Knows(p)'
      <2>1. "poll" # None /\ "row" \in PlacesOf("poll")
        BY NoTxnFact, PlacesOfFact DEF Kinds
      <2>2. t.session \in 1 .. minted' /\ session'[t.session].state = "none"
        BY <1>1, <1>4, <1>6, MintFact
      <2>. QED  BY <1>2, <1>4, <1>6, <1>7, <2>1, <2>2 DEF Knows
    <1>9. Locks(p)' /\ txn'[p].session > minted
        BY <1>1, <1>4, <1>6, <1>7, BeginLocks, MintFact
    <1>. QED  BY <1>6, <1>7, <1>8, <1>9, QuietStep, NoTxnFact DEF Kinds

\* An idle process has no row: rows are released with the transaction.
LEMMA BeginPersonalStep ==
    ASSUME IInv, NEW p \in Procs, NEW d \in Devices, NEW k \in {"login", "personal"},
           BeginPersonal(p, k, d)
    PROVE  IInv'
    <1>. DEFINE t == [NoTxn EXCEPT !.kind = k, !.session = minted', !.device = d]
    <1>1. Begin(p, "lock", t) /\ UNCHANGED <<dbVars, hs, lockVars>> /\ Mint
        BY DEF BeginPersonal
    <1>4. t.kind = k /\ t.spent = FALSE /\ t.session = minted' /\ t.device = d
        BY DEF NoTxn
    <1>5. t \in Txns /\ t.devices = {}
        BY <1>1, MintFact, NoTxnFact DEF NoTxn, Txns, Kinds
    <1>. HIDE DEF t
    <1>6. /\ Keeps(p) /\ Typed' /\ pc'[p] = "lock" /\ txn'[p] = t /\ Kind(p) = None /\ pc[p] = "idle"
          /\ UNCHANGED <<authCode, deviceCode, session, consented, issued, exchanges,
                         replayed, strays, syncJobs, hs>>
        BY <1>1, <1>5, BeginKeeps DEF PCs
    <1>7. (Kind(p) = k)' /\ Starts(p)'
        BY <1>4, <1>6 DEF Kind, Starts
    <1>8. Knows(p)'
      <2>1. k # None /\ "lock" \in PlacesOf(k)
        BY NoTxnFact, PlacesOfFact DEF Kinds
      <2>2. t.session \in 1 .. minted' /\ session'[t.session].state = "none"
        BY <1>1, <1>4, <1>6, MintFact
      <2>. QED  BY <1>4, <1>5, <1>6, <1>7, <2>1, <2>2 DEF Knows
    <1>9. Locks(p)'
      <2>1. \A s \in Sessions : rowBy'[s] # p
        BY <1>1, <1>6 DEF IInv, Locks, Lockable, lockVars
      <2>. QED  BY <1>6, <2>1, BeginLocks
    <1>10. txn'[p].session > minted
        BY <1>1, <1>4, <1>6, MintFact
    <1>. QED  BY <1>6, <1>7, <1>8, <1>9, <1>10, QuietStep, NoTxnFact DEF Kinds
-----------------------------------------------------------------------------
(***************************************************************************)
(* Steps under way that change neither codes nor sessions.                 *)
(***************************************************************************)
\* p keeps its request and goes on.
LEMMA GoOn ==
    ASSUME IInv, NEW p \in Procs, NEW label \in PCs, label \in PlacesOf(Kind(p)), pc[p] # "idle",
           Kind(p) = "sync" /\ label \in {"lock", "collect"} => txn[p].devices = {},
           Goto(p, label), UNCHANGED <<dbVars, txn, minted, consented, issued, exchanges,
                                       replayed, requests, mishaps>>,
           strays' = strays, hs' \subseteq Devices,
           syncBy' \in Procs \cup {None}, rowBy' \in [Lockable -> Procs \cup {None}],
           \A q \in Procs \ {p} : /\ \A r \in Lockable : rowBy'[r] = q => rowBy[r] = q
                                  /\ syncBy = q => syncBy' = q
    PROVE  /\ Keeps(p) /\ Typed' /\ pc'[p] = label /\ Knows(p)'
           /\ Kind(p)' = Kind(p) /\ (Starts(p)' <=> Starts(p)) /\ txn' = txn
           /\ UNCHANGED <<authCode, deviceCode, session, syncJobs, consented, issued, exchanges, replayed>>
    <1>0. Typed /\ minted \in Nat
        BY TypedFact DEF Typed
    <1>1. UNCHANGED <<authCode, deviceCode, session, browser, admin, syncJobs>>
        BY DEF dbVars
    <1>2. pc'[p] = label /\ pc' \in [Procs -> PCs] /\ \A q \in Procs \ {p} : pc'[q] = pc[q]
        BY <1>0 DEF Typed, Goto
    <1>3. Keeps(p)
        BY <1>0, <1>1, <1>2 DEF Keeps
    <1>4. Typed'
        BY <1>0, <1>1, <1>2 DEF Typed
    <1>5. Kind(p)' = Kind(p) /\ (Starts(p)' <=> Starts(p))
        BY DEF Kind, Starts
    <1>6. Knows(p)'
        BY <1>1, <1>2, <1>5 DEF IInv, Knows, Kind
    <1>. QED  BY <1>1, <1>2, <1>3, <1>4, <1>5, <1>6

\* The exchange takes the row lock of its session.
LEMMA UseSessionStep ==
    ASSUME IInv, NEW p \in Procs, UseSession(p)
    PROVE  IInv'
    <1>1. pc[p] = "session" /\ Kind(p) = "exchange" /\ txn[p].session \in Sessions
        BY Places DEF UseSession
    <1>2. /\ rowBy' \in [Lockable -> Procs \cup {None}] /\ syncBy' = syncBy
          /\ \A q \in Procs \ {p} : \A r \in Lockable : rowBy'[r] = q => rowBy[r] = q
        BY <1>1, TypedFact DEF UseSession, Typed
    <1>3. /\ Keeps(p) /\ Typed' /\ pc'[p] = "lock" /\ Knows(p)'
          /\ Kind(p)' = Kind(p) /\ (Starts(p)' <=> Starts(p)) /\ txn' = txn
          /\ UNCHANGED <<authCode, deviceCode, session, syncJobs, consented, issued, exchanges, replayed>>
        BY <1>1, <1>2, GoOn, PlacesOfFact, TypedFact DEF UseSession, Typed, PCs, historyVars
    <1>4. Locks(p)'
        BY <1>1, <1>3, BeginLocks
    <1>5. UNCHANGED <<hs, strays>>
        BY DEF UseSession, historyVars
    <1>. QED  BY <1>1, <1>3, <1>4, <1>5, QuietStep

\* The poll takes the row lock of its device code.
LEMMA MarkDeviceCodeStep ==
    ASSUME IInv, NEW p \in Procs, MarkDeviceCode(p)
    PROVE  IInv'
    <1>1. pc[p] = "row" /\ Kind(p) = "poll"
        BY Places DEF MarkDeviceCode
    <1>2. /\ rowBy' \in [Lockable -> Procs \cup {None}] /\ syncBy' = syncBy
          /\ \A q \in Procs \ {p} : \A r \in Lockable : rowBy'[r] = q => rowBy[r] = q
        BY <1>1, TypedFact DEF MarkDeviceCode, Typed
    <1>3. /\ Keeps(p) /\ Typed' /\ pc'[p] = "lock" /\ Knows(p)'
          /\ Kind(p)' = Kind(p) /\ (Starts(p)' <=> Starts(p)) /\ txn' = txn
          /\ UNCHANGED <<authCode, deviceCode, session, syncJobs, consented, issued, exchanges, replayed>>
        BY <1>1, <1>2, GoOn, PlacesOfFact, TypedFact DEF MarkDeviceCode, Typed, PCs, historyVars
    <1>4. Locks(p)'
        BY <1>1, <1>3, BeginLocks
    <1>5. UNCHANGED <<hs, strays>>
        BY DEF MarkDeviceCode, historyVars
    <1>. QED  BY <1>1, <1>3, <1>4, <1>5, QuietStep

\* A compatibility login locks the sessions that hold its device.
LEMMA TakeOverStep ==
    ASSUME IInv, NEW p \in Procs, TakeOverDevice(p)
    PROVE  IInv'
    <1>1. pc[p] = "finish" /\ Kind(p) = "login" /\ syncBy = p
        BY Places DEF TakeOverDevice, IInv, Locks
    <1>2. /\ rowBy' \in [Lockable -> Procs \cup {None}] /\ syncBy' = syncBy
          /\ \A q \in Procs \ {p} : \A r \in Lockable : rowBy'[r] = q => rowBy[r] = q
        BY <1>1, TypedFact DEF TakeOverDevice, Typed
    <1>3. /\ Keeps(p) /\ Typed' /\ pc'[p] = "upsert" /\ Knows(p)'
          /\ Kind(p)' = Kind(p) /\ (Starts(p)' <=> Starts(p)) /\ txn' = txn
          /\ UNCHANGED <<authCode, deviceCode, session, syncJobs, consented, issued, exchanges, replayed>>
        BY <1>1, <1>2, GoOn, PlacesOfFact, TypedFact DEF TakeOverDevice, Typed, PCs, historyVars
    <1>4. Locks(p)'
      <2>1. ASSUME NEW s \in Sessions, rowBy'[s] = p
            PROVE  session'[s].state # "none" /\ session'[s].device = txn'[p].device
        <3>1. s \in OnDevice(txn[p].device) \/ rowBy[s] = p
            BY <2>1 DEF TakeOverDevice, Lockable
        <3>2. s \in OnDevice(txn[p].device) =>
                session[s].state # "none" /\ session[s].device = txn[p].device
            BY DEF OnDevice, Active
        <3>3. rowBy[s] = p => session[s].state # "none" /\ session[s].device = txn[p].device
            BY <1>1 DEF IInv, Locks
        <3>. QED  BY <1>3, <3>1, <3>2, <3>3
      <2>. QED  BY <1>1, <1>2, <1>3, <2>1 DEF Locks
    <1>5. UNCHANGED <<hs, strays>>
        BY DEF TakeOverDevice, historyVars
    <1>. QED  BY <1>1, <1>3, <1>4, <1>5, QuietStep

\* acquire_lock_for_sync has one holder.
LEMMA LockStep ==
    ASSUME IInv, NEW p \in Procs, AcquireLockForSync(p)
    PROVE  IInv'
    <1>1. pc[p] = "lock" /\ Kind(p) \in {"exchange", "poll", "login", "personal", "sync"}
          /\ syncBy = None /\ syncBy' = p /\ None \notin Procs
        BY Places, ConstantsAssumption DEF AcquireLockForSync
    <1>2. /\ AfterLock(p) \in PCs /\ AfterLock(p) \in PlacesOf(Kind(p))
          /\ AfterLock(p) \in {"collect", "finish", "upsert"}
          /\ Kind(p) = "sync" <=> AfterLock(p) = "collect"
        BY <1>1, PlacesOfFact DEF AfterLock, Kind, PCs
    <1>3. /\ Goto(p, AfterLock(p)) /\ UNCHANGED <<rowBy, hs, strays>>
          /\ Kind(p) = "sync" => txn[p].devices = {}
        BY <1>1 DEF AcquireLockForSync, historyVars, IInv, Knows, Kind
    <1>4. /\ Keeps(p) /\ Typed' /\ pc'[p] = AfterLock(p) /\ Knows(p)'
          /\ Kind(p)' = Kind(p) /\ (Starts(p)' <=> Starts(p)) /\ txn' = txn
          /\ UNCHANGED <<authCode, deviceCode, session, syncJobs, consented, issued, exchanges, replayed>>
        BY <1>1, <1>2, <1>3, GoOn, TypedFact DEF AcquireLockForSync, Typed, historyVars
    <1>5. Locks(p)'
        BY <1>1, <1>2, <1>3, <1>4 DEF IInv, Locks
    <1>6. CASE Kind(p) # "sync"
        BY <1>1, <1>2, <1>3, <1>4, <1>5, <1>6, QuietStep
    <1>7. CASE Kind(p) = "sync"
      <2>1. SyncWaits'
        BY <1>2, <1>4, <1>7 DEF SyncWaits
      <2>2. PresentInv'
        BY <1>2, <1>3, <1>4, <1>7, PresentKept
      <2>. QED  BY <1>4, <1>5, <2>1, <2>2, RemovedBySync, LocalStep
    <1>. QED  BY <1>6, <1>7

\* A worker starts a device sync job.
LEMMA RunSyncStep ==
    ASSUME IInv, NEW p \in Procs, RunSync(p)
    PROVE  IInv'
    <1>. DEFINE t == [NoTxn EXCEPT !.kind = "sync"]
    <1>0. Typed /\ minted \in Nat
        BY TypedFact DEF Typed
    <1>1. /\ pc[p] = "idle" /\ Kind(p) = None /\ syncJobs > 0 /\ syncJobs' = syncJobs - 1
          /\ UNCHANGED <<authCode, deviceCode, session, browser, admin, hs, syncBy, rowBy, minted,
                         consented, issued, exchanges, replayed, strays, requests, mishaps>>
        BY Places DEF RunSync, lockVars, historyVars
    <1>2. t \in Txns /\ t.kind = "sync" /\ t.spent = FALSE /\ t.devices = {}
        BY NoTxnFact DEF NoTxn, Txns, Kinds
    <1>3. /\ pc'[p] = "lock" /\ txn'[p] = t /\ pc' \in [Procs -> PCs] /\ txn' \in [Procs -> Txns]
          /\ \A q \in Procs \ {p} : pc'[q] = pc[q] /\ txn'[q] = txn[q]
        BY <1>0, <1>2 DEF RunSync, Goto, Typed, PCs
    <1>. HIDE DEF t
    <1>4. Keeps(p)
        BY <1>0, <1>1, <1>3 DEF Keeps
    <1>5. Typed'
        BY <1>0, <1>1, <1>3 DEF Typed
    <1>6. (Kind(p) = "sync")' /\ ~Starts(p)'
        BY <1>2, <1>3 DEF Kind, Starts
    <1>7. Knows(p)'
      <2>1. "sync" # None /\ "lock" \in PlacesOf("sync")
        BY NoTxnFact, PlacesOfFact DEF Kinds
      <2>. QED  BY <1>2, <1>3, <1>6, <2>1 DEF Knows
    <1>8. Locks(p)'
        BY <1>3, <1>6, BeginLocks
    <1>9. SyncWaits'
        BY <1>3, <1>6 DEF SyncWaits
    <1>10. PresentInv'
        BY <1>1, <1>3, <1>4, PresentKept
    <1>. QED  BY <1>1, <1>4, <1>5, <1>6, <1>7, <1>8, <1>9, <1>10, RemovedBySync, LocalStep

-----------------------------------------------------------------------------
(***************************************************************************)
(* A sync, and the end of a transaction.                                   *)
(***************************************************************************)
\* One process at a time is past the lock.
LEMMA Alone ==
    ASSUME IInv, NEW p \in Procs, NEW q \in Procs,
           pc[p] \in {"finish", "upsert", "collect", "collectPersonal", "push", "save"},
           pc[q] \in {"finish", "upsert", "collect", "collectPersonal", "push", "save"}
    PROVE  p = q
    BY DEF IInv, Locks

\* The sync job reads the devices of the active sessions of one type.
LEMMA CollectStep ==
    ASSUME IInv, NEW p \in Procs, Collect(p)
    PROVE  IInv'
    <1>. DEFINE type == IF pc[p] = "collect" THEN "oauth2" ELSE "personal"
                found == DevicesOf({s \in Active : session[s].type = type})
                label == IF pc[p] = "collect" THEN "collectPersonal" ELSE "push"
    <1>0. Typed /\ minted \in Nat
        BY TypedFact DEF Typed
    <1>1. pc[p] \in {"collect", "collectPersonal"} /\ Kind(p) = "sync" /\ syncBy = p /\ txn[p] \in Txns
        BY Places DEF Collect, IInv, Locks
    <1>2. /\ UNCHANGED <<authCode, deviceCode, session, browser, admin, syncJobs, hs, syncBy, rowBy,
                         minted, consented, issued, exchanges, replayed, requests, mishaps>>
          /\ strays' = IF pc[p] = "collect" THEN {} ELSE strays
        BY DEF Collect, dbVars, lockVars
    <1>3. found \subseteq Devices
        BY <1>0 DEF DevicesOf, Active, IInv, SessionInv
    <1>4. /\ txn'[p] = [txn[p] EXCEPT !.devices = @ \cup found]
          /\ pc'[p] = label
          /\ \A q \in Procs \ {p} : pc'[q] = pc[q] /\ txn'[q] = txn[q]
        BY <1>0, <1>1 DEF Collect, Goto, Typed
    <1>5. /\ txn'[p] \in Txns /\ txn'[p].devices = txn[p].devices \cup found
          /\ txn'[p].kind = "sync" /\ txn'[p].spent = txn[p].spent
        BY <1>1, <1>3, <1>4 DEF Txns, Kind
    <1>6. Typed'
      <2>1. pc' \in [Procs -> PCs]
        BY <1>0 DEF Collect, Goto, Typed, PCs
      <2>2. txn' \in [Procs -> Txns]
        <3>1. \A q \in Procs : txn'[q] \in Txns
            BY <1>0, <1>4, <1>5 DEF Typed
        <3>2. txn' = [q \in Procs |-> txn'[q]]
            BY <1>0 DEF Collect, Typed
        <3>. QED  BY <3>1, <3>2
      <2>3. strays' \subseteq Devices
        BY <1>0, <1>2 DEF Typed
      <2>. QED  BY <1>0, <1>2, <2>1, <2>2, <2>3 DEF Typed
    <1>7. Keeps(p)
        BY <1>0, <1>2, <1>4 DEF Keeps
    <1>8. (Kind(p) = "sync")' /\ ~Starts(p)' /\ pc'[p] \in {"collectPersonal", "push"}
        BY <1>4, <1>5 DEF Kind, Starts
    <1>9. Knows(p)' /\ Locks(p)'
      <2>1. "sync" # None /\ pc'[p] \in PlacesOf("sync") /\ ~txn[p].spent
        BY <1>8, NoTxnFact, PlacesOfFact DEF Kinds, IInv, Knows
      <2>. QED  BY <1>1, <1>2, <1>5, <1>8, <2>1 DEF Knows, Locks
    <1>10. PresentInv'
      <2>1. pc'[p] = "collectPersonal" =>
              DevicesOf({s \in InUse : session[s].type = "oauth2"}) \subseteq txn'[p].devices
        BY <1>1, <1>4, <1>5 DEF DevicesOf, InUse
      <2>2. pc'[p] = "push" => DevicesOf(InUse) \subseteq txn'[p].devices
        <3>1. SUFFICES ASSUME pc'[p] = "push", NEW s \in InUse
              PROVE  session[s].device \in txn'[p].devices
            BY DEF DevicesOf
        <3>2. pc[p] = "collectPersonal"
            BY <1>1, <1>4, <3>1
        <3>3. s \in Active /\ session[s].type \in {"oauth2", "personal"}
            BY <1>0 DEF InUse, Active, Typed, SessionRow
        <3>4. CASE session[s].type = "personal"
            BY <1>5, <3>2, <3>3, <3>4 DEF DevicesOf
        <3>5. CASE session[s].type = "oauth2"
          <4>1. DevicesOf({x \in InUse : session[x].type = "oauth2"}) \subseteq txn[p].devices
            BY <3>2 DEF IInv, PresentInv
          <4>. QED  BY <1>5, <3>5, <4>1 DEF DevicesOf
        <3>. QED  BY <3>3, <3>4, <3>5
      <2>. QED  BY <1>2, <1>7, <1>8, <2>1, <2>2, PresentKept
    <1>11. RemovedInv'
      <2>1. \E q \in Procs : pc'[q] \in {"collectPersonal", "push"}
        BY <1>8
      <2>2. ASSUME NEW q \in Procs, pc'[q] \in {"collectPersonal", "push"}
            PROVE  q = p
        BY <1>1, <1>4, <2>2, Alone
      <2>3. DevicesOf(Active)' = DevicesOf(Active) /\ found \subseteq DevicesOf(Active)
        BY <1>2 DEF DevicesOf, Active
      <2>4. SyncWaits' \/ txn'[p].devices \subseteq Covered'
        <3>1. CASE pc[p] = "collect"
          <4>1. txn[p].devices = {}
            BY <1>1, <3>1 DEF IInv, Knows, Kind
          <4>. QED  BY <1>5, <2>3, <4>1 DEF Covered
        <3>2. CASE pc[p] = "collectPersonal"
          <4>1. SyncWaits => SyncWaits'
            BY <1>2, <1>4, <3>2 DEF SyncWaits, Kind
          <4>2. Covered \subseteq Covered'
            BY <1>1, <1>2, <1>4, <2>3, <3>2 DEF Covered, Kind
          <4>3. found \subseteq Covered'
            BY <2>3 DEF Covered
          <4>. QED  BY <1>5, <3>2, <4>1, <4>2, <4>3 DEF IInv, RemovedInv
        <3>. QED  BY <1>1, <3>1, <3>2
      <2>. QED  BY <2>1, <2>2, <2>4 DEF RemovedInv
    <1>. QED  BY <1>2, <1>6, <1>7, <1>8, <1>9, <1>10, <1>11, LocalStep

\* The sync job replaces the devices the homeserver has.
LEMMA PushStep ==
    ASSUME IInv, NEW p \in Procs, PushDevices(p)
    PROVE  IInv'
    <1>1. pc[p] = "push" /\ Kind(p) = "sync" /\ syncBy = p /\ txn[p] \in Txns
        BY Places DEF PushDevices, IInv, Locks
    <1>2. UNCHANGED <<syncBy, rowBy, strays>> /\ hs' = txn[p].devices /\ hs' \subseteq Devices
        BY <1>1 DEF PushDevices, lockVars, historyVars, Txns
    <1>3. /\ Keeps(p) /\ Typed' /\ pc'[p] = "save" /\ Knows(p)'
          /\ Kind(p)' = Kind(p) /\ (Starts(p)' <=> Starts(p)) /\ txn' = txn
          /\ UNCHANGED <<authCode, deviceCode, session, syncJobs, consented, issued, exchanges, replayed>>
        BY <1>1, <1>2, GoOn, PlacesOfFact, TypedFact DEF PushDevices, Typed, PCs, historyVars
    <1>4. Locks(p)'
        BY <1>1, <1>2, <1>3 DEF Locks
    <1>5. ASSUME NEW q \in Procs, q # p
          PROVE  pc'[q] = pc[q] /\ pc[q] \notin {"collectPersonal", "push", "save"}
        BY <1>1, <1>3, <1>5, Alone DEF Keeps
    <1>6. PresentInv'
      <2>1. DevicesOf(InUse)' = DevicesOf(InUse)
        BY <1>3 DEF DevicesOf, InUse, Active
      <2>2. DevicesOf(InUse) \subseteq hs'
        BY <1>1, <1>2 DEF IInv, PresentInv
      <2>. QED  BY <1>1, <1>3, <1>5, <2>1, <2>2 DEF PresentInv
    <1>7. RemovedInv'
      <2>1. SyncWaits => SyncWaits'
        BY <1>1, <1>3, <1>5 DEF SyncWaits, Kind
      <2>2. Covered \subseteq Covered'
        <3>1. DevicesOf(Active)' = DevicesOf(Active)
            BY <1>3 DEF DevicesOf, Active
        <3>2. \A q \in Procs : pc[q] = "save" => pc'[q] = "save" /\ q # p
            BY <1>1, <1>5
        <3>. QED  BY <1>2, <1>3, <3>1, <3>2 DEF Covered, Kind
      <2>3. SyncWaits \/ txn[p].devices \subseteq Covered
        BY <1>1 DEF IInv, RemovedInv
      <2>. QED  BY <1>2, <1>3, <1>5, <2>1, <2>2, <2>3 DEF RemovedInv
    <1>. QED  BY <1>3, <1>4, <1>6, <1>7, LocalStep

\* A grant adds its device to the homeserver.
LEMMA UpsertStep ==
    ASSUME IInv, NEW p \in Procs, UpsertDevice(p)
    PROVE  IInv'
    <1>1. /\ pc[p] = "upsert" /\ Kind(p) \in {"exchange", "poll", "login", "personal"}
          /\ syncBy = p /\ txn[p].device \in Devices
        BY Places DEF UpsertDevice, IInv, Locks
    <1>2. UNCHANGED <<syncBy, rowBy, strays>> /\ hs' = hs \cup {txn[p].device} /\ hs' \subseteq Devices
        BY <1>1, TypedFact DEF UpsertDevice, lockVars, historyVars, Typed
    <1>3. /\ Keeps(p) /\ Typed' /\ pc'[p] = "save" /\ Knows(p)'
          /\ Kind(p)' = Kind(p) /\ (Starts(p)' <=> Starts(p)) /\ txn' = txn
          /\ UNCHANGED <<authCode, deviceCode, session, syncJobs, consented, issued, exchanges, replayed>>
        BY <1>1, <1>2, GoOn, PlacesOfFact, TypedFact DEF UpsertDevice, Typed, PCs, historyVars
    <1>4. Locks(p)'
        BY <1>1, <1>2, <1>3 DEF IInv, Locks
    <1>5. ASSUME NEW q \in Procs, q # p
          PROVE  pc'[q] = pc[q] /\ pc[q] \notin {"collectPersonal", "push", "save"}
        BY <1>1, <1>3, <1>5, Alone DEF Keeps
    <1>6. PresentInv'
      <2>1. DevicesOf(InUse)' = DevicesOf(InUse)
        BY <1>3 DEF DevicesOf, InUse, Active
      <2>2. DevicesOf(InUse) \subseteq hs'
        BY <1>2 DEF IInv, PresentInv
      <2>. QED  BY <1>2, <1>3, <1>5, <2>1, <2>2 DEF PresentInv
    <1>7. RemovedInv'
      <2>1. SyncWaits => SyncWaits'
        BY <1>1, <1>3, <1>5 DEF SyncWaits, Kind
      <2>2. Covered \subseteq Covered'
        <3>1. DevicesOf(Active)' = DevicesOf(Active)
            BY <1>3 DEF DevicesOf, Active
        <3>2. \A q \in Procs : pc[q] = "save" => pc'[q] = "save"
            BY <1>1, <1>5
        <3>. QED  BY <1>2, <1>3, <3>1, <3>2 DEF Covered, Kind
      <2>3. txn[p].device \in Covered'
        BY <1>1, <1>3 DEF Covered, Kind
      <2>4. SyncWaits \/ hs \subseteq Covered
        BY <1>1, <1>5 DEF IInv, RemovedInv
      <2>. QED  BY <1>2, <1>3, <1>5, <2>1, <2>2, <2>3, <2>4 DEF RemovedInv
    <1>. QED  BY <1>3, <1>4, <1>6, <1>7, LocalStep

\* A transaction that ends, however it ends.
LEMMA EndOwn ==
    ASSUME IInv, NEW p \in Procs, End(p)
    PROVE  /\ Knows(p)' /\ Locks(p)' /\ ~Starts(p)' /\ pc'[p] = "idle" /\ (Kind(p) = None)'
           /\ \A q \in Procs \ {p} : /\ pc'[q] = pc[q] /\ txn'[q] = txn[q]
                                     /\ \A r \in Lockable : rowBy'[r] = q => rowBy[r] = q
                                     /\ syncBy = q => syncBy' = q
    <1>0. Typed /\ None \notin Procs
        BY TypedFact, ConstantsAssumption
    <1>1. pc'[p] = "idle" /\ txn'[p] = NoTxn /\ \A r \in Lockable : rowBy'[r] # p
        BY <1>0 DEF End, Goto, Typed
    <1>2. (Kind(p) = None)' /\ \A k \in Kinds : k # None
        BY <1>1, NoTxnFact DEF Kind
    <1>3. ~Starts(p)'
        BY <1>2 DEF Starts, Kinds
    <1>4. Knows(p)'
        BY <1>1, <1>2, <1>3, NoTxnFact, PlacesOfFact DEF Knows, Kind, Kinds
    <1>5. Locks(p)'
        BY <1>1, <1>2 DEF Locks, Kinds
    <1>6. \A q \in Procs \ {p} : /\ pc'[q] = pc[q] /\ txn'[q] = txn[q]
                                 /\ \A r \in Lockable : rowBy'[r] = q => rowBy[r] = q
                                 /\ syncBy = q => syncBy' = q
        BY <1>0 DEF End, Goto, Typed
    <1>. QED  BY <1>1, <1>2, <1>3, <1>4, <1>5, <1>6

\* The sync job commits.
LEMMA SaveSyncStep ==
    ASSUME IInv, NEW p \in Procs, SaveSync(p)
    PROVE  IInv'
    <1>0. Typed /\ minted \in Nat
        BY TypedFact DEF Typed
    <1>1. /\ pc[p] = "save" /\ Kind(p) = "sync" /\ End(p)
          /\ UNCHANGED <<authCode, deviceCode, session, browser, admin, syncJobs, hs, minted,
                         consented, issued, exchanges, replayed, strays, requests, mishaps>>
        BY DEF SaveSync, dbVars, historyVars, Kind
    <1>2. Typed'
        BY <1>0, <1>1, EndType DEF Typed
    <1>3. Keeps(p)
        BY <1>0, <1>1, EndOwn DEF Keeps
    <1>. QED  BY <1>1, <1>2, <1>3, EndOwn, QuietStep

\* A transaction is rolled back; a sync job goes back into the queue.
LEMMA RollbackStep ==
    ASSUME IInv, NEW p \in Procs, Rollback(p), pc[p] # "idle", mishaps' \in 0 .. MaxMishaps
    PROVE  IInv'
    <1>0. Typed /\ minted \in Nat
        BY TypedFact DEF Typed
    <1>1. /\ End(p)
          /\ syncJobs' = IF Kind(p) = "sync" THEN syncJobs + 1 ELSE syncJobs
          /\ strays' = IF pc[p] = "save" /\ Kind(p) # "sync"
                       THEN strays \cup {txn[p].device} ELSE strays
          /\ UNCHANGED <<authCode, deviceCode, session, browser, admin, hs, minted,
                         consented, issued, exchanges, replayed, requests>>
        BY DEF Rollback, Kind
    <1>2. Typed'
      <2>1. strays' \subseteq Devices
        BY <1>0, <1>1, Places DEF Typed
      <2>2. syncJobs' \in Nat
        BY <1>0, <1>1 DEF Typed
      <2>. QED  BY <1>0, <1>1, <2>1, <2>2, EndType DEF Typed
    <1>3. Keeps(p)
        BY <1>0, <1>1, EndOwn DEF Keeps
    <1>4. CASE Kind(p) # "sync"
        BY <1>1, <1>2, <1>3, <1>4, EndOwn, QuietStep
    <1>5. CASE Kind(p) = "sync"
      <2>1. SyncWaits'
        BY <1>0, <1>1, <1>5 DEF SyncWaits, Typed
      <2>2. PresentInv'
        BY <1>1, <1>3, EndOwn, PresentKept
      <2>. QED  BY <1>1, <1>2, <1>3, <2>1, <2>2, EndOwn, RemovedBySync, LocalStep
    <1>. QED  BY <1>4, <1>5

\* A request or job fails, or PostgreSQL breaks a deadlock.
LEMMA FailStep ==
    ASSUME IInv, NEW p \in Procs, Fail(p) \/ BreakDeadlock(p)
    PROVE  IInv'
    <1>1. CASE Fail(p)
      <2>1. mishaps' \in 0 .. MaxMishaps
        BY <1>1, TypedFact, ConstantsAssumption DEF Fail, Typed
      <2>. QED  BY <1>1, <2>1, RollbackStep DEF Fail
    <1>2. CASE BreakDeadlock(p)
      <2>1. pc[p] # "idle" /\ mishaps' \in 0 .. MaxMishaps
        BY <1>2, TypedFact DEF BreakDeadlock, Deadlocked, Typed
      <2>. QED  BY <1>2, <2>1, RollbackStep DEF BreakDeadlock
    <1>. QED  BY <1>1, <1>2

-----------------------------------------------------------------------------
(***************************************************************************)
(* Steps of no process, and sessions that end.                             *)
(***************************************************************************)
\* A session that ends was active and keeps its device and its type.
LEMMA EndsKept ==
    ASSUME IInv, NEW ss, ss \subseteq Active, session' = Finished(ss)
    PROVE  \A s \in Sessions :
             /\ session[s].state # "none" =>
                  /\ session'[s].state # "none"
                  /\ session'[s].device = session[s].device
                  /\ session'[s].type = session[s].type
                  /\ session'[s].state = "active" => session[s].state = "active"
             /\ session[s].state = "none" => session'[s] = session[s]
    BY FinishedFact DEF Active

\* A step outside of all requests: codes get older, sessions may end.
LEMMA OutsideKeeps ==
    ASSUME IInv, UNCHANGED <<syncBy, rowBy, pc, txn, minted, consented>>,
           \A c \in DeviceCodes : deviceCode[c].fulfilled => deviceCode'[c].fulfilled,
           session' = session \/ \E ss \in SUBSET Active : session' = Finished(ss)
    PROVE  /\ Keeps(None) /\ session' \in [Sessions -> SessionRow]
           /\ \A s \in Sessions : session[s].state = "none" => session'[s].state = "none"
    <1>0. Typed /\ minted \in Nat
        BY TypedFact DEF Typed
    <1>1. \A s \in Sessions :
             /\ session[s].state # "none" =>
                  /\ session'[s].state # "none"
                  /\ session'[s].device = session[s].device
                  /\ session'[s].type = session[s].type
                  /\ session'[s].state = "active" => session[s].state = "active"
             /\ session[s].state = "none" => session'[s] = session[s]
        BY EndsKept
    <1>2. session' \in [Sessions -> SessionRow]
        BY <1>0, FinishedFact DEF Typed
    <1>. QED  BY <1>0, <1>1, <1>2 DEF Keeps

\* The parts of the invariant such a step keeps.
LEMMA OutsideStep ==
    ASSUME IInv, Keeps(None), Typed', AuthInv', DeviceInv', ReplayInv', issued' = issued, hs' = hs,
           \A s \in Sessions : session[s].state = "none" => session'[s].state = "none",
           RemovedInv'
    PROVE  IInv'
    <1>0. None \notin Procs
        BY ConstantsAssumption
    <1>1. SessionInv'
        BY <1>0, SessionKept
    <1>2. PresentInv'
        BY <1>0, PresentKept
    <1>. QED  BY <1>0, <1>1, <1>2, Combine

\* An administrator loses the flag.
LEMMA DemoteStep ==
    ASSUME IInv, Demote
    PROVE  IInv'
    <1>0. Typed /\ None \notin Procs
        BY TypedFact, ConstantsAssumption
    <1>1. /\ UNCHANGED <<authCode, deviceCode, session, browser, syncJobs, hs, syncBy, rowBy, minted, pc,
                         txn, consented, issued, exchanges, replayed, strays, requests, mishaps>>
          /\ admin' = FALSE
        BY DEF Demote, lockVars, procVars, historyVars
    <1>2. Typed'
        BY <1>0, <1>1 DEF Typed
    <1>3. Keeps(None) /\ \A s \in Sessions : session[s].state = "none" => session'[s].state = "none"
        BY <1>1, OutsideKeeps
    <1>4. RemovedInv'
        BY <1>0, <1>1, <1>3, RemovedPlain DEF DevicesOf, Active
    <1>. QED  BY <1>1, <1>2, <1>3, <1>4, CodesKept, ReplayKept, OutsideStep

\* Revocation and logout insert a SyncDevicesJob with the end of the sessions.
LEMMA EndSessionStep ==
    ASSUME IInv, LogoutAll \/ \E s \in Sessions : EndSession(s)
    PROVE  IInv'
    <1>0. Typed /\ None \notin Procs
        BY TypedFact, ConstantsAssumption
    <1>1. /\ UNCHANGED <<authCode, deviceCode, admin, hs, syncBy, rowBy, minted, pc, txn,
                         consented, issued, exchanges, replayed, strays, mishaps>>
          /\ browser' \in {browser, "finished"} /\ syncJobs' = syncJobs + 1
          /\ requests < MaxRequests /\ requests' = requests + 1
          /\ \E ss \in SUBSET Active : session' = Finished(ss)
      <2>1. CASE LogoutAll
        BY <2>1 DEF LogoutAll, lockVars, procVars
      <2>2. CASE \E s \in Sessions : EndSession(s)
        BY <2>2 DEF EndSession, lockVars, procVars
      <2>. QED  BY <2>1, <2>2
    <1>2. /\ Keeps(None) /\ session' \in [Sessions -> SessionRow]
          /\ \A s \in Sessions : session[s].state = "none" => session'[s].state = "none"
        BY <1>1, OutsideKeeps
    <1>3. syncJobs' \in Nat /\ syncJobs' > 0 /\ requests' \in 0 .. MaxRequests
        BY <1>0, <1>1, ConstantsAssumption DEF Typed
    <1>4. Typed'
        BY <1>0, <1>1, <1>2, <1>3 DEF Typed
    <1>5. RemovedInv'
        BY <1>3, RemovedBySync DEF SyncWaits
    <1>. QED  BY <1>1, <1>2, <1>4, <1>5, CodesKept, ReplayKept, OutsideStep

\* The row of a replayed code names a session a consent started: it ends with
\* the replay, and it is the only one unless consents had overlapped.
LEMMA ReplayAuthCodeStep ==
    ASSUME IInv, NEW c \in AuthCodes, ReplayAuthCode(c)
    PROVE  IInv'
    <1>. DEFINE s == authCode[c].session
    <1>0. Typed /\ None \notin Procs
        BY TypedFact, ConstantsAssumption
    <1>1. /\ UNCHANGED <<authCode, deviceCode, browser, admin, syncJobs, hs, syncBy, rowBy, minted, pc,
                         txn, consented, issued, exchanges, mishaps>>
          /\ requests < MaxRequests /\ requests' = requests + 1
          /\ session[s].state = "active" /\ session' = Finished({s})
          /\ replayed' = replayed \cup {c} /\ strays' = strays \cup {session[s].device}
        BY DEF ReplayAuthCode, lockVars, procVars
    <1>2. s \in consented[c] /\ s \in Sessions
      <2>1. AuthStage(authCode[c]) = "Exchanged"
        BY DEF ReplayAuthCode
      <2>2. s # None
        BY <2>1 DEF AuthStage
      <2>. QED  BY <1>0, <2>2 DEF IInv, AuthInv, Typed
    <1>3. s \in Active /\ session[s].device \in Devices
        BY <1>1, <1>2 DEF Active, IInv, SessionInv
    <1>. HIDE DEF s
    <1>4. /\ Keeps(None) /\ session' \in [Sessions -> SessionRow]
          /\ \A x \in Sessions : session[x].state = "none" => session'[x].state = "none"
        BY <1>1, <1>3, OutsideKeeps
    <1>5. Typed'
      <2>1. requests' \in 0 .. MaxRequests
        BY <1>0, <1>1, ConstantsAssumption DEF Typed
      <2>. QED  BY <1>0, <1>1, <1>3, <1>4, <2>1 DEF Typed
    <1>6. session'[s].state = "finished" /\ \A x \in Sessions : x # s => session'[x] = session[x]
        BY <1>1, <1>2, FinishedFact
    <1>7. ReplayInv'
      <2>1. ASSUME NEW d \in replayed'
            PROVE  /\ consented[d] # {}
                   /\ \/ \E s1, s2 \in consented[d] : s1 # s2
                      \/ \A x \in consented[d] : session'[x].state # "active"
        <3>1. CASE d = c
            BY <1>2, <1>6, <3>1
        <3>2. CASE d \in replayed
          <4>1. consented[d] \subseteq Sessions
            BY <1>0, <3>2 DEF Typed
          <4>. QED  BY <1>6, <3>2, <4>1 DEF IInv, ReplayInv
        <3>. QED  BY <1>1, <3>1, <3>2
      <2>. QED  BY <1>1, <2>1 DEF ReplayInv
    <1>8. RemovedInv'
      <2>1. ASSUME NEW x \in Active
            PROVE  session[x].device \in DevicesOf(Active)' \cup strays'
        <3>1. x # s => x \in Active' /\ session'[x].device = session[x].device
            BY <1>6 DEF Active
        <3>. QED  BY <1>1, <3>1 DEF DevicesOf
      <2>2. DevicesOf(Active) \subseteq DevicesOf(Active)' \cup strays'
        BY <2>1 DEF DevicesOf
      <2>. QED  BY <1>0, <1>1, <1>4, <2>2, RemovedPlain
    <1>. QED  BY <1>1, <1>4, <1>5, <1>7, <1>8, CodesKept, OutsideStep

\* Codes get older.
LEMMA AgeStep ==
    ASSUME IInv, NEW g \in Grants, Age(g)
    PROVE  IInv'
    <1>0. Typed /\ None \notin Procs
        BY TypedFact, ConstantsAssumption
    <1>1. UNCHANGED <<session, browser, admin, syncJobs, hs, syncBy, rowBy, minted, pc,
                      txn, consented, issued, exchanges, replayed, strays, requests, mishaps>>
        BY DEF Age, lockVars, procVars, historyVars
    <1>2. /\ authCode' \in [AuthCodes -> AuthRow]
          /\ \A c \in AuthCodes : /\ authCode'[c].session = authCode[c].session
                                  /\ authCode'[c].exchanged = "no" <=> authCode[c].exchanged = "no"
                                  /\ authCode'[c].fulfilled = "no" <=> authCode[c].fulfilled = "no"
      <2>1. ASSUME NEW r \in AuthRow
            PROVE  /\ [r EXCEPT !.exchanged = "old"] \in AuthRow
                   /\ [r EXCEPT !.exchanged = "old"].session = r.session
                   /\ [r EXCEPT !.exchanged = "old"].fulfilled = r.fulfilled
                   /\ [r EXCEPT !.exchanged = "old"].exchanged = "old"
                   /\ [r EXCEPT !.fulfilled = "late"] \in AuthRow
                   /\ [r EXCEPT !.fulfilled = "late"].session = r.session
                   /\ [r EXCEPT !.fulfilled = "late"].fulfilled = "late"
                   /\ [r EXCEPT !.fulfilled = "late"].exchanged = r.exchanged
        BY DEF AuthRow
      <2>2. \A c \in AuthCodes : authCode[c] \in AuthRow
        BY <1>0 DEF Typed
      <2>3. CASE authCode' = authCode
        BY <1>0, <2>3 DEF Typed
      <2>4. CASE g \in AuthCodes /\ authCode[g].exchanged = "recent" /\
                 authCode' = [authCode EXCEPT ![g].exchanged = "old"]
        <3>. DEFINE r == [authCode[g] EXCEPT !.exchanged = "old"]
        <3>1. r \in AuthRow /\ r.session = authCode[g].session /\ r.exchanged # "no"
              /\ r.fulfilled = authCode[g].fulfilled
            BY <2>1, <2>2, <2>4
        <3>2. authCode' = [authCode EXCEPT ![g] = r]
            BY <2>4
        <3>. HIDE DEF r
        <3>. QED  BY <1>0, <2>4, <3>1, <3>2 DEF Typed
      <2>5. CASE g \in AuthCodes /\ authCode[g].fulfilled = "fresh" /\
                 authCode' = [authCode EXCEPT ![g].fulfilled = "late"]
        <3>. DEFINE r == [authCode[g] EXCEPT !.fulfilled = "late"]
        <3>1. r \in AuthRow /\ r.session = authCode[g].session /\ r.fulfilled # "no"
              /\ r.exchanged = authCode[g].exchanged
            BY <2>1, <2>2, <2>5
        <3>2. authCode' = [authCode EXCEPT ![g] = r]
            BY <2>5
        <3>. HIDE DEF r
        <3>. QED  BY <1>0, <2>5, <3>1, <3>2 DEF Typed
      <2>. QED  BY <2>3, <2>4, <2>5 DEF Age
    <1>3. /\ deviceCode' \in [DeviceCodes -> DeviceRow]
          /\ \A c \in DeviceCodes : /\ deviceCode'[c].session = deviceCode[c].session
                                    /\ deviceCode'[c].exchanged = deviceCode[c].exchanged
                                    /\ deviceCode'[c].fulfilled = deviceCode[c].fulfilled
      <2>1. ASSUME NEW r \in DeviceRow
            PROVE  /\ [r EXCEPT !.expired = TRUE] \in DeviceRow
                   /\ [r EXCEPT !.expired = TRUE].session = r.session
                   /\ [r EXCEPT !.expired = TRUE].fulfilled = r.fulfilled
                   /\ [r EXCEPT !.expired = TRUE].exchanged = r.exchanged
        BY DEF DeviceRow
      <2>2. \A c \in DeviceCodes : deviceCode[c] \in DeviceRow
        BY <1>0 DEF Typed
      <2>3. CASE deviceCode' = deviceCode
        BY <1>0, <2>3 DEF Typed
      <2>4. CASE g \in DeviceCodes /\ deviceCode' = [deviceCode EXCEPT ![g].expired = TRUE]
        BY <1>0, <2>1, <2>2, <2>4 DEF Typed
      <2>. QED  BY <2>3, <2>4 DEF Age, Grants
    <1>4. Typed'
        BY <1>0, <1>1, <1>2, <1>3 DEF Typed
    <1>5. Keeps(None) /\ \A s \in Sessions : session[s].state = "none" => session'[s].state = "none"
        BY <1>1, <1>3, OutsideKeeps
    <1>6. AuthInv'
        BY <1>1, <1>2 DEF IInv, AuthInv
    <1>7. DeviceInv'
        BY <1>1, <1>3 DEF IInv, DeviceInv
    <1>8. RemovedInv'
        BY <1>0, <1>1, <1>5, RemovedPlain DEF DevicesOf, Active
    <1>. QED  BY <1>1, <1>4, <1>5, <1>6, <1>7, <1>8, ReplayKept, OutsideStep

-----------------------------------------------------------------------------
(***************************************************************************)
(* Transactions that change codes or sessions.                             *)
(***************************************************************************)
\* A user who lost the administrator flag loses the session too; its device
\* stays behind.
LEMMA RefuseAdminScopeStep ==
    ASSUME IInv, NEW p \in Procs, RefuseAdminScope(p)
    PROVE  IInv'
    <1>. DEFINE ss == {txn[p].session} \cap Active
    <1>0. Typed /\ minted \in Nat
        BY TypedFact DEF Typed
    <1>1. /\ pc[p] = "session" /\ Kind(p) = "exchange" /\ End(p)
          /\ session' = Finished(ss) /\ strays' = strays \cup DevicesOf(ss)
          /\ UNCHANGED <<authCode, deviceCode, browser, admin, syncJobs, hs, minted,
                         consented, issued, exchanges, replayed, requests, mishaps>>
        BY Places DEF RefuseAdminScope
    <1>2. ss \subseteq Active /\ ss \subseteq Sessions
        BY DEF Active
    <1>. HIDE DEF ss
    <1>3. Typed'
      <2>1. session' \in [Sessions -> SessionRow]
        BY <1>1, FinishedFact
      <2>2. DevicesOf(ss) \subseteq Devices
        BY <1>2 DEF DevicesOf, Active, IInv, SessionInv
      <2>. QED  BY <1>0, <1>1, <2>1, <2>2, EndType DEF Typed
    <1>4. Keeps(p)
      <2>1. \A s \in Sessions :
             /\ session[s].state # "none" =>
                  /\ session'[s].state # "none"
                  /\ session'[s].device = session[s].device
                  /\ session'[s].type = session[s].type
                  /\ session'[s].state = "active" => session[s].state = "active"
             /\ session[s].state = "none" => session'[s] = session[s]
        BY <1>1, <1>2, EndsKept
      <2>. QED  BY <1>0, <1>1, <2>1, EndOwn DEF Keeps
    <1>5. \A s \in Sessions : session[s].state = "none" => session'[s].state = "none"
        BY <1>1, <1>2, EndsKept
    <1>6. SessionInv' /\ PresentInv'
        BY <1>1, <1>3, <1>4, <1>5, EndOwn, SessionKept, PresentKept
    <1>7. RemovedInv'
      <2>1. ASSUME NEW x \in Active
            PROVE  session[x].device \in DevicesOf(Active)' \cup strays'
        <3>1. CASE x \in ss
            BY <1>1, <3>1 DEF DevicesOf
        <3>2. CASE x \notin ss
          <4>1. x \in Active' /\ session'[x] = session[x]
            BY <1>1, <3>2, FinishedFact DEF Active
          <4>. QED  BY <4>1 DEF DevicesOf
        <3>. QED  BY <3>1, <3>2
      <2>2. DevicesOf(Active) \subseteq DevicesOf(Active)' \cup strays'
        BY <2>1 DEF DevicesOf
      <2>. QED  BY <1>1, <1>4, <2>2, EndOwn, RemovedPlain
    <1>. QED  BY <1>1, <1>3, <1>4, <1>6, <1>7, EndOwn, CodesKept, ReplayKept, Combine

\* A decision on a device code is recorded over whatever the row has become.
LEMMA DecideDeviceCodeStep ==
    ASSUME IInv, NEW p \in Procs, DecideDeviceCode(p)
    PROVE  IInv'
    <1>. DEFINE g == txn[p].grant
                r == [deviceCode[g] EXCEPT !.fulfilled = @ \/ txn[p].kind = "approve",
                                           !.rejected = @ \/ txn[p].kind = "reject"]
    <1>0. Typed /\ minted \in Nat
        BY TypedFact DEF Typed
    <1>1. /\ pc[p] = "decide" /\ Kind(p) \in {"approve", "reject"} /\ End(p)
          /\ UNCHANGED <<authCode, session, browser, admin, syncJobs, hs, minted,
                         consented, issued, exchanges, replayed, strays, requests, mishaps>>
        BY DEF DecideDeviceCode, historyVars, Kind
    <1>2. g \in DeviceCodes /\ deviceCode[g] \in DeviceRow
        BY <1>0, <1>1 DEF IInv, Knows, Kind, Typed
    <1>3. deviceCode' = [deviceCode EXCEPT ![g] = r]
        BY <1>0, <1>2 DEF DecideDeviceCode, Typed
    <1>4. /\ r \in DeviceRow /\ r.exchanged = deviceCode[g].exchanged
          /\ r.session = deviceCode[g].session /\ (deviceCode[g].fulfilled => r.fulfilled)
        BY <1>2 DEF DeviceRow
    <1>. HIDE DEF g, r
    <1>5. Typed'
        BY <1>0, <1>1, <1>2, <1>3, <1>4, EndType DEF Typed
    <1>6. Keeps(p)
        BY <1>0, <1>1, <1>2, <1>3, <1>4, EndOwn DEF Keeps, Typed
    <1>7. DeviceInv'
        BY <1>0, <1>1, <1>2, <1>3, <1>4 DEF IInv, DeviceInv, Typed
    <1>8. SessionInv' /\ PresentInv'
        BY <1>1, <1>5, <1>6, EndOwn, SessionKept, PresentKept
    <1>9. RemovedInv'
      <2>1. DevicesOf(Active)' = DevicesOf(Active)
        BY <1>1 DEF DevicesOf, Active
      <2>. QED  BY <1>1, <1>6, <2>1, EndOwn, RemovedPlain
    <1>. QED  BY <1>1, <1>5, <1>6, <1>7, <1>8, <1>9, EndOwn, CodesKept, ReplayKept, Combine

\* The session of a consent is new: no code has it and no tokens were issued
\* for it.
LEMMA FulfillAuthCodeStep ==
    ASSUME IInv, NEW p \in Procs, FulfillAuthCode(p)
    PROVE  IInv'
    <1>. DEFINE g == txn[p].grant
                s == txn[p].session
                r == [authCode[g] EXCEPT !.fulfilled = "fresh", !.session = s]
                n == NewSession("oauth2", DeviceOf[g])
    <1>0. Typed /\ minted \in Nat
        BY TypedFact DEF Typed
    <1>1. /\ pc[p] = "decide" /\ Kind(p) = "consent" /\ Starts(p) /\ End(p)
          /\ session' = [session EXCEPT ![s] = n] /\ consented' = [consented EXCEPT ![g] = @ \cup {s}]
          /\ UNCHANGED <<deviceCode, browser, admin, syncJobs, hs, minted, issued, exchanges,
                         replayed, strays, requests, mishaps>>
        BY DEF FulfillAuthCode, Kind, Starts
    <1>2. /\ g \in AuthCodes /\ s \in Sessions /\ session[s].state = "none" /\ authCode[g] \in AuthRow
          /\ DeviceOf[g] \in Devices /\ s # None
      <2>1. Knows(p) /\ s \in Sessions
        BY <1>1, Places DEF IInv
      <2>2. g \in AuthCodes /\ session[s].state = "none"
        BY <1>1, <2>1 DEF Knows, Kind
      <2>. QED  BY <1>0, <2>1, <2>2, ConstantsAssumption DEF Typed, Grants, Sessions
    <1>3. n \in SessionRow /\ n.state = "active" /\ n.type = "oauth2" /\ n.device = DeviceOf[g]
        BY <1>2 DEF NewSession, SessionRow
    <1>4. r \in AuthRow /\ r.fulfilled = "fresh" /\ r.session = s /\ r.exchanged = authCode[g].exchanged
        BY <1>2 DEF AuthRow
    <1>5. authCode' = [authCode EXCEPT ![g] = r]
        BY <1>0, <1>2 DEF FulfillAuthCode, Typed
    <1>6. g = txn[p].grant /\ s = txn[p].session
        OBVIOUS
    <1>. HIDE DEF g, s, r, n
    <1>7. session'[s] = n /\ \A x \in Sessions : x # s => session'[x] = session[x]
        BY <1>0, <1>1, <1>2 DEF Typed
    <1>8. consented'[g] = consented[g] \cup {s} /\ \A c \in AuthCodes : c # g => consented'[c] = consented[c]
        BY <1>0, <1>1, <1>2 DEF Typed
    <1>9. /\ \A c \in AuthCodes : s \notin consented[c] /\ consented[c] \subseteq Sessions
          /\ \A c \in Grants : s \notin issued[c] /\ issued[c] \subseteq Sessions
        BY <1>0, <1>2 DEF IInv, AuthInv, DeviceInv, Grants, Typed
    <1>10. Typed'
      <2>1. consented' \in [AuthCodes -> SUBSET Sessions]
        BY <1>0, <1>1, <1>2 DEF Typed
      <2>2. session' \in [Sessions -> SessionRow]
        BY <1>0, <1>1, <1>3 DEF Typed
      <2>3. authCode' \in [AuthCodes -> AuthRow]
        BY <1>0, <1>4, <1>5 DEF Typed
      <2>. QED  BY <1>0, <1>1, <2>1, <2>2, <2>3, EndType DEF Typed
    <1>11. Keeps(p)
        BY <1>0, <1>1, <1>2, <1>6, <1>7, <1>8, EndOwn DEF Keeps
    <1>12. AuthInv'
      <2>1. ASSUME NEW c \in AuthCodes, c # g
            PROVE  authCode'[c] = authCode[c]
        BY <1>0, <1>5, <2>1 DEF Typed
      <2>2. authCode'[g] = r
        BY <1>0, <1>2, <1>5 DEF Typed
      <2>3. ASSUME NEW c \in AuthCodes
            PROVE  /\ exchanges'[c] > 0 => authCode'[c].exchanged # "no"
                   /\ issued'[c] \subseteq consented'[c]
                   /\ authCode'[c].fulfilled = "no" <=> authCode'[c].session = None
                   /\ authCode'[c].session # None => authCode'[c].session \in consented'[c]
                   /\ authCode'[c].exchanged # "no" \/ consented'[c] # {} => authCode'[c].fulfilled # "no"
        BY <1>1, <1>2, <1>4, <1>8, <2>1, <2>2 DEF IInv, AuthInv
      <2>4. ASSUME NEW c \in AuthCodes, NEW x \in consented'[c]
            PROVE  session'[x].state # "none" /\ session'[x].device = DeviceOf[c]
        <3>1. CASE x = s
            BY <1>3, <1>7, <1>8, <1>9, <2>4, <3>1
        <3>2. CASE x # s
          <4>1. x \in consented[c] /\ x \in Sessions
            BY <1>8, <1>9, <2>4, <3>2
          <4>. QED  BY <1>7, <3>2, <4>1 DEF IInv, AuthInv
        <3>. QED  BY <3>1, <3>2
      <2>. QED  BY <2>3, <2>4 DEF AuthInv
    <1>13. DeviceInv'
      <2>1. \A c \in DeviceCodes : \A x \in issued[c] : x # s /\ session'[x] = session[x]
        BY <1>7, <1>9 DEF Grants
      <2>. QED  BY <1>1, <2>1 DEF IInv, DeviceInv
    <1>14. ReplayInv'
      <2>1. ASSUME NEW c \in replayed
            PROVE  /\ consented'[c] # {}
                   /\ \/ \E s1, s2 \in consented'[c] : s1 # s2
                      \/ \A x \in consented'[c] : session'[x].state # "active"
        <3>1. c \in AuthCodes /\ consented[c] # {}
            BY <1>0, <2>1 DEF Typed, IInv, ReplayInv
        <3>2. CASE c = g
          <4>1. PICK x \in consented[g] : TRUE
            BY <3>1, <3>2
          <4>2. x # s /\ x \in consented'[g] /\ s \in consented'[g]
            BY <1>2, <1>8, <1>9
          <4>. QED  BY <3>2, <4>2
        <3>3. CASE c # g
          <4>1. \A x \in consented[c] : session'[x] = session[x]
            BY <1>7, <1>9, <3>1
          <4>2. consented'[c] = consented[c]
            BY <1>8, <3>1, <3>3
          <4>. QED  BY <2>1, <4>1, <4>2 DEF IInv, ReplayInv
        <3>. QED  BY <3>2, <3>3
      <2>. QED  BY <1>1, <2>1 DEF ReplayInv
    <1>15. SessionInv' /\ PresentInv'
      <2>1. \A x \in Sessions : session[x].state = "none" /\ session'[x].state # "none" =>
              session'[x].device \in Devices /\ session'[x].type = "oauth2"
        BY <1>2, <1>3, <1>7
      <2>2. \A x \in Sessions : session[x].state = "none" /\ session'[x].state = "active" =>
              session'[x].type = "oauth2"
        BY <2>1
      <2>. QED  BY <1>1, <1>10, <1>11, <2>1, <2>2, EndOwn, SessionKept, PresentKept
    <1>16. RemovedInv'
      <2>1. \A x \in Active : x \in Active' /\ session'[x] = session[x]
        BY <1>2, <1>7 DEF Active
      <2>2. DevicesOf(Active) \subseteq DevicesOf(Active)'
        BY <2>1 DEF DevicesOf
      <2>. QED  BY <1>1, <1>11, <2>2, EndOwn, RemovedPlain
    <1>. QED  BY <1>1, <1>10, <1>11, <1>12, <1>13, <1>14, <1>15, <1>16, EndOwn, Combine

\* A request that saves has the lock: no sync has read the sessions before and
\* pushes after. The device it added is on the homeserver.
LEMMA SavePresent ==
    ASSUME IInv, NEW p \in Procs, Keeps(p), pc[p] = "save", Kind(p) # "sync", pc'[p] = "idle", hs' = hs,
           \A s \in InUse' : session'[s].device = txn[p].device
                             \/ (s \in InUse /\ session'[s].device = session[s].device)
    PROVE  PresentInv'
    <1>1. txn[p].device \in hs /\ DevicesOf(InUse) \subseteq hs
        BY DEF IInv, PresentInv
    <1>2. DevicesOf(InUse)' \subseteq hs'
        BY <1>1 DEF DevicesOf
    <1>3. ASSUME NEW q \in Procs
          PROVE  pc'[q] \notin {"collectPersonal", "push", "save"}
      <2>1. q # p => pc'[q] = pc[q]
        BY DEF Keeps
      <2>. QED  BY <2>1, Alone
    <1>. QED  BY <1>2, <1>3 DEF PresentInv

\* An authorization code is exchanged for a session of its consents.
LEMMA SaveAuthCodeStep ==
    ASSUME IInv, NEW p \in Procs, SaveExchange(p), txn[p].grant \in AuthCodes
    PROVE  IInv'
    <1>. DEFINE g == txn[p].grant
                s == txn[p].session
                r == [authCode[g] EXCEPT !.exchanged = "recent"]
    <1>0. Typed /\ minted \in Nat
        BY TypedFact DEF Typed
    <1>1. /\ pc[p] = "save" /\ Kind(p) \in {"exchange", "poll"} /\ End(p)
          /\ authCode' = [authCode EXCEPT ![g] = r]
          /\ strays' = IF s \in Active THEN strays ELSE strays \cup {txn[p].device}
          /\ issued' = [issued EXCEPT ![g] = @ \cup {s}]
          /\ exchanges' = [exchanges EXCEPT ![g] = @ + 1]
          /\ UNCHANGED <<deviceCode, session, browser, admin, syncJobs, hs, minted, consented, replayed,
                         requests, mishaps>>
        BY DEF SaveExchange, Kind
    <1>2. /\ Kind(p) = "exchange" /\ g \in AuthCodes /\ g \in Grants /\ g \notin DeviceCodes
          /\ s \in consented[g] /\ txn[p].device = DeviceOf[g] /\ s \in Sessions
          /\ txn[p].device \in Devices
      <2>1. Knows(p) /\ g \notin DeviceCodes /\ g \in Grants
        BY ConstantsAssumption DEF IInv, Grants
      <2>2. Kind(p) = "exchange"
        BY <1>1, <2>1 DEF Knows, Kind
      <2>. QED  BY <1>1, <2>1, <2>2, Places DEF Knows, Kind
    <1>3. /\ r \in AuthRow /\ r.exchanged = "recent" /\ r.session = authCode[g].session
          /\ r.fulfilled = authCode[g].fulfilled
        BY <1>0, <1>2 DEF AuthRow, Typed
    <1>4. g = txn[p].grant /\ s = txn[p].session
        OBVIOUS
    <1>. HIDE DEF g, s, r
    <1>5. /\ authCode'[g] = r /\ \A c \in AuthCodes : c # g => authCode'[c] = authCode[c]
          /\ issued'[g] = issued[g] \cup {s} /\ \A c \in Grants : c # g => issued'[c] = issued[c]
          /\ \A c \in Grants : c # g => exchanges'[c] = exchanges[c]
        BY <1>0, <1>1, <1>2 DEF Typed
    <1>6. Typed'
      <2>1. authCode' \in [AuthCodes -> AuthRow]
        BY <1>0, <1>1, <1>3 DEF Typed
      <2>2. issued' \in [Grants -> SUBSET Sessions]
        BY <1>0, <1>1, <1>2 DEF Typed
      <2>3. exchanges' \in [Grants -> Nat]
        BY <1>0, <1>1, <1>2 DEF Typed
      <2>4. strays' \subseteq Devices
        BY <1>0, <1>1, <1>2 DEF Typed
      <2>. QED  BY <1>0, <1>1, <2>1, <2>2, <2>3, <2>4, EndType DEF Typed
    <1>7. Keeps(p)
        BY <1>0, <1>1, EndOwn DEF Keeps
    <1>8. AuthInv'
      <2>1. ASSUME NEW c \in AuthCodes
            PROVE  /\ authCode'[c].fulfilled = "no" <=> authCode'[c].session = None
                   /\ authCode'[c].session # None => authCode'[c].session \in consented'[c]
                   /\ authCode'[c].exchanged # "no" \/ consented'[c] # {} => authCode'[c].fulfilled # "no"
                   /\ exchanges'[c] > 0 => authCode'[c].exchanged # "no"
                   /\ issued'[c] \subseteq consented'[c]
                   /\ \A x \in consented'[c] :
                        session'[x].state # "none" /\ session'[x].device = DeviceOf[c]
        <3>1. CASE c = g
            BY <1>1, <1>2, <1>3, <1>5, <3>1 DEF IInv, AuthInv
        <3>2. CASE c # g
          <4>1. c \in Grants
            BY DEF Grants
          <4>. QED  BY <1>1, <1>5, <3>2, <4>1 DEF IInv, AuthInv
        <3>. QED  BY <3>1, <3>2
      <2>. QED  BY <2>1 DEF AuthInv
    <1>9. DeviceInv'
      <2>1. \A c \in DeviceCodes : c \in Grants /\ issued'[c] = issued[c] /\ exchanges'[c] = exchanges[c]
        BY <1>2, <1>5 DEF Grants
      <2>. QED  BY <1>1, <2>1 DEF IInv, DeviceInv
    <1>10. session[s].device = txn[p].device
        BY <1>2 DEF IInv, AuthInv
    <1>11. PresentInv'
      <2>1. ASSUME NEW x \in InUse'
            PROVE  session'[x].device = txn[p].device
                   \/ (x \in InUse /\ session'[x].device = session[x].device)
        <3>1. CASE x = s
            BY <1>1, <1>10, <3>1
        <3>2. CASE x # s
          <4>1. x \in Active /\ (session[x].type = "personal" \/ \E c \in Grants : x \in issued'[c])
            BY <1>1 DEF InUse, Active
          <4>2. \A c \in Grants : x \in issued'[c] => x \in issued[c]
            BY <1>5, <3>2
          <4>. QED  BY <1>1, <4>1, <4>2 DEF InUse
        <3>. QED  BY <3>1, <3>2
      <2>. QED  BY <1>1, <1>2, <1>7, <2>1, EndOwn, SavePresent
    <1>12. RemovedInv'
      <2>1. DevicesOf(Active)' = DevicesOf(Active)
        BY <1>1 DEF DevicesOf, Active
      <2>2. txn[p].device \in DevicesOf(Active) \cup strays'
        BY <1>1, <1>10 DEF DevicesOf
      <2>3. txn[p].device \in Covered' /\ strays \subseteq strays'
        BY <1>1, <2>1, <2>2 DEF Covered
      <2>. QED  BY <1>1, <1>2, <1>7, <2>1, <2>3, EndOwn, RemovedPlain
    <1>13. SessionInv'
        BY <1>1, <1>6, <1>7, EndOwn, SessionKept
    <1>. QED  BY <1>1, <1>6, <1>7, <1>8, <1>9, <1>11, <1>12, <1>13, EndOwn, ReplayKept, Combine

\* A device code is exchanged for a session of its own.
LEMMA SaveDeviceCodeStep ==
    ASSUME IInv, NEW p \in Procs, SaveExchange(p), txn[p].grant \notin AuthCodes
    PROVE  IInv'
    <1>. DEFINE g == txn[p].grant
                s == txn[p].session
                r == [deviceCode[g] EXCEPT !.exchanged = TRUE, !.session = s]
                n == NewSession("oauth2", DeviceOf[g])
    <1>0. Typed /\ minted \in Nat
        BY TypedFact DEF Typed
    <1>1. /\ pc[p] = "save" /\ Kind(p) \in {"exchange", "poll"} /\ End(p)
          /\ session' = [session EXCEPT ![s] = n]
          /\ issued' = [issued EXCEPT ![g] = @ \cup {s}]
          /\ exchanges' = [exchanges EXCEPT ![g] = @ + 1]
          /\ UNCHANGED <<authCode, browser, admin, syncJobs, hs, minted, consented, replayed,
                         strays, requests, mishaps>>
        BY DEF SaveExchange, Kind
    <1>2. /\ Kind(p) = "poll" /\ g \in DeviceCodes /\ g \in Grants /\ g \notin AuthCodes
          /\ deviceCode[g].fulfilled /\ deviceCode[g] \in DeviceRow
          /\ txn[p].device = DeviceOf[g] /\ s \in Sessions /\ s # None
          /\ txn[p].device \in Devices /\ session[s].state = "none" /\ Starts(p)
      <2>1. Knows(p)
        BY DEF IInv
      <2>2. Kind(p) = "poll" /\ Starts(p)
        BY <1>1, <2>1 DEF Knows, Kind, Starts
      <2>3. g \in DeviceCodes /\ deviceCode[g].fulfilled /\ txn[p].device = DeviceOf[g]
            /\ session[s].state = "none"
        BY <2>1, <2>2 DEF Knows, Kind
      <2>4. s \in Sessions /\ txn[p].device \in Devices
        BY <2>2, Places
      <2>. QED  BY <1>0, <2>2, <2>3, <2>4, ConstantsAssumption DEF Typed, Grants, Sessions
    <1>3. r \in DeviceRow /\ r.exchanged = TRUE /\ r.session = s /\ r.fulfilled = deviceCode[g].fulfilled
        BY <1>2 DEF DeviceRow
    <1>4. n \in SessionRow /\ n.state = "active" /\ n.type = "oauth2" /\ n.device = txn[p].device
        BY <1>2 DEF NewSession, SessionRow
    <1>5. deviceCode' = [deviceCode EXCEPT ![g] = r]
        BY <1>0, <1>2 DEF SaveExchange, Typed
    <1>6. g = txn[p].grant /\ s = txn[p].session
        OBVIOUS
    <1>. HIDE DEF g, s, r, n
    <1>7. /\ deviceCode'[g] = r /\ \A c \in DeviceCodes : c # g => deviceCode'[c] = deviceCode[c]
          /\ issued'[g] = issued[g] \cup {s} /\ \A c \in Grants : c # g => issued'[c] = issued[c]
          /\ \A c \in Grants : c # g => exchanges'[c] = exchanges[c]
          /\ session'[s] = n /\ \A x \in Sessions : x # s => session'[x] = session[x]
        BY <1>0, <1>1, <1>2, <1>5 DEF Typed
    <1>8. Typed'
      <2>1. deviceCode' \in [DeviceCodes -> DeviceRow]
        BY <1>0, <1>3, <1>5 DEF Typed
      <2>2. issued' \in [Grants -> SUBSET Sessions]
        BY <1>0, <1>1, <1>2 DEF Typed
      <2>3. exchanges' \in [Grants -> Nat]
        BY <1>0, <1>1, <1>2 DEF Typed
      <2>4. session' \in [Sessions -> SessionRow]
        BY <1>0, <1>1, <1>4 DEF Typed
      <2>. QED  BY <1>0, <1>1, <2>1, <2>2, <2>3, <2>4, EndType DEF Typed
    <1>9. Keeps(p)
      <2>1. \A c \in DeviceCodes : deviceCode[c].fulfilled => deviceCode'[c].fulfilled
        BY <1>2, <1>3, <1>7
      <2>2. \A x \in Sessions : x # s => session'[x] = session[x]
        BY <1>7
      <2>. QED  BY <1>0, <1>1, <1>2, <1>6, <2>1, <2>2, EndOwn DEF Keeps
    <1>10. AuthInv'
      <2>1. ASSUME NEW c \in AuthCodes
            PROVE  issued'[c] = issued[c] /\ exchanges'[c] = exchanges[c]
        BY <1>2, <1>7 DEF Grants
      <2>2. ASSUME NEW c \in AuthCodes, NEW x \in consented[c]
            PROVE  session'[x] = session[x]
        <3>1. x \in Sessions /\ session[x].state # "none"
            BY <1>0 DEF Typed, IInv, AuthInv
        <3>. QED  BY <1>2, <1>7, <3>1
      <2>. QED  BY <1>1, <2>1, <2>2 DEF IInv, AuthInv
    <1>11. DeviceInv'
      <2>1. ASSUME NEW c \in DeviceCodes
            PROVE  /\ deviceCode'[c].exchanged <=> deviceCode'[c].session # None
                   /\ deviceCode'[c].exchanged => deviceCode'[c].fulfilled
                   /\ exchanges'[c] > 0 => deviceCode'[c].exchanged
        <3>1. CASE c = g
            BY <1>2, <1>3, <1>7, <3>1
        <3>2. CASE c # g
          <4>1. c \in Grants
            BY DEF Grants
          <4>. QED  BY <1>7, <3>2, <4>1 DEF IInv, DeviceInv
        <3>. QED  BY <3>1, <3>2
      <2>2. ASSUME NEW c \in DeviceCodes, NEW x \in issued'[c]
            PROVE  session'[x].state # "none"
        <3>1. CASE x = s
            BY <1>4, <1>7, <3>1
        <3>2. CASE x # s
          <4>1. c \in Grants /\ x \in issued[c] /\ x \in Sessions
            BY <1>0, <1>7, <2>2, <3>2 DEF Grants, Typed
          <4>. QED  BY <1>7, <3>2, <4>1 DEF IInv, DeviceInv
        <3>. QED  BY <3>1, <3>2
      <2>. QED  BY <2>1, <2>2 DEF DeviceInv
    <1>12. PresentInv'
      <2>1. ASSUME NEW x \in InUse'
            PROVE  session'[x].device = txn[p].device
                   \/ (x \in InUse /\ session'[x].device = session[x].device)
        <3>1. CASE x = s
            BY <1>4, <1>7, <3>1
        <3>2. CASE x # s
          <4>1. /\ x \in Sessions /\ session'[x].state = "active"
                /\ session'[x].type = "personal" \/ \E c \in Grants : x \in issued'[c]
            BY DEF InUse, Active
          <4>2. session'[x] = session[x] /\ \A c \in Grants : x \in issued'[c] => x \in issued[c]
            BY <1>7, <3>2, <4>1
          <4>. QED  BY <4>1, <4>2 DEF InUse, Active
        <3>. QED  BY <3>1, <3>2
      <2>. QED  BY <1>1, <1>2, <1>9, <2>1, EndOwn, SavePresent
    <1>13. RemovedInv'
      <2>1. \A x \in Active : x \in Active' /\ session'[x] = session[x]
        BY <1>2, <1>7 DEF Active
      <2>2. DevicesOf(Active) \subseteq DevicesOf(Active)'
        BY <2>1 DEF DevicesOf
      <2>3. s \in Active' /\ session'[s].device = txn[p].device
        BY <1>2, <1>4, <1>7 DEF Active
      <2>4. txn[p].device \in Covered'
        BY <2>3 DEF Covered, DevicesOf
      <2>. QED  BY <1>1, <1>2, <1>9, <2>2, <2>4, EndOwn, RemovedPlain
    <1>14. SessionInv'
      <2>1. \A x \in Sessions : session[x].state = "none" /\ session'[x].state # "none" =>
              session'[x].device \in Devices
        BY <1>2, <1>4, <1>7
      <2>. QED  BY <1>1, <1>8, <1>9, <2>1, EndOwn, SessionKept
    <1>. QED  BY <1>1, <1>8, <1>9, <1>10, <1>11, <1>12, <1>13, <1>14, EndOwn, ReplayKept, Combine

\* A login or a new personal session: the sessions it finishes are on the
\* device that it takes.
LEMMA SavePersonalStep ==
    ASSUME IInv, NEW p \in Procs, SavePersonal(p)
    PROVE  IInv'
    <1>. DEFINE s == txn[p].session
                old == {x \in Sessions : rowBy[x] = p}
                n == NewSession("personal", txn[p].device)
    <1>0. Typed /\ minted \in Nat
        BY TypedFact DEF Typed
    <1>1. /\ pc[p] = "save" /\ Kind(p) \in {"login", "personal"} /\ Starts(p) /\ End(p)
          /\ session' = [Finished(old) EXCEPT ![s] = n]
          /\ UNCHANGED <<authCode, deviceCode, browser, admin, syncJobs, hs, minted,
                         consented, issued, exchanges, replayed, strays, requests, mishaps>>
        BY DEF SavePersonal, historyVars, Kind, Starts
    <1>2. s \in Sessions /\ session[s].state = "none" /\ txn[p].device \in Devices
      <2>1. Knows(p) /\ s \in Sessions /\ txn[p].device \in Devices
        BY <1>1, Places DEF IInv
      <2>. QED  BY <1>1, <2>1 DEF Knows
    <1>3. \A x \in old : x \in Sessions /\ session[x].state # "none" /\ session[x].device = txn[p].device
        BY <1>1 DEF IInv, Locks
    <1>4. n \in SessionRow /\ n.state = "active" /\ n.type = "personal" /\ n.device = txn[p].device
        BY <1>2 DEF NewSession, SessionRow
    <1>5. s = txn[p].session
        OBVIOUS
    <1>. HIDE DEF s, old, n
    <1>6. /\ Finished(old) \in [Sessions -> SessionRow]
          /\ \A x \in Sessions :
                /\ Finished(old)[x].state = IF x \in old THEN "finished" ELSE session[x].state
                /\ Finished(old)[x].type = session[x].type
                /\ Finished(old)[x].device = session[x].device
                /\ x \notin old => Finished(old)[x] = session[x]
        BY FinishedFact
    <1>7. session' \in [Sessions -> SessionRow] /\ session'[s] = n
          /\ \A x \in Sessions : x # s => session'[x] = Finished(old)[x]
        BY <1>1, <1>2, <1>4, <1>6
    <1>8. Typed'
        BY <1>0, <1>1, <1>7, EndType DEF Typed
    <1>9. Keeps(p)
      <2>1. ASSUME NEW x \in Sessions
            PROVE  /\ session[x].state # "none" =>
                        /\ session'[x].state # "none"
                        /\ session'[x].device = session[x].device
                        /\ session'[x].type = session[x].type
                        /\ session'[x].state = "active" => session[x].state = "active"
                   /\ session[x].state = "none" => session'[x] = session[x] \/ x = txn[p].session
        BY <1>2, <1>3, <1>5, <1>6, <1>7
      <2>. QED  BY <1>0, <1>1, <2>1, EndOwn DEF Keeps
    <1>10. PresentInv'
      <2>1. ASSUME NEW x \in InUse'
            PROVE  session'[x].device = txn[p].device
                   \/ (x \in InUse /\ session'[x].device = session[x].device)
        <3>1. CASE x = s
            BY <1>4, <1>7, <3>1
        <3>2. CASE x # s
          <4>1. /\ x \in Sessions /\ session'[x].state = "active"
                /\ session'[x].type = "personal" \/ \E c \in Grants : x \in issued[c]
            BY <1>1 DEF InUse, Active
          <4>2. session[x].state = "active" /\ session'[x].type = session[x].type
                /\ session'[x].device = session[x].device
            BY <1>6, <1>7, <3>2, <4>1
          <4>. QED  BY <4>1, <4>2 DEF InUse, Active
        <3>. QED  BY <3>1, <3>2
      <2>2. Kind(p) # "sync"
        BY <1>1
      <2>. QED  BY <1>1, <1>9, <2>1, <2>2, EndOwn, SavePresent
    <1>11. RemovedInv'
      <2>1. s \in Active' /\ session'[s].device = txn[p].device
        BY <1>2, <1>4, <1>7 DEF Active
      <2>2. txn[p].device \in DevicesOf(Active)'
        BY <2>1 DEF DevicesOf
      <2>3. ASSUME NEW x \in Active
            PROVE  session[x].device \in DevicesOf(Active)'
        <3>1. CASE x \in old
            BY <1>3, <2>2, <3>1
        <3>2. CASE x \notin old
          <4>1. x \in Active' /\ session'[x] = session[x]
            BY <1>2, <1>6, <1>7, <3>2 DEF Active
          <4>. QED  BY <4>1 DEF DevicesOf
        <3>. QED  BY <3>1, <3>2
      <2>4. DevicesOf(Active) \subseteq DevicesOf(Active)'
        BY <2>3 DEF DevicesOf
      <2>5. txn[p].device \in Covered' /\ Kind(p) # "sync"
        BY <1>1, <2>2 DEF Covered
      <2>. QED  BY <1>1, <1>9, <2>4, <2>5, EndOwn, RemovedPlain
    <1>12. SessionInv'
      <2>1. \A x \in Sessions : session[x].state = "none" /\ session'[x].state # "none" =>
              session'[x].device \in Devices
        BY <1>2, <1>3, <1>4, <1>6, <1>7
      <2>. QED  BY <1>1, <1>8, <1>9, <2>1, EndOwn, SessionKept
    <1>. QED  BY <1>1, <1>8, <1>9, <1>10, <1>11, <1>12, EndOwn, CodesKept, ReplayKept, Combine

-----------------------------------------------------------------------------
(***************************************************************************)
(* The theorems.                                                           *)
(***************************************************************************)
\* No code is spent, no session exists and nobody is at work.
LEMMA InitIInv == Init => IInv
    <1>. SUFFICES ASSUME Init
         PROVE  IInv
        OBVIOUS
    <1>0. None \notin Procs /\ MaxSessions \in Nat /\ MaxRequests \in Nat /\ MaxMishaps \in Nat
          /\ \A s \in Sessions : s \in Nat /\ s > 0
        BY ConstantsAssumption DEF Sessions
    <1>1. Typed
      <2>1. authCode \in [AuthCodes -> AuthRow] /\ deviceCode \in [DeviceCodes -> DeviceRow]
        BY DEF Init, AuthRow, DeviceRow
      <2>2. session \in [Sessions -> SessionRow]
        BY DEF Init, SessionRow
      <2>3. pc \in [Procs -> PCs] /\ txn \in [Procs -> Txns]
        BY NoTxnFact DEF Init, PCs
      <2>4. /\ consented \in [AuthCodes -> SUBSET Sessions]
            /\ issued \in [Grants -> SUBSET Sessions] /\ exchanges \in [Grants -> Nat]
        BY DEF Init
      <2>5. rowBy \in [Lockable -> Procs \cup {None}] /\ syncBy \in Procs \cup {None}
        BY DEF Init
      <2>6. /\ minted = 0 /\ browser = "active" /\ admin = TRUE /\ syncJobs = 0 /\ hs = {}
            /\ replayed = {} /\ strays = {} /\ requests = 0 /\ mishaps = 0
        BY DEF Init
      <2>. QED  BY <1>0, <2>1, <2>2, <2>3, <2>4, <2>5, <2>6 DEF Typed
    <1>2. \A p \in Procs : pc[p] = "idle" /\ txn[p] = NoTxn /\ Kind(p) = None /\ ~Starts(p)
        BY NoTxnFact DEF Init, Kind, Starts, Kinds
    <1>3. ASSUME NEW p \in Procs
          PROVE  Knows(p) /\ Locks(p)
      <2>1. Knows(p)
        BY <1>2, NoTxnFact, PlacesOfFact DEF Knows, Kind, Kinds
      <2>2. \A r \in Lockable : rowBy[r] # p
        BY <1>0 DEF Init
      <2>3. Locks(p)
        BY <1>2, <2>2, NoTxnFact DEF Locks, Lockable, Kinds
      <2>. QED  BY <2>1, <2>3
    <1>4. AuthInv
        BY DEF Init, AuthInv, Grants
    <1>5. DeviceInv
        BY DEF Init, DeviceInv, Grants
    <1>6. SessionInv
        BY <1>2 DEF Init, SessionInv
    <1>7. Active = {} /\ InUse = {}
        BY DEF Init, Active, InUse
    <1>8. ReplayInv /\ PresentInv
        BY <1>2, <1>7 DEF Init, ReplayInv, PresentInv, DevicesOf
    <1>9. RemovedInv
        BY <1>2 DEF Init, RemovedInv
    <1>. QED  BY <1>1, <1>3, <1>4, <1>5, <1>6, <1>8, <1>9 DEF IInv

\* Every step keeps the invariant.
LEMMA NextIInv == IInv /\ [Next]_vars => IInv'
    <1>. SUFFICES ASSUME IInv, [Next]_vars
         PROVE  IInv'
        OBVIOUS
    <1>1. CASE UNCHANGED vars
      <2>1. UNCHANGED <<authCode, deviceCode, session, browser, admin, syncJobs, hs, syncBy, rowBy,
                        minted, pc, txn, consented, issued, exchanges, replayed, strays, requests, mishaps>>
        BY <1>1 DEF vars, dbVars, lockVars, procVars, historyVars
      <2>2. Typed' /\ None \notin Procs
        BY <2>1, TypedFact, ConstantsAssumption DEF Typed
      <2>3. Keeps(None) /\ \A s \in Sessions : session[s].state = "none" => session'[s].state = "none"
        BY <2>1, OutsideKeeps
      <2>4. RemovedInv'
        BY <2>1, <2>2, <2>3, RemovedPlain DEF DevicesOf, Active
      <2>. QED  BY <2>1, <2>2, <2>3, <2>4, CodesKept, ReplayKept, OutsideStep
    <1>2. CASE Demote
        BY <1>2, DemoteStep
    <1>3. CASE LogoutAll \/ \E s \in Sessions : EndSession(s)
        BY <1>3, EndSessionStep
    <1>4. CASE \E g \in Grants : Age(g)
        BY <1>4, AgeStep
    <1>5. CASE \E c \in AuthCodes : ReplayAuthCode(c)
        BY <1>5, ReplayAuthCodeStep
    <1>6. ASSUME NEW p \in Procs, Request(p)
          PROVE  IInv'
        BY <1>6, ReadConsentStep, ReadAuthCodeStep, ReadDeviceCodeStep, BeginPersonalStep DEF Request
    <1>7. ASSUME NEW p \in Procs, Step(p)
          PROVE  IInv'
      <2>1. CASE FulfillAuthCode(p) \/ DecideDeviceCode(p) \/ RefuseAdminScope(p)
        BY <2>1, FulfillAuthCodeStep, DecideDeviceCodeStep, RefuseAdminScopeStep
      <2>2. CASE UseSession(p) \/ MarkDeviceCode(p) \/ TakeOverDevice(p) \/ AcquireLockForSync(p)
        BY <2>2, UseSessionStep, MarkDeviceCodeStep, TakeOverStep, LockStep
      <2>3. CASE RunSync(p) \/ Collect(p) \/ PushDevices(p) \/ SaveSync(p) \/ UpsertDevice(p)
        BY <2>3, RunSyncStep, CollectStep, PushStep, SaveSyncStep, UpsertStep
      <2>4. CASE SaveExchange(p)
        BY <2>4, SaveAuthCodeStep, SaveDeviceCodeStep
      <2>5. CASE SavePersonal(p) \/ BreakDeadlock(p)
        BY <2>5, SavePersonalStep, FailStep
      <2>. QED  BY <1>7, <2>1, <2>2, <2>3, <2>4, <2>5 DEF Step
    <1>8. ASSUME NEW p \in Procs, Fail(p)
          PROVE  IInv'
        BY <1>8, FailStep
    <1>. QED  BY <1>1, <1>2, <1>3, <1>4, <1>5, <1>6, <1>7, <1>8 DEF Next, Terminated

\* The inductive invariant holds in every reachable state.
THEOREM Invariance == Spec => []IInv
    BY InitIInv, NextIInv, PTL DEF Spec

\* Rows decode: an authorization code always, a device code unless it was both
\* approved and rejected.
LEMMA RowsDecode ==
    ASSUME IInv
    PROVE  /\ \A c \in AuthCodes : AuthStage(authCode[c]) # "inconsistent"
           /\ \A c \in DeviceCodes : DeviceState(deviceCode[c]) = "inconsistent" =>
                deviceCode[c].fulfilled /\ deviceCode[c].rejected
    <1>1. ASSUME NEW c \in AuthCodes
          PROVE  AuthStage(authCode[c]) # "inconsistent"
      <2>1. /\ authCode[c].fulfilled = "no" <=> authCode[c].session = None
            /\ authCode[c].exchanged # "no" => authCode[c].fulfilled # "no"
        BY DEF IInv, AuthInv
      <2>. QED  BY <2>1 DEF AuthStage
    <1>2. ASSUME NEW c \in DeviceCodes, ~(deviceCode[c].fulfilled /\ deviceCode[c].rejected)
          PROVE  DeviceState(deviceCode[c]) # "inconsistent"
      <2>1. /\ deviceCode[c].exchanged \in BOOLEAN /\ deviceCode[c].fulfilled \in BOOLEAN
            /\ deviceCode[c].rejected \in BOOLEAN
        BY TypedFact DEF Typed, DeviceRow
      <2>2. /\ deviceCode[c].exchanged <=> deviceCode[c].session # None
            /\ deviceCode[c].exchanged => deviceCode[c].fulfilled
        BY DEF IInv, DeviceInv
      <2>. QED  BY <1>2, <2>1, <2>2 DEF DeviceState
    <1>. QED  BY <1>1, <1>2

\* The variables keep their types, and rows decode, however requests overlap.
THEOREM TypeCorrect == Spec => []TypeOK
    <1>1. ASSUME IInv
          PROVE  TypeOK
      <2>1. ASSUME NEW p \in Procs
            PROVE  /\ txn[p].kind \in Kinds \cup {None} /\ txn[p].grant \in Grants \cup {None}
                   /\ txn[p].session \in Sessions \cup {None} /\ txn[p].device \in Devices \cup {None}
                   /\ txn[p].devices \subseteq Devices
                   /\ pc[p] = "idle" <=> txn[p] = NoTxn
        <3>1. txn[p] \in Txns /\ (pc[p] = "idle" <=> txn[p] = NoTxn)
            BY <1>1, Places
        <3>. QED  BY <3>1 DEF Txns
      <2>2. Typed
        BY <1>1, TypedFact
      <2>. QED  BY <1>1, <2>1, <2>2, RowsDecode DEF Typed, TypeOK
    <1>. QED  BY <1>1, Invariance, PTL

\* Tokens are only issued to a request that began before the code was spent.
THEOREM SpentCodesRefused == Spec => SpentCodeIsRefused
    <1>1. ASSUME IInv
          PROVE  [\A g \in Grants, p \in Procs :
                    exchanges'[g] # exchanges[g] /\ pc[p] = "save" /\ pc'[p] = "idle"
                      /\ txn[p].grant = g => ~txn[p].spent]_vars
        BY <1>1 DEF IInv, Knows
    <1>. QED  BY <1>1, Invariance, PTL DEF SpentCodeIsRefused

\* Two sessions are more than one.
LEMMA TwoSessions ==
    ASSUME NEW S \in SUBSET Sessions, NEW s1 \in S, NEW s2 \in S, s1 # s2
    PROVE  Cardinality(S) > 1
    <1>1. IsFiniteSet(S)
      <2>1. IsFiniteSet(Sessions)
        BY FS_Interval, ConstantsAssumption DEF Sessions
      <2>. QED  BY <2>1, FS_Subset
    <1>2. Cardinality(S) \in Nat /\ Cardinality(S) # 0
        BY <1>1, FS_CardinalityType, FS_EmptySet
    <1>3. Cardinality(S) # 1
        BY <1>1, FS_Singleton
    <1>. QED  BY <1>2, <1>3

\* A late replay leaves no session with tokens of the code alive, unless
\* consents had overlapped.
THEOREM ReplaysKillTokens == Spec => []ReplayKillsTokens
    <1>1. ASSUME IInv
          PROVE  ReplayKillsTokens
      <2>1. ASSUME NEW c \in replayed
            PROVE  Cardinality(consented[c]) > 1 \/ issued[c] \cap Active = {}
        <3>1. c \in AuthCodes /\ consented[c] \in SUBSET Sessions
            BY <1>1, TypedFact DEF Typed
        <3>2. CASE \E s1, s2 \in consented[c] : s1 # s2
            BY <3>1, <3>2, TwoSessions
        <3>3. CASE \A s \in consented[c] : session[s].state # "active"
          <4>1. issued[c] \subseteq consented[c]
            BY <1>1, <3>1 DEF IInv, AuthInv
          <4>. QED  BY <3>3, <4>1 DEF Active
        <3>4. \/ \E s1, s2 \in consented[c] : s1 # s2
              \/ \A s \in consented[c] : session[s].state # "active"
            BY <1>1, <2>1 DEF IInv, ReplayInv
        <3>. QED  BY <3>2, <3>3, <3>4
      <2>. QED  BY <2>1 DEF ReplayKillsTokens
    <1>. QED  BY <1>1, Invariance, PTL

\* The homeserver has the device of every session a client holds tokens of.
THEOREM DevicesStayPresent == Spec => []DevicesPresent
    <1>1. IInv => DevicesPresent
        BY DEF IInv, PresentInv, DevicesPresent
    <1>. QED  BY <1>1, Invariance, PTL

\* And no other device, once all is quiet, but the ones left behind.
THEOREM DevicesGetRemoved == Spec => []DevicesRemoved
    <1>1. ASSUME IInv, Quiet
          PROVE  hs \subseteq DevicesOf(Active) \cup strays
      <2>1. ~SyncWaits /\ Covered = DevicesOf(Active) \cup strays
        BY <1>1 DEF Quiet, SyncWaits, Covered
      <2>2. ~\E p \in Procs : pc[p] \in {"collectPersonal", "push"}
        BY <1>1 DEF Quiet
      <2>. QED  BY <1>1, <2>1, <2>2 DEF IInv, RemovedInv
    <1>2. IInv => DevicesRemoved
        BY <1>1 DEF DevicesRemoved
    <1>. QED  BY <1>2, Invariance, PTL
=============================================================================
