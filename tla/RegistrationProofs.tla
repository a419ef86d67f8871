------------------------- MODULE RegistrationProofs -------------------------
(***************************************************************************)
(* Proofs about Registration, for any number of accounts, addresses,       *)
(* registrations, sessions and requests that overlap: a new account keeps  *)
(* a way to log in, has one link, only has an address it proved, and       *)
(* shares it with nobody, each with the exceptions the property names.     *)
(***************************************************************************)
EXTENDS Registration, FiniteSetTheorems, TLAPS

(***************************************************************************)
(* What a request may rely on between its reads and its writes, as         *)
(* predicates on its state.                                                *)
(***************************************************************************)
\* A finish works for a registration that exists and an address it proved.
KnowsRegistration(me) ==
    /\ me.pc \in {"prepare", "complete"} =>
         LET r == me.registration IN
         /\ r \in Registrations /\ me.name \in Names
         /\ registration[r].state # "none" /\ registration[r].name = me.name
         /\ me.auth # None => auth[r][me.auth] # None /\ auth[r][me.auth].completed
         /\ me.session = None => registration[r].session = None
         /\ me.pc = "complete" =>
              /\ me.address # None =>
                   me.auth # None /\ auth[r][me.auth].address = me.address
              /\ me.session # None => me.link # None
    /\ me.pc = "verify" =>
         /\ me.registration \in Registrations /\ me.auth \in Auths
         /\ auth[me.registration][me.auth] # None
    /\ me.pc = "change" => me.registration \in Registrations /\ me.address \in Addresses

\* A link that a request found free is so still, or somebody else claimed it
\* meanwhile, or the cleanup has deleted it with the session.
KnowsLink(me) ==
    /\ me.pc \in {"login", "resolve", "claim"} => me.session # None
    /\ me.pc = "resolve" => me.link # None /\ me.name \in Names
    /\ me.pc = "claim" => me.link # None /\ me.name \in users
    /\ me.link # None =>
         /\ me.session # None
         /\ \/ Unowned(me.link) /\ session[me.session].link = me.link
            \/ "link" \in me.raced
            \/ session[me.session].state = "deleted"
         /\ me.link \in Links /\ ~Unowned(me.link) => link[me.link].owner \in raced["link"]

\* A link that is to be removed belongs to the account it is removed for, or
\* to one that claimed it at the same time as another.
KnowsDrop(me) ==
    /\ me.pc = "unlink" => me.name \in Names
    /\ \A l \in me.drop :
         /\ session[l].state # "none"
         /\ l \in Links =>
              ~Unowned(l) /\ (link[l].owner = me.name \/ link[l].owner \in raced["link"])

\* With on_conflict set or replace, the links of the account are to be removed.
KnowsAccount(me) ==
    me.pc = "claim" /\ config.upstream \in {"set", "replace"} =>
        \/ me.name \in linked
        \/ "account" \in me.raced
        \/ LinksOf(me.name) \subseteq me.drop

\* Whoever else has the address by now added it as a contact or overlapped.
KnowsAddress(me) ==
    me.pc = "complete" /\ me.address # None =>
        \A n \in Holders(me.address) :
            \/ <<n, me.address>> \in contacts
            \/ n \in raced["address"] /\ "address" \in me.raced

Knows(me) ==
    /\ KnowsRegistration(me) /\ KnowsLink(me) /\ KnowsDrop(me)
    /\ KnowsAccount(me) /\ KnowsAddress(me)

\* A registration is turned into one account, and has one as its name.
RowInv ==
    /\ \A r \in Registrations :
         /\ registration[r].state # "none" => registration[r].name \in Names
         /\ registration[r].auth # None => auth[r][registration[r].auth] # None
         /\ registration[r].state = "completed" => registration[r].name \in users
    /\ \A r1, r2 \in Registrations :
         /\ registration[r1].state = "completed" /\ registration[r2].state = "completed"
         /\ registration[r1].name = registration[r2].name
         => r1 = r2

\* A row of the table of links is inserted once, and its owner exists.
LinkInv ==
    /\ \A s \in Sessions :
         /\ session[s].state = "none" => link[s] = None
         /\ session[s].state \in {"none", "unlinked", "deleted"} => session[s].link = None
    /\ \A l \in Links : ~Unowned(l) => link[l].owner \in users

OneLink ==
    config.upstream \in {"set", "replace"} =>
        \A n \in users : \A l1, l2 \in LinksOf(n) :
            l1 = l2 \/ n \in linked \cup raced["account"]

KnowsInv == \A q \in Requests : Knows(request[q])

IInv ==
    /\ TypeOK /\ RowInv /\ LinkInv /\ KnowsInv
    /\ CredentialKept /\ OneLink /\ AddressWasProved /\ AddressSharedOnlyByRace
-----------------------------------------------------------------------------
(***************************************************************************)
(* Steps of a request that write nothing.                                  *)
(***************************************************************************)
\* A request that has ended relies on nothing.
LEMMA IdleFacts ==
    ASSUME NEW q \in Requests
    PROVE /\ Idle \in RequestState /\ Idle.pc = "idle" /\ Idle.link = None
          /\ Idle.drop = {} /\ Idle.address = None /\ Knows(Idle)
  <1>1. /\ Idle \in RequestState /\ Idle.pc = "idle" /\ Idle.link = None
        /\ Idle.drop = {} /\ Idle.address = None
    BY DEF Idle, RequestState
  <1>2. QED
    BY <1>1
    DEF Knows, KnowsRegistration, KnowsLink, KnowsDrop, KnowsAccount, KnowsAddress

\* The state of one request changes, and what it relies on holds.
LEMMA RequestStep ==
    ASSUME IInv, NEW q \in Requests, NEW st \in RequestState, Step(q, st),
           KnowsRegistration(st), KnowsLink(st), KnowsDrop(st), KnowsAddress(st),
           KnowsAccount(st) \/ st.name \in linked',
           UNCHANGED <<config, accountVars, registrationVars, upstreamVars,
                       contacts, unlinked, raced>>,
           linked \subseteq linked', linked' \subseteq Names
    PROVE IInv'
  <1> USE DEF accountVars, registrationVars, upstreamVars
  <1>1. /\ request' \in [Requests -> RequestState] /\ request'[q] = st
        /\ \A p \in Requests : p # q => request'[p] = request[p]
    BY DEF IInv, TypeOK, Step
  <1>2. Links' = Links
    BY DEF Links
  <1>3. TypeOK' /\ RowInv' /\ LinkInv'
    BY <1>1, <1>2 DEF IInv, TypeOK, RowInv, LinkInv, Unowned
  <1>4. CredentialKept' /\ AddressWasProved' /\ AddressSharedOnlyByRace'
    BY <1>2 DEF IInv, CredentialKept, LinksOf, Swept, AddressWasProved,
       AddressSharedOnlyByRace, Holders
  <1>5. OneLink'
    BY <1>2 DEF IInv, OneLink, LinksOf
  <1>6. ASSUME NEW p \in Requests PROVE KnowsRegistration(request[p])'
    BY <1>1 DEF IInv, KnowsInv, Knows, KnowsRegistration
  <1>7. ASSUME NEW p \in Requests PROVE KnowsLink(request[p])'
    BY <1>1, <1>2 DEF IInv, KnowsInv, Knows, KnowsLink, Unowned
  <1>8. ASSUME NEW p \in Requests PROVE KnowsDrop(request[p])'
    BY <1>1, <1>2 DEF IInv, KnowsInv, Knows, KnowsDrop, Unowned
  <1>9. ASSUME NEW p \in Requests PROVE KnowsAccount(request[p])'
    BY <1>1, <1>2 DEF IInv, KnowsInv, Knows, KnowsAccount, LinksOf
  <1>10. ASSUME NEW p \in Requests PROVE KnowsAddress(request[p])'
    BY <1>1 DEF IInv, KnowsInv, Knows, KnowsAddress, Holders
  <1>11. KnowsInv'
    BY <1>6, <1>7, <1>8, <1>9, <1>10 DEF KnowsInv, Knows
  <1>12. QED
    BY <1>3, <1>4, <1>5, <1>11 DEF IInv

\* A code is looked up for an authentication that exists.
LEMMA VerifyEmailCodeStep ==
    ASSUME IInv, NEW q \in Requests, NEW r \in Registrations, VerifyEmailCode(q, r)
    PROVE IInv'
  <1> DEFINE st == [Idle EXCEPT !.pc = "verify", !.registration = r,
                                !.auth = registration[r].auth]
  <1>1. /\ registration[r].auth \in Auths
        /\ auth[r][registration[r].auth] # None
    BY DEF VerifyEmailCode, Pending, IInv, TypeOK, RegistrationRow, RowInv
  <1>2. /\ st \in RequestState /\ st.pc = "verify" /\ st.registration = r
        /\ st.auth = registration[r].auth /\ st.link = None /\ st.drop = {}
    BY <1>1 DEF Idle, RequestState
  <1> HIDE DEF st
  <1>3. Knows(st)
    BY <1>1, <1>2
    DEF Knows, KnowsRegistration, KnowsLink, KnowsDrop, KnowsAccount, KnowsAddress
  <1>4. Step(q, st)
    BY DEF VerifyEmailCode, st
  <1>5. QED
    BY <1>2, <1>3, <1>4, RequestStep DEF Knows, VerifyEmailCode, historyVars, IInv, TypeOK

\* A new address is checked for a registration.
LEMMA ChangeEmailStep ==
    ASSUME IInv, NEW q \in Requests, NEW r \in Registrations, NEW a \in Addresses,
           ChangeEmail(q, r, a)
    PROVE IInv'
  <1> DEFINE st == [Idle EXCEPT !.pc = "change", !.registration = r, !.address = a]
  <1>1. /\ st \in RequestState /\ st.pc = "change" /\ st.registration = r
        /\ st.address = a /\ st.link = None /\ st.drop = {}
    BY DEF Idle, RequestState
  <1>2. Step(q, st)
    BY DEF ChangeEmail
  <1> HIDE DEF st
  <1>3. Knows(st)
    BY <1>1
    DEF Knows, KnowsRegistration, KnowsLink, KnowsDrop, KnowsAccount, KnowsAddress
  <1>4. QED
    BY <1>1, <1>2, <1>3, RequestStep DEF Knows, ChangeEmail, historyVars, IInv, TypeOK

\* A finish starts with an address that is verified, or none.
LEMMA LoadProgressStep ==
    ASSUME IInv, NEW q \in Requests, NEW r \in Registrations, LoadProgress(q, r)
    PROVE IInv'
  <1> DEFINE row == registration[r]
             st == [Idle EXCEPT !.pc = "prepare", !.registration = r, !.name = row.name,
                                !.auth = row.auth, !.session = row.session]
  <1>1. /\ row.state = "open" /\ row.name \in Names /\ row.auth \in Auths \cup {None}
        /\ row.session \in Sessions \cup {None}
        /\ row.auth # None => auth[r][row.auth] # None /\ auth[r][row.auth].completed
    BY DEF LoadProgress, Pending, IInv, TypeOK, RegistrationRow, RowInv
  <1>2. /\ st \in RequestState /\ st.pc = "prepare" /\ st.registration = r
        /\ st.name = row.name /\ st.auth = row.auth /\ st.session = row.session
        /\ st.link = None /\ st.drop = {}
    BY <1>1 DEF Idle, RequestState
  <1>3. Step(q, st)
    BY DEF LoadProgress
  <1> HIDE DEF st
  <1>4. Knows(st)
    BY <1>1, <1>2
    DEF Knows, KnowsRegistration, KnowsLink, KnowsDrop, KnowsAccount, KnowsAddress
  <1>5. QED
    BY <1>2, <1>3, <1>4, RequestStep DEF Knows, LoadProgress, historyVars, IInv, TypeOK

\* The checks of the finish: the address is in nobody's use, the link has no
\* owner.
LEMMA PrepareCompletionStep ==
    ASSUME IInv, NEW q \in Requests, PrepareCompletion(q)
    PROVE IInv'
  <1> DEFINE me == request[q]
             l == IF me.session = None THEN None ELSE LinkOf(me.session)
             st == [me EXCEPT !.pc = "complete", !.address = AddressOf(q), !.link = l]
  <1>1. me \in RequestState /\ me.pc = "prepare" /\ Knows(me)
    BY DEF PrepareCompletion, IInv, TypeOK, KnowsInv
  <1>2. /\ me.auth = None => AddressOf(q) = None
        /\ me.auth # None => /\ AddressOf(q) \in Addresses
                             /\ AddressOf(q) = auth[me.registration][me.auth].address
        /\ AddressOf(q) # None => Holders(AddressOf(q)) = {}
    <2>1. /\ me.auth \in Auths \cup {None} /\ me.registration \in Registrations
          /\ me.auth # None => auth[me.registration][me.auth] \in AuthRow
      BY <1>1 DEF Knows, KnowsRegistration, RequestState, IInv, TypeOK
    <2>2. QED
      BY <2>1 DEF PrepareCompletion, AddressOf, AddressIsFree, InUse, AuthRow
  <1>3. /\ me.session = None => l = None
        /\ me.session # None => /\ l \in Sessions /\ l # None /\ Unowned(l)
                                /\ session[me.session].link = l
    <2>1. me.session \in Sessions \cup {None}
      BY <1>1 DEF RequestState
    <2>2. QED
      BY <2>1 DEF PrepareCompletion, LinkIsFree, LinkOf, Unowned, Links
  <1>4. /\ st \in RequestState /\ st.pc = "complete" /\ st.address = AddressOf(q)
        /\ st.link = l /\ st.session = me.session /\ st.auth = me.auth
        /\ st.registration = me.registration /\ st.name = me.name /\ st.drop = me.drop
    BY <1>1, <1>2, <1>3 DEF RequestState
  <1>5. Step(q, st)
    BY DEF PrepareCompletion
  <1> HIDE DEF st, l
  <1>6. KnowsRegistration(st)
    BY <1>1, <1>2, <1>3, <1>4 DEF Knows, KnowsRegistration
  <1>7. KnowsLink(st) /\ KnowsDrop(st) /\ KnowsAccount(st)
    BY <1>1, <1>3, <1>4 DEF Knows, KnowsLink, KnowsDrop, KnowsAccount
  <1>8. KnowsAddress(st)
    BY <1>2, <1>4 DEF KnowsAddress
  <1>9. QED
    BY <1>4, <1>5, <1>6, <1>7, <1>8, RequestStep
    DEF Knows, PrepareCompletion, historyVars, IInv, TypeOK

\* A login remembers its session.
LEMMA LoadOwnedLinkStep ==
    ASSUME IInv, NEW q \in Requests, NEW s \in Sessions, LoadOwnedLink(q, s)
    PROVE IInv'
  <1> DEFINE n == link[session[s].link].owner
             st == [Idle EXCEPT !.pc = "login", !.session = s, !.name = n]
  <1>1. n \in Names
    BY DEF LoadOwnedLink, InContext, Links, Unowned, IInv, TypeOK, LinkRow
  <1>2. /\ st \in RequestState /\ st.pc = "login" /\ st.session = s
        /\ st.link = None /\ st.drop = {}
    BY <1>1 DEF Idle, RequestState
  <1>3. Step(q, st)
    BY DEF LoadOwnedLink
  <1> HIDE DEF st
  <1>4. Knows(st)
    BY <1>2, ConstantsAssumption
    DEF Knows, KnowsRegistration, KnowsLink, KnowsDrop, KnowsAccount, KnowsAddress
  <1>5. QED
    BY <1>2, <1>3, <1>4, RequestStep DEF Knows, LoadOwnedLink, historyVars, IInv, TypeOK

\* A login starts from a link that has no owner.
LEMMA LoadUnownedLinkStep ==
    ASSUME IInv, NEW q \in Requests, NEW s \in Sessions, LoadUnownedLink(q, s)
    PROVE IInv'
  <1> DEFINE l == session[s].link
             n == LocalpartOf[link[l].subject]
             st == [Idle EXCEPT !.pc = "resolve", !.session = s, !.link = l, !.name = n]
  <1>1. l \in Sessions /\ l # None /\ s # None /\ Unowned(l) /\ n \in Names
    BY ConstantsAssumption DEF LoadUnownedLink, InContext, Unowned, Links, IInv, TypeOK,
       LinkRow
  <1>2. /\ st \in RequestState /\ st.pc = "resolve" /\ st.session = s
        /\ st.link = l /\ st.drop = {} /\ st.name = n
    BY <1>1 DEF Idle, RequestState
  <1>3. Step(q, st)
    BY DEF LoadUnownedLink
  <1> HIDE DEF st
  <1>4. Knows(st)
    BY <1>1, <1>2
    DEF Knows, KnowsRegistration, KnowsLink, KnowsDrop, KnowsAccount, KnowsAddress
  <1>5. QED
    BY <1>2, <1>3, <1>4, RequestStep DEF Knows, LoadUnownedLink, historyVars, IInv, TypeOK

\* The links to replace are those of the account.
LEMMA ResolveConflictStep ==
    ASSUME IInv, NEW q \in Requests, ResolveConflict(q)
    PROVE IInv'
  <1> DEFINE me == request[q]
             drop == IF config.upstream = "replace" THEN LinksOf(me.name) ELSE {}
             st == [me EXCEPT !.pc = "claim", !.drop = drop]
  <1>1. me \in RequestState /\ me.pc = "resolve" /\ Knows(me) /\ me.name \in users
    BY DEF ResolveConflict, IInv, TypeOK, KnowsInv
  <1>2. /\ drop \in SUBSET Sessions /\ me.name # None
        /\ \A l \in drop : ~Unowned(l) /\ link[l].owner = me.name /\ session[l].state # "none"
        /\ config.upstream \in {"set", "replace"} => LinksOf(me.name) \subseteq drop
    BY <1>1, ConstantsAssumption
    DEF ResolveConflict, LinksOf, Links, Unowned, Knows, KnowsLink, IInv, TypeOK, LinkInv
  <1>3. /\ st \in RequestState /\ st.pc = "claim" /\ st.drop = drop
        /\ st.link = me.link /\ st.session = me.session
        /\ st.name = me.name /\ st.raced = me.raced
    BY <1>1, <1>2 DEF RequestState
  <1>4. Step(q, st)
    BY DEF ResolveConflict
  <1> HIDE DEF st, drop
  <1>5. Knows(st)
    BY <1>1, <1>2, <1>3
    DEF Knows, KnowsRegistration, KnowsLink, KnowsDrop, KnowsAccount, KnowsAddress
  <1>6. QED
    BY <1>3, <1>4, <1>5, RequestStep DEF Knows, ResolveConflict, historyVars, IInv, TypeOK

\* An account that is logged in asks for a link that has no owner.
LEMMA LinkCurrentSessionStep ==
    ASSUME IInv, NEW q \in Requests, NEW s \in Sessions, NEW n \in Names,
           LinkCurrentSession(q, s, n)
    PROVE IInv'
  <1> DEFINE l == session[s].link
             st == [Idle EXCEPT !.pc = "claim", !.session = s, !.link = l, !.name = n]
  <1>1. l \in Sessions /\ l # None /\ s # None /\ Unowned(l) /\ n \in users
    BY ConstantsAssumption DEF LinkCurrentSession, InContext, Links, IInv, TypeOK
  <1>2. /\ st \in RequestState /\ st.pc = "claim" /\ st.session = s
        /\ st.link = l /\ st.drop = {} /\ st.name = n
    BY <1>1 DEF Idle, RequestState
  <1>3. Step(q, st) /\ linked' = linked \cup {n}
    BY DEF LinkCurrentSession
  <1> HIDE DEF st
  <1> USE DEF accountVars, registrationVars, upstreamVars
  <1>4. UNCHANGED <<config, users, passwords, emails, registration, auth, link, session,
                    contacts, unlinked, raced>>
    BY DEF LinkCurrentSession
  <1>5. KnowsRegistration(st) /\ KnowsLink(st) /\ KnowsDrop(st) /\ KnowsAddress(st)
    BY <1>1, <1>2 DEF KnowsRegistration, KnowsLink, KnowsDrop, KnowsAddress
  <1>6. QED
    BY <1>2, <1>3, <1>4, <1>5, RequestStep DEF IInv, TypeOK

\* The link to remove belongs to the account.
LEMMA UnlinkStep ==
    ASSUME IInv, NEW q \in Requests, NEW l \in Sessions, Unlink(q, l)
    PROVE IInv'
  <1> DEFINE st == [Idle EXCEPT !.pc = "unlink", !.drop = {l}, !.name = link[l].owner]
  <1>1. /\ link[l].owner \in Names /\ l \in Links /\ ~Unowned(l)
        /\ session[l].state # "none"
    BY DEF Unlink, Links, Unowned, IInv, TypeOK, LinkRow, LinkInv
  <1>2. /\ st \in RequestState /\ st.pc = "unlink" /\ st.drop = {l} /\ st.link = None
        /\ st.name = link[l].owner
    BY <1>1 DEF Idle, RequestState
  <1>3. Step(q, st)
    BY DEF Unlink
  <1> HIDE DEF st
  <1>4. Knows(st)
    BY <1>1, <1>2
    DEF Knows, KnowsRegistration, KnowsLink, KnowsDrop, KnowsAccount, KnowsAddress
  <1>5. QED
    BY <1>2, <1>3, <1>4, RequestStep DEF Knows, Unlink, historyVars, IInv, TypeOK

\* A request ends with an error.
LEMMA FailStep ==
    ASSUME IInv, NEW q \in Requests, Fail(q)
    PROVE IInv'
  BY IdleFacts, RequestStep DEF Knows, Fail, End, historyVars, IInv, TypeOK

-----------------------------------------------------------------------------
(***************************************************************************)
(* Steps that write registrations and their authentications.               *)
(***************************************************************************)
\* An authentication is a row.
LEMMA AuthRowFacts ==
    ASSUME NEW a \in Addresses, NEW c \in BOOLEAN
    PROVE LET row == [address |-> a, completed |-> c] IN
          row \in AuthRow /\ row # None /\ row.address = a /\ row.completed = c
  <1> DEFINE row == [address |-> a, completed |-> c]
  <1>1. row \in AuthRow /\ row.address = a /\ row.completed = c
    BY DEF AuthRow
  <1> HIDE DEF row
  <1>2. row # None
    BY <1>1, RowAssumption
  <1>3. QED
    BY <1>1, <1>2 DEF row

\* Rows come up, and change in what no account depends on: a registration that
\* was begun keeps its name, an authentication that was completed stays.
LEMMA RowsStep ==
    ASSUME IInv,
           request' \in [Requests -> RequestState],
           \A p \in Requests : request'[p] \in {request[p], Idle},
           registration' \in [Registrations -> RegistrationRow],
           auth' \in [Registrations -> [Auths -> AuthRow \cup {None}]],
           UNCHANGED <<config, accountVars, upstreamVars, historyVars>>,
           \A r \in Registrations :
             /\ registration[r].state # "none" =>
                  /\ registration'[r].state = registration[r].state
                  /\ registration'[r].name = registration[r].name
                  /\ registration'[r].password = registration[r].password
                  /\ registration'[r].session = registration[r].session
             /\ registration[r].state = "none" => registration'[r].state # "completed"
             /\ registration'[r].state # "none" => registration'[r].name \in Names
             /\ registration'[r].auth # None => auth'[r][registration'[r].auth] # None,
           \A r \in Registrations, k \in Auths :
             /\ auth[r][k] # None => auth'[r][k] # None
             /\ registration[r].state # "none" /\ auth[r][k] # None /\ auth[r][k].completed
                => auth'[r][k] = auth[r][k]
    PROVE IInv'
  <1> USE DEF accountVars, upstreamVars, historyVars
  <1>1. Links' = Links
    BY DEF Links
  <1>2. TypeOK' /\ LinkInv' /\ OneLink' /\ AddressSharedOnlyByRace'
    BY <1>1 DEF IInv, TypeOK, LinkInv, Unowned, OneLink, LinksOf,
       AddressSharedOnlyByRace, Holders
  <1>3. RowInv'
    BY DEF IInv, RowInv
  <1>4. CredentialKept'
    <2>1. \A n \in users : Swept(n) => Swept(n)'
      BY DEF Swept
    <2>2. QED
      BY <1>1, <2>1 DEF IInv, CredentialKept, LinksOf
  <1>5. AddressWasProved'
    <2> SUFFICES ASSUME NEW r \in Registrations, registration'[r].state = "completed",
                        NEW a \in Addresses,
                        <<registration'[r].name, a>> \in emails \ contacts
                 PROVE \E k \in Auths : auth'[r][k] = [address |-> a, completed |-> TRUE]
      BY DEF AddressWasProved
    <2>1. registration[r].state = "completed" /\ registration'[r].name = registration[r].name
      OBVIOUS
    <2>2. PICK k \in Auths : auth[r][k] = [address |-> a, completed |-> TRUE]
      BY <2>1 DEF IInv, AddressWasProved
    <2>3. auth[r][k] # None /\ auth[r][k].completed
      BY <2>2, AuthRowFacts
    <2>4. QED
      BY <2>1, <2>2, <2>3
  <1>6. ASSUME NEW p \in Requests PROVE KnowsRegistration(request[p])'
    <2>1. CASE request'[p] = Idle
      BY <2>1, IdleFacts DEF KnowsRegistration
    <2>2. CASE request'[p] = request[p]
      <3>1. request[p] \in RequestState /\ KnowsRegistration(request[p])
        BY DEF IInv, TypeOK, KnowsInv, Knows
      <3>2. request[p].auth \in Auths \cup {None}
        BY <3>1 DEF RequestState
      <3>3. QED
        BY <2>2, <3>1, <3>2 DEF KnowsRegistration
    <2>3. QED
      BY <2>1, <2>2
  <1>7. ASSUME NEW p \in Requests PROVE KnowsLink(request[p])'
    BY <1>1, IdleFacts DEF IInv, KnowsInv, Knows, KnowsLink, Unowned
  <1>8. ASSUME NEW p \in Requests PROVE KnowsDrop(request[p])'
    BY <1>1, IdleFacts DEF IInv, KnowsInv, Knows, KnowsDrop, Unowned
  <1>9. ASSUME NEW p \in Requests PROVE KnowsAccount(request[p])'
    BY <1>1, IdleFacts DEF IInv, KnowsInv, Knows, KnowsAccount, LinksOf
  <1>10. ASSUME NEW p \in Requests PROVE KnowsAddress(request[p])'
    BY IdleFacts DEF IInv, KnowsInv, Knows, KnowsAddress, Holders
  <1>11. KnowsInv'
    BY <1>6, <1>7, <1>8, <1>9, <1>10 DEF KnowsInv, Knows
  <1>12. QED
    BY <1>2, <1>3, <1>4, <1>5, <1>11 DEF IInv

\* A registration with a password begins.
LEMMA BeginPasswordRegistrationStep ==
    ASSUME IInv, NEW r \in Registrations, NEW n \in Names, NEW a \in Addresses \cup {None},
           BeginPasswordRegistration(r, n, a)
    PROVE IInv'
  <1> DEFINE row == [state |-> "open", name |-> n, password |-> TRUE,
                     auth |-> IF a = None THEN None ELSE 1, session |-> None]
             new == [address |-> a, completed |-> FALSE]
  <1>1. row \in RegistrationRow /\ row.state = "open" /\ row.name = n
        /\ row.auth = (IF a = None THEN None ELSE 1) /\ 1 \in Auths
    BY ConstantsAssumption DEF RegistrationRow, Auths
  <1>2. a # None => new \in AuthRow /\ new # None
    BY AuthRowFacts
  <1>3. /\ registration' = [registration EXCEPT ![r] = row]
        /\ auth' = IF a = None THEN auth ELSE [auth EXCEPT ![r][1] = new]
        /\ registration[r].state = "none"
        /\ UNCHANGED <<config, accountVars, upstreamVars, request, historyVars>>
    BY DEF BeginPasswordRegistration
  <1> HIDE DEF row, new
  <1>4. QED
    BY <1>1, <1>2, <1>3, RowsStep DEF IInv, TypeOK, RowInv

\* A registration from an upstream session begins.
LEMMA PrepareUserRegistrationStep ==
    ASSUME IInv, NEW r \in Registrations, NEW s \in Sessions, NEW n \in Names,
           NEW a \in Addresses \cup {None}, PrepareUserRegistration(r, s, n, a)
    PROVE IInv'
  <1> DEFINE row == [state |-> "open", name |-> n, password |-> FALSE,
                     auth |-> IF a = None THEN None ELSE 1, session |-> s]
             new == [address |-> a, completed |-> TRUE]
  <1>1. row \in RegistrationRow /\ row.state = "open" /\ row.name = n
        /\ row.auth = (IF a = None THEN None ELSE 1) /\ 1 \in Auths
    BY ConstantsAssumption DEF RegistrationRow, Auths
  <1>2. a # None => new \in AuthRow /\ new # None
    BY AuthRowFacts
  <1>3. /\ registration' = [registration EXCEPT ![r] = row]
        /\ auth' = IF a = None THEN auth ELSE [auth EXCEPT ![r][1] = new]
        /\ registration[r].state = "none"
        /\ UNCHANGED <<config, accountVars, upstreamVars, request, historyVars>>
    BY DEF PrepareUserRegistration
  <1> HIDE DEF row, new
  <1>4. QED
    BY <1>1, <1>2, <1>3, RowsStep DEF IInv, TypeOK, RowInv

\* A code completes an authentication.
LEMMA CompleteAuthenticationStep ==
    ASSUME IInv, NEW q \in Requests, CompleteAuthentication(q)
    PROVE IInv'
  <1> DEFINE r == request[q].registration
             k == request[q].auth
             row == [auth[r][k] EXCEPT !.completed = TRUE]
  <1>1. /\ r \in Registrations /\ k \in Auths /\ auth[r][k] \in AuthRow
        /\ ~auth[r][k].completed
    BY DEF CompleteAuthentication, IInv, TypeOK, KnowsInv, Knows, KnowsRegistration
  <1>2. row \in AuthRow /\ row # None
    BY <1>1, RowAssumption DEF AuthRow
  <1>3. /\ auth' = [auth EXCEPT ![r][k] = row] /\ request' = [request EXCEPT ![q] = Idle]
        /\ UNCHANGED <<config, accountVars, registration, upstreamVars, historyVars>>
    BY DEF CompleteAuthentication, End, Step
  <1> HIDE DEF row
  <1>4. \A i \in Registrations, j \in Auths :
          auth'[i][j] = IF i = r /\ j = k THEN row ELSE auth[i][j]
    BY <1>1, <1>3 DEF IInv, TypeOK
  <1>5. auth' \in [Registrations -> [Auths -> AuthRow \cup {None}]]
    BY <1>1, <1>2, <1>3 DEF IInv, TypeOK
  <1>6. /\ request' \in [Requests -> RequestState]
        /\ \A p \in Requests : request'[p] \in {request[p], Idle}
    BY <1>3, IdleFacts DEF IInv, TypeOK
  <1>7. \A i \in Registrations :
          registration[i].auth # None => registration[i].auth \in Auths
    BY DEF IInv, TypeOK, RegistrationRow
  <1>8. QED
    BY <1>1, <1>2, <1>3, <1>4, <1>5, <1>6, <1>7, RowsStep DEF IInv, TypeOK, RowInv

\* A registration is pointed at a new authentication.
LEMMA SetEmailAuthenticationStep ==
    ASSUME IInv, NEW q \in Requests, SetEmailAuthentication(q)
    PROVE IInv'
  <1> DEFINE r == request[q].registration
             new == [address |-> request[q].address, completed |-> FALSE]
  <1>1. PICK k \in Auths :
          /\ auth[r][k] = None
          /\ auth' = [auth EXCEPT ![r][k] = new]
          /\ registration' = [registration EXCEPT ![r].auth = k]
    BY DEF SetEmailAuthentication
  <1>2. r \in Registrations /\ new \in AuthRow /\ new # None
    <2>1. request[q].address \in Addresses /\ r \in Registrations
      BY DEF SetEmailAuthentication, IInv, KnowsInv, Knows, KnowsRegistration
    <2>2. QED
      BY <2>1, AuthRowFacts
  <1> HIDE DEF new
  <1>3. /\ request' = [request EXCEPT ![q] = Idle]
        /\ UNCHANGED <<config, accountVars, upstreamVars, historyVars>>
    BY DEF SetEmailAuthentication, End, Step
  <1>4. /\ request' \in [Requests -> RequestState]
        /\ \A p \in Requests : request'[p] \in {request[p], Idle}
    BY <1>3, IdleFacts DEF IInv, TypeOK
  <1>5. \A i \in Registrations, j \in Auths :
          auth'[i][j] = IF i = r /\ j = k THEN new ELSE auth[i][j]
    BY <1>1, <1>2 DEF IInv, TypeOK
  <1>6. auth' \in [Registrations -> [Auths -> AuthRow \cup {None}]]
    BY <1>1, <1>2 DEF IInv, TypeOK
  <1>7. /\ registration' \in [Registrations -> RegistrationRow]
        /\ \A i \in Registrations :
             /\ registration'[i].state = registration[i].state
             /\ registration'[i].name = registration[i].name
             /\ registration'[i].password = registration[i].password
             /\ registration'[i].session = registration[i].session
             /\ registration'[i].auth = IF i = r THEN k ELSE registration[i].auth
             /\ registration[i].auth \in Auths \cup {None}
    <2> DEFINE row == [registration[r] EXCEPT !.auth = k]
    <2>1. registration \in [Registrations -> RegistrationRow]
      BY DEF IInv, TypeOK
    <2>2. /\ row \in RegistrationRow /\ row.auth = k
          /\ row.state = registration[r].state /\ row.name = registration[r].name
          /\ row.password = registration[r].password
          /\ row.session = registration[r].session
      BY <1>2, <2>1 DEF RegistrationRow
    <2>3. registration' = [registration EXCEPT ![r] = row]
      BY <1>1
    <2>4. \A i \in Registrations : registration[i].auth \in Auths \cup {None}
      BY <2>1 DEF RegistrationRow
    <2> HIDE DEF row
    <2>5. QED
      BY <1>2, <2>1, <2>2, <2>3, <2>4
  <1>8. QED
    BY <1>1, <1>2, <1>3, <1>4, <1>5, <1>6, <1>7, RowsStep DEF IInv, TypeOK, RowInv

-----------------------------------------------------------------------------
(***************************************************************************)
(* Steps that write links and sessions.                                    *)
(***************************************************************************)
LinkTable == [Sessions -> LinkRow \cup {None}]
SessionTable == [Sessions -> SessionRow]

\* consume changes the state of one session, and no link.
LEMMA ConsumeFacts ==
    ASSUME NEW rows \in SessionTable, NEW s \in Sessions
    PROVE /\ Consume(rows, s) \in SessionTable
          /\ \A t \in Sessions :
               /\ Consume(rows, s)[t].link = rows[t].link
               /\ t # s => Consume(rows, s)[t] = rows[t]
          /\ Consume(rows, s)[s].state \in {"unlinked", "consumed"}
          /\ Consume(rows, s)[s].state = "unlinked" => rows[s].state = "unlinked"
  <1> DEFINE row == [rows[s] EXCEPT
                       !.state = IF @ = "unlinked" THEN @ ELSE "consumed"]
  <1>1. /\ row \in SessionRow /\ row.link = rows[s].link
        /\ row.state \in {"unlinked", "consumed"}
        /\ row.state = "unlinked" => rows[s].state = "unlinked"
    BY DEF SessionTable, SessionRow
  <1>2. Consume(rows, s) = [rows EXCEPT ![s] = row]
    BY DEF Consume
  <1> HIDE DEF row
  <1>3. QED
    BY <1>1, <1>2 DEF SessionTable

\* associate_to_user changes the owner of one link that is there.
LEMMA AssociateFacts ==
    ASSUME NEW rows \in LinkTable, NEW l \in Sessions, NEW n \in Names
    PROVE /\ Associate(rows, l, n) \in LinkTable
          /\ \A k \in Sessions :
               /\ k # l => Associate(rows, l, n)[k] = rows[k]
               /\ Associate(rows, l, n)[k] = None <=> rows[k] = None
          /\ rows[l] # None => Associate(rows, l, n)[l].owner = n
  <1>1. CASE rows[l] = None
    BY <1>1 DEF Associate
  <1>2. CASE rows[l] # None
    <2> DEFINE row == [rows[l] EXCEPT !.owner = n]
    <2>1. row \in LinkRow /\ row.owner = n
      BY <1>2 DEF LinkTable, LinkRow
    <2>2. row # None
      BY <2>1, RowAssumption
    <2>3. Associate(rows, l, n) = [rows EXCEPT ![l] = row]
      BY <1>2 DEF Associate
    <2> HIDE DEF row
    <2>4. QED
      BY <1>2, <2>1, <2>2, <2>3 DEF LinkTable
  <1>3. QED
    BY <1>1, <1>2

\* The removal of links takes their rows, and takes them from the sessions.
LEMMA RemoveFacts ==
    ASSUME link \in LinkTable, session \in SessionTable, NEW ls \in SUBSET Sessions
    PROVE /\ Without(ls) \in LinkTable
          /\ \A k \in Sessions : /\ k \in ls => Without(ls)[k] = None
                                 /\ k \notin ls => Without(ls)[k] = link[k]
          /\ Unlinked(ls) \in SessionTable
          /\ \A s \in Sessions :
               /\ session[s].link \in ls =>
                    Unlinked(ls)[s].state = "unlinked" /\ Unlinked(ls)[s].link = None
               /\ session[s].link \notin ls => Unlinked(ls)[s] = session[s]
  <1>1. Without(ls) \in LinkTable
    BY DEF Without, LinkTable
  <1>2. \A k \in Sessions : /\ k \in ls => Without(ls)[k] = None
                            /\ k \notin ls => Without(ls)[k] = link[k]
    BY DEF Without
  <1>3. ASSUME NEW s \in Sessions
        PROVE LET row == [session[s] EXCEPT !.state = "unlinked", !.link = None] IN
              row \in SessionRow /\ row.state = "unlinked" /\ row.link = None
    BY DEF SessionTable, SessionRow
  <1>4. Unlinked(ls) \in SessionTable
    BY <1>3 DEF Unlinked, SessionTable
  <1>5. \A s \in Sessions :
               /\ session[s].link \in ls =>
                    Unlinked(ls)[s].state = "unlinked" /\ Unlinked(ls)[s].link = None
               /\ session[s].link \notin ls => Unlinked(ls)[s] = session[s]
    BY <1>3 DEF Unlinked
  <1>6. QED
    BY <1>1, <1>2, <1>4, <1>5

\* A commit marks those who overlap, by what they claim, and changes nothing
\* else of a request but the one that ends.
LEMMA CommitFacts ==
    ASSUME IInv, NEW q \in Requests, request[q].name \in Names, Commit(q)
    PROVE /\ request' \in [Requests -> RequestState] /\ request'[q] = Idle
          /\ \A p \in Requests \ {q} :
               /\ request'[p].pc = request[p].pc
               /\ request'[p].registration = request[p].registration
               /\ request'[p].name = request[p].name
               /\ request'[p].auth = request[p].auth
               /\ request'[p].address = request[p].address
               /\ request'[p].session = request[p].session
               /\ request'[p].link = request[p].link
               /\ request'[p].drop = request[p].drop
               /\ request[p].raced \subseteq request'[p].raced
               /\ request[q].link # None /\ request[p].link = request[q].link
                  => "link" \in request'[p].raced /\ request[q].name \in raced'["link"]
               /\ /\ request[q].address # None /\ request[p].pc = "complete"
                  /\ request[p].address = request[q].address
                  => "address" \in request'[p].raced /\ request[q].name \in raced'["address"]
               /\ /\ request[q].pc = "claim" /\ request[p].pc = "claim"
                  /\ request[p].name = request[q].name
                  => "account" \in request'[p].raced
          /\ raced' \in [Claims -> SUBSET Names]
          /\ \A c \in Claims : /\ raced[c] \subseteq raced'[c]
                               /\ c \in request[q].raced => request[q].name \in raced'[c]
  <1>1. request \in [Requests -> RequestState] /\ raced \in [Claims -> SUBSET Names]
    BY DEF IInv, TypeOK
  <1>2. ASSUME NEW p \in Requests, NEW cs \in SUBSET Claims
        PROVE LET st == [request[p] EXCEPT !.raced = @ \cup cs] IN
              /\ st \in RequestState /\ st.raced = request[p].raced \cup cs
              /\ st.pc = request[p].pc /\ st.registration = request[p].registration
              /\ st.name = request[p].name /\ st.auth = request[p].auth
              /\ st.address = request[p].address /\ st.session = request[p].session
              /\ st.link = request[p].link /\ st.drop = request[p].drop
    BY <1>1 DEF RequestState
  <1>3. \A p \in Requests : {c \in Claims : p \in Rivals(q, c)} \in SUBSET Claims
    OBVIOUS
  <1>4. request' \in [Requests -> RequestState] /\ request'[q] = Idle
    BY <1>1, <1>2, <1>3, IdleFacts DEF Commit
  <1>5. /\ raced' \in [Claims -> SUBSET Names]
        /\ \A c \in Claims :
             /\ raced[c] \subseteq raced'[c]
             /\ c \in request[q].raced \/ Rivals(q, c) # {} => request[q].name \in raced'[c]
    BY <1>1 DEF Commit
  <1>6. ASSUME NEW p \in Requests \ {q}
        PROVE request'[p] = [request[p] EXCEPT
                               !.raced = @ \cup {c \in Claims : p \in Rivals(q, c)}]
    BY DEF Commit
  <1>7. ASSUME NEW p \in Requests \ {q}
        PROVE /\ request[q].link # None /\ request[p].link = request[q].link
                 => p \in Rivals(q, "link")
              /\ /\ request[q].address # None /\ request[p].pc = "complete"
                 /\ request[p].address = request[q].address
                 => p \in Rivals(q, "address")
              /\ /\ request[q].pc = "claim" /\ request[p].pc = "claim"
                 /\ request[p].name = request[q].name
                 => p \in Rivals(q, "account")
    BY DEF Rivals
  <1>8. ASSUME NEW p \in Requests \ {q}
        PROVE /\ request'[p].raced = request[p].raced \cup {c \in Claims : p \in Rivals(q, c)}
              /\ request'[p].pc = request[p].pc
              /\ request'[p].registration = request[p].registration
              /\ request'[p].name = request[p].name
              /\ request'[p].auth = request[p].auth
              /\ request'[p].address = request[p].address
              /\ request'[p].session = request[p].session
              /\ request'[p].link = request[p].link
              /\ request'[p].drop = request[p].drop
    <2>1. PICK cs \in SUBSET Claims : cs = {c \in Claims : p \in Rivals(q, c)}
      BY <1>3
    <2>2. request'[p] = [request[p] EXCEPT !.raced = @ \cup cs]
      BY <1>6, <2>1
    <2>3. QED
      BY <1>2, <2>1, <2>2
  <1>9. "link" \in Claims /\ "address" \in Claims /\ "account" \in Claims
    BY DEF Claims
  <1>10. QED
    BY <1>4, <1>5, <1>7, <1>8, <1>9

\* A link is claimed for an account, and others may be removed for it: by an
\* account that has none, or by one whose links were looked up.
LEMMA ClaimFacts ==
    ASSUME IInv, NEW q \in Requests, Commit(q), NEW drop \in SUBSET Sessions,
           NEW n \in Names, request[q].name = n, request[q].link # None,
           session[request[q].session].state # "deleted",
           \/ /\ request[q].pc = "claim" /\ drop = request[q].drop
              /\ n \in users
           \/ n \notin users /\ drop = {},
           link' = Associate(Without(drop), request[q].link, n),
           session' = Consume(Unlinked(drop), request[q].session),
           users' = users \cup {n},
           UNCHANGED <<config, unlinked, linked>>
    PROVE /\ link' \in LinkTable /\ session' \in SessionTable
          /\ (\A s \in Sessions : session[s].link # None => session[s].link \in Links)'
          /\ LinkInv' /\ OneLink'
          /\ \A m \in users : LinksOf(m) # {} => m \in raced'["link"] \/ LinksOf(m)' # {}
          /\ n \in raced'["link"] \/ LinksOf(n)' # {}
          /\ \A p \in Requests :
               KnowsLink(request[p])' /\ KnowsDrop(request[p])' /\ KnowsAccount(request[p])'
  <1> DEFINE me == request[q]
             l == request[q].link
             s == request[q].session
             Owned(k) == link[k] # None /\ link[k].owner # None
  <1>1. /\ link \in LinkTable /\ session \in SessionTable
        /\ me \in RequestState /\ KnowsLink(me) /\ KnowsDrop(me) /\ KnowsAccount(me)
        /\ \A t \in Sessions : session[t].link # None => session[t].link \in Links
        /\ n # None /\ None \notin Sessions
    BY ConstantsAssumption
    DEF IInv, TypeOK, LinkTable, SessionTable, KnowsInv, Knows
  <1>2. l \in Sessions /\ s \in Sessions
    BY <1>1 DEF RequestState, KnowsLink
  <1>3. /\ link' \in LinkTable
        /\ \A k \in Sessions :
             /\ link'[k] = None <=> link[k] = None \/ k \in drop
             /\ k # l /\ k \notin drop => link'[k] = link[k]
        /\ l \notin drop /\ link[l] # None => link'[l].owner = n
    <2>1. /\ Without(drop) \in LinkTable
          /\ \A k \in Sessions : /\ k \in drop => Without(drop)[k] = None
                                 /\ k \notin drop => Without(drop)[k] = link[k]
      BY <1>1, RemoveFacts
    <2>2. QED
      BY <1>2, <2>1, AssociateFacts
  <1>4. /\ session' \in SessionTable
        /\ \A t \in Sessions :
             /\ session[t].link \notin drop => session'[t].link = session[t].link
             /\ session[t].link \in drop => session'[t].link = None
             /\ session[t].link \notin drop /\ t # s => session'[t] = session[t]
             /\ session'[t].state = "none" => session[t].state = "none"
             /\ session'[t].state \in {"none", "unlinked", "deleted"} =>
                  \/ session[t].link \in drop
                  \/ session[t].state \in {"none", "unlinked", "deleted"}
    <2>1. /\ Unlinked(drop) \in SessionTable
          /\ \A t \in Sessions :
               /\ session[t].link \in drop =>
                    Unlinked(drop)[t].state = "unlinked" /\ Unlinked(drop)[t].link = None
               /\ session[t].link \notin drop => Unlinked(drop)[t] = session[t]
      BY <1>1, RemoveFacts
    <2>2. /\ session' \in SessionTable
          /\ \A t \in Sessions :
               /\ session'[t].link = Unlinked(drop)[t].link
               /\ t # s => session'[t] = Unlinked(drop)[t]
          /\ session'[s].state \in {"unlinked", "consumed"}
          /\ session'[s].state = "unlinked" => Unlinked(drop)[s].state = "unlinked"
      BY <1>2, <2>1, ConsumeFacts
    <2>3. QED
      BY <1>1, <1>2, <2>1, <2>2
  <1>5. \A k \in Sessions : Unowned(k) <=> link[k] # None /\ link[k].owner = None
    BY DEF Unowned, Links
  <1>6. \A k \in drop : link[k] # None =>
          Owned(k) /\ (link[k].owner = n \/ link[k].owner \in raced["link"])
    BY <1>1, <1>5 DEF KnowsDrop, Links
  <1>7. /\ link[l] = None \/ Owned(l) => "link" \in me.raced
        /\ Owned(l) => link[l].owner \in raced["link"]
    BY <1>1, <1>2, <1>5 DEF KnowsLink, Links
  <1>8. /\ \A p \in Requests \ {q} :
             /\ request'[p].pc = request[p].pc /\ request'[p].name = request[p].name
             /\ request'[p].session = request[p].session
             /\ request'[p].link = request[p].link /\ request'[p].drop = request[p].drop
             /\ request[p].raced \subseteq request'[p].raced
             /\ request[p].link = l => "link" \in request'[p].raced /\ n \in raced'["link"]
             /\ me.pc = "claim" /\ request[p].pc = "claim" /\ request[p].name = n
                => "account" \in request'[p].raced
        /\ \A c \in Claims : /\ raced[c] \subseteq raced'[c]
                             /\ c \in me.raced => n \in raced'[c]
        /\ request'[q] = Idle /\ {"link", "account"} \subseteq Claims
    BY CommitFacts DEF Claims
  <1>9. \A k \in Sessions : k \in Links' <=> k \in Links /\ k \notin drop
    BY <1>3 DEF Links
  <1>10. \A k \in Sessions : Unowned(k)' <=> link'[k] # None /\ link'[k].owner = None
    BY DEF Unowned, Links
  <1>11. \A k \in Sessions : ~Owned(k) => \A m \in Names : k \notin LinksOf(m)
    BY ConstantsAssumption DEF LinksOf, Links
  <1>12. n \notin users => LinksOf(n) = {}
    BY <1>1, <1>5 DEF IInv, LinkInv, LinksOf, Links
  <1>13. ASSUME NEW m \in Names, NEW k \in LinksOf(m)'
         PROVE (m = n /\ k = l) \/ (k # l /\ k \in LinksOf(m) /\ k \notin drop)
    <2>1. k \in Sessions /\ link'[k] # None /\ link'[k].owner = m
      BY <1>13 DEF LinksOf, Links
    <2>2. k \notin drop /\ link[k] # None
      BY <1>3, <2>1
    <2>3. CASE k = l
      <3>1. link'[l].owner = n
        BY <1>3, <2>2, <2>3
      <3>2. QED
        BY <2>1, <2>3, <3>1
    <2>4. CASE k # l
      BY <1>3, <2>1, <2>2, <2>4 DEF LinksOf, Links
    <2>5. QED
      BY <2>3, <2>4
  <1>14. (\A t \in Sessions : session[t].link # None => session[t].link \in Links)'
    BY <1>1, <1>4, <1>9 DEF SessionTable, SessionRow
  <1>15. LinkInv'
    <2>1. ASSUME NEW t \in Sessions
          PROVE /\ session'[t].state = "none" => link'[t] = None
                /\ session'[t].state \in {"none", "unlinked", "deleted"} =>
                     session'[t].link = None
      BY <1>3, <1>4 DEF IInv, LinkInv
    <2>2. ASSUME NEW k \in Links', ~Unowned(k)' PROVE link'[k].owner \in users'
      BY <1>3, <1>5, <1>9, <1>10, <2>2 DEF IInv, LinkInv, Links
    <2>3. QED
      BY <2>1, <2>2 DEF LinkInv
  <1>16. OneLink'
    <2> SUFFICES ASSUME config.upstream \in {"set", "replace"}, NEW m \in users',
                        NEW l1 \in LinksOf(m)', NEW l2 \in LinksOf(m)'
                 PROVE l1 = l2 \/ m \in linked \cup raced'["account"]
      BY DEF OneLink
    <2>1. m \in Names
      BY DEF IInv, TypeOK
    <2>2. CASE m # n
      <3>1. l1 \in LinksOf(m) /\ l2 \in LinksOf(m) /\ m \in users
        BY <1>13, <2>1, <2>2
      <3>2. QED
        BY <1>8, <3>1 DEF IInv, OneLink
    <2>3. CASE m = n
      <3>1. \/ LinksOf(n) \subseteq drop
            \/ n \in linked \cup raced'["account"]
        BY <1>1, <1>8, <1>12 DEF KnowsAccount
      <3>2. QED
        BY <1>13, <2>1, <2>3, <3>1
    <2>4. QED
      BY <2>2, <2>3
  <1>17. n \in raced'["link"] \/ LinksOf(n)' # {}
    <2>1. CASE link[l] = None \/ Owned(l)
      BY <1>7, <1>8, <2>1
    <2>2. CASE link[l] # None /\ ~Owned(l)
      <3>1. l \notin drop
        BY <1>6, <2>2
      <3>2. l \in LinksOf(n)'
        BY <1>2, <1>3, <2>2, <3>1 DEF LinksOf, Links
      <3>3. QED
        BY <3>2
    <2>3. QED
      BY <2>1, <2>2
  <1>18. ASSUME NEW m \in users, LinksOf(m) # {} PROVE m \in raced'["link"] \/ LinksOf(m)' # {}
    <2>1. CASE m = n
      BY <1>17, <2>1
    <2>2. CASE m # n
      <3>1. PICK k \in LinksOf(m) : TRUE
        BY <1>18
      <3>2. k \in Sessions /\ link[k] # None /\ link[k].owner = m /\ m \in Names
        BY <3>1 DEF LinksOf, Links, IInv, TypeOK
      <3>3. CASE k \in drop
        BY <1>6, <1>8, <2>2, <3>2, <3>3
      <3>4. CASE k = l
        BY <1>7, <1>8, <3>2, <3>4, ConstantsAssumption
      <3>5. CASE k \notin drop /\ k # l
        <4>1. k \in LinksOf(m)'
          BY <1>3, <3>2, <3>5 DEF LinksOf, Links
        <4>2. QED
          BY <4>1
      <3>6. QED
        BY <3>3, <3>4, <3>5
    <2>3. QED
      BY <2>1, <2>2
  <1>19. ASSUME NEW p \in Requests
         PROVE KnowsLink(request[p])' /\ KnowsDrop(request[p])' /\ KnowsAccount(request[p])'
    <2>1. CASE p = q
      BY <1>8, <2>1, IdleFacts DEF KnowsLink, KnowsDrop, KnowsAccount
    <2>2. CASE p # q
      <3>0. PICK you \in RequestState : you = request[p]
        BY DEF IInv, TypeOK
      <3>1. KnowsLink(you) /\ KnowsDrop(you) /\ KnowsAccount(you)
        BY <3>0 DEF IInv, KnowsInv, Knows
      <3>2. /\ you.link \in Sessions \cup {None} /\ you.session \in Sessions \cup {None}
            /\ you.drop \subseteq Sessions /\ you.name \in Names \cup {None}
        BY <3>1 DEF RequestState
      <3>3. KnowsLink(request[p])'
        <4>1. CASE you.link = None
          BY <1>8, <2>2, <3>0, <3>1, <4>1 DEF KnowsLink
        <4>2. CASE you.link = l
          BY <1>3, <1>8, <1>9, <2>2, <3>0, <3>1, <4>2 DEF KnowsLink, Links, Unowned
        <4>3. CASE you.link # None /\ you.link # l
          <5>1. CASE Unowned(you.link) /\ session[you.session].link = you.link
            <6>1. you.link \notin drop /\ you.session \in Sessions
              BY <1>5, <1>6, <3>1, <3>2, <4>3, <5>1 DEF KnowsLink
            <6>2. link'[you.link] = link[you.link] /\ session'[you.session].link = you.link
              BY <1>3, <1>4, <3>2, <4>3, <5>1, <6>1
            <6>3. Unowned(you.link)'
              BY <1>5, <1>10, <3>2, <4>3, <5>1, <6>2
            <6>4. QED
              BY <1>8, <2>2, <3>0, <3>1, <4>3, <6>2, <6>3 DEF KnowsLink, Unowned
          <5>2. CASE ~(Unowned(you.link) /\ session[you.session].link = you.link)
            <6>1. you.session \in Sessions
              BY <3>1, <3>2, <4>3 DEF KnowsLink
            <6>2. "link" \in you.raced \/ session[you.session].state = "deleted"
              BY <3>1, <4>3, <5>2 DEF KnowsLink
            <6>3. session[you.session].state = "deleted" =>
                    session'[you.session].state = "deleted"
              BY <1>1, <1>4, <6>1 DEF IInv, LinkInv
            <6>4. you.link \in Links' /\ ~Unowned(you.link)' =>
                    link'[you.link].owner \in raced'["link"]
              BY <1>3, <1>5, <1>8, <1>9, <1>10, <3>1, <3>2, <4>3 DEF KnowsLink
            <6>5. QED
              BY <1>8, <2>2, <3>0, <3>1, <6>1, <6>2, <6>3, <6>4 DEF KnowsLink
          <5>3. QED
            BY <5>1, <5>2
        <4>4. QED
          BY <4>1, <4>2, <4>3
      <3>4. KnowsDrop(request[p])'
        <4>1. ASSUME NEW k \in you.drop, k \in Links'
              PROVE /\ ~Unowned(k)'
                    /\ link'[k].owner = you.name \/ link'[k].owner \in raced'["link"]
          <5>1. k \in Sessions /\ k \in Links /\ k \notin drop /\ Owned(k)
            BY <1>5, <1>9, <3>1, <3>2, <4>1 DEF KnowsDrop, Links
          <5>2. CASE k = l
            BY <1>1, <1>3, <1>7, <1>8, <1>10, <5>1, <5>2
          <5>3. CASE k # l
            BY <1>3, <1>8, <1>10, <3>1, <5>1, <5>3 DEF KnowsDrop
          <5>4. QED
            BY <5>2, <5>3
        <4>2. QED
          BY <1>4, <1>8, <2>2, <3>0, <3>1, <3>2, <4>1 DEF KnowsDrop
      <3>5. KnowsAccount(request[p])'
        <4>1. CASE you.pc = "claim" /\ you.name = n
          <5>1. n \in users
            BY <3>1, <4>1 DEF KnowsLink
          <5>2. QED
            BY <1>8, <2>2, <3>0, <4>1, <5>1 DEF KnowsAccount
        <4>2. CASE you.pc = "claim" /\ you.name # n
          <5>1. you.name \in Names
            BY <3>1, <4>2 DEF KnowsLink, IInv, TypeOK
          <5>2. LinksOf(you.name)' \subseteq LinksOf(you.name)
            BY <1>13, <4>2, <5>1
          <5>3. QED
            BY <1>8, <2>2, <3>0, <3>1, <4>2, <5>2 DEF KnowsAccount, LinksOf
        <4>3. CASE you.pc # "claim"
          BY <1>8, <2>2, <3>0, <4>3 DEF KnowsAccount
        <4>4. QED
          BY <4>1, <4>2, <4>3
      <3>6. QED
        BY <3>3, <3>4, <3>5
    <2>3. QED
      BY <2>1, <2>2
  <1>20. QED
    BY <1>3, <1>4, <1>14, <1>15, <1>16, <1>17, <1>18, <1>19

\* ClaimLink, which writes nothing but links and sessions.
LEMMA ClaimLinkStep ==
    ASSUME IInv, NEW q \in Requests, ClaimLink(q)
    PROVE IInv'
  <1>1. PICK n \in Names : n = request[q].name
    BY DEF ClaimLink, IInv, TypeOK, KnowsInv, Knows, KnowsLink
  <1>2. PICK drop \in SUBSET Sessions : drop = request[q].drop
    BY DEF IInv, TypeOK, RequestState
  <1>3. /\ Commit(q) /\ request[q].pc = "claim" /\ request[q].link # None /\ n \in users
        /\ session[request[q].session].state # "deleted"
        /\ link' = Associate(Without(drop), request[q].link, n)
        /\ session' = Consume(Unlinked(drop), request[q].session)
        /\ UNCHANGED <<config, users, passwords, emails, registration, auth,
                       contacts, unlinked, linked>>
    BY <1>1, <1>2
    DEF ClaimLink, accountVars, registrationVars, IInv, KnowsInv, Knows, KnowsLink
  <1>4. users' = users \cup {n}
    BY <1>3
  <1>5. /\ link' \in LinkTable /\ session' \in SessionTable
        /\ (\A s \in Sessions : session[s].link # None => session[s].link \in Links)'
        /\ LinkInv' /\ OneLink'
        /\ \A m \in users : LinksOf(m) # {} => m \in raced'["link"] \/ LinksOf(m)' # {}
        /\ \A p \in Requests :
             KnowsLink(request[p])' /\ KnowsDrop(request[p])' /\ KnowsAccount(request[p])'
    BY <1>1, <1>2, <1>3, <1>4, ClaimFacts
  <1>6. /\ request' \in [Requests -> RequestState] /\ request'[q] = Idle
        /\ \A p \in Requests \ {q} :
             /\ request'[p].pc = request[p].pc
             /\ request'[p].registration = request[p].registration
             /\ request'[p].name = request[p].name
             /\ request'[p].auth = request[p].auth
             /\ request'[p].address = request[p].address
             /\ request'[p].session = request[p].session
             /\ request'[p].link = request[p].link
             /\ request[p].raced \subseteq request'[p].raced
        /\ raced' \in [Claims -> SUBSET Names] /\ Claims = {"address", "link", "account"}
        /\ \A c \in Claims : raced[c] \subseteq raced'[c]
    BY <1>1, <1>3, CommitFacts DEF Claims
  <1>7. TypeOK' /\ RowInv'
    BY <1>3, <1>5, <1>6 DEF IInv, TypeOK, RowInv, LinkTable, SessionTable
  <1>8. CredentialKept'
    <2>1. \A m \in users : Swept(m) => Swept(m)'
      BY <1>3 DEF Swept
    <2>2. QED
      BY <1>3, <1>5, <1>6, <2>1 DEF IInv, CredentialKept
  <1>9. AddressWasProved' /\ AddressSharedOnlyByRace'
    BY <1>3, <1>6 DEF IInv, AddressWasProved, AddressSharedOnlyByRace, Holders
  <1>10. ASSUME NEW p \in Requests PROVE KnowsRegistration(request[p])'
    BY <1>3, <1>6, IdleFacts DEF IInv, KnowsInv, Knows, KnowsRegistration
  <1>11. ASSUME NEW p \in Requests PROVE KnowsAddress(request[p])'
    BY <1>3, <1>6, IdleFacts DEF IInv, KnowsInv, Knows, KnowsAddress, Holders
  <1>12. KnowsInv'
    BY <1>5, <1>10, <1>11 DEF KnowsInv, Knows
  <1>13. QED
    BY <1>5, <1>7, <1>8, <1>9, <1>12 DEF IInv

\* What complete_registration does to links and sessions, with or without an
\* upstream session.
LEMMA CompleteLinks ==
    ASSUME IInv, NEW q \in Requests, CompleteRegistration(q),
           NEW n \in Names, request[q].name = n
    PROVE /\ link' \in LinkTable /\ session' \in SessionTable
          /\ (\A s \in Sessions : session[s].link # None => session[s].link \in Links)'
          /\ LinkInv' /\ OneLink'
          /\ \A m \in users : LinksOf(m) # {} => m \in raced'["link"] \/ LinksOf(m)' # {}
          /\ request[q].session # None => n \in raced'["link"] \/ LinksOf(n)' # {}
          /\ \A p \in Requests :
               KnowsLink(request[p])' /\ KnowsDrop(request[p])' /\ KnowsAccount(request[p])'
  <1> DEFINE me == request[q]
  <1>1. /\ Commit(q) /\ users' = users \cup {n} /\ n \notin users
        /\ UNCHANGED <<config, unlinked, linked>>
        /\ me.pc = "complete" /\ me \in RequestState
        /\ link \in LinkTable /\ session \in SessionTable
    BY DEF CompleteRegistration, MayComplete, IInv, TypeOK, LinkTable, SessionTable
  <1>2. CASE me.session # None
    <2>1. /\ me.session \in Sessions /\ me.link # None
          /\ session[me.session].state # "deleted"
          /\ link' = Associate(link, me.link, n) /\ session' = Consume(session, me.session)
      BY <1>1, <1>2 DEF CompleteRegistration, MayComplete, RequestState, IInv, KnowsInv,
         Knows, KnowsRegistration
    <2>2. Without({}) = link
      BY <1>1 DEF Without, LinkTable
    <2>3. Unlinked({}) = session
      BY <1>1 DEF Unlinked, SessionTable
    <2>4. QED
      BY <1>1, <2>1, <2>2, <2>3, ClaimFacts
  <1>3. CASE me.session = None
    <2>1. UNCHANGED <<link, session>>
      BY <1>3 DEF CompleteRegistration, upstreamVars
    <2>2. Links' = Links
      BY <2>1 DEF Links
    <2>3. /\ request'[q] = Idle
          /\ \A p \in Requests \ {q} :
               /\ request'[p].pc = request[p].pc /\ request'[p].name = request[p].name
               /\ request'[p].session = request[p].session
               /\ request'[p].link = request[p].link /\ request'[p].drop = request[p].drop
               /\ request[p].raced \subseteq request'[p].raced
          /\ \A c \in Claims : raced[c] \subseteq raced'[c]
          /\ {"link", "account"} \subseteq Claims
      BY <1>1, CommitFacts DEF Claims
    <2>4. LinkInv' /\ (\A s \in Sessions : session[s].link # None => session[s].link \in Links)'
      BY <1>1, <2>1, <2>2 DEF IInv, TypeOK, LinkInv, Unowned
    <2>5. \A m \in Names : LinksOf(m)' = LinksOf(m)
      BY <2>1, <2>2 DEF LinksOf
    <2>6. LinksOf(n) = {}
      BY <1>1, ConstantsAssumption DEF IInv, LinkInv, LinksOf, Unowned
    <2>7. OneLink'
      BY <1>1, <2>3, <2>5, <2>6 DEF IInv, TypeOK, OneLink
    <2>8. ASSUME NEW p \in Requests PROVE KnowsLink(request[p])'
      BY <1>1, <2>1, <2>2, <2>3, IdleFacts DEF IInv, KnowsInv, Knows, KnowsLink, Unowned
    <2>9. ASSUME NEW p \in Requests PROVE KnowsDrop(request[p])'
      BY <2>1, <2>2, <2>3, IdleFacts DEF IInv, KnowsInv, Knows, KnowsDrop, Unowned
    <2>10. ASSUME NEW p \in Requests PROVE KnowsAccount(request[p])'
      BY <1>1, <2>1, <2>2, <2>3, IdleFacts DEF IInv, KnowsInv, Knows, KnowsAccount, LinksOf
    <2>11. \A m \in users : LinksOf(m) # {} => m \in raced'["link"] \/ LinksOf(m)' # {}
      BY <2>5 DEF IInv, TypeOK
    <2>12. QED
      BY <1>1, <1>3, <2>1, <2>4, <2>7, <2>8, <2>9, <2>10, <2>11
  <1>4. QED
    BY <1>2, <1>3

\* The writes of complete_registration.
LEMMA CompleteRegistrationStep ==
    ASSUME IInv, NEW q \in Requests, CompleteRegistration(q)
    PROVE IInv'
  <1>1. PICK me \in RequestState : me = request[q]
    BY DEF IInv, TypeOK
  <1>2. PICK n \in Names : n = me.name
    BY <1>1 DEF CompleteRegistration, IInv, KnowsInv, Knows, KnowsRegistration
  <1>3. PICK r \in Registrations : r = me.registration
    BY <1>1 DEF CompleteRegistration, IInv, KnowsInv, Knows, KnowsRegistration
  <1>4. /\ Commit(q) /\ me.pc = "complete" /\ n \notin users
        /\ registration[r].state # "completed"
        /\ registration' = [registration EXCEPT ![r].state = "completed"]
        /\ users' = users \cup {n}
        /\ passwords' = IF registration[r].password THEN passwords \cup {n} ELSE passwords
        /\ emails' = IF me.address = None THEN emails ELSE emails \cup {<<n, me.address>>}
        /\ UNCHANGED <<config, auth, contacts, unlinked, linked>>
    BY <1>1, <1>2, <1>3 DEF CompleteRegistration, MayComplete
  <1>5. /\ registration[r].state # "none" /\ registration[r].name = n
        /\ me.address # None =>
             /\ me.auth \in Auths /\ auth[r][me.auth] \in AuthRow
             /\ auth[r][me.auth].completed /\ auth[r][me.auth].address = me.address
        /\ me.session = None => registration[r].session = None
        /\ KnowsAddress(me) /\ me.address \in Addresses \cup {None}
    BY <1>1, <1>2, <1>3, <1>4
    DEF IInv, TypeOK, KnowsInv, Knows, KnowsRegistration, RequestState
  <1>6. /\ link' \in LinkTable /\ session' \in SessionTable
        /\ (\A s \in Sessions : session[s].link # None => session[s].link \in Links)'
        /\ LinkInv' /\ OneLink'
        /\ \A m \in users : LinksOf(m) # {} => m \in raced'["link"] \/ LinksOf(m)' # {}
        /\ me.session # None => n \in raced'["link"] \/ LinksOf(n)' # {}
        /\ \A p \in Requests :
             KnowsLink(request[p])' /\ KnowsDrop(request[p])' /\ KnowsAccount(request[p])'
    BY <1>1, <1>2, CompleteLinks
  <1>7. /\ request' \in [Requests -> RequestState] /\ request'[q] = Idle
        /\ \A p \in Requests \ {q} :
             /\ request'[p].pc = request[p].pc
             /\ request'[p].registration = request[p].registration
             /\ request'[p].name = request[p].name
             /\ request'[p].auth = request[p].auth
             /\ request'[p].address = request[p].address
             /\ request'[p].session = request[p].session
             /\ request'[p].link = request[p].link
             /\ request[p].raced \subseteq request'[p].raced
             /\ /\ me.address # None /\ request[p].pc = "complete"
                /\ request[p].address = me.address
                => "address" \in request'[p].raced /\ n \in raced'["address"]
        /\ raced' \in [Claims -> SUBSET Names] /\ Claims = {"address", "link", "account"}
        /\ \A c \in Claims : raced[c] \subseteq raced'[c]
        /\ "address" \in me.raced => n \in raced'["address"]
    BY <1>1, <1>2, <1>4, CommitFacts DEF Claims
  <1>8. /\ registration' \in [Registrations -> RegistrationRow]
        /\ \A i \in Registrations :
             /\ registration'[i].name = registration[i].name
             /\ registration'[i].password = registration[i].password
             /\ registration'[i].session = registration[i].session
             /\ registration'[i].auth = registration[i].auth
             /\ registration'[i].state = IF i = r THEN "completed" ELSE registration[i].state
    <2> DEFINE row == [registration[r] EXCEPT !.state = "completed"]
    <2>1. registration \in [Registrations -> RegistrationRow]
      BY DEF IInv, TypeOK
    <2>2. /\ row \in RegistrationRow /\ row.state = "completed"
          /\ row.name = registration[r].name /\ row.password = registration[r].password
          /\ row.session = registration[r].session /\ row.auth = registration[r].auth
      BY <2>1 DEF RegistrationRow
    <2>3. registration' = [registration EXCEPT ![r] = row]
      BY <1>4
    <2> HIDE DEF row
    <2>4. QED
      BY <2>1, <2>2, <2>3
  <1>9. TypeOK'
    <2>1. users' \subseteq Names /\ passwords' \subseteq users'
          /\ emails' \subseteq users' \X Addresses /\ contacts' \subseteq emails'
      BY <1>4, <1>5 DEF IInv, TypeOK
    <2>2. QED
      BY <1>4, <1>6, <1>7, <1>8, <2>1 DEF IInv, TypeOK, LinkTable, SessionTable
  <1>10. RowInv'
    BY <1>4, <1>5, <1>8 DEF IInv, RowInv
  <1>11. CredentialKept'
    <2> SUFFICES ASSUME NEW m \in users'
                 PROVE \/ m \in passwords' \/ LinksOf(m)' # {}
                       \/ m \in unlinked \cup raced'["link"] \/ Swept(m)'
      BY <1>4 DEF CredentialKept
    <2>1. CASE m = n
      <3>1. CASE registration[r].password
        BY <1>4, <2>1, <3>1
      <3>2. CASE ~registration[r].password /\ me.session = None
        BY <1>5, <1>8, <2>1, <3>2 DEF Swept
      <3>3. CASE me.session # None
        BY <1>6, <2>1, <3>3
      <3>4. QED
        BY <3>1, <3>2, <3>3
    <2>2. CASE m \in users
      <3>1. Swept(m) => Swept(m)'
        BY <1>8 DEF Swept
      <3>2. QED
        BY <1>4, <1>6, <1>7, <2>2, <3>1 DEF IInv, CredentialKept
    <2>3. QED
      BY <1>4, <2>1, <2>2
  <1>12. AddressWasProved'
    <2> SUFFICES ASSUME NEW i \in Registrations, registration'[i].state = "completed",
                        NEW a \in Addresses,
                        <<registration'[i].name, a>> \in emails' \ contacts
                 PROVE \E k \in Auths : auth[i][k] = [address |-> a, completed |-> TRUE]
      BY <1>4 DEF AddressWasProved
    <2>1. CASE i = r
      <3>1. <<n, a>> \notin emails
        BY <1>4 DEF IInv, TypeOK
      <3>2. a = me.address /\ me.address # None
        BY <1>4, <1>5, <1>8, <2>1, <3>1
      <3>3. auth[r][me.auth] = [address |-> a, completed |-> TRUE]
        BY <1>5, <3>2 DEF AuthRow
      <3>4. QED
        BY <1>5, <2>1, <3>2, <3>3
    <2>2. CASE i # r
      <3>1. registration[i].state = "completed" /\ registration[i].name \in users
        BY <1>8, <2>2 DEF IInv, RowInv
      <3>2. <<registration[i].name, a>> \in emails \ contacts
        BY <1>4, <1>8, <3>1
      <3>3. QED
        BY <3>1, <3>2 DEF IInv, AddressWasProved
    <2>3. QED
      BY <2>1, <2>2
  <1>13. AddressSharedOnlyByRace'
    <2> SUFFICES ASSUME NEW a \in Addresses, NEW m \in Names, NEW k \in Names,
                        <<m, a>> \in emails', <<k, a>> \in emails', m # k
                 PROVE \/ {<<m, a>>, <<k, a>>} \cap contacts # {}
                       \/ {m, k} \subseteq raced'["address"]
      BY <1>4 DEF AddressSharedOnlyByRace, Holders
    <2>1. ASSUME NEW x \in Names, <<x, me.address>> \in emails, me.address # None
          PROVE <<x, me.address>> \in contacts \/ {x, n} \subseteq raced'["address"]
      BY <1>4, <1>5, <1>7, <2>1 DEF KnowsAddress, Holders
    <2>2. CASE <<m, a>> \in emails /\ <<k, a>> \in emails
      BY <1>7, <2>2 DEF IInv, AddressSharedOnlyByRace, Holders
    <2>3. CASE <<m, a>> \notin emails \/ <<k, a>> \notin emails
      <3>1. /\ me.address # None /\ a = me.address
            /\ \/ m = n /\ <<k, a>> \in emails
               \/ k = n /\ <<m, a>> \in emails
        BY <1>4, <2>3
      <3>2. QED
        BY <2>1, <3>1
    <2>4. QED
      BY <2>2, <2>3
  <1>14. ASSUME NEW p \in Requests PROVE KnowsRegistration(request[p])'
    BY <1>4, <1>7, <1>8, IdleFacts DEF IInv, KnowsInv, Knows, KnowsRegistration
  <1>15. ASSUME NEW p \in Requests PROVE KnowsAddress(request[p])'
    <2>1. CASE p = q
      BY <1>7, <2>1, IdleFacts DEF KnowsAddress
    <2>2. CASE p # q
      <3>1. PICK a : a = request[p].address
        OBVIOUS
      <3>2. \A m \in Names : <<m, a>> \in emails' =>
              \/ <<m, a>> \in emails
              \/ m = n /\ a = me.address /\ me.address # None
        BY <1>4
      <3>3. KnowsAddress(request[p])
        BY DEF IInv, KnowsInv, Knows
      <3>4. QED
        BY <1>4, <1>7, <2>2, <3>1, <3>2, <3>3 DEF KnowsAddress, Holders
    <2>3. QED
      BY <2>1, <2>2
  <1>16. KnowsInv'
    BY <1>6, <1>14, <1>15 DEF KnowsInv, Knows
  <1>17. QED
    BY <1>6, <1>9, <1>10, <1>11, <1>12, <1>13, <1>16 DEF IInv

\* Links and sessions come and go without a claim: no link changes its owner,
\* those that have one are removed only for their account, and a session keeps
\* a link without an owner unless both are deleted.
LEMMA UpstreamStep ==
    ASSUME IInv,
           request' \in [Requests -> RequestState],
           \A p \in Requests : request'[p] \in {request[p], Idle},
           link' \in LinkTable, session' \in SessionTable,
           registration' \in [Registrations -> RegistrationRow],
           unlinked \subseteq unlinked', unlinked' \subseteq Names,
           UNCHANGED <<config, accountVars, auth, contacts, linked, raced>>,
           \A s \in Sessions :
             /\ session'[s].link # None =>
                  session'[s].link \in Sessions /\ link'[session'[s].link] # None
             /\ session'[s].state = "none" => session[s].state = "none" /\ link'[s] = None
             /\ session'[s].state \in {"none", "unlinked", "deleted"} => session'[s].link = None
             /\ session[s].state = "deleted" => session'[s].state = "deleted"
             /\ session[s].link # None /\ Unowned(session[s].link) =>
                  \/ link'[session[s].link] # None /\ session'[s].link = session[s].link
                  \/ session'[s].state = "deleted",
           \A k \in Sessions :
             /\ link[k] # None /\ link'[k] # None => link'[k].owner = link[k].owner
             /\ link[k] = None /\ link'[k] # None =>
                  link'[k].owner = None /\ session[k].state = "none"
             /\ link[k] # None /\ link'[k] = None =>
                  link[k].owner \in {None} \cup raced["link"] \cup unlinked',
           \A r \in Registrations :
             /\ registration'[r].state # registration[r].state =>
                  registration[r].state = "open" /\ registration'[r].state = "expired"
             /\ registration'[r].name = registration[r].name
             /\ registration'[r].password = registration[r].password
             /\ registration'[r].auth = registration[r].auth
             /\ registration'[r].session \in {registration[r].session, None}
    PROVE IInv'
  <1> USE DEF accountVars
  <1>1. \A k \in Sessions : /\ k \in Links' <=> link'[k] # None
                            /\ k \in Links <=> link[k] # None
    BY DEF Links
  <1>2. TypeOK'
    BY <1>1 DEF IInv, TypeOK, LinkTable, SessionTable
  <1>3. RowInv'
    BY DEF IInv, RowInv
  <1>4. LinkInv'
    <2>1. \A k \in Links' : ~Unowned(k)' => link'[k].owner \in users
      BY <1>1 DEF IInv, LinkInv, Unowned, Links
    <2>2. QED
      BY <2>1 DEF LinkInv
  <1>5. \A n \in Names : LinksOf(n)' \subseteq LinksOf(n)
    BY <1>1, ConstantsAssumption DEF LinksOf, Links
  <1>6. ASSUME NEW n \in users, LinksOf(n) # {}
        PROVE LinksOf(n)' # {} \/ n \in unlinked' \cup raced["link"]
    <2>1. PICK k \in Sessions : link[k] # None /\ link[k].owner = n
      BY <1>6 DEF LinksOf, Links
    <2>2. n # None
      BY ConstantsAssumption DEF IInv, TypeOK
    <2>3. CASE link'[k] = None
      BY <2>1, <2>2, <2>3
    <2>4. CASE link'[k] # None
      <3>1. k \in LinksOf(n)'
        BY <2>1, <2>4 DEF LinksOf, Links
      <3>2. QED
        BY <3>1
    <2>5. QED
      BY <2>3, <2>4
  <1>7. CredentialKept'
    <2>1. \A n \in users : Swept(n) => Swept(n)'
      BY DEF Swept
    <2>2. QED
      BY <1>6, <2>1 DEF IInv, CredentialKept
  <1>8. OneLink'
    BY <1>5 DEF IInv, TypeOK, OneLink
  <1>9. AddressWasProved' /\ AddressSharedOnlyByRace'
    BY DEF IInv, AddressWasProved, AddressSharedOnlyByRace, Holders
  <1>10. ASSUME NEW p \in Requests PROVE KnowsRegistration(request[p])'
    BY IdleFacts DEF IInv, KnowsInv, Knows, KnowsRegistration
  <1>11. ASSUME NEW p \in Requests PROVE KnowsAddress(request[p])'
    BY IdleFacts DEF IInv, KnowsInv, Knows, KnowsAddress, Holders
  <1>12. ASSUME NEW p \in Requests, request'[p] = request[p]
         PROVE KnowsLink(request[p])' /\ KnowsDrop(request[p])' /\ KnowsAccount(request[p])'
    <2>1. PICK me \in RequestState : me = request[p]
      BY DEF IInv, TypeOK
    <2>2. KnowsLink(me) /\ KnowsDrop(me) /\ KnowsAccount(me)
      BY <2>1 DEF IInv, KnowsInv, Knows
    <2>3. /\ me.link \in Sessions \cup {None} /\ me.session \in Sessions \cup {None}
          /\ me.drop \subseteq Sessions
      BY DEF RequestState
    <2>4. KnowsLink(me)'
      <3>1. CASE me.link = None
        BY <2>2, <3>1 DEF KnowsLink
      <3>2. CASE me.link # None
        <4>1. me.session \in Sessions /\ me.link \in Sessions
          BY <2>2, <2>3, <3>2 DEF KnowsLink
        <4>2. \/ Unowned(me.link)' /\ session'[me.session].link = me.link
              \/ "link" \in me.raced \/ session'[me.session].state = "deleted"
          BY <2>2, <3>2, <4>1 DEF KnowsLink, Unowned, Links
        <4>3. me.link \in Links' /\ ~Unowned(me.link)' => link'[me.link].owner \in raced["link"]
          BY <2>2, <3>2, <4>1 DEF KnowsLink, Unowned, Links
        <4>4. QED
          BY <2>2, <4>1, <4>2, <4>3 DEF KnowsLink
      <3>3. QED
        BY <3>1, <3>2
    <2>5. KnowsDrop(me)'
      BY <2>2, <2>3 DEF KnowsDrop, Unowned, Links
    <2>6. KnowsAccount(me)'
      <3>1. CASE me.pc = "claim"
        <4>1. me.name \in Names
          BY <2>2, <3>1 DEF KnowsLink, IInv, TypeOK
        <4>2. QED
          BY <1>5, <2>2, <4>1 DEF KnowsAccount
      <3>2. CASE me.pc # "claim"
        BY <3>2 DEF KnowsAccount
      <3>3. QED
        BY <3>1, <3>2
    <2>7. me = request'[p]
      BY <1>12, <2>1
    <2>8. QED
      BY <2>4, <2>5, <2>6, <2>7 DEF KnowsLink, KnowsDrop, KnowsAccount
  <1>13. ASSUME NEW p \in Requests, request'[p] = Idle
         PROVE KnowsLink(request[p])' /\ KnowsDrop(request[p])' /\ KnowsAccount(request[p])'
    BY <1>13, IdleFacts DEF KnowsLink, KnowsDrop, KnowsAccount
  <1>14. KnowsInv'
    BY <1>10, <1>11, <1>12, <1>13 DEF KnowsInv, Knows
  <1>15. QED
    BY <1>2, <1>3, <1>4, <1>7, <1>8, <1>9, <1>14 DEF IInv

\* The tables as the steps find them.
LEMMA TableFacts ==
    ASSUME IInv
    PROVE /\ link \in LinkTable /\ session \in SessionTable
          /\ registration \in [Registrations -> RegistrationRow]
          /\ request \in [Requests -> RequestState]
          /\ unlinked \subseteq Names /\ None \notin Sessions
          /\ \A s \in Sessions :
               /\ session[s].link # None =>
                    session[s].link \in Sessions /\ link[session[s].link] # None
               /\ session[s].state = "none" => link[s] = None
               /\ session[s].state \in {"none", "unlinked", "deleted"} => session[s].link = None
  BY ConstantsAssumption DEF IInv, TypeOK, LinkInv, Links, LinkTable, SessionTable

\* A login consumes its session.
LEMMA ConsumeLoginStep ==
    ASSUME IInv, NEW q \in Requests, ConsumeLogin(q)
    PROVE IInv'
  <1> DEFINE s == request[q].session
  <1>1. /\ s \in Sessions /\ session[s].state # "deleted"
        /\ session' = Consume(session, s) /\ request' = [request EXCEPT ![q] = Idle]
        /\ UNCHANGED <<config, accountVars, registration, auth, link, historyVars>>
    BY DEF ConsumeLogin, End, Step, registrationVars, IInv, TypeOK, RequestState,
       KnowsInv, Knows, KnowsLink
  <1>2. /\ session' \in SessionTable
        /\ \A t \in Sessions : session'[t].link = session[t].link
        /\ \A t \in Sessions : t # s => session'[t] = session[t]
        /\ session'[s].state \in {"unlinked", "consumed"}
        /\ session'[s].state = "unlinked" => session[s].state = "unlinked"
    BY <1>1, TableFacts, ConsumeFacts
  <1>3. /\ request' \in [Requests -> RequestState]
        /\ \A p \in Requests : request'[p] \in {request[p], Idle}
    BY <1>1, TableFacts, IdleFacts
  <1> HIDE DEF s
  <1>4. QED
    BY <1>1, <1>2, <1>3, TableFacts, UpstreamStep DEF historyVars

\* A link is removed for its owner.
LEMMA RemoveLinkStep ==
    ASSUME IInv, NEW q \in Requests, RemoveLink(q)
    PROVE IInv'
  <1>1. PICK me \in RequestState : me = request[q]
    BY DEF IInv, TypeOK
  <1>2. /\ me.name \in Names /\ me.drop \in SUBSET Sessions /\ KnowsDrop(me)
        /\ link' = Without(me.drop) /\ session' = Unlinked(me.drop)
        /\ unlinked' = unlinked \cup {me.name} /\ request' = [request EXCEPT ![q] = Idle]
        /\ UNCHANGED <<config, accountVars, registration, auth, contacts, linked, raced>>
    BY <1>1 DEF RemoveLink, End, Step, registrationVars, RequestState, IInv, KnowsInv,
       Knows, KnowsDrop
  <1>3. /\ link' \in LinkTable
        /\ \A k \in Sessions : /\ k \in me.drop => link'[k] = None
                               /\ k \notin me.drop => link'[k] = link[k]
        /\ session' \in SessionTable
        /\ \A s \in Sessions :
             /\ session[s].link \in me.drop =>
                  session'[s].state = "unlinked" /\ session'[s].link = None
             /\ session[s].link \notin me.drop => session'[s] = session[s]
    BY <1>2, TableFacts, RemoveFacts
  <1>4. \A k \in me.drop : link[k] # None =>
          ~Unowned(k) /\ link[k].owner \in {me.name} \cup raced["link"]
    BY <1>2 DEF KnowsDrop, Links
  <1>5. \A s \in Sessions : session[s].link # None /\ Unowned(session[s].link) =>
          link'[session[s].link] # None /\ session'[s].link = session[s].link
    BY <1>3, <1>4, TableFacts
  <1>6. \A k \in Sessions :
          /\ link[k] # None /\ link'[k] # None => link'[k].owner = link[k].owner
          /\ ~(link[k] = None /\ link'[k] # None)
          /\ link[k] # None /\ link'[k] = None =>
               link[k].owner \in {None} \cup raced["link"] \cup unlinked'
    BY <1>2, <1>3, <1>4
  <1>7. /\ request' \in [Requests -> RequestState]
        /\ \A p \in Requests : request'[p] \in {request[p], Idle}
    BY <1>2, TableFacts, IdleFacts
  <1>8. ASSUME NEW s \in Sessions
        PROVE /\ session'[s].link # None =>
                   session'[s].link \in Sessions /\ link'[session'[s].link] # None
              /\ session'[s].state = "none" => session[s].state = "none" /\ link'[s] = None
              /\ session'[s].state \in {"none", "unlinked", "deleted"} => session'[s].link = None
              /\ session[s].state = "deleted" => session'[s].state = "deleted"
    <2>1. CASE session[s].link \in me.drop
      BY <1>2, <1>3, <2>1, TableFacts
    <2>2. CASE session[s].link \notin me.drop
      BY <1>2, <1>3, <2>2, TableFacts
    <2>3. QED
      BY <2>1, <2>2
  <1>9. QED
    BY <1>2, <1>3, <1>5, <1>6, <1>7, <1>8, TableFacts, UpstreamStep

\* The callback finds the link of a subject or inserts it, without an owner.
LEMMA CallbackStep ==
    ASSUME IInv, NEW s \in Sessions, NEW subject \in Subjects, Callback(s, subject)
    PROVE IInv'
  <1> DEFINE known == {l \in Links : link[l].subject = subject}
             new == [subject |-> subject, owner |-> None, old |-> FALSE]
             at == IF known = {} THEN s ELSE CHOOSE l \in known : TRUE
             row == [state |-> "completed", link |-> at]
  <1>1. new \in LinkRow /\ new.owner = None
    BY DEF LinkRow
  <1>2. new # None
    BY <1>1, RowAssumption
  <1>3. at \in Sessions /\ (known # {} => link[at] # None)
    BY DEF Links
  <1>4. row \in SessionRow /\ row.state = "completed" /\ row.link = at
    BY <1>3 DEF SessionRow
  <1>5. /\ session[s].state = "none" /\ link[s] = None /\ session[s].link = None
        /\ session' = [session EXCEPT ![s] = row]
        /\ link' = IF known = {} THEN [link EXCEPT ![s] = new] ELSE link
        /\ UNCHANGED <<config, accountVars, registration, auth, request, historyVars>>
    BY TableFacts DEF Callback, registrationVars
  <1> HIDE DEF new, row, at
  <1>6. /\ link' \in LinkTable /\ session' \in SessionTable
        /\ \A t \in Sessions : t # s => session'[t] = session[t] /\ link'[t] = link[t]
        /\ session'[s] = row /\ link'[s] \in {None, new} /\ link'[at] # None
    BY <1>1, <1>2, <1>3, <1>4, <1>5, TableFacts DEF LinkTable, SessionTable, at
  <1>7. ASSUME NEW t \in Sessions
        PROVE /\ session'[t].link # None =>
                   session'[t].link \in Sessions /\ link'[session'[t].link] # None
              /\ session'[t].state = "none" => session[t].state = "none" /\ link'[t] = None
              /\ session'[t].state \in {"none", "unlinked", "deleted"} => session'[t].link = None
              /\ session[t].state = "deleted" => session'[t].state = "deleted"
              /\ session[t].link # None /\ Unowned(session[t].link) =>
                   link'[session[t].link] # None /\ session'[t].link = session[t].link
    <2>1. CASE t = s
      BY <1>3, <1>4, <1>5, <1>6, <2>1
    <2>2. CASE t # s
      BY <1>5, <1>6, <2>2, TableFacts
    <2>3. QED
      BY <2>1, <2>2
  <1>8. \A k \in Sessions :
          /\ link[k] # None /\ link'[k] # None => link'[k].owner = link[k].owner
          /\ link[k] = None /\ link'[k] # None =>
               link'[k].owner = None /\ session[k].state = "none"
          /\ ~(link[k] # None /\ link'[k] = None)
    BY <1>1, <1>5, <1>6
  <1>9. QED
    BY <1>5, <1>6, <1>7, <1>8, TableFacts, UpstreamStep DEF historyVars

\* A week goes by.
LEMMA WeekStep ==
    ASSUME IInv, Week
    PROVE IInv'
  <1>1. UNCHANGED <<config, accountVars, auth, request, historyVars>>
    BY DEF Week
  <1>2. /\ registration' \in [Registrations -> RegistrationRow]
        /\ \A r \in Registrations :
             /\ registration'[r].state # registration[r].state =>
                  registration[r].state = "open" /\ registration'[r].state = "expired"
             /\ registration'[r].name = registration[r].name
             /\ registration'[r].password = registration[r].password
             /\ registration'[r].auth = registration[r].auth
             /\ registration'[r].session = registration[r].session
    <2>1. ASSUME NEW r \in Registrations
          PROVE LET row == [registration[r] EXCEPT !.state = "expired"] IN
                /\ row \in RegistrationRow /\ row.state = "expired"
                /\ row.name = registration[r].name
                /\ row.password = registration[r].password
                /\ row.auth = registration[r].auth /\ row.session = registration[r].session
      BY TableFacts DEF RegistrationRow
    <2>2. \A r \in Registrations :
            registration'[r] = IF registration[r].state = "open"
                               THEN [registration[r] EXCEPT !.state = "expired"]
                               ELSE registration[r]
      BY DEF Week
    <2>3. registration' \in [Registrations -> RegistrationRow]
      BY <2>1, TableFacts DEF Week
    <2>4. QED
      BY <2>1, <2>2, <2>3
  <1>3. /\ link' \in LinkTable
        /\ \A k \in Sessions : /\ link'[k] = None <=> link[k] = None
                               /\ link[k] # None => link'[k].owner = link[k].owner
    <2>1. ASSUME NEW k \in Sessions, link[k] # None
          PROVE LET row == [link[k] EXCEPT !.old = TRUE] IN
                row \in LinkRow /\ row.owner = link[k].owner
      BY <2>1, TableFacts DEF LinkTable, LinkRow
    <2>2. \A k \in Sessions :
            link'[k] = IF link[k] # None THEN [link[k] EXCEPT !.old = TRUE] ELSE None
      BY DEF Week, Links
    <2>3. \A k \in Sessions : link[k] # None => [link[k] EXCEPT !.old = TRUE] # None
      BY <2>1, RowAssumption
    <2>4. link' \in LinkTable
      <3>1. link' = [k \in Sessions |-> link'[k]]
        BY DEF Week
      <3>2. QED
        BY <2>1, <2>2, <3>1 DEF LinkTable
    <2>5. QED
      BY <2>1, <2>2, <2>3, <2>4
  <1>4. /\ session' \in SessionTable
        /\ \A s \in Sessions :
             /\ session'[s].link = session[s].link
             /\ session'[s].state = session[s].state \/ session'[s].state = "lapsed"
             /\ session[s].state = "deleted" => session'[s].state = "deleted"
    <2>1. ASSUME NEW s \in Sessions
          PROVE LET row == [session[s] EXCEPT !.state = "lapsed"] IN
                row \in SessionRow /\ row.state = "lapsed" /\ row.link = session[s].link
      BY TableFacts DEF SessionTable, SessionRow
    <2>2. \A s \in Sessions :
            session'[s] = IF session[s].state = "completed"
                          THEN [session[s] EXCEPT !.state = "lapsed"] ELSE session[s]
      BY DEF Week
    <2>3. session' \in SessionTable
      <3>1. session' = [s \in Sessions |-> session'[s]]
        BY DEF Week
      <3>2. QED
        BY <2>1, <2>2, <3>1, TableFacts DEF SessionTable
    <2>4. QED
      BY <2>1, <2>2, <2>3
  <1>5. QED
    BY <1>1, <1>2, <1>3, <1>4, TableFacts, UpstreamStep DEF historyVars

\* The cleanup takes links without an owner, and their sessions.
LEMMA CleanupLinksStep ==
    ASSUME IInv, CleanupLinks
    PROVE IInv'
  <1> DEFINE gone == {l \in Links : Unowned(l) /\ link[l].old}
             swept == {s \in Sessions : session[s].link \in gone}
  <1>1. /\ gone \in SUBSET Sessions
        /\ \A l \in gone : link[l] # None /\ link[l].owner = None
    BY DEF Links, Unowned
  <1>2. UNCHANGED <<config, accountVars, auth, request, historyVars>>
    BY DEF CleanupLinks
  <1>3. /\ link' = Without(gone)
        /\ \A s \in Sessions :
             session'[s] = IF s \in swept
                           THEN [session[s] EXCEPT !.state = "deleted", !.link = None]
                           ELSE session[s]
        /\ session' = [s \in Sessions |-> session'[s]]
        /\ \A r \in Registrations :
             registration'[r] = IF registration[r].session \in swept
                                THEN [registration[r] EXCEPT !.session = None]
                                ELSE registration[r]
        /\ registration' = [r \in Registrations |-> registration'[r]]
    BY DEF CleanupLinks
  <1>4. /\ link' \in LinkTable
        /\ \A k \in Sessions : /\ k \in gone => link'[k] = None
                               /\ k \notin gone => link'[k] = link[k]
    BY <1>1, <1>3, TableFacts, RemoveFacts
  <1>5. \A s \in Sessions : s \in swept <=> session[s].link \in gone
    OBVIOUS
  <1> HIDE DEF gone, swept
  <1>6. /\ session' \in SessionTable
        /\ \A s \in Sessions :
             /\ s \in swept => session'[s].state = "deleted" /\ session'[s].link = None
             /\ s \notin swept => session'[s] = session[s]
    <2>1. ASSUME NEW s \in Sessions
          PROVE LET row == [session[s] EXCEPT !.state = "deleted", !.link = None] IN
                row \in SessionRow /\ row.state = "deleted" /\ row.link = None
      <3>1. session[s] \in SessionRow
        BY TableFacts DEF SessionTable
      <3>2. QED
        BY <3>1 DEF SessionRow
    <2>2. \A s \in Sessions : session'[s] \in SessionRow
      BY <1>3, <2>1, TableFacts DEF SessionTable
    <2>3. session' \in SessionTable
      BY <1>3, <2>2 DEF SessionTable
    <2>4. QED
      BY <1>3, <2>1, <2>3
  <1>7. /\ registration' \in [Registrations -> RegistrationRow]
        /\ \A r \in Registrations :
             /\ registration'[r].state = registration[r].state
             /\ registration'[r].name = registration[r].name
             /\ registration'[r].password = registration[r].password
             /\ registration'[r].auth = registration[r].auth
             /\ registration'[r].session \in {registration[r].session, None}
    <2>1. ASSUME NEW r \in Registrations
          PROVE LET row == [registration[r] EXCEPT !.session = None] IN
                /\ row \in RegistrationRow /\ row.session = None
                /\ row.name = registration[r].name /\ row.state = registration[r].state
                /\ row.password = registration[r].password
                /\ row.auth = registration[r].auth
      <3>1. registration[r] \in RegistrationRow
        BY TableFacts
      <3>2. QED
        BY <3>1 DEF RegistrationRow
    <2>2. ASSUME NEW r \in Registrations PROVE registration'[r] \in RegistrationRow
      <3>1. CASE registration[r].session \in swept
        <4>1. registration'[r] = [registration[r] EXCEPT !.session = None]
          BY <1>3, <3>1
        <4>2. QED
          BY <2>1, <4>1
      <3>2. CASE registration[r].session \notin swept
        BY <1>3, <3>2, TableFacts
      <3>3. QED
        BY <3>1, <3>2
    <2>3. registration' \in [Registrations -> RegistrationRow]
      <3>1. registration' = [r \in Registrations |-> registration'[r]]
        BY <1>3
      <3>2. QED
        BY <2>2, <3>1
    <2>4. QED
      BY <1>3, <2>1, <2>3
  <1>8. ASSUME NEW s \in Sessions
        PROVE /\ session'[s].link # None =>
                   session'[s].link \in Sessions /\ link'[session'[s].link] # None
              /\ session'[s].state = "none" => session[s].state = "none" /\ link'[s] = None
              /\ session'[s].state \in {"none", "unlinked", "deleted"} => session'[s].link = None
              /\ session[s].state = "deleted" => session'[s].state = "deleted"
              /\ session[s].link # None /\ Unowned(session[s].link) =>
                   \/ link'[session[s].link] # None /\ session'[s].link = session[s].link
                   \/ session'[s].state = "deleted"
    <2>1. CASE s \in swept
      BY <1>6, <2>1
    <2>2. CASE s \notin swept
      BY <1>4, <1>5, <1>6, <2>2, TableFacts
    <2>3. QED
      BY <2>1, <2>2
  <1>9. \A k \in Sessions :
          /\ link[k] # None /\ link'[k] # None => link'[k].owner = link[k].owner
          /\ ~(link[k] = None /\ link'[k] # None)
          /\ link[k] # None /\ link'[k] = None => link[k].owner = None
    BY <1>1, <1>4
  <1>10. QED
    BY <1>2, <1>4, <1>6, <1>7, <1>8, <1>9, TableFacts, UpstreamStep DEF historyVars
-----------------------------------------------------------------------------
\* An account adds or removes an address.
LEMMA ContactStep ==
    ASSUME IInv, NEW n \in Names, NEW a \in Addresses,
           AddContact(n, a) \/ RemoveContact(n, a)
    PROVE IInv'
  <1>1. /\ \/ /\ n \in users /\ emails' = emails \cup {<<n, a>>}
              /\ contacts' = contacts \cup {<<n, a>>}
           \/ emails' = emails \ {<<n, a>>} /\ contacts' = contacts \ {<<n, a>>}
        /\ UNCHANGED <<config, users, passwords, registration, auth, link, session, request,
                       unlinked, linked, raced>>
    BY DEF AddContact, RemoveContact, registrationVars, upstreamVars
  <1>2. Links' = Links
    BY <1>1 DEF Links
  <1>3. TypeOK'
    <2>1. emails' \subseteq users' \X Addresses /\ contacts' \subseteq emails'
      BY <1>1 DEF IInv, TypeOK
    <2>2. QED
      BY <1>1, <1>2, <2>1 DEF IInv, TypeOK
  <1>4. RowInv' /\ LinkInv' /\ OneLink'
    BY <1>1, <1>2 DEF IInv, RowInv, LinkInv, Unowned, OneLink, LinksOf
  <1>5. CredentialKept'
    BY <1>1, <1>2 DEF IInv, CredentialKept, LinksOf, Swept
  <1>6. AddressWasProved'
    <2>1. emails' \ contacts' \subseteq emails \ contacts
      BY <1>1
    <2>2. QED
      BY <1>1, <2>1 DEF IInv, AddressWasProved
  <1>7. \A m \in Names, b \in Addresses \cup {None} : <<m, b>> \in emails' =>
          \/ <<m, b>> \in contacts'
          \/ <<m, b>> \in emails /\ (<<m, b>> \in contacts => <<m, b>> \in contacts')
    BY <1>1
  <1>8. AddressSharedOnlyByRace'
    BY <1>1, <1>7 DEF IInv, AddressSharedOnlyByRace, Holders
  <1>9. ASSUME NEW p \in Requests PROVE KnowsAddress(request[p])'
    <2>1. request[p].address \in Addresses \cup {None} /\ KnowsAddress(request[p])
      BY DEF IInv, TypeOK, RequestState, KnowsInv, Knows
    <2>2. QED
      BY <1>1, <1>7, <2>1 DEF KnowsAddress, Holders
  <1>10. ASSUME NEW p \in Requests
         PROVE /\ KnowsRegistration(request[p])' /\ KnowsLink(request[p])'
               /\ KnowsDrop(request[p])' /\ KnowsAccount(request[p])'
    BY <1>1, <1>2 DEF IInv, KnowsInv, Knows, KnowsRegistration, KnowsLink, KnowsDrop,
       KnowsAccount, Unowned, LinksOf
  <1>11. KnowsInv'
    BY <1>9, <1>10 DEF KnowsInv, Knows
  <1>12. QED
    BY <1>3, <1>4, <1>5, <1>6, <1>8, <1>11 DEF IInv
-----------------------------------------------------------------------------
(***************************************************************************)
(* The invariant holds, and with it the properties.                        *)
(***************************************************************************)
LEMMA InitIInv == Init => IInv
  <1> SUFFICES ASSUME Init PROVE IInv
    OBVIOUS
  <1>1. NoRegistration \in RegistrationRow /\ NoRegistration.state = "none"
        /\ NoRegistration.auth = None
    BY DEF NoRegistration, RegistrationRow
  <1>2. NoSession \in SessionRow /\ NoSession.link = None
    BY DEF NoSession, SessionRow
  <1>3. Links = {}
    BY DEF Init, Links
  <1>4. TypeOK
    BY <1>1, <1>2, IdleFacts, ConstantsAssumption DEF Init, TypeOK
  <1>5. RowInv /\ LinkInv
    BY <1>1, <1>2, <1>3 DEF Init, RowInv, LinkInv
  <1>6. KnowsInv
    BY IdleFacts DEF Init, KnowsInv
  <1>7. CredentialKept /\ OneLink /\ AddressWasProved /\ AddressSharedOnlyByRace
    BY <1>1, <1>3 DEF Init, CredentialKept, OneLink, LinksOf, AddressWasProved,
       AddressSharedOnlyByRace, Holders
  <1>8. QED
    BY <1>4, <1>5, <1>6, <1>7 DEF IInv

\* Every step of Registration keeps the invariant.
LEMMA NextIInv == IInv /\ [Next]_vars => IInv'
  <1> SUFFICES ASSUME IInv, [Next]_vars PROVE IInv'
    OBVIOUS
  <1>1. ASSUME NEW r \in Registrations, NEW n \in Names, NEW a \in Addresses \cup {None},
               \/ BeginPasswordRegistration(r, n, a)
               \/ \E s \in Sessions : PrepareUserRegistration(r, s, n, a)
        PROVE IInv'
    BY <1>1, BeginPasswordRegistrationStep, PrepareUserRegistrationStep
  <1>2. ASSUME NEW q \in Requests, NEW r \in Registrations,
               \/ VerifyEmailCode(q, r)
               \/ \E a \in Addresses : ChangeEmail(q, r, a)
               \/ LoadProgress(q, r)
        PROVE IInv'
    BY <1>2, VerifyEmailCodeStep, ChangeEmailStep, LoadProgressStep
  <1>3. ASSUME NEW q \in Requests,
               \/ CompleteAuthentication(q) \/ SetEmailAuthentication(q)
               \/ PrepareCompletion(q) \/ CompleteRegistration(q)
        PROVE IInv'
    BY <1>3, CompleteAuthenticationStep, SetEmailAuthenticationStep,
       PrepareCompletionStep, CompleteRegistrationStep
  <1>4. ASSUME NEW q \in Requests, NEW s \in Sessions,
               \/ LoadOwnedLink(q, s) \/ LoadUnownedLink(q, s)
               \/ \E n \in Names : LinkCurrentSession(q, s, n)
               \/ Unlink(q, s)
        PROVE IInv'
    BY <1>4, LoadOwnedLinkStep, LoadUnownedLinkStep, LinkCurrentSessionStep, UnlinkStep
  <1>5. ASSUME NEW q \in Requests,
               \/ ConsumeLogin(q) \/ ResolveConflict(q) \/ ClaimLink(q)
               \/ RemoveLink(q) \/ Fail(q)
        PROVE IInv'
    BY <1>5, ConsumeLoginStep, ResolveConflictStep, ClaimLinkStep, RemoveLinkStep, FailStep
  <1>6. ASSUME NEW s \in Sessions, NEW subject \in Subjects, Callback(s, subject)
        PROVE IInv'
    BY <1>6, CallbackStep
  <1>7. ASSUME NEW n \in Names, NEW a \in Addresses, AddContact(n, a) \/ RemoveContact(n, a)
        PROVE IInv'
    BY <1>7, ContactStep
  <1>8. CASE Week \/ CleanupLinks
    BY <1>8, WeekStep, CleanupLinksStep
  <1>9. CASE UNCHANGED vars
    <2>1. UNCHANGED <<config, accountVars, registration, auth, link, session, request,
                      historyVars>>
      BY <1>9 DEF vars, registrationVars, upstreamVars
    <2>2. QED
      BY <2>1, TableFacts, UpstreamStep DEF historyVars
  <1>10. QED
    BY <1>1, <1>2, <1>3, <1>4, <1>5, <1>6, <1>7, <1>8, <1>9 DEF Next

\* The invariant holds of every reachable state.
THEOREM Invariance == Spec => []IInv
  <1>1. QED
    BY InitIInv, NextIInv, PTL DEF Spec

\* The tables have their types, and no session names a link that was removed.
THEOREM TypeCorrect == Spec => []TypeOK
  <1>1. IInv => TypeOK
    BY DEF IInv
  <1>2. QED
    BY <1>1, Invariance, PTL

\* However many requests of finish_registration, of upstream logins, of the
\* removal of links and of the cleanup overlap: an account has a password or a
\* link, but for the exceptions that CredentialKept names.
THEOREM NobodyLockedOut == Spec => []CredentialKept
  <1>1. IInv => CredentialKept
    BY DEF IInv
  <1>2. QED
    BY <1>1, Invariance, PTL

\* on_conflict set and replace keep an account at one link.
THEOREM LinksStaySingle == Spec => []OneLinkPerAccount
  <1>1. ASSUME IInv PROVE OneLinkPerAccount
    <2> SUFFICES ASSUME config.upstream \in {"set", "replace"}, NEW n \in users,
                        Cardinality(LinksOf(n)) > 1, n \notin linked \cup raced["account"]
                 PROVE FALSE
      BY DEF OneLinkPerAccount
    <2>1. \A l1, l2 \in LinksOf(n) : l1 = l2
      BY <1>1 DEF IInv, OneLink
    <2>2. CASE LinksOf(n) = {}
      BY <2>2, FS_EmptySet
    <2>3. CASE LinksOf(n) # {}
      <3>1. PICK l \in LinksOf(n) : LinksOf(n) = {l}
        BY <2>1, <2>3
      <3>2. Cardinality(LinksOf(n)) = 1
        BY <3>1, FS_Singleton
      <3>3. QED
        BY <3>2
    <2>4. QED
      BY <2>2, <2>3
  <1>2. QED
    BY <1>1, Invariance, PTL

\* A new account has the address its registration proved, whatever changes of
\* the address and verifications were under way at the finish.
THEOREM AddressesProved == Spec => []AddressWasProved
  <1>1. IInv => AddressWasProved
    BY DEF IInv
  <1>2. QED
    BY <1>1, Invariance, PTL

\* Two accounts come to share an address through a contact or finishes that
\* overlap, and in no other way.
THEOREM AddressesShared == Spec => []AddressSharedOnlyByRace
  <1>1. IInv => AddressSharedOnlyByRace
    BY DEF IInv
  <1>2. QED
    BY <1>1, Invariance, PTL
=============================================================================
