---------------------------- MODULE Registration ----------------------------
(***************************************************************************)
(* New accounts and upstream identities: who gets a user name, an e-mail   *)
(* address and the link of an identity at an upstream provider.            *)
(*                                                                         *)
(* A registration is a row that several requests fill in, with a password  *)
(* and an address or from an authorization session at the provider;        *)
(* finish_registration turns it into an account. Three things are claimed: *)
(* the name, which a UNIQUE constraint protects; the address, for which    *)
(* there is none; and the link, whose owner associate_to_user overwrites   *)
(* whatever it is. Requests look first and write later in one transaction  *)
(* (READ COMMITTED), so two of them may both find a claim free.            *)
(*                                                                         *)
(* A request is modelled by its reads, one step each where another request *)
(* can come between, and one step for its writes and the commit: nobody    *)
(* sees the writes before, the rows are locked from the write to the       *)
(* commit, and conditions of UPDATE statements are checked on the locked   *)
(* row. A deadlock ends one of the two, as any error does (Fail).          *)
(***************************************************************************)
EXTENDS Naturals, FiniteSets

CONSTANTS
    Names, Addresses, Subjects,   \* user names, e-mail addresses, upstream identities
    LocalpartOf,                  \* the name the provider reports of a subject
    Registrations, Sessions,      \* user_registrations, upstream authorization sessions
    Requests,
    Deployments,   \* password registration enabled or not, on_conflict of the provider,
                   \* the addresses it reports and has imported, email_change_allowed
    InitialUsers,  \* the accounts there may be to start with
    MaxAuths,      \* bound: user_email_authentications of a registration
    None

OnConflict == {"off", "suggest", "fail", "add", "replace", "set"}

ASSUME ConstantsAssumption ==
    /\ LocalpartOf \in [Subjects -> Names]
    /\ Deployments \subseteq [password : BOOLEAN, upstream : OnConflict,
                             imports : SUBSET Addresses, email_change_allowed : BOOLEAN]
    /\ InitialUsers \subseteq SUBSET Names
    /\ MaxAuths \in Nat \ {0}
    /\ None \notin Names \cup Addresses \cup Subjects \cup Registrations \cup Sessions

VARIABLES
    config,              \* the configuration the server runs with
    users, passwords,    \* the accounts, by name, and those with a password
    emails,              \* user_emails: pairs of a name and an address
    registration,        \* user_registrations
    auth,                \* user_email_authentications of a registration
    link,                \* upstream_oauth_links, by the session that inserted the row
    session,             \* upstream_oauth_authorization_sessions
    request,             \* the requests in progress
    \* history: addresses added to an account by its owner, owners that removed
    \* a link or added one by hand, and, by what was claimed, the accounts whose
    \* claim overlapped another claim of the same
    contacts, unlinked, linked, raced

historyVars == <<contacts, unlinked, linked, raced>>
registrationVars == <<registration, auth>>
upstreamVars == <<link, session>>
accountVars == <<users, passwords, emails>>
vars == <<config, accountVars, registrationVars, upstreamVars, request, historyVars>>

Auths == 1 .. MaxAuths

\* What two requests may claim at once: an address, a link, an account to link.
Claims == {"address", "link", "account"}

NoRegistration == [state |-> "none", name |-> None, password |-> FALSE,
                   auth |-> None, session |-> None]
NoSession == [state |-> "none", link |-> None]
Idle == [pc |-> "idle", registration |-> None, name |-> None, auth |-> None,
         address |-> None, session |-> None, link |-> None, drop |-> {},
         raced |-> {}]

RegistrationRow == [state : {"none", "open", "expired", "completed"},
                    name : Names \cup {None}, password : BOOLEAN,
                    auth : Auths \cup {None}, session : Sessions \cup {None}]
\* "lapsed" is a completed session that no cookie names any more.
SessionRow == [state : {"none", "completed", "lapsed", "consumed", "unlinked", "deleted"},
               link : Sessions \cup {None}]
LinkRow == [subject : Subjects, owner : Names \cup {None}, old : BOOLEAN]
AuthRow == [address : Addresses, completed : BOOLEAN]
RequestState ==
    [pc : {"idle", "prepare", "complete", "resolve", "claim", "login", "unlink",
           "verify", "change"},
     registration : Registrations \cup {None}, name : Names \cup {None},
     auth : Auths \cup {None}, address : Addresses \cup {None},
     session : Sessions \cup {None}, link : Sessions \cup {None},
     drop : SUBSET Sessions, raced : SUBSET Claims]

ASSUME RowAssumption == None \notin LinkRow \cup AuthRow

Links == {l \in Sessions : link[l] # None}
LinksOf(n) == {l \in Links : link[l].owner = n}
Unowned(l) == l \in Links /\ link[l].owner = None
Forced == config.upstream \in {"fail", "add", "replace", "set"}

Holders(a) == {n \in Names : <<n, a>> \in emails}
\* user_email().count() > 0, and find_by_email, which answers None for an
\* address that several accounts have
InUse(a) == Holders(a) # {}
FoundByEmail(a) == Cardinality(Holders(a)) = 1
-----------------------------------------------------------------------------
\* Some accounts exist, all with a password.
Init ==
    /\ config \in Deployments
    /\ users \in InitialUsers
    /\ passwords = users
    /\ emails = {}
    /\ registration = [r \in Registrations |-> NoRegistration]
    /\ auth = [r \in Registrations |-> [k \in Auths |-> None]]
    /\ link = [l \in Sessions |-> None]
    /\ session = [s \in Sessions |-> NoSession]
    /\ request = [q \in Requests |-> Idle]
    /\ contacts = {} /\ unlinked = {} /\ linked = {}
    /\ raced = [c \in Claims |-> {}]

Step(q, state) == request' = [request EXCEPT ![q] = state]
End(q) == Step(q, Idle)

\* The other requests that have found free, or without a link, what q claims:
\* finishes with the same address, whoever wants the same link, and those that
\* are about to link the same account.
Rivals(q, claim) ==
    LET me == request[q] IN
    {p \in Requests \ {q} :
        LET you == request[p] IN
        \/ /\ claim = "address" /\ me.address # None
           /\ you.pc = "complete" /\ you.address = me.address
        \/ claim = "link" /\ me.link # None /\ you.link = me.link
        \/ /\ claim = "account" /\ me.pc = "claim"
           /\ you.pc = "claim" /\ you.name = me.name}

\* A claim is committed: whoever looked before it and writes after it overlaps.
Commit(q) ==
    /\ request' = [p \in Requests |->
                     IF p = q THEN Idle
                     ELSE [request[p] EXCEPT
                             !.raced = @ \cup {c \in Claims : p \in Rivals(q, c)}]]
    /\ raced' = [c \in Claims |->
                   IF c \in request[q].raced \/ Rivals(q, c) # {}
                   THEN raced[c] \cup {request[q].name} ELSE raced[c]]

-----------------------------------------------------------------------------
\* Registration with a password

\* begin_password_registration and start_password_registration: the checks,
\* then rows that nobody else knows yet.
BeginPasswordRegistration(r, n, a) ==
    /\ config.password
    /\ registration[r].state = "none"
    /\ n \notin users
    /\ a # None => ~InUse(a)
    /\ registration' = [registration EXCEPT ![r] =
            [state |-> "open", name |-> n, password |-> TRUE,
             auth |-> IF a = None THEN None ELSE 1, session |-> None]]
    /\ auth' = IF a = None THEN auth
               ELSE [auth EXCEPT ![r][1] = [address |-> a, completed |-> FALSE]]
    /\ UNCHANGED <<config, accountVars, upstreamVars, request, historyVars>>

\* The authentication a registration points at, if it is still to complete.
Pending(r) ==
    LET k == registration[r].auth IN k # None /\ ~auth[r][k].completed

\* verify_registration_email_code, up to the code that was found ...
VerifyEmailCode(q, r) ==
    /\ request[q] = Idle
    /\ registration[r].state \in {"open", "expired"}
    /\ Pending(r)
    /\ Step(q, [Idle EXCEPT !.pc = "verify", !.registration = r,
                            !.auth = registration[r].auth])
    /\ UNCHANGED <<config, accountVars, registrationVars, upstreamVars, historyVars>>

\* ... and complete_authentication_with_code, which fails if it was completed.
CompleteAuthentication(q) ==
    LET r == request[q].registration
        k == request[q].auth IN
    /\ request[q].pc = "verify"
    /\ ~auth[r][k].completed
    /\ auth' = [auth EXCEPT ![r][k].completed = TRUE]
    /\ End(q)
    /\ UNCHANGED <<config, accountVars, registration, upstreamVars, historyVars>>

\* change_registration_email: the checks on the progress it loaded ...
ChangeEmail(q, r, a) ==
    /\ request[q] = Idle
    /\ registration[r].state = "open"
    /\ Pending(r)
    /\ ~FoundByEmail(a)
    /\ Step(q, [Idle EXCEPT !.pc = "change", !.registration = r, !.address = a])
    /\ UNCHANGED <<config, accountVars, registrationVars, upstreamVars, historyVars>>

\* ... and a new authentication, to which set_email_authentication points the
\* registration unless that was completed.
SetEmailAuthentication(q) ==
    LET r == request[q].registration IN
    /\ request[q].pc = "change"
    /\ registration[r].state # "completed"
    /\ \E k \in Auths :
        /\ auth[r][k] = None /\ (k > 1 => auth[r][k - 1] # None)
        /\ auth' = [auth EXCEPT ![r][k] =
                        [address |-> request[q].address, completed |-> FALSE]]
        /\ registration' = [registration EXCEPT ![r].auth = k]
    /\ End(q)
    /\ UNCHANGED <<config, accountVars, upstreamVars, historyVars>>
-----------------------------------------------------------------------------
\* Registration through an upstream provider

\* The callback: the link of the subject is found or inserted, the session
\* completed with it. Constraints make it fail if the link goes away or comes
\* up in between.
Callback(s, subject) ==
    LET known == {l \in Links : link[l].subject = subject} IN
    /\ config.upstream # "off"
    /\ session[s].state = "none"
    /\ IF known = {}
       THEN /\ link' = [link EXCEPT ![s] =
                           [subject |-> subject, owner |-> None, old |-> FALSE]]
            /\ session' = [session EXCEPT ![s] =
                           [state |-> "completed", link |-> s]]
       ELSE /\ session' = [session EXCEPT ![s] =
                           [state |-> "completed",
                            link |-> CHOOSE l \in known : TRUE]]
            /\ UNCHANGED link
    /\ UNCHANGED <<config, accountVars, registrationVars, request, historyVars>>

\* load_upstream_link_context: a session that is completed and not consumed,
\* which a cookie names, and its link.
InContext(s) == session[s].state = "completed" /\ session[s].link \in Links

\* prepare_user_registration, after the choices of load_upstream_registration_screen
\* or submit_upstream_link_action: the name is the localpart where the provider
\* forces it, and free; an imported address counts as verified.
PrepareUserRegistration(r, s, n, a) ==
    /\ registration[r].state = "none"
    /\ InContext(s)
    /\ Unowned(session[s].link)
    /\ Forced => n = LocalpartOf[link[session[s].link].subject]
    /\ n \notin users
    /\ a \in config.imports \cup {None}
    /\ registration' = [registration EXCEPT ![r] =
            [state |-> "open", name |-> n, password |-> FALSE,
             auth |-> IF a = None THEN None ELSE 1, session |-> s]]
    /\ auth' = IF a = None THEN auth
               ELSE [auth EXCEPT ![r][1] = [address |-> a, completed |-> TRUE]]
    /\ UNCHANGED <<config, accountVars, upstreamVars, request, historyVars>>
-----------------------------------------------------------------------------
\* Finish

\* Mutant: the address the registration points at by now.
CurrentAddressOf(q) ==
    LET r == request[q].registration IN
    IF registration[r].auth = None THEN None ELSE auth[r][registration[r].auth].address

\* The address of the progress that finish_registration works with.
AddressOf(q) ==
    LET me == request[q] IN
    IF me.auth = None THEN None ELSE auth[me.registration][me.auth].address

\* load_registration_progress and check_registration_finish_eligibility; an
\* address that is not verified ends the request a little later.
LoadProgress(q, r) ==
    LET row == registration[r] IN
    /\ request[q] = Idle
    /\ row.state = "open"
    /\ row.name \notin users
    /\ ~Pending(r)
    /\ Step(q, [Idle EXCEPT !.pc = "prepare", !.registration = r, !.name = row.name,
                            !.auth = row.auth, !.session = row.session])
    /\ UNCHANGED <<config, accountVars, registrationVars, upstreamVars, historyVars>>

\* link_id() of a session: None once it was unlinked.
LinkOf(s) == IF session[s].state \in {"completed", "lapsed", "consumed"}
             THEN session[s].link ELSE None

\* Mutant: the finish relies on the check made when the registration began.
UncheckedAddress(q) == TRUE

AddressIsFree(q) == AddressOf(q) # None => ~InUse(AddressOf(q))

\* Mutant: any link that exists will do.
AnyLink(q) ==
    LET s == request[q].session IN
    s # None => session[s].state # "consumed" /\ LinkOf(s) # None

\* The link has no owner. A session that was consumed is refused by consume, in
\* the writes; the copy is the one read here.
LinkIsFree(q) ==
    LET s == request[q].session IN
    s # None => /\ session[s].state # "consumed"
                /\ LinkOf(s) # None
                /\ Unowned(LinkOf(s))

\* prepare_registration_completion
PrepareCompletion(q) ==
    LET me == request[q] IN
    /\ me.pc = "prepare"
    /\ AddressIsFree(q)
    /\ LinkIsFree(q)
    /\ Step(q, [me EXCEPT !.pc = "complete", !.address = AddressOf(q),
                          !.link = IF me.session = None THEN None
                                   ELSE LinkOf(me.session)])
    /\ UNCHANGED <<config, accountVars, registrationVars, upstreamVars, historyVars>>

\* The writes of complete_registration: the row is not completed, the name is
\* new, and the session that authenticates the browser still exists.
MayComplete(q) ==
    LET me == request[q] IN
    /\ registration[me.registration].state # "completed"
    /\ me.name \notin users
    /\ me.session # None => session[me.session].state # "deleted"

\* consume: whatever the state of the row is by now.
Consume(rows, s) ==
    [rows EXCEPT ![s].state = IF @ = "unlinked" THEN @ ELSE "consumed"]

\* associate_to_user: the row by its id, if it is still there.
Associate(rows, l, n) ==
    IF rows[l] = None THEN rows ELSE [rows EXCEPT ![l].owner = n]

CompleteRegistration(q) ==
    LET me == request[q]
        r == me.registration IN
    /\ me.pc = "complete"
    /\ MayComplete(q)
    /\ registration' = [registration EXCEPT ![r].state = "completed"]
    /\ users' = users \cup {me.name}
    /\ passwords' = IF registration[r].password
                    THEN passwords \cup {me.name} ELSE passwords
    /\ emails' = IF me.address = None THEN emails
                 ELSE emails \cup {<<me.name, me.address>>}
    /\ IF me.session = None THEN UNCHANGED upstreamVars
       ELSE /\ session' = Consume(session, me.session)
            /\ link' = Associate(link, me.link, me.name)
    /\ Commit(q)
    /\ UNCHANGED <<config, auth, contacts, unlinked, linked>>
-----------------------------------------------------------------------------
\* Upstream login and linking

\* load_upstream_link_state for a link with an owner: a login of that account,
\* or the confirmation of one that is logged in.
LoadOwnedLink(q, s) ==
    /\ request[q] = Idle
    /\ InContext(s)
    /\ ~Unowned(session[s].link)
    /\ Step(q, [Idle EXCEPT !.pc = "login", !.session = s,
                            !.name = link[session[s].link].owner])
    /\ UNCHANGED <<config, accountVars, registrationVars, upstreamVars, historyVars>>

ConsumeLogin(q) ==
    LET me == request[q] IN
    /\ me.pc = "login"
    /\ session[me.session].state # "deleted"
    /\ session' = Consume(session, me.session)
    /\ End(q)
    /\ UNCHANGED <<config, accountVars, registrationVars, link, historyVars>>

\* load_upstream_link_context for a link without an owner, whose localpart the
\* provider forces; the policy is asked about it next.
LoadUnownedLink(q, s) ==
    LET l == session[s].link IN
    /\ request[q] = Idle
    /\ config.upstream \in {"add", "replace", "set"}
    /\ InContext(s)
    /\ Unowned(l)
    /\ Step(q, [Idle EXCEPT !.pc = "resolve", !.session = s, !.link = l,
                            !.name = LocalpartOf[link[l].subject]])
    /\ UNCHANGED <<config, accountVars, registrationVars, upstreamVars, historyVars>>

\* Mutant: "set" links the account whether or not it has a link.
ResolveAnyConflict(q) ==
    LET me == request[q] IN
    /\ me.pc = "resolve"
    /\ me.name \in users
    /\ Step(q, [me EXCEPT !.pc = "claim",
                          !.drop = IF config.upstream = "replace"
                                   THEN LinksOf(me.name) ELSE {}])
    /\ UNCHANGED <<config, accountVars, registrationVars, upstreamVars, historyVars>>

\* pre_check_localpart, where find_by_username finds an account: what on_conflict
\* asks for, the links to replace or that none exists. An account once found
\* stays, so the two reads are one step.
ResolveConflict(q) ==
    LET me == request[q] IN
    /\ me.pc = "resolve"
    /\ me.name \in users
    /\ config.upstream = "set" => LinksOf(me.name) = {}
    /\ Step(q, [me EXCEPT !.pc = "claim",
                          !.drop = IF config.upstream = "replace"
                                   THEN LinksOf(me.name) ELSE {}])
    /\ UNCHANGED <<config, accountVars, registrationVars, upstreamVars, historyVars>>

\* submit_upstream_link_action of an account that is logged in.
LinkCurrentSession(q, s, n) ==
    /\ request[q] = Idle
    /\ n \in users
    /\ InContext(s)
    /\ Unowned(session[s].link)
    /\ Step(q, [Idle EXCEPT !.pc = "claim", !.session = s, !.link = session[s].link,
                            !.name = n])
    /\ linked' = linked \cup {n}
    /\ UNCHANGED <<config, accountVars, registrationVars, upstreamVars,
                   contacts, unlinked, raced>>

\* Mutant: deletes the row of the link only.
StillLinked(ls) == session

\* remove: the sessions of the link are unlinked, the row is deleted.
Unlinked(ls) ==
    [s \in Sessions |->
        IF session[s].link \in ls
        THEN [session[s] EXCEPT !.state = "unlinked", !.link = None]
        ELSE session[s]]

Without(ls) == [l \in Sessions |-> IF l \in ls THEN None ELSE link[l]]

\* The writes of both: links to be replaced have to be there still, the session
\* as well, for authenticate_with_upstream names it.
ClaimLink(q) ==
    LET me == request[q] IN
    /\ me.pc = "claim"
    /\ me.drop \subseteq Links
    /\ session[me.session].state # "deleted"
    /\ link' = Associate(Without(me.drop), me.link, me.name)
    /\ session' = Consume(Unlinked(me.drop), me.session)
    /\ Commit(q)
    /\ UNCHANGED <<config, accountVars, registrationVars, contacts, unlinked, linked>>

\* unlink_linked_account: the account owns the link when it is looked up ...
Unlink(q, l) ==
    /\ request[q] = Idle
    /\ l \in Links /\ ~Unowned(l)
    /\ Step(q, [Idle EXCEPT !.pc = "unlink", !.drop = {l}, !.name = link[l].owner])
    /\ UNCHANGED <<config, accountVars, registrationVars, upstreamVars, historyVars>>

\* ... and the row is deleted by its id.
RemoveLink(q) ==
    LET me == request[q] IN
    /\ me.pc = "unlink"
    /\ me.drop \subseteq Links
    /\ link' = Without(me.drop)
    /\ session' = Unlinked(me.drop)
    /\ unlinked' = unlinked \cup {me.name}
    /\ End(q)
    /\ UNCHANGED <<config, accountVars, registrationVars, contacts, linked, raced>>
-----------------------------------------------------------------------------
\* The rest of the system

\* start_email_verification and complete_email_verification: an account adds
\* an address that it verified; only its own addresses are looked at.
AddContact(n, a) ==
    /\ config.email_change_allowed
    /\ n \in users
    /\ <<n, a>> \notin emails
    /\ emails' = emails \cup {<<n, a>>}
    /\ contacts' = contacts \cup {<<n, a>>}
    /\ UNCHANGED <<config, users, passwords, registrationVars, upstreamVars, request,
                   unlinked, linked, raced>>

\* remove_user_email
RemoveContact(n, a) ==
    /\ <<n, a>> \in emails
    /\ emails' = emails \ {<<n, a>>}
    /\ contacts' = contacts \ {<<n, a>>}
    /\ UNCHANGED <<config, users, passwords, registrationVars, upstreamVars, request,
                   unlinked, linked, raced>>

\* A week goes by: registrations expire after an hour, cookies before that.
Week ==
    /\ \A q \in Requests : request[q] = Idle
    /\ registration' = [r \in Registrations |->
            IF registration[r].state = "open"
            THEN [registration[r] EXCEPT !.state = "expired"] ELSE registration[r]]
    /\ link' = [l \in Sessions |->
            IF l \in Links THEN [link[l] EXCEPT !.old = TRUE] ELSE None]
    /\ session' = [s \in Sessions |->
            IF session[s].state = "completed"
            THEN [session[s] EXCEPT !.state = "lapsed"] ELSE session[s]]
    /\ UNCHANGED <<config, accountVars, auth, request, historyVars>>

\* cleanup_orphaned: links older than a week without an owner go, with their
\* sessions of any age; a registration forgets its session (ON DELETE SET NULL).
\* It fails when a session has authenticated somebody, as one does whose link was
\* claimed while the cleanup waited for the row.
CleanupLinks ==
    LET gone == {l \in Links : Unowned(l) /\ link[l].old}
        swept == {s \in Sessions : session[s].link \in gone} IN
    /\ gone # {}
    /\ \A s \in swept : session[s].state # "consumed"
    /\ link' = Without(gone)
    /\ session' = [s \in Sessions |->
            IF s \in swept THEN [session[s] EXCEPT !.state = "deleted", !.link = None]
            ELSE session[s]]
    /\ registration' = [r \in Registrations |->
            IF registration[r].session \in swept
            THEN [registration[r] EXCEPT !.session = None] ELSE registration[r]]
    /\ UNCHANGED <<config, accountVars, auth, request, historyVars>>

\* A request ends with an error, a refusal or a lost connection and is rolled back.
Fail(q) ==
    /\ request[q] # Idle
    /\ End(q)
    /\ UNCHANGED <<config, accountVars, registrationVars, upstreamVars, historyVars>>
-----------------------------------------------------------------------------
Next ==
    \/ \E r \in Registrations, n \in Names, a \in Addresses \cup {None} :
        \/ BeginPasswordRegistration(r, n, a)
        \/ \E s \in Sessions : PrepareUserRegistration(r, s, n, a)
    \/ \E q \in Requests :
        \/ \E r \in Registrations :
            \/ VerifyEmailCode(q, r)
            \/ \E a \in Addresses : ChangeEmail(q, r, a)
            \/ LoadProgress(q, r)
        \/ CompleteAuthentication(q)
        \/ SetEmailAuthentication(q)
        \/ PrepareCompletion(q)
        \/ CompleteRegistration(q)
        \/ \E s \in Sessions :
            \/ LoadOwnedLink(q, s)
            \/ LoadUnownedLink(q, s)
            \/ \E n \in Names : LinkCurrentSession(q, s, n)
            \/ Unlink(q, s)
        \/ ConsumeLogin(q)
        \/ ResolveConflict(q)
        \/ ClaimLink(q)
        \/ RemoveLink(q)
        \/ Fail(q)
    \/ \E s \in Sessions, subject \in Subjects : Callback(s, subject)
    \/ \E n \in Names, a \in Addresses : AddContact(n, a) \/ RemoveContact(n, a)
    \/ Week
    \/ CleanupLinks

Spec == Init /\ [][Next]_vars
-----------------------------------------------------------------------------
\* The types of the tables, and the foreign key from a session to its link,
\* which the removal of a link and the cleanup have to keep.
TypeOK ==
    /\ config \in Deployments
    /\ users \subseteq Names /\ passwords \subseteq users
    /\ emails \subseteq users \X Addresses
    /\ registration \in [Registrations -> RegistrationRow]
    /\ auth \in [Registrations -> [Auths -> AuthRow \cup {None}]]
    /\ link \in [Sessions -> LinkRow \cup {None}]
    /\ session \in [Sessions -> SessionRow]
    /\ request \in [Requests -> RequestState]
    /\ \A s \in Sessions : session[s].link # None => session[s].link \in Links
    /\ contacts \subseteq emails
    /\ unlinked \subseteq Names /\ linked \subseteq Names
    /\ raced \in [Claims -> SUBSET Names]

\* The account a registration without a password became after cleanup_orphaned
\* had deleted its authorization session.
Swept(n) ==
    \E r \in Registrations :
        /\ registration[r].state = "completed" /\ registration[r].name = n
        /\ ~registration[r].password /\ registration[r].session = None

\* Nobody is locked out of a new account: one without a password has a link to
\* log in with, unless its owner removed it, another claim of the same link
\* overlapped, or the cleanup of old links took the session before the finish.
CredentialKept ==
    \A n \in users :
        \/ n \in passwords
        \/ LinksOf(n) # {}
        \/ n \in unlinked \cup raced["link"]
        \/ Swept(n)

\* With on_conflict set or replace no account comes to two links, unless it
\* adds one by hand or two requests link it at once.
OneLinkPerAccount ==
    config.upstream \in {"set", "replace"} =>
        \A n \in users : Cardinality(LinksOf(n)) > 1 => n \in linked \cup raced["account"]

\* A new account has an address only if that registration proved it, whatever
\* changes of the address and verifications were under way.
AddressWasProved ==
    \A r \in Registrations : registration[r].state = "completed" =>
        \A a \in Addresses :
            LET n == registration[r].name IN
            <<n, a>> \in emails \ contacts =>
                \E k \in Auths : auth[r][k] = [address |-> a, completed |-> TRUE]

\* Two accounts have one address, for which find_by_email then finds neither,
\* only if one added it to an existing account or their finishes overlapped.
AddressSharedOnlyByRace ==
    \A a \in Addresses : \A m, n \in Holders(a) :
        \/ m = n
        \/ {<<m, a>>, <<n, a>>} \cap contacts # {}
        \/ {m, n} \subseteq raced["address"]
=============================================================================
