----------------------------- MODULE AuthSession -----------------------------
(***************************************************************************)
(* The refresh of one stored session by requests of several processes, its *)
(* logout and its expiry.  Session and refresh lock are keys in Redis, the *)
(* lock a lease with an owner; Keycloak rotates the refresh token at every *)
(* exchange.  A commit is fenced by the lease, by the session's existence  *)
(* and by its generation in one script.                                    *)
(***************************************************************************)
EXTENDS Naturals

CONSTANTS
    Requests,     \* calls of refreshStoredSession, each with its lock owner
    MaxRefreshes, \* bound on token exchanges
    NoSession,
    NoOwner

ASSUME AuthAssumption ==
    /\ MaxRefreshes \in Nat
    /\ NoOwner \notin Requests

VARIABLES
    created,    \* createSession has stored the session
    stored,     \* the session in Redis
    lock,       \* owner of the refresh lock
    request,    \* progress of each request
    keycloak,   \* the refresh token that is valid, and whether its session lives
    logout,     \* the logout request
    reused,     \* a refresh token was presented after its rotation (history)
    disturbed   \* a rotated token was lost, or a lease lapsed in use (history)

history == <<reused, disturbed>>
vars == <<created, stored, lock, request, keycloak, logout, history>>

-----------------------------------------------------------------------------

Tokens == 0..MaxRefreshes

\* fresh: the access token is not near its expiry.  The access token itself is
\* as old as the generation.
Sessions == [generation : Nat, token : Tokens, fresh : BOOLEAN]

ASSUME NoSessionAssumption == NoSession \notin Sessions

SessionOrNone == Sessions \cup {NoSession}

RequestStates ==
    [pc : {"idle", "acquiring", "waiting", "rereading", "renewing", "reading",
           "exchanging", "issued", "releasing", "served", "refused", "dead"},
     attempt : 1..2,          \* refreshStoredSession, ...AfterLockTimeout
     observed : SessionOrNone,\* what the request read before the lock
     current : SessionOrNone, \* what it read under the lock
     token : Tokens,          \* the refresh token Keycloak issued to it
     lockLost : BOOLEAN,
     outcome : {"served", "refused"}]

TypeOK ==
    /\ created \in BOOLEAN
    /\ stored \in SessionOrNone
    /\ lock \in Requests \cup {NoOwner}
    /\ request \in [Requests -> RequestStates]
    /\ keycloak \in [token : Tokens, alive : BOOLEAN]
    /\ logout \in [pc : {"idle", "read", "cleared", "done"}, token : Tokens \cup {NoSession}]
    /\ {reused, disturbed} \subseteq BOOLEAN

Init ==
    /\ created = FALSE
    /\ stored = NoSession
    /\ lock = NoOwner
    /\ request = [r \in Requests |->
                    [pc |-> "idle", attempt |-> 1, observed |-> NoSession,
                     current |-> NoSession, token |-> 0, lockLost |-> FALSE,
                     outcome |-> "refused"]]
    /\ keycloak = [token |-> 0, alive |-> TRUE]
    /\ logout = [pc |-> "idle", token |-> NoSession]
    /\ reused = FALSE
    /\ disturbed = FALSE

\* The request reaches pc; nothing else changes.
Goes(r, pc) ==
    /\ request' = [request EXCEPT ![r].pc = pc]
    /\ UNCHANGED <<created, stored, lock, keycloak, logout, history>>

\* The finally clauses still release the lock.
Ends(r, outcome) ==
    /\ request' = [request EXCEPT ![r].pc = "releasing", ![r].outcome = outcome]
    /\ UNCHANGED <<created, stored, lock, logout, reused>>

-----------------------------------------------------------------------------
(* Session *)

CreateSession ==
    /\ ~created
    /\ created' = TRUE
    /\ stored' = [generation |-> 0, token |-> 0, fresh |-> TRUE]
    /\ UNCHANGED <<lock, request, keycloak, logout, history>>

AccessTokenAges ==
    /\ stored # NoSession
    /\ stored' = [stored EXCEPT !.fresh = FALSE]
    /\ UNCHANGED <<created, lock, request, keycloak, logout, history>>

\* The key's TTL and the deadlines get() checks name the same instant.
SessionExpires ==
    /\ stored # NoSession
    /\ stored' = NoSession
    /\ UNCHANGED <<created, lock, request, keycloak, logout, history>>

\* logout reads the refresh token, deletes the session and ends the session at
\* Keycloak; each part is best effort and the next one runs in any case.
LogoutReads ==
    /\ created
    /\ logout.pc = "idle"
    /\ \E token \in {NoSession} \cup IF stored = NoSession THEN {} ELSE {stored.token} :
          logout' = [pc |-> "read", token |-> token]
    /\ UNCHANGED <<created, stored, lock, request, keycloak, history>>

LogoutClears ==
    /\ logout.pc = "read"
    /\ stored' \in {NoSession, stored}
    /\ logout' = [logout EXCEPT !.pc = "cleared"]
    /\ UNCHANGED <<created, lock, request, keycloak, history>>

\* Keycloak may be out of reach, or refuse a token that was rotated meanwhile.
LogoutAtKeycloak ==
    /\ logout.pc = "cleared"
    /\ keycloak' \in
          {keycloak} \cup IF logout.token = NoSession THEN {}
                         ELSE {[keycloak EXCEPT !.alive = FALSE]}
    /\ logout' = [logout EXCEPT !.pc = "done"]
    /\ UNCHANGED <<created, stored, lock, request, history>>

-----------------------------------------------------------------------------
(* Refresh *)

\* authenticateSession with a token near its expiry or refused by Keycloak, or
\* refreshSession, which refreshes a fresh one too.
Observe(r) ==
    /\ request[r].pc = "idle"
    /\ created
    /\ IF stored = NoSession
       THEN Goes(r, "refused")
       ELSE /\ request' = [request EXCEPT ![r].pc = "acquiring", ![r].observed = stored]
            /\ UNCHANGED <<created, stored, lock, keycloak, logout, history>>

AcquireRefreshLock(r) ==
    /\ request[r].pc = "acquiring"
    /\ IF lock = NoOwner
       THEN /\ lock' = r
            /\ request' = [request EXCEPT ![r].pc = "renewing"]
            /\ UNCHANGED <<created, stored, keycloak, logout, history>>
       ELSE Goes(r, "waiting")

\* waitForRefreshLockRelease returns when the lock is gone or after 15 s.
WaitForRefreshLockRelease(r) ==
    /\ request[r].pc = "waiting"
    /\ Goes(r, "rereading")

Reread(r) ==
    /\ request[r].pc = "rereading"
    /\ \/ stored = NoSession /\ Goes(r, "refused")
       \/ stored # NoSession /\ stored.fresh /\ Goes(r, "served")
       \/ /\ stored # NoSession /\ ~stored.fresh
          /\ request[r].attempt = 2
          /\ Goes(r, "refused")
       \/ /\ stored # NoSession /\ ~stored.fresh
          /\ request[r].attempt = 1
          /\ request' = [request EXCEPT ![r].pc = "acquiring", ![r].attempt = 2,
                                        ![r].observed = stored]
          /\ UNCHANGED <<created, stored, lock, keycloak, logout, history>>

\* The first renewal, before anything is read.  A Redis error counts as a lost lock.
RenewFirst(r) ==
    /\ request[r].pc = "renewing"
    /\ \/ lock = r /\ Goes(r, "reading")
       \/ Ends(r, "refused") /\ UNCHANGED <<keycloak, disturbed>>

\* The timer's renewals, of which those that keep the lease change nothing.  A
\* Redis error counts as a lost lock.
Renew(r) ==
    /\ request[r].pc \in {"reading", "exchanging", "issued"}
    /\ ~request[r].lockLost
    /\ request' = [request EXCEPT ![r].lockLost = TRUE]
    /\ UNCHANGED <<created, stored, lock, keycloak, logout, history>>

SessionChanged(r) ==
    \/ stored.generation # request[r].observed.generation
    \/ stored.token # request[r].observed.token

\* The winner of the lock trusts what it read before it waited.
ReadObserved(r) ==
    /\ request[r].pc = "reading"
    /\ request' = [request EXCEPT ![r].pc = "exchanging",
                                  ![r].current = request[r].observed]
    /\ UNCHANGED <<created, stored, lock, keycloak, logout, history>>

\* The authoritative reread under the lock.
ReadUnderLock(r) ==
    /\ request[r].pc = "reading"
    /\ IF stored = NoSession
       THEN Ends(r, "refused") /\ UNCHANGED <<keycloak, disturbed>>
       ELSE IF SessionChanged(r) /\ stored.fresh
       THEN Ends(r, "served") /\ UNCHANGED <<keycloak, disturbed>>
       ELSE /\ request' = [request EXCEPT ![r].pc = "exchanging", ![r].current = stored]
            /\ UNCHANGED <<created, stored, lock, keycloak, logout, history>>

\* Keycloak rotates the token, and the answer may be lost; it refuses a token that
\* is not the last one, and may take that for a theft and end the session.
Exchange(r) ==
    LET t == request[r].current.token IN
    /\ request[r].pc = "exchanging"
    /\ keycloak.token < MaxRefreshes
    /\ reused' = (reused \/ t # keycloak.token)
    /\ IF keycloak.alive /\ t = keycloak.token
       THEN /\ keycloak' = [keycloak EXCEPT !.token = @ + 1]
            /\ \/ /\ request' = [request EXCEPT ![r].pc = "issued", ![r].token = t + 1]
                  /\ UNCHANGED disturbed
               \/ /\ request' = [request EXCEPT ![r].pc = "releasing"]
                  /\ disturbed' = TRUE
       ELSE /\ keycloak' \in {keycloak, [keycloak EXCEPT !.alive = FALSE]}
            /\ request' = [request EXCEPT ![r].pc = "releasing"]
            /\ UNCHANGED disturbed
    /\ UNCHANGED <<created, stored, lock, logout>>

\* Redis or Keycloak cannot be reached.
CallFails(r) ==
    /\ request[r].pc \in {"reading", "exchanging"}
    /\ Ends(r, "refused")
    /\ UNCHANGED <<keycloak, disturbed>>

\* A lost lock, a token that does not verify or a subject that was revoked.
Abandon(r) ==
    /\ request[r].pc = "issued"
    /\ Ends(r, "refused")
    /\ disturbed' = TRUE
    /\ UNCHANGED keycloak

CommitIfLeased(r) == lock = r

\* The script of commitRefreshedSession.
CommitAllowed(r) ==
    /\ lock = r
    /\ stored # NoSession
    /\ stored.generation = request[r].current.generation

CommitRefreshedSession(r) ==
    /\ request[r].pc = "issued"
    /\ ~request[r].lockLost
    /\ IF CommitAllowed(r)
       THEN /\ stored' = [generation |-> request[r].current.generation + 1,
                          token |-> request[r].token, fresh |-> TRUE]
            /\ \E outcome \in {"served", "refused"} :
                  request' = [request EXCEPT ![r].pc = "releasing",
                                             ![r].outcome = outcome]
       ELSE /\ request' = [request EXCEPT ![r].pc = "releasing"]
            /\ UNCHANGED stored
    /\ UNCHANGED <<created, lock, keycloak, logout, history>>

\* Only the owner deletes the lock.
ReleaseRefreshLock(r) ==
    /\ request[r].pc = "releasing"
    /\ lock' = IF lock = r THEN NoOwner ELSE lock
    /\ request' = [request EXCEPT ![r].pc = request[r].outcome]
    /\ UNCHANGED <<created, stored, keycloak, logout, history>>

Refreshing(r) == request[r].pc \in {"reading", "exchanging", "issued"}

Ended == {"served", "refused", "dead"}

\* The process dies, or Redis fails where even the lock cannot be released.
RequestDies(r) ==
    /\ request[r].pc \notin {"idle"} \cup Ended
    /\ request' = [request EXCEPT ![r].pc = "dead"]
    /\ disturbed' = (disturbed \/ request[r].pc = "issued")
    /\ UNCHANGED <<created, stored, lock, keycloak, logout, reused>>

\* The lease runs out when its owner is gone, or late with its renewals.
LeaseLapses ==
    /\ lock # NoOwner
    /\ lock' = NoOwner
    /\ disturbed' = (disturbed \/ Refreshing(lock))
    /\ UNCHANGED <<created, stored, request, keycloak, logout, reused>>

-----------------------------------------------------------------------------

RequestStep(r) ==
    \/ AcquireRefreshLock(r) \/ WaitForRefreshLockRelease(r) \/ Reread(r)
    \/ RenewFirst(r) \/ ReadUnderLock(r) \/ Exchange(r) \/ CallFails(r)
    \/ Abandon(r) \/ CommitRefreshedSession(r) \/ ReleaseRefreshLock(r)

Logout == LogoutReads \/ LogoutClears \/ LogoutAtKeycloak

Next ==
    \/ CreateSession \/ AccessTokenAges \/ SessionExpires
    \/ Logout
    \/ \E r \in Requests : Observe(r)
    \/ \E r \in Requests : RequestStep(r)
    \/ \E r \in Requests : Renew(r)
    \/ \E r \in Requests : RequestDies(r)
    \/ LeaseLapses

Spec == Init /\ [][Next]_vars

-----------------------------------------------------------------------------
(* Properties *)

Register ==
    INSTANCE SessionRegister WITH
        phase <- IF ~created THEN "new"
                 ELSE IF stored = NoSession THEN "ended" ELSE "live",
        generation <- IF stored = NoSession THEN 0 ELSE stored.generation

\* commitRefreshedSession: a refresh that was in flight restores no session after
\* its logout or expiry, and never overwrites a newer generation, whatever leases
\* lapse and whoever releases the lock.
SessionIsRegister == Register!Spec

\* refreshStoredSessionWithLock: as long as leases are renewed in time and no token
\* Keycloak issued is lost on its way into Redis, requests refresh one at a time and
\* present no refresh token again after its rotation.
RefreshesAreSerial ==
    ~disturbed =>
        /\ ~reused
        /\ \A r, s \in Requests : Refreshing(r) /\ Refreshing(s) => r = s
=============================================================================
