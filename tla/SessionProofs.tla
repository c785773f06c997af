--------------------------- MODULE SessionProofs ----------------------------
(***************************************************************************)
(* Proofs about the sessions of the server, AuthSession, for every set of  *)
(* requests: what a commit does to the stored session, and that undisturbed *)
(* refreshes are serial; and about the sign-in of the pages, SignIn, for   *)
(* every set of pages and every bound on logins and faults: a code is      *)
(* presented to Keycloak once, a page ends its silent checks, and one that *)
(* signed out stays out.                                                   *)
(***************************************************************************)
EXTENDS AuthSession, SignIn, SequenceTheorems, TLAPS

-----------------------------------------------------------------------------
(* The sessions of the server.                                             *)

USE AuthAssumption, NoSessionAssumption DEF AuthAssumption, NoSessionAssumption

\* A session exists, and requests are under way, only after createSession.
CreatedFirst ==
    ~created =>
        /\ stored = NoSession
        /\ keycloak.token = 0
        /\ \A r \in Requests : request[r].pc = "idle"

\* A refresh works on a session it has read; it holds the lease, and the stored
\* session is still the one it read.
RefreshCurrent(r) ==
    /\ Refreshing(r) => lock = r
    /\ request[r].pc = "exchanging" => request[r].current.token = keycloak.token
    /\ request[r].pc = "issued" => request[r].token = keycloak.token
    /\ request[r].pc \in {"exchanging", "issued"} /\ stored # NoSession =>
          stored.generation = request[r].current.generation

\* Between refreshes the stored token is the one Keycloak accepts.
StoredTokenCurrent ==
    stored # NoSession /\ (\A r \in Requests : request[r].pc # "issued") =>
        stored.token = keycloak.token

Undisturbed ==
    ~disturbed =>
        /\ ~reused
        /\ StoredTokenCurrent
        /\ \A r \in Requests : RefreshCurrent(r)

ReadSessions ==
    \A r \in Requests :
        /\ request[r].pc = "acquiring" => request[r].observed # NoSession
        /\ request[r].pc \in {"exchanging", "issued"} => request[r].current # NoSession

IInv == TypeOK /\ CreatedFirst /\ ReadSessions /\ Undisturbed

-----------------------------------------------------------------------------
(* Types *)

USE DEF Tokens, history

\* Updating a field of a request's state.
LEMMA FieldTypes ==
  ASSUME NEW q \in RequestStates
  PROVE  /\ [q EXCEPT !.lockLost = TRUE] \in RequestStates
         /\ \A outcome \in {"served", "refused"} :
               [q EXCEPT !.pc = "releasing", !.outcome = outcome] \in RequestStates
         /\ \A observed \in SessionOrNone :
               [q EXCEPT !.pc = "acquiring", !.observed = observed] \in RequestStates
         /\ \A token \in Tokens :
               [q EXCEPT !.pc = "issued", !.token = token] \in RequestStates
BY DEF RequestStates

\* A request that gives up keeps its types.
LEMMA EndsTypes ==
  ASSUME TypeOK, NEW r \in Requests, NEW outcome \in {"served", "refused"},
         request' = [request EXCEPT ![r].pc = "releasing", ![r].outcome = outcome]
  PROVE  request' \in [Requests -> RequestStates]
<1> DEFINE q == [request[r] EXCEPT !.pc = "releasing", !.outcome = outcome]
<1>1. request[r] \in RequestStates
  BY DEF TypeOK
<1>2. q \in RequestStates
  BY <1>1, FieldTypes
<1> HIDE DEF q
<1> QED
  BY <1>2 DEF TypeOK, q

LEMMA InitTypes == Init => TypeOK
<1> SUFFICES ASSUME Init PROVE TypeOK
  OBVIOUS
<1>1. request \in [Requests -> RequestStates]
  BY DEF Init, RequestStates, SessionOrNone
<1>2. keycloak \in [token : Tokens, alive : BOOLEAN]
  BY DEF Init
<1> QED
  BY <1>1, <1>2 DEF Init, TypeOK, SessionOrNone

\* The steps of the session and of its logout.
LEMMA SessionTypes ==
  ASSUME TypeOK,
         CreateSession \/ AccessTokenAges \/ SessionExpires \/ Logout \/ LeaseLapses
  PROVE  TypeOK'
<1>1. CASE CreateSession
  BY <1>1 DEF TypeOK, SessionOrNone, Sessions, CreateSession
<1>2. CASE AccessTokenAges
  BY <1>2 DEF TypeOK, SessionOrNone, Sessions, AccessTokenAges
<1>3. CASE SessionExpires
  BY <1>3 DEF TypeOK, SessionOrNone, Sessions, SessionExpires
<1>4. CASE LogoutReads
  <2>1. PICK token \in {NoSession} \cup IF stored = NoSession THEN {} ELSE {stored.token} :
           logout' = [pc |-> "read", token |-> token]
    BY <1>4 DEF LogoutReads
  <2>2. token \in Tokens \cup {NoSession}
    BY <2>1 DEF TypeOK, SessionOrNone, Sessions
  <2> QED
    BY <1>4, <2>1, <2>2 DEF TypeOK, LogoutReads
<1>5. CASE LogoutClears
  BY <1>5 DEF TypeOK, SessionOrNone, Sessions, LogoutClears
<1>6. CASE LogoutAtKeycloak
  BY <1>6 DEF TypeOK, LogoutAtKeycloak
<1>7. CASE LeaseLapses
  BY <1>7 DEF TypeOK, LeaseLapses
<1> QED
  BY <1>1, <1>2, <1>3, <1>4, <1>5, <1>6, <1>7 DEF Logout

\* The steps of a request.
LEMMA RequestTypes ==
  ASSUME TypeOK, NEW r \in Requests,
         Observe(r) \/ RequestStep(r) \/ Renew(r) \/ RequestDies(r)
  PROVE  TypeOK'
<1> USE DEF TypeOK
<1>1. CASE Observe(r)
  <2>1. CASE stored = NoSession
    BY <1>1, <2>1 DEF Observe, Goes, RequestStates
  <2>2. CASE stored # NoSession
    <3> DEFINE q == [request[r] EXCEPT !.pc = "acquiring", !.observed = stored]
    <3>1. q \in RequestStates
      BY FieldTypes
    <3>2. request' = [request EXCEPT ![r].pc = "acquiring", ![r].observed = stored]
      BY <1>1, <2>2 DEF Observe
    <3> HIDE DEF q
    <3>3. request' \in [Requests -> RequestStates]
      BY <3>1, <3>2 DEF q
    <3> QED
      BY <1>1, <2>2, <3>3 DEF Observe
  <2> QED
    BY <2>1, <2>2
<1>2. CASE AcquireRefreshLock(r)
  BY <1>2 DEF AcquireRefreshLock, Goes, RequestStates
<1>3. CASE WaitForRefreshLockRelease(r)
  BY <1>3 DEF WaitForRefreshLockRelease, Goes, RequestStates
<1>4. CASE Reread(r)
  BY <1>4 DEF Reread, Goes, RequestStates
<1>5. CASE RenewFirst(r)
  <2>1. CASE Goes(r, "reading")
    BY <1>5, <2>1 DEF RenewFirst, Goes, RequestStates
  <2>2. CASE Ends(r, "refused") /\ UNCHANGED <<keycloak, disturbed>>
    BY <2>2, EndsTypes DEF Ends
  <2> QED
    BY <1>5, <2>1, <2>2 DEF RenewFirst
<1>6. CASE ReadUnderLock(r)
  <2>1. CASE UNCHANGED <<created, stored, lock, keycloak, logout, history>>
    BY <1>6, <2>1 DEF ReadUnderLock, Ends, RequestStates
  <2>2. ASSUME NEW outcome \in {"served", "refused"}, Ends(r, outcome),
               UNCHANGED <<keycloak, disturbed>>
        PROVE  TypeOK'
    BY <2>2, EndsTypes DEF Ends
  <2> QED
    BY <1>6, <2>1, <2>2 DEF ReadUnderLock
<1>7. CASE Exchange(r)
  <2>1. CASE keycloak.alive /\ request[r].current.token = keycloak.token
    <3> DEFINE t == request[r].current.token
    <3>1. t + 1 \in Tokens /\ keycloak' \in [token : Tokens, alive : BOOLEAN]
      BY <1>7, <2>1 DEF Exchange
    <3> DEFINE q == [request[r] EXCEPT !.pc = "issued", !.token = t + 1]
    <3>2. q \in RequestStates
      BY <3>1, FieldTypes
    <3> HIDE DEF q
    <3>3. CASE request' = [request EXCEPT ![r].pc = "issued", ![r].token = t + 1]
      <4>1. request' \in [Requests -> RequestStates]
        BY <3>2, <3>3 DEF q
      <4> QED
        BY <1>7, <2>1, <3>1, <4>1 DEF Exchange
    <3>4. CASE request' = [request EXCEPT ![r].pc = "releasing"]
      <4>1. request' \in [Requests -> RequestStates]
        BY <3>4 DEF RequestStates
      <4> QED
        BY <1>7, <2>1, <3>1, <4>1 DEF Exchange
    <3> QED
      BY <1>7, <2>1, <3>3, <3>4 DEF Exchange
  <2>2. CASE ~(keycloak.alive /\ request[r].current.token = keycloak.token)
    <3>1. keycloak' \in [token : Tokens, alive : BOOLEAN]
      BY <1>7, <2>2 DEF Exchange
    <3>2. request' \in [Requests -> RequestStates]
      BY <1>7, <2>2 DEF Exchange, RequestStates
    <3> QED
      BY <1>7, <2>2, <3>1, <3>2 DEF Exchange
  <2> QED
    BY <2>1, <2>2
<1>8. CASE CallFails(r)
  BY <1>8, EndsTypes DEF CallFails, Ends
<1>9. CASE Abandon(r)
  BY <1>9, EndsTypes DEF Abandon, Ends
<1>10. CASE CommitRefreshedSession(r)
  <2>1. CASE CommitAllowed(r)
    <3>1. /\ request[r].current.generation \in Nat
          /\ request[r].token \in Tokens
      BY <2>1 DEF CommitAllowed, SessionOrNone, Sessions, RequestStates
    <3>2. stored' = [generation |-> request[r].current.generation + 1,
                     token |-> request[r].token, fresh |-> TRUE]
      BY <1>10, <2>1 DEF CommitRefreshedSession
    <3>5. request[r].current.generation + 1 \in Nat
      BY <3>1
    <3>6. stored' \in Sessions
      <4> HIDE DEF TypeOK, Tokens
      <4> QED
        BY <3>1, <3>2, <3>5 DEF Sessions
    <3>3. request' \in [Requests -> RequestStates]
      BY <1>10, <2>1, EndsTypes DEF CommitRefreshedSession
    <3> QED
      BY <1>10, <3>6, <3>3 DEF CommitRefreshedSession, SessionOrNone
  <2>2. CASE ~CommitAllowed(r)
    BY <1>10, <2>2 DEF CommitRefreshedSession, RequestStates
  <2> QED
    BY <2>1, <2>2
<1>11. CASE ReleaseRefreshLock(r)
  <2> DEFINE q == [request[r] EXCEPT !.pc = request[r].outcome]
  <2>1. request[r] \in RequestStates
    BY DEF TypeOK
  <2>2. q \in RequestStates
    BY <2>1 DEF RequestStates
  <2>3. request' = [request EXCEPT ![r] = q]
    BY <1>11 DEF ReleaseRefreshLock
  <2> HIDE DEF q
  <2>4. request' \in [Requests -> RequestStates]
    BY <2>2, <2>3
  <2> QED
    BY <1>11, <2>4 DEF ReleaseRefreshLock
<1>12. CASE Renew(r)
  <2> DEFINE q == [request[r] EXCEPT !.lockLost = TRUE]
  <2>1. q \in RequestStates
    BY FieldTypes
  <2> HIDE DEF q
  <2>2. request' \in [Requests -> RequestStates]
    BY <1>12, <2>1 DEF Renew, q
  <2> QED
    BY <1>12, <2>2 DEF Renew
<1>13. CASE RequestDies(r)
  BY <1>13 DEF RequestDies, RequestStates
<1> QED
  BY <1>1, <1>2, <1>3, <1>4, <1>5, <1>6, <1>7, <1>8, <1>9, <1>10, <1>11, <1>12, <1>13
  DEF RequestStep

LEMMA StepTypes == TypeOK /\ [Next]_vars => TypeOK'
<1>1. CASE UNCHANGED vars
  BY <1>1 DEF vars, TypeOK
<1> QED
  BY <1>1, SessionTypes, RequestTypes DEF Next

-----------------------------------------------------------------------------
(* The invariant *)

LEMMA InitIInv == Init => IInv
<1> SUFFICES ASSUME Init PROVE IInv
  OBVIOUS
<1>1. \A r \in Requests : request[r].pc = "idle"
  BY DEF Init
<1> QED
  BY <1>1, InitTypes
  DEF Init, IInv, CreatedFirst, ReadSessions, Undisturbed, StoredTokenCurrent, RefreshCurrent, Refreshing

\* The steps of the session and of its logout disturb no refresh, except a lease
\* that lapses under one.
LEMMA SessionIInv ==
  ASSUME IInv,
         CreateSession \/ AccessTokenAges \/ SessionExpires \/ Logout \/ LeaseLapses
  PROVE  IInv'
<1>0. TypeOK'
  BY SessionTypes DEF IInv
<1> USE DEF IInv, ReadSessions, CreatedFirst, Undisturbed, StoredTokenCurrent, RefreshCurrent, Refreshing
<1>1. CASE CreateSession
  BY <1>0, <1>1 DEF CreateSession, TypeOK, SessionOrNone, Sessions
<1>2. CASE AccessTokenAges
  BY <1>0, <1>2 DEF AccessTokenAges, TypeOK, SessionOrNone, Sessions
<1>3. CASE SessionExpires
  BY <1>0, <1>3 DEF SessionExpires, TypeOK, SessionOrNone, Sessions
<1>4. CASE LogoutReads
  BY <1>0, <1>4 DEF LogoutReads, TypeOK, SessionOrNone, Sessions
<1>5. CASE LogoutClears
  BY <1>0, <1>5 DEF LogoutClears, TypeOK, SessionOrNone, Sessions
<1>6. CASE LogoutAtKeycloak
  BY <1>0, <1>6 DEF LogoutAtKeycloak, TypeOK, SessionOrNone, Sessions
<1>7. CASE LeaseLapses
  BY <1>0, <1>7 DEF LeaseLapses, TypeOK, SessionOrNone, Sessions
<1> QED
  BY <1>1, <1>2, <1>3, <1>4, <1>5, <1>6, <1>7 DEF Logout

\* Nor do the steps of a request disturb another one.
LEMMA RequestIInv ==
  ASSUME IInv, NEW r \in Requests,
         Observe(r) \/ RequestStep(r) \/ Renew(r) \/ RequestDies(r)
  PROVE  IInv'
<1>0. TypeOK'
  BY RequestTypes DEF IInv
<1> USE DEF IInv
<1>100. request \in [Requests -> RequestStates]
  BY DEF TypeOK
<1>1. CASE Observe(r)
  <2>1. CreatedFirst'
    BY <1>1, <1>100 DEF CreatedFirst, Observe, Goes
  <2>2. ReadSessions'
    <3>1. CASE stored = NoSession
      BY <1>1, <1>100, <3>1 DEF ReadSessions, RequestStates, Observe, Goes
    <3>2. CASE stored # NoSession
      <4>1. request'[r].pc = "acquiring" /\ request'[r].observed = stored
        BY <1>1, <1>100, <3>2 DEF RequestStates, Observe
      <4>2. \A q \in Requests \ {r} : request'[q] = request[q]
        BY <1>1, <1>100, <3>2 DEF Observe
      <4> QED
        BY <3>2, <4>1, <4>2 DEF ReadSessions
    <3> QED
      BY <3>1, <3>2
  <2>3. Undisturbed'
    <3>1. /\ request[r].pc = "idle" /\ request'[r].pc \in {"refused", "acquiring"}
          /\ \A q \in Requests \ {r} : request'[q] = request[q]
          /\ UNCHANGED <<stored, lock, keycloak, history>>
      <4>1. CASE stored = NoSession
        BY <1>1, <4>1, <1>100 DEF Observe, Goes, RequestStates
      <4>2. CASE stored # NoSession
        BY <1>1, <4>2, <1>100 DEF Observe, RequestStates
      <4> QED
        BY <4>1, <4>2
    <3> QED
      BY <3>1 DEF Undisturbed, StoredTokenCurrent, RefreshCurrent, Refreshing
  <2> QED
    BY <1>0, <2>1, <2>2, <2>3
<1>2. CASE AcquireRefreshLock(r)
  <2>1. CreatedFirst'
    BY <1>2, <1>100 DEF CreatedFirst, AcquireRefreshLock, Goes
  <2>2. ReadSessions'
    BY <1>2, <1>100 DEF ReadSessions, RequestStates, AcquireRefreshLock, Goes
  <2>3. Undisturbed'
    BY <1>2, <1>100 DEF Undisturbed, CreatedFirst, ReadSessions, StoredTokenCurrent, RefreshCurrent, Refreshing, RequestStates, AcquireRefreshLock, Goes
  <2> QED
    BY <1>0, <2>1, <2>2, <2>3
<1>3. CASE WaitForRefreshLockRelease(r)
  <2>1. CreatedFirst'
    BY <1>3, <1>100 DEF CreatedFirst, WaitForRefreshLockRelease, Goes
  <2>2. ReadSessions'
    BY <1>3, <1>100 DEF ReadSessions, RequestStates, WaitForRefreshLockRelease, Goes
  <2>3. Undisturbed'
    BY <1>3, <1>100 DEF Undisturbed, CreatedFirst, ReadSessions, StoredTokenCurrent, RefreshCurrent, Refreshing, RequestStates, WaitForRefreshLockRelease, Goes
  <2> QED
    BY <1>0, <2>1, <2>2, <2>3
<1>4. CASE Reread(r)
  <2>1. CreatedFirst'
    BY <1>4, <1>100 DEF CreatedFirst, Reread, Goes
  <2>2. ReadSessions'
    BY <1>4, <1>100 DEF ReadSessions, RequestStates, Reread, Goes
  <2>3. Undisturbed'
    BY <1>4, <1>100 DEF Undisturbed, CreatedFirst, ReadSessions, StoredTokenCurrent, RefreshCurrent, Refreshing, RequestStates, Reread, Goes
  <2> QED
    BY <1>0, <2>1, <2>2, <2>3
<1>5. CASE RenewFirst(r)
  <2>1. CreatedFirst'
    BY <1>5, <1>100 DEF CreatedFirst, RenewFirst, Goes, Ends
  <2>2. ReadSessions'
    BY <1>5, <1>100 DEF ReadSessions, RequestStates, RenewFirst, Goes, Ends
  <2>3. Undisturbed'
    BY <1>5, <1>100 DEF Undisturbed, CreatedFirst, ReadSessions, StoredTokenCurrent, RefreshCurrent, Refreshing, RequestStates, RenewFirst, Goes, Ends
  <2> QED
    BY <1>0, <2>1, <2>2, <2>3
<1>6. CASE ReadUnderLock(r)
  <2>1. CreatedFirst'
    BY <1>6, <1>100 DEF CreatedFirst, ReadUnderLock, Ends
  <2>2. ReadSessions'
    BY <1>6, <1>100 DEF ReadSessions, RequestStates, ReadUnderLock, Ends
  <2>3. Undisturbed'
    BY <1>6, <1>100 DEF Undisturbed, CreatedFirst, ReadSessions, StoredTokenCurrent, RefreshCurrent, Refreshing, RequestStates, ReadUnderLock, Ends
  <2> QED
    BY <1>0, <2>1, <2>2, <2>3
<1>7. CASE Exchange(r)
  <2>1. CreatedFirst'
    BY <1>7, <1>100 DEF CreatedFirst, Exchange
  <2>2. ReadSessions'
    BY <1>7, <1>100 DEF ReadSessions, RequestStates, Exchange
  <2>3. Undisturbed'
    <3> SUFFICES ASSUME ~disturbed' PROVE Undisturbed'
      BY Zenon DEF Undisturbed
    <3> DEFINE t == request[r].current.token
    <3>1. ~disturbed /\ lock = r /\ t = keycloak.token
      BY <1>7, <1>100 DEF Exchange, Undisturbed, StoredTokenCurrent, RefreshCurrent, Refreshing
    <3>2. \A q \in Requests \ {r} : request'[q] = request[q] /\ ~Refreshing(q)
      BY <1>7, <1>100, <3>1 DEF Exchange, Undisturbed, StoredTokenCurrent, RefreshCurrent, Refreshing
    <3>3. ~reused' /\ UNCHANGED <<stored, lock>>
      BY <1>7, <3>1 DEF Exchange, Undisturbed
    <3>4. CASE keycloak.alive
      <4>1. request' = [request EXCEPT ![r].pc = "issued", ![r].token = t + 1]
        BY <1>7, <3>1, <3>4 DEF Exchange
      <4>2. /\ request'[r].pc = "issued"
            /\ request'[r].token = t + 1
            /\ request'[r].current = request[r].current
        BY <4>1, <1>100 DEF RequestStates
      <4>3. keycloak'.token = t + 1
        BY <1>7, <3>1, <3>4 DEF Exchange, TypeOK
      <4>4. request[r].pc = "exchanging"
        BY <1>7 DEF Exchange
      <4> HIDE DEF t
      <4> QED
        BY <3>1, <3>2, <3>3, <4>2, <4>3, <4>4 DEF Undisturbed, StoredTokenCurrent, RefreshCurrent, Refreshing
    <3>5. CASE ~keycloak.alive
      <4>1. request'[r].pc = "releasing"
        BY <1>7, <1>100, <3>5 DEF Exchange, RequestStates
      <4>2. keycloak'.token = keycloak.token
        BY <1>7, <3>5 DEF Exchange, TypeOK
      <4>3. request[r].pc = "exchanging"
        BY <1>7 DEF Exchange
      <4> QED
        BY <3>1, <3>2, <3>3, <4>1, <4>2, <4>3 DEF Undisturbed, StoredTokenCurrent, RefreshCurrent, Refreshing
    <3> QED
      BY <3>4, <3>5
  <2> QED
    BY <1>0, <2>1, <2>2, <2>3
<1>8. CASE CallFails(r)
  <2>1. CreatedFirst'
    BY <1>8, <1>100 DEF CreatedFirst, CallFails, Ends
  <2>2. ReadSessions'
    BY <1>8, <1>100 DEF ReadSessions, RequestStates, CallFails, Ends
  <2>3. Undisturbed'
    BY <1>8, <1>100 DEF Undisturbed, CreatedFirst, ReadSessions, StoredTokenCurrent, RefreshCurrent, Refreshing, RequestStates, CallFails, Ends
  <2> QED
    BY <1>0, <2>1, <2>2, <2>3
<1>9. CASE Abandon(r)
  <2>1. CreatedFirst'
    BY <1>9, <1>100 DEF CreatedFirst, Abandon, Ends
  <2>2. ReadSessions'
    BY <1>9, <1>100 DEF ReadSessions, RequestStates, Abandon, Ends
  <2>3. Undisturbed'
    BY <1>9, <1>100 DEF Undisturbed, CreatedFirst, ReadSessions, StoredTokenCurrent, RefreshCurrent, Refreshing, RequestStates, Abandon, Ends
  <2> QED
    BY <1>0, <2>1, <2>2, <2>3
<1>10. CASE CommitRefreshedSession(r)
  <2>1. CreatedFirst'
    BY <1>10, <1>100 DEF CreatedFirst, CommitRefreshedSession, CommitAllowed
  <2>2. ReadSessions'
    BY <1>10, <1>100 DEF ReadSessions, RequestStates, CommitRefreshedSession, CommitAllowed
  <2>3. Undisturbed'
    BY <1>10, <1>100 DEF Undisturbed, CreatedFirst, ReadSessions, StoredTokenCurrent, RefreshCurrent, Refreshing, RequestStates, CommitRefreshedSession, CommitAllowed
  <2> QED
    BY <1>0, <2>1, <2>2, <2>3
<1>11. CASE ReleaseRefreshLock(r)
  <2>1. CreatedFirst'
    BY <1>11, <1>100 DEF CreatedFirst, ReleaseRefreshLock
  <2>2. ReadSessions'
    BY <1>11, <1>100 DEF ReadSessions, RequestStates, ReleaseRefreshLock
  <2>3. Undisturbed'
    BY <1>11, <1>100 DEF Undisturbed, CreatedFirst, ReadSessions, StoredTokenCurrent, RefreshCurrent, Refreshing, RequestStates, ReleaseRefreshLock
  <2> QED
    BY <1>0, <2>1, <2>2, <2>3
<1>12. CASE Renew(r)
  <2>1. CreatedFirst'
    BY <1>12, <1>100 DEF CreatedFirst, Renew
  <2>2. ReadSessions'
    BY <1>12, <1>100 DEF ReadSessions, RequestStates, Renew
  <2>3. Undisturbed'
    BY <1>12, <1>100 DEF Undisturbed, CreatedFirst, ReadSessions, StoredTokenCurrent, RefreshCurrent, Refreshing, RequestStates, Renew
  <2> QED
    BY <1>0, <2>1, <2>2, <2>3
<1>13. CASE RequestDies(r)
  <2>1. CreatedFirst'
    BY <1>13, <1>100 DEF CreatedFirst, RequestDies, Ended
  <2>2. ReadSessions'
    BY <1>13, <1>100 DEF ReadSessions, RequestStates, RequestDies, Ended
  <2>3. Undisturbed'
    BY <1>13, <1>100 DEF Undisturbed, CreatedFirst, ReadSessions, StoredTokenCurrent, RefreshCurrent, Refreshing, RequestStates, RequestDies, Ended
  <2> QED
    BY <1>0, <2>1, <2>2, <2>3
<1> QED
  BY <1>1, <1>2, <1>3, <1>4, <1>5, <1>6, <1>7, <1>8, <1>9, <1>10, <1>11, <1>12, <1>13
  DEF RequestStep

LEMMA StepIInv == IInv /\ [Next]_vars => IInv'
<1>1. ASSUME IInv, UNCHANGED vars
      PROVE  IInv'
  BY <1>1 DEF vars, IInv, TypeOK, CreatedFirst, ReadSessions, Undisturbed, StoredTokenCurrent, RefreshCurrent, Refreshing
<1> QED
  BY <1>1, SessionIInv, RequestIInv DEF Next

\* Every reachable state satisfies the invariant.
THEOREM SessionInvariant == Spec => []IInv
<1> QED
  BY InitIInv, StepIInv, PTL DEF Spec

\* TypeOK: the variables keep their types.
THEOREM SessionTypesHold == Spec => []TypeOK
<1>1. IInv => TypeOK
  BY DEF IInv
<1> QED
  BY <1>1, SessionInvariant, PTL

\* RefreshesAreSerial: at most one refresh at a time, and no rotated token is
\* presented again, while leases are renewed in time and no token is lost.
THEOREM UndisturbedRefreshesAreSerial == Spec => []RefreshesAreSerial
<1>1. IInv => RefreshesAreSerial
  BY DEF IInv, Undisturbed, RefreshCurrent, RefreshesAreSerial
<1> QED
  BY <1>1, SessionInvariant, PTL

-----------------------------------------------------------------------------
(* Refinement *)

\* What the register sees of the session.
Phase == IF ~created THEN "new" ELSE IF stored = NoSession THEN "ended" ELSE "live"
Generation == IF stored = NoSession THEN 0 ELSE stored.generation

\* A commit writes the next generation of the live session.
LEMMA CommitIsRefresh ==
  ASSUME IInv, NEW r \in Requests, CommitRefreshedSession(r)
  PROVE  [Register!Next]_<<Phase, Generation>>
<1>1. CASE CommitAllowed(r)
  <2>1. created /\ UNCHANGED created /\ stored # NoSession
    BY <1>1 DEF CommitAllowed, CommitRefreshedSession, IInv, CreatedFirst
  <2>2. stored'.generation = stored.generation + 1
    BY <1>1 DEF CommitAllowed, CommitRefreshedSession
  <2>3. stored' # NoSession
    <3>1. stored.generation + 1 \in Nat /\ request[r].token \in Tokens
      BY <2>1 DEF IInv, TypeOK, SessionOrNone, Sessions, RequestStates
    <3>2. stored' = [generation |-> stored.generation + 1,
                     token |-> request[r].token, fresh |-> TRUE]
      BY <1>1 DEF CommitAllowed, CommitRefreshedSession
    <3>3. stored' \in Sessions
      <4> HIDE DEF Tokens
      <4> QED
        BY <3>1, <3>2 DEF Sessions
    <3> QED
      BY <3>3
  <2> QED
    BY <2>1, <2>2, <2>3 DEF Register!Next, Register!Refresh, Phase, Generation
<1>2. CASE ~CommitAllowed(r)
  BY <1>2 DEF CommitRefreshedSession, Phase, Generation
<1> QED
  BY <1>1, <1>2

\* Every step of AuthSession is a step of the register or leaves it alone.
LEMMA StepIsRegisterStep ==
  ASSUME IInv, [Next]_vars
  PROVE  [Register!Next]_<<Phase, Generation>>
<1> USE DEF Phase, Generation, Register!Next
<1>1. CASE CreateSession
  <2>1. [generation |-> 0, token |-> 0, fresh |-> TRUE] \in Sessions
    BY DEF Sessions
  <2> QED
    BY <1>1, <2>1 DEF CreateSession, Register!Open, IInv, CreatedFirst
<1>2. CASE AccessTokenAges
  BY <1>2 DEF AccessTokenAges, IInv, TypeOK, SessionOrNone, Sessions
<1>3. CASE SessionExpires
  BY <1>3 DEF SessionExpires, Register!End, IInv, CreatedFirst
<1>4. CASE LogoutClears
  BY <1>4 DEF LogoutClears, Register!End, IInv, CreatedFirst
<1>5. ASSUME UNCHANGED <<created, stored>>
      PROVE  UNCHANGED <<Phase, Generation>>
  BY <1>5
<1>6. CASE LogoutReads \/ LogoutAtKeycloak \/ LeaseLapses \/ UNCHANGED vars
  BY <1>5, <1>6 DEF LogoutReads, LogoutAtKeycloak, LeaseLapses, vars
<1>7. ASSUME NEW r \in Requests, Observe(r) \/ RequestStep(r) \/ Renew(r) \/ RequestDies(r)
      PROVE  [Register!Next]_<<Phase, Generation>>
  <2>1. CASE CommitRefreshedSession(r)
    BY <2>1, CommitIsRefresh
  <2>2. CASE Observe(r) \/ Renew(r) \/ RequestDies(r) \/ AcquireRefreshLock(r)
             \/ WaitForRefreshLockRelease(r) \/ Reread(r) \/ RenewFirst(r)
    BY <1>5, <2>2 DEF Observe, Renew, RequestDies, AcquireRefreshLock,
       WaitForRefreshLockRelease, Reread, RenewFirst, Goes, Ends
  <2>3. CASE ReadUnderLock(r) \/ Exchange(r) \/ CallFails(r) \/ Abandon(r)
             \/ ReleaseRefreshLock(r)
    BY <1>5, <2>3 DEF ReadUnderLock, Exchange, CallFails, Abandon, ReleaseRefreshLock,
       Goes, Ends
  <2> QED
    BY <1>7, <2>1, <2>2, <2>3 DEF RequestStep
<1> QED
  BY <1>1, <1>2, <1>3, <1>4, <1>6, <1>7 DEF Next, Logout

\* SessionIsRegister: a session is opened once, moves one generation at a time and
\* never comes back, whatever leases lapse, tokens are lost and requests die.
THEOREM SessionImplementsRegister == Spec => SessionIsRegister
<1>1. Init => Register!Init
  BY DEF Init, Register!Init
<1>2. IInv /\ [Next]_vars =>
        [Register!Next]_<<IF ~created THEN "new"
                          ELSE IF stored = NoSession THEN "ended" ELSE "live",
                          IF stored = NoSession THEN 0 ELSE stored.generation>>
  BY StepIsRegisterStep DEF Phase, Generation
<1> QED
  BY <1>1, <1>2, SessionInvariant, PTL DEF Spec, SessionIsRegister, Register!Spec

-----------------------------------------------------------------------------
(* The sign-in of the pages.                                               *)

USE SignInAssumption DEF SignInAssumption

\* What becomes of a code is decided by the login, its state and its deliveries.
codeVars == <<login, callback, states, redeemed, stateCookie, sso>>

Types ==
    /\ login \in Seq(LoginStates) /\ Len(login) <= MaxLogins
    /\ callback \in [Logins -> Seq(Deliveries)]
    /\ states \subseteq Logins
    /\ redeemed \in [Logins -> Nat]
    /\ stateCookie \in LoginOrNone
    /\ sso \in BOOLEAN

Exchanging(n) == {d \in DOMAIN callback[n] : callback[n][d].pc = "exchanging"}

\* Whoever may still present a code is alone: the state that is not yet consumed, or
\* the one delivery that consumed it; afterwards the code has been presented.
OneRedeemer(n) ==
    /\ redeemed[n] <= 1
    /\ n \in states => redeemed[n] = 0 /\ Exchanging(n) = {}
    /\ Exchanging(n) # {} => redeemed[n] = 0
    /\ \A d, e \in Exchanging(n) : d = e

\* A login that has not begun has left no trace.
NoTrace(n) == n > Len(login) => redeemed[n] = 0 /\ callback[n] = <<>> /\ n \notin states

CodesInv == Types /\ \A n \in Logins : OneRedeemer(n) /\ NoTrace(n)

-----------------------------------------------------------------------------

\* Logins are numbered as they start.
LEMMA LoginRange == Types => DOMAIN login \subseteq Logins /\ DOMAIN login = 1..Len(login)
BY LenProperties DEF Types, Logins

\* One delivery of a callback moves, the others stand.
LEMMA DeliveryMoves ==
  ASSUME Types, NEW n \in Logins, NEW d \in DOMAIN callback[n],
         NEW pc \in {"exchanging", "refused", "failed", "guest", "session", "done"},
         Delivery(n, d, pc)
  PROVE  /\ callback' \in [Logins -> Seq(Deliveries)]
         /\ \A m \in Logins \ {n} : callback'[m] = callback[m]
         /\ DOMAIN callback'[n] = DOMAIN callback[n]
         /\ \A e \in DOMAIN callback[n] :
               callback'[n][e].pc = IF e = d THEN pc ELSE callback[n][e].pc
<1>1. callback[n] \in Seq(Deliveries) /\ d \in 1..Len(callback[n])
  BY LenProperties DEF Types
<1>2. callback[n][d] \in Deliveries
  BY <1>1, ElementOfSeq
<1> DEFINE e == [callback[n][d] EXCEPT !.pc = pc]
           s == [callback[n] EXCEPT ![d] = e]
<1>3. e \in Deliveries /\ e.pc = pc
  BY <1>2 DEF Deliveries
<1>4. callback' = [callback EXCEPT ![n] = s]
  BY DEF Delivery
<1> HIDE DEF e
<1>5. /\ s \in Seq(Deliveries) /\ Len(s) = Len(callback[n])
      /\ \A j \in 1..Len(callback[n]) : s[j] = IF j = d THEN e ELSE callback[n][j]
  BY <1>1, <1>3, ExceptSeq
<1> HIDE DEF s
<1>6. callback' \in [Logins -> Seq(Deliveries)] /\ callback'[n] = s
  BY <1>4, <1>5 DEF Types
<1>7. DOMAIN s = 1..Len(callback[n]) /\ DOMAIN callback[n] = 1..Len(callback[n])
  BY <1>1, <1>5, LenProperties
<1> QED
  BY <1>3, <1>4, <1>5, <1>6, <1>7 DEF Types

\* Moving a login on leaves the number of logins alone.
LEMMA LoginMoves ==
  ASSUME Types, NEW n \in DOMAIN login, NEW pc \in {"keycloak", "returned", "dead"},
         login' = [login EXCEPT ![n].pc = pc]
  PROVE  login' \in Seq(LoginStates) /\ Len(login') = Len(login)
<1>1. n \in 1..Len(login) /\ login \in Seq(LoginStates)
  BY LoginRange DEF Types
<1>2. login[n] \in LoginStates
  BY <1>1, ElementOfSeq
<1> DEFINE e == [login[n] EXCEPT !.pc = pc]
<1>3. e \in LoginStates
  BY <1>2 DEF LoginStates
<1>4. login' = [login EXCEPT ![n] = e]
  OBVIOUS
<1> HIDE DEF e
<1> QED
  BY <1>1, <1>3, <1>4, ExceptSeq

LEMMA InitCodesInv == SignInInit => CodesInv
<1> SUFFICES ASSUME SignInInit PROVE CodesInv
  OBVIOUS
<1>1. <<>> \in Seq(LoginStates) /\ <<>> \in Seq(Deliveries) /\ Len(<<>>) = 0 /\ DOMAIN <<>> = {}
  BY EmptySeq, LenProperties
<1>2. Types
  BY <1>1 DEF SignInInit, Types, LoginOrNone, NoLogin
<1>3. \A n \in Logins : callback[n] = <<>> /\ Exchanging(n) = {}
  BY <1>1 DEF SignInInit, Exchanging
<1> QED
  BY <1>2, <1>3 DEF SignInInit, CodesInv, OneRedeemer, NoTrace

\* A step that starts no login and presents no code.
LEMMA CodesFrame ==
  ASSUME CodesInv, Types', Len(login') = Len(login), UNCHANGED redeemed,
         states' \subseteq states,
         \A m \in Logins : Exchanging(m)' \subseteq Exchanging(m),
         \A m \in Logins : callback[m] = <<>> => callback'[m] = <<>> \/ m <= Len(login)
  PROVE  CodesInv'
<1>1. \A m \in Logins : OneRedeemer(m)'
  BY DEF CodesInv, OneRedeemer
<1>2. \A m \in Logins : NoTrace(m)'
  BY DEF CodesInv, NoTrace, Logins
<1> QED
  BY <1>1, <1>2 DEF CodesInv

\* Nothing happens to a code while its login and deliveries stand.
LEMMA UnchangedCodes ==
  ASSUME CodesInv, UNCHANGED codeVars
  PROVE  CodesInv'
BY DEF codeVars, CodesInv, Types, OneRedeemer, NoTrace, Exchanging

\* A login that begins has a state and no delivery.
LEMMA StartKeepsCodesInv ==
  ASSUME CodesInv, NEW p \in Pages, NEW prompt \in {"none", "login"}, NEW framed \in BOOLEAN,
         StartLogin(p, prompt, framed),
         UNCHANGED <<callback, redeemed, stateCookie, sso>>
  PROVE  CodesInv'
<1> DEFINE new == [pc |-> "redirecting", prompt |-> prompt, page |-> p, framed |-> framed]
           N == Len(login) + 1
<1>1. login \in Seq(LoginStates) /\ new \in LoginStates
  BY DEF CodesInv, Types, LoginStates
<1>2. login' = Append(login, new) /\ states' = states \cup {N} /\ Len(login) < MaxLogins
  BY DEF StartLogin
<1> HIDE DEF new
<1>3. login' \in Seq(LoginStates) /\ Len(login') = N /\ Len(login) \in Nat
  BY <1>1, <1>2, AppendProperties, LenProperties
<1>4. N \in Logins
  BY <1>2, <1>3 DEF Logins
<1>5. Types'
  BY <1>2, <1>3, <1>4 DEF CodesInv, Types
<1>6. redeemed[N] = 0 /\ callback[N] = <<>>
  BY <1>3, <1>4 DEF CodesInv, NoTrace
<1>7. Exchanging(N) = {}
  BY <1>6, EmptySeq, LenProperties DEF Exchanging
<1>8. \A m \in Logins : Exchanging(m)' = Exchanging(m)
  BY DEF Exchanging
<1>9. \A m \in Logins : OneRedeemer(m)'
  BY <1>2, <1>6, <1>7, <1>8 DEF CodesInv, OneRedeemer
<1>10. \A m \in Logins : NoTrace(m)'
  BY <1>2, <1>3 DEF CodesInv, NoTrace, Logins
<1> QED
  BY <1>5, <1>9, <1>10 DEF CodesInv

-----------------------------------------------------------------------------
(* Pages *)

\* What a page does.
LEMMA PageKeepsCodesInv ==
  ASSUME CodesInv, NEW p \in Pages,
         \/ OpenPage(p) \/ Initialize(p) \/ Login(p) \/ ConsumePostLogoutRedirect(p)
         \/ Refresh(p) \/ SignOut(p)
  PROVE  CodesInv'
<1> USE DEF serverVars, redisVars, keycloakVars, cookieVars, pageHistory
<1>1. CASE OpenPage(p) \/ UserLoaded(p) \/ LoadFails(p) \/ ConfirmedGuest(p)
           \/ ConsumePostLogoutRedirect(p)
  <2>1. UNCHANGED codeVars
    BY <1>1 DEF OpenPage, UserLoaded, LoadFails, ConfirmedGuest, ConsumePostLogoutRedirect, codeVars
  <2> QED
    BY <2>1, UnchangedCodes
<1>2. CASE Refresh(p)
  <2>1. UNCHANGED codeVars
    BY <1>2 DEF Refresh, CallRefused, RefreshServed, RefreshAnswered, RefreshFails, ReloadServed,
       ReloadAnswered, codeVars
  <2> QED
    BY <2>1, UnchangedCodes
<1>3. CASE PageLogout(p) \/ LogoutAnswered(p) \/ LogoutFails(p)
  <2>1. UNCHANGED codeVars
    BY <1>3 DEF PageLogout, LogoutAnswered, LogoutFails, codeVars
  <2> QED
    BY <2>1, UnchangedCodes
<1>4. CASE LogoutServed(p) \/ ReturnFromKeycloak(p)
  <2>1. UNCHANGED <<login, callback, states, redeemed, stateCookie>> /\ sso' \in {sso, FALSE}
    BY <1>4 DEF LogoutServed, ReturnFromKeycloak, EndSso
  <2>2. Types'
    BY <2>1 DEF CodesInv, Types
  <2> QED
    BY <2>1, <2>2, CodesFrame DEF Exchanging
<1>5. ASSUME NEW prompt \in {"none", "login"}, NEW framed \in BOOLEAN,
             StartLogin(p, prompt, framed),
             UNCHANGED <<callback, redeemed, stateCookie, sso>>
      PROVE  CodesInv'
  BY <1>5, StartKeepsCodesInv
<1>6. CASE GuestLoaded(p)
  <2>1. CASE MayCheck(p)
    BY <1>5, <1>6, <2>1 DEF GuestLoaded
  <2>2. CASE ~MayCheck(p)
    <3>1. UNCHANGED codeVars
      BY <1>6, <2>2 DEF GuestLoaded, codeVars
    <3> QED
      BY <3>1, UnchangedCodes
  <2> QED
    BY <2>1, <2>2
<1>7. CASE ConfirmFails(p)
  BY <1>5, <1>7 DEF ConfirmFails, FallBack
<1>8. CASE CheckTimesOut(p)
  BY <1>5, <1>8 DEF CheckTimesOut, FallBack
<1>9. CASE Login(p)
  BY <1>5, <1>9 DEF Login
<1> QED
  BY <1>1, <1>2, <1>3, <1>4, <1>6, <1>7, <1>8, <1>9 DEF Initialize, SignOut

-----------------------------------------------------------------------------
(* Redirects and callbacks *)

\* Appending to a sequence of one element.
LEMMA SecondOfTwo ==
  ASSUME NEW S, NEW s \in Seq(S), Len(s) = 1, NEW e \in S
  PROVE  /\ Append(s, e) \in Seq(S)
         /\ Len(Append(s, e)) = 2
         /\ Append(s, e)[1] = s[1]
         /\ Append(s, e)[2] = e
<1>1. Append(s, e) \in Seq(S) /\ Len(Append(s, e)) = Len(s) + 1
  BY AppendProperties
<1>2. 1 \in 1..Len(s)
  OBVIOUS
<1>3. \A i \in 1..Len(s) : Append(s, e)[i] = s[i]
  BY AppendProperties
<1>4. Append(s, e)[Len(s) + 1] = e
  BY AppendProperties
<1> QED
  BY <1>1, <1>2, <1>3, <1>4

\* What the redirects of a login do.
LEMMA RedirectKeepsCodesInv ==
  ASSUME CodesInv, NEW n \in DOMAIN login, Redirects(n)
  PROVE  CodesInv'
<1> USE DEF redisVars, keycloakVars, cookieVars
<1>0. Types /\ n \in Logins /\ n <= Len(login) /\ Len(login) \in Nat
  BY LoginRange, LenProperties DEF CodesInv, Types, Logins
<1>1. CASE LoginAnswered(n)
  <2>1. login' \in Seq(LoginStates) /\ Len(login') = Len(login)
    BY <1>0, <1>1, LoginMoves DEF LoginAnswered
  <2>2. stateCookie' \in LoginOrNone
    BY <1>0, <1>1 DEF LoginAnswered, Types, Logins, LoginOrNone
  <2>3. UNCHANGED <<callback, states, redeemed, sso>>
    BY <1>1 DEF LoginAnswered
  <2>4. Types'
    BY <1>0, <2>1, <2>2, <2>3 DEF Types
  <2> QED
    BY <2>1, <2>3, <2>4, CodesFrame DEF Exchanging
<1>2. CASE LoginFails(n)
  <2>1. login' \in Seq(LoginStates) /\ Len(login') = Len(login)
    BY <1>0, <1>2, LoginMoves DEF LoginFails
  <2>2. UNCHANGED <<callback, states, redeemed, stateCookie, sso>>
    BY <1>2 DEF LoginFails
  <2>3. Types'
    BY <1>0, <2>1, <2>2 DEF Types
  <2> QED
    BY <2>1, <2>2, <2>3, CodesFrame DEF Exchanging
<1>3. CASE KeycloakReturns(n)
  <2>1. login' \in Seq(LoginStates) /\ Len(login') = Len(login)
    BY <1>0, <1>3, LoginMoves DEF KeycloakReturns
  <2>2. PICK code \in IF login[n].prompt = "none" \/ sso THEN {sso} ELSE BOOLEAN :
           /\ sso' = (sso \/ code)
           /\ callback' = [callback EXCEPT ![n] =
                 <<[pc |-> "received", code |-> code, cookie |-> stateCookie]>>]
    BY <1>3 DEF KeycloakReturns
  <2> DEFINE d == [pc |-> "received", code |-> code, cookie |-> stateCookie]
  <2>3. d \in Deliveries /\ d.pc = "received"
    BY <1>0, <2>2 DEF Types, Deliveries
  <2>4. sso' \in BOOLEAN
    BY <2>2 DEF Types
  <2> HIDE DEF d
  <2>5. <<d>> \in Seq(Deliveries) /\ DOMAIN <<d>> = {1} /\ <<d>>[1] = d
    BY <2>3
  <2>6. /\ callback' \in [Logins -> Seq(Deliveries)] /\ callback'[n] = <<d>>
        /\ \A m \in Logins \ {n} : callback'[m] = callback[m]
    BY <1>0, <2>2, <2>5 DEF Types, d
  <2>7. UNCHANGED <<states, redeemed, stateCookie>>
    BY <1>3 DEF KeycloakReturns
  <2>8. Types'
    BY <1>0, <2>1, <2>4, <2>6, <2>7 DEF Types
  <2>9. \A m \in Logins : Exchanging(m)' \subseteq Exchanging(m)
    BY <2>3, <2>5, <2>6 DEF Exchanging
  <2> QED
    BY <1>0, <2>1, <2>6, <2>7, <2>8, <2>9, CodesFrame
<1>4. CASE RepeatCallback(n)
  <2> DEFINE d == [pc |-> "received", code |-> callback[n][1].code, cookie |-> stateCookie]
  <2>1. callback[n] \in Seq(Deliveries) /\ Len(callback[n]) = 1
    BY <1>0, <1>4 DEF RepeatCallback, Types
  <2>2. callback[n][1] \in Deliveries
    BY <2>1, ElementOfSeq
  <2>3. d \in Deliveries /\ d.pc = "received"
    BY <1>0, <2>2 DEF Types, Deliveries
  <2>4. callback' = [callback EXCEPT ![n] = Append(callback[n], d)]
    BY <1>4 DEF RepeatCallback
  <2> HIDE DEF d
  <2>5. /\ Append(callback[n], d) \in Seq(Deliveries)
        /\ Len(Append(callback[n], d)) = 2
        /\ Append(callback[n], d)[1] = callback[n][1]
        /\ Append(callback[n], d)[2] = d
    BY <2>1, <2>3, SecondOfTwo
  <2>6. DOMAIN Append(callback[n], d) = 1..2 /\ DOMAIN callback[n] = 1..1
    BY <2>1, <2>5, LenProperties
  <2>7. /\ callback' \in [Logins -> Seq(Deliveries)] /\ callback'[n] = Append(callback[n], d)
        /\ \A m \in Logins \ {n} : callback'[m] = callback[m]
    BY <1>0, <2>4, <2>5 DEF Types
  <2>8. UNCHANGED <<login, states, redeemed, stateCookie, sso>>
    BY <1>4 DEF RepeatCallback
  <2>9. Types'
    BY <1>0, <2>7, <2>8 DEF Types
  <2>10. \A m \in Logins : Exchanging(m)' \subseteq Exchanging(m)
    BY <2>3, <2>5, <2>6, <2>7 DEF Exchanging
  <2> QED
    BY <1>0, <2>7, <2>8, <2>9, <2>10, CodesFrame
<1> QED
  BY <1>1, <1>2, <1>3, <1>4 DEF Redirects

\* A callback that consumes a state becomes the one that may present the code.
LEMMA ConsumeKeepsCodesInv ==
  ASSUME CodesInv, NEW n \in DOMAIN login, NEW d \in DOMAIN callback[n],
         ConsumeAuthorizationState(n, d)
  PROVE  CodesInv'
<1> USE DEF keycloakVars, cookieVars
<1>0. Types /\ n \in Logins /\ n <= Len(login) /\ Len(login) \in Nat
  BY LoginRange, LenProperties DEF CodesInv, Types, Logins
<1>1. UNCHANGED <<login, redeemed, stateCookie, sso>>
  BY DEF ConsumeAuthorizationState
<1>2. CASE callback[n][d].cookie = n /\ n \in states
  <2>1. PICK pc \in {"exchanging", "guest"} : Delivery(n, d, pc)
    BY <1>2 DEF ConsumeAuthorizationState
  <2>2. states' = states \ {n}
    BY <1>2 DEF ConsumeAuthorizationState, ConsumedState
  <2>3. /\ callback' \in [Logins -> Seq(Deliveries)]
        /\ \A m \in Logins \ {n} : callback'[m] = callback[m]
        /\ DOMAIN callback'[n] = DOMAIN callback[n]
        /\ \A e \in DOMAIN callback[n] :
              callback'[n][e].pc = IF e = d THEN pc ELSE callback[n][e].pc
    BY <1>0, <2>1, DeliveryMoves
  <2>4. Types'
    BY <1>0, <1>1, <2>2, <2>3 DEF Types
  <2>5. redeemed[n] = 0 /\ Exchanging(n) = {}
    BY <1>0, <1>2 DEF CodesInv, OneRedeemer
  <2>6. Exchanging(n)' \subseteq {d} /\ \A m \in Logins \ {n} : Exchanging(m)' = Exchanging(m)
    BY <2>3, <2>5 DEF Exchanging
  <2>7. \A m \in Logins : OneRedeemer(m)'
    BY <1>0, <1>1, <2>2, <2>3, <2>5, <2>6 DEF CodesInv, OneRedeemer, Logins
  <2>8. \A m \in Logins : NoTrace(m)'
    BY <1>0, <1>1, <2>2, <2>3, <2>5, <2>6 DEF CodesInv, NoTrace, Logins
  <2> QED
    BY <2>4, <2>7, <2>8 DEF CodesInv
<1>3. CASE ~(callback[n][d].cookie = n /\ n \in states)
  <2>1. Delivery(n, d, "refused") /\ states' = states
    BY <1>3 DEF ConsumeAuthorizationState
  <2>2. /\ callback' \in [Logins -> Seq(Deliveries)]
        /\ \A m \in Logins \ {n} : callback'[m] = callback[m]
        /\ DOMAIN callback'[n] = DOMAIN callback[n]
        /\ \A e \in DOMAIN callback[n] :
              callback'[n][e].pc = IF e = d THEN "refused" ELSE callback[n][e].pc
    BY <1>0, <2>1, DeliveryMoves
  <2>3. Types'
    BY <1>0, <1>1, <2>1, <2>2 DEF Types
  <2>4. \A m \in Logins : Exchanging(m)' \subseteq Exchanging(m)
    BY <2>2 DEF Exchanging
  <2> QED
    BY <1>0, <1>1, <2>1, <2>2, <2>3, <2>4, CodesFrame
<1> QED
  BY <1>2, <1>3

\* The delivery that presents the code is the only one, and it stops exchanging.
LEMMA PresentKeepsCodesInv ==
  ASSUME CodesInv, NEW n \in DOMAIN login, NEW d \in DOMAIN callback[n],
         NEW pc \in {"failed", "session"}, Delivery(n, d, pc),
         callback[n][d].pc = "exchanging",
         redeemed' = [redeemed EXCEPT ![n] = @ + 1],
         UNCHANGED <<login, states, stateCookie, sso>>
  PROVE  CodesInv'
<1>0. Types /\ n \in Logins /\ n <= Len(login) /\ Len(login) \in Nat
  BY LoginRange, LenProperties DEF CodesInv, Types, Logins
<1>1. d \in Exchanging(n)
  BY DEF Exchanging
<1>2. redeemed[n] = 0 /\ Exchanging(n) = {d} /\ n \notin states
  BY <1>0, <1>1 DEF CodesInv, OneRedeemer
<1>3. /\ callback' \in [Logins -> Seq(Deliveries)]
      /\ \A m \in Logins \ {n} : callback'[m] = callback[m]
      /\ DOMAIN callback'[n] = DOMAIN callback[n]
      /\ \A e \in DOMAIN callback[n] :
            callback'[n][e].pc = IF e = d THEN pc ELSE callback[n][e].pc
  BY <1>0, DeliveryMoves
<1>4. Exchanging(n)' = {} /\ \A m \in Logins \ {n} : Exchanging(m)' = Exchanging(m)
  BY <1>2, <1>3 DEF Exchanging
<1>5. redeemed'[n] = 1 /\ redeemed' \in [Logins -> Nat]
      /\ \A m \in Logins \ {n} : redeemed'[m] = redeemed[m]
  BY <1>0, <1>2 DEF Types
<1>6. Types'
  BY <1>0, <1>3, <1>5 DEF Types
<1>7. \A m \in Logins : OneRedeemer(m)'
  BY <1>0, <1>2, <1>3, <1>4, <1>5 DEF CodesInv, OneRedeemer, Logins
<1>8. \A m \in Logins : NoTrace(m)'
  BY <1>0, <1>2, <1>3, <1>4, <1>5 DEF CodesInv, NoTrace, Logins
<1> QED
  BY <1>6, <1>7, <1>8 DEF CodesInv

\* What a callback does: one delivery consumes the state.
LEMMA CallbackKeepsCodesInv ==
  ASSUME CodesInv, NEW n \in DOMAIN login, NEW d \in DOMAIN callback[n], Callback(n, d)
  PROVE  CodesInv'
<1> USE DEF redisVars, keycloakVars, cookieVars
<1>0. Types /\ n \in Logins /\ n <= Len(login) /\ Len(login) \in Nat
  BY LoginRange, LenProperties DEF CodesInv, Types, Logins
<1>1. CASE ConsumeAuthorizationState(n, d)
  BY <1>1, ConsumeKeepsCodesInv
<1>2. CASE ExchangeCodeForTokens(n, d)
  <2>1. PICK pc \in {"failed", "session"} : Delivery(n, d, pc)
    BY <1>2 DEF ExchangeCodeForTokens
  <2> QED
    BY <1>2, <2>1, PresentKeepsCodesInv DEF ExchangeCodeForTokens, ExchangeCode
<1>3. ASSUME Delivery(n, d, "failed"), states' \in {states, states \ {n}},
             UNCHANGED <<login, redeemed, stateCookie, sso>>
      PROVE  CodesInv'
  <2>1. /\ callback' \in [Logins -> Seq(Deliveries)]
        /\ \A m \in Logins \ {n} : callback'[m] = callback[m]
        /\ DOMAIN callback'[n] = DOMAIN callback[n]
        /\ \A e \in DOMAIN callback[n] :
              callback'[n][e].pc = IF e = d THEN "failed" ELSE callback[n][e].pc
    BY <1>0, <1>3, DeliveryMoves
  <2>2. Types'
    BY <1>0, <1>3, <2>1 DEF Types
  <2>3. \A m \in Logins : Exchanging(m)' \subseteq Exchanging(m)
    BY <2>1 DEF Exchanging
  <2> QED
    BY <1>0, <1>3, <2>1, <2>2, <2>3, CodesFrame
<1>4. CASE CallbackFails(n, d)
  <2>1. Delivery(n, d, "failed") /\ UNCHANGED <<login, stateCookie, sso>>
    BY <1>4 DEF CallbackFails
  <2>2. CASE callback[n][d].pc = "exchanging" /\ states' = states
             /\ \E kept \in BOOLEAN : ExchangeCode(n, kept)
    BY <2>1, <2>2, PresentKeepsCodesInv DEF ExchangeCode
  <2>3. CASE states' \in {states, states \ {n}} /\ redeemed' = redeemed
    BY <1>3, <2>1, <2>3
  <2> QED
    BY <1>4, <2>2, <2>3 DEF CallbackFails
<1>5. CASE CallbackAnswered(n, d) /\ Waiting(n) /\ d = Len(callback[n])
  <2>1. Finished(n) /\ stateCookie' = NoLogin /\ UNCHANGED <<states, redeemed, sso>>
    BY <1>5 DEF CallbackAnswered
  <2>2. login' \in Seq(LoginStates) /\ Len(login') = Len(login)
    BY <1>0, <1>5, LoginMoves DEF CallbackAnswered, Types
  <2>3. /\ callback' \in [Logins -> Seq(Deliveries)]
        /\ \A m \in Logins \ {n} : callback'[m] = callback[m]
        /\ Exchanging(n)' \subseteq Exchanging(n)
    <3>1. CASE callback' = [callback EXCEPT ![n] = <<>>]
      <4>1. <<>> \in Seq(Deliveries) /\ DOMAIN <<>> = {}
        BY EmptySeq, LenProperties
      <4> QED
        BY <1>0, <3>1, <4>1 DEF Types, Exchanging
    <3>2. CASE callback' = [callback EXCEPT ![n] = [@ EXCEPT ![Len(@)].pc = "done"]]
      <4>1. Delivery(n, d, "done")
        BY <1>5, <3>2 DEF Delivery
      <4> QED
        BY <1>0, <4>1, DeliveryMoves DEF Exchanging
    <3> QED
      BY <2>1, <3>1, <3>2 DEF Finished
  <2>4. Types'
    BY <1>0, <2>1, <2>2, <2>3 DEF Types, LoginOrNone, NoLogin
  <2>5. \A m \in Logins : Exchanging(m)' \subseteq Exchanging(m)
    BY <2>3 DEF Exchanging
  <2> QED
    BY <1>0, <2>1, <2>2, <2>3, <2>4, <2>5, CodesFrame
<1>6. CASE CallbackAnswered(n, d) /\ ~(Waiting(n) /\ d = Len(callback[n]))
  <2>1. Delivery(n, d, "done") /\ UNCHANGED <<login, states, redeemed, stateCookie, sso>>
    BY <1>6 DEF CallbackAnswered
  <2>2. /\ callback' \in [Logins -> Seq(Deliveries)]
        /\ \A m \in Logins \ {n} : callback'[m] = callback[m]
        /\ Exchanging(n)' \subseteq Exchanging(n)
    BY <1>0, <2>1, DeliveryMoves DEF Exchanging
  <2>3. Types'
    BY <1>0, <2>1, <2>2 DEF Types
  <2>4. \A m \in Logins : Exchanging(m)' \subseteq Exchanging(m)
    BY <2>2 DEF Exchanging
  <2> QED
    BY <1>0, <2>1, <2>2, <2>3, <2>4, CodesFrame
<1> QED
  BY <1>1, <1>2, <1>4, <1>5, <1>6 DEF Callback

\* A state that expires can no longer be consumed.
LEMMA TimeKeepsCodesInv ==
  ASSUME CodesInv, NEW n \in DOMAIN login, StoredSessionExpires(n) \/ StateExpires(n)
  PROVE  CodesInv'
<1> USE DEF keycloakVars
<1>1. CASE StoredSessionExpires(n)
  BY <1>1, UnchangedCodes DEF StoredSessionExpires, codeVars
<1>2. CASE StateExpires(n)
  <2>1. UNCHANGED <<login, callback, redeemed, sso>> /\ states' \subseteq states
        /\ stateCookie' = NoLogin
    BY <1>2 DEF StateExpires
  <2>2. Types'
    BY <2>1 DEF CodesInv, Types, LoginOrNone, NoLogin
  <2> QED
    BY <2>1, <2>2, CodesFrame DEF Exchanging
<1> QED
  BY <1>1, <1>2

LEMMA StepCodesInv == CodesInv /\ [SignInNext]_signInVars => CodesInv'
<1>1. ASSUME CodesInv, UNCHANGED signInVars
      PROVE  CodesInv'
  BY <1>1, UnchangedCodes DEF signInVars, serverVars, redisVars, keycloakVars, cookieVars, codeVars
<1> QED
  BY <1>1, PageKeepsCodesInv, RedirectKeepsCodesInv, CallbackKeepsCodesInv, TimeKeepsCodesInv DEF SignInNext

\* CodesAreRedeemedOnce: however often a callback is delivered, whatever fails in it
\* and whichever pages move on, its code is presented to Keycloak at most once.
THEOREM CodesArePresentedOnce == SignInSpec => []CodesAreRedeemedOnce
<1>1. CodesInv => CodesAreRedeemedOnce
  BY DEF CodesInv, OneRedeemer, CodesAreRedeemedOnce
<1> QED
  BY <1>1, InitCodesInv, StepCodesInv, PTL DEF SignInSpec

-----------------------------------------------------------------------------
(* Silent logins: what a page remembers decides how often it tries.        *)

PageTypes ==
    /\ page \in [Pages -> PageStates]
    /\ sessionCookie \in LoginOrNone
    /\ silent \in [Pages -> Nat]
    /\ signedOut \subseteq Pages

Checking == {"checking", "confirming"}

\* Without the marker of an attempt there was none; while the iframe is open there was
\* that one; a page that signed out keeps the marker, and opens no iframe.
Remembers(p) ==
    /\ silent[p] <= 2
    /\ ~page[p].attempted => silent[p] = 0
    /\ page[p].pc \in Checking => silent[p] <= 1
    /\ p \in signedOut \ overtaken => page[p].attempted /\ page[p].pc \notin Checking

SilentInv == PageTypes /\ \A p \in Pages : Remembers(p)

\* What a step may not do to a page that signed out.
StaysOut == \A p \in signedOut \ overtaken : silent'[p] <= silent[p]

LEMMA InitSilentInv == SignInInit => SilentInv
<1> SUFFICES ASSUME SignInInit PROVE SilentInv
  OBVIOUS
<1>1. PageTypes
  BY DEF SignInInit, PageTypes, PageStates, LoginOrNone, NoLogin
<1>2. \A p \in Pages : Remembers(p)
  BY DEF SignInInit, Remembers, Checking
<1> QED
  BY <1>1, <1>2 DEF SilentInv

\* Another page, or none, moves.
LEMMA SilentFrame ==
  ASSUME SilentInv, PageTypes', NEW p,
         \A o \in Pages \ {p} : page'[o] = page[o] /\ silent'[o] = silent[o],
         signedOut' \ {p} = signedOut \ {p}, overtaken' \ {p} = overtaken \ {p},
         p \in Pages => Remembers(p)',
         p \in signedOut \ overtaken => silent'[p] <= silent[p]
  PROVE  SilentInv' /\ StaysOut
<1>1. ASSUME NEW o \in Pages \ {p}
      PROVE  Remembers(o)'
  <2>1. Remembers(o) /\ page'[o] = page[o] /\ silent'[o] = silent[o]
    BY DEF SilentInv
  <2>2. o \in signedOut' \ overtaken' <=> o \in signedOut \ overtaken
    OBVIOUS
  <2> QED
    BY <2>1, <2>2 DEF Remembers
<1>2. \A o \in Pages \ {p} : silent'[o] <= silent[o]
  BY DEF SilentInv, PageTypes
<1>3. \A o \in Pages : Remembers(o)'
  BY <1>1
<1>4. StaysOut
  BY <1>2 DEF SilentInv, PageTypes, StaysOut
<1> QED
  BY <1>3, <1>4 DEF SilentInv

\* One page moves, the others stand.
LEMMA PageMoves ==
  ASSUME PageTypes, NEW p \in Pages, NEW q \in PageStates, page' = [page EXCEPT ![p] = q]
  PROVE  /\ page' \in [Pages -> PageStates] /\ page'[p] = q
         /\ \A o \in Pages \ {p} : page'[o] = page[o]
  BY DEF PageTypes

\* A step that neither marks a page nor opens its iframe.
LEMMA QuietMove ==
  ASSUME SilentInv, NEW p \in Pages, NEW q \in PageStates, page' = [page EXCEPT ![p] = q],
         sessionCookie' \in LoginOrNone, UNCHANGED pageHistory,
         q.attempted = page[p].attempted, q.pc \notin Checking \/ q.pc = page[p].pc
  PROVE  SilentInv' /\ StaysOut
<1>1. /\ page' \in [Pages -> PageStates] /\ page'[p] = q
      /\ \A o \in Pages \ {p} : page'[o] = page[o]
  BY PageMoves DEF SilentInv
<1>2. PageTypes' /\ UNCHANGED <<silent, signedOut, overtaken>>
  BY <1>1 DEF SilentInv, PageTypes, pageHistory
<1>3. Remembers(p)'
  BY <1>1, <1>2 DEF SilentInv, Remembers
<1>4. silent'[p] <= silent[p]
  BY <1>2 DEF SilentInv, PageTypes
<1> QED
  BY <1>1, <1>2, <1>3, <1>4, SilentFrame

\* Steps that leave the pages alone.
LEMMA PagesStand ==
  ASSUME SilentInv, UNCHANGED <<page, pageHistory>>, sessionCookie' \in LoginOrNone
  PROVE  SilentInv' /\ StaysOut
<1>1. UNCHANGED <<page, silent, signedOut, overtaken>>
  BY DEF pageHistory
<1> QED
  BY <1>1 DEF SilentInv, PageTypes, Remembers, StaysOut

\* Knowing a user, or being asked to log in, forgets the attempts.
LEMMA FreshStart ==
  ASSUME SilentInv, NEW p \in Pages, NEW q \in PageStates, page' = [page EXCEPT ![p] = q],
         UNCHANGED sessionCookie, q.pc \notin Checking,
         silent' = [silent EXCEPT ![p] = 0],
         signedOut' = signedOut \ {p}, overtaken' = overtaken \ {p}
  PROVE  SilentInv' /\ StaysOut
<1>1. /\ page' \in [Pages -> PageStates] /\ page'[p] = q
      /\ \A o \in Pages \ {p} : page'[o] = page[o]
  BY PageMoves DEF SilentInv
<1>2. /\ silent' \in [Pages -> Nat] /\ silent'[p] = 0
      /\ \A o \in Pages \ {p} : silent'[o] = silent[o]
  BY DEF SilentInv, PageTypes
<1>3. PageTypes'
  BY <1>1, <1>2 DEF SilentInv, PageTypes
<1>4. Remembers(p)' /\ silent'[p] <= silent[p]
  BY <1>1, <1>2 DEF SilentInv, PageTypes, Remembers
<1> QED
  BY <1>1, <1>2, <1>3, <1>4, SilentFrame

\* A silent login marks the page; the second one leaves the page.
LEMMA Attempt ==
  ASSUME SilentInv, NEW p \in Pages, NEW q \in PageStates, page' = [page EXCEPT ![p] = q],
         UNCHANGED <<sessionCookie, signedOut, overtaken>>, q.attempted,
         silent' = [silent EXCEPT ![p] = @ + 1],
         \/ ~page[p].attempted
         \/ page[p].pc \in Checking /\ q.pc \notin Checking
  PROVE  SilentInv' /\ StaysOut
<1>1. /\ page' \in [Pages -> PageStates] /\ page'[p] = q
      /\ \A o \in Pages \ {p} : page'[o] = page[o]
  BY PageMoves DEF SilentInv
<1>2. /\ silent' \in [Pages -> Nat] /\ silent'[p] = silent[p] + 1 /\ silent[p] \in Nat
      /\ \A o \in Pages \ {p} : silent'[o] = silent[o]
  BY DEF SilentInv, PageTypes
<1>3. PageTypes'
  BY <1>1, <1>2 DEF SilentInv, PageTypes
<1>4. Remembers(p) /\ p \notin signedOut \ overtaken
  BY DEF SilentInv, Remembers
<1>5. Remembers(p)'
  BY <1>1, <1>2, <1>4 DEF Remembers, Checking
<1> QED
  BY <1>1, <1>2, <1>3, <1>4, <1>5, SilentFrame

\* A login that starts has the next number.
LEMMA LoginsOfThePage ==
  ASSUME Types
  PROVE  Len(login) < MaxLogins => NewLogin \in LoginOrNone
  BY LenProperties DEF Types, NewLogin, LoginOrNone

\* A page opens and asks for the current user.
LEMMA InitializeKeepsSilent ==
  ASSUME SilentInv, Types, NEW p \in Pages, Initialize(p) \/ OpenPage(p)
  PROVE  SilentInv' /\ StaysOut
<1> USE DEF cookieVars, pageHistory
<1>0. page[p] \in PageStates /\ sessionCookie \in LoginOrNone /\ NoLogin \in LoginOrNone
      /\ page[p].asked \in LoginOrNone
  BY DEF SilentInv, PageTypes, PageStates, LoginOrNone, NoLogin
<1>1. CASE OpenPage(p)
  <2>1. PICK none \in {FALSE, page[p].none} : page' = [page EXCEPT ![p] = Loads(p, none)]
    BY <1>1 DEF OpenPage
  <2>2. sessionCookie' = sessionCookie /\ UNCHANGED pageHistory
    BY <1>1 DEF OpenPage
  <2>3. /\ Loads(p, none) \in PageStates /\ Loads(p, none).pc = "loading"
        /\ Loads(p, none).attempted = page[p].attempted
    BY <1>0, <2>2 DEF Loads, PageStates
  <2> QED
    BY <1>0, <2>1, <2>2, <2>3, QuietMove DEF Checking
<1>2. Initialized(p) \in PageStates /\ Initialized(p).pc = "ready"
      /\ Initialized(p).attempted = page[p].attempted
  BY <1>0 DEF Initialized, PageStates
<1>3. CASE UserLoaded(p)
  <2>1. Known(p, page[p].asked) \in PageStates /\ Known(p, page[p].asked).pc \notin Checking
    BY <1>0, <1>3 DEF Known, PageStates, UserLoaded, Checking
  <2> QED
    BY <1>3, <2>1, FreshStart DEF UserLoaded
<1>4. CASE LoadFails(p) \/ ConfirmedGuest(p)
  BY <1>0, <1>2, <1>4, QuietMove DEF LoadFails, ConfirmedGuest, Checking
<1>5. ASSUME FallBack(p), page[p].pc \in Checking, UNCHANGED <<sessionCookie, signedOut, overtaken>>
      PROVE  SilentInv' /\ StaysOut
  <2> DEFINE q == [page[p] EXCEPT !.pc = "away", !.asked = NoLogin, !.attempted = TRUE,
                                  !.login = NewLogin]
  <2>1. NewLogin \in LoginOrNone
    BY <1>5, LoginsOfThePage DEF FallBack, StartLogin
  <2>2. q \in PageStates /\ q.attempted /\ q.pc = "away"
    BY <1>0, <2>1 DEF PageStates
  <2>3. page' = [page EXCEPT ![p] = q]
    BY <1>5 DEF FallBack, SilentInv, PageTypes
  <2> HIDE DEF q
  <2> QED
    BY <1>5, <2>2, <2>3, Attempt DEF FallBack, Checking
<1>6. CASE ConfirmFails(p) \/ CheckTimesOut(p)
  BY <1>5, <1>6 DEF ConfirmFails, CheckTimesOut, Checking
<1>7. CASE GuestLoaded(p) /\ MayCheck(p)
  <2> DEFINE q == [page[p] EXCEPT !.pc = "checking", !.asked = NoLogin, !.attempted = TRUE,
                                  !.login = NewLogin]
  <2>1. NewLogin \in LoginOrNone
    BY <1>7, LoginsOfThePage DEF GuestLoaded, StartLogin
  <2>2. q \in PageStates /\ q.attempted
    BY <1>0, <2>1 DEF PageStates
  <2>3. page' = [page EXCEPT ![p] = q]
    BY <1>7 DEF GuestLoaded, SilentInv, PageTypes
  <2> HIDE DEF q
  <2> QED
    BY <1>7, <2>2, <2>3, Attempt DEF GuestLoaded, MayCheck
<1>8. CASE GuestLoaded(p) /\ ~MayCheck(p)
  BY <1>0, <1>2, <1>8, QuietMove DEF GuestLoaded, Checking
<1> QED
  BY <1>1, <1>3, <1>4, <1>6, <1>7, <1>8 DEF Initialize

\* A person signs in, or the mark of a logout is read.
LEMMA AskingKeepsSilent ==
  ASSUME SilentInv, Types, NEW p \in Pages, Login(p) \/ ConsumePostLogoutRedirect(p)
  PROVE  SilentInv' /\ StaysOut
<1> USE DEF cookieVars, pageHistory
<1>0. page[p] \in PageStates
  BY DEF SilentInv, PageTypes
<1>1. CASE Login(p)
  <2> DEFINE q == [page[p] EXCEPT !.pc = "away", !.login = NewLogin, !.attempted = FALSE,
                                  !.loggedOut = FALSE]
  <2>1. NewLogin \in LoginOrNone
    BY <1>1, LoginsOfThePage DEF Login, StartLogin
  <2>2. q \in PageStates /\ q.pc = "away"
    BY <1>0, <2>1 DEF PageStates
  <2>3. page' = [page EXCEPT ![p] = q]
    BY <1>1 DEF Login, SilentInv, PageTypes
  <2> HIDE DEF q
  <2> QED
    BY <1>1, <2>2, <2>3, FreshStart DEF Login, Checking
<1>2. CASE ConsumePostLogoutRedirect(p)
  <2> DEFINE q == [page[p] EXCEPT !.loggedOut = FALSE]
  <2>1. q \in PageStates /\ q.pc = page[p].pc /\ q.attempted = page[p].attempted
    BY <1>0 DEF PageStates
  <2>2. page' = [page EXCEPT ![p] = q]
    BY <1>2 DEF ConsumePostLogoutRedirect, SilentInv, PageTypes
  <2>3. sessionCookie' \in LoginOrNone /\ UNCHANGED pageHistory
    BY <1>2 DEF ConsumePostLogoutRedirect, SilentInv, PageTypes
  <2> HIDE DEF q
  <2> QED
    BY <2>1, <2>2, <2>3, QuietMove
<1> QED
  BY <1>1, <1>2

\* A page moves on to an error, or to what the answer of its callback says.
LEMMA RedirectsKeepSilent ==
  ASSUME SilentInv, Types, NEW n \in DOMAIN login,
         \/ Redirects(n)
         \/ \E d \in DOMAIN callback[n] : Callback(n, d)
         \/ StoredSessionExpires(n) \/ StateExpires(n)
  PROVE  SilentInv' /\ StaysOut
<1> USE DEF cookieVars, pageHistory
<1>p. PICK p : p = login[n].page
  OBVIOUS
<1>0. /\ n \in LoginOrNone /\ NoLogin \in LoginOrNone /\ sessionCookie \in LoginOrNone
      /\ p \in Pages /\ page[p] \in PageStates
      /\ login[n].framed \in BOOLEAN /\ login[n].prompt \in {"none", "login"}
  <2>1. n \in 1..Len(login) /\ n \in Logins
    BY LoginRange
  <2>2. login[n] \in LoginStates
    BY <2>1, ElementOfSeq DEF Types
  <2> QED
    BY <1>p, <2>1, <2>2 DEF SilentInv, PageTypes, LoginStates, LoginOrNone, Logins, NoLogin
<1>1. CASE UNCHANGED page /\ UNCHANGED pageHistory /\ sessionCookie' \in LoginOrNone
  BY <1>1, PagesStand
<1>2. CASE LoginAnswered(n) \/ KeycloakReturns(n) \/ RepeatCallback(n)
           \/ StoredSessionExpires(n) \/ StateExpires(n)
  BY <1>0, <1>1, <1>2 DEF LoginAnswered, KeycloakReturns, RepeatCallback, StoredSessionExpires, StateExpires
<1>3. ASSUME NEW d \in DOMAIN callback[n],
             ConsumeAuthorizationState(n, d) \/ ExchangeCodeForTokens(n, d) \/ CallbackFails(n, d)
      PROVE  SilentInv' /\ StaysOut
  BY <1>0, <1>1, <1>3 DEF ConsumeAuthorizationState, ExchangeCodeForTokens, CallbackFails
<1>4. ASSUME page' = Broken(n), UNCHANGED pageHistory, sessionCookie' \in LoginOrNone
      PROVE  SilentInv' /\ StaysOut
  <2> DEFINE q == [page[p] EXCEPT !.pc = "error"]
  <2>1. q \in PageStates /\ q.pc = "error" /\ q.attempted = page[p].attempted
    BY <1>0 DEF PageStates
  <2>2. CASE login[n].framed
    BY <1>1, <1>4, <2>2 DEF Broken
  <2>3. CASE ~login[n].framed
    <3>1. page' = [page EXCEPT ![p] = q]
      BY <1>p, <1>0, <1>4, <2>3 DEF Broken, SilentInv, PageTypes
    <3> HIDE DEF q
    <3> QED
      BY <1>0, <1>4, <2>1, <3>1, QuietMove DEF Checking
  <2> QED
    BY <1>0, <2>2, <2>3
<1>5. CASE LoginFails(n)
  BY <1>0, <1>4, <1>5 DEF LoginFails
<1>6. ASSUME NEW d \in DOMAIN callback[n], CallbackAnswered(n, d)
      PROVE  SilentInv' /\ StaysOut
  <2> DEFINE pc == callback[n][d].pc
  <2>1. UNCHANGED pageHistory
    BY <1>6 DEF CallbackAnswered
  <2>2. CASE ~(Waiting(n) /\ d = Len(callback[n]))
    BY <1>0, <1>1, <1>6, <2>2 DEF CallbackAnswered
  <2>3. CASE Waiting(n) /\ d = Len(callback[n])
    <3>1. /\ page' = AfterCallback(n, pc) /\ sessionCookie' \in LoginOrNone
          /\ pc \in {"refused", "failed", "guest", "session"}
      BY <1>0, <1>6, <2>3 DEF CallbackAnswered
    <3>2. CASE pc \in {"refused", "failed"}
      <4>1. page' = Broken(n)
        BY <3>1, <3>2 DEF AfterCallback
      <4> QED
        BY <1>4, <2>1, <3>1, <4>1
    <3>3. CASE login[n].framed /\ pc = "guest"
      <4>1. Initialized(p) \in PageStates /\ Initialized(p).pc = "ready"
            /\ Initialized(p).attempted = page[p].attempted
        BY <1>0 DEF Initialized, PageStates
      <4>2. page' = [page EXCEPT ![p] = Initialized(p)]
        BY <1>p, <3>1, <3>3 DEF AfterCallback
      <4> QED
        BY <1>0, <2>1, <3>1, <4>1, <4>2, QuietMove DEF Checking
    <3>4. CASE login[n].framed /\ pc = "session"
      <4> DEFINE q == [page[p] EXCEPT !.pc = "confirming", !.asked = n]
      <4>1. q \in PageStates /\ q.attempted = page[p].attempted /\ q.pc = "confirming"
        BY <1>0 DEF PageStates
      <4>2. page' = [page EXCEPT ![p] = q]
        BY <1>p, <1>0, <3>1, <3>4 DEF AfterCallback, SilentInv, PageTypes
      <4>3. page[p].pc = "checking"
        BY <1>p, <2>3, <3>4 DEF Waiting
      <4> HIDE DEF q
      <4>4. /\ page' \in [Pages -> PageStates] /\ page'[p] = q
            /\ \A o \in Pages \ {p} : page'[o] = page[o]
        BY <1>0, <4>1, <4>2, PageMoves DEF SilentInv
      <4>5. UNCHANGED <<silent, signedOut, overtaken>>
        BY <2>1
      <4>6. PageTypes'
        BY <3>1, <4>4, <4>5 DEF SilentInv, PageTypes
      <4>7. silent[p] \in Nat /\ silent[p] <= 1 /\ Remembers(p) /\ p \notin signedOut \ overtaken
        BY <1>0, <4>3 DEF SilentInv, PageTypes, Remembers, Checking
      <4>8. Remembers(p)'
        BY <4>1, <4>4, <4>5, <4>7 DEF Remembers
      <4>9. silent'[p] <= silent[p] /\ \A o \in Pages \ {p} : silent'[o] = silent[o]
        BY <4>5, <4>7
      <4>10. signedOut' \ {p} = signedOut \ {p} /\ overtaken' \ {p} = overtaken \ {p}
        BY <4>5
      <4> QED
        BY <4>4, <4>6, <4>8, <4>9, <4>10, SilentFrame
    <3>5. CASE ~login[n].framed /\ pc \in {"guest", "session"}
      <4> DEFINE none == pc = "guest" /\ login[n].prompt = "none"
      <4>1. /\ Loads(p, none) \in PageStates /\ Loads(p, none).pc = "loading"
            /\ Loads(p, none).attempted = page[p].attempted
        BY <1>0, <3>1 DEF Loads, PageStates
      <4>2. page' = [page EXCEPT ![p] = Loads(p, none)]
        BY <1>p, <3>1, <3>5 DEF AfterCallback
      <4> QED
        BY <1>0, <2>1, <3>1, <4>1, <4>2, QuietMove DEF Checking
    <3> QED
      BY <1>0, <3>1, <3>2, <3>3, <3>4, <3>5
  <2> QED
    BY <2>2, <2>3
<1> QED
  BY <1>2, <1>3, <1>5, <1>6 DEF Redirects, Callback

\* A page refreshes its session.
LEMMA RefreshKeepsSilent ==
  ASSUME SilentInv, NEW p \in Pages, Refresh(p)
  PROVE  SilentInv' /\ StaysOut
<1> USE DEF cookieVars, pageHistory
<1>0. /\ page[p] \in PageStates /\ sessionCookie \in LoginOrNone /\ NoLogin \in LoginOrNone
      /\ page[p].refreshed \in LoginOrNone /\ page[p].reloaded \in LoginOrNone
  BY DEF SilentInv, PageTypes, PageStates, LoginOrNone, NoLogin
<1>1. ASSUME page' = [page EXCEPT ![p] = page'[p]], page'[p] \in PageStates,
             page'[p].attempted = page[p].attempted, page'[p].pc = page[p].pc,
             sessionCookie' \in LoginOrNone, UNCHANGED pageHistory
      PROVE  SilentInv' /\ StaysOut
  <2> DEFINE q == page'[p]
  <2> QED
    BY <1>1, QuietMove
<1>2. CASE CallRefused(p)
  <2>1. page' = [page EXCEPT ![p] = page'[p]] /\ page'[p] =
            [page[p] EXCEPT !.refresh = "sent", !.refreshed = sessionCookie]
    BY <1>2 DEF CallRefused, SilentInv, PageTypes
  <2>2. page'[p] \in PageStates /\ page'[p].attempted = page[p].attempted
        /\ page'[p].pc = page[p].pc
    BY <1>0, <2>1 DEF PageStates
  <2> QED
    BY <1>0, <1>1, <1>2, <2>1, <2>2 DEF CallRefused
<1>3. CASE RefreshServed(p)
  <2>1. PICK refresh \in {"renewed", "refused"} :
            page' = [page EXCEPT ![p] = page'[p]]
            /\ page'[p] = [page[p] EXCEPT !.refresh = refresh]
    BY <1>3 DEF RefreshServed, SilentInv, PageTypes
  <2>2. page'[p] \in PageStates /\ page'[p].attempted = page[p].attempted
        /\ page'[p].pc = page[p].pc
    BY <1>0, <2>1 DEF PageStates
  <2> QED
    BY <1>0, <1>1, <1>3, <2>1, <2>2 DEF RefreshServed
<1>4. CASE RefreshAnswered(p) /\ page[p].refresh = "renewed"
  <2>1. page' = [page EXCEPT ![p] = page'[p]] /\ page'[p] =
            [page[p] EXCEPT !.refresh = "no", !.refreshed = NoLogin, !.reload = "sent",
                            !.reloaded = page[p].refreshed]
    BY <1>4 DEF RefreshAnswered, SilentInv, PageTypes
  <2>2. page'[p] \in PageStates /\ page'[p].attempted = page[p].attempted
        /\ page'[p].pc = page[p].pc
    BY <1>0, <2>1 DEF PageStates
  <2> QED
    BY <1>0, <1>1, <1>4, <2>1, <2>2 DEF RefreshAnswered
<1>5. CASE RefreshAnswered(p) /\ page[p].refresh # "renewed"
  <2>1. page' = [page EXCEPT ![p] = page'[p]] /\ page'[p] =
            [page[p] EXCEPT !.refresh = "no", !.refreshed = NoLogin, !.user = NoLogin]
    BY <1>5 DEF RefreshAnswered, SilentInv, PageTypes
  <2>2. page'[p] \in PageStates /\ page'[p].attempted = page[p].attempted
        /\ page'[p].pc = page[p].pc
    BY <1>0, <2>1 DEF PageStates
  <2> QED
    BY <1>0, <1>1, <1>5, <2>1, <2>2 DEF RefreshAnswered
<1>6. CASE RefreshFails(p)
  <2>1. PICK user \in {page[p].user, NoLogin} :
            page' = [page EXCEPT ![p] = page'[p]]
            /\ page'[p] = [page[p] EXCEPT !.refresh = "no", !.refreshed = NoLogin, !.user = user]
    BY <1>6 DEF RefreshFails, SilentInv, PageTypes
  <2>2. user \in LoginOrNone
    BY <1>0, <2>1 DEF PageStates, LoginOrNone
  <2>3. page'[p] \in PageStates /\ page'[p].attempted = page[p].attempted
        /\ page'[p].pc = page[p].pc
    BY <1>0, <2>1, <2>2 DEF PageStates
  <2> QED
    BY <1>0, <1>1, <1>6, <2>1, <2>3 DEF RefreshFails
<1>7. CASE ReloadServed(p)
  <2>1. PICK reload \in {"user", "nobody"} :
            page' = [page EXCEPT ![p] = page'[p]]
            /\ page'[p] = [page[p] EXCEPT !.reload = reload]
    BY <1>7 DEF ReloadServed, SilentInv, PageTypes
  <2>2. page'[p] \in PageStates /\ page'[p].attempted = page[p].attempted
        /\ page'[p].pc = page[p].pc
    BY <1>0, <2>1 DEF PageStates
  <2> QED
    BY <1>0, <1>1, <1>7, <2>1, <2>2 DEF ReloadServed
<1>8. CASE ReloadAnswered(p) /\ page[p].reload # "user"
  <2>1. page' = [page EXCEPT ![p] = page'[p]] /\ page'[p] =
            [page[p] EXCEPT !.reload = "no", !.reloaded = NoLogin, !.user = NoLogin]
    BY <1>8 DEF ReloadAnswered, SilentInv, PageTypes
  <2>2. page'[p] \in PageStates /\ page'[p].attempted = page[p].attempted
        /\ page'[p].pc = page[p].pc
    BY <1>0, <2>1 DEF PageStates
  <2>3. UNCHANGED <<silent, signedOut, overtaken, sessionCookie>>
    BY <1>8 DEF ReloadAnswered
  <2> QED
    BY <1>0, <1>1, <2>1, <2>2, <2>3
\* An answer that was on its way when the page signed out: the page is overtaken.
<1>9. CASE ReloadAnswered(p) /\ page[p].reload = "user"
  <2> DEFINE q == [page[p] EXCEPT !.reload = "no", !.reloaded = NoLogin,
                      !.user = page[p].reloaded, !.attempted = FALSE, !.loggedOut = FALSE]
  <2>1. q \in PageStates /\ q.pc = page[p].pc
    BY <1>0 DEF PageStates
  <2>2. page' = [page EXCEPT ![p] = q]
    BY <1>9 DEF ReloadAnswered
  <2>3. /\ silent' = [silent EXCEPT ![p] = 0]
        /\ overtaken' = IF p \in signedOut THEN overtaken \cup {p} ELSE overtaken
        /\ UNCHANGED <<sessionCookie, signedOut>>
        /\ page[p].pc \notin Checking
    BY <1>9 DEF ReloadAnswered, Checking
  <2> HIDE DEF q
  <2>4. /\ page' \in [Pages -> PageStates] /\ page'[p] = q
        /\ \A o \in Pages \ {p} : page'[o] = page[o]
    BY <2>1, <2>2, PageMoves DEF SilentInv
  <2>5. /\ silent' \in [Pages -> Nat] /\ silent'[p] = 0
        /\ \A o \in Pages \ {p} : silent'[o] = silent[o]
    BY <2>3 DEF SilentInv, PageTypes
  <2>6. PageTypes'
    BY <2>3, <2>4, <2>5 DEF SilentInv, PageTypes
  <2>7. Remembers(p)' /\ silent'[p] <= silent[p]
    BY <2>1, <2>3, <2>4, <2>5 DEF SilentInv, PageTypes, Remembers
  <2>8. signedOut' \ {p} = signedOut \ {p} /\ overtaken' \ {p} = overtaken \ {p}
    BY <2>3
  <2> QED
    BY <2>4, <2>5, <2>6, <2>7, <2>8, SilentFrame
<1> QED
  BY <1>2, <1>3, <1>4, <1>5, <1>6, <1>7, <1>8, <1>9 DEF Refresh, RefreshAnswered, ReloadAnswered

\* A page signs out.
LEMMA SignOutKeepsSilent ==
  ASSUME SilentInv, NEW p \in Pages, SignOut(p)
  PROVE  SilentInv' /\ StaysOut
<1> USE DEF cookieVars, pageHistory
<1>0. page[p] \in PageStates /\ sessionCookie \in LoginOrNone /\ NoLogin \in LoginOrNone
  BY DEF SilentInv, PageTypes, LoginOrNone, NoLogin
<1>1. ASSUME NEW pc \in {"loggingOut", "loggedOut", "ready"}, NEW asked \in LoginOrNone,
             page' = [page EXCEPT ![p] = [page[p] EXCEPT !.pc = pc, !.asked = asked]],
             UNCHANGED <<sessionCookie, silent, signedOut, overtaken>>
      PROVE  SilentInv' /\ StaysOut
  <2> DEFINE q == [page[p] EXCEPT !.pc = pc, !.asked = asked]
  <2>1. q \in PageStates /\ q.attempted = page[p].attempted /\ q.pc = pc
    BY <1>0 DEF PageStates
  <2> HIDE DEF q
  <2> QED
    BY <1>0, <1>1, <2>1, QuietMove DEF q, Checking
<1>2. CASE PageLogout(p) \/ LogoutServed(p) \/ LogoutFails(p)
  <2>1. UNCHANGED <<sessionCookie, silent, signedOut, overtaken>>
    BY <1>2 DEF PageLogout, LogoutServed, LogoutFails
  <2>2. PICK pc \in {"loggingOut", "loggedOut", "ready"}, asked \in {sessionCookie, NoLogin} :
            page' = [page EXCEPT ![p] = [page[p] EXCEPT !.pc = pc, !.asked = asked]]
    BY <1>2 DEF PageLogout, LogoutServed, LogoutFails, SilentInv, PageTypes
  <2> QED
    BY <1>0, <1>1, <2>1, <2>2
<1>3. CASE ReturnFromKeycloak(p)
  <2>1. UNCHANGED <<sessionCookie, silent, signedOut, overtaken>>
        /\ page' = [page EXCEPT ![p] = Loads(p, FALSE)]
    BY <1>3 DEF ReturnFromKeycloak
  <2>2. Loads(p, FALSE) \in PageStates /\ Loads(p, FALSE).pc = "loading"
        /\ Loads(p, FALSE).attempted = page[p].attempted
    BY <1>0, <2>1 DEF Loads, PageStates
  <2> QED
    BY <1>0, <2>1, <2>2, QuietMove DEF Checking
<1>4. CASE LogoutAnswered(p)
  <2>1. Left(p) \in PageStates /\ Left(p).pc = "leaving" /\ Left(p).attempted
    BY <1>0 DEF Left, PageStates, NoLogin, LoginOrNone
  <2>2. /\ page' = [page EXCEPT ![p] = Left(p)]
        /\ signedOut' = signedOut \cup {p} /\ overtaken' = overtaken \ {p}
        /\ sessionCookie' = NoLogin /\ UNCHANGED silent
    BY <1>4 DEF LogoutAnswered
  <2>3. /\ page' \in [Pages -> PageStates] /\ page'[p] = Left(p)
        /\ \A o \in Pages \ {p} : page'[o] = page[o]
    BY <2>1, <2>2, PageMoves DEF SilentInv
  <2>4. PageTypes'
    BY <1>0, <2>2, <2>3 DEF SilentInv, PageTypes
  <2>5. Remembers(p)' /\ silent'[p] <= silent[p]
    BY <2>1, <2>2, <2>3 DEF SilentInv, PageTypes, Remembers, Checking
  <2>6. signedOut' \ {p} = signedOut \ {p} /\ overtaken' \ {p} = overtaken \ {p}
    BY <2>2
  <2> QED
    BY <2>2, <2>3, <2>4, <2>5, <2>6, SilentFrame
<1> QED
  BY <1>2, <1>3, <1>4 DEF SignOut

LEMMA StepSilentInv ==
  SilentInv /\ CodesInv /\ [SignInNext]_signInVars => SilentInv' /\ StaysOut
<1> SUFFICES ASSUME SilentInv, Types, [SignInNext]_signInVars
             PROVE  SilentInv' /\ StaysOut
  BY DEF CodesInv
<1>1. CASE UNCHANGED signInVars
  BY <1>1, PagesStand DEF signInVars, cookieVars, SilentInv, PageTypes
<1> QED
  BY <1>1, InitializeKeepsSilent, AskingKeepsSilent, RefreshKeepsSilent, SignOutKeepsSilent,
     RedirectsKeepSilent DEF SignInNext

\* SilentChecksEnd: whatever fails in its requests and however often it is reloaded, a
\* page checks for a Keycloak session at most twice until it knows a user or is asked
\* to log in, for the marker in its sessionStorage outlives the page.
THEOREM PagesCheckSilentlyTwiceAtMost == SignInSpec => []SilentChecksEnd
<1>1. SilentInv => SilentChecksEnd
  BY DEF SilentInv, Remembers, SilentChecksEnd
<1> QED
  BY <1>1, InitCodesInv, StepCodesInv, InitSilentInv, StepSilentInv, PTL DEF SignInSpec

\* SignedOutStaysOut: no step of any page, login or callback makes a page that signed
\* out try a silent login, unless an answer of the old session reached it later.
THEOREM SigningOutLasts == SignInSpec => SignedOutStaysOut
<1>1. SilentInv /\ CodesInv /\ [SignInNext]_signInVars
        => [\A p \in signedOut \ overtaken : silent'[p] <= silent[p]]_signInVars
  BY StepSilentInv DEF StaysOut
<1> QED
  BY <1>1, InitCodesInv, StepCodesInv, InitSilentInv, StepSilentInv, PTL DEF SignInSpec, SignedOutStaysOut
=============================================================================
