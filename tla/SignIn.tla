------------------------------- MODULE SignIn -------------------------------
(***************************************************************************)
(* Signing in and out of one browser: its pages (tabs) share two cookies,  *)
(* the state of the authorization request under way and the session.  A    *)
(* page that opens as a guest checks for a Keycloak session in a hidden    *)
(* iframe and falls back to a redirect of the whole page; a login that     *)
(* somebody asks for is a redirect too.  Requests are served at once, and  *)
(* their answers (with the cookies they set) arrive later.                 *)
(*                                                                         *)
(* A login, the state it stores in Redis, its authorization code and the   *)
(* session it creates share a number.                                      *)
(***************************************************************************)
EXTENDS Naturals, Sequences, FiniteSets

CONSTANTS
    Pages,
    WorkingPages, \* bound: the pages that are opened, make calls and sign out; a
                  \* guest has the others open, and may log in there
    MaxLogins,    \* bound on logins
    MaxFaults     \* bound on failures, lost answers, slow frames, repeated callbacks

ASSUME SignInAssumption ==
    /\ WorkingPages \subseteq Pages
    /\ {MaxLogins, MaxFaults} \subseteq Nat

VARIABLES
    login,          \* the logins so far
    callback,       \* for each login, the deliveries of its callback
    states,         \* logins whose state is in Redis
    sessions,       \* logins whose session is in Redis
    honoured,       \* those whose tokens Keycloak accepts
    sso,            \* Keycloak knows the user of the browser
    redeemed,       \* how often Keycloak saw the code of each login
    stateCookie,
    sessionCookie,
    page,           \* each page
    faults,
    silent,         \* silent logins of a page since it knew a user or asked (history)
    signedOut,      \* pages that signed out, and knew no user and asked for none since
    overtaken       \* ... and were told of the old session after that

redisVars == <<states, sessions>>
keycloakVars == <<honoured, sso, redeemed>>
cookieVars == <<stateCookie, sessionCookie>>
pageHistory == <<silent, signedOut, overtaken>>
serverVars == <<login, callback, redisVars, keycloakVars>>
signInVars == <<serverVars, cookieVars, page, faults,
          pageHistory>>

-----------------------------------------------------------------------------

Logins == 1..MaxLogins
NoLogin == 0
LoginOrNone == 0..MaxLogins

LoginStates ==
    [pc : {"redirecting", "keycloak", "returned", "dead"},
     prompt : {"none", "login"}, page : Pages, framed : BOOLEAN]

Deliveries ==
    [pc : {"received", "exchanging", "refused", "failed", "guest", "session", "done"},
     code : BOOLEAN, cookie : LoginOrNone]

\* login: the login the page or its iframe is on.  asked: the session cookie of the
\* request under way.  none: the address carries sso=none.  attempted, loggedOut:
\* the markers in sessionStorage.
PageStates ==
    [pc : {"closed", "loading", "checking", "confirming", "ready", "away", "error",
           "loggingOut", "loggedOut", "leaving"},
     login : LoginOrNone, asked : LoginOrNone, user : LoginOrNone,
     attempted : BOOLEAN, none : BOOLEAN, loggedOut : BOOLEAN,
     refresh : {"no", "sent", "renewed", "refused"}, refreshed : LoginOrNone,
     reload : {"no", "sent", "user", "nobody"}, reloaded : LoginOrNone]

SignInTypeOK ==
    /\ login \in Seq(LoginStates) /\ Len(login) <= MaxLogins
    /\ callback \in [Logins -> Seq(Deliveries)]
    /\ {states, sessions, honoured} \subseteq SUBSET Logins
    /\ honoured \subseteq sessions
    /\ sso \in BOOLEAN
    /\ redeemed \in [Logins -> Nat]
    /\ {stateCookie, sessionCookie} \subseteq LoginOrNone
    /\ page \in [Pages -> PageStates]
    /\ faults \in 0..MaxFaults
    /\ silent \in [Pages -> Nat]
    /\ {signedOut, overtaken} \subseteq SUBSET Pages

SignInInit ==
    /\ login = <<>>
    /\ callback = [n \in Logins |-> <<>>]
    /\ states = {} /\ sessions = {} /\ honoured = {}
    /\ sso \in BOOLEAN
    /\ redeemed = [n \in Logins |-> 0]
    /\ stateCookie = NoLogin /\ sessionCookie = NoLogin
    /\ page = [p \in Pages |->
                 [pc |-> IF p \in WorkingPages THEN "closed" ELSE "ready",
                  login |-> NoLogin, asked |-> NoLogin, user |-> NoLogin,
                  attempted |-> p \notin WorkingPages, none |-> FALSE,
                  loggedOut |-> FALSE, refresh |-> "no", refreshed |-> NoLogin,
                  reload |-> "no", reloaded |-> NoLogin]]
    /\ faults = 0
    /\ silent = [p \in Pages |-> 0]
    /\ signedOut = {} /\ overtaken = {}

Fault == faults < MaxFaults /\ faults' = faults + 1

-----------------------------------------------------------------------------
(* What the steps are made of *)

\* The application starts on the page: initialize asks for the current user.
Loads(p, none) ==
    [page[p] EXCEPT !.pc = "loading", !.login = NoLogin, !.asked = sessionCookie',
                    !.user = NoLogin, !.none = none,
                    !.refresh = "no", !.refreshed = NoLogin,
                    !.reload = "no", !.reloaded = NoLogin]

\* GET login/redirect stores a fresh state in Redis; its answer is on the way.
StartLogin(p, prompt, framed) ==
    /\ Len(login) < MaxLogins
    /\ login' = Append(login, [pc |-> "redirecting", prompt |-> prompt, page |-> p,
                               framed |-> framed])
    /\ states' = states \cup {Len(login) + 1}

NewLogin == Len(login) + 1

\* The page has not left what it was doing for login n.
Waiting(n) ==
    /\ page[login[n].page].login = n
    /\ page[login[n].page].pc = IF login[n].framed THEN "checking" ELSE "away"

\* authenticateSession: the session is stored and its tokens are good, or are
\* believed to be for as long as the principal is cached.
Accepted(n) == n \in sessions
Rejected(n) == n \notin honoured

\* loadCurrentUser found a user.
Known(p, n) ==
    [page[p] EXCEPT !.pc = IF @ \in {"loading", "confirming"} THEN "ready" ELSE @,
                    !.login = NoLogin, !.asked = NoLogin, !.user = n,
                    !.attempted = FALSE, !.loggedOut = FALSE]

Initialized(p) ==
    [page[p] EXCEPT !.pc = "ready", !.login = NoLogin, !.asked = NoLogin,
                    !.user = NoLogin]

-----------------------------------------------------------------------------
(* initialize *)

\* The user opens the application, reloads it or comes back to it.
OpenPage(p) ==
    /\ p \in WorkingPages
    /\ page[p].pc \in {"closed", "ready", "away", "error"}
    /\ UNCHANGED <<serverVars, cookieVars, faults, pageHistory>>
    /\ \E none \in {FALSE, page[p].none} : page' = [page EXCEPT ![p] = Loads(p, none)]

UserLoaded(p) ==
    /\ page[p].pc \in {"loading", "confirming"}
    /\ Accepted(page[p].asked)
    /\ page' = [page EXCEPT ![p] = Known(p, page[p].asked)]
    /\ silent' = [silent EXCEPT ![p] = 0]
    /\ signedOut' = signedOut \ {p}
    /\ overtaken' = overtaken \ {p}
    /\ UNCHANGED <<serverVars, cookieVars, faults>>

\* hasSilentSsoFailureMarker, and the marker of an earlier attempt.
MayCheck(p) == ~page[p].none /\ ~page[p].attempted

\* The endpoint is public: a session that is gone, or not accepted, is a guest's.
\* checkExistingSsoSession opens the iframe once.
GuestLoaded(p) ==
    /\ page[p].pc = "loading"
    /\ Rejected(page[p].asked)
    /\ IF MayCheck(p)
       THEN /\ StartLogin(p, "none", TRUE)
            /\ page' = [page EXCEPT ![p].pc = "checking", ![p].asked = NoLogin,
                                    ![p].attempted = TRUE, ![p].login = NewLogin]
            /\ silent' = [silent EXCEPT ![p] = @ + 1]
       ELSE /\ page' = [page EXCEPT ![p] = Initialized(p)]
            /\ UNCHANGED <<login, states, silent>>
    /\ UNCHANGED <<callback, sessions, keycloakVars, cookieVars, faults, signedOut, overtaken>>

\* The request fails: initialize throws, and the page is initialized all the same.
LoadFails(p) ==
    /\ page[p].pc = "loading"
    /\ Fault
    /\ page' = [page EXCEPT ![p] = Initialized(p)]
    /\ UNCHANGED <<serverVars, cookieVars, pageHistory>>

\* The check said "authenticated", and the session is not accepted.
ConfirmedGuest(p) ==
    /\ page[p].pc = "confirming"
    /\ Rejected(page[p].asked)
    /\ page' = [page EXCEPT ![p] = Initialized(p)]
    /\ UNCHANGED <<serverVars, cookieVars, faults, pageHistory>>

\* The catch of checkExistingSsoSession: loginWithExistingSsoSession marks the
\* attempt again and redirects the page.
FallBackUnmarked(p) ==
    /\ StartLogin(p, "none", FALSE)
    /\ page' = [page EXCEPT ![p].pc = "away", ![p].asked = NoLogin,
                            ![p].attempted = FALSE, ![p].login = NewLogin]
    /\ silent' = [silent EXCEPT ![p] = @ + 1]

FallBack(p) ==
    /\ StartLogin(p, "none", FALSE)
    /\ page' = [page EXCEPT ![p].pc = "away", ![p].asked = NoLogin,
                            ![p].attempted = TRUE, ![p].login = NewLogin]
    /\ silent' = [silent EXCEPT ![p] = @ + 1]

ConfirmFails(p) ==
    /\ page[p].pc = "confirming"
    /\ Fault
    /\ FallBack(p)
    /\ UNCHANGED <<callback, sessions, keycloakVars, cookieVars, signedOut, overtaken>>

\* 15 s pass: the iframe shows an error, which posts no message, or is slow.
NoTimeout(p) == FALSE

FrameTimesOut(p) == login[page[p].login].pc = "dead"

CheckTimesOut(p) ==
    /\ page[p].pc = "checking"
    /\ \/ FrameTimesOut(p) /\ UNCHANGED faults
       \/ login[page[p].login].pc # "dead" /\ Fault
    /\ FallBack(p)
    /\ UNCHANGED <<callback, sessions, keycloakVars, cookieVars, signedOut, overtaken>>

-----------------------------------------------------------------------------
(* Login *)

\* The login page, or authGuard on a protected page.
Login(p) ==
    /\ page[p].pc = "ready" /\ page[p].user = NoLogin
    /\ StartLogin(p, "login", FALSE)
    /\ page' = [page EXCEPT ![p].pc = "away", ![p].login = NewLogin,
                            ![p].attempted = FALSE, ![p].loggedOut = FALSE]
    /\ silent' = [silent EXCEPT ![p] = 0]
    /\ signedOut' = signedOut \ {p}
    /\ overtaken' = overtaken \ {p}
    /\ UNCHANGED <<callback, sessions, keycloakVars, cookieVars, faults>>

\* authGuard after a logout: the login page instead of a login, once.
ConsumePostLogoutRedirect(p) ==
    /\ page[p].pc = "ready" /\ page[p].user = NoLogin /\ page[p].loggedOut
    /\ page' = [page EXCEPT ![p].loggedOut = FALSE]
    /\ UNCHANGED <<serverVars, cookieVars, faults, pageHistory>>

\* The redirect to Keycloak arrives with the state cookie; a page or an iframe that
\* moved on has dropped it.
LoginAnswered(n) ==
    /\ login[n].pc = "redirecting"
    /\ IF Waiting(n)
       THEN /\ stateCookie' = n
            /\ login' = [login EXCEPT ![n].pc = "keycloak"]
       ELSE /\ login' = [login EXCEPT ![n].pc = "dead"]
            /\ UNCHANGED stateCookie
    /\ UNCHANGED <<callback, redisVars, keycloakVars, sessionCookie, page, faults, pageHistory>>

\* The page shows an error; an iframe shows it to nobody.
Broken(n) ==
    IF login[n].framed THEN page ELSE [page EXCEPT ![login[n].page].pc = "error"]

\* The state cannot be stored, or the answer is lost.
LoginFails(n) ==
    /\ login[n].pc = "redirecting"
    /\ Waiting(n)
    /\ Fault
    /\ login' = [login EXCEPT ![n].pc = "dead"]
    /\ page' = Broken(n)
    /\ UNCHANGED <<callback, redisVars, keycloakVars, cookieVars, pageHistory>>

\* Keycloak redirects to the callback, with a code or with an error: login_required,
\* or a user who turns back.
KeycloakReturns(n) ==
    /\ login[n].pc = "keycloak"
    /\ Waiting(n)
    /\ \E code \in IF login[n].prompt = "none" \/ sso THEN {sso} ELSE BOOLEAN :
          /\ sso' = (sso \/ code)
          /\ callback' = [callback EXCEPT ![n] =
                <<[pc |-> "received", code |-> code, cookie |-> stateCookie]>>]
    /\ login' = [login EXCEPT ![n].pc = "returned"]
    /\ UNCHANGED <<redisVars, honoured, redeemed, cookieVars, page, faults, pageHistory>>

\* The browser, or its user, sends the callback again.
RepeatCallback(n) ==
    /\ Len(callback[n]) = 1
    /\ ~login[n].framed /\ Waiting(n)
    /\ Fault
    /\ callback' = [callback EXCEPT ![n] =
          Append(@, [pc |-> "received", code |-> @[1].code, cookie |-> stateCookie])]
    /\ UNCHANGED <<login, redisVars, keycloakVars, cookieVars, page, pageHistory>>

Delivery(n, d, pc) == callback' = [callback EXCEPT ![n][d].pc = pc]

\* The browser has its answer; an earlier delivery may still be served.
Finished(n) ==
    callback' = [callback EXCEPT ![n] =
                    IF \A d \in 1..(Len(@) - 1) : @[d].pc = "done" THEN <<>>
                    ELSE [@ EXCEPT ![Len(@)].pc = "done"]]

KeptState(n) == states

\* The script of consume: the state is read and deleted in one step.
ConsumedState(n) == states \ {n}

\* callback: the state is the cookie's and is consumed; an error of Keycloak sends
\* the browser back as a guest.
ConsumeAuthorizationState(n, d) ==
    /\ callback[n][d].pc = "received"
    /\ IF callback[n][d].cookie = n /\ n \in states
       THEN /\ states' = ConsumedState(n)
            /\ Delivery(n, d, IF callback[n][d].code THEN "exchanging" ELSE "guest")
       ELSE /\ Delivery(n, d, "refused")
            /\ UNCHANGED states
    /\ UNCHANGED <<login, sessions, keycloakVars, cookieVars, page, faults, pageHistory>>

\* Keycloak gives tokens for a code once, and withdraws them when it sees it again.
\* The session is stored, or not.
ExchangeCode(n, stored) ==
    /\ redeemed' = [redeemed EXCEPT ![n] = @ + 1]
    /\ IF redeemed[n] = 0 /\ stored
       THEN sessions' = sessions \cup {n} /\ honoured' = honoured \cup {n}
       ELSE honoured' = honoured \ {n} /\ UNCHANGED sessions

\* exchangeCodeForTokens and createSession.
ExchangeCodeForTokens(n, d) ==
    /\ callback[n][d].pc = "exchanging"
    /\ ExchangeCode(n, TRUE)
    /\ Delivery(n, d, IF redeemed[n] = 0 THEN "session" ELSE "failed")
    /\ UNCHANGED <<login, states, sso, cookieVars, page, faults, pageHistory>>

\* Redis, Keycloak or the database fails before, in or after the step.
CallbackFails(n, d) ==
    /\ callback[n][d].pc \in {"received", "exchanging"}
    /\ Fault
    /\ Delivery(n, d, "failed")
    /\ \/ /\ callback[n][d].pc = "received" /\ callback[n][d].cookie = n
          /\ states' = states \ {n}
          /\ UNCHANGED <<sessions, honoured, redeemed>>
       \/ /\ callback[n][d].pc = "exchanging"
          /\ \E stored \in BOOLEAN : ExchangeCode(n, stored)
          /\ UNCHANGED states
       \/ UNCHANGED <<states, sessions, honoured, redeemed>>
    /\ UNCHANGED <<login, sso, cookieVars, page, pageHistory>>

\* What the page, or the listener of its iframe, makes of the answer.
AfterCallback(n, pc) ==
    LET p == login[n].page IN
    CASE pc \in {"refused", "failed"} -> Broken(n)
      [] login[n].framed /\ pc = "guest" -> [page EXCEPT ![p] = Initialized(p)]
      [] login[n].framed /\ pc = "session" ->
            [page EXCEPT ![p].pc = "confirming", ![p].asked = n]
      [] OTHER ->
            [page EXCEPT ![p] = Loads(p, pc = "guest" /\ login[n].prompt = "none")]

\* Every answer clears the state cookie, a good one sets the session's.  A page that
\* moved on, or sent the callback again, has dropped it.
CallbackAnswered(n, d) ==
    LET pc == callback[n][d].pc IN
    /\ pc \in {"refused", "failed", "guest", "session"}
    /\ IF Waiting(n) /\ d = Len(callback[n])
       THEN /\ Finished(n)
            /\ stateCookie' = NoLogin
            /\ sessionCookie' = IF pc = "session" THEN n ELSE sessionCookie
            /\ page' = AfterCallback(n, pc)
            /\ login' = IF pc \in {"refused", "failed"}
                        THEN [login EXCEPT ![n].pc = "dead"] ELSE login
       ELSE /\ Delivery(n, d, "done")
            /\ UNCHANGED <<cookieVars, page, login>>
    /\ UNCHANGED <<redisVars, keycloakVars, faults, pageHistory>>

-----------------------------------------------------------------------------
(* Refresh *)

\* authInterceptor: a call was answered 401.
CallRefused(p) ==
    /\ p \in WorkingPages
    /\ page[p].pc \in {"ready", "loggingOut"}
    /\ page[p].refresh = "no"
    /\ sessionCookie # NoLogin \/ page[p].user # NoLogin
    /\ \/ Rejected(sessionCookie) /\ UNCHANGED faults
       \/ Fault
    /\ page' = [page EXCEPT ![p].refresh = "sent", ![p].refreshed = sessionCookie]
    /\ UNCHANGED <<serverVars, cookieVars, pageHistory>>

RefreshServed(p) ==
    LET n == page[p].refreshed IN
    /\ page[p].refresh = "sent"
    /\ page' = [page EXCEPT ![p].refresh = IF n \in honoured
                                           THEN "renewed" ELSE "refused"]
    /\ UNCHANGED <<serverVars, cookieVars, faults, pageHistory>>

\* The session's cookie is set again, and the user is read again; without a session
\* the user is forgotten.
RefreshAnswered(p) ==
    /\ page[p].pc \in {"ready", "loggingOut", "loggedOut", "leaving"}
    /\ page[p].refresh \in {"renewed", "refused"}
    /\ IF page[p].refresh = "renewed"
       THEN /\ sessionCookie' = page[p].refreshed
            /\ page' = [page EXCEPT ![p].refresh = "no", ![p].refreshed = NoLogin,
                                    ![p].reload = "sent",
                                    ![p].reloaded = page[p].refreshed]
       ELSE /\ page' = [page EXCEPT ![p].refresh = "no", ![p].refreshed = NoLogin,
                                    ![p].user = NoLogin]
            /\ UNCHANGED sessionCookie
    /\ UNCHANGED <<serverVars, stateCookie, faults, pageHistory>>

\* Keycloak is out of reach for a while, and the user stays; or the answer is lost,
\* and the user is forgotten.
RefreshFails(p) ==
    /\ page[p].refresh = "sent"
    /\ Fault
    /\ \E user \in {page[p].user, NoLogin} :
         page' = [page EXCEPT ![p].refresh = "no", ![p].refreshed = NoLogin, ![p].user = user]
    /\ UNCHANGED <<serverVars, cookieVars, pageHistory>>

ReloadServed(p) ==
    /\ page[p].reload = "sent"
    /\ \/ Accepted(page[p].reloaded) /\ page' = [page EXCEPT ![p].reload = "user"]
       \/ Rejected(page[p].reloaded) /\ page' = [page EXCEPT ![p].reload = "nobody"]
    /\ UNCHANGED <<serverVars, cookieVars, faults, pageHistory>>

\* loadCurrentUser of the refresh, also after the answer of a logout.
ReloadAnswered(p) ==
    /\ page[p].pc \in {"ready", "loggingOut", "loggedOut", "leaving"}
    /\ page[p].reload \in {"user", "nobody"}
    /\ LET rest == [page[p] EXCEPT !.reload = "no", !.reloaded = NoLogin] IN
       IF page[p].reload = "user"
       THEN /\ page' = [page EXCEPT ![p] =
                  [rest EXCEPT !.user = page[p].reloaded, !.attempted = FALSE,
                               !.loggedOut = FALSE]]
            /\ silent' = [silent EXCEPT ![p] = 0]
            /\ overtaken' = IF p \in signedOut THEN overtaken \cup {p} ELSE overtaken
       ELSE /\ page' = [page EXCEPT ![p] = [rest EXCEPT !.user = NoLogin]]
            /\ UNCHANGED <<silent, overtaken>>
    /\ UNCHANGED <<serverVars, cookieVars, faults, signedOut>>

-----------------------------------------------------------------------------
(* Logout *)

PageLogout(p) ==
    /\ p \in WorkingPages
    /\ page[p].pc = "ready" /\ page[p].user # NoLogin
    /\ page' = [page EXCEPT ![p].pc = "loggingOut", ![p].asked = sessionCookie]
    /\ UNCHANGED <<serverVars, cookieVars, faults, pageHistory>>

\* Keycloak's logout by refresh token ends what it knows of the browser.
EndSso == sso' = FALSE /\ honoured' = {}

\* Each part is best effort: the session is deleted, then ended at Keycloak.
LogoutServed(p) ==
    LET n == page[p].asked IN
    /\ page[p].pc = "loggingOut"
    /\ \/ /\ sessions' = sessions \ {n}
          /\ IF n \in honoured THEN EndSso ELSE UNCHANGED <<sso, honoured>>
          /\ UNCHANGED faults
       \/ /\ Fault
          /\ sessions' = sessions \ {n}
          /\ honoured' = honoured \ {n}
          /\ UNCHANGED sso
       \/ /\ Fault
          /\ UNCHANGED sessions
          /\ IF n \in honoured THEN EndSso ELSE UNCHANGED <<sso, honoured>>
    /\ page' = [page EXCEPT ![p].pc = "loggedOut", ![p].asked = NoLogin]
    /\ UNCHANGED <<login, callback, states, redeemed, cookieVars, pageHistory>>

\* markPostLogoutRedirect without the second marker.
LeftUnmarked(p) ==
    [page[p] EXCEPT !.pc = "leaving", !.user = NoLogin, !.loggedOut = TRUE]

\* clearSession and markPostLogoutRedirect; the browser is sent to Keycloak.
Left(p) ==
    [page[p] EXCEPT !.pc = "leaving", !.user = NoLogin, !.loggedOut = TRUE,
                    !.attempted = TRUE]

LogoutAnswered(p) ==
    /\ page[p].pc = "loggedOut"
    /\ sessionCookie' = NoLogin
    /\ page' = [page EXCEPT ![p] = Left(p)]
    /\ signedOut' = signedOut \cup {p}
    /\ overtaken' = overtaken \ {p}
    /\ UNCHANGED <<serverVars, stateCookie, faults, silent>>

\* The request or its answer is lost: the page goes on.
LogoutFails(p) ==
    /\ page[p].pc \in {"loggingOut", "loggedOut"}
    /\ Fault
    /\ page' = [page EXCEPT ![p].pc = "ready", ![p].asked = NoLogin]
    /\ UNCHANGED <<serverVars, cookieVars, pageHistory>>

\* Keycloak's logout page, where the user may confirm, and back to the application.
ReturnFromKeycloak(p) ==
    /\ page[p].pc = "leaving"
    /\ EndSso \/ UNCHANGED <<sso, honoured>>
    /\ UNCHANGED <<login, callback, redisVars, redeemed, cookieVars, faults, pageHistory>>
    /\ page' = [page EXCEPT ![p] = Loads(p, FALSE)]

-----------------------------------------------------------------------------
(* Time *)

\* A cookie expires with what it names; what no cookie names is out of reach.
StoredSessionExpires(n) ==
    /\ n \in sessions /\ sessionCookie = n
    /\ sessions' = sessions \ {n}
    /\ honoured' = honoured \ {n}
    /\ sessionCookie' = NoLogin
    /\ UNCHANGED <<login, callback, states, sso, redeemed, stateCookie, page, faults, pageHistory>>

StateExpires(n) ==
    /\ n \in states /\ stateCookie = n
    /\ states' = states \ {n}
    /\ stateCookie' = NoLogin
    /\ UNCHANGED <<login, callback, sessions, keycloakVars, sessionCookie, page, faults, pageHistory>>

-----------------------------------------------------------------------------

Initialize(p) ==
    UserLoaded(p) \/ GuestLoaded(p) \/ LoadFails(p) \/ ConfirmedGuest(p)
        \/ ConfirmFails(p) \/ CheckTimesOut(p)

Refresh(p) ==
    CallRefused(p) \/ RefreshServed(p) \/ RefreshAnswered(p) \/ RefreshFails(p)
        \/ ReloadServed(p) \/ ReloadAnswered(p)

SignOut(p) ==
    PageLogout(p) \/ LogoutServed(p) \/ LogoutAnswered(p) \/ LogoutFails(p)
        \/ ReturnFromKeycloak(p)

Redirects(n) ==
    LoginAnswered(n) \/ LoginFails(n) \/ KeycloakReturns(n) \/ RepeatCallback(n)

Callback(n, d) ==
    ConsumeAuthorizationState(n, d) \/ ExchangeCodeForTokens(n, d) \/ CallbackFails(n, d)
        \/ CallbackAnswered(n, d)

SignInNext ==
    \/ \E p \in Pages : OpenPage(p)
    \/ \E p \in Pages : Initialize(p)
    \/ \E p \in Pages : Login(p)
    \/ \E p \in Pages : ConsumePostLogoutRedirect(p)
    \/ \E p \in Pages : Refresh(p)
    \/ \E p \in Pages : SignOut(p)
    \/ \E n \in DOMAIN login : Redirects(n)
    \/ \E n \in DOMAIN login : \E d \in DOMAIN callback[n] : Callback(n, d)
    \/ \E n \in DOMAIN login : StoredSessionExpires(n) \/ StateExpires(n)

\* Requests are answered, redirects followed and timers fire; the user may do nothing.
\* Keycloak answers a silent login by itself.
Fairness ==
    /\ \A p \in Pages : WF_signInVars(Initialize(p))
    /\ \A n \in Logins :
          /\ WF_signInVars(n \in DOMAIN login /\ LoginAnswered(n))
          /\ WF_signInVars(n \in DOMAIN login /\ login[n].prompt = "none" /\ KeycloakReturns(n))
          /\ \A d \in 1..2 :
                WF_signInVars(n \in DOMAIN login /\ d \in DOMAIN callback[n] /\ Callback(n, d))

SignInSpec == SignInInit /\ [][SignInNext]_signInVars /\ Fairness

-----------------------------------------------------------------------------
(* Properties *)

\* consume: a callback that is delivered again, while the first is served or after it,
\* does not present its code to Keycloak again, which would end the session the first
\* one created.
CodesAreRedeemedOnce == \A n \in Logins : redeemed[n] <= 1

\* silentSsoAttemptStorageKey: until it knows a user or is asked to log in, a page
\* checks silently at most twice, in an iframe and by a redirect, however often it
\* fails and is reloaded: it never redirects in circles.
SilentChecksEnd == \A p \in Pages : silent[p] <= 2

\* markPostLogoutRedirect: a page that signed out does not sign in again by itself,
\* although Keycloak may still know the user. The answer to a request of the signed-out
\* session that arrives after the logout's removes the markers: that case is excepted.
SignedOutStaysOut ==
    [][\A p \in signedOut \ overtaken : silent'[p] <= silent[p]]_signInVars

\* initialize: whatever becomes of its requests and of its iframe, a page that starts
\* comes to be ready or leaves for Keycloak, unless MaxLogins cuts the behaviour.
PagesInitialize ==
    \A p \in Pages :
        page[p].pc \in {"loading", "checking", "confirming"}
            ~> page[p].pc \notin {"loading", "checking", "confirming"}
               \/ Len(login) = MaxLogins
=============================================================================
