------------------------- MODULE KioskAuthorization -------------------------
(***************************************************************************)
(* One-ballot authorizations of the voting kiosk: an operator's browser    *)
(* obtains a token for a voter who shows a TOTP code, and the token is     *)
(* spent by one submission.  The keys live in Redis with an expiry; each   *)
(* Lua script is one atomic step, every other await is a point where       *)
(* requests interleave, fail or die with the process.                      *)
(*                                                                         *)
(* An authorize request and the token it may issue share a name.  Time is  *)
(* counted in TOTP periods of 30 s.                                        *)
(***************************************************************************)
EXTENDS Naturals, FiniteSets

CONSTANTS
    Attempts,         \* authorize requests, and the tokens they issue
    Voters,
    EmailOf,          \* the voter whose primary email an attempt names
    Submissions,      \* POST responses requests
    Sessions,         \* operator sessions that may use the browser
    AttemptLimit,     \* validations per session and window
    GlobalLimit,      \* validations per email and window
    ResponsePolicy,   \* of the poll: "single", "editable" or "multiple"
    MaxLatency,       \* periods authorize takes at most after the TOTP validation
    TokenLifetime,    \* periods an authorization lives after the TOTP validation
    MaxTime,          \* bound on time
    MaxFaults,        \* bound on lost answers, failed calls and dying processes
    NoToken

ASSUME KioskAssumption ==
    /\ EmailOf \in [Attempts -> Voters]
    /\ NoToken \notin Attempts
    /\ {AttemptLimit, GlobalLimit, MaxLatency, TokenLifetime, MaxTime, MaxFaults} \subseteq Nat
    /\ ResponsePolicy \in {"single", "editable", "multiple"}

VARIABLES
    now,            \* current TOTP period
    attemptCount,   \* attempt counters in Redis: per session and email
    globalCount,    \* ... and per email
    attempt,        \* each authorize request
    tokenKey,       \* tokens stored under their authorization key
    reservation,    \* tokens stored under their reservation key
    expired,        \* tokens past their expiresAt
    replay,         \* used TOTP counters: [voter, counter, until]
    cookie,         \* the token the browser holds
    session,        \* the operator session of the browser
    submission,     \* each submission request
    votes,          \* ballots created with each token
    voted,          \* voters with a ballot
    faults          \* what went wrong so far, up to MaxFaults

redisVars == <<attemptCount, globalCount, tokenKey, reservation, expired, replay>>
browserVars == <<cookie, session>>
voteVars == <<votes, voted>>
kioskVars == <<now, redisVars, attempt, browserVars, submission, voteVars, faults>>

-----------------------------------------------------------------------------

TotpReplayPeriods == 4   \* TOTP_REPLAY_TTL_SECONDS = 120

AttemptStates ==
    [pc : {"idle", "counted", "validated", "stored", "issued", "answered", "failed"},
     session : Sessions, previous : Attempts \cup {NoToken},
     counter : Nat, at : Nat]

SubmissionStates ==
    [pc : {"idle", "sent", "reserved", "releasing", "committed", "done", "failed"},
     token : Attempts \cup {NoToken}, session : Sessions]

KioskTypeOK ==
    /\ now \in 0..MaxTime
    /\ attemptCount \in [Sessions -> [Voters -> Nat]]
    /\ globalCount \in [Voters -> Nat]
    /\ attempt \in [Attempts -> AttemptStates]
    /\ tokenKey \subseteq Attempts
    /\ reservation \subseteq Attempts
    /\ expired \subseteq Attempts
    /\ replay \subseteq [voter : Voters, counter : Nat, until : Nat]
    /\ cookie \in Attempts \cup {NoToken}
    /\ session \in Sessions
    /\ submission \in [Submissions -> SubmissionStates]
    /\ votes \in [Attempts -> 0..Cardinality(Submissions)]
    /\ voted \subseteq Voters
    /\ faults \in 0..MaxFaults

KioskInit ==
    /\ now = 1
    /\ attemptCount = [k \in Sessions |-> [v \in Voters |-> 0]]
    /\ globalCount = [v \in Voters |-> 0]
    /\ session \in Sessions
    /\ attempt = [a \in Attempts |->
                    [pc |-> "idle", session |-> session, previous |-> NoToken,
                     counter |-> 0, at |-> 0]]
    /\ tokenKey = {}
    /\ reservation = {}
    /\ expired = {}
    /\ replay = {}
    /\ cookie = NoToken
    /\ submission = [s \in Submissions |->
                       [pc |-> "idle", token |-> NoToken, session |-> session]]
    /\ votes = [a \in Attempts |-> 0]
    /\ voted = {}
    /\ faults = 0

\* A step that goes wrong in one of the ways its action names.
Fault == faults < MaxFaults /\ faults' = faults + 1

-----------------------------------------------------------------------------
(* Authorize *)

\* reserveAttempt: both counters are incremented before the limits are compared.
ReserveAttempt(a) ==
    LET v == EmailOf[a]
        sessionAttempts == attemptCount[session][v] + 1
        globalAttempts == globalCount[v] + 1
    IN
    /\ attempt[a].pc = "idle"
    /\ attemptCount' = [attemptCount EXCEPT ![session][v] = sessionAttempts]
    /\ globalCount' = [globalCount EXCEPT ![v] = globalAttempts]
    /\ attempt' = [attempt EXCEPT
          ![a].pc = IF sessionAttempts > AttemptLimit \/ globalAttempts > GlobalLimit
                    THEN "failed" ELSE "counted",
          ![a].session = session,
          ![a].previous = cookie]
    /\ UNCHANGED <<now, tokenKey, reservation, expired, replay, browserVars,
                   submission, voteVars, faults>>

\* The Account Manager accepts the code of the previous, current or next period.
Validate(a) ==
    /\ attempt[a].pc = "counted"
    /\ \E counter \in {now - 1, now, now + 1} :
          attempt' = [attempt EXCEPT ![a].pc = "validated", ![a].counter = counter,
                                     ![a].at = now]
    /\ UNCHANGED <<now, redisVars, browserVars, submission, voteVars, faults>>

\* assertCanContinue, and what saveResponse does with the ballot of the token's
\* voter.
DatabaseAccepts(t) == ResponsePolicy # "single" \/ EmailOf[t] \notin voted

\* The poll is open, the voter can still submit, the local user is synchronised
\* and the authorization is stored under a fresh token.
StoreToken(a) ==
    /\ attempt[a].pc = "validated"
    /\ DatabaseAccepts(a)
    /\ tokenKey' = tokenKey \cup {a}
    /\ attempt' = [attempt EXCEPT ![a].pc = "stored"]
    /\ UNCHANGED <<now, attemptCount, globalCount, reservation, expired, replay,
                   browserVars, submission, voteVars, faults>>

ReplayedStep(a) ==
    \E used \in replay : used.voter = EmailOf[a] /\ used.counter = attempt[a].counter

ShortReplayKeys(a) ==
    replay \cup {[voter |-> EmailOf[a], counter |-> attempt[a].counter,
                  until |-> now + 1]}

ReplayKeys(a) ==
    replay \cup {[voter |-> EmailOf[a], counter |-> attempt[a].counter,
                  until |-> now + TotpReplayPeriods]}

\* reserveTotpStep (SET NX); on a replay the fresh token is deleted again.  A
\* success resets the attempt counters, unless that cleanup fails.
BurnTotp(a) ==
    /\ attempt[a].pc = "stored"
    /\ IF ReplayedStep(a)
       THEN /\ \/ tokenKey' = tokenKey \ {a} /\ UNCHANGED faults
               \/ Fault /\ UNCHANGED tokenKey
            /\ attempt' = [attempt EXCEPT ![a].pc = "failed"]
            /\ UNCHANGED <<attemptCount, globalCount, replay>>
       ELSE /\ replay' = ReplayKeys(a)
            /\ attempt' = [attempt EXCEPT ![a].pc = "issued"]
            /\ \/ /\ attemptCount' = [attemptCount EXCEPT
                                     ![attempt[a].session][EmailOf[a]] = 0]
                  /\ globalCount' = [globalCount EXCEPT ![EmailOf[a]] = 0]
                  /\ UNCHANGED faults
               \/ Fault /\ UNCHANGED <<attemptCount, globalCount>>
            /\ UNCHANGED tokenKey
    /\ UNCHANGED <<now, reservation, expired, browserVars, submission, voteVars>>

\* Redis fails in reserveTotpStep: the code may be burnt, and the catch deletes
\* the fresh token if it can.
BurnTotpFails(a) ==
    /\ Fault
    /\ attempt[a].pc = "stored"
    /\ replay' \in IF ReplayedStep(a) THEN {replay} ELSE {replay, ReplayKeys(a)}
    /\ tokenKey' \in {tokenKey, tokenKey \ {a}}
    /\ attempt' = [attempt EXCEPT ![a].pc = "failed"]
    /\ UNCHANGED <<now, attemptCount, globalCount, reservation, expired, browserVars,
                   submission, voteVars>>

\* The controller discards the token the browser held when it asked, then answers
\* with the cookie; the answer may not arrive.
Answer(a) ==
    /\ attempt[a].pc = "issued"
    /\ tokenKey' = tokenKey \ {attempt[a].previous}
    /\ \/ cookie' = a /\ UNCHANGED faults
       \/ Fault /\ UNCHANGED cookie
    /\ attempt' = [attempt EXCEPT ![a].pc = "answered"]
    /\ UNCHANGED <<now, attemptCount, globalCount, reservation, expired, replay,
                   session, submission, voteVars>>

\* The discard of the previous token throws, having deleted it or not; the new
\* token is discarded instead, if that succeeds.
RetirePreviousFails(a) ==
    /\ Fault
    /\ attempt[a].pc = "issued"
    /\ attempt[a].previous # NoToken
    /\ \E gone \in SUBSET {a, attempt[a].previous} : tokenKey' = tokenKey \ gone
    /\ attempt' = [attempt EXCEPT ![a].pc = "failed"]
    /\ UNCHANGED <<now, attemptCount, globalCount, reservation, expired, replay,
                   browserVars, submission, voteVars>>

\* A wrong code, a closed poll, a voter that already voted, an unreachable service
\* or the end of the process: the request stops and leaves Redis as it is.
AttemptStops(a) ==
    /\ Fault
    /\ attempt[a].pc \in {"counted", "validated", "stored", "issued"}
    /\ attempt' = [attempt EXCEPT ![a].pc = "failed"]
    /\ UNCHANGED <<now, redisVars, browserVars, submission, voteVars>>

-----------------------------------------------------------------------------
(* Submission *)

\* The answer clears the cookie, if it arrives.
CookieCleared ==
    \/ cookie' = NoToken /\ UNCHANGED faults
    \/ Fault /\ UNCHANGED cookie

Send(s) ==
    /\ submission[s].pc = "idle"
    /\ cookie # NoToken
    /\ submission' = [submission EXCEPT ![s] =
                        [pc |-> "sent", token |-> cookie, session |-> session]]
    /\ UNCHANGED <<now, redisVars, attempt, browserVars, voteVars, faults>>

\* The browser's cookie is taken as proof of the session.
UnboundToSession(s) == submission[s].token \notin expired

\* The token is bound to the operator session it was issued in, until expiresAt.
Bound(s) ==
    /\ attempt[submission[s].token].session = submission[s].session
    /\ submission[s].token \notin expired

\* A plain read of the key, without the reservation.
TokenStored(t) == t \in tokenKey \cup reservation

TokenFree(t) == t \in tokenKey /\ t \notin reservation

\* reserveAuthorization: the script moves the value from the token key to the
\* reservation key; only then are the binding and the expiry asserted.
ReserveToken(s) ==
    LET t == submission[s].token IN
    /\ submission[s].pc = "sent"
    /\ IF TokenFree(t)
       THEN /\ reservation' = reservation \cup {t}
            /\ tokenKey' = tokenKey \ {t}
            /\ submission' = [submission EXCEPT
                                ![s].pc = IF Bound(s) THEN "reserved" ELSE "failed"]
       ELSE /\ submission' = [submission EXCEPT ![s].pc = "failed"]
            /\ UNCHANGED <<tokenKey, reservation>>
    /\ UNCHANGED <<now, attemptCount, globalCount, expired, replay, attempt,
                   browserVars, voteVars, faults>>

\* An edit replaces the answers of the ballot that exists.
RecordVote(t) ==
    /\ votes' = IF ResponsePolicy = "multiple" \/ EmailOf[t] \notin voted
                THEN [votes EXCEPT ![t] = @ + 1] ELSE votes
    /\ voted' = voted \cup {EmailOf[t]}

CastVote(s) ==
    LET t == submission[s].token IN
    /\ submission[s].pc = "reserved"
    /\ DatabaseAccepts(t)
    /\ RecordVote(t)
    /\ submission' = [submission EXCEPT ![s].pc = "committed"]
    /\ UNCHANGED <<now, redisVars, attempt, browserVars, faults>>

\* The transaction commits and its answer is lost: the call throws.
CastVoteUnacknowledged(s) ==
    LET t == submission[s].token IN
    /\ Fault
    /\ submission[s].pc = "reserved"
    /\ DatabaseAccepts(t)
    /\ RecordVote(t)
    /\ submission' = [submission EXCEPT ![s].pc = "releasing"]
    /\ UNCHANGED <<now, redisVars, attempt, browserVars>>

\* The voter cannot be loaded, or submitResponse refuses or fails.
CastVoteFails(s) ==
    /\ Fault
    /\ submission[s].pc = "reserved"
    /\ submission' = [submission EXCEPT ![s].pc = "releasing"]
    /\ UNCHANGED <<now, redisVars, attempt, browserVars, voteVars>>

\* releaseAuthorization: back to the token key while the reservation exists.
Release(s) ==
    LET t == submission[s].token IN
    /\ submission[s].pc = "releasing"
    /\ tokenKey' = IF t \in reservation THEN tokenKey \cup {t} ELSE tokenKey
    /\ reservation' = reservation \ {t}
    /\ submission' = [submission EXCEPT ![s].pc = "failed"]
    /\ UNCHANGED <<now, attemptCount, globalCount, expired, replay, attempt,
                   browserVars, voteVars, faults>>

\* A failed finalization is taken for a failed vote.
FinalizeOrRestore(s) ==
    LET t == submission[s].token IN
    /\ submission[s].pc = "committed"
    /\ reservation' = reservation \ {t}
    /\ tokenKey' \in {tokenKey, tokenKey \cup {t}}
    /\ submission' = [submission EXCEPT ![s].pc = "done"]
    /\ CookieCleared
    /\ UNCHANGED <<now, attemptCount, globalCount, expired, replay, attempt,
                   session, voteVars>>

\* finalizeAuthorization is best effort; the answer, when it arrives, clears
\* whatever token the browser holds by then.
Finalize(s) ==
    LET t == submission[s].token IN
    /\ submission[s].pc = "committed"
    /\ \/ /\ reservation' = reservation \ {t}
          /\ CookieCleared
       \/ /\ Fault
          /\ UNCHANGED reservation
          /\ cookie' = NoToken
    /\ submission' = [submission EXCEPT ![s].pc = "done"]
    /\ UNCHANGED <<now, attemptCount, globalCount, tokenKey, expired, replay, attempt,
                   session, voteVars>>

\* The process dies, or Redis refuses a script: the request is over.  A dead
\* process never learns that its vote committed.
SubmissionStops(s) ==
    /\ Fault
    /\ submission[s].pc \in {"sent", "reserved", "releasing", "committed"}
    /\ submission' = [submission EXCEPT ![s].pc = "failed"]
    /\ UNCHANGED <<now, redisVars, attempt, browserVars, voteVars>>

-----------------------------------------------------------------------------
(* Operator *)

\* DELETE authorization: deletes the token key and clears the cookie; the answer
\* may not arrive.
Cancel ==
    /\ cookie # NoToken
    /\ tokenKey' = tokenKey \ {cookie}
    /\ CookieCleared
    /\ UNCHANGED <<now, attemptCount, globalCount, reservation, expired, replay, attempt,
                   session, submission, voteVars>>

\* GET context clears the cookie when the authorization cannot be read.
ContextFails ==
    /\ cookie # NoToken
    /\ \/ cookie \notin tokenKey \ expired
       \/ attempt[cookie].session # session
    /\ cookie' = NoToken
    /\ UNCHANGED <<now, redisVars, attempt, session, submission, voteVars, faults>>

\* Another operator session in the same browser.
SwitchSession ==
    /\ session' \in Sessions \ {session}
    /\ UNCHANGED <<now, redisVars, attempt, cookie, submission, voteVars, faults>>

-----------------------------------------------------------------------------
(* Time *)

\* An authorize request does not outlive MaxLatency after its validation.
Tick ==
    /\ now < MaxTime
    /\ \A a \in Attempts :
          attempt[a].pc \in {"validated", "stored"} => now < attempt[a].at + MaxLatency
    /\ now' = now + 1
    /\ replay' = {used \in replay : used.until > now'}
    /\ UNCHANGED <<attemptCount, globalCount, tokenKey, reservation, expired, attempt,
                   browserVars, submission, voteVars, faults>>

\* The attempt window of an email ends in a session, or as a whole.
AttemptWindowEnds(v) ==
    /\ \/ /\ \E k \in Sessions :
                /\ attemptCount[k][v] > 0
                /\ attemptCount' = [attemptCount EXCEPT ![k][v] = 0]
          /\ UNCHANGED globalCount
       \/ /\ globalCount[v] > 0
          /\ globalCount' = [globalCount EXCEPT ![v] = 0]
          /\ UNCHANGED attemptCount
    /\ UNCHANGED <<now, tokenKey, reservation, expired, replay, attempt, browserVars,
                   submission, voteVars, faults>>

\* expiresAt passes; Redis drops the keys at its own pace.
Expire(t) ==
    /\ t \in tokenKey \cup reservation
    /\ now >= attempt[t].at + TokenLifetime
    /\ expired' = expired \cup {t}
    /\ \/ tokenKey' = tokenKey \ {t} /\ UNCHANGED reservation
       \/ reservation' = reservation \ {t} /\ UNCHANGED tokenKey
       \/ UNCHANGED <<tokenKey, reservation>>
    /\ UNCHANGED <<now, attemptCount, globalCount, replay, attempt, browserVars,
                   submission, voteVars, faults>>

Authorize(a) ==
    \/ ReserveAttempt(a) \/ Validate(a) \/ StoreToken(a) \/ BurnTotp(a)
    \/ BurnTotpFails(a) \/ Answer(a) \/ RetirePreviousFails(a) \/ AttemptStops(a)

Submit(s) ==
    \/ ReserveToken(s) \/ CastVote(s) \/ CastVoteUnacknowledged(s)
    \/ CastVoteFails(s) \/ Release(s) \/ Finalize(s) \/ SubmissionStops(s)

KioskNext ==
    \/ \E a \in Attempts : Authorize(a)
    \/ \E s \in Submissions : Send(s)
    \/ \E s \in Submissions : Submit(s)
    \/ Cancel
    \/ ContextFails
    \/ SwitchSession
    \/ Tick
    \/ \E v \in Voters : AttemptWindowEnds(v)
    \/ \E t \in Attempts : Expire(t)

KioskSpec == KioskInit /\ [][KioskNext]_kioskVars

-----------------------------------------------------------------------------
(* Properties *)

Holding(s) == submission[s].pc \in {"reserved", "releasing", "committed"}

\* reserveAuthorization: however submissions repeat and overlap, at most one at a
\* time acts on an authorization.
OneSubmissionAtATime ==
    \A s, o \in Submissions :
        Holding(s) /\ Holding(o) /\ submission[s].token = submission[o].token => s = o

\* reserve, release and finalize: a value is under its token key or under its
\* reservation key, never under both, and while a submission holds it nobody else
\* can take it.
NeverUnderBothKeys ==
    /\ tokenKey \cap reservation = {}
    /\ \A s \in Submissions : Holding(s) => submission[s].token \notin tokenKey

\* "Do not restore a token after a successful vote": once a submission knows that
\* its vote committed, its token is never stored again, whatever fails after it.
SpentTokenIsNotRestored ==
    \A s \in Submissions :
        submission[s].pc \in {"committed", "done"} => submission[s].token \notin tokenKey

\* reserveTotpStep: a code a voter showed once authorizes once, although the
\* request that shows it again was validated before the first one burnt it.
TotpAuthorizesOnce ==
    \A a, b \in Attempts :
        /\ a # b
        /\ EmailOf[a] = EmailOf[b]
        /\ attempt[a].pc = "answered" /\ attempt[b].pc \in {"issued", "answered"}
        => attempt[a].counter # attempt[b].counter

\* matchesBinding: a vote is committed only by a request of the operator session
\* that obtained the token, whoever uses the browser by then.
VotesComeFromTheAuthorizingSession ==
    [][\A s \in Submissions :
          submission[s].pc = "reserved" /\ voteVars' # voteVars /\ submission'[s].pc # "reserved"
          => attempt[submission[s].token].session = submission[s].session]_kioskVars

\* "Submit one ballot for the TOTP-authorized kiosk voter": one authorization, one
\* ballot. It does not hold with multiple responses, when the answer of a commit is
\* lost: SpentTokenIsNotRestored is what holds.
OneBallotPerAuthorization == \A t \in Attempts : votes[t] <= 1
=============================================================================
