SPECIFICATION KioskSpec
CONSTANTS
    t1 = t1
    t2 = t2
    v1 = v1
    s1 = s1
    s2 = s2
    k1 = k1
    k2 = k2
    NoToken = NoToken
    Attempts = {t1, t2}
    Voters = {v1}
    EmailOf <- EveryoneIsV1
    Submissions = {s1, s2}
    Sessions = {k1, k2}
    AttemptLimit = 1
    GlobalLimit = 2
    ResponsePolicy = "multiple"
    MaxLatency = 1
    TokenLifetime = 1
    MaxTime = 4
    MaxFaults = 1
SYMMETRY Interchangeable
CONSTRAINT Bounds
CHECK_DEADLOCK FALSE
INVARIANTS
    OneSubmissionAtATime
    SpentTokenIsNotRestored
    TotpAuthorizesOnce
PROPERTIES
    VotesComeFromTheAuthorizingSession
