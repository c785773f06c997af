SPECIFICATION Spec
CONSTANTS
    u1 = u1
    r1 = r1
    r2 = r2
    NoBallot = NoBallot
    Subjects = {u1}
    Admins = {u1}
    Requests = {r1, r2}
    Voter <- VoterOfBoth
    LinkRequests = {r2}
    MaxVersion = 3
CHECK_DEADLOCK FALSE
INVARIANTS
    AtMostOneBallot
    MarkerIffBallot
    BallotsKeepPolicy
    ErasedSubjectsAreNotNamed
PROPERTIES
    AnswersMatchDefinition
    RevokedWriteOnlyUnlinked
