SPECIFICATION MCSpec
CONSTANTS
    p1 = p1
    p2 = p2
    e = e
    a = a
    b = b
    c = c
    r = r
    w = w
    word = word
    name = name
    day = day
    mail = mail
    Empty = Empty
    Spaces = Spaces
    Nothing = Nothing
    Polls = {p1, p2}
    Dates = {day}
    Emails = {mail}
    Words = {word}
    Names = {name}
    DefinitionsOf <- MCDefinitionsOf
    RevisionsOf <- MCRevisionsOf
    PoliciesOf <- MCPoliciesOf
    MaxLoads = 2
    MaxRevisions = 1
    MaxFaults = 1
    MaxSubmissions = 2
    Requests = {r1, r2}
    MaxRefreshes = 2
    NoSession = NoSession
    NoOwner = NoOwner
CHECK_DEADLOCK FALSE
SYMMETRY Symmetry
INVARIANTS
    RefusedOnlyWhenIncomplete
    SubmittedMeansRecorded
    RefreshesAreSerial
PROPERTIES
    SessionIsRegister
