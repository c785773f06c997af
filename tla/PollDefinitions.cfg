SPECIFICATION MCSpec
CONSTANTS
    p1 = p1
    p2 = p2
    v1 = v1
    v2 = v2
    e1 = e1
    e2 = e2
    a = a
    b = b
    c = c
    w1 = w1
    w2 = w2
    Polls = {p1, p2}
    Voters = {v1, v2}
    Definitions <- MCDefinitions
    Migrated <- MCMigrated
    Legacy = Legacy
    None = None
    Text = Text
    MaxSaves = 3
    MaxVotes = 2
    regular = regular
    attended = attended
    student = student
    teacher = teacher
    event = event
    n1 = n1
    n2 = n2
    mail = mail
    PollIds = {regular, attended}
    Accounts = {student, teacher}
    Claims <- MCClaims
    Attended <- MCAttended
    UnespEmails = {mail}
    ComputerScience = {n1}
    Unusable = {"blank"}
    Unset = Unset
    Settings <- MCSettings
    Created <- MCCreated
    Enrolled = {n1}
    Files <- MCFiles
    MonthLength = 1
    MaxTime = 2
    MaxChanges = 3
    MaxBallots = 2
CHECK_DEADLOCK FALSE
SYMMETRY Symmetry
INVARIANTS
    ResultsCountWhatVotersSaw
    SummariesAgreeWithAggregates
    OffersAreNotDenied
    SecretVotesArePublishedTogether
PROPERTIES
    AnswersSurviveSaves
