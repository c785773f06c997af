SPECIFICATION Spec
SYMMETRY Symmetry
CONSTANTS
    s1 = s1
    a1 = a1
    n1 = n1
    n2 = n2
    r1 = r1
    r2 = r2
    v1 = v1
    Submitters = {s1}
    AdminSlates = {a1}
    Names = {n1, n2}
    Voters = {v1}
    Requests = {r1, r2}
    NoSlate = NoSlate
    NoVote = NoVote
    Blank = Blank
CHECK_DEADLOCK FALSE
INVARIANTS
    BallotListsTheSlates
    SlateNamesAreUnique
    TransitionedElectionsStayReady
PROPERTIES
    OneBallotForAll
