SPECIFICATION Spec
CONSTANTS
    None = None
    Gone = Gone
    Refused = Refused
    Polls = {assembly, council, party}
    Stored = {assembly, council}
    Texts = {first, second}
    Items = {student}
    MaxOps = 3
    MaxOthers = 1
    MaxFaults = 1
CHECK_DEADLOCK FALSE
INVARIANTS
    NoBlindOverwrite
PROPERTIES
    ListsAreOfThePollShown
    OnlyNewLeavesButtonsDisabled
