SPECIFICATION Spec
CONSTANTS
    None = None
    Gone = Gone
    Refused = Refused
    Polls = {assembly, council}
    Stored = {assembly}
    Texts = {first}
    Items = {student}
    MaxOps = 2
    MaxOthers = 0
    MaxFaults = 0
CHECK_DEADLOCK FALSE
INVARIANT
    SavingEndsWithItsRequest
