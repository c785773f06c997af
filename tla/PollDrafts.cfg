SPECIFICATION Spec
CONSTANTS
    None = None
    Types <- MCTypes
    Styles <- MCStyles
    Sources <- MCSources
    Events = {party}
    Days = {1, 2}
    Times = {540, 720, 840}
    Durations = {30, 120}
    Buffers = {0, 60}
    InviteeLimits = {1, 3}
    MaxEdits = 5
    MaxSaves = 2
    MaxElements = 2
    MaxOptions = 3
CHECK_DEADLOCK FALSE
INVARIANTS
    RefusedDraftsAreCorrectable
    AcceptedDraftsAreKept
