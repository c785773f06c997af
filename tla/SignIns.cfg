SPECIFICATION SignInSpec
CONSTANTS
    Pages = {p1, p2}
    WorkingPages = {p1}
    MaxLogins = 3
    MaxFaults = 1
CONSTRAINT FaultsInOnePage
CHECK_DEADLOCK FALSE
INVARIANTS
    CodesAreRedeemedOnce
    SilentChecksEnd
PROPERTIES
    SignedOutStaysOut
    PagesInitialize
