SPECIFICATION FairSpec
CONSTANTS
    Images = {i1}
    Handlers = {h1, h2}
    Workers = {w1}
CHECK_DEADLOCK FALSE
INVARIANTS
    LiveImagesHaveObjects
PROPERTIES
    AttachedImagesOutliveCleanup
    OrphansAreDeleted
