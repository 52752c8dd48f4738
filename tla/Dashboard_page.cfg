\* Two rows, two calls at once.
SPECIFICATION FairSpec
CONSTANTS
    Ids = {x1, x2}
    Calls = {c1, c2}
    NoId = NoId
INVARIANTS
    DashboardInv
    OnlyConfirmedIsDeleted
    RemovedMeansGone
PROPERTIES
    DeletionIsShown
    ImplementsRemoval
CHECK_DEADLOCK FALSE
