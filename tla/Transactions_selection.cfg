\* Two rows, one of each type, two calls at once.
SPECIFICATION Spec
CONSTANTS
    Ids = {x1, x2}
    Calls = {c1, c2}
    NoId = NoId
    Income = {x1}
INVARIANTS
    TransactionsInv
    OnlyMeantIsDeleted
    AllOkMeansGone
CHECK_DEADLOCK FALSE
