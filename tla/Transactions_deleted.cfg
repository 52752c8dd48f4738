\* What "Transaction(s) deleted" says.
SPECIFICATION Spec
CONSTANTS
    Ids = {x1, x2}
    Calls = {c1, c2}
    NoId = NoId
    Income = {x1}
INVARIANT DeletedMeansGone
CHECK_DEADLOCK FALSE
