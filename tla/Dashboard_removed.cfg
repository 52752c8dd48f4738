\* A row that was removed does not stay on the page.
SPECIFICATION FairSpec
CONSTANTS
    Ids = {x1, x2}
    Calls = {c1, c2}
    NoId = NoId
PROPERTY RemovedDisappears
CHECK_DEADLOCK FALSE
