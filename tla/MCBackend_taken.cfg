\* What a refused registration is told.
SPECIFICATION Spec
CONSTANTS
    Requests = {r1, r2}
    Workers = {w1}
    NoInput = NoInput
    NoRequest = NoRequest
    Accounts <- MCAccounts
    InitialUsers <- OneUser
    Inputs <- AllPaths
INVARIANT EmailIsTaken
