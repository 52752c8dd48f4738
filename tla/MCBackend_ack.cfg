\* Two workers: what 201 says.
SPECIFICATION Spec
CONSTANTS
    Requests = {r1, r2}
    Workers = {w1, w2}
    NoInput = NoInput
    NoRequest = NoRequest
    Accounts <- MCAccounts
    InitialUsers <- OneUser
    Inputs <- RaceInputs
INVARIANT AckMeansStored
