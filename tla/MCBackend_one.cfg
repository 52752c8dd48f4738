\* One worker, every path of every handler, lost links and restarts.
SPECIFICATION FairSpec
CONSTANTS
    Requests = {r1, r2}
    Workers = {w1}
    NoInput = NoInput
    NoRequest = NoRequest
    Accounts <- MCAccounts
    InitialUsers <- OneUser
    Inputs <- AllPaths
INVARIANTS
    TypeOK
    AckedIsStored
    RefusedLeavesNoTrace
    ListKeepsUp
    LoginIsExact
PROPERTIES
    ServesAsLedger
    EveryRequestAnswered
