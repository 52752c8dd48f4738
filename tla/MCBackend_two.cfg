\* Two workers over one connection, lost links and restarts.
SPECIFICATION Spec
CONSTANTS
    Requests = {r1, r2, r3}
    Workers = {w1, w2}
    NoInput = NoInput
    NoRequest = NoRequest
    Accounts <- MCAccounts
    InitialUsers <- OneUser
    Inputs <- RaceInputs
SYMMETRY Anyone
INVARIANTS
    AckedIsStored
    ListKeepsUp
    ConnectionIsReleased
    NobodyWaitsInVain
    IInv
PROPERTIES
    BlockedUntilRestart
    ServesAsLedger
