\* Two tabs, two accounts, three calls or timers at once.
SPECIFICATION Spec
CONSTANTS
    Tabs = {t1, t2}
    Users = {a, b}
    NoUser = NoUser
    MaxCalls = 3
INVARIANTS
    SessionInv
    PageIsOfItsAccount
    SignedIn
    NameIsOfItsAccount
CHECK_DEADLOCK FALSE
