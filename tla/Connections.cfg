SPECIFICATION Spec
CONSTANTS
    Handler = {h1, h2}
    Versions <- MCVersions
    UserMode = Nil
    MaxOpenConns = 1
    MaxAttempts = 1
    MaxFaults = 2
    Nil = Nil
INVARIANTS
    TypeOK
    SettledForGood
    TwoPools
    RightSqlMode
    PanicNeedsFailure
PROPERTY
    ConnectReturns
