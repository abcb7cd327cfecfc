SPECIFICATION Spec
CONSTANTS
    u1 = u1
    u2 = u2
    u3 = u3
    w1 = w1
    User = {u1, u2, u3}
    Pass = {w1}
    Name <- MCName
    Target <- MCTarget
    Secret <- MCSecret
    Generated <- MCGenerated
    Tls <- MCTls
    Configs <- MCConfigs
    PassConfigs <- MCPassConfigs
    Casts <- MCCasts
    Depends = TRUE
    Versions <- MCVersions
    Faults = {"rejected", "lost", "crash"}
    MaxFaults = 2
    MaxEdits = 2
    Nil = Nil
INVARIANTS
    TypeOK
    PasswordIsDeclared
    OldPasswordWorks
    NoOrphan
PROPERTIES
    PasswordStays
    TlsConverges
