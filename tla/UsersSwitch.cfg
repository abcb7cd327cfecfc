SPECIFICATION Safe
CONSTANTS
    u1 = u1
    u2 = u2
    u3 = u3
    w1 = w1
    User = {u1, u2, u3}
    Pass = {w1}
    Name <- MCName
    Target <- MCTarget
    Secret <- MCSecret
    Generated <- MCGenerated
    Tls <- MCTls
    Configs <- WriteOnly
    PassConfigs <- MCPassConfigs
    Casts <- MCCasts
    Depends = TRUE
    Versions <- MCVersions
    Faults = {}
    MaxFaults = 0
    MaxEdits = 1
    Nil = Nil
INVARIANT
    PasswordIsDeclared
