SPECIFICATION Safe
CONSTANTS
    r1 = r1
    r2 = r2
    r3 = r3
    o1 = o1
    o2 = o2
    Res = {r1, r2, r3}
    Who <- Duplicate
    Object = {o1, o2}
    Obj <- DuplicateObj
    Raw <- MCRaw
    Canon <- MCCanon
    Place <- MCPlace
    Priv <- MCPriv
    All <- MCAll
    GrantOption = GrantOption
    Configs <- Mixed
    Percona = FALSE
    Faults = {"rejected", "readback", "crash", "lost"}
    MaxFaults = 1
    MaxEdits = 2
    Nil = Nil
INVARIANTS
    TypeOK
    OnlyUpdatesInterfere
PROPERTY
    SecondOwnerByUpdate
