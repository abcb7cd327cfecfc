SPECIFICATION Safe
CONSTANTS
    r1 = r1
    r2 = r2
    r3 = r3
    o1 = o1
    o2 = o2
    Res = {r1, r2}
    Who <- RoleAndUser
    Object = {o1, o2}
    Obj <- PairObj
    Raw <- MCRaw
    Canon <- MCCanon
    Place <- MCPlace
    Priv <- MCPriv
    All <- MCAll
    GrantOption = GrantOption
    Configs <- Overlapping
    Percona = FALSE
    Faults = {}
    MaxFaults = 0
    MaxEdits = 0
    Nil = Nil
INVARIANT
    CheckHolds
