SPECIFICATION Spec
CONSTANTS
    r1 = r1
    r2 = r2
    r3 = r3
    o1 = o1
    o2 = o2
    Res = {r1, r2}
    Who <- Hosts
    Object = {o1, o2}
    Obj <- PairObj
    Raw <- MCRaw
    Canon <- MCCanon
    Place <- MCPlace
    Priv <- MCPriv
    All <- MCAll
    GrantOption = GrantOption
    Configs <- Varied
    Percona = TRUE
    Faults = {"rejected", "readback", "drop_lost"}
    MaxFaults = 1
    MaxEdits = 2
    Nil = Nil
INVARIANTS
    StateIsTrue
    DestroyLeavesNothing
PROPERTIES
    OperationsEnd
    Converges
