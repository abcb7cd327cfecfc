SPECIFICATION Spec
CONSTANTS
    t1 = t1
    t2 = t2
    g = g
    d = d
    c1 = c1
    c2 = c2
    Res = {t1, t2, g, d, c1, c2}
    Kind <- MCKind
    Of <- MCOf
    Setting <- MCSetting
    Value <- MCValue
    Stored <- MCStored
    Default <- MCDefault
    Kept <- MCKept
    Untabled = {"quota"}
    Product = {"tidb", "rds", "cluster", "untabled"}
    Cluster <- MCCluster
    On <- MCOn
    Configs <- MCConfigs
    Conn = {1, 2}
    Faults = {"rejected", "refused", "lost", "crash", "left", "joined"}
    MaxFaults = 2
    MaxEdits = 2
    Nil = Nil
INVARIANTS
    TypeOK
    DestroyResets
PROPERTY
    Converges
