SPECIFICATION Spec
CONSTANTS
    db1 = db1
    db2 = db2
    account = account
    roleA = roleA
    roleB = roleB
    grant = grant
    defaults = defaults
    sql1 = sql1
    sql2 = sql2
    Res = {db1, db2, account, roleA, roleB, grant, defaults, sql1, sql2}
    Kind <- MCKind
    Worlds = {"databases", "accounts", "scripts"}
    Configurations <- MCConfigurations
    DbName = {"x", "y"}
    Role = {"a", "b"}
    Script = {"v1", "v2"}
    Plugin = {"native", "sha2"}
    Collation <- MCCollation
    Default <- MCDefault
    Omitted = {"latin1"}
    Faults = {"rejected", "readback", "unread", "lost", "drop_lost", "crash", "outside"}
    MaxFaults = 1
    MaxEdits = 2
    Nil = Nil
INVARIANTS
    TypeOK
    NoOrphan
PROPERTIES
    DeclaredSurvives
    Converges
