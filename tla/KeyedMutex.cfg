SPECIFICATION Spec
CONSTANTS
    Caller = {c1, c2}
    Key = {k1, k2}
    Mutex = {m1, m2, m3}
    Nil = Nil
INVARIANTS
    TypeOK
    MutualExclusion
    NoPanic
    OneMutexPerKey
PROPERTIES
    LockReturns
    ImplementsKeyLock
