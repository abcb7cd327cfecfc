SPECIFICATION Spec
CONSTANTS
    Blocks <- MCBlocks
    Environments <- MCEnvironments
    Network <- MCNetwork
    Wants <- MCWants
    Stands <- MCStands
    MaxTries = 1
    MaxFaults = 2
    Nil = Nil
INVARIANTS
    TypeOK
    RouteIsMeant
    DeniedWhenExpired
PROPERTIES
    ConnectEnds
    ComesBack
