SPECIFICATION Spec
CONSTANTS
    k1 = k1
    k2 = k2
    k3 = k3
    Rows <- ThreeRows
    BatchSize = 2
    MaxRetries = 2
\* The call ends, and the writes of others go nowhere once every row is there.
CHECK_DEADLOCK FALSE
INVARIANTS
    TypeOK
    EveryItemTried
    SendsBounded
PROPERTIES
    Ends
    ImplementsDestroyContract
