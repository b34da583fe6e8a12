SPECIFICATION Spec
CONSTANTS
    s1 = s1
    c1 = c1
    r1 = r1
    None = None
    LastDay = 2
    Cap = 0
    Sessions <- OneSession
    Creations <- OneCreation
    Starts <- FirstDays
    Runs <- OneRun
INVARIANTS
    TypeOK
    RecordsAreTrue
    NightlyRunIsComplete
