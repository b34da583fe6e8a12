SPECIFICATION Spec
CONSTANTS
    u1 = u1
    u2 = u2
    p1 = p1
    me = u1
    None = None
    LastHour = 1
    Users <- TwoUsers
    Parties <- OneParty
    Expiries <- AtOnce
INVARIANTS
    TypeOK
    OnlySharedIsShown
    AllSharedIsShown
\* The model ends with the request.
CHECK_DEADLOCK FALSE
