SPECIFICATION Spec
CONSTANTS
    u1 = u1
    u2 = u2
    u3 = u3
    p1 = p1
    i1 = i1
    r1 = r1
    r2 = r2
    None = None
    Users <- ThreeUsers
    Parties <- OneParty
    Invites <- OneInvite
    Requests <- TwoRequests
    MaxSizes <- OneOrNotGiven
    DefaultMaxSize = 2
    Durations <- OneMonth
    PlusDuration = "ONE_MONTH"
    Admins <- NobodyAdmin
    WeakReads = FALSE
\* The one party id is used up when the creation that took it dies half way.
CHECK_DEADLOCK FALSE
\* Users and requests differ only in their names; no liveness is checked here.
SYMMETRY AllAlike
INVARIANTS
    OvershootBounded
