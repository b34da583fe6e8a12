SPECIFICATION Spec
CONSTANTS
    u1 = u1
    u2 = u2
    p1 = p1
    i1 = i1
    me = u1
    None = None
    Users <- TwoUsers
    Parties <- OneParty
    Invites <- OneInvite
    Creator <- ByTheFirst
    PartyOf <- ToTheParty
INVARIANTS
    TypeOK
    NothingOldRemains
PROPERTIES
    TakesOnlyItsOwn
    TakenInOrder
