-------------------------- MODULE PartyApiProofs --------------------------
(***************************************************************************)
(* What is proved of PartyApi, for any number of users, parties, invites   *)
(* and concurrent requests, and for stale reads as well as current ones.   *)
(***************************************************************************)
EXTENDS PartyApi, FiniteSetTheorems, TLAPS

(***************************************************************************)
(* Types.                                                                  *)
(***************************************************************************)

\* What PartyEntity makes of a row is a row again.
LEMMA EntityType ==
    ASSUME NEW row \in Row
    PROVE  /\ Entity(row) \in Row
           /\ Entity(row).createdBy = row.createdBy
           /\ Entity(row).duration = row.duration
           /\ Entity(row).maxSize = EffectiveSize(row.maxSize)
BY SizesAreIntegers DEF Entity, EffectiveSize, Row, Sizes

\* What a read of a party returns: an entity of the row, or of its replica.
LEMMA ReadPartyType ==
    ASSUME TypeOK, NEW p \in Parties, NEW row \in ReadParty(p)
    PROVE  /\ row \in Row
           /\ \/ party[p] # None /\ row = Entity(party[p])
              \/ WeakReads /\ partyReplica[p] # None /\ row = Entity(partyReplica[p])
BY EntityType DEF ReadParty, TypeOK

\* A step of r leaves the caller, the party and the target of its request.
SameCaller(r) ==
    /\ req'[r].user = req[r].user
    /\ req'[r].party = req[r].party
    /\ req'[r].target = req[r].target

\* The record a request becomes when it continues is a request.
LEMMA ContinueType ==
    ASSUME TypeOK, NEW r \in Requests, req[r] # Idle, NEW pc \in Steps,
           NEW row \in Row \cup {None}, row # None <=> pc \in HoldsRow,
           Continue(r, pc, row)
    PROVE  /\ req' \in [Requests -> Request \cup {Idle}]
           /\ \A q \in Requests : req'[q].row # None <=> req'[q].pc \in HoldsRow
           /\ req'[r].pc = pc /\ req'[r].row = row
           /\ SameCaller(r)
           /\ \A q \in Requests \ {r} : req'[q] = req[q]
<1>1. req[r] \in Request
  BY DEF TypeOK
<1>2. [req[r] EXCEPT !.pc = pc, !.row = row] \in Request
  BY <1>1 DEF Request
<1>3. /\ req'[r] = [req[r] EXCEPT !.pc = pc, !.row = row]
      /\ \A q \in Requests \ {r} : req'[q] = req[q]
  BY DEF TypeOK, Continue
<1>4. req' \in [Requests -> Request \cup {Idle}]
  BY <1>2 DEF TypeOK, Continue
<1>5. req'[r].row = row /\ req'[r].pc = pc /\ SameCaller(r)
  BY <1>1, <1>3 DEF Request, SameCaller
<1>6. QED
  BY <1>3, <1>4, <1>5 DEF TypeOK

LEMMA EndType ==
    ASSUME TypeOK, NEW r \in Requests, End(r)
    PROVE  /\ req' \in [Requests -> Request \cup {Idle}]
           /\ \A q \in Requests : req'[q].row # None <=> req'[q].pc \in HoldsRow
           /\ req'[r] = Idle
           /\ \A q \in Requests \ {r} : req'[q] = req[q]
BY DEF TypeOK, End, Request, Idle, HoldsRow

LEMMA BeginType ==
    ASSUME TypeOK, NEW r \in Requests, NEW pc \in Steps, NEW u \in Users,
           NEW p \in Parties, NEW t \in Users, NEW row \in Row \cup {None},
           row # None <=> pc \in HoldsRow,
           Begin(r, pc, u, p, t, row)
    PROVE  /\ req' \in [Requests -> Request \cup {Idle}]
           /\ \A q \in Requests : req'[q].row # None <=> req'[q].pc \in HoldsRow
           /\ req'[r] = [pc |-> pc, user |-> u, party |-> p, target |-> t, row |-> row]
           /\ \A q \in Requests \ {r} : req'[q] = req[q]
BY DEF TypeOK, Begin, Request, Idle

\* The steps of a deletion of an account, about one party.
AccountSteps == {"destroyOwned", "destroyMembers", "destroyInvites"}

LEMMA ContinuesDeletion ==
    ASSUME TypeOK, NEW r \in Requests, req[r].pc \in AccountSteps,
           NEW pc \in AccountSteps, Continue(r, pc, None)
    PROVE  /\ req' \in [Requests -> Request \cup {Idle}]
           /\ \A q \in Requests : req'[q].row # None <=> req'[q].pc \in HoldsRow
           /\ req'[r].pc = pc /\ req'[r].row = None
           /\ SameCaller(r)
           /\ \A q \in Requests \ {r} : req'[q] = req[q]
<1>1. req[r] # Idle /\ pc \in Steps /\ (None # None <=> pc \in HoldsRow)
  BY DEF AccountSteps, Idle, Steps, HoldsRow
<1> QED
  BY <1>1, ContinueType

LEMMA PutPartyType ==
    ASSUME TypeOK, NEW p \in Parties, NEW row \in Row, PutParty(p, row)
    PROVE  /\ party' \in [Parties -> Row \cup {None}]
           /\ peak' \in [Parties -> Int]
BY SizesAreIntegers DEF TypeOK, PutParty, Row, Sizes, EffectiveSize

\* What a request of a non-idle state is, by the step it stands at.
LEMMA RequestType ==
    ASSUME TypeOK, NEW r \in Requests, req[r].pc # "idle"
    PROVE  /\ req[r] \in Request
           /\ req[r].pc \in HoldsRow => req[r].row \in Row
BY DEF TypeOK, Request, Idle

LEMMA InitType == Init => TypeOK
BY DEF Init, TypeOK, Idle, HoldsRow

LEMMA StepType == TypeOK /\ [Next]_vars => TypeOK'
<1> SUFFICES ASSUME TypeOK, [Next]_vars
             PROVE  TypeOK'
  OBVIOUS
<1> USE DEF Steps, HoldsRow, At
<1>1. ASSUME NEW r \in Requests, NEW u \in Users, NEW p \in Parties,
             NEW size \in MaxSizes, NEW d \in Durations \cup {None},
             InsertParty(r, u, p, size, d)
      PROVE  TypeOK'
  <2>1. [createdBy |-> u, maxSize |-> size, duration |-> d] \in Row
    BY DEF Row, Sizes
  <2>2. PICK row \in Row : /\ Begin(r, "insertCreator", u, p, u, row)
                           /\ PutParty(p, row)
                           /\ born' = [born EXCEPT ![p] = row]
    BY <1>1, <2>1 DEF InsertParty
  <2>3. row # None
    BY NoneIsNoRow
  <2>4. /\ req' \in [Requests -> Request \cup {Idle}]
        /\ \A q \in Requests : req'[q].row # None <=> req'[q].pc \in HoldsRow
    BY <2>2, <2>3, BeginType
  <2>5. party' \in [Parties -> Row \cup {None}] /\ peak' \in [Parties -> Int]
    BY <2>2, PutPartyType
  <2>6. /\ UNCHANGED <<member, invite, replicas, invited, joined, granted>>
        /\ born' \in [Parties -> Row \cup {None}]
    BY <1>1, <2>2 DEF TypeOK, InsertParty
  <2> QED
    BY <2>4, <2>5, <2>6 DEF TypeOK, replicas
<1>2. ASSUME NEW r \in Requests, InsertCreator(r)
      PROVE  TypeOK'
  <2>1. req[r] \in Request
    BY <1>2, RequestType DEF InsertCreator
  <2> QED
    BY <1>2, <2>1, EndType DEF TypeOK, InsertCreator, PutMember, replicas, Request
<1>3. ASSUME NEW r \in Requests, NEW u \in Users, NEW p \in Parties, FindForUser(r, u, p)
      PROVE  TypeOK'
  <2>1. /\ req' \in [Requests -> Request \cup {Idle}]
        /\ \A q \in Requests : req'[q].row # None <=> req'[q].pc \in HoldsRow
    BY <1>3, BeginType DEF FindForUser
  <2> QED
    BY <1>3, <2>1 DEF TypeOK, FindForUser, store, replicas, history
<1>4. ASSUME NEW r \in Requests, FindPartyToDelete(r)
      PROVE  TypeOK'
  <2>1. PICK row \in ReadOwnParty(req[r].user, req[r].party) : Continue(r, "destroyParty", row)
    BY <1>4 DEF FindPartyToDelete
  <2>2. req[r] # Idle /\ req[r].party \in Parties
    BY <1>4, RequestType DEF FindPartyToDelete, Idle, Request
  <2>3. row \in Row /\ row # None
    BY <2>2, ReadPartyType, NoneIsNoRow DEF ReadOwnParty
  <2> QED
    BY <1>4, <2>1, <2>2, <2>3, ContinueType
    DEF TypeOK, FindPartyToDelete, store, replicas, history
<1>5. ASSUME NEW r \in Requests, FindPartyToUpdate(r)
      PROVE  TypeOK'
  <2>0. PICK row \in ReadOwnParty(req[r].user, req[r].party) :
               \E size \in MaxSizes \cup {row.maxSize} :
                  Continue(r, "upsertParty", [row EXCEPT !.maxSize = size])
    BY <1>5 DEF FindPartyToUpdate
  <2>1. PICK size \in MaxSizes \cup {row.maxSize} :
               Continue(r, "upsertParty", [row EXCEPT !.maxSize = size])
    BY <2>0
  <2>2. req[r] # Idle /\ req[r].party \in Parties
    BY <1>5, RequestType DEF FindPartyToUpdate, Idle, Request
  <2>3. row \in Row
    BY <2>2, ReadPartyType DEF ReadOwnParty
  <2>4. [row EXCEPT !.maxSize = size] \in Row
    BY <2>1, <2>3 DEF Row, Sizes
  <2>5. [row EXCEPT !.maxSize = size] # None
    BY <2>4, NoneIsNoRow
  <2> QED
    BY <1>5, <2>1, <2>2, <2>4, <2>5, ContinueType
    DEF TypeOK, FindPartyToUpdate, store, replicas, history
<1>6. ASSUME NEW r \in Requests, DestroyParty(r)
      PROVE  TypeOK'
  BY <1>6, EndType DEF TypeOK, DestroyParty, replicas, history
<1>7. ASSUME NEW r \in Requests, UpsertParty(r)
      PROVE  TypeOK'
  <2>1. req[r] \in Request /\ req[r].row \in Row
    BY <1>7, RequestType DEF UpsertParty
  <2>2. party' \in [Parties -> Row \cup {None}] /\ peak' \in [Parties -> Int]
    BY <1>7, <2>1, PutPartyType DEF UpsertParty, Request
  <2> QED
    BY <1>7, <2>2, EndType DEF TypeOK, UpsertParty, replicas
<1>8. ASSUME NEW r \in Requests, NEW u \in Users, NEW p \in Parties, FindOwnParty(r, u, p)
      PROVE  TypeOK'
  <2>1. PICK row \in ReadOwnParty(u, p) : Begin(r, "countForInvite", u, p, u, row)
    BY <1>8 DEF FindOwnParty
  <2>2. row \in Row /\ row # None
    BY ReadPartyType, NoneIsNoRow DEF ReadOwnParty
  <2> QED
    BY <1>8, <2>1, <2>2, BeginType DEF TypeOK, FindOwnParty, store, replicas, history
<1>9. ASSUME NEW r \in Requests, CountForInvite(r)
      PROVE  TypeOK'
  <2>1. req[r] # Idle /\ req[r].row \in Row /\ req[r].row # None
    BY <1>9, RequestType, NoneIsNoRow DEF CountForInvite, Idle
  <2> QED
    BY <1>9, <2>1, ContinueType DEF TypeOK, CountForInvite, store, replicas, history
<1>10. ASSUME NEW r \in Requests, NEW i \in Invites, InsertInvite(r, i)
       PROVE  TypeOK'
  <2>1. req[r] \in Request
    BY <1>10, RequestType DEF InsertInvite
  <2>2. [party |-> req[r].party, createdBy |-> req[r].user] \in InviteRow
    BY <2>1 DEF Request, InviteRow
  <2> QED
    BY <1>10, <2>1, <2>2, EndType DEF TypeOK, InsertInvite, replicas, Request
<1>11. ASSUME NEW i \in Invites, InviteExpires(i)
       PROVE  TypeOK'
  BY <1>11 DEF TypeOK, InviteExpires, replicas, history
<1>12. ASSUME NEW r \in Requests, NEW u \in Users, NEW i \in Invites, FindInvite(r, u, i)
       PROVE  TypeOK'
  <2>1. invite[i].party \in Parties
    BY <1>12 DEF FindInvite, TypeOK, InviteRow
  <2>2. /\ req' \in [Requests -> Request \cup {Idle}]
        /\ \A q \in Requests : req'[q].row # None <=> req'[q].pc \in HoldsRow
    BY <1>12, <2>1, BeginType DEF FindInvite
  <2> QED
    BY <1>12, <2>2 DEF TypeOK, FindInvite, store, replicas, history
<1>13. ASSUME NEW r \in Requests, FindInvitedParty(r)
       PROVE  TypeOK'
  <2>1. PICK row \in ReadParty(req[r].party) : Continue(r, "countForJoin", row)
    BY <1>13 DEF FindInvitedParty
  <2>2. req[r] # Idle /\ req[r].party \in Parties
    BY <1>13, RequestType DEF FindInvitedParty, Idle, Request
  <2>3. row \in Row /\ row # None
    BY <2>2, ReadPartyType, NoneIsNoRow
  <2> QED
    BY <1>13, <2>1, <2>2, <2>3, ContinueType
    DEF TypeOK, FindInvitedParty, store, replicas, history
<1>14. ASSUME NEW r \in Requests, CountForJoin(r)
       PROVE  TypeOK'
  <2>1. req[r] # Idle /\ req[r].row \in Row /\ req[r].row # None
    BY <1>14, RequestType, NoneIsNoRow DEF CountForJoin, Idle
  <2> QED
    BY <1>14, <2>1, ContinueType DEF TypeOK, CountForJoin, store, replicas, history
<1>15. ASSUME NEW r \in Requests, InsertMember(r)
       PROVE  TypeOK'
  <2>1. /\ req[r] # Idle
        /\ req[r] \in Request
        /\ req[r].row \in Row
        /\ req[r].row # None
    BY <1>15, RequestType, NoneIsNoRow DEF InsertMember, Idle
  <2>2. /\ req' \in [Requests -> Request \cup {Idle}]
        /\ \A q \in Requests : req'[q].row # None <=> req'[q].pc \in HoldsRow
    BY <1>15, <2>1, EndType, ContinueType DEF InsertMember
  <2> QED
    BY <1>15, <2>1, <2>2 DEF TypeOK, InsertMember, PutMember, replicas, Request
<1>16. ASSUME NEW r \in Requests, GrantEntitlement(r)
       PROVE  TypeOK'
  <2>1. req[r] \in Request /\ req[r].row \in Row
    BY <1>16, RequestType DEF GrantEntitlement
  <2> QED
    BY <1>16, <2>1, EndType DEF TypeOK, GrantEntitlement, store, replicas, Request, Row
<1>17. ASSUME NEW r \in Requests, NEW u \in Users, NEW p \in Parties, NEW t \in Users,
              AuthorizeRemoval(r, u, p, t)
       PROVE  TypeOK'
  <2>1. /\ req' \in [Requests -> Request \cup {Idle}]
        /\ \A q \in Requests : req'[q].row # None <=> req'[q].pc \in HoldsRow
    BY <1>17, BeginType DEF AuthorizeRemoval
  <2> QED
    BY <1>17, <2>1 DEF TypeOK, AuthorizeRemoval, store, replicas, history
<1>18. ASSUME NEW r \in Requests, FindMember(r)
       PROVE  TypeOK'
  <2>1. /\ req' \in [Requests -> Request \cup {Idle}]
        /\ \A q \in Requests : req'[q].row # None <=> req'[q].pc \in HoldsRow
    <3>1. req[r] # Idle /\ Continue(r, "destroyMember", None)
      BY <1>18 DEF FindMember, Idle
    <3>2. /\ "destroyMember" \in Steps
          /\ None # None <=> "destroyMember" \in HoldsRow
      OBVIOUS
    <3> QED
      BY <3>1, <3>2, ContinueType
  <2> QED
    BY <1>18, <2>1 DEF TypeOK, FindMember, store, replicas, history
<1>19. ASSUME NEW r \in Requests, DestroyMember(r)
       PROVE  TypeOK'
  BY <1>19, EndType DEF TypeOK, DestroyMember, replicas, history
<1>20. ASSUME NEW r \in Requests, Abort(r)
       PROVE  TypeOK'
  BY <1>20, EndType DEF TypeOK, Abort, store, replicas, history
<1>24. ASSUME NEW r \in Requests, NEW u \in Users, NEW p \in Parties, FindOwnedParty(r, u, p)
       PROVE  TypeOK'
  <2>1. /\ req' \in [Requests -> Request \cup {Idle}]
        /\ \A q \in Requests : req'[q].row # None <=> req'[q].pc \in HoldsRow
    BY <1>24, BeginType DEF FindOwnedParty
  <2> QED
    BY <1>24, <2>1 DEF TypeOK, FindOwnedParty, store, replicas, history
<1>25. ASSUME NEW r \in Requests, DestroyOwnedParty(r)
       PROVE  TypeOK'
  <2>1. /\ req' \in [Requests -> Request \cup {Idle}]
        /\ \A q \in Requests : req'[q].row # None <=> req'[q].pc \in HoldsRow
    BY <1>25, ContinuesDeletion DEF DestroyOwnedParty, AccountSteps
  <2> QED
    BY <1>25, <2>1 DEF TypeOK, DestroyOwnedParty, replicas, history
<1>26. ASSUME NEW r \in Requests, NEW t \in Users, DestroyOwnedMember(r, t)
       PROVE  TypeOK'
  BY <1>26 DEF TypeOK, DestroyOwnedMember, replicas, history
<1>27. ASSUME NEW r \in Requests, NEW i \in Invites, DestroyOwnedInvite(r, i)
       PROVE  TypeOK'
  <2>1. /\ req' \in [Requests -> Request \cup {Idle}]
        /\ \A q \in Requests : req'[q].row # None <=> req'[q].pc \in HoldsRow
    BY <1>27, ContinuesDeletion DEF DestroyOwnedInvite, AccountSteps
  <2> QED
    BY <1>27, <2>1 DEF TypeOK, DestroyOwnedInvite, replicas, history
<1>21. ASSUME NEW p \in Parties, PartyReplicaCatchesUp(p)
       PROVE  TypeOK'
  BY <1>21 DEF TypeOK, PartyReplicaCatchesUp, store, history
<1>22. ASSUME NEW u \in Users, NEW p \in Parties, MemberReplicaCatchesUp(u, p)
       PROVE  TypeOK'
  BY <1>22 DEF TypeOK, MemberReplicaCatchesUp, store, history
<1>23. CASE UNCHANGED vars
  BY <1>23 DEF TypeOK, vars, store, replicas, history
<1> QED
  BY <1>1, <1>2, <1>3, <1>4, <1>5, <1>6, <1>7, <1>8, <1>9, <1>10, <1>11, <1>12,
     <1>13, <1>14, <1>15, <1>16, <1>17, <1>18, <1>19, <1>20, <1>21, <1>22, <1>23,
     <1>24, <1>25, <1>26, <1>27
  DEF Next, Handle, Arrive, PartiesController, InvitesController, MembersController,
      AccountController, Table

\* Every reachable state is well typed.
THEOREM TypeCorrect == Spec => []TypeOK
BY InitType, StepType, PTL DEF Spec

-----------------------------------------------------------------------------
(***************************************************************************)
(* The inductive invariant.  The safety invariants are not inductive: what *)
(* a request may write depends on what it read steps before, so the        *)
(* invariant says of each request that the past, which is never undone,    *)
(* justifies the writes it still has to make, and of the table that the    *)
(* past justifies each of its rows.                                        *)
(***************************************************************************)

OwnerSteps == {"insertCreator", "destroyParty", "upsertParty", "countForInvite", "insertInvite"}

JoinSteps == {"findInvitedParty", "countForJoin", "insertMember"}

RemovalSteps == {"findMember", "destroyMember"}

\* p was founded, and its founder has issued an invite to it.
Opened(p) == born[p] # None /\ <<born[p].createdBy, p>> \in invited

FoundedBy(u, p) == born[p] # None /\ u = born[p].createdBy

\* What the past owes a request at the step where it stands.
Backed(r) ==
    /\ req[r].row # None => OfParty(req[r].row, req[r].party)
    /\ req[r].pc \in OwnerSteps => req[r].user = req[r].row.createdBy
    /\ req[r].pc \in JoinSteps => Opened(req[r].party)
    /\ req[r].pc = "grant" =>
         <<req[r].user, req[r].party>> \in joined /\ req[r].row.duration # None
    /\ req[r].pc \in RemovalSteps =>
         req[r].user = req[r].target \/ FoundedBy(req[r].user, req[r].party)
    /\ req[r].pc \in AccountSteps => FoundedBy(req[r].user, req[r].party)

PartiesBacked ==
    \A p \in Parties :
        /\ party[p] # None => OfParty(party[p], p)
        /\ partyReplica[p] # None => OfParty(partyReplica[p], p)

InvitesBacked ==
    /\ \A i \in Invites : invite[i] # None => Opened(invite[i].party)
    /\ \A u \in Users, p \in Parties : <<u, p>> \in invited => FoundedBy(u, p)

MembersBacked ==
    /\ member \subseteq joined
    /\ \A u \in Users, p \in Parties : <<u, p>> \in joined => MayEnter(u, p)

Inv ==
    /\ TypeOK
    /\ PartiesBacked
    /\ InvitesBacked
    /\ MembersBacked
    /\ GrantsArePromised
    /\ \A r \in Requests : Backed(r)

LEMMA InitInv == Init => Inv
BY InitType DEF Init, Inv, PartiesBacked, InvitesBacked, MembersBacked,
   GrantsArePromised, Backed, Idle, OwnerSteps, JoinSteps, RemovalSteps, AccountSteps

\* The past only grows.
PastKept ==
    /\ \A p \in Parties : born[p] # None => born'[p] = born[p]
    /\ invited \subseteq invited'
    /\ joined \subseteq joined'

LEMMA StepKeepsPast == TypeOK /\ [Next]_vars => PastKept
<1> SUFFICES ASSUME TypeOK, [Next]_vars
             PROVE  PastKept
  OBVIOUS
<1>1. ASSUME NEW r \in Requests, NEW u \in Users, NEW p \in Parties,
             NEW size \in MaxSizes, NEW d \in Durations \cup {None},
             InsertParty(r, u, p, size, d)
      PROVE  PastKept
  BY <1>1 DEF InsertParty, PastKept, TypeOK
<1>2. ASSUME NEW r \in Requests, InsertCreator(r) \/ InsertMember(r)
      PROVE  PastKept
  BY <1>2 DEF InsertCreator, InsertMember, PutMember, PastKept
<1>3. ASSUME NEW r \in Requests, NEW i \in Invites, InsertInvite(r, i)
      PROVE  PastKept
  BY <1>3 DEF InsertInvite, PastKept
<1>4. CASE UNCHANGED <<born, invited, joined>>
  BY <1>4 DEF PastKept
<1> QED
  BY <1>1, <1>2, <1>3, <1>4
  DEF Next, Handle, Arrive, PartiesController, InvitesController,
      MembersController, AccountController, Table, FindForUser, FindPartyToDelete,
      FindPartyToUpdate, DestroyParty, UpsertParty, FindOwnParty, CountForInvite, InviteExpires,
      FindInvite, FindInvitedParty, CountForJoin, GrantEntitlement, AuthorizeRemoval, FindMember,
      DestroyMember, FindOwnedParty, DestroyOwnedParty, DestroyOwnedMember, DestroyOwnedInvite,
      Abort, PartyReplicaCatchesUp, MemberReplicaCatchesUp, vars, history

\* What justified a row or a right goes on justifying it.
LEMMA PastJustifies ==
    ASSUME PastKept, NEW p \in Parties, NEW u
    PROVE  /\ \A row : OfParty(row, p) => OfParty(row, p)'
           /\ Opened(p) => Opened(p)'
           /\ FoundedBy(u, p) => FoundedBy(u, p)'
           /\ MayEnter(u, p) => MayEnter(u, p)'
BY DEF PastKept, OfParty, Opened, FoundedBy, MayEnter

LEMMA OthersStayBacked ==
    ASSUME TypeOK, PastKept, NEW q \in Requests, Backed(q), req'[q] = req[q]
    PROVE  Backed(q)'
<1>1. CASE req[q] = Idle
  BY <1>1 DEF Backed, Idle, OwnerSteps, JoinSteps, RemovalSteps, AccountSteps
<1>2. CASE req[q] # Idle
  <2>1. req[q].party \in Parties
    BY <1>2 DEF TypeOK, Request
  <2> QED
    BY <2>1 DEF Backed, PastKept, OfParty, Opened, FoundedBy
<1> QED
  BY <1>1, <1>2

\* An idle request is owed nothing.
LEMMA IdleIsBacked ==
    ASSUME NEW r \in Requests, req'[r] = Idle
    PROVE  Backed(r)'
BY DEF Backed, Idle, OwnerSteps, JoinSteps, RemovalSteps, AccountSteps

\* The table and the past stay as they are when only requests move.
LEMMA TableStaysBacked ==
    ASSUME Inv, UNCHANGED <<store, replicas, history>>
    PROVE  /\ PartiesBacked'
           /\ InvitesBacked'
           /\ MembersBacked'
           /\ GrantsArePromised'
BY DEF Inv, PartiesBacked, InvitesBacked, MembersBacked, GrantsArePromised,
       OfParty, Opened, FoundedBy, MayEnter, store, replicas, history

\* Whatever a read of a party gives was founded as the party was.
LEMMA ReadsAreOfParty ==
    ASSUME Inv, NEW p \in Parties, NEW row \in ReadParty(p)
    PROVE  row \in Row /\ row # None /\ OfParty(row, p)
<1>1. row \in Row /\ row # None
  BY ReadPartyType, NoneIsNoRow DEF Inv
<1>2. ASSUME NEW old \in Row, OfParty(old, p), row = Entity(old)
      PROVE  OfParty(row, p)
  BY <1>2, EntityType DEF OfParty
<1>3. party[p] \in Row \cup {None} /\ partyReplica[p] \in Row \cup {None}
  BY DEF Inv, TypeOK
<1> QED
  BY <1>1, <1>2, <1>3, ReadPartyType DEF Inv, PartiesBacked

\* Rows no step has touched stay backed while the past grows.
LEMMA UntouchedStaysBacked ==
    ASSUME TypeOK, PastKept
    PROVE  /\ PartiesBacked /\ UNCHANGED <<party, partyReplica>> => PartiesBacked'
           /\ InvitesBacked /\ UNCHANGED <<invite, invited>> => InvitesBacked'
           /\ MembersBacked /\ joined' = joined /\ member' \subseteq joined => MembersBacked'
           /\ GrantsArePromised /\ UNCHANGED granted => GrantsArePromised'
<1>1. ASSUME PartiesBacked, UNCHANGED <<party, partyReplica>>
      PROVE  PartiesBacked'
  BY <1>1, PastJustifies DEF PartiesBacked
<1>2. ASSUME InvitesBacked, UNCHANGED <<invite, invited>>
      PROVE  InvitesBacked'
  <2> SUFFICES ASSUME NEW i \in Invites, invite[i] # None
               PROVE  Opened(invite[i].party)'
    BY <1>2, PastJustifies DEF InvitesBacked
  <2>1. invite[i].party \in Parties
    BY DEF TypeOK, InviteRow
  <2> QED
    BY <1>2, <2>1, PastJustifies DEF InvitesBacked, Opened
<1>3. ASSUME MembersBacked, joined' = joined, member' \subseteq joined
      PROVE  MembersBacked'
  BY <1>3, PastJustifies DEF MembersBacked
<1>4. ASSUME GrantsArePromised, UNCHANGED granted
      PROVE  GrantsArePromised'
  BY <1>4 DEF GrantsArePromised, PastKept
<1> QED
  BY <1>1, <1>2, <1>3, <1>4

LEMMA StepInv == Inv /\ [Next]_vars => Inv'
<1> SUFFICES ASSUME Inv, [Next]_vars
             PROVE  Inv'
  OBVIOUS
<1>0. TypeOK /\ TypeOK' /\ PastKept
  BY StepType, StepKeepsPast DEF Inv
<1> USE DEF At
\* A step of request r that only reads: what remains to show is that r may go on.
<1>a. ASSUME NEW r \in Requests, UNCHANGED <<store, replicas, history>>,
             \A q \in Requests \ {r} : req'[q] = req[q], Backed(r)'
      PROVE  Inv'
  BY <1>a, <1>0, OthersStayBacked, TableStaysBacked DEF Inv
\* A step of request r that writes and ends.
<1>b. ASSUME NEW r \in Requests, End(r),
             PartiesBacked', InvitesBacked', MembersBacked', GrantsArePromised'
      PROVE  Inv'
  BY <1>b, <1>0, OthersStayBacked, IdleIsBacked, EndType DEF Inv
<1>1. ASSUME NEW r \in Requests, NEW u \in Users, NEW p \in Parties,
             NEW size \in MaxSizes, NEW d \in Durations \cup {None},
             InsertParty(r, u, p, size, d)
      PROVE  Inv'
  <2>1. [createdBy |-> u, maxSize |-> size, duration |-> d] \in Row
    BY DEF Row, Sizes
  <2>2. PICK row \in Row : /\ row.createdBy = u
                           /\ Begin(r, "insertCreator", u, p, u, row)
                           /\ PutParty(p, row)
                           /\ born[p] = None
                           /\ born' = [born EXCEPT ![p] = row]
    BY <1>1, <2>1 DEF InsertParty
  <2>3. UNCHANGED <<member, invite, replicas, invited, joined, granted>>
    BY <1>1 DEF InsertParty
  <2>4. row # None
    BY NoneIsNoRow
  <2>5. /\ req'[r] = [pc |-> "insertCreator", user |-> u, party |-> p,
                      target |-> u, row |-> row]
        /\ \A q \in Requests \ {r} : req'[q] = req[q]
    BY <1>0, <2>2, <2>4, BeginType DEF Steps, HoldsRow
  <2>6. born'[p] = row /\ \A q \in Parties \ {p} : born'[q] = born[q]
    BY <1>0, <2>2 DEF TypeOK
  <2>7. OfParty(row, p)'
    BY <2>4, <2>6 DEF OfParty
  <2>8. Backed(r)'
    BY <2>2, <2>5, <2>7 DEF Backed, OwnerSteps, JoinSteps, RemovalSteps, AccountSteps
  <2>9. PartiesBacked'
    <3>1. party'[p] = row /\ \A q \in Parties \ {p} : party'[q] = party[q]
      BY <1>0, <2>2 DEF PutParty, TypeOK
    <3>2. partyReplica' = partyReplica
      BY <2>3 DEF replicas
    <3> QED
      BY <1>0, <2>7, <3>1, <3>2, PastJustifies DEF Inv, PartiesBacked
  <2>10. InvitesBacked' /\ MembersBacked' /\ GrantsArePromised'
    BY <1>0, <2>3, UntouchedStaysBacked DEF Inv, MembersBacked
  <2> QED
    BY <1>0, <2>5, <2>8, <2>9, <2>10, OthersStayBacked DEF Inv
<1>2. ASSUME NEW r \in Requests, InsertCreator(r)
      PROVE  Inv'
  <2>1. req[r] \in Request /\ Backed(r) /\ req[r].row # None
    BY <1>0, <1>2, RequestType, NoneIsNoRow DEF Inv, InsertCreator, HoldsRow
  <2>2. MayEnter(req[r].user, req[r].party)
    BY <1>2, <2>1 DEF InsertCreator, Backed, OfParty, MayEnter, OwnerSteps
  <2>3. MembersBacked'
    BY <1>0, <1>2, <2>1, <2>2, PastJustifies
    DEF Inv, MembersBacked, InsertCreator, PutMember, Request
  <2>4. PartiesBacked' /\ InvitesBacked' /\ GrantsArePromised'
    BY <1>0, <1>2, UntouchedStaysBacked DEF Inv, InsertCreator, replicas
  <2> QED
    BY <1>2, <1>b, <2>3, <2>4 DEF InsertCreator
<1>3. ASSUME NEW r \in Requests, NEW u \in Users, NEW p \in Parties, FindForUser(r, u, p)
      PROVE  Inv'
  <2>1. /\ req'[r] = [pc |-> "findParty", user |-> u, party |-> p,
                      target |-> u, row |-> None]
        /\ \A q \in Requests \ {r} : req'[q] = req[q]
    BY <1>0, <1>3, BeginType DEF FindForUser, Steps, HoldsRow
  <2>2. Backed(r)'
    BY <2>1 DEF Backed, OwnerSteps, JoinSteps, RemovalSteps, AccountSteps
  <2> QED
    BY <1>3, <1>a, <2>1, <2>2 DEF FindForUser
<1>4. ASSUME NEW r \in Requests, FindPartyToDelete(r)
      PROVE  Inv'
  <2>1. PICK row \in ReadOwnParty(req[r].user, req[r].party) : Continue(r, "destroyParty", row)
    BY <1>4 DEF FindPartyToDelete
  <2>2. req[r] # Idle /\ req[r] \in Request
    BY <1>0, <1>4, RequestType DEF FindPartyToDelete, Idle
  <2>3. row \in Row /\ row # None /\ OfParty(row, req[r].party) /\ row.createdBy = req[r].user
    BY <2>2, ReadsAreOfParty DEF ReadOwnParty, Request
  <2>4. /\ req'[r].pc = "destroyParty" /\ req'[r].row = row /\ SameCaller(r)
        /\ \A q \in Requests \ {r} : req'[q] = req[q]
    BY <1>0, <2>1, <2>2, <2>3, ContinueType DEF Steps, HoldsRow
  <2>5. born' = born
    BY <1>4 DEF FindPartyToDelete, history
  <2>6. Backed(r)'
    BY <2>2, <2>3, <2>4, <2>5
    DEF Backed, OfParty, SameCaller, OwnerSteps, JoinSteps, RemovalSteps, AccountSteps
  <2> QED
    BY <1>4, <1>a, <2>4, <2>6 DEF FindPartyToDelete
<1>5. ASSUME NEW r \in Requests, FindPartyToUpdate(r)
      PROVE  Inv'
  <2>1. PICK row \in ReadOwnParty(req[r].user, req[r].party) :
               \E size \in MaxSizes \cup {row.maxSize} :
                  Continue(r, "upsertParty", [row EXCEPT !.maxSize = size])
    BY <1>5 DEF FindPartyToUpdate
  <2>2. req[r] # Idle /\ req[r] \in Request
    BY <1>0, <1>5, RequestType DEF FindPartyToUpdate, Idle
  <2>3. row \in Row /\ OfParty(row, req[r].party) /\ row.createdBy = req[r].user
    BY <2>2, ReadsAreOfParty DEF ReadOwnParty, Request
  <2>4. PICK new \in Row : /\ new.createdBy = row.createdBy
                           /\ new.duration = row.duration
                           /\ Continue(r, "upsertParty", new)
    BY <2>1, <2>3 DEF Row, Sizes
  <2>5. /\ req'[r].pc = "upsertParty" /\ req'[r].row = new /\ SameCaller(r)
        /\ \A q \in Requests \ {r} : req'[q] = req[q]
    BY <1>0, <2>2, <2>4, ContinueType, NoneIsNoRow DEF Steps, HoldsRow
  <2>6. born' = born
    BY <1>5 DEF FindPartyToUpdate, history
  <2>7. Backed(r)'
    BY <2>2, <2>3, <2>4, <2>5, <2>6
    DEF Backed, OfParty, SameCaller, OwnerSteps, JoinSteps, RemovalSteps, AccountSteps
  <2> QED
    BY <1>5, <1>a, <2>5, <2>7 DEF FindPartyToUpdate
<1>6. ASSUME NEW r \in Requests, DestroyParty(r)
      PROVE  Inv'
  <2>1. PartiesBacked'
    BY <1>0, <1>6, PastJustifies
    DEF Inv, PartiesBacked, DestroyParty, TypeOK, replicas
  <2>2. InvitesBacked' /\ MembersBacked' /\ GrantsArePromised'
    BY <1>0, <1>6, UntouchedStaysBacked DEF Inv, DestroyParty, MembersBacked, history
  <2> QED
    BY <1>6, <1>b, <2>1, <2>2 DEF DestroyParty
<1>7. ASSUME NEW r \in Requests, UpsertParty(r)
      PROVE  Inv'
  <2>1. req[r].party \in Parties /\ OfParty(req[r].row, req[r].party)
    BY <1>0, <1>7, RequestType, NoneIsNoRow DEF Inv, Backed, UpsertParty, HoldsRow, Request
  <2>2. PartiesBacked'
    BY <1>0, <1>7, <2>1, PastJustifies
    DEF Inv, PartiesBacked, UpsertParty, PutParty, TypeOK, replicas
  <2>3. InvitesBacked' /\ MembersBacked' /\ GrantsArePromised'
    BY <1>0, <1>7, UntouchedStaysBacked DEF Inv, UpsertParty, MembersBacked
  <2> QED
    BY <1>7, <1>b, <2>2, <2>3 DEF UpsertParty
<1>8. ASSUME NEW r \in Requests, NEW u \in Users, NEW p \in Parties, FindOwnParty(r, u, p)
      PROVE  Inv'
  <2>1. PICK row \in ReadOwnParty(u, p) : Begin(r, "countForInvite", u, p, u, row)
    BY <1>8 DEF FindOwnParty
  <2>2. row \in Row /\ row # None /\ OfParty(row, p) /\ row.createdBy = u
    BY ReadsAreOfParty DEF ReadOwnParty
  <2>3. /\ req'[r] = [pc |-> "countForInvite", user |-> u, party |-> p,
                      target |-> u, row |-> row]
        /\ \A q \in Requests \ {r} : req'[q] = req[q]
    BY <1>0, <2>1, <2>2, BeginType DEF Steps, HoldsRow
  <2>4. OfParty(row, p)'
    BY <1>8, <2>2 DEF FindOwnParty, history, OfParty
  <2>5. Backed(r)'
    BY <2>2, <2>3, <2>4 DEF Backed, OwnerSteps, JoinSteps, RemovalSteps, AccountSteps
  <2> QED
    BY <1>8, <1>a, <2>3, <2>5 DEF FindOwnParty
<1>9. ASSUME NEW r \in Requests, CountForInvite(r)
      PROVE  Inv'
  <2>1. req[r] # Idle /\ req[r] \in Request /\ req[r].row \in Row /\ req[r].row # None
    BY <1>0, <1>9, RequestType, NoneIsNoRow DEF CountForInvite, Idle, HoldsRow
  <2>2. /\ req'[r].pc = "insertInvite" /\ req'[r].row = req[r].row /\ SameCaller(r)
        /\ \A q \in Requests \ {r} : req'[q] = req[q]
    BY <1>0, <1>9, <2>1, ContinueType DEF CountForInvite, Steps, HoldsRow
  <2>3. Backed(r) /\ born' = born
    BY <1>9 DEF Inv, CountForInvite, history
  <2>4. Backed(r)'
    BY <1>9, <2>1, <2>2, <2>3
    DEF CountForInvite, Backed, OfParty, SameCaller, OwnerSteps, JoinSteps, RemovalSteps, AccountSteps
  <2> QED
    BY <1>9, <1>a, <2>2, <2>4 DEF CountForInvite
<1>10. ASSUME NEW r \in Requests, NEW i \in Invites, InsertInvite(r, i)
       PROVE  Inv'
  <2>1. req[r] \in Request /\ req[r].row # None /\ Backed(r)
    BY <1>0, <1>10, RequestType, NoneIsNoRow DEF Inv, InsertInvite, HoldsRow
  <2>2. PICK p \in Parties : p = req[r].party /\ FoundedBy(req[r].user, p)
    BY <1>10, <2>1 DEF InsertInvite, Backed, OfParty, FoundedBy, OwnerSteps, Request
  <2>3. Opened(p)'
    BY <1>10, <2>2 DEF InsertInvite, FoundedBy, Opened
  <2>4. ASSUME NEW j \in Invites, invite'[j] # None, NEW q \in Parties, q = invite'[j].party
        PROVE  Opened(q)'
    <3>1. CASE j = i
      BY <1>0, <1>10, <2>2, <2>3, <2>4, <3>1 DEF InsertInvite, TypeOK
    <3>2. CASE j # i
      <4>1. invite'[j] = invite[j]
        BY <1>0, <1>10, <3>2 DEF InsertInvite, TypeOK
      <4> QED
        BY <1>0, <2>4, <4>1, PastJustifies DEF Inv, InvitesBacked
    <3> QED
      BY <3>1, <3>2
  <2>5. InvitesBacked'
    <3>1. \A j \in Invites : invite'[j] # None => Opened(invite[j].party)'
      BY <1>0, <2>4 DEF Opened, TypeOK, InviteRow
    <3>2. ASSUME NEW u \in Users, NEW q \in Parties, <<u, q>> \in invited'
          PROVE  FoundedBy(u, q)'
      BY <1>0, <1>10, <2>2, <3>2, PastJustifies DEF Inv, InvitesBacked, InsertInvite
    <3> QED
      BY <3>1, <3>2 DEF InvitesBacked
  <2>6. PartiesBacked' /\ MembersBacked' /\ GrantsArePromised'
    BY <1>0, <1>10, UntouchedStaysBacked DEF Inv, InsertInvite, MembersBacked, replicas
  <2> QED
    BY <1>10, <1>b, <2>5, <2>6 DEF InsertInvite
<1>11. ASSUME NEW i \in Invites, InviteExpires(i)
       PROVE  Inv'
  <2>1. InvitesBacked'
    BY <1>0, <1>11 DEF Inv, InvitesBacked, InviteExpires, Opened, FoundedBy, TypeOK, history
  <2>2. PartiesBacked' /\ MembersBacked' /\ GrantsArePromised'
    BY <1>0, <1>11, UntouchedStaysBacked
    DEF Inv, InviteExpires, MembersBacked, replicas, history
  <2> QED
    BY <1>0, <1>11, <2>1, <2>2, OthersStayBacked DEF Inv, InviteExpires
<1>12. ASSUME NEW r \in Requests, NEW u \in Users, NEW i \in Invites, FindInvite(r, u, i)
       PROVE  Inv'
  <2>1. invite[i].party \in Parties /\ Opened(invite[i].party)
    BY <1>0, <1>12 DEF FindInvite, TypeOK, InviteRow, Inv, InvitesBacked
  <2>2. /\ req'[r] = [pc |-> "findInvitedParty", user |-> u, party |-> invite[i].party,
                      target |-> u, row |-> None]
        /\ \A q \in Requests \ {r} : req'[q] = req[q]
    BY <1>0, <1>12, <2>1, BeginType DEF FindInvite, Steps, HoldsRow
  <2>3. born' = born /\ invited' = invited
    BY <1>12 DEF FindInvite, history
  <2>4. Backed(r)'
    BY <2>1, <2>2, <2>3 DEF Backed, Opened, OwnerSteps, JoinSteps, RemovalSteps, AccountSteps
  <2> QED
    BY <1>12, <1>a, <2>2, <2>4 DEF FindInvite
<1>13. ASSUME NEW r \in Requests, FindInvitedParty(r)
       PROVE  Inv'
  <2>1. PICK row \in ReadParty(req[r].party) : Continue(r, "countForJoin", row)
    BY <1>13 DEF FindInvitedParty
  <2>2. req[r] # Idle /\ req[r] \in Request
    BY <1>0, <1>13, RequestType DEF FindInvitedParty, Idle
  <2>3. row \in Row /\ row # None /\ OfParty(row, req[r].party)
    BY <2>2, ReadsAreOfParty DEF Request
  <2>4. /\ req'[r].pc = "countForJoin" /\ req'[r].row = row /\ SameCaller(r)
        /\ \A q \in Requests \ {r} : req'[q] = req[q]
    BY <1>0, <2>1, <2>2, <2>3, ContinueType DEF Steps, HoldsRow
  <2>5. born' = born /\ invited' = invited /\ Backed(r)
    BY <1>13 DEF Inv, FindInvitedParty, history
  <2>6. Backed(r)'
    BY <1>13, <2>2, <2>3, <2>4, <2>5
    DEF FindInvitedParty, Backed, OfParty, Opened, SameCaller, OwnerSteps, JoinSteps, RemovalSteps, AccountSteps
  <2> QED
    BY <1>13, <1>a, <2>4, <2>6 DEF FindInvitedParty
<1>14. ASSUME NEW r \in Requests, CountForJoin(r)
       PROVE  Inv'
  <2>1. req[r] # Idle /\ req[r] \in Request /\ req[r].row \in Row /\ req[r].row # None
    BY <1>0, <1>14, RequestType, NoneIsNoRow DEF CountForJoin, Idle, HoldsRow
  <2>2. /\ req'[r].pc = "insertMember" /\ req'[r].row = req[r].row /\ SameCaller(r)
        /\ \A q \in Requests \ {r} : req'[q] = req[q]
    BY <1>0, <1>14, <2>1, ContinueType DEF CountForJoin, Steps, HoldsRow
  <2>3. Backed(r) /\ born' = born /\ invited' = invited
    BY <1>14 DEF Inv, CountForJoin, history
  <2>4. Backed(r)'
    BY <1>14, <2>1, <2>2, <2>3
    DEF CountForJoin, Backed, OfParty, Opened, SameCaller, OwnerSteps, JoinSteps, RemovalSteps, AccountSteps
  <2> QED
    BY <1>14, <1>a, <2>2, <2>4 DEF CountForJoin
<1>15. ASSUME NEW r \in Requests, InsertMember(r)
       PROVE  Inv'
  <2>1. /\ req[r] # Idle
        /\ req[r] \in Request
        /\ req[r].row \in Row
        /\ req[r].row # None
        /\ Backed(r)
    BY <1>0, <1>15, RequestType, NoneIsNoRow DEF Inv, InsertMember, Idle, HoldsRow
  <2>2. MayEnter(req[r].user, req[r].party)
    BY <1>15, <2>1 DEF InsertMember, Backed, Opened, MayEnter, JoinSteps
  <2>3. MembersBacked'
    BY <1>0, <1>15, <2>1, <2>2, PastJustifies
    DEF Inv, MembersBacked, InsertMember, PutMember, Request
  <2>4. PartiesBacked' /\ InvitesBacked' /\ GrantsArePromised'
    BY <1>0, <1>15, UntouchedStaysBacked DEF Inv, InsertMember, replicas
  <2>5. CASE req[r].row.duration = None
    BY <1>15, <1>b, <2>3, <2>4, <2>5 DEF InsertMember
  <2>6. CASE req[r].row.duration # None
    <3>1. /\ req'[r].pc = "grant" /\ req'[r].row = req[r].row /\ SameCaller(r)
          /\ \A q \in Requests \ {r} : req'[q] = req[q]
      BY <1>0, <1>15, <2>1, <2>6, ContinueType DEF InsertMember, Steps, HoldsRow
    <3>2. born' = born /\ <<req[r].user, req[r].party>> \in joined'
      BY <1>15 DEF InsertMember, PutMember
    <3>3. Backed(r)'
      BY <2>1, <2>6, <3>1, <3>2
      DEF Backed, OfParty, SameCaller, OwnerSteps, JoinSteps, RemovalSteps, AccountSteps
    <3> QED
      BY <1>0, <2>3, <2>4, <3>1, <3>3, OthersStayBacked DEF Inv
  <2> QED
    BY <2>5, <2>6
<1>16. ASSUME NEW r \in Requests, GrantEntitlement(r)
       PROVE  Inv'
  <2>1. req[r] \in Request /\ req[r].row # None /\ Backed(r)
    BY <1>0, <1>16, RequestType, NoneIsNoRow DEF Inv, GrantEntitlement, HoldsRow
  <2>2. GrantsArePromised'
    BY <1>16, <2>1 DEF Inv, GrantsArePromised, GrantEntitlement, Backed, OfParty
  <2>3. PartiesBacked' /\ InvitesBacked' /\ MembersBacked'
    BY <1>0, <1>16, UntouchedStaysBacked
    DEF Inv, GrantEntitlement, MembersBacked, store, replicas
  <2> QED
    BY <1>16, <1>b, <2>2, <2>3 DEF GrantEntitlement
<1>17. ASSUME NEW r \in Requests, NEW u \in Users, NEW p \in Parties, NEW t \in Users,
              AuthorizeRemoval(r, u, p, t)
       PROVE  Inv'
  <2>1. u = t \/ FoundedBy(u, p)
    BY <1>17, ReadsAreOfParty DEF AuthorizeRemoval, ReadOwnParty, OfParty, FoundedBy
  <2>2. /\ req'[r] = [pc |-> "findMember", user |-> u, party |-> p,
                      target |-> t, row |-> None]
        /\ \A q \in Requests \ {r} : req'[q] = req[q]
    BY <1>0, <1>17, BeginType DEF AuthorizeRemoval, Steps, HoldsRow
  <2>3. born' = born
    BY <1>17 DEF AuthorizeRemoval, history
  <2>4. Backed(r)'
    BY <2>1, <2>2, <2>3 DEF Backed, FoundedBy, OwnerSteps, JoinSteps, RemovalSteps, AccountSteps
  <2> QED
    BY <1>17, <1>a, <2>2, <2>4 DEF AuthorizeRemoval
<1>18. ASSUME NEW r \in Requests, FindMember(r)
       PROVE  Inv'
  <2>1. req[r] # Idle /\ req[r] \in Request /\ Continue(r, "destroyMember", None)
    BY <1>0, <1>18, RequestType DEF FindMember, Idle
  <2>2. /\ "destroyMember" \in Steps
        /\ None # None <=> "destroyMember" \in HoldsRow
    BY DEF Steps, HoldsRow
  <2>3. /\ req'[r].pc = "destroyMember" /\ req'[r].row = None /\ SameCaller(r)
        /\ \A q \in Requests \ {r} : req'[q] = req[q]
    BY <1>0, <2>1, <2>2, ContinueType
  <2>4. Backed(r) /\ born' = born
    BY <1>18 DEF Inv, FindMember, history
  <2>5. Backed(r)'
    BY <1>18, <2>1, <2>3, <2>4
    DEF FindMember, Backed, FoundedBy, SameCaller, OwnerSteps, JoinSteps, RemovalSteps, AccountSteps
  <2> QED
    BY <1>18, <1>a, <2>3, <2>5 DEF FindMember
<1>19. ASSUME NEW r \in Requests, DestroyMember(r)
       PROVE  Inv'
  <2>1. PartiesBacked' /\ InvitesBacked' /\ MembersBacked' /\ GrantsArePromised'
    BY <1>0, <1>19, UntouchedStaysBacked
    DEF Inv, DestroyMember, MembersBacked, replicas, history
  <2> QED
    BY <1>19, <1>b, <2>1 DEF DestroyMember
<1>20. ASSUME NEW r \in Requests, Abort(r)
       PROVE  Inv'
  BY <1>20, <1>b, TableStaysBacked DEF Abort
<1>24. ASSUME NEW r \in Requests, NEW u \in Users, NEW p \in Parties, FindOwnedParty(r, u, p)
       PROVE  Inv'
  <2>1. FoundedBy(u, p)
    BY <1>24, ReadsAreOfParty DEF FindOwnedParty, ReadOwnParty, OfParty, FoundedBy
  <2>2. /\ req'[r] = [pc |-> "destroyOwned", user |-> u, party |-> p,
                      target |-> u, row |-> None]
        /\ \A q \in Requests \ {r} : req'[q] = req[q]
    BY <1>0, <1>24, BeginType DEF FindOwnedParty, Steps, HoldsRow
  <2>3. born' = born
    BY <1>24 DEF FindOwnedParty, history
  <2>4. Backed(r)'
    BY <2>1, <2>2, <2>3 DEF Backed, FoundedBy, OwnerSteps, JoinSteps, RemovalSteps, AccountSteps
  <2> QED
    BY <1>24, <1>a, <2>2, <2>4 DEF FindOwnedParty
\* A step of an account's deletion that goes on to delete.
<1>e. ASSUME NEW r \in Requests, req[r].pc \in AccountSteps,
             NEW pc \in AccountSteps, Continue(r, pc, None), born' = born,
             PartiesBacked', InvitesBacked', MembersBacked', GrantsArePromised'
      PROVE  Inv'
  <2>1. /\ req'[r].pc = pc /\ req'[r].row = None /\ SameCaller(r)
        /\ \A q \in Requests \ {r} : req'[q] = req[q]
    BY <1>0, <1>e, ContinuesDeletion
  <2>2. Backed(r)
    BY DEF Inv
  <2>3. Backed(r)'
    BY <1>e, <2>1, <2>2
    DEF Backed, FoundedBy, SameCaller, OwnerSteps, JoinSteps, RemovalSteps, AccountSteps
  <2> QED
    BY <1>0, <1>e, <2>1, <2>3, OthersStayBacked DEF Inv
<1>25. ASSUME NEW r \in Requests, DestroyOwnedParty(r)
       PROVE  Inv'
  <2>1. PartiesBacked'
    BY <1>0, <1>25, PastJustifies
    DEF Inv, PartiesBacked, DestroyOwnedParty, TypeOK, replicas
  <2>2. InvitesBacked' /\ MembersBacked' /\ GrantsArePromised'
    BY <1>0, <1>25, UntouchedStaysBacked DEF Inv, DestroyOwnedParty, MembersBacked, history
  <2> QED
    BY <1>25, <1>e, <2>1, <2>2 DEF DestroyOwnedParty, AccountSteps, history
<1>26. ASSUME NEW r \in Requests, NEW t \in Users, DestroyOwnedMember(r, t)
       PROVE  Inv'
  <2>1. PartiesBacked' /\ InvitesBacked' /\ MembersBacked' /\ GrantsArePromised'
    BY <1>0, <1>26, UntouchedStaysBacked
    DEF Inv, DestroyOwnedMember, MembersBacked, replicas, history
  <2> QED
    BY <1>0, <1>26, <2>1, OthersStayBacked DEF Inv, DestroyOwnedMember
<1>27. ASSUME NEW r \in Requests, NEW i \in Invites, DestroyOwnedInvite(r, i)
       PROVE  Inv'
  <2>1. InvitesBacked'
    BY <1>0, <1>27
    DEF Inv, InvitesBacked, DestroyOwnedInvite, Opened, FoundedBy, TypeOK, history
  <2>2. PartiesBacked' /\ MembersBacked' /\ GrantsArePromised'
    BY <1>0, <1>27, UntouchedStaysBacked
    DEF Inv, DestroyOwnedInvite, MembersBacked, replicas, history
  <2> QED
    BY <1>27, <1>e, <2>1, <2>2 DEF DestroyOwnedInvite, AccountSteps, history
<1>21. ASSUME NEW p \in Parties, PartyReplicaCatchesUp(p)
       PROVE  Inv'
  <2>1. PartiesBacked'
    BY <1>0, <1>21, PastJustifies
    DEF Inv, PartiesBacked, PartyReplicaCatchesUp, TypeOK, store
  <2>2. InvitesBacked' /\ MembersBacked' /\ GrantsArePromised'
    BY <1>0, <1>21, UntouchedStaysBacked
    DEF Inv, PartyReplicaCatchesUp, MembersBacked, store, history
  <2> QED
    BY <1>0, <1>21, <2>1, <2>2, OthersStayBacked DEF Inv, PartyReplicaCatchesUp
<1>22. ASSUME NEW u \in Users, NEW p \in Parties, MemberReplicaCatchesUp(u, p)
       PROVE  Inv'
  <2>1. PartiesBacked' /\ InvitesBacked' /\ MembersBacked' /\ GrantsArePromised'
    BY <1>0, <1>22, UntouchedStaysBacked
    DEF Inv, MemberReplicaCatchesUp, MembersBacked, store, history
  <2> QED
    BY <1>0, <1>22, <2>1, OthersStayBacked DEF Inv, MemberReplicaCatchesUp
<1>23. CASE UNCHANGED vars
  BY <1>0, <1>23, TableStaysBacked, OthersStayBacked DEF Inv, vars
<1> QED
  BY <1>1, <1>2, <1>3, <1>4, <1>5, <1>6, <1>7, <1>8, <1>9, <1>10, <1>11, <1>12,
     <1>13, <1>14, <1>15, <1>16, <1>17, <1>18, <1>19, <1>20, <1>21, <1>22, <1>23,
     <1>24, <1>25, <1>26, <1>27
  DEF Next, Handle, Arrive, PartiesController, InvitesController, MembersController,
      AccountController, Table

LEMMA Invariance == Spec => []Inv
BY InitInv, StepInv, PTL DEF Spec

-----------------------------------------------------------------------------
(***************************************************************************)
(* What follows from the invariant.                                        *)
(***************************************************************************)

\* Whoever founded a party, and whatever it promised, stays so in its row, in
\* its replicas and in the copies requests write back.
THEOREM IdentityIsKept == Spec => []RowsKeepIdentity
<1>1. Inv => RowsKeepIdentity
  BY DEF Inv, PartiesBacked, Backed, RowsKeepIdentity
<1> QED
  BY <1>1, Invariance, PTL

\* Members are the creator and those who came by the creator's invite.
THEOREM MembersAreInvited == Spec => []MembersWereInvited
<1>1. Inv => MembersWereInvited
  BY DEF Inv, MembersBacked, MembersWereInvited
<1> QED
  BY <1>1, Invariance, PTL

\* Entitlements are granted as promised, to people who have joined.
THEOREM GrantsKeepPromises == Spec => []GrantsArePromised
<1>1. Inv => GrantsArePromised
  BY DEF Inv
<1> QED
  BY <1>1, Invariance, PTL

\* A step that deletes the row of t, as one of r's.
Destroys(r, t) ==
    \/ DestroyMember(r) /\ t = req[r].target
    \/ DestroyOwnedMember(r, t)

\* The steps that write member rows.
LEMMA MemberWriters ==
    ASSUME [Next]_vars
    PROVE  \/ UNCHANGED <<member, joined>>
           \/ \E r \in Requests : \/ InsertCreator(r) \/ InsertMember(r)
                                 \/ \E t : Destroys(r, t)
<1>1. CASE \E r \in Requests : Handle(r)
  BY <1>1
  DEF Handle, Destroys, FindPartyToDelete, FindPartyToUpdate, DestroyParty, UpsertParty,
      CountForInvite, InsertInvite, FindInvitedParty, CountForJoin, GrantEntitlement,
      FindMember, DestroyOwnedParty, DestroyOwnedInvite, Abort, store, history
<1>2. ASSUME NEW r \in Requests, NEW u \in Users, Arrive(r, u)
      PROVE  UNCHANGED <<member, joined>>
  <2>1. \A p, size, d : InsertParty(r, u, p, size, d) => UNCHANGED <<member, joined>>
    BY DEF InsertParty
  <2>2. \A p : FindForUser(r, u, p) \/ FindOwnParty(r, u, p) \/ FindOwnedParty(r, u, p)
                 => UNCHANGED <<member, joined>>
    BY DEF FindForUser, FindOwnParty, FindOwnedParty, store, history
  <2>3. \A p, t : AuthorizeRemoval(r, u, p, t) => UNCHANGED <<member, joined>>
    BY DEF AuthorizeRemoval, store, history
  <2>4. \A i : FindInvite(r, u, i) => UNCHANGED <<member, joined>>
    BY DEF FindInvite, store, history
  <2> QED
    BY <1>2, <2>1, <2>2, <2>3, <2>4
       DEF Arrive, PartiesController, InvitesController, MembersController, AccountController
<1>3. CASE Table
  BY <1>3 DEF Table, InviteExpires, PartyReplicaCatchesUp, MemberReplicaCatchesUp, store, history
<1>4. CASE UNCHANGED vars
  BY <1>4 DEF vars, store, history
<1> QED
  BY <1>1, <1>2, <1>3, <1>4 DEF Next

\* Deleting a row leaves the others and the past.
LEMMA DestroysEffect ==
    ASSUME NEW r, NEW t, Destroys(r, t)
    PROVE  /\ member' = member \ {<<t, req[r].party>>}
           /\ UNCHANGED joined
           /\ \/ At(r, "destroyMember") /\ t = req[r].target
              \/ At(r, "destroyMembers")
BY DEF Destroys, DestroyMember, DestroyOwnedMember, history

\* The steps that write party rows.
LEMMA PartyWriters ==
    ASSUME [Next]_vars
    PROVE  \/ UNCHANGED <<party, peak>>
           \/ \E r \in Requests :
                \/ DestroyParty(r) \/ UpsertParty(r) \/ DestroyOwnedParty(r)
                \/ \E u \in Users, p \in Parties, size \in MaxSizes, d \in Durations \cup {None} :
                      InsertParty(r, u, p, size, d)
<1>1. CASE \E r \in Requests : Handle(r)
  BY <1>1
  DEF Handle, InsertCreator, FindPartyToDelete, FindPartyToUpdate, CountForInvite,
      InsertInvite, FindInvitedParty, CountForJoin, InsertMember, GrantEntitlement,
      FindMember, DestroyMember, DestroyOwnedMember, DestroyOwnedInvite, Abort, store, history
<1>2. ASSUME NEW r \in Requests, NEW u \in Users, Arrive(r, u),
             ~ \E p \in Parties, size \in MaxSizes, d \in Durations \cup {None} :
                  InsertParty(r, u, p, size, d)
      PROVE  UNCHANGED <<party, peak>>
  BY <1>2
  DEF Arrive, PartiesController, InvitesController, MembersController, AccountController,
      FindForUser, FindOwnParty, FindInvite, AuthorizeRemoval, FindOwnedParty, store, history
<1>3. CASE Table
  BY <1>3 DEF Table, InviteExpires, PartyReplicaCatchesUp, MemberReplicaCatchesUp, store, history
<1>4. CASE UNCHANGED vars
  BY <1>4 DEF vars, store, history
<1> QED
  BY <1>1, <1>2, <1>3, <1>4 DEF Next

\* Member rows disappear only by the member's or the creator's request.
THEOREM RemovalsAreAuthorised == Spec => RemovalIsAuthorised
<1>1. ASSUME Inv, [Next]_vars, NEW u \in Users, NEW p \in Parties,
             <<u, p>> \in member, <<u, p>> \notin member'
      PROVE  \E r \in Requests : MayRemove(r, u, p)
  <2>0. ~ UNCHANGED member
    BY <1>1
  <2>1. PICK r \in Requests : \E t : Destroys(r, t)
    BY <1>1, <2>0, MemberWriters DEF InsertCreator, InsertMember, PutMember
  <2>2. PICK t : Destroys(r, t)
    BY <2>1
  <2>3. req[r].party = p /\ t = u
    BY <1>1, <2>2, DestroysEffect
  <2>4. Backed(r)
    BY <1>1 DEF Inv
  <2> QED
    BY <2>2, <2>3, <2>4, DestroysEffect
       DEF MayRemove, Backed, FoundedBy, RemovalSteps, AccountSteps, At
<1>2. Inv /\ [Next]_vars =>
        [\A u \in Users, p \in Parties :
           <<u, p>> \in member /\ <<u, p>> \notin member' =>
              \E r \in Requests : MayRemove(r, u, p)]_vars
  BY <1>1
<1> QED
  BY <1>2, Invariance, PTL DEF Spec, RemovalIsAuthorised

LEMMA BeginEffect ==
    ASSUME TypeOK, NEW r \in Requests, NEW pc, NEW u, NEW p, NEW t, NEW row,
           Begin(r, pc, u, p, t, row)
    PROVE  /\ req'[r].pc = pc /\ req'[r].party = p
           /\ \A q \in Requests \ {r} : req'[q] = req[q]
BY DEF TypeOK, Begin

LEMMA ContinueEffect ==
    ASSUME TypeOK, NEW r \in Requests, req[r].pc # "idle", NEW pc, NEW row,
           Continue(r, pc, row)
    PROVE  /\ req'[r].pc = pc /\ req'[r].row = row
           /\ SameCaller(r)
           /\ \A q \in Requests \ {r} : req'[q] = req[q]
BY RequestType DEF TypeOK, Continue, Request, SameCaller

\* How a request comes to the steps at which it takes somebody in.
LEMMA Arrivals ==
    ASSUME TypeOK, [Next]_vars, NEW r \in Requests
    PROVE  /\ At(r, "countForJoin")' => req'[r] = req[r] \/ FindInvitedParty(r)
           /\ At(r, "insertMember")' => req'[r] = req[r] \/ CountForJoin(r)
           /\ At(r, "insertCreator")' =>
                \/ req'[r] = req[r]
                \/ \E u \in Users, p \in Parties, size \in MaxSizes, d \in Durations \cup {None} :
                     InsertParty(r, u, p, size, d)
<1> DEFINE Elsewhere == req'[r].pc \notin {"countForJoin", "insertMember", "insertCreator"}
           Founding == \E u \in Users, p \in Parties, size \in MaxSizes, d \in Durations \cup {None} :
                          InsertParty(r, u, p, size, d)
           Goal == \/ req'[r] = req[r]
                   \/ Elsewhere
                   \/ At(r, "countForJoin")' /\ FindInvitedParty(r)
                   \/ At(r, "insertMember")' /\ CountForJoin(r)
                   \/ At(r, "insertCreator")' /\ Founding
<1> USE DEF At
<1>1. ASSUME NEW q \in Requests, Handle(q)
      PROVE  Goal
  <2>1. ASSUME End(q)
        PROVE  Goal
    BY <2>1, EndType DEF Idle
  <2>2. ASSUME NEW pc, NEW row, Continue(q, pc, row), req[q].pc # "idle",
               pc \notin {"countForJoin", "insertMember", "insertCreator"}
        PROVE  Goal
    BY <2>2, ContinueEffect
  <2>3. CASE FindInvitedParty(q)
    BY <2>3, ContinueEffect DEF FindInvitedParty
  <2>4. CASE CountForJoin(q)
    BY <2>4, ContinueEffect DEF CountForJoin
  <2>5. CASE FindPartyToDelete(q)
    BY <2>2, <2>5 DEF FindPartyToDelete
  <2>6. CASE FindPartyToUpdate(q)
    BY <2>2, <2>6 DEF FindPartyToUpdate
  <2>7. CASE CountForInvite(q) \/ FindMember(q)
    BY <2>2, <2>7 DEF CountForInvite, FindMember
  <2>8. CASE InsertMember(q)
    BY <2>1, <2>2, <2>8 DEF InsertMember
  <2>9. CASE DestroyOwnedParty(q) \/ \E i \in Invites : DestroyOwnedInvite(q, i)
    BY <2>2, <2>9 DEF DestroyOwnedParty, DestroyOwnedInvite
  <2>10. CASE \E t \in Users : DestroyOwnedMember(q, t)
    BY <2>10 DEF DestroyOwnedMember
  <2> QED
    BY <1>1, <2>1, <2>3, <2>4, <2>5, <2>6, <2>7, <2>8, <2>9, <2>10
    DEF Handle, InsertCreator, DestroyParty, UpsertParty, InsertInvite, GrantEntitlement,
        DestroyMember, Abort
<1>2. ASSUME NEW q \in Requests, NEW u \in Users, Arrive(q, u)
      PROVE  Goal
  <2>1. ASSUME NEW pc, NEW v, NEW p, NEW t, NEW row, Begin(q, pc, v, p, t, row),
               pc \notin {"countForJoin", "insertMember", "insertCreator"}
        PROVE  Goal
    BY <2>1, BeginEffect
  <2>2. ASSUME NEW p \in Parties, NEW size \in MaxSizes, NEW d \in Durations \cup {None},
               InsertParty(q, u, p, size, d)
        PROVE  Goal
    <3>1. PICK row : Begin(q, "insertCreator", u, p, u, row)
      BY <2>2 DEF InsertParty
    <3>2. CASE q = r
      BY <2>2, <3>1, <3>2, BeginEffect
    <3>3. CASE q # r
      BY <3>1, <3>3, BeginEffect
    <3> QED
      BY <3>2, <3>3
  <2>3. ASSUME NEW p \in Parties, FindForUser(q, u, p)
        PROVE  Goal
    BY <2>1, <2>3 DEF FindForUser
  <2>4. ASSUME NEW p \in Parties, FindOwnParty(q, u, p)
        PROVE  Goal
    BY <2>1, <2>4 DEF FindOwnParty
  <2>5. ASSUME NEW p \in Parties, NEW t \in Users, AuthorizeRemoval(q, u, p, t)
        PROVE  Goal
    BY <2>1, <2>5 DEF AuthorizeRemoval
  <2>6. ASSUME NEW i \in Invites, FindInvite(q, u, i)
        PROVE  Goal
    BY <2>1, <2>6 DEF FindInvite
  <2>7. ASSUME NEW p \in Parties, FindOwnedParty(q, u, p)
        PROVE  Goal
    BY <2>1, <2>7 DEF FindOwnedParty
  <2> QED
    BY <1>2, <2>2, <2>3, <2>4, <2>5, <2>6, <2>7
       DEF Arrive, PartiesController, InvitesController, MembersController, AccountController
<1>3. CASE Table
  BY <1>3 DEF Table, InviteExpires, PartyReplicaCatchesUp, MemberReplicaCatchesUp
<1>4. CASE UNCHANGED vars
  BY <1>4 DEF vars
<1>5. Goal
  BY <1>1, <1>2, <1>3, <1>4 DEF Next
<1> QED
  BY <1>5

-----------------------------------------------------------------------------
(***************************************************************************)
(* Creations that die half way.  A party cannot be named before its        *)
(* creator's member row is written, so until then nothing refers to it but *)
(* the request that creates it and those that delete what its creator      *)
(* owns.                                                                   *)
(***************************************************************************)

UnnamedSteps == AccountSteps \cup {"insertCreator"}

CreatorFirst ==
    \A p \in Parties : ~Known(p) =>
        /\ party[p] \in {born[p], None}
        /\ \A u \in Users : <<u, p>> \notin joined \cup invited
        /\ \A r \in Requests :
             req[r].pc # "idle" /\ req[r].party = p =>
                req[r].pc \in UnnamedSteps /\ born[p] # None

LEMMA InitCreatorFirst == Init => CreatorFirst
BY DEF Init, CreatorFirst, Known, Idle

\* A request that is neither is about a party that is known.
LEMMA AtWorkOnKnown ==
    ASSUME Inv, CreatorFirst, NEW r \in Requests,
           req[r].pc # "idle", req[r].pc \notin UnnamedSteps
    PROVE  req[r].party \in Parties /\ Known(req[r].party)
<1>1. req[r].party \in Parties
  BY RequestType DEF Inv, Request
<1> QED
  BY <1>1 DEF CreatorFirst

LEMMA StepCreatorFirst == Inv /\ CreatorFirst /\ [Next]_vars => CreatorFirst'
<1> SUFFICES ASSUME Inv, CreatorFirst, [Next]_vars
             PROVE  CreatorFirst'
  OBVIOUS
<1>0. TypeOK /\ TypeOK' /\ PastKept
  BY StepType, StepKeepsPast DEF Inv
<1> USE DEF At, UnnamedSteps, AccountSteps
\* A step of r that leaves r idle or about a known party, and every party that is
\* not known alone.
<1>a. ASSUME NEW r \in Requests, \A q \in Requests \ {r} : req'[q] = req[q],
             born' = born,
             NEW k, Known(k)', req'[r].pc = "idle" \/ req'[r].party = k,
             \A p \in Parties : ~Known(p)' =>
                /\ party'[p] = party[p]
                /\ \A u \in Users : <<u, p>> \in joined' \cup invited'
                                      => <<u, p>> \in joined \cup invited
      PROVE  CreatorFirst'
  <2> SUFFICES ASSUME NEW p \in Parties, ~Known(p)'
               PROVE  /\ party'[p] \in {born'[p], None}
                      /\ \A u \in Users : <<u, p>> \notin joined' \cup invited'
                      /\ \A q \in Requests :
                           req'[q].pc # "idle" /\ req'[q].party = p =>
                              req'[q].pc \in UnnamedSteps /\ born'[p] # None
    BY DEF CreatorFirst
  <2>1. ~Known(p)
    BY <1>0, <1>a DEF Known, PastKept
  <2> QED
    BY <1>a, <2>1 DEF CreatorFirst
\* A step of r that only moves its request on.
<1>b. ASSUME NEW r \in Requests, \A q \in Requests \ {r} : req'[q] = req[q],
             UNCHANGED <<store, replicas, history>>,
             NEW k, Known(k), req'[r].party = k
      PROVE  CreatorFirst'
  <2>1. Known(k)'
    BY <1>b DEF Known, history
  <2> QED
    BY <1>a, <1>b, <2>1 DEF store, history
\* A request that continues is about the party it was about.
<1>c. ASSUME NEW r \in Requests, NEW pc, NEW row, Continue(r, pc, row),
             UNCHANGED <<store, replicas, history>>,
             req[r].pc # "idle", req[r].pc \notin UnnamedSteps
      PROVE  CreatorFirst'
  <2>1. /\ req'[r].party = req[r].party
        /\ \A q \in Requests \ {r} : req'[q] = req[q]
    BY <1>0, <1>c, ContinueEffect DEF SameCaller, Idle
  <2> QED
    BY <1>b, <1>c, <2>1, AtWorkOnKnown
\* A write of a request about a known party touches no other.
<1>d. ASSUME NEW r \in Requests, req[r].pc # "idle", req[r].pc \notin UnnamedSteps,
             NEW k, req[r].party = k,
             \A q \in Requests \ {r} : req'[q] = req[q],
             born' = born,
             req'[r].pc = "idle" \/ req'[r].party = k,
             \A p \in Parties : p # k =>
                /\ party'[p] = party[p]
                /\ \A u \in Users : <<u, p>> \in joined' \cup invited'
                                      => <<u, p>> \in joined \cup invited
      PROVE  CreatorFirst'
  <2>1. k \in Parties /\ Known(k)
    BY <1>d, AtWorkOnKnown
  <2>2. Known(k)'
    BY <1>0, <1>d, <2>1 DEF Known, PastKept
  <2> QED
    BY <1>a, <1>d, <2>2
<1>1. ASSUME NEW r \in Requests, NEW u \in Users, NEW p \in Parties,
             NEW size \in MaxSizes, NEW d \in Durations \cup {None},
             InsertParty(r, u, p, size, d)
      PROVE  CreatorFirst'
  <2>1. [createdBy |-> u, maxSize |-> size, duration |-> d] \in Row
    BY DEF Row, Sizes
  <2>2. PICK row \in Row : /\ Begin(r, "insertCreator", u, p, u, row)
                           /\ PutParty(p, row)
                           /\ born[p] = None
                           /\ born' = [born EXCEPT ![p] = row]
    BY <1>1, <2>1 DEF InsertParty
  <2>3. UNCHANGED <<invited, joined>>
    BY <1>1 DEF InsertParty
  <2>4. /\ req'[r].pc = "insertCreator" /\ req'[r].party = p
        /\ \A q \in Requests \ {r} : req'[q] = req[q]
    BY <1>0, <2>2, BeginEffect
  <2>5. /\ party'[p] = row /\ born'[p] = row /\ row # None
        /\ \A q \in Parties \ {p} : party'[q] = party[q] /\ born'[q] = born[q]
    BY <1>0, <2>2, NoneIsNoRow DEF PutParty, TypeOK
  <2>6. ~Known(p)
    BY <2>2 DEF Known
  <2>7. \A q \in Requests \ {r} : req'[q].pc = "idle" \/ req'[q].party # p
    BY <2>2, <2>4, <2>6 DEF CreatorFirst
  <2>8. \A q \in Parties \ {p} : ~Known(q)' => ~Known(q)
    BY <2>3, <2>5 DEF Known
  <2> SUFFICES ASSUME NEW q \in Parties, ~Known(q)'
               PROVE  /\ party'[q] \in {born'[q], None}
                      /\ \A v \in Users : <<v, q>> \notin joined' \cup invited'
                      /\ \A o \in Requests :
                           req'[o].pc # "idle" /\ req'[o].party = q =>
                              req'[o].pc \in UnnamedSteps /\ born'[q] # None
    BY DEF CreatorFirst
  <2>9. CASE q = p
    BY <2>3, <2>4, <2>5, <2>6, <2>7, <2>9 DEF CreatorFirst
  <2>10. CASE q # p
    BY <2>3, <2>4, <2>5, <2>8, <2>10 DEF CreatorFirst
  <2> QED
    BY <2>9, <2>10
<1>2. ASSUME NEW r \in Requests, InsertCreator(r)
      PROVE  CreatorFirst'
  <2>1. req[r] \in Request /\ Backed(r) /\ req[r].row # None
    BY <1>0, <1>2, RequestType, NoneIsNoRow DEF Inv, InsertCreator, HoldsRow
  <2>2. /\ req'[r] = Idle /\ \A q \in Requests \ {r} : req'[q] = req[q]
        /\ UNCHANGED <<party, born, invited>>
        /\ joined' = joined \cup {<<req[r].user, req[r].party>>}
    BY <1>0, <1>2, EndType DEF InsertCreator, PutMember
  <2>3. PICK k : k = req[r].party
    OBVIOUS
  <2>4. Known(k)'
    BY <1>2, <2>1, <2>2, <2>3 DEF InsertCreator, Backed, OfParty, OwnerSteps, Known
  <2> QED
    BY <1>a, <2>2, <2>3, <2>4 DEF Idle
<1>3. ASSUME NEW r \in Requests, NEW u \in Users, Arrive(r, u),
             \A p \in Parties, size \in MaxSizes, d \in Durations \cup {None} :
                ~InsertParty(r, u, p, size, d),
             \A p \in Parties : ~FindOwnedParty(r, u, p)
      PROVE  CreatorFirst'
  <2>1. /\ UNCHANGED <<store, replicas, history>>
        /\ \E pc, p, t, row : Known(p) /\ Begin(r, pc, u, p, t, row)
    <3>1. ASSUME NEW i \in Invites, FindInvite(r, u, i)
          PROVE  /\ UNCHANGED <<store, replicas, history>>
                 /\ \E pc, p, t, row : Known(p) /\ Begin(r, pc, u, p, t, row)
      <4>1. PICK p \in Parties : p = invite[i].party
        BY <1>0, <3>1 DEF FindInvite, TypeOK, InviteRow
      <4>2. Opened(p) /\ born[p] \in Row
        BY <1>0, <3>1, <4>1 DEF FindInvite, Inv, InvitesBacked, Opened, TypeOK
      <4>3. Known(p)
        BY <4>2 DEF CreatorFirst, Opened, Row
      <4> QED
        BY <3>1, <4>1, <4>3 DEF FindInvite
    <3> QED
      BY <1>3, <3>1
      DEF Arrive, PartiesController, InvitesController, MembersController,
          AccountController, FindForUser, FindOwnParty, AuthorizeRemoval
  <2>2. PICK pc, p, t, row : Known(p) /\ Begin(r, pc, u, p, t, row)
    BY <2>1
  <2>3. req'[r].party = p /\ \A q \in Requests \ {r} : req'[q] = req[q]
    BY <1>0, <2>2, BeginEffect
  <2> QED
    BY <1>b, <2>1, <2>2, <2>3
<1>4. ASSUME NEW r \in Requests,
             \/ FindPartyToDelete(r) \/ FindPartyToUpdate(r) \/ CountForInvite(r)
             \/ FindInvitedParty(r) \/ CountForJoin(r) \/ FindMember(r)
      PROVE  CreatorFirst'
  BY <1>4, <1>c
  DEF FindPartyToDelete, FindPartyToUpdate, CountForInvite, FindInvitedParty,
      CountForJoin, FindMember
<1>5. ASSUME NEW r \in Requests, DestroyParty(r) \/ UpsertParty(r)
      PROVE  CreatorFirst'
  <2>1. /\ req'[r] = Idle /\ \A q \in Requests \ {r} : req'[q] = req[q]
        /\ UNCHANGED <<born, invited, joined>>
        /\ \A p \in Parties : p # req[r].party => party'[p] = party[p]
        /\ req[r].pc # "idle" /\ req[r].pc \notin UnnamedSteps
    BY <1>0, <1>5, EndType DEF DestroyParty, UpsertParty, PutParty, TypeOK, history
  <2> QED
    BY <1>d, <2>1 DEF Idle
<1>6. ASSUME NEW r \in Requests, NEW i \in Invites, InsertInvite(r, i)
      PROVE  CreatorFirst'
  <2>1. /\ req'[r] = Idle /\ \A q \in Requests \ {r} : req'[q] = req[q]
        /\ UNCHANGED <<party, born, joined>>
        /\ invited' = invited \cup {<<req[r].user, req[r].party>>}
        /\ req[r].pc # "idle" /\ req[r].pc \notin UnnamedSteps
    BY <1>0, <1>6, EndType DEF InsertInvite
  <2> QED
    BY <1>d, <2>1 DEF Idle
<1>7. ASSUME NEW r \in Requests, InsertMember(r)
      PROVE  CreatorFirst'
  <2>1. /\ req'[r].pc = "idle" \/ req'[r].party = req[r].party
        /\ \A q \in Requests \ {r} : req'[q] = req[q]
    <3>1. CASE End(r)
      BY <1>0, <3>1, EndType DEF Idle
    <3>2. CASE Continue(r, "grant", req[r].row)
      BY <1>0, <1>7, <3>2, ContinueEffect DEF InsertMember, SameCaller, Idle
    <3> QED
      BY <1>7, <3>1, <3>2 DEF InsertMember
  <2>2. /\ UNCHANGED <<party, born, invited>>
        /\ joined' = joined \cup {<<req[r].user, req[r].party>>}
        /\ req[r].pc # "idle" /\ req[r].pc \notin UnnamedSteps
    BY <1>7 DEF InsertMember, PutMember
  <2> QED
    BY <1>d, <2>1, <2>2
<1>8. ASSUME NEW r \in Requests, GrantEntitlement(r) \/ DestroyMember(r) \/ Abort(r)
      PROVE  CreatorFirst'
  <2>1. /\ req'[r] = Idle /\ \A q \in Requests \ {r} : req'[q] = req[q]
        /\ UNCHANGED <<party, born, invited, joined>>
    BY <1>0, <1>8, EndType DEF GrantEntitlement, DestroyMember, Abort, store, history
  <2> SUFFICES ASSUME NEW p \in Parties, ~Known(p)
               PROVE  /\ party'[p] \in {born'[p], None}
                      /\ \A u \in Users : <<u, p>> \notin joined' \cup invited'
                      /\ \A q \in Requests :
                           req'[q].pc # "idle" /\ req'[q].party = p =>
                              req'[q].pc \in UnnamedSteps /\ born'[p] # None
    BY <2>1 DEF CreatorFirst, Known
  <2> QED
    BY <2>1 DEF CreatorFirst, Idle
\* The deletion of an account, which also comes to parties nobody can name.
<1>f. ASSUME NEW r \in Requests, UNCHANGED <<born, invited, joined>>,
             \A q \in Requests \ {r} : req'[q] = req[q],
             req'[r].pc \in AccountSteps,
             req'[r].party \in Parties => born[req'[r].party] # None,
             \A p \in Parties : party'[p] \in {party[p], None}
      PROVE  CreatorFirst'
  <2> SUFFICES ASSUME NEW p \in Parties, ~Known(p)
               PROVE  /\ party'[p] \in {born'[p], None}
                      /\ \A u \in Users : <<u, p>> \notin joined' \cup invited'
                      /\ \A q \in Requests :
                           req'[q].pc # "idle" /\ req'[q].party = p =>
                              req'[q].pc \in UnnamedSteps /\ born'[p] # None
    BY <1>f DEF CreatorFirst, Known
  <2> QED
    BY <1>f DEF CreatorFirst
<1>10. ASSUME NEW r \in Requests, NEW u \in Users, NEW p \in Parties, FindOwnedParty(r, u, p)
       PROVE  CreatorFirst'
  <2>1. born[p] # None
    BY <1>10, ReadsAreOfParty DEF FindOwnedParty, ReadOwnParty, OfParty
  <2>2. /\ req'[r].pc = "destroyOwned" /\ req'[r].party = p
        /\ \A q \in Requests \ {r} : req'[q] = req[q]
    BY <1>0, <1>10, BeginEffect DEF FindOwnedParty
  <2> QED
    BY <1>10, <1>f, <2>1, <2>2 DEF FindOwnedParty, store, history
<1>11. ASSUME NEW r \in Requests,
              DestroyOwnedParty(r) \/ \E i \in Invites : DestroyOwnedInvite(r, i)
       PROVE  CreatorFirst'
  <2>1. PICK pc \in AccountSteps : Continue(r, pc, None) /\ req[r].pc \in AccountSteps
    BY <1>11 DEF DestroyOwnedParty, DestroyOwnedInvite
  <2>2. /\ req'[r].pc = pc /\ req'[r].party = req[r].party
        /\ \A q \in Requests \ {r} : req'[q] = req[q]
    BY <1>0, <2>1, ContinuesDeletion DEF SameCaller
  <2>3. born[req[r].party] # None
    BY <2>1 DEF Inv, Backed, FoundedBy
  <2>4. /\ UNCHANGED <<born, invited, joined>>
        /\ \A p \in Parties : party'[p] \in {party[p], None}
    BY <1>0, <1>11 DEF DestroyOwnedParty, DestroyOwnedInvite, TypeOK, history
  <2> QED
    BY <1>f, <2>1, <2>2, <2>3, <2>4
<1>9. CASE \/ Table \/ UNCHANGED vars
            \/ \E r \in Requests, t \in Users : DestroyOwnedMember(r, t)
  <2>1. UNCHANGED <<party, req, born, invited, joined>>
    BY <1>9
    DEF Table, InviteExpires, PartyReplicaCatchesUp, MemberReplicaCatchesUp,
        DestroyOwnedMember, vars, store, history
  <2> QED
    BY <2>1 DEF CreatorFirst, Known
<1> QED
  BY <1>1, <1>2, <1>3, <1>4, <1>5, <1>6, <1>7, <1>8, <1>9, <1>10, <1>11
  DEF Next, Handle, Arrive, PartiesController, AccountController

LEMMA CreatorsComeFirst == Spec => [](Inv /\ CreatorFirst)
BY InitInv, InitCreatorFirst, StepInv, StepCreatorFirst, PTL DEF Spec

\* A party whose creation died before its second write is as it was written until
\* its creator's account is deleted, and nobody else ever comes to it.
THEOREM OrphansStayOutOfReach == Spec => OrphansAreOutOfReach
<1> DEFINE ByItsOwner(p) ==
             /\ party'[p] = None
             /\ \E r \in Requests :
                  /\ At(r, "destroyOwned")
                  /\ req[r].party = p
                  /\ req[r].user = born[p].createdBy
           Left(p) ==
             /\ Orphaned(p)'
             /\ party'[p] \in {born[p], None}
             /\ party'[p] # party[p] => ByItsOwner(p)
             /\ Roster(member', p) = {}
             /\ \A i \in Invites : invite'[i] # None => invite'[i].party # p
<1>1. ASSUME Inv, CreatorFirst, Inv', CreatorFirst', [Next]_vars,
             NEW p \in Parties, Orphaned(p)
      PROVE  Left(p)
  <2>1. ~Known(p) /\ born[p] # None /\ born'[p] = born[p]
    BY <1>1, StepKeepsPast DEF Orphaned, Known, Inv, PastKept
  <2>2. \A r \in Requests : req[r].pc \in AccountSteps \cup {"idle"} \/ req[r].party # p
    BY <1>1, <2>1 DEF CreatorFirst, Orphaned, UnnamedSteps
  <2>3. Orphaned(p)'
    <3>1. PICK c \in Users : c = born[p].createdBy
      BY <1>1, <2>1 DEF Inv, TypeOK, Row
    <3>2. <<c, p>> \notin joined'
      <4>1. CASE UNCHANGED joined
        BY <1>1, <3>1, <4>1 DEF Orphaned
      <4>2. ASSUME NEW r \in Requests, InsertCreator(r) \/ InsertMember(r)
            PROVE  <<c, p>> \notin joined'
        BY <1>1, <2>2, <3>1, <4>2
        DEF InsertCreator, InsertMember, PutMember, At, Orphaned, AccountSteps
      <4> QED
        BY <1>1, <4>1, <4>2, MemberWriters, DestroysEffect
    <3>3. ASSUME NEW r \in Requests, req'[r].party = p, req'[r].pc = "insertCreator"
          PROVE  FALSE
      <4>1. req'[r] # req[r]
        BY <2>2, <3>3 DEF AccountSteps
      <4>2. PICK u \in Users, q \in Parties, size \in MaxSizes, d \in Durations \cup {None} :
              InsertParty(r, u, q, size, d)
        BY <1>1, <3>3, <4>1, Arrivals DEF At, Inv
      <4>3. PICK row : Begin(r, "insertCreator", u, q, u, row)
        BY <4>2 DEF InsertParty
      <4>4. q = p
        BY <1>1, <3>3, <4>3, BeginEffect DEF Inv
      <4> QED
        BY <2>1, <4>2, <4>4 DEF InsertParty
    <3> QED
      BY <2>1, <3>1, <3>2, <3>3 DEF Orphaned
  <2>4. ~Known(p)'
    BY <2>3 DEF Orphaned, Known
  <2>5. party'[p] \in {born[p], None}
    BY <1>1, <2>1, <2>4 DEF CreatorFirst
  <2>8. party'[p] # party[p] => ByItsOwner(p)
    <3>1. ASSUME NEW r \in Requests, DestroyOwnedParty(r), party'[p] # party[p]
          PROVE  ByItsOwner(p)
      <4>1. party'[p] = None /\ req[r].party = p
        BY <1>1, <3>1 DEF DestroyOwnedParty, Inv, TypeOK
      <4>2. req[r].user = born[p].createdBy
        BY <1>1, <3>1, <4>1 DEF DestroyOwnedParty, Inv, Backed, FoundedBy, AccountSteps, At
      <4> QED
        BY <3>1, <4>1, <4>2 DEF DestroyOwnedParty
    <3>2. ASSUME NEW r \in Requests, DestroyParty(r) \/ UpsertParty(r)
          PROVE  party'[p] = party[p]
      BY <1>1, <2>2, <3>2 DEF DestroyParty, UpsertParty, PutParty, Inv, TypeOK, At, AccountSteps
    <3>3. ASSUME NEW r \in Requests, NEW u \in Users, NEW q \in Parties, NEW size \in MaxSizes,
                 NEW d \in Durations \cup {None}, InsertParty(r, u, q, size, d)
          PROVE  party'[p] = party[p]
      BY <1>1, <2>1, <3>3 DEF InsertParty, PutParty, Inv, TypeOK
    <3> QED
      BY <1>1, <3>1, <3>2, <3>3, PartyWriters
  <2>6. Roster(member', p) = {}
    BY <1>1, <2>4 DEF CreatorFirst, Inv, MembersBacked, Roster
  <2>7. \A i \in Invites : invite'[i] # None => invite'[i].party # p
    <3>1. ASSUME NEW i \in Invites, invite'[i] # None, invite'[i].party = p
          PROVE  FALSE
      <4>1. born'[p] # None /\ <<born'[p].createdBy, p>> \in invited'
        BY <1>1, <3>1 DEF Inv, InvitesBacked, Opened
      <4>2. born'[p].createdBy \in Users
        BY <1>1, <4>1 DEF Inv, TypeOK, Row
      <4> QED
        BY <1>1, <2>4, <4>1, <4>2 DEF CreatorFirst
    <3> QED
      BY <3>1
  <2> QED
    BY <2>3, <2>5, <2>6, <2>7, <2>8
<1>2. Inv /\ CreatorFirst /\ (Inv /\ CreatorFirst)' /\ [Next]_vars
        => [\A p \in Parties : Orphaned(p) => Left(p)]_vars
  BY <1>1
<1> QED
  BY <1>2, CreatorsComeFirst, PTL DEF Spec, OrphansAreOutOfReach

(***************************************************************************)
(* The contract.                                                           *)
(***************************************************************************)

LEMMA InitContract == Init => Contract!Init
BY DEF Init, Contract!Init

LEMMA StepContract == Inv /\ CreatorFirst /\ [Next]_vars => [Contract!Next]_(Contract!vars)
<1> SUFFICES ASSUME Inv, CreatorFirst, [Next]_vars
             PROVE  Contract!Next \/ UNCHANGED Contract!vars
  OBVIOUS
<1> DEFINE founder == [p \in Parties |-> IF born[p] = None THEN None ELSE born[p].createdBy]
           promise == [p \in Parties |-> IF born[p] = None THEN None ELSE born[p].duration]
           open == {p \in Parties : born[p] # None /\ <<born[p].createdBy, p>> \in invited}
<1>0. TypeOK
  BY DEF Inv
<1>1. ASSUME NEW r \in Requests, NEW u \in Users, NEW p \in Parties,
             NEW size \in MaxSizes, NEW d \in Durations \cup {None},
             InsertParty(r, u, p, size, d)
      PROVE  Contract!Found(u, p, d)
  <2>1. [createdBy |-> u, maxSize |-> size, duration |-> d] \in Row
    BY DEF Row, Sizes
  <2>2. PICK row \in Row : /\ row.createdBy = u
                           /\ row.duration = d
                           /\ born[p] = None
                           /\ born' = [born EXCEPT ![p] = row]
    BY <1>1, <2>1 DEF InsertParty
  <2>3. row # None
    BY NoneIsNoRow
  <2>4. UNCHANGED <<member, invited, joined, granted>>
    BY <1>1 DEF InsertParty
  <2>5. /\ founder[p] = None
        /\ founder' = [founder EXCEPT ![p] = u]
        /\ promise' = [promise EXCEPT ![p] = d]
    BY <1>0, <2>2, <2>3 DEF TypeOK
  <2>6. open' = open
    <3>1. <<u, p>> \notin invited
      BY <2>2 DEF Inv, InvitesBacked, FoundedBy
    <3> QED
      BY <1>0, <2>2, <2>3, <2>4, <3>1 DEF TypeOK
  <2> QED
    BY <2>4, <2>5, <2>6 DEF Contract!Found
<1>2. ASSUME NEW r \in Requests, InsertCreator(r) \/ InsertMember(r)
      PROVE  Contract!Enter(req[r].user, req[r].party)
  <2>1. req[r] \in Request /\ req[r].row # None /\ Backed(r)
    BY <1>0, <1>2, RequestType, NoneIsNoRow DEF Inv, InsertCreator, InsertMember, HoldsRow, At
  <2>2. MayEnter(req[r].user, req[r].party)
    BY <1>2, <2>1 DEF InsertCreator, InsertMember, Backed, OfParty, Opened, MayEnter,
                      OwnerSteps, JoinSteps, At
  <2>3. UNCHANGED <<born, invited, granted>>
    BY <1>2 DEF InsertCreator, InsertMember
  <2>4. /\ member' = member \cup {<<req[r].user, req[r].party>>}
        /\ joined' = joined \cup {<<req[r].user, req[r].party>>}
    BY <1>2 DEF InsertCreator, InsertMember, PutMember
  <2>5. /\ founder[req[r].party] # None
        /\ req[r].user = founder[req[r].party] \/ req[r].party \in open
    BY <1>0, <2>1, <2>2, NoneIsNoUser DEF MayEnter, TypeOK, Row, Request
  <2> QED
    BY <2>3, <2>4, <2>5 DEF Contract!Enter
<1>3. ASSUME NEW r \in Requests, NEW i \in Invites, InsertInvite(r, i)
      PROVE  \E p \in Parties : Contract!Open(p)
  <2>1. req[r] \in Request /\ req[r].row # None /\ Backed(r)
    BY <1>0, <1>3, RequestType, NoneIsNoRow DEF Inv, InsertInvite, HoldsRow, At
  <2>2. PICK p \in Parties, u \in Users : p = req[r].party /\ u = req[r].user /\ FoundedBy(u, p)
    BY <1>3, <2>1 DEF InsertInvite, Backed, OfParty, FoundedBy, OwnerSteps, At, Request
  <2>3. UNCHANGED <<born, member, joined, granted>>
        /\ invited' = invited \cup {<<u, p>>}
    BY <1>3, <2>2 DEF InsertInvite
  <2>4. <<founder[p], p>> \in joined
    BY <1>3, <2>1, <2>2, AtWorkOnKnown DEF InsertInvite, At, Known, UnnamedSteps, AccountSteps
  <2>5. open' = open \cup {p}
    BY <2>2, <2>3 DEF FoundedBy
  <2>6. Contract!Open(p)
    BY <2>3, <2>4, <2>5 DEF Contract!Open
  <2> QED
    BY <2>6
<1>4. ASSUME NEW r \in Requests, NEW t, Destroys(r, t)
      PROVE  Contract!Leave(t, req[r].party)
  BY <1>4 DEF Destroys, DestroyMember, DestroyOwnedMember, Contract!Leave, history
<1>5. ASSUME NEW r \in Requests, GrantEntitlement(r)
      PROVE  Contract!Grant(req[r].user, req[r].party)
  <2>1. req[r] \in Request /\ req[r].row # None /\ Backed(r)
    BY <1>0, <1>5, RequestType, NoneIsNoRow DEF Inv, GrantEntitlement, HoldsRow, At
  <2>2. /\ <<req[r].user, req[r].party>> \in joined
        /\ promise[req[r].party] = req[r].row.duration
        /\ promise[req[r].party] # None
    BY <1>5, <2>1 DEF GrantEntitlement, Backed, OfParty, Request, At
  <2>3. /\ UNCHANGED <<born, invited, member, joined>>
        /\ granted' = granted \cup {<<req[r].user, req[r].party, req[r].row.duration>>}
    BY <1>5 DEF GrantEntitlement, store
  <2> QED
    BY <2>2, <2>3 DEF Contract!Grant
<1>6. ASSUME UNCHANGED <<born, invited, member, joined, granted>>
      PROVE  UNCHANGED Contract!vars
  BY <1>6 DEF Contract!vars
<1>7. ASSUME NEW r \in Requests, req[r].pc # "idle"
      PROVE  req[r].user \in Users /\ req[r].party \in Parties /\ req[r].target \in Users
  BY <1>0, <1>7, RequestType DEF Request
<1>8. ASSUME NEW r \in Requests,
             \/ InsertCreator(r) \/ InsertMember(r) \/ \E t \in Users : DestroyOwnedMember(r, t)
             \/ DestroyMember(r) \/ GrantEntitlement(r) \/ \E i \in Invites : InsertInvite(r, i)
      PROVE  Contract!Next
  <2>1. req[r].pc # "idle"
    BY <1>8
    DEF InsertCreator, InsertMember, DestroyMember, DestroyOwnedMember, GrantEntitlement,
        InsertInvite, At
  <2>2. req[r].user \in Users /\ req[r].party \in Parties /\ req[r].target \in Users
    BY <1>7, <2>1
  <2>3. CASE InsertCreator(r) \/ InsertMember(r)
    BY <1>2, <2>2, <2>3 DEF Contract!Next
  <2>4. CASE DestroyMember(r) \/ \E t \in Users : DestroyOwnedMember(r, t)
    BY <1>4, <2>2, <2>4 DEF Contract!Next, Destroys
  <2>5. CASE GrantEntitlement(r)
    BY <1>5, <2>2, <2>5 DEF Contract!Next
  <2>6. CASE \E i \in Invites : InsertInvite(r, i)
    <3>1. PICK p \in Parties : Contract!Open(p)
      BY <1>3, <2>6
    <3> QED
      BY <3>1 DEF Contract!Next
  <2> QED
    BY <1>8, <2>3, <2>4, <2>5, <2>6
<1>9. ASSUME NEW r \in Requests, NEW u \in Users, NEW p \in Parties,
             NEW size \in MaxSizes, NEW d \in Durations \cup {None},
             InsertParty(r, u, p, size, d)
      PROVE  Contract!Next
  BY <1>1, <1>9 DEF Contract!Next
<1> QED
  BY <1>6, <1>8, <1>9
  DEF Next, Handle, Arrive, PartiesController, InvitesController,
      MembersController, Table, FindForUser, FindPartyToDelete, FindPartyToUpdate,
      DestroyParty, UpsertParty, FindOwnParty, CountForInvite, InviteExpires, FindInvite,
      FindInvitedParty, CountForJoin, AuthorizeRemoval, FindMember, FindOwnedParty,
      DestroyOwnedParty, DestroyOwnedInvite, AccountController, Abort, PartyReplicaCatchesUp, MemberReplicaCatchesUp, vars, store, history

\* The API, with its interleavings, its faults and its stale reads, implements
\* the atomic contract.
THEOREM ApiImplementsContract == Spec => ImplementsContract
BY InitContract, StepContract, CreatorsComeFirst, PTL DEF Spec, ImplementsContract, Contract!Spec

-----------------------------------------------------------------------------
(***************************************************************************)
(* Deleted parties.                                                        *)
(***************************************************************************)

Harmless == {"idle", "findParty", "findInvitedParty", "findMember", "destroyMember",
             "destroyOwned", "destroyMembers", "destroyInvites"}

\* A settled party has nothing to be read.
LEMMA NothingToRead ==
    ASSUME NEW p \in Parties, Settled(p)
    PROVE  ReadParty(p) = {}
BY DEF Settled, ReadParty

\* What a step of request r has to respect for p to stay settled.
LEMMA StaysSettled ==
    ASSUME NEW p \in Parties, NEW r \in Requests, Settled(p),
           \A q \in Requests \ {r} : req'[q] = req[q],
           req'[r].party = p => req'[r].pc \in Harmless,
           born'[p] = born[p], party'[p] = None, partyReplica'[p] = None
    PROVE  Settled(p)'
BY DEF Settled, Harmless

LEMMA StepSettled ==
    ASSUME TypeOK, [Next]_vars, NEW p \in Parties, Settled(p)
    PROVE  Settled(p)' /\ Roster(member', p) \subseteq Roster(member, p)
<1> DEFINE Goal == Settled(p)' /\ Roster(member', p) \subseteq Roster(member, p)
<1> USE DEF At
<1>0. /\ born[p] # None /\ party[p] = None /\ partyReplica[p] = None
      /\ \A r \in Requests : req[r].party = p => req[r].pc \in Harmless
  BY DEF Settled, Harmless
\* A step of r that only moves its request on.
<1>a. ASSUME NEW r \in Requests, UNCHANGED <<store, replicas, history>>,
             \A q \in Requests \ {r} : req'[q] = req[q],
             req'[r].party = p => req'[r].pc \in Harmless
      PROVE  Goal
  BY <1>0, <1>a, StaysSettled DEF store, replicas, history
\* A step of r that ends it.
<1>b. ASSUME NEW r \in Requests, End(r), UNCHANGED <<born, partyReplica>>,
             party'[p] = None, Roster(member', p) \subseteq Roster(member, p)
      PROVE  Goal
  BY <1>0, <1>b, StaysSettled, EndType DEF Idle, Harmless
<1>1. ASSUME NEW r \in Requests, NEW u \in Users, NEW q \in Parties,
             NEW size \in MaxSizes, NEW d \in Durations \cup {None},
             InsertParty(r, u, q, size, d)
      PROVE  Goal
  <2>1. [createdBy |-> u, maxSize |-> size, duration |-> d] \in Row
    BY DEF Row, Sizes
  <2>2. PICK row \in Row : /\ Begin(r, "insertCreator", u, q, u, row)
                           /\ PutParty(q, row)
                           /\ born[q] = None
                           /\ born' = [born EXCEPT ![q] = row]
    BY <1>1, <2>1 DEF InsertParty
  <2>3. q # p
    BY <1>0, <2>2
  <2>4. born'[p] = born[p] /\ party'[p] = None /\ partyReplica'[p] = None /\ member' = member
    BY <1>0, <1>1, <2>2, <2>3 DEF InsertParty, PutParty, TypeOK, replicas
  <2>5. req'[r].party = q /\ \A x \in Requests \ {r} : req'[x] = req[x]
    BY <2>2, BeginEffect
  <2> QED
    BY <2>3, <2>4, <2>5, StaysSettled
<1>2. ASSUME NEW r \in Requests, InsertCreator(r)
      PROVE  Goal
  <2>1. req[r].party # p
    BY <1>0, <1>2 DEF InsertCreator, Harmless
  <2>2. Roster(member', p) \subseteq Roster(member, p)
    BY <1>2, <2>1 DEF InsertCreator, PutMember, Roster
  <2> QED
    BY <1>0, <1>2, <1>b, <2>2 DEF InsertCreator, replicas
<1>3. ASSUME NEW r \in Requests, NEW u \in Users, NEW q \in Parties, FindForUser(r, u, q)
      PROVE  Goal
  <2>1. req'[r].pc \in Harmless /\ \A x \in Requests \ {r} : req'[x] = req[x]
    BY <1>3, BeginEffect DEF FindForUser, Harmless
  <2> QED
    BY <1>3, <1>a, <2>1 DEF FindForUser
<1>4. ASSUME NEW r \in Requests, FindPartyToDelete(r) \/ FindPartyToUpdate(r) \/ FindInvitedParty(r)
      PROVE  Goal
  <2>1. req[r].party # p
    BY <1>4, NothingToRead
    DEF FindPartyToDelete, FindPartyToUpdate, FindInvitedParty, ReadOwnParty
  <2>2. PICK pc, row : Continue(r, pc, row)
    BY <1>4 DEF FindPartyToDelete, FindPartyToUpdate, FindInvitedParty
  <2>3. req'[r].party = req[r].party /\ \A x \in Requests \ {r} : req'[x] = req[x]
    BY <1>4, <2>2, RequestType
    DEF Continue, TypeOK, Request, FindPartyToDelete, FindPartyToUpdate, FindInvitedParty
  <2> QED
    BY <1>4, <1>a, <2>1, <2>3 DEF FindPartyToDelete, FindPartyToUpdate, FindInvitedParty
<1>5. ASSUME NEW r \in Requests, DestroyParty(r)
      PROVE  Goal
  BY <1>0, <1>5, <1>b DEF DestroyParty, TypeOK, Roster, replicas, history
<1>6. ASSUME NEW r \in Requests, UpsertParty(r)
      PROVE  Goal
  <2>1. req[r].party # p
    BY <1>0, <1>6 DEF UpsertParty, Harmless
  <2>2. party'[p] = None
    BY <1>0, <1>6, <2>1 DEF UpsertParty, PutParty, TypeOK
  <2> QED
    BY <1>6, <1>b, <2>2 DEF UpsertParty, Roster, replicas
<1>7. ASSUME NEW r \in Requests, NEW u \in Users, NEW q \in Parties, FindOwnParty(r, u, q)
      PROVE  Goal
  <2>1. PICK row \in ReadOwnParty(u, q) : Begin(r, "countForInvite", u, q, u, row)
    BY <1>7 DEF FindOwnParty
  <2>2. q # p /\ row \in Row
    BY <2>1, NothingToRead, ReadPartyType DEF ReadOwnParty
  <2>3. req'[r].party = q /\ \A x \in Requests \ {r} : req'[x] = req[x]
    BY <2>1, BeginEffect
  <2> QED
    BY <1>7, <1>a, <2>2, <2>3 DEF FindOwnParty
<1>8. ASSUME NEW r \in Requests, CountForInvite(r) \/ CountForJoin(r)
      PROVE  Goal
  <2>1. req[r].party # p
    BY <1>0, <1>8 DEF CountForInvite, CountForJoin, Harmless
  <2>2. PICK pc, row : Continue(r, pc, row)
    BY <1>8 DEF CountForInvite, CountForJoin
  <2>3. req'[r].party = req[r].party /\ \A x \in Requests \ {r} : req'[x] = req[x]
    BY <1>8, <2>2, RequestType DEF Continue, TypeOK, Request, CountForInvite, CountForJoin
  <2> QED
    BY <1>8, <1>a, <2>1, <2>3 DEF CountForInvite, CountForJoin
<1>9. ASSUME NEW r \in Requests, NEW i \in Invites, InsertInvite(r, i)
      PROVE  Goal
  BY <1>0, <1>9, <1>b DEF InsertInvite, Roster, replicas
<1>10. ASSUME NEW r \in Requests, NEW u \in Users, NEW i \in Invites, FindInvite(r, u, i)
       PROVE  Goal
  <2>1. invite[i].party \in Parties
    BY <1>10 DEF FindInvite, TypeOK, InviteRow
  <2>2. req'[r].pc \in Harmless /\ \A x \in Requests \ {r} : req'[x] = req[x]
    BY <1>10, <2>1, BeginEffect DEF FindInvite, Harmless
  <2> QED
    BY <1>10, <1>a, <2>2 DEF FindInvite
<1>11. ASSUME NEW r \in Requests, InsertMember(r)
       PROVE  Goal
  <2>1. req[r].party # p
    BY <1>0, <1>11 DEF InsertMember, Harmless
  <2>2. Roster(member', p) \subseteq Roster(member, p)
    BY <1>11, <2>1 DEF InsertMember, PutMember, Roster
  <2>3. /\ \A x \in Requests \ {r} : req'[x] = req[x]
        /\ req'[r].party = p => req'[r].pc \in Harmless
    <3>1. CASE End(r)
      BY <3>1, EndType DEF Idle, Harmless
    <3>2. CASE Continue(r, "grant", req[r].row)
      BY <1>11, <2>1, <3>2, RequestType DEF InsertMember, Continue, TypeOK, Request
    <3> QED
      BY <1>11, <3>1, <3>2 DEF InsertMember
  <2> QED
    BY <1>0, <1>11, <2>2, <2>3, StaysSettled DEF InsertMember, replicas
<1>12. ASSUME NEW r \in Requests, GrantEntitlement(r) \/ Abort(r)
       PROVE  Goal
  BY <1>0, <1>12, <1>b DEF GrantEntitlement, Abort, Roster, store, replicas, history
<1>13. ASSUME NEW r \in Requests, NEW u \in Users, NEW q \in Parties, NEW t \in Users,
              AuthorizeRemoval(r, u, q, t)
       PROVE  Goal
  <2>1. req'[r].pc \in Harmless /\ \A x \in Requests \ {r} : req'[x] = req[x]
    BY <1>13, BeginEffect DEF AuthorizeRemoval, Harmless
  <2> QED
    BY <1>13, <1>a, <2>1 DEF AuthorizeRemoval
<1>14. ASSUME NEW r \in Requests, FindMember(r)
       PROVE  Goal
  <2>1. req'[r].pc \in Harmless /\ \A x \in Requests \ {r} : req'[x] = req[x]
    BY <1>14, RequestType DEF FindMember, Continue, TypeOK, Request, Harmless
  <2> QED
    BY <1>14, <1>a, <2>1 DEF FindMember
<1>15. ASSUME NEW r \in Requests, DestroyMember(r)
       PROVE  Goal
  BY <1>0, <1>15, <1>b DEF DestroyMember, Roster, replicas, history
<1>20. ASSUME NEW r \in Requests, NEW u \in Users, NEW q \in Parties, FindOwnedParty(r, u, q)
       PROVE  Goal
  <2>1. req'[r].pc \in Harmless /\ \A x \in Requests \ {r} : req'[x] = req[x]
    BY <1>20, BeginEffect DEF FindOwnedParty, Harmless
  <2> QED
    BY <1>20, <1>a, <2>1 DEF FindOwnedParty
<1>21. ASSUME NEW r \in Requests,
              DestroyOwnedParty(r) \/ \E i \in Invites : DestroyOwnedInvite(r, i)
       PROVE  Goal
  <2>1. PICK pc \in AccountSteps : Continue(r, pc, None) /\ req[r].pc \in AccountSteps
    BY <1>21 DEF DestroyOwnedParty, DestroyOwnedInvite, AccountSteps
  <2>2. req'[r].pc \in Harmless /\ \A x \in Requests \ {r} : req'[x] = req[x]
    BY <2>1, ContinuesDeletion DEF AccountSteps, Harmless
  <2>3. /\ born'[p] = born[p] /\ party'[p] = None /\ partyReplica'[p] = None
        /\ member' = member
    BY <1>0, <1>21 DEF DestroyOwnedParty, DestroyOwnedInvite, TypeOK, replicas, history
  <2> QED
    BY <2>2, <2>3, StaysSettled
<1>22. ASSUME NEW r \in Requests, NEW t \in Users, DestroyOwnedMember(r, t)
       PROVE  Goal
  BY <1>0, <1>22 DEF DestroyOwnedMember, Settled, Roster, replicas, history
<1>16. ASSUME NEW i \in Invites, InviteExpires(i)
       PROVE  Goal
  BY <1>0, <1>16 DEF InviteExpires, Settled, Roster, replicas, history
<1>17. ASSUME NEW q \in Parties, PartyReplicaCatchesUp(q)
       PROVE  Goal
  BY <1>0, <1>17 DEF PartyReplicaCatchesUp, Settled, Roster, store, history, TypeOK
<1>18. ASSUME NEW u \in Users, NEW q \in Parties, MemberReplicaCatchesUp(u, q)
       PROVE  Goal
  BY <1>0, <1>18 DEF MemberReplicaCatchesUp, Settled, Roster, store, history
<1>19. CASE UNCHANGED vars
  BY <1>0, <1>19 DEF Settled, Roster, vars, store, replicas, history
<1> QED
  BY <1>1, <1>2, <1>3, <1>4, <1>5, <1>6, <1>7, <1>8, <1>9, <1>10, <1>11, <1>12,
     <1>13, <1>14, <1>15, <1>16, <1>17, <1>18, <1>19, <1>20, <1>21, <1>22
  DEF Next, Handle, Arrive, PartiesController, InvitesController, MembersController,
      AccountController, Table

\* A party whose deletion no reader and no request can miss any more never
\* comes back and gains no member.
THEOREM SettledForGood == Spec => SettledDeletionsStay
<1>1. TypeOK /\ [Next]_vars =>
        [\A p \in Parties :
           Settled(p) => Settled(p)' /\ Roster(member', p) \subseteq Roster(member, p)]_vars
  BY StepSettled
<1> QED
  BY <1>1, TypeCorrect, PTL DEF Spec, SettledDeletionsStay

-----------------------------------------------------------------------------
(***************************************************************************)
(* Capacity.                                                               *)
(***************************************************************************)

\* The places of a party that are taken, or promised to a request in progress.
Seats(p) == Roster(member, p) \cup Admitted(p)

SizesKnown ==
    \A p \in Parties :
        /\ peak[p] >= 1
        /\ party[p] # None => EffectiveSize(party[p].maxSize) <= peak[p]

CopiesKnown ==
    \A r \in Requests : At(r, "countForJoin") => req[r].row.maxSize <= peak[req[r].party]

SeatInv ==
    /\ SizesKnown
    /\ ~WeakReads => CopiesKnown
    /\ OvershootBounded

\* The seats of p among the member rows rows and the requests reqs.
SeatsOf(rows, reqs, p) ==
    Roster(rows, p) \cup
      {reqs[r].user : r \in
         {q \in Requests : reqs[q].party = p /\ reqs[q].pc \in {"insertCreator", "insertMember"}}}

LEMMA SeatsFinite ==
    ASSUME NEW rows, NEW reqs, NEW p
    PROVE  /\ Cardinality(Roster(rows, p)) \in Nat
           /\ Cardinality(Requests) \in Nat /\ Cardinality(Requests) >= 1
           /\ IsFiniteSet(SeatsOf(rows, reqs, p)) /\ Cardinality(SeatsOf(rows, reqs, p)) \in Nat
           /\ Cardinality(SeatsOf(rows, reqs, p)) <=
                Cardinality(Roster(rows, p)) + Cardinality(Requests)
<1> DEFINE R == {q \in Requests : reqs[q].party = p /\ reqs[q].pc \in {"insertCreator", "insertMember"}}
           A == {reqs[r].user : r \in R}
           f == [r \in R |-> reqs[r].user]
<1>1. IsFiniteSet(R) /\ Cardinality(R) <= Cardinality(Requests)
  BY RequestsAreFinite, FS_Subset
<1>2. f \in Surjection(R, A)
  BY DEF Surjection
<1>3. IsFiniteSet(A) /\ Cardinality(A) <= Cardinality(R)
  BY <1>1, <1>2, FS_Surjection
<1>4. IsFiniteSet(Roster(rows, p))
  BY UsersAreFinite, FS_Subset DEF Roster
<1>5. /\ Cardinality(Roster(rows, p)) \in Nat
      /\ Cardinality(A) \in Nat
      /\ Cardinality(Roster(rows, p) \cap A) \in Nat
      /\ Cardinality(Requests) \in Nat
      /\ Cardinality(R) \in Nat
  BY <1>1, <1>3, <1>4, RequestsAreFinite, FS_CardinalityType, FS_Intersection
<1>6. /\ IsFiniteSet(Roster(rows, p) \cup A)
      /\ Cardinality(Roster(rows, p) \cup A) =
           Cardinality(Roster(rows, p)) + Cardinality(A) - Cardinality(Roster(rows, p) \cap A)
  BY <1>3, <1>4, FS_Union
<1>7. Cardinality(Roster(rows, p) \cup A) \in Nat
  BY <1>6, FS_CardinalityType
<1>8. Cardinality(Requests) # 0
  BY RequestsAreFinite, FS_EmptySet
<1>9. SeatsOf(rows, reqs, p) = Roster(rows, p) \cup A
  BY DEF SeatsOf
<1> QED
  BY <1>1, <1>3, <1>4, <1>5, <1>6, <1>7, <1>8, <1>9

\* The steps that write party rows, and what they do to sizes.
LEMMA StepSizes ==
    ASSUME TypeOK, [Next]_vars, SizesKnown
    PROVE  SizesKnown' /\ \A p \in Parties : peak[p] <= peak'[p]
<1> DEFINE Goal == SizesKnown' /\ \A p \in Parties : peak[p] <= peak'[p]
<1>1. ASSUME NEW p \in Parties, NEW row \in Row, PutParty(p, row)
      PROVE  Goal
  <2>1. EffectiveSize(row.maxSize) \in Int
    BY SizesAreIntegers DEF EffectiveSize, Row, Sizes
  <2> QED
    BY <1>1, <2>1, NoneIsNoRow DEF PutParty, SizesKnown, TypeOK
<1>2. ASSUME NEW r \in Requests, NEW u \in Users, NEW p \in Parties,
             NEW size \in MaxSizes, NEW d \in Durations \cup {None},
             InsertParty(r, u, p, size, d)
      PROVE  Goal
  <2>1. [createdBy |-> u, maxSize |-> size, duration |-> d] \in Row
    BY DEF Row, Sizes
  <2> QED
    BY <1>1, <1>2, <2>1 DEF InsertParty
<1>3. ASSUME NEW r \in Requests, UpsertParty(r)
      PROVE  Goal
  BY <1>1, <1>3, RequestType DEF UpsertParty, Request, HoldsRow, At
<1>4. ASSUME NEW r \in Requests, DestroyParty(r) \/ DestroyOwnedParty(r)
      PROVE  Goal
  BY <1>4 DEF DestroyParty, DestroyOwnedParty, SizesKnown, TypeOK, history
<1>5. CASE UNCHANGED <<party, peak>>
  BY <1>5 DEF SizesKnown, TypeOK
<1> QED
  BY <1>2, <1>3, <1>4, <1>5, PartyWriters

\* Without weak reads, the size a join is checked against is one the party has had.
LEMMA StepCopies ==
    ASSUME TypeOK, [Next]_vars, SizesKnown, ~WeakReads, CopiesKnown
    PROVE  CopiesKnown'
<1> SUFFICES ASSUME NEW r \in Requests, At(r, "countForJoin")'
             PROVE  (req[r].row.maxSize <= peak[req[r].party])'
  BY DEF CopiesKnown
<1>0. \A p \in Parties : peak[p] <= peak'[p]
  BY StepSizes
<1>1. peak \in [Parties -> Int] /\ peak' \in [Parties -> Int]
  BY StepType DEF TypeOK
<1>2. CASE req'[r] = req[r]
  <2>1. /\ req[r].party \in Parties
        /\ req[r].row.maxSize \in Int
        /\ req[r].row.maxSize <= peak[req[r].party]
    BY <1>2, RequestType, SizesAreIntegers
    DEF CopiesKnown, At, Request, HoldsRow, Row, Sizes
  <2> QED
    BY <1>0, <1>1, <1>2, <2>1
<1>3. CASE FindInvitedParty(r)
  <2>1. PICK row \in ReadParty(req[r].party) : Continue(r, "countForJoin", row)
    BY <1>3 DEF FindInvitedParty
  <2>2. PICK p \in Parties : p = req[r].party
    BY <1>3, RequestType DEF FindInvitedParty, At, Request
  <2>3. party[p] \in Row /\ party[p] # None /\ row = Entity(party[p])
    BY <2>1, <2>2, ReadPartyType DEF TypeOK
  <2>4. row.maxSize <= peak[p]
    BY <2>3, EntityType DEF SizesKnown
  <2>5. req'[r].row = row /\ req'[r].party = p
    BY <1>3, <2>1, <2>2, ContinueEffect DEF FindInvitedParty, At, SameCaller
  <2>6. peak' = peak
    BY <1>3 DEF FindInvitedParty, history
  <2> QED
    BY <2>4, <2>5, <2>6
<1> QED
  BY <1>2, <1>3, Arrivals

LEMMA StepSeats ==
    ASSUME Inv, Inv', [Next]_vars, SizesKnown, SizesKnown', ~WeakReads, CopiesKnown,
           NEW p \in Parties, Cardinality(Seats(p)) < peak[p] + Cardinality(Requests)
    PROVE  (Cardinality(Seats(p)) < peak[p] + Cardinality(Requests))'
<1>0. TypeOK /\ TypeOK' /\ peak[p] \in Int /\ peak'[p] \in Int /\ peak[p] <= peak'[p]
  BY StepSizes DEF Inv, TypeOK
<1>1. /\ IsFiniteSet(Seats(p)) /\ Cardinality(Seats(p)) \in Nat
      /\ Cardinality(Seats(p)') \in Nat
      /\ Cardinality(Seats(p)') <= Cardinality(Roster(member', p)) + Cardinality(Requests)
      /\ Cardinality(Roster(member, p)) \in Nat
      /\ Cardinality(Requests) \in Nat /\ Cardinality(Requests) >= 1
  <2>1. Seats(p) = SeatsOf(member, req, p) /\ Seats(p)' = SeatsOf(member', req', p)
    BY DEF Seats, Admitted, SeatsOf, Roster
  <2> QED
    BY <2>1, SeatsFinite
\* No new seat is taken or promised.
<1>2. ASSUME Seats(p)' \subseteq Seats(p)
      PROVE  (Cardinality(Seats(p)) < peak[p] + Cardinality(Requests))'
  <2>1. Cardinality(Seats(p)') <= Cardinality(Seats(p))
    BY <1>1, <1>2, FS_Subset
  <2> QED
    BY <1>0, <1>1, <2>1
\* A request is admitted after it has counted the members.
<1>3. ASSUME NEW r \in Requests, CountForJoin(r), req[r].party = p,
             Cardinality(Roster(member, p)) < req[r].row.maxSize
      PROVE  (Cardinality(Seats(p)) < peak[p] + Cardinality(Requests))'
  <2>1. req[r].row.maxSize <= peak[p]
    BY <1>3 DEF CopiesKnown, CountForJoin
  <2>2. req[r].row.maxSize \in Int
    BY <1>0, <1>3, RequestType, SizesAreIntegers DEF CountForJoin, At, HoldsRow, Row, Sizes
  <2>3. member' = member
    BY <1>3 DEF CountForJoin, store
  <2> QED
    BY <1>0, <1>1, <1>3, <2>1, <2>2, <2>3
\* A party is founded: its creator takes the first seat.
<1>4. ASSUME NEW r \in Requests, NEW u \in Users, NEW size \in MaxSizes,
             NEW d \in Durations \cup {None}, InsertParty(r, u, p, size, d)
      PROVE  (Cardinality(Seats(p)) < peak[p] + Cardinality(Requests))'
  <2>1. born[p] = None /\ member' = member
    BY <1>4 DEF InsertParty
  <2>2. Roster(member', p) = {}
    BY <1>0, <2>1 DEF Inv, MembersBacked, MayEnter, Roster, TypeOK
  <2>3. Admitted(p) = {}
    BY <1>0, <2>1 DEF Admitted, Inv, Backed, OfParty, TypeOK, HoldsRow
  <2>4. PICK row : Begin(r, "insertCreator", u, p, u, row)
    BY <1>4 DEF InsertParty
  <2>5. req'[r].user = u /\ \A q \in Requests \ {r} : req'[q] = req[q]
    BY <1>0, <2>4 DEF Begin, TypeOK
  <2>6. Admitted(p)' \subseteq {u}
    BY <2>3, <2>5 DEF Admitted
  <2>7. Seats(p)' \subseteq {u}
    BY <2>2, <2>6 DEF Seats, Roster
  <2>8. Cardinality(Seats(p)') <= 1
    <3>1. IsFiniteSet({u}) /\ Cardinality({u}) = 1
      BY FS_Singleton
    <3> QED
      BY <2>7, <3>1, FS_Subset
  <2>9. peak'[p] >= 1
    BY DEF SizesKnown
  <2> QED
    BY <1>0, <1>1, <2>8, <2>9
<1>5. ASSUME NEW u, u \in Seats(p)', u \notin Seats(p)
      PROVE  (Cardinality(Seats(p)) < peak[p] + Cardinality(Requests))'
  <2>1. u \notin Roster(member', p)
    <3>1. SUFFICES ASSUME u \in Users, <<u, p>> \in member'
                   PROVE  FALSE
      BY DEF Roster
    <3>2. <<u, p>> \notin member
      BY <1>5, <3>1 DEF Seats, Roster
    <3>3. PICK r \in Requests : InsertCreator(r) \/ InsertMember(r)
      BY <3>1, <3>2, MemberWriters, DestroysEffect
    <3>4. req[r].user = u /\ req[r].party = p
      BY <3>1, <3>2, <3>3 DEF InsertCreator, InsertMember, PutMember
    <3>5. u \in Admitted(p)
      BY <3>3, <3>4 DEF Admitted, InsertCreator, InsertMember, At
    <3> QED
      BY <1>5, <3>5 DEF Seats
  <2>2. u \in Admitted(p)'
    BY <1>5, <2>1 DEF Seats, Roster
  <2>3. PICK r \in Requests : /\ req'[r].party = p
                              /\ req'[r].user = u
                              /\ req'[r].pc \in {"insertCreator", "insertMember"}
    BY <2>2 DEF Admitted
  <2>4. req'[r] # req[r]
    BY <1>5, <2>3 DEF Seats, Admitted
  <2>5. CASE CountForJoin(r)
    <3>1. req[r].party = p /\ req[r].user = u
      BY <1>0, <2>3, <2>5, ContinueEffect DEF CountForJoin, At, SameCaller
    <3>2. u \notin Roster(member, p)
      BY <1>5 DEF Seats
    <3>3. Cardinality(Roster(member, p)) < req[r].row.maxSize
      BY <2>5, <3>1, <3>2 DEF CountForJoin, ReadRoster, HasSeat
    <3> QED
      BY <1>3, <2>5, <3>1, <3>3
  <2>6. ASSUME NEW v \in Users, NEW q \in Parties, NEW size \in MaxSizes,
               NEW d \in Durations \cup {None}, InsertParty(r, v, q, size, d)
        PROVE  (Cardinality(Seats(p)) < peak[p] + Cardinality(Requests))'
    <3>1. PICK row : Begin(r, "insertCreator", v, q, v, row)
      BY <2>6 DEF InsertParty
    <3>2. q = p
      BY <1>0, <2>3, <3>1, BeginEffect
    <3> QED
      BY <1>4, <2>6, <3>2
  <2> QED
    BY <1>0, <2>3, <2>4, <2>5, <2>6, Arrivals DEF At
<1> QED
  BY <1>2, <1>5

\* However the requests interleave, a party has fewer members beyond its
\* largest size than there are requests, as long as reads are not weak.
THEOREM OvershootIsBounded == Spec => []OvershootBounded
<1>1. Init => SeatInv
  <2> SUFFICES ASSUME Init
               PROVE  SeatInv
    OBVIOUS
  <2>1. SizesKnown /\ CopiesKnown
    BY DEF Init, SizesKnown, CopiesKnown, At, Idle
  <2>2. \A p \in Parties : Roster(member, p) \cup Admitted(p) = {}
    BY DEF Init, Roster, Admitted, Idle
  <2>3. Cardinality(Requests) \in Nat /\ Cardinality(Requests) >= 1
    BY SeatsFinite
  <2>4. OvershootBounded
    <3>1. ASSUME NEW p \in Parties
          PROVE  Cardinality(Roster(member, p) \cup Admitted(p)) < peak[p] + Cardinality(Requests)
      <4>1. Cardinality(Roster(member, p) \cup Admitted(p)) = 0
        BY <2>2, FS_EmptySet
      <4>2. peak[p] = 1
        BY DEF Init
      <4> QED
        BY <2>3, <4>1, <4>2
    <3> QED
      BY <3>1 DEF OvershootBounded
  <2> QED
    BY <2>1, <2>4 DEF SeatInv
<1>2. ASSUME Inv, Inv', [Next]_vars, SeatInv
      PROVE  SeatInv'
  <2>1. TypeOK /\ SizesKnown /\ SizesKnown'
    BY <1>2, StepSizes DEF Inv, SeatInv
  <2>2. ~WeakReads => CopiesKnown'
    BY <1>2, <2>1, StepCopies DEF SeatInv
  <2>3. ASSUME ~WeakReads, NEW p \in Parties
        PROVE  (Cardinality(Seats(p)) < peak[p] + Cardinality(Requests))'
    <3>1. Cardinality(Seats(p)) < peak[p] + Cardinality(Requests)
      BY <1>2, <2>3 DEF SeatInv, OvershootBounded, Seats
    <3> QED
      BY <1>2, <2>1, <2>3, <3>1, StepSeats DEF SeatInv
  <2>4. OvershootBounded'
    BY <2>3 DEF OvershootBounded, Seats
  <2> QED
    BY <2>1, <2>2, <2>4 DEF SeatInv
<1>3. SeatInv => OvershootBounded
  BY DEF SeatInv
<1> QED
  BY <1>1, <1>2, <1>3, Invariance, PTL DEF Spec

=============================================================================
