----------------------------- MODULE PartyApi -----------------------------
(***************************************************************************)
(* Parties, members and invites as the API serves them.  Every request is  *)
(* a handler of the NestJS application, run by a Lambda of its own over    *)
(* one DynamoDB table, with no transaction and no conditional write: each  *)
(* access of the table is one action, and the requests interleave between  *)
(* them.  A request may be cut at any of its steps (a Lambda timeout, a    *)
(* crash, a failed or refused read or write) and leaves what it has        *)
(* already written.                                                        *)
(*                                                                         *)
(* A row is a value of the function of its kind, None when it is absent.   *)
(* born, invited, joined, granted and peak record the past; guards read    *)
(* them only for what a nanoid gives a party: an id that is fresh, and     *)
(* that clients know once the party's creation has succeeded.              *)
(***************************************************************************)
EXTENDS Integers, FiniteSets

CONSTANTS
    Users,
    Parties,          \* the party ids nanoid can return
    Invites,          \* the invite ids nanoid can return
    Requests,         \* the requests that can be in progress at once
    MaxSizes,         \* the values of maxSize clients send, 0 when they send none
    DefaultMaxSize,   \* DEFAULT_MAX_SIZE
    Durations,        \* EntitlementDuration
    PlusDuration,     \* ONE_MONTH, what the creator's own Plus gives to members
    Admins,           \* adminUsers of the configuration
    WeakReads,        \* TRUE: reads may be stale, queries may come back empty
    None

ASSUME PlusIsADuration == PlusDuration \in Durations
ASSUME SizesAreIntegers == MaxSizes \subseteq Int /\ DefaultMaxSize \in Int
ASSUME AdminsAreUsers == Admins \subseteq Users
ASSUME WeakReadsIsBoolean == WeakReads \in BOOLEAN
ASSUME UsersAreFinite == IsFiniteSet(Users)
ASSUME RequestsAreFinite == IsFiniteSet(Requests) /\ Requests # {}
ASSUME NoneIsNoUser == None \notin Users
ASSUME NoneIsNoDuration == None \notin Durations

VARIABLES
    party,            \* party[p]: the row of party p
    member,           \* the member rows, as pairs <<user, party>>
    invite,           \* invite[i]: the row of invite i
    partyReplica,     \* party as a lagging replica of the table serves it
    memberReplica,    \* member as ownerIndex or a lagging replica serves it
    req,              \* req[r]: where request r stands and what it holds
    born,             \* born[p]: the row party p was first written with
    invited,          \* the pairs <<creator, party>> an invite row was written with
    joined,           \* the pairs a member row was ever written for
    granted,          \* <<user, party, duration>>: the entitlements granted
    peak              \* peak[p]: the largest size p ever admitted members by

store == <<party, member, invite>>
replicas == <<partyReplica, memberReplica>>
history == <<born, invited, joined, granted, peak>>
vars == <<store, replicas, req, history>>

Sizes == MaxSizes \cup {DefaultMaxSize}

Row == [createdBy : Users, maxSize : Sizes, duration : Durations \cup {None}]

InviteRow == [party : Parties, createdBy : Users]

(***************************************************************************)
(* Where a request stands: the next access it makes of the table.          *)
(***************************************************************************)
Steps == {"insertCreator",
          "findParty", "destroyParty", "upsertParty",
          "countForInvite", "insertInvite",
          "findInvitedParty", "countForJoin", "insertMember", "grant",
          "findMember", "destroyMember",
          "destroyOwned", "destroyMembers", "destroyInvites"}

\* The steps at which a request holds the entity of a party it has read.
HoldsRow == {"insertCreator", "destroyParty", "upsertParty", "countForInvite",
             "insertInvite", "countForJoin", "insertMember", "grant"}

Idle == [pc |-> "idle", user |-> None, party |-> None, target |-> None, row |-> None]

Request == [pc : Steps, user : Users, party : Parties,
            target : Users, row : Row \cup {None}]

ASSUME NoneIsNoRow == None \notin Row

Init ==
    /\ party = [p \in Parties |-> None]
    /\ member = {}
    /\ invite = [i \in Invites |-> None]
    /\ partyReplica = [p \in Parties |-> None]
    /\ memberReplica = {}
    /\ req = [r \in Requests |-> Idle]
    /\ born = [p \in Parties |-> None]
    /\ invited = {}
    /\ joined = {}
    /\ granted = {}
    /\ peak = [p \in Parties |-> 1]

-----------------------------------------------------------------------------
(***************************************************************************)
(* What a read returns.                                                    *)
(***************************************************************************)

\* maxSize || DEFAULT_MAX_SIZE: a size of 0 counts as no size at all.
EffectiveSize(size) == IF size = 0 THEN DefaultMaxSize ELSE size

Entity(row) == [row EXCEPT !.maxSize = EffectiveSize(@)]

\* The entities a read of party p may give.  A read that finds no row ends its
\* request, which Abort covers, so it is not among them.
ReadParty(p) ==
    {Entity(row) : row \in {party[p]} \ {None}}
      \cup {Entity(row) : row \in {q \in {partyReplica[p]} : WeakReads} \ {None}}

\* Mutant: the owner is left out of the key.
ReadAnyParty(u, p) == ReadParty(p)

\* The same read with the owner in the key: only the creator's party is found.
ReadOwnParty(u, p) == {row \in ReadParty(p) : row.createdBy = u}

IsMember(u, p) ==
    \/ <<u, p>> \in member
    \/ WeakReads /\ <<u, p>> \in memberReplica

Roster(rows, p) == {u \in Users : <<u, p>> \in rows}

\* The query of ownerIndex: eventually consistent, and empty once its retries
\* are spent.
ReadRoster(p) ==
    IF WeakReads THEN {Roster(memberReplica, p), {}} ELSE {Roster(member, p)}

\* Mutant: the party is taken to be full one member too late.
HasSeatOrIsFull(u, row, roster) == u \in roster \/ Cardinality(roster) <= row.maxSize

\* Whether the party still takes the user in: it is not full, or they are in it.
HasSeat(u, row, roster) == u \in roster \/ Cardinality(roster) < row.maxSize

-----------------------------------------------------------------------------
(***************************************************************************)
(* Writes, unconditional upserts and deletes by key, and the request's own *)
(* state around them.                                                      *)
(***************************************************************************)

PutParty(p, row) ==
    /\ party' = [party EXCEPT ![p] = row]
    /\ peak' = IF EffectiveSize(row.maxSize) > peak[p]
               THEN [peak EXCEPT ![p] = EffectiveSize(row.maxSize)] ELSE peak

PutMember(u, p) ==
    /\ member' = member \cup {<<u, p>>}
    /\ joined' = joined \cup {<<u, p>>}

Begin(r, pc, u, p, t, row) ==
    /\ req[r] = Idle
    /\ req' = [req EXCEPT ![r] =
                 [pc |-> pc, user |-> u, party |-> p, target |-> t, row |-> row]]

At(r, pc) == req[r].pc = pc

Continue(r, pc, row) == req' = [req EXCEPT ![r] = [@ EXCEPT !.pc = pc, !.row = row]]

End(r) == req' = [req EXCEPT ![r] = Idle]

-----------------------------------------------------------------------------
(***************************************************************************)
(* POST /parties: the party's row, then its creator's member row.          *)
(***************************************************************************)

\* Admins promise a duration by the party's name, a creator with Plus one
\* month, anybody else (or a creator whose Plus cannot be looked up) nothing.
DurationsFor(u) == IF u \in Admins THEN Durations ELSE {PlusDuration, None}

InsertParty(r, u, p, size, duration) ==
    LET row == [createdBy |-> u, maxSize |-> size, duration |-> duration]
    IN  /\ born[p] = None
        /\ duration \in DurationsFor(u)
        /\ Begin(r, "insertCreator", u, p, u, row)
        /\ PutParty(p, row)
        /\ born' = [born EXCEPT ![p] = row]
        /\ UNCHANGED <<member, invite, replicas, invited, joined, granted>>

InsertCreator(r) ==
    /\ At(r, "insertCreator")
    /\ PutMember(req[r].user, req[r].party)
    /\ End(r)
    /\ UNCHANGED <<party, invite, replicas, born, invited, granted, peak>>

-----------------------------------------------------------------------------
(***************************************************************************)
(* PATCH and DELETE /parties/:id: the caller's member row, the party, and  *)
(* then the write the caller may make as its creator.                      *)
(***************************************************************************)

FindForUser(r, u, p) ==
    /\ IsMember(u, p)
    /\ Begin(r, "findParty", u, p, u, None)
    /\ UNCHANGED <<store, replicas, history>>

\* deleteForUser: the party read was created by the caller.
FindPartyToDelete(r) ==
    /\ At(r, "findParty")
    /\ \E row \in ReadOwnParty(req[r].user, req[r].party) :
         Continue(r, "destroyParty", row)
    /\ UNCHANGED <<store, replicas, history>>

\* Mutant: the body of the update is spread over the row without a whitelist.
FindPartyToAssign(r) ==
    /\ At(r, "findParty")
    /\ \E row \in ReadOwnParty(req[r].user, req[r].party), u \in Users :
         Continue(r, "upsertParty", [row EXCEPT !.createdBy = u])
    /\ UNCHANGED <<store, replicas, history>>

\* updateForUser: what will be written is the party as it was read, with the
\* fields of the update over it; size is what the update asks for.
FindPartyToUpdate(r) ==
    /\ At(r, "findParty")
    /\ \E row \in ReadOwnParty(req[r].user, req[r].party) :
         \E size \in MaxSizes \cup {row.maxSize} :
            Continue(r, "upsertParty", [row EXCEPT !.maxSize = size])
    /\ UNCHANGED <<store, replicas, history>>

DestroyParty(r) ==
    /\ At(r, "destroyParty")
    /\ party' = [party EXCEPT ![req[r].party] = None]
    /\ End(r)
    /\ UNCHANGED <<member, invite, replicas, history>>

UpsertParty(r) ==
    /\ At(r, "upsertParty")
    /\ PutParty(req[r].party, req[r].row)
    /\ End(r)
    /\ UNCHANGED <<member, invite, replicas, born, invited, joined, granted>>

-----------------------------------------------------------------------------
(***************************************************************************)
(* POST /invites: the party by its creator's key, its members, the row.    *)
(***************************************************************************)

\* Mutant: the party that was found is not handed on.
FindOwnPartyOnly(r, u, p) ==
    /\ \E row \in ReadOwnParty(u, p) : Begin(r, "countForInvite", u, p, u, None)
    /\ UNCHANGED <<store, replicas, history>>

FindOwnParty(r, u, p) ==
    /\ \E row \in ReadOwnParty(u, p) : Begin(r, "countForInvite", u, p, u, row)
    /\ UNCHANGED <<store, replicas, history>>

CountForInvite(r) ==
    /\ At(r, "countForInvite")
    /\ \E roster \in ReadRoster(req[r].party) :
         HasSeat(req[r].user, req[r].row, roster)
    /\ Continue(r, "insertInvite", req[r].row)
    /\ UNCHANGED <<store, replicas, history>>

InsertInvite(r, i) ==
    /\ At(r, "insertInvite")
    /\ invite[i] = None
    /\ invite' = [invite EXCEPT ![i] =
                    [party |-> req[r].party, createdBy |-> req[r].user]]
    /\ invited' = invited \cup {<<req[r].user, req[r].party>>}
    /\ End(r)
    /\ UNCHANGED <<party, member, replicas, born, joined, granted, peak>>

\* An invite past its expiresAt: no read returns it any more.
InviteExpires(i) ==
    /\ invite[i] # None
    /\ invite' = [invite EXCEPT ![i] = None]
    /\ UNCHANGED <<party, member, replicas, req, history>>

-----------------------------------------------------------------------------
(***************************************************************************)
(* POST /members: the invite, its party, the members, the member row, and  *)
(* after the response the entitlement.                                     *)
(***************************************************************************)

\* Mutant: a join names a party; no invite is looked for.
FindNoInvite(r, u, i) ==
    /\ \E p \in {q \in Parties : born[q] # None} :
         Begin(r, "findInvitedParty", u, p, u, None)
    /\ UNCHANGED <<store, replicas, history>>

FindInvite(r, u, i) ==
    /\ invite[i] # None
    /\ Begin(r, "findInvitedParty", u, invite[i].party, u, None)
    /\ UNCHANGED <<store, replicas, history>>

\* Mutant: the party comes from a cache that is never invalidated.
FindCachedParty(r) ==
    /\ At(r, "findInvitedParty")
    /\ \E row \in {born[req[r].party]} \ {None} : Continue(r, "countForJoin", Entity(row))
    /\ UNCHANGED <<store, replicas, history>>

FindInvitedParty(r) ==
    /\ At(r, "findInvitedParty")
    /\ \E row \in ReadParty(req[r].party) : Continue(r, "countForJoin", row)
    /\ UNCHANGED <<store, replicas, history>>

\* Mutant: the entitlement is granted and the member row never written.
CountAndGrant(r) ==
    /\ At(r, "countForJoin")
    /\ \E roster \in ReadRoster(req[r].party) :
         HasSeat(req[r].user, req[r].row, roster)
    /\ Continue(r, IF req[r].row.duration = None THEN "insertMember" ELSE "grant", req[r].row)
    /\ UNCHANGED <<store, replicas, history>>

CountForJoin(r) ==
    /\ At(r, "countForJoin")
    /\ \E roster \in ReadRoster(req[r].party) :
         HasSeat(req[r].user, req[r].row, roster)
    /\ Continue(r, "insertMember", req[r].row)
    /\ UNCHANGED <<store, replicas, history>>

InsertMember(r) ==
    /\ At(r, "insertMember")
    /\ PutMember(req[r].user, req[r].party)
    /\ IF req[r].row.duration = None THEN End(r) ELSE Continue(r, "grant", req[r].row)
    /\ UNCHANGED <<party, invite, replicas, born, invited, granted, peak>>

\* A user who has Plus already, or whose grant fails, gets none: Abort.
GrantEntitlement(r) ==
    /\ At(r, "grant")
    /\ granted' = granted \cup {<<req[r].user, req[r].party, req[r].row.duration>>}
    /\ End(r)
    /\ UNCHANGED <<store, replicas, born, invited, joined, peak>>

-----------------------------------------------------------------------------
(***************************************************************************)
(* DELETE /members/:userId: the right to remove another, the row, its end. *)
(***************************************************************************)

\* Mutant: it is enough that the party exists.
AuthorizeAnyRemoval(r, u, p, t) ==
    /\ u = t \/ ReadParty(p) # {}
    /\ Begin(r, "findMember", u, p, t, None)
    /\ UNCHANGED <<store, replicas, history>>

AuthorizeRemoval(r, u, p, t) ==
    /\ u = t \/ ReadOwnParty(u, p) # {}
    /\ Begin(r, "findMember", u, p, t, None)
    /\ UNCHANGED <<store, replicas, history>>

FindMember(r) ==
    /\ At(r, "findMember")
    /\ IsMember(req[r].target, req[r].party)
    /\ Continue(r, "destroyMember", None)
    /\ UNCHANGED <<store, replicas, history>>

DestroyMember(r) ==
    /\ At(r, "destroyMember")
    /\ member' = member \ {<<req[r].target, req[r].party>>}
    /\ End(r)
    /\ UNCHANGED <<party, invite, replicas, history>>

-----------------------------------------------------------------------------
(***************************************************************************)
(* DELETE /account, as one party its user created sees it: the party is    *)
(* found through ownerIndex, whether or not anybody can name it, deleted,  *)
(* and after it the rows of its other members and of its invites, as many  *)
(* as the deletion gets to.  Which of them it had found before is the      *)
(* matter of AccountDeletion; here it may be any.  The user's own          *)
(* memberships go the way of DELETE /members/:userId.                      *)
(***************************************************************************)

FindOwnedParty(r, u, p) ==
    /\ ReadOwnParty(u, p) # {}
    /\ Begin(r, "destroyOwned", u, p, u, None)
    /\ UNCHANGED <<store, replicas, history>>

DestroyOwnedParty(r) ==
    /\ At(r, "destroyOwned")
    /\ party' = [party EXCEPT ![req[r].party] = None]
    /\ Continue(r, "destroyMembers", None)
    /\ UNCHANGED <<member, invite, replicas, history>>

DestroyOwnedMember(r, t) ==
    /\ At(r, "destroyMembers")
    /\ t # req[r].user
    /\ <<t, req[r].party>> \in member
    /\ member' = member \ {<<t, req[r].party>>}
    /\ UNCHANGED <<party, invite, replicas, req, history>>

DestroyOwnedInvite(r, i) ==
    /\ At(r, "destroyMembers") \/ At(r, "destroyInvites")
    /\ invite[i] # None
    /\ invite[i].party = req[r].party
    /\ invite' = [invite EXCEPT ![i] = None]
    /\ Continue(r, "destroyInvites", None)
    /\ UNCHANGED <<party, member, replicas, history>>

-----------------------------------------------------------------------------
(***************************************************************************)
(* What happens to requests and to the table by itself.                    *)
(***************************************************************************)

\* A request ends before its next access: it is cut, the access fails, or, in a
\* deletion of an account, no row is left to delete.
Abort(r) ==
    /\ req[r] # Idle
    /\ End(r)
    /\ UNCHANGED <<store, replicas, history>>

PartyReplicaCatchesUp(p) ==
    /\ WeakReads
    /\ partyReplica[p] # party[p]
    /\ partyReplica' = [partyReplica EXCEPT ![p] = party[p]]
    /\ UNCHANGED <<store, memberReplica, req, history>>

MemberReplicaCatchesUp(u, p) ==
    /\ WeakReads
    /\ (<<u, p>> \in memberReplica) # (<<u, p>> \in member)
    /\ memberReplica' = IF <<u, p>> \in member
                        THEN memberReplica \cup {<<u, p>>}
                        ELSE memberReplica \ {<<u, p>>}
    /\ UNCHANGED <<store, partyReplica, req, history>>

-----------------------------------------------------------------------------
Handle(r) ==
    \/ InsertCreator(r)
    \/ FindPartyToDelete(r)
    \/ FindPartyToUpdate(r)
    \/ DestroyParty(r)
    \/ UpsertParty(r)
    \/ CountForInvite(r)
    \/ \E i \in Invites : InsertInvite(r, i)
    \/ FindInvitedParty(r)
    \/ CountForJoin(r)
    \/ InsertMember(r)
    \/ GrantEntitlement(r)
    \/ FindMember(r)
    \/ DestroyMember(r)
    \/ DestroyOwnedParty(r)
    \/ \E t \in Users : DestroyOwnedMember(r, t)
    \/ \E i \in Invites : DestroyOwnedInvite(r, i)
    \/ Abort(r)

\* Mutant: findAllForUser lists the parties ownerIndex has, not the memberships.
ListedByOwner(p) == born[p] # None

\* Whether a client can name the party: an id of nanoid is not guessed, a creation
\* answers once the creator's member row is written, and findAllForUser lists
\* the parties the user has a member row for.
Known(p) == born[p] # None /\ <<born[p].createdBy, p>> \in joined

PartiesController(r, u) ==
    \/ \E p \in Parties, size \in MaxSizes, d \in Durations \cup {None} :
        InsertParty(r, u, p, size, d)
    \/ \E p \in {q \in Parties : Known(q)} : FindForUser(r, u, p)

InvitesController(r, u) ==
    \E p \in {q \in Parties : Known(q)} : FindOwnParty(r, u, p)

MembersController(r, u) ==
    \/ \E i \in Invites : FindInvite(r, u, i)
    \/ \E p \in {q \in Parties : Known(q)}, t \in Users : AuthorizeRemoval(r, u, p, t)

AccountController(r, u) ==
    \E p \in Parties : FindOwnedParty(r, u, p)

Arrive(r, u) ==
    \/ PartiesController(r, u)
    \/ InvitesController(r, u)
    \/ MembersController(r, u)
    \/ AccountController(r, u)

Table ==
    \/ \E i \in Invites : InviteExpires(i)
    \/ \E p \in Parties : PartyReplicaCatchesUp(p)
    \/ \E u \in Users, p \in Parties : MemberReplicaCatchesUp(u, p)

Next ==
    \/ \E r \in Requests : Handle(r) \/ \E u \in Users : Arrive(r, u)
    \/ Table

Spec == Init /\ [][Next]_vars

-----------------------------------------------------------------------------
(***************************************************************************)
(* Properties.                                                             *)
(***************************************************************************)

\* Every variable stays within its type; a request holds the entity of a party
\* at the steps that need one, and at no other.
TypeOK ==
    /\ party \in [Parties -> Row \cup {None}]
    /\ partyReplica \in [Parties -> Row \cup {None}]
    /\ member \subseteq Users \X Parties
    /\ memberReplica \subseteq Users \X Parties
    /\ invite \in [Invites -> InviteRow \cup {None}]
    /\ req \in [Requests -> Request \cup {Idle}]
    /\ \A r \in Requests : req[r].row # None <=> req[r].pc \in HoldsRow
    /\ born \in [Parties -> Row \cup {None}]
    /\ invited \subseteq Users \X Parties
    /\ joined \subseteq Users \X Parties
    /\ granted \subseteq Users \X Parties \X (Durations \cup {None})
    /\ peak \in [Parties -> Int]

\* Row is of party p as it was founded, whatever its size has become.
OfParty(row, p) ==
    /\ born[p] # None
    /\ row.createdBy = born[p].createdBy
    /\ row.duration = born[p].duration

\* Who created a party and which entitlement it promises are what they were
\* when it was first written: in its row, in a stale replica of the row, and in
\* every copy a request holds between its read and its write.  updateForUser
\* writes whole rows back, so one wrong copy would change both for good.
RowsKeepIdentity ==
    /\ \A p \in Parties :
        /\ party[p] # None => OfParty(party[p], p)
        /\ partyReplica[p] # None => OfParty(partyReplica[p], p)
    /\ \A r \in Requests : req[r].row # None => OfParty(req[r].row, req[r].party)

MayEnter(u, p) ==
    /\ born[p] # None
    /\ u = born[p].createdBy \/ <<born[p].createdBy, p>> \in invited

\* A member is the party's creator or entered a party for which its creator,
\* and not some other member, had issued an invite: the checks of one request
\* (invites.service create) are what makes the write of another (members.service
\* create) legitimate, however many steps, deletions and expiries lie between.
MembersWereInvited == \A u \in Users, p \in Parties : <<u, p>> \in member => MayEnter(u, p)

\* What is granted is what the party promised when it was founded, and goes to
\* somebody whose member row had been written by then, also when the grant runs
\* after the response, after the member has left or after the party is gone.
GrantsArePromised ==
    \A u \in Users, p \in Parties, d \in Durations \cup {None} :
        <<u, p, d>> \in granted =>
            <<u, p>> \in joined /\ born[p] # None /\ born[p].duration = d /\ d # None

\* The requests that may remove u from p at their next step: those that name u,
\* of u or of the party's creator, and the creator's deletion of their account.
MayRemove(r, u, p) ==
    /\ req[r].party = p
    /\ \/ /\ At(r, "destroyMember")
          /\ req[r].target = u
          /\ req[r].user \in {u, born[p].createdBy}
       \/ /\ At(r, "destroyMembers")
          /\ req[r].user = born[p].createdBy

\* A member row disappears only at the hand of a request of that member or of
\* the party's creator, though the right was checked accesses earlier and the
\* party may have been deleted or resized since.
RemovalIsAuthorised ==
    [][\A u \in Users, p \in Parties :
         <<u, p>> \in member /\ <<u, p>> \notin member' =>
            \E r \in Requests : MayRemove(r, u, p)]_vars

\* A deleted party no reader can still see and no request holds past its read.
Settled(p) ==
    /\ born[p] # None
    /\ party[p] = None
    /\ partyReplica[p] = None
    /\ \A r \in Requests :
         req[r].party = p =>
            req[r].pc \in {"idle", "findParty", "findInvitedParty", "findMember", "destroyMember",
                          "destroyOwned", "destroyMembers", "destroyInvites"}

\* Once its deletion has settled a party never comes back and takes nobody in,
\* though its invites and members are left in the table and still answer.
SettledDeletionsStay ==
    [][\A p \in Parties :
         Settled(p) => Settled(p)' /\ Roster(member', p) \subseteq Roster(member, p)]_vars

\* A party whose creation ended between its row and its creator's member row.
Orphaned(p) ==
    /\ born[p] # None
    /\ <<born[p].createdBy, p>> \notin joined
    /\ \A r \in Requests : req[r].party = p => req[r].pc # "insertCreator"

\* A creation that dies after its first write leaves a row and nothing else.
\* Nobody joins that party, is invited to it or changes it, ever; the only
\* request that still finds it is the one that looks for what its creator owns,
\* the deletion of the creator's account, and once gone it stays gone.
OrphansAreOutOfReach ==
    [][\A p \in Parties :
         Orphaned(p) =>
            /\ Orphaned(p)'
            /\ party'[p] \in {born[p], None}
            /\ party'[p] # party[p] =>
                 /\ party'[p] = None
                 /\ \E r \in Requests :
                      /\ At(r, "destroyOwned")
                      /\ req[r].party = p
                      /\ req[r].user = born[p].createdBy
            /\ Roster(member', p) = {}
            /\ \A i \in Invites : invite'[i] # None => invite'[i].party # p]_vars

\* The users whose member row is about to be written.
Admitted(p) ==
    {req[r].user : r \in
       {q \in Requests : req[q].party = p /\ req[q].pc \in {"insertCreator", "insertMember"}}}

\* The capacity check of a join is not atomic with its write, so a party can be
\* overfull, but by fewer members than requests run at once: with one request
\* at a time the bound is the largest size the party ever had.  It holds only
\* while the query of ownerIndex returns what has been written.
OvershootBounded ==
    ~WeakReads =>
        \A p \in Parties :
            Cardinality(Roster(member, p) \cup Admitted(p)) < peak[p] + Cardinality(Requests)

Contract == INSTANCE PartyContract WITH
    founder <- [p \in Parties |-> IF born[p] = None THEN None ELSE born[p].createdBy],
    promise <- [p \in Parties |-> IF born[p] = None THEN None ELSE born[p].duration],
    open <- {p \in Parties : born[p] # None /\ <<born[p].createdBy, p>> \in invited},
    roster <- member,
    entered <- joined,
    gifts <- granted

\* Requests that interleave, die half way and read stale rows do no more than
\* the atomic operations of PartyContract.
ImplementsContract == Contract!Spec

-----------------------------------------------------------------------------
(***************************************************************************)
(* What comments in the code say and its behaviour refutes.                *)
(***************************************************************************)

\* "Treat as expired when full if not in party": nobody who is not a member
\* joins a party that has as many members as its size.
FullPartyAdmitsNobody ==
    [][\A r \in Requests, p \in Parties :
         /\ InsertMember(r)
         /\ req[r].party = p
         /\ party[p] # None
         /\ <<req[r].user, p>> \notin member
         => Cardinality(Roster(member, p)) < EffectiveSize(party[p].maxSize)]_vars

=============================================================================
