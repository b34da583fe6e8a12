------------------------ MODULE AccountDeletionProofs ------------------------
(***************************************************************************)
(* What the deletion of an account removes and what it leaves, for any     *)
(* number of users, parties and invites.                                   *)
(***************************************************************************)
EXTENDS AccountDeletion, TLAPS

-----------------------------------------------------------------------------
(***************************************************************************)
(* The inductive invariant.                                                *)
(***************************************************************************)

\* The lists hold what their queries select, and only of parties that are mine.
FoundIsMine ==
    /\ found["sessions"] \subseteq MySessions
    /\ found["memberships"] \subseteq MyMemberships
    /\ found["parties"] \subseteq MyParties
    /\ \A k \in found["members"] : \E p \in FoundParties : k \in OtherMembers(p)
    /\ \A k \in found["invites"] : \E p \in FoundParties : k \in InvitesTo(p)
    /\ read \subseteq FoundParties
    /\ now # None => now \in FoundParties

\* What was there from the beginning and a query has looked for is in its list,
\* or is a row the query missed.
FoundIsAll ==
    /\ pc # "off" => stayed \cap MySessions \subseteq found["sessions"] \cup missed
    /\ pc \notin {"off", "findMemberships"} =>
        stayed \cap MyMemberships \subseteq found["memberships"] \cup missed
    /\ pc \notin {"off", "findMemberships", "findParties"} =>
        stayed \cap MyParties \subseteq found["parties"] \cup missed
    /\ \A p \in read \cup ({now} \ {None}) :
        stayed \cap OtherMembers(p) \subseteq found["members"] \cup missed
    /\ \A p \in read : stayed \cap InvitesTo(p) \subseteq found["invites"] \cup missed

\* A list that has been deleted is gone, and of the one being deleted remains
\* what is left; nothing is deleted before everything has been read.
DeletedIsGone ==
    /\ pc \in Lists \cup {"auth"} => FoundParties \subseteq read
    /\ pc \in Lists => stayed \cap found[pc] \subseteq left
    /\ pc \in {"memberships", "parties", "members", "invites", "auth"} =>
        stayed \cap found["sessions"] = {}
    /\ pc \in {"parties", "members", "invites", "auth"} =>
        stayed \cap found["memberships"] = {}
    /\ pc \in {"members", "invites", "auth"} => stayed \cap found["parties"] = {}
    /\ pc \in {"invites", "auth"} => stayed \cap found["members"] = {}
    /\ pc = "auth" => stayed \cap found["invites"] = {}

\* Between deletions nothing is held.
HoldsNothing == pc = "off" => found = Nothing /\ read = {} /\ now = None

Inv ==
    /\ TypeOK
    /\ HoldsNothing
    /\ FoundIsMine
    /\ FoundIsAll
    /\ DeletedIsGone

-----------------------------------------------------------------------------
\* A list holds keys of one kind; no key has two kinds.
LEMMA KindsDiffer ==
    ASSUME NEW u, NEW v, NEW p, NEW q, NEW i
    PROVE  /\ Session(u) # Member(v, q)
           /\ Session(u) # Party(q)
           /\ Session(u) # Invite(i)
           /\ Member(u, p) # Party(q)
           /\ Member(u, p) # Invite(i)
           /\ Party(p) # Invite(i)
<1>1. /\ Session(u).kind = "session"
      /\ Member(u, p).kind = "member"
      /\ Member(v, q).kind = "member"
      /\ Party(p).kind = "party"
      /\ Party(q).kind = "party"
      /\ Invite(i).kind = "invite"
  BY DEF Session, Member, Party, Invite
<1> QED BY <1>1

LEMMA KeysAreInjective ==
    ASSUME NEW u, NEW v, NEW p, NEW q
    PROVE  /\ Member(u, p) = Member(v, q) => u = v /\ p = q
           /\ Party(p) = Party(q) => p = q
           /\ Invite(p) = Invite(q) => p = q
<1>1. /\ Member(u, p).user = u /\ Member(u, p).party = p
      /\ Member(v, q).user = v /\ Member(v, q).party = q
  BY DEF Member
<1>2. Party(p).party = p /\ Party(q).party = q
  BY DEF Party
<1>3. Invite(p).invite = p /\ Invite(q).invite = q
  BY DEF Invite
<1> QED BY <1>1, <1>2, <1>3

\* Every query selects keys.
LEMMA SelectionsAreKeys ==
    /\ MySessions \subseteq Keys
    /\ MyMemberships \subseteq Keys
    /\ MyParties \subseteq Keys
    /\ \A p \in Parties : OtherMembers(p) \subseteq Keys /\ InvitesTo(p) \subseteq Keys
  BY IAmAUser DEF MySessions, MyMemberships, MyParties, OtherMembers, InvitesTo, Keys

-----------------------------------------------------------------------------
LEMMA InitInv == Init => Inv
<1> SUFFICES ASSUME Init PROVE Inv
  OBVIOUS
<1> USE DEF Init
<1>1. TypeOK
  BY DEF TypeOK, Nothing, Reads, Lists
<1>2. FoundIsMine
  BY DEF FoundIsMine, Nothing, Lists
<1>3. FoundIsAll
  BY DEF FoundIsAll, Nothing
<1>4. DeletedIsGone /\ HoldsNothing
  BY DEF DeletedIsGone, HoldsNothing, Lists
<1> QED BY <1>1, <1>2, <1>3, <1>4 DEF Inv

-----------------------------------------------------------------------------
(***************************************************************************)
(* Reads.                                                                  *)
(***************************************************************************)

\* A query adds keys it selects to its list and leaves the others as they are;
\* what it looked for is then in the list, or among the rows it missed.
Added(list, selected) ==
    /\ found' \in [Lists -> SUBSET Keys]
    /\ found[list] \subseteq found'[list]
    /\ found'[list] \subseteq found[list] \cup selected
    /\ \A l \in Lists : l # list => found'[l] = found[l]
    /\ missed' \subseteq Keys
    /\ missed \subseteq missed'
    /\ selected \cap table \subseteq found'[list] \cup missed'

LEMMA QueryAdds ==
    ASSUME TypeOK, NEW selected, selected \subseteq Keys, NEW list \in Lists,
           Query(selected, list)
    PROVE  Added(list, selected)
<1>1. PICK keys \in SUBSET selected :
        /\ found' = [found EXCEPT ![list] = @ \cup keys]
        /\ missed' = missed \cup ((selected \cap table) \ keys)
  BY DEF Query
<1>2. found \in [Lists -> SUBSET Keys] /\ missed \subseteq Keys
  BY DEF TypeOK
<1>3. /\ found' \in [Lists -> SUBSET Keys]
      /\ found'[list] = found[list] \cup keys
      /\ \A l \in Lists : l # list => found'[l] = found[l]
  BY <1>1, <1>2
<1>4. missed' \subseteq Keys /\ missed \subseteq missed'
  BY <1>1, <1>2
<1>5. selected \cap table \subseteq found'[list] \cup missed'
  BY <1>1, <1>3
<1>6. /\ found[list] \subseteq found'[list]
      /\ found'[list] \subseteq found[list] \cup selected
  BY <1>3
<1> QED BY <1>3, <1>4, <1>5, <1>6 DEF Added

LEMMA FindSessionsInv == Inv /\ FindSessions => Inv'
<1> SUFFICES ASSUME Inv, FindSessions PROVE Inv'
  OBVIOUS
<1> USE DEF Inv, FindSessions
<1>1. Added("sessions", MySessions)
  BY SelectionsAreKeys, QueryAdds DEF Lists
<1>2. TypeOK'
  BY <1>1 DEF Added, TypeOK, Reads, Lists
<1>3. FoundParties' = FoundParties
  BY <1>1 DEF Added, FoundParties, Lists
<1>4. FoundIsMine'
  BY <1>1, <1>3 DEF Added, FoundIsMine, Lists
<1>5. FoundIsAll'
  BY <1>1 DEF Added, FoundIsAll, HoldsNothing, TypeOK
<1>6. DeletedIsGone' /\ HoldsNothing'
  BY DEF DeletedIsGone, HoldsNothing, Lists
<1> QED BY <1>2, <1>4, <1>5, <1>6

LEMMA FindMembershipsInv == Inv /\ FindMemberships => Inv'
<1> SUFFICES ASSUME Inv, FindMemberships PROVE Inv'
  OBVIOUS
<1> USE DEF Inv, FindMemberships
<1>1. Added("memberships", MyMemberships)
  BY SelectionsAreKeys, QueryAdds DEF Lists
<1>2. TypeOK'
  BY <1>1 DEF Added, TypeOK, Reads, Lists
<1>3. FoundParties' = FoundParties
  BY <1>1 DEF Added, FoundParties, Lists
<1>4. FoundIsMine'
  BY <1>1, <1>3 DEF Added, FoundIsMine, Lists
<1>5. FoundIsAll'
  BY <1>1 DEF Added, FoundIsAll, TypeOK, Lists
<1>6. DeletedIsGone' /\ HoldsNothing'
  BY DEF DeletedIsGone, HoldsNothing, Lists
<1> QED BY <1>2, <1>4, <1>5, <1>6

LEMMA FindPartiesInv == Inv /\ FindParties => Inv'
<1> SUFFICES ASSUME Inv, FindParties PROVE Inv'
  OBVIOUS
<1> USE DEF Inv, FindParties
<1>1. Added("parties", MyParties)
  BY SelectionsAreKeys, QueryAdds DEF Lists
<1>2. TypeOK'
  BY <1>1 DEF Added, TypeOK, Reads, Lists
<1>3. FoundParties \subseteq FoundParties'
  BY <1>1 DEF Added, FoundParties, Lists
<1>4. FoundIsMine'
  BY <1>1, <1>3 DEF Added, FoundIsMine, Lists
<1>5. FoundIsAll'
  BY <1>1 DEF Added, FoundIsAll, TypeOK, Lists
<1>6. DeletedIsGone' /\ HoldsNothing'
  BY DEF DeletedIsGone, HoldsNothing, Lists
<1> QED BY <1>2, <1>4, <1>5, <1>6

LEMMA FindMembersInv ==
    ASSUME Inv, NEW p \in Parties, FindMembers(p) PROVE Inv'
<1> USE DEF Inv, FindMembers
<1>1. Added("members", OtherMembers(p))
  BY SelectionsAreKeys, QueryAdds DEF Lists
<1>2. TypeOK'
  BY <1>1, NoneIsNoParty DEF Added, TypeOK, Reads, Lists
<1>3. FoundParties' = FoundParties
  BY <1>1 DEF Added, FoundParties, Lists
<1>4. FoundIsMine'
  <2>1. \A k \in found'["members"] : \E q \in FoundParties' : k \in OtherMembers(q)
    BY <1>1, <1>3 DEF Added, FoundIsMine
  <2> QED BY <1>1, <1>3, <2>1 DEF Added, FoundIsMine, Lists
<1>5. FoundIsAll'
  <2>1. FoundIsAll
    OBVIOUS
  <2>2. stayed \cap OtherMembers(p) \subseteq found'["members"] \cup missed'
    BY <1>1 DEF Added, TypeOK
  <2>3. \A q \in read' \cup ({now'} \ {None}) :
          stayed' \cap OtherMembers(q) \subseteq found'["members"] \cup missed'
    BY <1>1, <2>1, <2>2 DEF Added, FoundIsAll
  <2> QED BY <1>1, <2>1, <2>3 DEF Added, FoundIsAll, Lists
<1>6. DeletedIsGone' /\ HoldsNothing'
  BY DEF DeletedIsGone, HoldsNothing, Lists
<1> QED BY <1>2, <1>4, <1>5, <1>6

LEMMA FindInvitesInv == Inv /\ FindInvites => Inv'
<1> SUFFICES ASSUME Inv, FindInvites PROVE Inv'
  OBVIOUS
<1> USE DEF Inv, FindInvites
<1>p. now # None /\ now \in Parties
  BY DEF TypeOK
<1>1. Added("invites", InvitesTo(now))
  BY <1>p, SelectionsAreKeys, QueryAdds DEF Lists
<1>2. TypeOK'
  BY <1>1, <1>p DEF Added, TypeOK, Reads, Lists
<1>3. FoundParties' = FoundParties
  BY <1>1 DEF Added, FoundParties, Lists
<1>4. FoundIsMine'
  <2>1. now \in FoundParties
    BY <1>p DEF FoundIsMine
  <2>2. \A k \in found'["invites"] : \E q \in FoundParties' : k \in InvitesTo(q)
    BY <1>1, <1>3, <2>1 DEF Added, FoundIsMine
  <2> QED BY <1>1, <1>3, <2>1, <2>2 DEF Added, FoundIsMine, Lists
<1>5. FoundIsAll'
  <2>1. FoundIsAll
    OBVIOUS
  <2>2. stayed \cap InvitesTo(now) \subseteq found'["invites"] \cup missed'
    BY <1>1 DEF Added, TypeOK
  <2>3. \A q \in read' : stayed' \cap InvitesTo(q) \subseteq found'["invites"] \cup missed'
    BY <1>1, <2>1, <2>2 DEF Added, FoundIsAll
  <2>4. \A q \in read' \cup ({now'} \ {None}) :
          stayed' \cap OtherMembers(q) \subseteq found'["members"] \cup missed'
    BY <1>1, <1>p, <2>1 DEF Added, FoundIsAll, Lists
  <2> QED BY <1>1, <2>1, <2>3, <2>4 DEF Added, FoundIsAll, Lists
<1>6. DeletedIsGone' /\ HoldsNothing'
  BY DEF DeletedIsGone, HoldsNothing, Lists
<1> QED BY <1>2, <1>4, <1>5, <1>6

-----------------------------------------------------------------------------
(***************************************************************************)
(* Deletions.                                                              *)
(***************************************************************************)

LEMMA StartDeletingInv == Inv /\ StartDeleting => Inv'
<1> SUFFICES ASSUME Inv, StartDeleting PROVE Inv'
  OBVIOUS
<1> USE DEF Inv, StartDeleting
<1>1. TypeOK'
  BY DEF TypeOK, Reads, Lists
<1>2. FoundParties' = FoundParties
  BY DEF FoundParties
<1>3. FoundIsMine' /\ HoldsNothing'
  BY <1>2 DEF FoundIsMine, HoldsNothing
<1>4. FoundIsAll'
  BY DEF FoundIsAll
<1>5. DeletedIsGone'
  BY <1>2 DEF DeletedIsGone, Lists
<1> QED BY <1>1, <1>3, <1>4, <1>5

LEMMA RemoveInv ==
    ASSUME Inv, NEW k \in Keys, Remove(k) PROVE Inv'
<1> USE DEF Inv, Remove
<1>1. TypeOK'
  BY DEF TypeOK
<1>2. FoundParties' = FoundParties
  BY DEF FoundParties
<1>3. FoundIsMine' /\ HoldsNothing'
  BY <1>2 DEF FoundIsMine, HoldsNothing
<1>4. FoundIsAll'
  BY DEF FoundIsAll
<1>5. DeletedIsGone'
  BY <1>2 DEF DeletedIsGone
<1> QED BY <1>1, <1>3, <1>4, <1>5

LEMMA ReturnInv == Inv /\ Return => Inv'
<1> SUFFICES ASSUME Inv, Return PROVE Inv'
  OBVIOUS
<1> USE DEF Inv, Return
<1>1. /\ pc' \in {"memberships", "parties", "members", "invites", "auth"}
      /\ pc' \in Lists => left' = found[pc']
      /\ left' \subseteq Keys
  BY DEF TypeOK, After, Lists
<1>2. TypeOK'
  BY <1>1 DEF TypeOK, Reads, Lists
<1>3. FoundParties' = FoundParties
  BY DEF FoundParties
<1>4. FoundIsMine' /\ HoldsNothing'
  BY <1>1, <1>3 DEF FoundIsMine, HoldsNothing
<1>5. FoundIsAll'
  BY <1>1 DEF FoundIsAll, Lists
<1>6. DeletedIsGone'
  <2>1. stayed \cap found[pc] = {}
    BY DEF DeletedIsGone
  <2> QED BY <1>1, <1>3, <2>1 DEF DeletedIsGone, After, Lists
<1> QED BY <1>2, <1>4, <1>5, <1>6

LEMMA EndInv == Inv /\ End => Inv'
<1> SUFFICES ASSUME Inv, End PROVE Inv'
  OBVIOUS
<1> USE DEF Inv, End
<1>1. TypeOK'
  BY DEF TypeOK, Nothing, Reads, Lists
<1>2. FoundIsMine' /\ HoldsNothing'
  BY DEF FoundIsMine, HoldsNothing, Nothing, Lists
<1>3. FoundIsAll'
  BY DEF FoundIsAll
<1>4. DeletedIsGone'
  BY DEF DeletedIsGone, Lists
<1> QED BY <1>1, <1>2, <1>3, <1>4

LEMMA UpsertInv ==
    ASSUME Inv, NEW k \in Keys, Upsert(k) PROVE Inv'
<1> USE DEF Inv, Upsert, progress
<1>1. TypeOK'
  BY DEF TypeOK
<1>2. FoundParties' = FoundParties
  BY DEF FoundParties
<1>3. FoundIsMine' /\ HoldsNothing' /\ DeletedIsGone'
  BY <1>2 DEF FoundIsMine, HoldsNothing, DeletedIsGone
<1>4. FoundIsAll'
  BY DEF FoundIsAll
<1> QED BY <1>1, <1>3, <1>4

LEMMA VanishInv ==
    ASSUME Inv, NEW k \in Keys, Vanish(k) PROVE Inv'
<1> USE DEF Inv, Vanish, progress
<1>1. TypeOK'
  BY DEF TypeOK
<1>2. FoundParties' = FoundParties
  BY DEF FoundParties
<1>3. FoundIsMine' /\ HoldsNothing'
  BY <1>2 DEF FoundIsMine, HoldsNothing
<1>4. DeletedIsGone'
  BY <1>2 DEF DeletedIsGone
<1>5. FoundIsAll'
  BY DEF FoundIsAll
<1> QED BY <1>1, <1>3, <1>4, <1>5

LEMMA StutterInv == Inv /\ UNCHANGED vars => Inv'
<1> SUFFICES ASSUME Inv, UNCHANGED vars PROVE Inv'
  OBVIOUS
<1> USE DEF Inv, vars, progress
<1>1. TypeOK'
  BY DEF TypeOK
<1>2. FoundParties' = FoundParties
  BY DEF FoundParties
<1>3. FoundIsMine' /\ HoldsNothing' /\ DeletedIsGone'
  BY <1>2 DEF FoundIsMine, HoldsNothing, DeletedIsGone
<1>4. FoundIsAll'
  BY DEF FoundIsAll
<1> QED BY <1>1, <1>3, <1>4

-----------------------------------------------------------------------------
(***************************************************************************)
(* The theorems.                                                           *)
(***************************************************************************)

LEMMA StepInv == Inv /\ [Next]_vars => Inv'
<1> SUFFICES ASSUME Inv, [Next]_vars PROVE Inv'
  OBVIOUS
<1>1. CASE FindSessions
  BY <1>1, FindSessionsInv
<1>2. CASE FindMemberships
  BY <1>2, FindMembershipsInv
<1>3. CASE FindParties
  BY <1>3, FindPartiesInv
<1>4. ASSUME NEW p \in Parties, FindMembers(p) PROVE Inv'
  BY <1>4, FindMembersInv
<1>5. CASE FindInvites
  BY <1>5, FindInvitesInv
<1>6. CASE StartDeleting
  BY <1>6, StartDeletingInv
<1>7. ASSUME NEW k \in Keys, Remove(k) PROVE Inv'
  BY <1>7, RemoveInv
<1>8. CASE Return
  BY <1>8, ReturnInv
<1>9. CASE Throw \/ DeleteAuthUser
  BY <1>9, EndInv DEF Throw, DeleteAuthUser
<1>10. ASSUME NEW k \in Keys, Upsert(k) PROVE Inv'
  BY <1>10, UpsertInv
<1>11. ASSUME NEW k \in Keys, Vanish(k) PROVE Inv'
  BY <1>11, VanishInv
<1>12. CASE UNCHANGED vars
  BY <1>12, StutterInv
<1> QED
  BY <1>1, <1>2, <1>3, <1>4, <1>5, <1>6, <1>7, <1>8, <1>9, <1>10, <1>11, <1>12
  DEF Next, Delete

LEMMA Invariance == Spec => []Inv
<1> QED BY InitInv, StepInv, PTL DEF Spec

\* The variables keep their types.
THEOREM TypeCorrect == Spec => []TypeOK
<1>1. Inv => TypeOK
  BY DEF Inv
<1> QED BY Invariance, <1>1, PTL

\* When the user is about to be forgotten, nothing of theirs that was there when
\* the deletion began is left but the rows a query missed.
THEOREM NothingOldIsLeft == Spec => []NothingOldRemains
<1>1. Inv => NothingOldRemains
  <2> SUFFICES ASSUME Inv, pc = "auth"
               PROVE  /\ stayed \cap (MySessions \cup MyMemberships \cup MyParties) \subseteq missed
                      /\ \A p \in FoundParties :
                           stayed \cap (OtherMembers(p) \cup InvitesTo(p)) \subseteq missed
    BY DEF NothingOldRemains
  <2>1. FoundIsAll /\ DeletedIsGone
    BY DEF Inv
  <2>2. stayed \cap (MySessions \cup MyMemberships \cup MyParties) \subseteq missed
    BY <2>1 DEF FoundIsAll, DeletedIsGone
  <2>3. FoundParties \subseteq read
    BY <2>1 DEF DeletedIsGone
  <2>4. ASSUME NEW p \in FoundParties
        PROVE  stayed \cap (OtherMembers(p) \cup InvitesTo(p)) \subseteq missed
    BY <2>1, <2>3 DEF FoundIsAll, DeletedIsGone
  <2> QED BY <2>2, <2>4
<1> QED BY Invariance, <1>1, PTL

\* A party that was found was created by the user.
LEMMA FoundPartiesAreMine ==
    ASSUME Inv, NEW p \in FoundParties PROVE Creator[p] = me
<1>1. p \in Parties /\ Party(p) \in MyParties
  BY DEF Inv, FoundIsMine, FoundParties
<1>2. PICK q \in Parties : Creator[q] = me /\ Party(p) = Party(q)
  BY <1>1 DEF MyParties
<1> QED BY <1>2, KeysAreInjective

\* Only rows of the user and of the parties they created are removed.
THEOREM OnlyItsOwn == Spec => TakesOnlyItsOwn
<1> DEFINE Own(k) ==
        \/ k \in MySessions \cup MyMemberships \cup MyParties
        \/ \E p \in Parties : Creator[p] = me /\ k \in OtherMembers(p) \cup InvitesTo(p)
<1>1. ASSUME Inv, NEW k \in Keys, Remove(k) PROVE Own(k)
  <2>1. k \in found[pc] /\ pc \in Lists /\ FoundIsMine
    BY <1>1 DEF Remove, Inv
  <2>2. CASE pc \in {"sessions", "memberships", "parties"}
    BY <2>1, <2>2 DEF FoundIsMine
  <2>3. CASE pc \in {"members", "invites"}
    <3>1. PICK p \in FoundParties : k \in OtherMembers(p) \cup InvitesTo(p)
      BY <2>1, <2>3 DEF FoundIsMine
    <3>2. p \in Parties /\ Creator[p] = me
      BY <1>1, FoundPartiesAreMine DEF FoundParties
    <3> QED BY <3>1, <3>2
  <2> QED BY <2>1, <2>2, <2>3 DEF Lists
<1>2. Inv => [\A k \in Keys : Remove(k) => Own(k)]_vars
  BY <1>1
<1> QED BY Invariance, <1>2, PTL DEF TakesOnlyItsOwn

\* Of a party the user's own membership goes first, then the party, and only then
\* its other members and its invites.
THEOREM RowsGoInOrder == Spec => TakenInOrder
<1>1. ASSUME Inv, NEW p \in Parties, NEW k \in Keys, Remove(k),
             k \in OtherMembers(p) \cup InvitesTo(p)
      PROVE  Party(p) \notin stayed
  <2>1. k \in found[pc] /\ pc \in Lists /\ FoundIsMine /\ DeletedIsGone
    BY <1>1 DEF Remove, Inv
  <2>2. \/ \E u \in Users \ {me} : k = Member(u, p)
        \/ \E i \in Invites : k = Invite(i) /\ PartyOf[i] = p
    BY <1>1 DEF OtherMembers, InvitesTo
  <2>3. pc \notin {"sessions", "parties"}
    BY <2>1, <2>2, KindsDiffer DEF FoundIsMine, MySessions, MyParties
  <2>4. pc # "memberships"
    BY <2>1, <2>2, KindsDiffer, KeysAreInjective DEF FoundIsMine, MyMemberships
  <2>5. pc \in {"members", "invites"}
    BY <2>1, <2>3, <2>4 DEF Lists
  <2>6. PICK q \in FoundParties : k \in OtherMembers(q) \cup InvitesTo(q)
    BY <2>1, <2>5 DEF FoundIsMine
  <2>7. \/ \E u \in Users \ {me} : k = Member(u, q)
        \/ \E i \in Invites : k = Invite(i) /\ PartyOf[i] = q
    BY <2>6 DEF OtherMembers, InvitesTo
  <2>8. p = q
    BY <2>2, <2>7, KindsDiffer, KeysAreInjective
  <2>9. stayed \cap found["parties"] = {} /\ Party(q) \in found["parties"]
    BY <2>1, <2>5 DEF DeletedIsGone, FoundParties
  <2> QED BY <2>8, <2>9
<1>2. ASSUME Inv, NEW p \in Parties, Remove(Party(p))
      PROVE  Member(me, p) \notin stayed \ missed
  <2>1. /\ Party(p) \in found[pc] /\ pc \in Lists
        /\ FoundIsMine /\ FoundIsAll /\ DeletedIsGone
    BY <1>2 DEF Remove, Inv
  <2>2. pc \notin {"sessions", "memberships"}
    BY <2>1, KindsDiffer DEF FoundIsMine, MySessions, MyMemberships
  <2>3. pc \notin {"members", "invites"}
    BY <2>1, KindsDiffer DEF FoundIsMine, OtherMembers, InvitesTo
  <2>4. pc = "parties"
    BY <2>1, <2>2, <2>3 DEF Lists
  <2>5. stayed \cap MyMemberships \subseteq missed
    BY <2>1, <2>4 DEF FoundIsAll, DeletedIsGone
  <2> QED BY <2>5 DEF MyMemberships
<1>3. Inv => [\A p \in Parties, k \in Keys : Remove(k) =>
                /\ k = Party(p) => Member(me, p) \notin stayed \ missed
                /\ k \in OtherMembers(p) \cup InvitesTo(p) => Party(p) \notin stayed]_vars
  BY <1>1, <1>2
<1> QED BY Invariance, <1>3, PTL DEF TakenInOrder

=============================================================================
