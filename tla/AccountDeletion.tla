-------------------------- MODULE AccountDeletion --------------------------
(***************************************************************************)
(* DELETE /account of one user, me.  The handler first reads everything it *)
(* will delete, list by list, and then deletes the lists one after the     *)
(* other: the user's sessions, memberships and parties, the other members  *)
(* of those parties, and their invites.  Each list is deleted as           *)
(* DestroyContract promises, which BatchDestroy implements: row by row,    *)
(* and it may throw half way, which ends the handler.  A query may come    *)
(* back short: it is eventually consistent, stops at a page limit, and     *)
(* gives nothing at all once its retries are spent, without an error.      *)
(*                                                                         *)
(* Of all other requests (those of PartyApi, the sessions, the deletion of *)
(* other accounts or of this one, a second time) only the writes matter    *)
(* here, and they may come at any time.  A row is its key, which names     *)
(* what the queries select by.                                             *)
(***************************************************************************)
CONSTANTS
    Users,
    Parties,
    Invites,
    Creator,    \* Creator[p]: the user in the key of party p
    PartyOf,    \* PartyOf[i]: the party in the key of invite i
    me,         \* the user whose account is deleted
    None

ASSUME IAmAUser == me \in Users
ASSUME PartiesHaveCreators == Creator \in [Parties -> Users]
ASSUME InvitesHaveParties == PartyOf \in [Invites -> Parties]
ASSUME NoneIsNoParty == None \notin Parties

VARIABLES
    table,      \* the keys of the rows in the table
    pc,         \* the step of the deletion that comes next
    found,      \* found[l]: the rows of list l
    read,       \* the parties whose members and invites have been looked up
    now,        \* the party whose members have been, and invites not yet
    left,       \* what is left of the list being deleted
    stayed,     \* the rows in the table all the time since the deletion began
    missed      \* the rows that were in the table when their query came back short

progress == <<pc, found, read, now, left>>
vars == <<table, progress, stayed, missed>>

Session(u) == [kind |-> "session", user |-> u]
Member(u, p) == [kind |-> "member", user |-> u, party |-> p]
Party(p) == [kind |-> "party", party |-> p]
Invite(i) == [kind |-> "invite", invite |-> i]

Keys ==
    {Session(u) : u \in Users} \cup {Member(u, p) : u \in Users, p \in Parties}
      \cup {Party(p) : p \in Parties} \cup {Invite(i) : i \in Invites}

\* What the five queries of the handler select.
MySessions == {Session(me)}
MyMemberships == {Member(me, p) : p \in Parties}
MyParties == {Party(p) : p \in {q \in Parties : Creator[q] = me}}
OtherMembers(p) == {Member(u, p) : u \in Users \ {me}}
InvitesTo(p) == {Invite(i) : i \in {j \in Invites : PartyOf[j] = p}}

\* The lists of rows to delete, each with what follows its deletion.
Lists == {"sessions", "memberships", "parties", "members", "invites"}

\* Mutant: the parties go before the user's memberships.
AfterPartiesFirst ==
    [sessions |-> "parties", parties |-> "memberships", memberships |-> "members",
     members |-> "invites", invites |-> "auth"]

After == [sessions |-> "memberships", memberships |-> "parties", parties |-> "members",
          members |-> "invites", invites |-> "auth"]

Reads == {"findMemberships", "findParties", "findMembers", "findInvites"}

Nothing == [l \in Lists |-> {}]

Init ==
    /\ table \in SUBSET Keys
    /\ pc = "off"
    /\ found = Nothing
    /\ read = {}
    /\ now = None
    /\ left = {}
    /\ stayed = {}
    /\ missed = {}

-----------------------------------------------------------------------------
(***************************************************************************)
(* Reading what there is to delete.                                        *)
(***************************************************************************)

\* A query selects from the rows of some moment: some of its keys may be gone,
\* and some rows that are there may be missing.
Query(selected, list) ==
    \E keys \in SUBSET selected :
        /\ found' = [found EXCEPT ![list] = @ \cup keys]
        /\ missed' = missed \cup ((selected \cap table) \ keys)

\* Mutant: the sessions are not looked up by the user.
FindAnySessions ==
    /\ pc = "off"
    /\ pc' = "findMemberships"
    /\ Query({Session(u) : u \in Users}, "sessions")
    /\ stayed' = table
    /\ UNCHANGED <<table, read, now, left>>

FindSessions ==
    /\ pc = "off"
    /\ pc' = "findMemberships"
    /\ Query(MySessions, "sessions")
    /\ stayed' = table
    /\ UNCHANGED <<table, read, now, left>>

FindMemberships ==
    /\ pc = "findMemberships"
    /\ pc' = "findParties"
    /\ Query(MyMemberships, "memberships")
    /\ UNCHANGED <<table, read, now, left, stayed>>

FindParties ==
    /\ pc = "findParties"
    /\ pc' = "findMembers"
    /\ Query(MyParties, "parties")
    /\ UNCHANGED <<table, read, now, left, stayed>>

FoundParties == {p \in Parties : Party(p) \in found["parties"]}

FindMembers(p) ==
    /\ pc = "findMembers"
    /\ pc' = "findInvites"
    /\ p \in FoundParties \ read
    /\ now' = p
    /\ Query(OtherMembers(p), "members")
    /\ UNCHANGED <<table, read, left, stayed>>

FindInvites ==
    /\ pc = "findInvites"
    /\ pc' = "findMembers"
    /\ read' = read \cup {now}
    /\ now' = None
    /\ Query(InvitesTo(now), "invites")
    /\ UNCHANGED <<table, left, stayed>>

-----------------------------------------------------------------------------
(***************************************************************************)
(* Deleting it: Remove, Return and Throw of DestroyContract for each list. *)
(***************************************************************************)

\* Mutant: the sessions' deletion is handed every list at once.
StartDeletingAll ==
    /\ pc = "findMembers"
    /\ pc' = "sessions"
    /\ FoundParties \subseteq read
    /\ left' = UNION {found[l] : l \in Lists}
    /\ UNCHANGED <<table, found, read, now, stayed, missed>>

\* Mutant: the parties' members and invites go before the parties.
StartDeletingMembers ==
    /\ pc = "findMembers"
    /\ pc' = "members"
    /\ FoundParties \subseteq read
    /\ left' = found["members"]
    /\ UNCHANGED <<table, found, read, now, stayed, missed>>

StartDeleting ==
    /\ pc = "findMembers"
    /\ pc' = "sessions"
    /\ FoundParties \subseteq read
    /\ left' = found["sessions"]
    /\ UNCHANGED <<table, found, read, now, stayed, missed>>

Remove(k) ==
    /\ pc \in Lists
    /\ k \in found[pc]
    /\ table' = table \ {k}
    /\ stayed' = stayed \ {k}
    /\ left' = left \ {k}
    /\ UNCHANGED <<pc, found, read, now, missed>>

\* Mutant: a list that could not be deleted does not end the deletion.
ReturnAnyway ==
    /\ pc \in Lists
    /\ pc' = After[pc]
    /\ left' = IF pc = "invites" THEN {} ELSE found[After[pc]]
    /\ UNCHANGED <<table, found, read, now, stayed, missed>>

Return ==
    /\ pc \in Lists
    /\ left = {}
    /\ pc' = After[pc]
    /\ left' = IF pc = "invites" THEN {} ELSE found[After[pc]]
    /\ UNCHANGED <<table, found, read, now, stayed, missed>>

End ==
    /\ pc' = "off"
    /\ found' = Nothing
    /\ read' = {}
    /\ now' = None
    /\ left' = {}
    /\ stayed' = {}
    /\ missed' = {}
    /\ UNCHANGED table

\* A list could not be deleted, or the Lambda ends: nothing further is done.
Throw == pc \in Reads \cup Lists /\ End

\* The auth service is told; whatever it answers, the deletion has succeeded.
DeleteAuthUser == pc = "auth" /\ End

-----------------------------------------------------------------------------
\* The writes of other requests: an upsert, and a deletion or expiry.
Upsert(k) ==
    /\ table' = table \cup {k}
    /\ UNCHANGED <<progress, stayed, missed>>

Vanish(k) ==
    /\ table' = table \ {k}
    /\ stayed' = stayed \ {k}
    /\ UNCHANGED <<progress, missed>>

Delete ==
    \/ FindSessions
    \/ FindMemberships
    \/ FindParties
    \/ \E p \in Parties : FindMembers(p)
    \/ FindInvites
    \/ StartDeleting
    \/ \E k \in Keys : Remove(k)
    \/ Return
    \/ Throw
    \/ DeleteAuthUser

Next == Delete \/ \E k \in Keys : Upsert(k) \/ Vanish(k)

Spec == Init /\ [][Next]_vars

-----------------------------------------------------------------------------
(***************************************************************************)
(* Properties.                                                             *)
(***************************************************************************)

\* Every variable stays within its type, and what is left of a list is of it.
TypeOK ==
    /\ table \subseteq Keys
    /\ pc \in {"off", "auth"} \cup Reads \cup Lists
    /\ found \in [Lists -> SUBSET Keys]
    /\ read \subseteq Parties
    /\ now \in Parties \cup {None}
    /\ pc = "findInvites" <=> now # None
    /\ left \subseteq Keys
    /\ pc \in Lists => left \subseteq found[pc]
    /\ stayed \subseteq table
    /\ missed \subseteq Keys

\* When the auth service is told to forget the user, nothing is left of what was
\* there when the deletion began: no session, membership or party of the user,
\* and of the parties it found no member or invite.  Only rows written since can
\* remain, however the lists were cut up, retried or raced by other requests, and
\* the very rows a short query failed to return: one short query does not make
\* the deletion leave anything another one has found.
NothingOldRemains ==
    pc = "auth" =>
        /\ stayed \cap (MySessions \cup MyMemberships \cup MyParties) \subseteq missed
        /\ \A p \in FoundParties : stayed \cap (OtherMembers(p) \cup InvitesTo(p)) \subseteq missed

\* Deleting an account removes rows of the user and of the parties they created
\* and no others, whatever has happened to them since the lists were read.
TakesOnlyItsOwn ==
    [][\A k \in Keys : Remove(k) =>
         \/ k \in MySessions \cup MyMemberships \cup MyParties
         \/ \E p \in Parties : Creator[p] = me /\ k \in OtherMembers(p) \cup InvitesTo(p)]_vars

\* The rows of a party go from the user outwards: the user's own membership, then
\* the party, then its other members and its invites.  So a deletion that dies
\* half way leaves a party with everybody else it had, or none, and no membership
\* of the user in a party it has deleted (unless the query missed it).  What it
\* does leave is a party its creator is no longer in, or members and invites of
\* a party that is gone.
TakenInOrder ==
    [][\A p \in Parties, k \in Keys : Remove(k) =>
         /\ k = Party(p) => Member(me, p) \notin stayed \ missed
         /\ k \in OtherMembers(p) \cup InvitesTo(p) => Party(p) \notin stayed]_vars

=============================================================================
