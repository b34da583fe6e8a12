------------------------------ MODULE Sessions ------------------------------
(***************************************************************************)
(* Sessions of a game shown to the other members of a party.  One request  *)
(* of the user me is followed through its reads:                           *)
(*                                                                         *)
(*   GET /sessions?userId&partyId   the sessions of a friend, shown after  *)
(*                                  four reads have found both of them in  *)
(*                                  the party                              *)
(*   GET /sessions/:id              my session and, for each of my         *)
(*   PATCH /sessions/:id            parties, those of the other members    *)
(*                                                                         *)
(* All other requests appear as the writes they make, which may come       *)
(* between any two reads: people join and leave, parties come and go, and  *)
(* sessions are stored, expire and are dropped.  Sessions are those of one *)
(* game; me asking for my own list of sessions reads nothing of others and *)
(* is left out.                                                            *)
(***************************************************************************)
EXTENDS Naturals

CONSTANTS
    Users,
    Parties,
    me,         \* the user whose request it is
    LastHour,   \* bound: the clock stops here
    Expiries,   \* the hours that clients give for a session to expire
    None

ASSUME IAmAUser == me \in Users
ASSUME HoursAreNumbers == LastHour \in Nat
ASSUME ExpiriesAreHours == Expiries \subseteq 0 .. LastHour
ASSUME NoneIsNothingElse == None \notin Nat \cup [party : Parties, user : Users]

Hours == 0 .. LastHour

\* A session without expiresAt outlives the clock.
Never == LastHour + 1

VARIABLES
    clock,
    table,      \* the rows in the table
    lingering,  \* rows that are gone or replaced, and that a read may still serve
    pc,         \* the access of the request that comes next
    about,      \* the friend and the party of a list request, None of the others
    toFind,     \* my parties by their member rows, not looked up yet
    toAsk,      \* the parties found, whose members are not known yet
    toFetch,    \* the members whose session is not fetched yet
    shown,      \* the sessions of others in the answer
    began,      \* the hour at which the request began
    held,       \* rows that a read could see at some time since then
    kept,       \* rows in the table all the time since then
    missed      \* whether a read has found nothing where there was a row

store == <<clock, table, lingering>>
progress == <<pc, about, toFind, toAsk, toFetch, shown>>
history == <<began, held, kept, missed>>
vars == <<store, progress, history>>

Party(p) == [kind |-> "party", party |-> p]
Member(u, p) == [kind |-> "member", user |-> u, party |-> p]
Session(u, h) == [kind |-> "session", user |-> u, until |-> h]

SessionsOf(u) == {Session(u, h) : h \in Expiries \cup {Never}}

Rows ==
    {Party(p) : p \in Parties} \cup {Member(u, p) : u \in Users, p \in Parties}
      \cup UNION {SessionsOf(u) : u \in Users}

\* A row is found until the hour it names, dropped or not.
Live(row) == clock <= row.until

Served == table \cup lingering

Over == {"answered", "refused", "notFound", "ended"}

\* Every user has at most one session of the game.
Init ==
    /\ clock \in Hours
    /\ table \in {t \in SUBSET Rows :
                    \A u \in Users : \A s, z \in t \cap SessionsOf(u) : s = z}
    /\ lingering \in SUBSET (Rows \ table)
    /\ pc = "off"
    /\ about = None
    /\ toFind = {} /\ toAsk = {} /\ toFetch = {} /\ shown = {}
    /\ began = clock
    /\ held = Served
    /\ kept = table
    /\ missed = FALSE

-----------------------------------------------------------------------------
(***************************************************************************)
(* Writes.                                                                 *)
(***************************************************************************)

\* What a write leaves: the rows that disappear linger, and the request's
\* history of the table goes on.
Becomes(t) ==
    /\ table' = t
    /\ lingering' = (lingering \cup table) \ t
    /\ held' = held \cup t
    /\ kept' = kept \cap t

\* The session after an upsert: without a new expiry the old one is kept, that
\* of a row that has expired and is not dropped yet included.
Upserted(u, expiry) ==
    IF expiry # None THEN {Session(u, expiry)}
    ELSE IF table \cap SessionsOf(u) = {} THEN {Session(u, Never)}
    ELSE table \cap SessionsOf(u)

Upsert(u, expiry) == Becomes((table \ SessionsOf(u)) \cup Upserted(u, expiry))

\* Other requests: a session is stored; a party or a member row is; a row is
\* deleted, or dropped by DynamoDB; and a replica or the index catches up.
OthersStore == \E u \in Users, expiry \in Expiries \cup {None} : Upsert(u, expiry)

OthersFound == \E p \in Parties : Becomes(table \cup {Party(p)})

OthersJoin == \E u \in Users, p \in Parties : Becomes(table \cup {Member(u, p)})

OthersDelete == \E row \in table : Becomes(table \ {row})

Settle ==
    /\ \E row \in lingering : lingering' = lingering \ {row}
    /\ UNCHANGED <<table, held, kept>>

Others ==
    /\ pc \notin Over \cup {"off"}
    /\ \/ OthersStore
       \/ OthersFound
       \/ OthersJoin
       \/ OthersDelete
       \/ Settle
    /\ UNCHANGED <<clock, progress, began, missed>>

Tick ==
    /\ pc \notin Over \cup {"off"}
    /\ clock < LastHour
    /\ clock' = clock + 1
    /\ UNCHANGED <<table, lingering, progress, history>>

-----------------------------------------------------------------------------
(***************************************************************************)
(* GET /sessions?userId&partyId: the sessions of a friend.                 *)
(***************************************************************************)

\* A read serves a row as it is, or as it was; or it gives nothing, for want
\* of retries or on a replica that lags, which is a miss if the row is there.
Gets(row) == row \in Served /\ missed' = missed

GetsNothing(row) == missed' = (missed \/ row \in table)

Unread == UNCHANGED <<store, began, held, kept>>

Refuse ==
    /\ pc' = "refused"
    /\ UNCHANGED <<about, toFind, toAsk, toFetch, shown>>

AskForFriend ==
    /\ pc = "off"
    /\ \E u \in Users \ {me}, p \in Parties : about' = [party |-> p, user |-> u]
    /\ pc' = "readerMember"
    /\ missed' = missed
    /\ Unread
    /\ UNCHANGED <<toFind, toAsk, toFetch, shown>>

\* One read of findForUser: the next step if it finds the row, else nothing is
\* shown.
Check(step, row, next) ==
    /\ pc = step
    /\ \/ /\ Gets(row)
          /\ pc' = next
          /\ UNCHANGED <<about, toFind, toAsk, toFetch, shown>>
       \/ GetsNothing(row) /\ Refuse
    /\ Unread

FindReaderMember == Check("readerMember", Member(me, about.party), "readerParty")

\* Mutant: only the reader is looked for in the party.
FindReaderOnly ==
    /\ pc = "readerParty"
    /\ \/ /\ Gets(Party(about.party))
          /\ pc' = "gather"
          /\ toFetch' = {about}
          /\ UNCHANGED <<about, toFind, toAsk, shown>>
       \/ GetsNothing(Party(about.party)) /\ Refuse
    /\ Unread

FindReaderParty == Check("readerParty", Party(about.party), "ownerMember")

FindOwnerMember == Check("ownerMember", Member(about.user, about.party), "ownerParty")

FindOwnerParty ==
    /\ pc = "ownerParty"
    /\ \/ /\ Gets(Party(about.party))
          /\ pc' = "gather"
          /\ toFetch' = {about}
          /\ UNCHANGED <<about, toFind, toAsk, shown>>
       \/ GetsNothing(Party(about.party)) /\ Refuse
    /\ Unread

-----------------------------------------------------------------------------
(***************************************************************************)
(* GET and PATCH /sessions/:id: my session and those of my parties.        *)
(***************************************************************************)

FindMine ==
    /\ pc = "off"
    /\ \/ /\ \E s \in SessionsOf(me) : Gets(s) /\ Live(s)
          /\ pc' = "memberships"
       \/ missed' = missed /\ pc' = "notFound"
    /\ Unread
    /\ UNCHANGED <<about, toFind, toAsk, toFetch, shown>>

UpsertMine ==
    /\ pc = "off"
    /\ \E expiry \in Expiries \cup {None} : Upsert(me, expiry)
    /\ pc' = "memberships"
    /\ UNCHANGED <<clock, began, missed, about, toFind, toAsk, toFetch, shown>>

\* A query may serve any of the rows it selects, and leave any of them out.
QueryMisses(selected, got) == missed' = (missed \/ ~(selected \cap table \subseteq got))

FindMemberships ==
    /\ pc = "memberships"
    /\ \E got \in SUBSET {row \in Served : \E p \in Parties : row = Member(me, p)} :
          /\ toFind' = {row.party : row \in got}
          /\ QueryMisses({Member(me, p) : p \in Parties}, got)
    /\ pc' = "gather"
    /\ Unread
    /\ UNCHANGED <<about, toAsk, toFetch, shown>>

\* Party after party.
FindParty(p) ==
    /\ pc = "gather"
    /\ p \in toFind
    /\ toFind' = toFind \ {p}
    /\ \/ Gets(Party(p)) /\ toAsk' = toAsk \cup {p}
       \/ GetsNothing(Party(p)) /\ toAsk' = toAsk
    /\ Unread
    /\ UNCHANGED <<pc, about, toFetch, shown>>

\* Mutant: the reader is not left out of the members.
FindAllMembers(p) ==
    /\ pc = "gather"
    /\ toFind = {}
    /\ p \in toAsk
    /\ toAsk' = toAsk \ {p}
    /\ \E got \in SUBSET {row \in Served : \E u \in Users : row = Member(u, p)} :
          /\ toFetch' = toFetch \cup {[party |-> p, user |-> u] : u \in {row.user : row \in got}}
          /\ QueryMisses({Member(u, p) : u \in Users}, got)
    /\ Unread
    /\ UNCHANGED <<pc, about, toFind, shown>>

\* Then all parties, and all members of each, at once.
FindMembers(p) ==
    /\ pc = "gather"
    /\ toFind = {}
    /\ p \in toAsk
    /\ toAsk' = toAsk \ {p}
    /\ \E got \in SUBSET {row \in Served : \E u \in Users : row = Member(u, p)} :
          /\ toFetch' = toFetch \cup {[party |-> p, user |-> u] : u \in {row.user : row \in got} \ {me}}
          /\ QueryMisses({Member(u, p) : u \in Users}, got)
    /\ Unread
    /\ UNCHANGED <<pc, about, toFind, shown>>

Shows(m, s) == [party |-> m.party, user |-> m.user, until |-> s.until]

FetchSession(m) ==
    /\ pc = "gather"
    /\ m \in toFetch
    /\ toFetch' = toFetch \ {m}
    /\ \/ \E s \in SessionsOf(m.user) :
             Gets(s) /\ Live(s) /\ shown' = shown \cup {Shows(m, s)}
       \/ /\ missed' = (missed \/ \E s \in SessionsOf(m.user) \cap table : Live(s))
          /\ shown' = shown
    /\ Unread
    /\ UNCHANGED <<pc, about, toFind, toAsk>>

\* Mutant: the sessions are not awaited.
AnswerAtOnce ==
    /\ pc = "gather"
    /\ toFind = {} /\ toAsk = {}
    /\ pc' = "answered"
    /\ missed' = missed
    /\ Unread
    /\ UNCHANGED <<about, toFind, toAsk, toFetch, shown>>

\* The answer waits for every read.
Answer ==
    /\ pc = "gather"
    /\ toFind = {} /\ toAsk = {} /\ toFetch = {}
    /\ pc' = "answered"
    /\ missed' = missed
    /\ Unread
    /\ UNCHANGED <<about, toFind, toAsk, toFetch, shown>>

\* The Lambda ends before the answer.
Abort ==
    /\ pc \notin Over \cup {"off"}
    /\ pc' = "ended"
    /\ missed' = missed
    /\ Unread
    /\ UNCHANGED <<about, toFind, toAsk, toFetch, shown>>

Handle ==
    \/ AskForFriend
    \/ FindReaderMember
    \/ FindReaderParty
    \/ FindOwnerMember
    \/ FindOwnerParty
    \/ FindMine
    \/ UpsertMine
    \/ FindMemberships
    \/ \E p \in Parties : FindParty(p) \/ FindMembers(p)
    \/ \E m \in toFetch : FetchSession(m)
    \/ Answer
    \/ Abort

Next == Handle \/ Others \/ Tick

Spec == Init /\ [][Next]_vars

-----------------------------------------------------------------------------
(***************************************************************************)
(* Properties.                                                             *)
(***************************************************************************)
Pairs == [party : Parties, user : Users \ {me}]

Entries == [party : Parties, user : Users \ {me}, until : Expiries \cup {Never}]

\* Every variable keeps to its type; a list request, and no other, is about a
\* friend, and nothing is fetched or shown before its checks.
TypeOK ==
    /\ clock \in Hours /\ began \in Hours
    /\ table \subseteq Rows /\ lingering \subseteq Rows
    /\ held \subseteq Rows /\ kept \subseteq Rows
    /\ missed \in BOOLEAN
    /\ pc \in Over \cup {"off", "readerMember", "readerParty", "ownerMember",
                         "ownerParty", "memberships", "gather"}
    /\ about \in Pairs \cup {None}
    /\ pc \in {"readerMember", "readerParty", "ownerMember", "ownerParty"} => about # None
    /\ pc \in {"off", "memberships", "notFound"} => about = None
    /\ toFind \subseteq Parties /\ toAsk \subseteq Parties
    /\ toFetch \subseteq Pairs
    /\ shown \subseteq Entries
    /\ pc \notin {"gather", "answered", "ended"} =>
           toFind = {} /\ toAsk = {} /\ toFetch = {} /\ shown = {}

\* A session is shown only if, while the request was served, its owner and the
\* reader were seen in one party that was there, and the session was there and
\* had not expired when the request began.
OnlySharedIsShown ==
    \A e \in shown :
        /\ {Party(e.party), Member(me, e.party), Member(e.user, e.party),
            Session(e.user, e.until)} \subseteq held
        /\ began <= e.until

\* Both are in a party, which is there, and the owner has a session, all
\* throughout the request and up to now.
SharedThroughout(m) ==
    /\ {Party(m.party), Member(me, m.party), Member(m.user, m.party)} \subseteq kept
    /\ \E s \in SessionsOf(m.user) \cap kept : Live(s)

\* An answer is complete: if no read misses a row, whoever is asked about and has
\* shared a party and a session with the reader throughout the request is in it,
\* whatever comes and goes meanwhile.
AllSharedIsShown ==
    pc \in {"answered", "refused"} /\ ~missed =>
        \A m \in IF about = None THEN Pairs ELSE {about} :
            SharedThroughout(m) =>
                \E e \in shown : e.party = m.party /\ e.user = m.user

=============================================================================
