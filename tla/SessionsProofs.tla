--------------------------- MODULE SessionsProofs ---------------------------
(***************************************************************************)
(* Theorems about Sessions, for any users, parties and hours: who is shown *)
(* a session, and when an answer is complete.                              *)
(***************************************************************************)
EXTENDS Sessions, TLAPS

USE IAmAUser, HoursAreNumbers, ExpiriesAreHours, NoneIsNothingElse

\* The numbers of hours compared with each other.
LEMMA HourNumbers ==
    /\ Hours \subseteq Nat
    /\ Expiries \subseteq Hours
    /\ Never \in Nat
    /\ \A h \in Expiries \cup {Never} : h \in Nat
BY DEF Hours, Never

\* A pair names a party and a user other than me, and is not None.
LEMMA PairFields ==
    ASSUME NEW m \in Pairs
    PROVE  m.party \in Parties /\ m.user \in Users /\ m.user # me /\ m # None
BY DEF Pairs

\* Whatever is written, the rows and the history stay rows, no row is forgotten
\* that could be seen, and none is added that was not there all the time.
LEMMA BecomesIsMonotone ==
    ASSUME NEW t \in SUBSET Rows, TypeOK, Becomes(t)
    PROVE  /\ table' \subseteq Rows /\ lingering' \subseteq Rows
           /\ held' \subseteq Rows /\ kept' \subseteq Rows
           /\ held \subseteq held' /\ kept' \subseteq kept
           /\ Served \subseteq held => Served' \subseteq held'
           /\ kept' \subseteq table'
BY DEF TypeOK, Becomes, Served

\* An upsert writes rows.
LEMMA UpsertIsMonotone ==
    ASSUME NEW u \in Users, NEW expiry \in Expiries \cup {None}, TypeOK, Upsert(u, expiry)
    PROVE  /\ table' \subseteq Rows /\ lingering' \subseteq Rows
           /\ held' \subseteq Rows /\ kept' \subseteq Rows
           /\ held \subseteq held' /\ kept' \subseteq kept
           /\ Served \subseteq held => Served' \subseteq held'
           /\ kept' \subseteq table'
<1> DEFINE t == (table \ SessionsOf(u)) \cup Upserted(u, expiry)
<1>1. SessionsOf(u) \subseteq Rows
  BY DEF Rows
<1>2. Upserted(u, expiry) \subseteq SessionsOf(u)
  BY DEF Upserted, SessionsOf
<1>3. t \in SUBSET Rows
  BY <1>1, <1>2 DEF TypeOK
<1>4. Becomes(t)
  BY DEF Upsert
<1> QED
  BY <1>3, <1>4, BecomesIsMonotone

\* The same of all that other requests do.
LEMMA OthersAreMonotone ==
    ASSUME TypeOK, Others
    PROVE  /\ table' \subseteq Rows /\ lingering' \subseteq Rows
           /\ held' \subseteq Rows /\ kept' \subseteq Rows
           /\ held \subseteq held' /\ kept' \subseteq kept
           /\ Served \subseteq held => Served' \subseteq held'
           /\ kept \subseteq table => kept' \subseteq table'
<1>1. CASE OthersStore
  BY <1>1, UpsertIsMonotone DEF OthersStore
<1>2. CASE OthersFound
  <2>1. PICK p \in Parties : Becomes(table \cup {Party(p)})
    BY <1>2 DEF OthersFound
  <2>2. table \cup {Party(p)} \in SUBSET Rows
    BY DEF TypeOK, Rows
  <2> QED
    BY <2>1, <2>2, BecomesIsMonotone
<1>3. CASE OthersJoin
  <2>1. PICK u \in Users, p \in Parties : Becomes(table \cup {Member(u, p)})
    BY <1>3 DEF OthersJoin
  <2>2. table \cup {Member(u, p)} \in SUBSET Rows
    BY DEF TypeOK, Rows
  <2> QED
    BY <2>1, <2>2, BecomesIsMonotone
<1>4. CASE OthersDelete
  <2>1. PICK row \in table : Becomes(table \ {row})
    BY <1>4 DEF OthersDelete
  <2>2. table \ {row} \in SUBSET Rows
    BY DEF TypeOK
  <2> QED
    BY <2>1, <2>2, BecomesIsMonotone
<1>5. CASE Settle
  BY <1>5 DEF Settle, TypeOK, Served
<1> QED
  BY <1>1, <1>2, <1>3, <1>4, <1>5 DEF Others

-----------------------------------------------------------------------------
(***************************************************************************)
(* Types.                                                                  *)
(***************************************************************************)

LEMMA InitTypeOK == Init => TypeOK
BY DEF Init, TypeOK, Hours, Served, Over

\* One read of a list request keeps the types: it goes on or refuses.
LEMMA CheckTypeOK ==
    ASSUME TypeOK, NEW step, NEW row, NEW next, Check(step, row, next),
           step \in {"readerMember", "readerParty", "ownerMember"},
           next \in {"readerParty", "ownerMember", "ownerParty"}
    PROVE  TypeOK'
<1>1. about \in Pairs
  BY DEF TypeOK, Check
<1> QED
  BY <1>1 DEF TypeOK, Check, Gets, GetsNothing, Refuse, Unread, store, Over

LEMMA NextTypeOK == TypeOK /\ [Next]_vars => TypeOK'
<1> SUFFICES ASSUME TypeOK, [Next]_vars PROVE TypeOK'
  OBVIOUS
<1>1. CASE AskForFriend
  BY <1>1 DEF AskForFriend, TypeOK, Unread, store, Over, Pairs
<1>2. CASE FindReaderMember
  BY <1>2, CheckTypeOK DEF FindReaderMember
<1>3. CASE FindReaderParty
  BY <1>3, CheckTypeOK DEF FindReaderParty
<1>4. CASE FindOwnerMember
  BY <1>4, CheckTypeOK DEF FindOwnerMember
<1>5. CASE FindOwnerParty
  <2>1. about \in Pairs
    BY <1>5 DEF TypeOK, FindOwnerParty
  <2> QED
    BY <1>5, <2>1 DEF TypeOK, FindOwnerParty, Gets, GetsNothing, Refuse, Unread, store, Over
<1>6. CASE FindMine
  BY <1>6 DEF FindMine, Gets, TypeOK, Unread, store, Over
<1>7. CASE UpsertMine
  <2>1. /\ table' \subseteq Rows /\ lingering' \subseteq Rows
        /\ held' \subseteq Rows /\ kept' \subseteq Rows
    BY <1>7, UpsertIsMonotone DEF UpsertMine
  <2> QED
    BY <1>7, <2>1 DEF UpsertMine, TypeOK, Over
<1>8. CASE FindMemberships
  <2>1. toFind' \subseteq Parties
    BY <1>8 DEF FindMemberships, Member
  <2> QED
    BY <1>8, <2>1 DEF FindMemberships, QueryMisses, TypeOK, Unread, store, Over
<1>9. ASSUME NEW p \in Parties, FindParty(p) PROVE TypeOK'
  BY <1>9 DEF FindParty, Gets, GetsNothing, TypeOK, Unread, store, Over
<1>10. ASSUME NEW p \in Parties, FindMembers(p) PROVE TypeOK'
  <2>1. toFetch' \subseteq Pairs
    BY <1>10 DEF FindMembers, Member, TypeOK, Pairs
  <2> QED
    BY <1>10, <2>1 DEF FindMembers, QueryMisses, TypeOK, Unread, store, Over
<1>11. ASSUME NEW m \in toFetch, FetchSession(m) PROVE TypeOK'
  <2>1. m \in Pairs
    BY DEF TypeOK
  <2>2. \A s \in SessionsOf(m.user) : Shows(m, s) \in Entries
    BY <2>1, PairFields DEF SessionsOf, Session, Shows, Entries
  <2>3. shown' \subseteq Entries
    BY <1>11, <2>2 DEF FetchSession, TypeOK
  <2> QED
    BY <1>11, <2>3 DEF FetchSession, Gets, TypeOK, Unread, store, Over
<1>12. CASE Answer
  BY <1>12 DEF Answer, TypeOK, Unread, store, Over
<1>13. CASE Abort
  BY <1>13 DEF Abort, TypeOK, Unread, store, Over
<1>14. CASE Others
  <2>1. /\ table' \subseteq Rows /\ lingering' \subseteq Rows
        /\ held' \subseteq Rows /\ kept' \subseteq Rows
    BY <1>14, OthersAreMonotone
  <2> QED
    BY <1>14, <2>1 DEF Others, TypeOK, progress
<1>15. CASE Tick
  BY <1>15, HourNumbers DEF Tick, TypeOK, progress, history, Hours
<1>16. CASE UNCHANGED vars
  BY <1>16 DEF TypeOK, vars, store, progress, history
<1> QED
  BY <1>1, <1>2, <1>3, <1>4, <1>5, <1>6, <1>7, <1>8, <1>9, <1>10, <1>11, <1>12, <1>13,
     <1>14, <1>15, <1>16 DEF Next, Handle

\* The variables keep to their types.
THEOREM TypeCorrect == Spec => []TypeOK
BY InitTypeOK, NextTypeOK, PTL DEF Spec

-----------------------------------------------------------------------------
(***************************************************************************)
(* Who is shown a session.                                                 *)
(***************************************************************************)

\* What the request has found out so far has been there while it was served.
MemberSeen(m) == Member(m.user, m.party) \in held

ReaderSeen(p) == Member(me, p) \in held

ChecksSeen ==
    /\ pc \in {"readerParty", "ownerMember", "ownerParty"} => ReaderSeen(about.party)
    /\ pc \in {"ownerMember", "ownerParty"} => Party(about.party) \in held
    /\ pc = "ownerParty" => MemberSeen(about)

GatheredSeen ==
    /\ \A p \in toFind \cup toAsk : ReaderSeen(p)
    /\ \A p \in toAsk : Party(p) \in held
    /\ \A m \in toFetch :
          MemberSeen(m) /\ ReaderSeen(m.party) /\ Party(m.party) \in held

SeenInv ==
    /\ Served \subseteq held
    /\ began <= clock
    /\ ChecksSeen
    /\ GatheredSeen
    /\ OnlySharedIsShown

LEMMA InitSeen == Init => SeenInv
BY HourNumbers DEF Init, SeenInv, ChecksSeen, GatheredSeen, OnlySharedIsShown, Served

\* What has been seen stays seen when only the history grows.
LEMMA SeenStays ==
    ASSUME SeenInv, held \subseteq held', Served' \subseteq held', began' <= clock',
           UNCHANGED <<progress, began>>
    PROVE  SeenInv'
<1>1. ChecksSeen'
  BY DEF SeenInv, ChecksSeen, MemberSeen, ReaderSeen, progress
<1>2. GatheredSeen'
  BY DEF SeenInv, GatheredSeen, MemberSeen, ReaderSeen, progress
<1>3. OnlySharedIsShown'
  BY DEF SeenInv, OnlySharedIsShown, progress
<1> QED
  BY <1>1, <1>2, <1>3 DEF SeenInv

LEMMA NextSeen == TypeOK /\ SeenInv /\ [Next]_vars => SeenInv'
<1> SUFFICES ASSUME TypeOK, SeenInv, [Next]_vars PROVE SeenInv'
  OBVIOUS
<1> USE DEF SeenInv
<1>1. CASE AskForFriend
  BY <1>1 DEF AskForFriend, Unread, store, Served, TypeOK,
       ChecksSeen, GatheredSeen, MemberSeen, ReaderSeen, OnlySharedIsShown
<1>2. CASE FindReaderMember
  BY <1>2 DEF FindReaderMember, Check, Gets, Refuse, Unread, store, Served,
       ChecksSeen, GatheredSeen, MemberSeen, ReaderSeen, OnlySharedIsShown
<1>3. CASE FindReaderParty
  BY <1>3 DEF FindReaderParty, Check, Gets, Refuse, Unread, store, Served,
       ChecksSeen, GatheredSeen, MemberSeen, ReaderSeen, OnlySharedIsShown
<1>4. CASE FindOwnerMember
  BY <1>4 DEF FindOwnerMember, Check, Gets, Refuse, Unread, store, Served,
       ChecksSeen, GatheredSeen, MemberSeen, ReaderSeen, OnlySharedIsShown
<1>5. CASE FindOwnerParty
  BY <1>5 DEF FindOwnerParty, Gets, Refuse, Unread, store, Served,
       ChecksSeen, GatheredSeen, MemberSeen, ReaderSeen, OnlySharedIsShown
<1>6. CASE FindMine
  BY <1>6 DEF FindMine, Unread, store, Served,
       ChecksSeen, GatheredSeen, MemberSeen, ReaderSeen, OnlySharedIsShown
<1>7. CASE UpsertMine
  <2>1. held \subseteq held' /\ Served' \subseteq held'
    BY <1>7, UpsertIsMonotone DEF UpsertMine
  <2>2. toFind' = {} /\ toAsk' = {} /\ toFetch' = {} /\ shown' = {}
    BY <1>7 DEF UpsertMine, TypeOK, Over
  <2>3. ChecksSeen' /\ GatheredSeen' /\ OnlySharedIsShown'
    BY <1>7, <2>2 DEF UpsertMine, ChecksSeen, GatheredSeen, OnlySharedIsShown
  <2> QED
    BY <1>7, <2>1, <2>3 DEF UpsertMine
<1>8. CASE FindMemberships
  <2>1. \A p \in toFind' : Member(me, p) \in Served
    BY <1>8 DEF FindMemberships, Member
  <2>2. toAsk' = {} /\ toFetch' = {} /\ shown' = {}
    BY <1>8 DEF FindMemberships, TypeOK
  <2> QED
    BY <1>8, <2>1, <2>2 DEF FindMemberships, Unread, store, Served,
         ChecksSeen, GatheredSeen, ReaderSeen, OnlySharedIsShown
<1>9. ASSUME NEW p \in Parties, FindParty(p) PROVE SeenInv'
  BY <1>9 DEF FindParty, Gets, Unread, store, Served,
       ChecksSeen, GatheredSeen, MemberSeen, ReaderSeen, OnlySharedIsShown
<1>10. ASSUME NEW p \in Parties, FindMembers(p) PROVE SeenInv'
  <2>1. \A m \in toFetch' \ toFetch : m.party = p /\ Member(m.user, p) \in Served
    BY <1>10 DEF FindMembers, Member
  <2>2. GatheredSeen'
    BY <1>10, <2>1 DEF FindMembers, Unread, GatheredSeen, MemberSeen, ReaderSeen
  <2> QED
    BY <1>10, <2>2 DEF FindMembers, Unread, store, Served, ChecksSeen, OnlySharedIsShown
<1>11. ASSUME NEW m \in toFetch, FetchSession(m) PROVE SeenInv'
  <2>1. OnlySharedIsShown'
    <3>1. CASE shown' = shown
      BY <1>11, <3>1 DEF FetchSession, Unread, OnlySharedIsShown
    <3>2. CASE \E s \in SessionsOf(m.user) :
                  Gets(s) /\ Live(s) /\ shown' = shown \cup {Shows(m, s)}
      <4>1. PICK h \in Expiries \cup {Never} :
                  /\ Session(m.user, h) \in Served /\ Live(Session(m.user, h))
                  /\ shown' = shown \cup {Shows(m, Session(m.user, h))}
        BY <3>2 DEF SessionsOf, Gets
      <4> DEFINE e == Shows(m, Session(m.user, h))
      <4>2. e.party = m.party /\ e.user = m.user /\ e.until = h
        BY DEF Shows, Session
      <4>3. clock <= h
        BY <4>1 DEF Live, Session
      <4>4. began <= h
        BY <4>3, HourNumbers DEF TypeOK
      <4>5. {Party(m.party), Member(me, m.party), Member(m.user, m.party),
             Session(m.user, h)} \subseteq held
        BY <4>1 DEF GatheredSeen, MemberSeen, ReaderSeen
      <4> HIDE DEF e
      <4> QED
        BY <1>11, <4>1, <4>2, <4>4, <4>5 DEF e, FetchSession, Unread, OnlySharedIsShown
    <3> QED
      BY <1>11, <3>1, <3>2 DEF FetchSession
  <2> QED
    BY <1>11, <2>1 DEF FetchSession, Unread, store, Served, ChecksSeen, GatheredSeen,
         MemberSeen, ReaderSeen
<1>12. CASE Answer
  BY <1>12 DEF Answer, Unread, store, Served,
       ChecksSeen, GatheredSeen, MemberSeen, ReaderSeen, OnlySharedIsShown
<1>13. CASE Abort
  BY <1>13 DEF Abort, Unread, store, Served, Over,
       ChecksSeen, GatheredSeen, MemberSeen, ReaderSeen, OnlySharedIsShown
<1>14. CASE Others
  BY <1>14, OthersAreMonotone, SeenStays DEF Others
<1>15. CASE Tick
  <2>1. began' <= clock'
    BY <1>15, HourNumbers DEF Tick, history, TypeOK
  <2> QED
    BY <1>15, <2>1, SeenStays DEF Tick, history, Served
<1>16. CASE UNCHANGED vars
  BY <1>16, SeenStays DEF vars, store, history, Served
<1> QED
  BY <1>1, <1>2, <1>3, <1>4, <1>5, <1>6, <1>7, <1>8, <1>9, <1>10, <1>11, <1>12, <1>13,
     <1>14, <1>15, <1>16 DEF Next, Handle

\* A session is shown only to a reader who was seen in a party with its owner while
\* the request was served, and none that had expired before.
THEOREM SharedOnlyInParties == Spec => []OnlySharedIsShown
<1>1. TypeOK /\ SeenInv /\ [Next]_vars => TypeOK' /\ SeenInv'
  BY NextTypeOK, NextSeen
<1>2. Init => TypeOK /\ SeenInv
  BY InitTypeOK, InitSeen
<1>3. SeenInv => OnlySharedIsShown
  BY DEF SeenInv
<1> QED
  BY <1>1, <1>2, <1>3, PTL DEF Spec

-----------------------------------------------------------------------------
(***************************************************************************)
(* When an answer is complete.                                             *)
(***************************************************************************)

Wanted == IF about = None THEN Pairs ELSE {about}

IsShown(m) == \E e \in shown : e.party = m.party /\ e.user = m.user

\* Where a pair can be that has to be shown: its party is to be looked up or to be
\* asked, or its session is to be fetched, or it is shown.
OnItsWay(m) ==
    \/ about = None /\ m.party \in toFind \cup toAsk
    \/ m \in toFetch
    \/ IsShown(m)

NothingLost ==
    pc \in {"gather", "answered"} /\ ~missed =>
        \A m \in Wanted : SharedThroughout(m) => OnItsWay(m)

RefusedRightly ==
    pc = "refused" /\ ~missed => \A m \in Wanted : ~SharedThroughout(m)

CompleteInv ==
    /\ kept \subseteq table
    /\ pc = "refused" => about # None
    /\ pc = "answered" => toFind = {} /\ toAsk = {} /\ toFetch = {}
    /\ NothingLost
    /\ RefusedRightly

LEMMA InitComplete == Init => CompleteInv
BY DEF Init, CompleteInv, NothingLost, RefusedRightly

\* Nothing new has to be shown as time passes and others write.
LEMMA LessIsShared ==
    ASSUME TypeOK, kept' \subseteq kept, clock' \in Nat, clock <= clock', NEW m,
           SharedThroughout(m)'
    PROVE  SharedThroughout(m)
<1>1. PICK h \in Expiries \cup {Never} : Session(m.user, h) \in kept' /\ Live(Session(m.user, h))'
  BY DEF SharedThroughout, SessionsOf
<1>2. clock' <= h
  BY <1>1 DEF Live, Session
<1>3. clock <= h
  BY <1>2, HourNumbers DEF TypeOK
<1>4. Session(m.user, h) \in kept /\ Live(Session(m.user, h))
  BY <1>1, <1>3 DEF Live, Session
<1> QED
  BY <1>4 DEF SharedThroughout, SessionsOf

LEMMA CompleteStays ==
    ASSUME TypeOK, CompleteInv, kept' \subseteq kept, kept' \subseteq table',
           clock' \in Nat, clock <= clock', UNCHANGED <<progress, missed>>
    PROVE  CompleteInv'
<1>1. \A m : SharedThroughout(m)' => SharedThroughout(m)
  BY LessIsShared
<1>2. NothingLost'
  BY <1>1 DEF CompleteInv, NothingLost, Wanted, OnItsWay, IsShown, progress
<1>3. RefusedRightly'
  BY <1>1 DEF CompleteInv, RefusedRightly, Wanted, progress
<1> QED
  BY <1>2, <1>3 DEF CompleteInv, progress

\* A handler's step that reads nothing of its own history.
LEMMA SharingIsRead ==
    ASSUME Unread, NEW m
    PROVE  SharedThroughout(m)' = SharedThroughout(m)
BY DEF Unread, store, SharedThroughout, Live

\* A list request that finds nothing where it looks refuses rightly.
LEMMA CheckComplete ==
    ASSUME TypeOK, CompleteInv, NEW step, NEW row, NEW next, Check(step, row, next),
           step \in {"readerMember", "readerParty", "ownerMember"},
           next \in {"readerParty", "ownerMember", "ownerParty"},
           row \in {Member(me, about.party), Party(about.party),
                    Member(about.user, about.party)}
    PROVE  CompleteInv'
<1>1. about \in Pairs /\ about # None
  BY DEF TypeOK, Check
<1>2. SharedThroughout(about) => row \in table
  BY DEF SharedThroughout, CompleteInv
<1>3. \A m : SharedThroughout(m)' = SharedThroughout(m)
  BY SharingIsRead DEF Check
<1>4. CASE pc' = next
  BY <1>1, <1>4 DEF Check, Refuse, Unread, store, CompleteInv, NothingLost, RefusedRightly
<1>5. CASE GetsNothing(row) /\ Refuse
  BY <1>1, <1>2, <1>3, <1>5
     DEF Check, GetsNothing, Refuse, Unread, store, CompleteInv, NothingLost,
         RefusedRightly, Wanted
<1> QED
  BY <1>4, <1>5 DEF Check

LEMMA NextComplete == TypeOK /\ CompleteInv /\ [Next]_vars => CompleteInv'
<1> SUFFICES ASSUME TypeOK, CompleteInv, [Next]_vars PROVE CompleteInv'
  OBVIOUS
<1>1. CASE AskForFriend
  BY <1>1 DEF AskForFriend, Unread, store, CompleteInv, NothingLost, RefusedRightly
<1>2. CASE FindReaderMember
  BY <1>2, CheckComplete DEF FindReaderMember
<1>3. CASE FindReaderParty
  BY <1>3, CheckComplete DEF FindReaderParty
<1>4. CASE FindOwnerMember
  BY <1>4, CheckComplete DEF FindOwnerMember
<1>5. CASE FindOwnerParty
  <2>1. about \in Pairs /\ about # None
    BY <1>5 DEF TypeOK, FindOwnerParty
  <2>2. SharedThroughout(about) => Party(about.party) \in table
    BY DEF SharedThroughout, CompleteInv
  <2>3. \A m : SharedThroughout(m)' = SharedThroughout(m)
    BY <1>5, SharingIsRead DEF FindOwnerParty
  <2>4. CASE Gets(Party(about.party)) /\ pc' = "gather" /\ toFetch' = {about} /\ about' = about
    BY <1>5, <2>1, <2>4 DEF FindOwnerParty, Unread, store, CompleteInv, NothingLost,
         RefusedRightly, Wanted, OnItsWay
  <2>5. CASE GetsNothing(Party(about.party)) /\ Refuse
    BY <1>5, <2>1, <2>2, <2>3, <2>5
       DEF FindOwnerParty, GetsNothing, Refuse, Unread, store, CompleteInv, NothingLost,
           RefusedRightly, Wanted
  <2> QED
    BY <1>5, <2>4, <2>5 DEF FindOwnerParty
<1>6. CASE FindMine
  BY <1>6 DEF FindMine, Unread, store, CompleteInv, NothingLost, RefusedRightly
<1>7. CASE UpsertMine
  <2>1. kept' \subseteq table'
    BY <1>7, UpsertIsMonotone DEF UpsertMine
  <2> QED
    BY <1>7, <2>1 DEF UpsertMine, CompleteInv, NothingLost, RefusedRightly
<1>8. CASE FindMemberships
  <2>1. about = None
    BY <1>8 DEF FindMemberships, TypeOK
  <2>2. ASSUME ~missed', NEW m \in Pairs, SharedThroughout(m)
        PROVE  m.party \in toFind'
    <3>1. Member(me, m.party) \in table
      BY <2>2 DEF SharedThroughout, CompleteInv
    <3>2. PICK got \in SUBSET Served :
              /\ toFind' = {row.party : row \in got}
              /\ QueryMisses({Member(me, p) : p \in Parties}, got)
      BY <1>8 DEF FindMemberships
    <3>3. Member(me, m.party) \in got
      BY <2>2, <3>1, <3>2, PairFields DEF QueryMisses
    <3> QED
      BY <3>2, <3>3 DEF Member
  <2>3. \A m : SharedThroughout(m)' = SharedThroughout(m)
    BY <1>8, SharingIsRead DEF FindMemberships
  <2>4. NothingLost'
    BY <1>8, <2>1, <2>2, <2>3 DEF FindMemberships, NothingLost, Wanted, OnItsWay
  <2> QED
    BY <1>8, <2>4 DEF FindMemberships, Unread, store, CompleteInv, RefusedRightly
<1>9. ASSUME NEW p \in Parties, FindParty(p) PROVE CompleteInv'
  <2>1. ASSUME ~missed', NEW m \in Wanted, SharedThroughout(m)
        PROVE  OnItsWay(m)'
    <3>0. ~missed
      BY <1>9, <2>1, Zenon DEF FindParty, Gets, GetsNothing
    <3>1. OnItsWay(m)
      BY <1>9, <2>1, <3>0 DEF FindParty, CompleteInv, NothingLost
    <3>2. Party(m.party) \in table
      BY <2>1 DEF SharedThroughout, CompleteInv
    <3>3. CASE m.party = p
      BY <1>9, <2>1, <3>1, <3>2, <3>3 DEF FindParty, Gets, GetsNothing, OnItsWay, IsShown
    <3>4. CASE m.party # p
      BY <1>9, <3>1, <3>4 DEF FindParty, OnItsWay, IsShown
    <3> QED
      BY <3>3, <3>4
  <2>2. \A m : SharedThroughout(m)' = SharedThroughout(m)
    BY <1>9, SharingIsRead DEF FindParty
  <2>3. NothingLost'
    BY <1>9, <2>1, <2>2 DEF FindParty, NothingLost, Wanted
  <2> QED
    BY <1>9, <2>3 DEF FindParty, Unread, store, CompleteInv, RefusedRightly
<1>10. ASSUME NEW p \in Parties, FindMembers(p) PROVE CompleteInv'
  <2>1. ASSUME ~missed', NEW m \in Wanted, SharedThroughout(m)
        PROVE  OnItsWay(m)'
    <3> DEFINE selected == {Member(u, p) : u \in Users}
    <3>1. PICK got \in SUBSET Served :
              /\ toFetch' = toFetch \cup {[party |-> p, user |-> u] : u \in {row.user : row \in got} \ {me}}
              /\ missed' = (missed \/ ~(selected \cap table \subseteq got))
      BY <1>10 DEF FindMembers, QueryMisses
    <3>2. ~missed /\ selected \cap table \subseteq got
      BY <2>1, <3>1
    <3>3. OnItsWay(m)
      BY <1>10, <2>1, <3>2 DEF FindMembers, CompleteInv, NothingLost
    <3>4. m \in Pairs
      BY <2>1 DEF Wanted, TypeOK
    <3>5. ASSUME m.party = p PROVE m \in toFetch'
      <4>1. Member(m.user, p) \in table
        BY <2>1, <3>5 DEF SharedThroughout, CompleteInv
      <4>2. Member(m.user, p) \in selected
        BY <3>4, PairFields
      <4>3. Member(m.user, p) \in got
        BY <3>2, <4>1, <4>2
      <4>4. m.user \in {row.user : row \in got} \ {me}
        BY <3>4, <4>3, PairFields DEF Member
      <4>5. m = [party |-> p, user |-> m.user]
        BY <3>4, <3>5 DEF Pairs
      <4> QED
        BY <3>1, <4>4, <4>5
    <3>6. ASSUME m.party # p PROVE OnItsWay(m)'
      BY <1>10, <3>1, <3>3, <3>6 DEF FindMembers, OnItsWay, IsShown
    <3> QED
      BY <3>5, <3>6 DEF OnItsWay
  <2>2. \A m : SharedThroughout(m)' = SharedThroughout(m)
    BY <1>10, SharingIsRead DEF FindMembers
  <2>3. NothingLost'
    BY <1>10, <2>1, <2>2 DEF FindMembers, NothingLost, Wanted
  <2> QED
    BY <1>10, <2>3 DEF FindMembers, Unread, store, CompleteInv, RefusedRightly
<1>11. ASSUME NEW m \in toFetch, FetchSession(m) PROVE CompleteInv'
  <2>1. ASSUME ~missed', NEW o \in Wanted, SharedThroughout(o)
        PROVE  OnItsWay(o)'
    <3>0. ~missed
      BY <1>11, <2>1, Zenon DEF FetchSession, Gets
    <3>1. OnItsWay(o)
      BY <1>11, <2>1, <3>0 DEF FetchSession, CompleteInv, NothingLost
    <3>2. CASE o # m
      BY <1>11, <3>1, <3>2 DEF FetchSession, OnItsWay, IsShown
    <3>3. CASE o = m
      <4>1. \E s \in SessionsOf(m.user) \cap table : Live(s)
        BY <2>1, <3>3 DEF SharedThroughout, CompleteInv
      <4>2. PICK s \in SessionsOf(m.user) : shown' = shown \cup {Shows(m, s)}
        BY <1>11, <2>1, <4>1 DEF FetchSession
      <4>3. Shows(m, s).party = m.party /\ Shows(m, s).user = m.user
        BY DEF Shows
      <4>4. IsShown(m)'
        BY <4>2, <4>3 DEF IsShown
      <4> QED
        BY <3>3, <4>4 DEF OnItsWay
    <3> QED
      BY <3>2, <3>3
  <2>2. \A o : SharedThroughout(o)' = SharedThroughout(o)
    BY <1>11, SharingIsRead DEF FetchSession
  <2>3. NothingLost'
    BY <1>11, <2>1, <2>2 DEF FetchSession, NothingLost, Wanted
  <2> QED
    BY <1>11, <2>3 DEF FetchSession, Unread, store, CompleteInv, RefusedRightly
<1>12. CASE Answer
  <2>1. \A m : SharedThroughout(m)' = SharedThroughout(m)
    BY <1>12, SharingIsRead DEF Answer
  <2>2. NothingLost'
    BY <1>12, <2>1 DEF Answer, CompleteInv, NothingLost, Wanted, OnItsWay, IsShown
  <2> QED
    BY <1>12, <2>2 DEF Answer, Unread, store, CompleteInv, RefusedRightly
<1>13. CASE Abort
  BY <1>13 DEF Abort, Unread, store, CompleteInv, NothingLost, RefusedRightly
<1>14. CASE Others
  <2>1. kept' \subseteq kept /\ kept' \subseteq table'
    BY <1>14, OthersAreMonotone DEF CompleteInv
  <2>2. clock' \in Nat /\ clock <= clock'
    BY <1>14, HourNumbers DEF Others, TypeOK
  <2> QED
    BY <1>14, <2>1, <2>2, CompleteStays DEF Others
<1>15. CASE Tick
  <2>1. clock' \in Nat /\ clock <= clock'
    BY <1>15, HourNumbers DEF Tick, TypeOK
  <2> QED
    BY <1>15, <2>1, CompleteStays DEF Tick, history, CompleteInv
<1>16. CASE UNCHANGED vars
  <2>1. clock' \in Nat /\ clock <= clock'
    BY <1>16, HourNumbers DEF vars, store, TypeOK
  <2> QED
    BY <1>16, <2>1, CompleteStays DEF vars, store, history, CompleteInv
<1> QED
  BY <1>1, <1>2, <1>3, <1>4, <1>5, <1>6, <1>7, <1>8, <1>9, <1>10, <1>11, <1>12, <1>13,
     <1>14, <1>15, <1>16 DEF Next, Handle

\* An answer of which no read has missed a row leaves out nobody who has shared a
\* party and a session with the reader throughout.
THEOREM AnswersAreComplete == Spec => []AllSharedIsShown
<1>1. TypeOK /\ CompleteInv /\ [Next]_vars => TypeOK' /\ CompleteInv'
  BY NextTypeOK, NextComplete
<1>2. Init => TypeOK /\ CompleteInv
  BY InitTypeOK, InitComplete
<1>3. CompleteInv => AllSharedIsShown
  BY DEF CompleteInv, NothingLost, RefusedRightly, Wanted, OnItsWay, IsShown, AllSharedIsShown
<1> QED
  BY <1>1, <1>2, <1>3, PTL DEF Spec

=============================================================================
