---------------------------- MODULE MCPartyApi ----------------------------
(***************************************************************************)
(* The constants with which TLC checks PartyApi.                           *)
(***************************************************************************)
EXTENDS PartyApi, TLC

CONSTANTS u1, u2, u3, p1, i1, r1, r2

TwoUsers == {u1, u2}
ThreeUsers == {u1, u2, u3}
OneParty == {p1}
OneInvite == {i1}
TwoRequests == {r1, r2}

\* No size given, and sizes that leave somebody out.
NoSizeGiven == {0}
OneOrNotGiven == {0, 1}
TwoSeats == {2}
NobodyAdmin == {}

OneMonth == {"ONE_MONTH"}

\* With no admins, users too differ in nothing but their names.
AllAlike == Permutations(Users) \cup Permutations(Requests)

=============================================================================
