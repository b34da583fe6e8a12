------------------------- MODULE MCAccountDeletion -------------------------
(***************************************************************************)
(* The constants with which TLC checks AccountDeletion.                    *)
(***************************************************************************)
EXTENDS AccountDeletion

CONSTANTS u1, u2, p1, i1

TwoUsers == {u1, u2}
OneParty == {p1}
OneInvite == {i1}
ByTheFirst == [p \in Parties |-> u1]
ToTheParty == [i \in Invites |-> p1]

=============================================================================
