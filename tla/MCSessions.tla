----------------------------- MODULE MCSessions -----------------------------
(***************************************************************************)
(* The constants with which TLC checks Sessions.                           *)
(***************************************************************************)
EXTENDS Sessions

CONSTANTS u1, u2, p1

TwoUsers == {u1, u2}
OneParty == {p1}
AtOnce == {0}

=============================================================================
