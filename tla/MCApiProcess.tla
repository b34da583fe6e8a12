---------------------------- MODULE MCApiProcess ----------------------------
(* The constants with which TLC checks ApiProcess. *)
EXTENDS ApiProcess

CONSTANTS r1, r2

TwoRequests == {r1, r2}
OneTool == {fetch_user_data}

=============================================================================
