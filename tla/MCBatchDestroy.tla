--------------------------- MODULE MCBatchDestroy ---------------------------
(***************************************************************************)
(* The constants with which TLC checks BatchDestroy.                       *)
(***************************************************************************)
EXTENDS BatchDestroy

CONSTANTS k1, k2, k3

ThreeRows == {k1, k2, k3}

=============================================================================
