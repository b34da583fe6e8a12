---------------------------- MODULE MCAnalytics ----------------------------
(***************************************************************************)
(* The constants with which TLC checks Analytics.                          *)
(***************************************************************************)
EXTENDS Analytics

CONSTANTS s1, c1, r1

OneSession == {s1}
OneCreation == {c1}
FirstDays == {0, 1}
OneRun == {r1}

=============================================================================
