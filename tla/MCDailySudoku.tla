--------------------------- MODULE MCDailySudoku ---------------------------
(***************************************************************************)
(* The constants with which TLC checks DailySudoku.                        *)
(***************************************************************************)
EXTENDS DailySudoku, TLC

CONSTANTS a, b, r1, r2

TwoPuzzles == {a, b}
TwoRequests == {r1, r2}

\* Puzzles and requests differ only in their names.
AllAlike == Permutations(Puzzles) \cup Permutations(Requests)

=============================================================================
