-------------------------- MODULE MCBookOfTheMonth --------------------------
(***************************************************************************)
(* The constants with which TLC checks BookOfTheMonth, and the operations  *)
(* of Scramble on a sudoku of four by four.                                *)
(***************************************************************************)
EXTENDS BookOfTheMonth, Scramble, TLC

CONSTANTS a, b, c, easy, r1, r2, d1, d2, d3, d4

OneLevel == {easy}
ThreeSeeds == {a, b, c}
SeedsOfEasy == [l \in OneLevel |-> ThreeSeeds]
TwoOfEach == [l \in OneLevel |-> 2]
TwoRequests == {r1, r2}
FourDigits == {d1, d2, d3, d4}

\* Short months, every other one a day shorter: the last day of a long one is a day
\* that the next month does not have.
ShortMonths == [m \in Months |-> IF m % 2 = 1 THEN 3 ELSE 4]

\* The operations of the scrambling, each with all it may draw, on a grid of four
\* by four.
ASSUME ScramblingKeepsStructure

AllAlike == Permutations(Seeds) \cup Permutations(Requests)

=============================================================================
