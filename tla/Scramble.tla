------------------------------ MODULE Scramble ------------------------------
(***************************************************************************)
(* The scrambling of a sudoku: eight random operations in a random order,  *)
(* each made on the puzzle and on its solution alike.  A line of the grid  *)
(* (a row or a column) is named by the pair of its band or stack and its   *)
(* place in there, so that line BoxSize * b + i of the code is <<b, i>>.   *)
(***************************************************************************)
EXTENDS Integers, Functions

CONSTANTS
    BoxSize,      \* bands, stacks, and lines of each: 3
    Digits,       \* '1' to '9'
    Blank         \* '.', a cell without a given

ASSUME BoxesHaveSize == BoxSize \in Nat \ {0}
ASSUME BlankIsNoDigit == Blank \notin Digits

Box == 0 .. BoxSize - 1
Lines == Box \X Box
Cells == Lines \X Lines       \* a row and a column
Boards == [Cells -> Digits \cup {Blank}]
FullBoards == [Cells -> Digits]

\* shuffle: any order of the elements of an array may come out.
Shuffles(S) == Bijection(S, S)

\* Line n of the grid becomes line 8 - n.
Reverse(line) == <<BoxSize - 1 - line[1], BoxSize - 1 - line[2]>>

-----------------------------------------------------------------------------
\* What an operation does: the cell that each cell is taken from, and the new
\* name of each digit.
Transformation == [from : [Cells -> Cells], digit : [Digits -> Digits]]

Named == [d \in Digits |-> d]
Moved(from) == [from |-> from, digit |-> Named]
Same == Moved([c \in Cells |-> c])

\* First t, then u.
Then(t, u) ==
    [from  |-> [c \in Cells |-> t.from[u.from[c]]],
     digit |-> [d \in Digits |-> u.digit[t.digit[d]]]]

Scrambled(t, board) ==
    [c \in Cells |-> IF board[t.from[c]] = Blank THEN Blank
                                                 ELSE t.digit[board[t.from[c]]]]

rotate90         == Moved([c \in Cells |-> <<Reverse(c[2]), c[1]>>])
mirrorHorizontal == Moved([c \in Cells |-> <<c[1], Reverse(c[2])>>])
mirrorVertical   == Moved([c \in Cells |-> <<Reverse(c[1]), c[2]>>])
transpose        == Moved([c \in Cells |-> <<c[2], c[1]>>])

\* Band b is taken from band s[b]; or, of each band b, line i from line s[b][i].
SwapBands(s)   == Moved([c \in Cells |-> <<<<s[c[1][1]], c[1][2]>>, c[2]>>])
SwapStacks(s)  == Moved([c \in Cells |-> <<c[1], <<s[c[2][1]], c[2][2]>>>>])
SwapRows(s)    == Moved([c \in Cells |-> <<<<c[1][1], s[c[1][1]][c[1][2]]>>, c[2]>>])
SwapColumns(s) == Moved([c \in Cells |-> <<c[1], <<c[2][1], s[c[2][1]][c[2][2]]>>>>])
Relabel(m)     == [from |-> Same.from, digit |-> m]

-----------------------------------------------------------------------------
\* What each of the random operations may turn out to be.
randomRotation ==
    {Same, rotate90, Then(rotate90, rotate90), Then(Then(rotate90, rotate90), rotate90)}
randomMirror ==
    {Same, mirrorHorizontal, mirrorVertical, Then(mirrorHorizontal, mirrorVertical)}
randomBandSwaps           == {SwapBands(s)   : s \in Shuffles(Box)}
randomStackSwaps          == {SwapStacks(s)  : s \in Shuffles(Box)}
randomRowSwapsInBands     == {SwapRows(s)    : s \in [Box -> Shuffles(Box)]}
randomColumnSwapsInStacks == {SwapColumns(s) : s \in [Box -> Shuffles(Box)]}
randomDigitRelabeling     == {Relabel(m)     : m \in Shuffles(Digits)}
randomTranspose           == {Same, transpose}

operations ==
    <<randomRotation, randomMirror, randomBandSwaps, randomStackSwaps,
      randomRowSwapsInBands, randomColumnSwapsInStacks, randomDigitRelabeling,
      randomTranspose>>

\* scramble: all the operations, one drawn of each, in any order.
Draws(t) == \A i \in 1 .. 8 : t[i] \in operations[i]
scramble(t, order) ==
    Then(Then(Then(Then(Then(Then(Then(t[order[1]], t[order[2]]), t[order[3]]),
         t[order[4]]), t[order[5]]), t[order[6]]), t[order[7]]), t[order[8]])

-----------------------------------------------------------------------------
(***************************************************************************)
(* What a scrambled sudoku is to be, independently of how it is made.      *)
(***************************************************************************)

\* Two cells that must not hold the same digit.
Peers(c, d) ==
    /\ c # d
    /\ \/ c[1] = d[1]
       \/ c[2] = d[2]
       \/ c[1][1] = d[1][1] /\ c[2][1] = d[2][1]

Solves(board, puzzle) ==
    /\ board \in FullBoards
    /\ \A c, d \in Cells : Peers(c, d) => board[c] # board[d]
    /\ \A c \in Cells : puzzle[c] # Blank => board[c] = puzzle[c]

\* A puzzle and its solution: there is that one and no other.
Right(puzzle, solution) ==
    /\ Solves(solution, puzzle)
    /\ \A board \in FullBoards : Solves(board, puzzle) => board = solution

\* Cells and digits change places, and peers stay peers.
KeepsStructure(t) ==
    /\ t.from \in Bijection(Cells, Cells)
    /\ t.digit \in Bijection(Digits, Digits)
    /\ \A c, d \in Cells : Peers(c, d) <=> Peers(t.from[c], t.from[d])

\* "Scramble a Sudoku puzzle while preserving its logical structure": each of the
\* operations, whatever it draws, leaves peers peers; that then every scrambled
\* puzzle has one solution, the scrambled one, is proved from it.
ScramblingKeepsStructure ==
    \A i \in 1 .. 8 : \A t \in operations[i] : KeepsStructure(t)

=============================================================================
