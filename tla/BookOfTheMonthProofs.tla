------------------------ MODULE BookOfTheMonthProofs ------------------------
(***************************************************************************)
(* That books live their month, are there when the cron job has asked for  *)
(* them and are whole, for months of any lengths, any files of seeds and   *)
(* any number of requests; and that a scrambled sudoku has one solution,   *)
(* the scrambled one, for boxes of any size.                               *)
(***************************************************************************)
EXTENDS BookOfTheMonth, Scramble, FiniteSetTheorems, TLAPS

Inv == TypeOK /\ LivesItsMonth /\ ReadyForTheMonth /\ BooksAreWhole

-----------------------------------------------------------------------------
\* setMonth comes to the month meant or to the one after it.
LEMMA SetMonthType ==
    ASSUME TypeOK, NEW n \in 0 .. 2
    PROVE  SetMonth(n) \in Months /\ SetMonth(n) \in {month + n, month + n + 1}
  BY SomeMonths DEF TypeOK, SetMonth, Months

\* What a request stores is for a month within bounds, and does not expire before
\* that month is over, unless it is two months ahead.
LEMMA StoredLives ==
    ASSUME TypeOK, NEW next \in BOOLEAN
    PROVE  /\ IdMonth(next) \in Months
           /\ Expires(next) \in Months
           /\ Expires(next) > IdMonth(next) \/ IdMonth(next) = month + 2
<1>1. month \in Nat
  BY SomeMonths DEF TypeOK
<1>2. /\ SetMonth(1) \in Months /\ SetMonth(1) \in {month + 1, month + 2}
      /\ SetMonth(2) \in Months /\ SetMonth(2) \in {month + 2, month + 3}
  BY <1>1, SetMonthType
<1>3. month \in Months
  BY SomeMonths DEF TypeOK, Months
<1>4. CASE next
  BY <1>1, <1>2, <1>4 DEF IdMonth, Expires
<1>5. CASE ~next
  BY <1>1, <1>2, <1>3, <1>5 DEF IdMonth, Expires
<1> QED BY <1>4, <1>5

\* A selection has of each level its share, or nothing.
LEMMA SelectionsAreWhole ==
    ASSUME NEW puzzles \in generateSudokuSelection, NEW l \in Levels
    PROVE  Cardinality(puzzles[l]) \in {0, DISTRIBUTION[l]}
<1>1. IsFiniteSet(SeedsOf[l]) /\ DISTRIBUTION[l] \in Nat
      /\ DISTRIBUTION[l] <= Cardinality(SeedsOf[l]) /\ Cardinality(SeedsOf[l]) \in Nat
  BY FilesHaveSeeds, FS_CardinalityType
<1>2. Cardinality({}) = 0
  BY FS_EmptySet
<1>3. ASSUME NEW s \in selectRandomPuzzles(SeedsOf[l], DISTRIBUTION[l])
      PROVE  Cardinality(s) = DISTRIBUTION[l]
  BY <1>1 DEF selectRandomPuzzles
<1>4. puzzles[l] = {} \/ puzzles[l] \in selectRandomPuzzles(SeedsOf[l], DISTRIBUTION[l])
  BY DEF generateSudokuSelection, readSeedFile
<1> QED BY <1>2, <1>3, <1>4

-----------------------------------------------------------------------------
LEMMA InitInv == Init => Inv
<1> SUFFICES ASSUME Init PROVE Inv
  OBVIOUS
<1>1. 0 \in Months /\ Days[0] \in Nat /\ Days[0] > 1
  BY SomeMonths, MonthsHaveDays, CronDayIsEarly DEF Months
<1>2. TypeOK
  BY <1>1, SomeMonths DEF Init, TypeOK
<1> QED BY <1>2 DEF Init, Inv, LivesItsMonth, ReadyForTheMonth, BooksAreWhole

\* A request that begins, or ends without storing anything, leaves the books alone.
LEMMA RequestInv ==
    ASSUME Inv, req' \in [Requests -> Generating \cup {None}],
           UNCHANGED <<clock, row, prepared, skipped>>
    PROVE  Inv'
  BY DEF Inv, TypeOK, LivesItsMonth, ReadyForTheMonth, BooksAreWhole, clock

LEMMA LookInv ==
    ASSUME Inv, NEW r \in Requests, NEW next \in BOOLEAN, NEW cron \in BOOLEAN,
           Look(r, next, cron)
    PROVE  Inv'
<1>1. [next |-> next, cron |-> cron, late |-> FALSE] \in Generating
  BY DEF Generating
<1>2. req' \in [Requests -> Generating \cup {None}]
  BY <1>1 DEF Look, Inv, TypeOK
<1> QED BY <1>2, RequestInv DEF Look

LEMMA InsertInv ==
    ASSUME Inv, NEW r \in Requests, NEW puzzles \in generateSudokuSelection,
           InsertBook(r, puzzles)
    PROVE  Inv'
<1> DEFINE m == IdMonth(req[r].next)
           new == [puzzles |-> puzzles, expires |-> Expires(req[r].next)]
<1>1. TypeOK /\ LivesItsMonth /\ ReadyForTheMonth /\ BooksAreWhole
  BY DEF Inv
<1>2. req[r] \in Generating /\ req[r].next \in BOOLEAN
  BY <1>1 DEF InsertBook, TypeOK, Generating
<1>3. /\ m \in Months /\ Expires(req[r].next) \in Months
      /\ Expires(req[r].next) > m \/ m = month + 2
  BY <1>1, <1>2, StoredLives
<1>4. new \in SudokuBook /\ new # None
  BY <1>3, NoneIsNoBook DEF SudokuBook, generateSudokuSelection
<1>5. /\ row' = [row EXCEPT ![m] = new]
      /\ req' = [req EXCEPT ![r] = None]
      /\ prepared' \subseteq prepared \cup {m}
      /\ skipped' = IF m = month + 2 THEN skipped \cup {m} ELSE skipped
      /\ month' = month /\ day' = day
  BY DEF InsertBook, clock
<1>6. row'[m] = new /\ \A n \in Months : n # m => row'[n] = row[n]
  BY <1>1, <1>3, <1>5 DEF TypeOK
<1>7. new.expires > m \/ m \in skipped'
  BY <1>3, <1>5
<1>8. skipped \subseteq skipped'
  BY <1>5
<1>9. TypeOK'
  BY <1>1, <1>3, <1>4, <1>5 DEF TypeOK
<1>10. LivesItsMonth'
  BY <1>1, <1>6, <1>7, <1>8 DEF LivesItsMonth
<1>11. ReadyForTheMonth'
  BY <1>1, <1>4, <1>5, <1>6, <1>7, <1>8 DEF ReadyForTheMonth, TypeOK
<1>12. BooksAreWhole'
  <2> SUFFICES ASSUME NEW n \in Months, row'[n] # None, NEW l \in Levels
               PROVE  Cardinality(row'[n].puzzles[l]) \in {0, DISTRIBUTION[l]}
    BY DEF BooksAreWhole
  <2>1. CASE n = m
    BY <1>6, <2>1, SelectionsAreWhole
  <2>2. CASE n # m
    BY <1>1, <1>6, <2>2 DEF BooksAreWhole
  <2> QED BY <2>1, <2>2
<1> QED BY <1>9, <1>10, <1>11, <1>12 DEF Inv

LEMMA CronInv == Inv /\ CronFindsBook => Inv'
<1> SUFFICES ASSUME Inv, CronFindsBook PROVE Inv'
  OBVIOUS
<1> DEFINE m == IdMonth(TRUE)
<1>1. TypeOK /\ LivesItsMonth /\ ReadyForTheMonth /\ BooksAreWhole
  BY DEF Inv
<1>2. m \in Months
  BY <1>1, StoredLives
<1>3. row[m] # None /\ (row[m].expires > m \/ m \in skipped)
  BY <1>1, <1>2 DEF CronFindsBook, MayBeLive, LivesItsMonth
<1>4. /\ prepared' = prepared \cup {m} /\ row' = row /\ req' = req /\ skipped' = skipped
      /\ month' = month /\ day' = day
  BY DEF CronFindsBook, clock
<1>5. TypeOK' /\ LivesItsMonth' /\ BooksAreWhole'
  BY <1>1, <1>2, <1>4 DEF TypeOK, LivesItsMonth, BooksAreWhole
<1>6. ReadyForTheMonth'
  BY <1>1, <1>3, <1>4 DEF ReadyForTheMonth
<1> QED BY <1>5, <1>6 DEF Inv

LEMMA TickInv == Inv /\ Tick => Inv'
<1> SUFFICES ASSUME Inv, Tick PROVE Inv'
  OBVIOUS
<1>1. TypeOK /\ LivesItsMonth /\ ReadyForTheMonth /\ BooksAreWhole
  BY DEF Inv
<1>2. month \in Months /\ month + 1 \in Months /\ Days[month] \in Nat /\ Days[month + 1] \in Nat
      /\ Days[month + 1] > 1
  BY <1>1, SomeMonths, MonthsHaveDays, CronDayIsEarly DEF TypeOK, Months
<1>3. ASSUME NEW q \in Requests PROVE req'[q] \in Generating \cup {None}
  BY <1>1 DEF Tick, TypeOK, Generating
<1>4. req' \in [Requests -> Generating \cup {None}]
  BY <1>3 DEF Tick
<1>5. month' \in 0 .. LastMonth /\ day' \in 1 .. Days[month'] /\ month' >= month
  BY <1>1, <1>2, SomeMonths DEF Tick, TypeOK
<1>6. TypeOK'
  BY <1>1, <1>4, <1>5 DEF Tick, TypeOK
<1>7. LivesItsMonth' /\ BooksAreWhole'
  BY <1>1 DEF Tick, LivesItsMonth, BooksAreWhole
<1>8. ReadyForTheMonth'
  BY <1>1, <1>5, SomeMonths DEF Tick, ReadyForTheMonth, TypeOK, Months
<1> QED BY <1>6, <1>7, <1>8 DEF Inv

LEMMA DropInv == ASSUME Inv, NEW m \in Months, Drop(m) PROVE Inv'
<1>1. TypeOK /\ LivesItsMonth /\ ReadyForTheMonth /\ BooksAreWhole
  BY DEF Inv
<1>2. row[m] \in SudokuBook /\ row[m].expires \in Int /\ month \in Int /\ month >= row[m].expires
  BY <1>1, SomeMonths DEF Drop, MayBeExpired, TypeOK, SudokuBook, Months
<1>3. row' = [row EXCEPT ![m] = None] /\ UNCHANGED <<clock, req, prepared, skipped>>
  BY DEF Drop
<1>4. TypeOK' /\ LivesItsMonth' /\ BooksAreWhole'
  BY <1>1, <1>3 DEF TypeOK, LivesItsMonth, BooksAreWhole, clock
<1>5. ReadyForTheMonth'
  BY <1>1, <1>2, <1>3, SomeMonths DEF ReadyForTheMonth, TypeOK, clock, Months
<1> QED BY <1>4, <1>5 DEF Inv

LEMMA StepInv == Inv /\ [Next]_vars => Inv'
<1> SUFFICES ASSUME Inv, [Next]_vars PROVE Inv'
  OBVIOUS
<1>1. ASSUME NEW r \in Requests, bookOfTheMonth(r) PROVE Inv'
  <2>1. ASSUME NEW next \in BOOLEAN, NEW cron \in BOOLEAN,
               FindNothing(r, next, cron) \/ ReadFails(r, next, cron)
        PROVE  Inv'
    BY <2>1, LookInv DEF FindNothing, ReadFails
  <2>2. ASSUME NEW puzzles \in generateSudokuSelection, InsertBook(r, puzzles) PROVE Inv'
    BY <2>2, InsertInv
  <2>3. CASE Abort(r)
    <3>1. req' \in [Requests -> Generating \cup {None}]
      BY <2>3 DEF Abort, Inv, TypeOK
    <3> QED BY <2>3, <3>1, RequestInv DEF Abort
  <2> QED BY <1>1, <2>1, <2>2, <2>3 DEF bookOfTheMonth
<1>2. CASE CronFindsBook
  BY <1>2, CronInv
<1>3. CASE Tick
  BY <1>3, TickInv
<1>4. ASSUME NEW m \in Months, Drop(m) PROVE Inv'
  BY <1>4, DropInv
<1>5. CASE UNCHANGED vars
  <2>1. req' \in [Requests -> Generating \cup {None}]
    BY <1>5 DEF Inv, TypeOK, vars
  <2> QED BY <1>5, <2>1, RequestInv DEF vars
<1> QED BY <1>1, <1>2, <1>3, <1>4, <1>5 DEF Next

LEMMA InvHolds == Spec => []Inv
  BY InitInv, StepInv, PTL DEF Spec

\* The variables keep their types.
THEOREM TypeCorrect == Spec => []TypeOK
<1>1. Inv => TypeOK
  BY DEF Inv
<1> QED BY <1>1, InvHolds, PTL

\* No book expires before its month is over, but those stored two months ahead.
THEOREM BooksLiveTheirMonth == Spec => []LivesItsMonth
<1>1. Inv => LivesItsMonth
  BY DEF Inv
<1> QED BY <1>1, InvHolds, PTL

\* After the cron job's day the book of the next month is there for all of it.
THEOREM BooksAreReady == Spec => []ReadyForTheMonth
<1>1. Inv => ReadyForTheMonth
  BY DEF Inv
<1> QED BY <1>1, InvHolds, PTL

\* A level is in a book with its whole share or not at all.
THEOREM BooksStayWhole == Spec => []BooksAreWhole
<1>1. Inv => BooksAreWhole
  BY DEF Inv
<1> QED BY <1>1, InvHolds, PTL

-----------------------------------------------------------------------------
(***************************************************************************)
(* Scrambling.  An operation that moves rows among rows and columns among  *)
(* columns keeps the structure when it moves bands and stacks as a whole.  *)
(***************************************************************************)
LinesKept(R) ==
    /\ R \in Bijection(Lines, Lines)
    /\ \A k, l \in Lines : k[1] = l[1] <=> R[k][1] = R[l][1]

\* The parts of a cell.
LEMMA CellParts ==
    ASSUME NEW c \in Cells
    PROVE  /\ c[1] \in Lines /\ c[2] \in Lines /\ c = <<c[1], c[2]>>
           /\ c[1][1] \in Box /\ c[1][2] \in Box /\ c[1] = <<c[1][1], c[1][2]>>
           /\ c[2][1] \in Box /\ c[2][2] \in Box /\ c[2] = <<c[2][1], c[2][2]>>
  BY DEF Cells, Lines

LEMMA LineParts ==
    ASSUME NEW l \in Lines
    PROVE  l[1] \in Box /\ l[2] \in Box /\ l = <<l[1], l[2]>>
  BY DEF Lines

LEMMA NamedKept == Named \in Bijection(Digits, Digits)
  BY DEF Named, Bijection, Injection, Surjection, IsInjective

LEMMA LinesMoved ==
    ASSUME NEW R, NEW C, LinesKept(R), LinesKept(C)
    PROVE  KeepsStructure(Moved([c \in Cells |-> <<R[c[1]], C[c[2]]>>]))
<1> DEFINE from == [c \in Cells |-> <<R[c[1]], C[c[2]]>>]
<1>1. /\ R \in [Lines -> Lines] /\ C \in [Lines -> Lines]
      /\ \A k, l \in Lines : (R[k] = R[l] => k = l) /\ (C[k] = C[l] => k = l)
      /\ \A k \in Lines : (\E l \in Lines : R[l] = k) /\ (\E l \in Lines : C[l] = k)
  BY DEF LinesKept, Bijection, Injection, Surjection, IsInjective
<1>2. from \in [Cells -> Cells]
  <2> SUFFICES ASSUME NEW c \in Cells PROVE <<R[c[1]], C[c[2]]>> \in Cells
    OBVIOUS
  <2> QED BY <1>1, CellParts DEF Cells
<1>3. ASSUME NEW c \in Cells, NEW d \in Cells, from[c] = from[d] PROVE c = d
  <2>1. R[c[1]] = R[d[1]] /\ C[c[2]] = C[d[2]]
    BY <1>3
  <2>2. c[1] = d[1] /\ c[2] = d[2]
    BY <2>1, <1>1, CellParts
  <2> QED BY <2>2, CellParts
<1>4. ASSUME NEW c \in Cells PROVE \E d \in Cells : from[d] = c
  <2>1. PICK k \in Lines : R[k] = c[1]
    BY <1>1, CellParts
  <2>2. PICK l \in Lines : C[l] = c[2]
    BY <1>1, CellParts
  <2>3. <<k, l>> \in Cells
    BY DEF Cells
  <2>4. from[<<k, l>>] = c
    BY <2>1, <2>2, <2>3, CellParts
  <2> QED BY <2>3, <2>4
<1>5. from \in Bijection(Cells, Cells)
  BY <1>2, <1>3, <1>4 DEF Bijection, Injection, Surjection, IsInjective
<1>6. ASSUME NEW c \in Cells, NEW d \in Cells PROVE Peers(c, d) <=> Peers(from[c], from[d])
  <2>1. from[c][1] = R[c[1]] /\ from[c][2] = C[c[2]] /\ from[d][1] = R[d[1]] /\ from[d][2] = C[d[2]]
    OBVIOUS
  <2>2. c = d <=> from[c] = from[d]
    BY <1>3
  <2>3. /\ c[1] = d[1] <=> R[c[1]] = R[d[1]]
        /\ c[2] = d[2] <=> C[c[2]] = C[d[2]]
    BY <1>1, CellParts
  <2>4. /\ c[1][1] = d[1][1] <=> R[c[1]][1] = R[d[1]][1]
        /\ c[2][1] = d[2][1] <=> C[c[2]][1] = C[d[2]][1]
    BY CellParts DEF LinesKept
  <2> QED BY <2>1, <2>2, <2>3, <2>4 DEF Peers
<1> HIDE DEF from
<1>7. Moved(from).from = from /\ Moved(from).digit = Named
  BY DEF Moved
<1>8. KeepsStructure(Moved(from))
  BY <1>5, <1>6, <1>7, NamedKept DEF KeepsStructure
<1> QED BY <1>8 DEF from

LEMMA ThenKeeps ==
    ASSUME NEW t, NEW u, KeepsStructure(t), KeepsStructure(u)
    PROVE  KeepsStructure(Then(t, u))
<1> DEFINE from == [c \in Cells |-> t.from[u.from[c]]]
           digit == [d \in Digits |-> u.digit[t.digit[d]]]
<1>1. from \in Bijection(Cells, Cells)
  BY DEF KeepsStructure, Bijection, Injection, Surjection, IsInjective
<1>2. digit \in Bijection(Digits, Digits)
  BY DEF KeepsStructure, Bijection, Injection, Surjection, IsInjective
<1>3. ASSUME NEW c \in Cells, NEW d \in Cells PROVE Peers(c, d) <=> Peers(from[c], from[d])
  BY DEF KeepsStructure, Bijection, Injection
<1> HIDE DEF from, digit
<1>4. Then(t, u).from = from /\ Then(t, u).digit = digit
  BY DEF Then, from, digit
<1> QED BY <1>1, <1>2, <1>3, <1>4 DEF KeepsStructure

-----------------------------------------------------------------------------
LEMMA IdentityOfLines == LinesKept([l \in Lines |-> l])
  BY DEF LinesKept, Bijection, Injection, Surjection, IsInjective

LEMMA ReverseOfLines == LinesKept([l \in Lines |-> Reverse(l)])
<1> DEFINE R == [l \in Lines |-> Reverse(l)]
<1>1. ASSUME NEW l \in Lines
      PROVE  /\ Reverse(l) \in Lines /\ Reverse(Reverse(l)) = l
             /\ l[1] \in Int /\ Reverse(l)[1] = BoxSize - 1 - l[1]
  BY BoxesHaveSize DEF Lines, Box, Reverse
<1>2. R \in [Lines -> Lines]
  BY <1>1
<1>3. ASSUME NEW k \in Lines, NEW l \in Lines, R[k] = R[l] PROVE k = l
  BY <1>1, <1>3
<1>4. ASSUME NEW k \in Lines PROVE \E l \in Lines : R[l] = k
  BY <1>1
<1>5. ASSUME NEW k \in Lines, NEW l \in Lines PROVE k[1] = l[1] <=> R[k][1] = R[l][1]
  BY <1>1, BoxesHaveSize
<1> QED BY <1>2, <1>3, <1>4, <1>5 DEF LinesKept, Bijection, Injection, Surjection, IsInjective

LEMMA BandsOfLines ==
    ASSUME NEW s \in Shuffles(Box)
    PROVE  LinesKept([l \in Lines |-> <<s[l[1]], l[2]>>])
<1> DEFINE R == [l \in Lines |-> <<s[l[1]], l[2]>>]
<1>1. /\ s \in [Box -> Box]
      /\ \A i, j \in Box : s[i] = s[j] => i = j
      /\ \A i \in Box : \E j \in Box : s[j] = i
  BY DEF Shuffles, Bijection, Injection, Surjection, IsInjective
<1>2. R \in [Lines -> Lines]
  BY <1>1 DEF Lines
<1>3. ASSUME NEW k \in Lines, NEW l \in Lines, R[k] = R[l] PROVE k = l
  <2>1. s[k[1]] = s[l[1]] /\ k[2] = l[2]
    BY <1>3
  <2>2. k[1] = l[1]
    BY <1>1, <2>1, LineParts
  <2> QED BY <2>1, <2>2, LineParts
<1>4. ASSUME NEW k \in Lines PROVE \E l \in Lines : R[l] = k
  <2>1. PICK j \in Box : s[j] = k[1]
    BY <1>1, LineParts
  <2>2. <<j, k[2]>> \in Lines
    BY LineParts DEF Lines
  <2>3. R[<<j, k[2]>>] = k
    BY <2>1, <2>2, LineParts
  <2> QED BY <2>2, <2>3
<1>5. ASSUME NEW k \in Lines, NEW l \in Lines PROVE k[1] = l[1] <=> R[k][1] = R[l][1]
  BY <1>1, LineParts
<1> QED BY <1>2, <1>3, <1>4, <1>5 DEF LinesKept, Bijection, Injection, Surjection, IsInjective

LEMMA LinesOfBands ==
    ASSUME NEW s \in [Box -> Shuffles(Box)]
    PROVE  LinesKept([l \in Lines |-> <<l[1], s[l[1]][l[2]]>>])
<1> DEFINE R == [l \in Lines |-> <<l[1], s[l[1]][l[2]]>>]
<1>1. ASSUME NEW b \in Box
      PROVE  /\ s[b] \in [Box -> Box]
             /\ \A i, j \in Box : s[b][i] = s[b][j] => i = j
             /\ \A i \in Box : \E j \in Box : s[b][j] = i
  BY s[b] \in Shuffles(Box) DEF Shuffles, Bijection, Injection, Surjection, IsInjective
<1>2. R \in [Lines -> Lines]
  <2> SUFFICES ASSUME NEW l \in Lines PROVE <<l[1], s[l[1]][l[2]]>> \in Lines
    OBVIOUS
  <2>1. s[l[1]][l[2]] \in Box
    BY <1>1, LineParts
  <2> QED BY <2>1, LineParts DEF Lines
<1>3. ASSUME NEW k \in Lines, NEW l \in Lines, R[k] = R[l] PROVE k = l
  <2>1. k[1] = l[1] /\ s[k[1]][k[2]] = s[l[1]][l[2]]
    BY <1>3
  <2>2. k[2] = l[2]
    BY <1>1, <2>1, LineParts
  <2> QED BY <2>1, <2>2, LineParts
<1>4. ASSUME NEW k \in Lines PROVE \E l \in Lines : R[l] = k
  <2>1. PICK j \in Box : s[k[1]][j] = k[2]
    BY <1>1, LineParts
  <2>2. <<k[1], j>> \in Lines
    BY LineParts DEF Lines
  <2>3. R[<<k[1], j>>] = k
    BY <2>1, <2>2, LineParts
  <2> QED BY <2>2, <2>3
<1>5. ASSUME NEW k \in Lines, NEW l \in Lines PROVE k[1] = l[1] <=> R[k][1] = R[l][1]
  BY LineParts
<1> QED BY <1>2, <1>3, <1>4, <1>5 DEF LinesKept, Bijection, Injection, Surjection, IsInjective

-----------------------------------------------------------------------------
\* An operation that moves nothing, or only rows, or only columns.
LEMMA SameKeeps == KeepsStructure(Same)
<1> DEFINE I == [l \in Lines |-> l]
<1>1. [c \in Cells |-> <<I[c[1]], I[c[2]]>>] = [c \in Cells |-> c]
  BY CellParts
<1>2. KeepsStructure(Moved([c \in Cells |-> <<I[c[1]], I[c[2]]>>]))
  BY IdentityOfLines, LinesMoved
<1> HIDE DEF I
<1> QED BY <1>1, <1>2 DEF Same

LEMMA RowsMoved ==
    ASSUME NEW from, NEW R, LinesKept(R), from = [c \in Cells |-> <<R[c[1]], c[2]>>]
    PROVE  KeepsStructure(Moved(from))
<1> DEFINE I == [l \in Lines |-> l]
<1>1. [c \in Cells |-> <<R[c[1]], I[c[2]]>>] = from
  BY CellParts
<1>2. KeepsStructure(Moved([c \in Cells |-> <<R[c[1]], I[c[2]]>>]))
  BY IdentityOfLines, LinesMoved
<1> HIDE DEF I
<1> QED BY <1>1, <1>2

LEMMA ColumnsMoved ==
    ASSUME NEW from, NEW C, LinesKept(C), from = [c \in Cells |-> <<c[1], C[c[2]]>>]
    PROVE  KeepsStructure(Moved(from))
<1> DEFINE I == [l \in Lines |-> l]
<1>1. [c \in Cells |-> <<I[c[1]], C[c[2]]>>] = from
  BY CellParts
<1>2. KeepsStructure(Moved([c \in Cells |-> <<I[c[1]], C[c[2]]>>]))
  BY IdentityOfLines, LinesMoved
<1> HIDE DEF I
<1> QED BY <1>1, <1>2

LEMMA MirrorsKeep == KeepsStructure(mirrorHorizontal) /\ KeepsStructure(mirrorVertical)
<1> DEFINE R == [l \in Lines |-> Reverse(l)]
<1>1. [c \in Cells |-> <<c[1], R[c[2]]>>] = [c \in Cells |-> <<c[1], Reverse(c[2])>>]
  BY CellParts
<1>2. [c \in Cells |-> <<R[c[1]], c[2]>>] = [c \in Cells |-> <<Reverse(c[1]), c[2]>>]
  BY CellParts
<1>3. LinesKept(R)
  BY ReverseOfLines
<1> HIDE DEF R
<1>4. KeepsStructure(mirrorHorizontal)
  BY <1>1, <1>3, ColumnsMoved DEF mirrorHorizontal
<1>5. KeepsStructure(mirrorVertical)
  BY <1>2, <1>3, RowsMoved DEF mirrorVertical
<1> QED BY <1>4, <1>5

LEMMA TransposeKeeps == KeepsStructure(transpose)
<1> DEFINE from == [c \in Cells |-> <<c[2], c[1]>>]
<1>1. ASSUME NEW c \in Cells
      PROVE  /\ from[c] \in Cells /\ from[from[c]] = c
             /\ from[c][1] = c[2] /\ from[c][2] = c[1]
  BY CellParts DEF Cells
<1>2. from \in [Cells -> Cells]
  BY <1>1
<1>3. ASSUME NEW c \in Cells, NEW d \in Cells PROVE c = d <=> from[c] = from[d]
  BY <1>1
<1>4. ASSUME NEW c \in Cells, NEW d \in Cells PROVE Peers(c, d) <=> Peers(from[c], from[d])
  BY <1>1, <1>3 DEF Peers
<1> HIDE DEF from
<1>5. from \in Bijection(Cells, Cells)
  BY <1>1, <1>2, <1>3 DEF Bijection, Injection, Surjection, IsInjective
<1>6. transpose.from = from /\ transpose.digit = Named
  BY DEF transpose, Moved, from
<1> QED BY <1>4, <1>5, <1>6, NamedKept DEF KeepsStructure

\* A quarter turn is a mirroring and a transposition.
LEMMA RotationKeeps == KeepsStructure(rotate90)
<1>1. ASSUME NEW c \in Cells PROVE <<c[1], Reverse(c[2])>> \in Cells
  BY BoxesHaveSize, CellParts DEF Cells, Lines, Box, Reverse
<1>2. Then(transpose, mirrorHorizontal).from = rotate90.from
  BY <1>1 DEF Then, transpose, mirrorHorizontal, rotate90, Moved
<1>3. Then(transpose, mirrorHorizontal).digit = rotate90.digit
  BY DEF Then, transpose, mirrorHorizontal, rotate90, Moved, Named
<1>4. KeepsStructure(Then(transpose, mirrorHorizontal))
  BY MirrorsKeep, TransposeKeeps, ThenKeeps
<1> QED BY <1>2, <1>3, <1>4 DEF KeepsStructure

LEMMA RelabelKeeps == ASSUME NEW m \in Shuffles(Digits) PROVE KeepsStructure(Relabel(m))
<1>1. Relabel(m).from = Same.from /\ Relabel(m).digit = m
  BY DEF Relabel
<1> QED BY <1>1, SameKeeps DEF KeepsStructure, Shuffles

\* Each of the eight operations, whatever it draws, leaves peers peers.
THEOREM OperationsKeepStructure == ScramblingKeepsStructure
<1>1. ASSUME NEW t \in randomRotation PROVE KeepsStructure(t)
  BY SameKeeps, RotationKeeps, ThenKeeps DEF randomRotation
<1>2. ASSUME NEW t \in randomMirror PROVE KeepsStructure(t)
  BY SameKeeps, MirrorsKeep, ThenKeeps DEF randomMirror
<1>3. ASSUME NEW t \in randomBandSwaps PROVE KeepsStructure(t)
  <2>1. PICK s \in Shuffles(Box) : t = SwapBands(s)
    BY DEF randomBandSwaps
  <2> DEFINE R == [l \in Lines |-> <<s[l[1]], l[2]>>]
  <2>2. [c \in Cells |-> <<R[c[1]], c[2]>>] = [c \in Cells |-> <<<<s[c[1][1]], c[1][2]>>, c[2]>>]
    BY CellParts
  <2>3. LinesKept(R)
    BY BandsOfLines
  <2> HIDE DEF R
  <2> QED BY <2>1, <2>2, <2>3, RowsMoved DEF SwapBands
<1>4. ASSUME NEW t \in randomStackSwaps PROVE KeepsStructure(t)
  <2>1. PICK s \in Shuffles(Box) : t = SwapStacks(s)
    BY DEF randomStackSwaps
  <2> DEFINE C == [l \in Lines |-> <<s[l[1]], l[2]>>]
  <2>2. [c \in Cells |-> <<c[1], C[c[2]]>>] = [c \in Cells |-> <<c[1], <<s[c[2][1]], c[2][2]>>>>]
    BY CellParts
  <2>3. LinesKept(C)
    BY BandsOfLines
  <2> HIDE DEF C
  <2> QED BY <2>1, <2>2, <2>3, ColumnsMoved DEF SwapStacks
<1>5. ASSUME NEW t \in randomRowSwapsInBands PROVE KeepsStructure(t)
  <2>1. PICK s \in [Box -> Shuffles(Box)] : t = SwapRows(s)
    BY DEF randomRowSwapsInBands
  <2> DEFINE R == [l \in Lines |-> <<l[1], s[l[1]][l[2]]>>]
  <2>2. [c \in Cells |-> <<R[c[1]], c[2]>>]
          = [c \in Cells |-> <<<<c[1][1], s[c[1][1]][c[1][2]]>>, c[2]>>]
    BY CellParts
  <2>3. LinesKept(R)
    BY LinesOfBands
  <2> HIDE DEF R
  <2> QED BY <2>1, <2>2, <2>3, RowsMoved DEF SwapRows
<1>6. ASSUME NEW t \in randomColumnSwapsInStacks PROVE KeepsStructure(t)
  <2>1. PICK s \in [Box -> Shuffles(Box)] : t = SwapColumns(s)
    BY DEF randomColumnSwapsInStacks
  <2> DEFINE C == [l \in Lines |-> <<l[1], s[l[1]][l[2]]>>]
  <2>2. [c \in Cells |-> <<c[1], C[c[2]]>>]
          = [c \in Cells |-> <<c[1], <<c[2][1], s[c[2][1]][c[2][2]]>>>>]
    BY CellParts
  <2>3. LinesKept(C)
    BY LinesOfBands
  <2> HIDE DEF C
  <2> QED BY <2>1, <2>2, <2>3, ColumnsMoved DEF SwapColumns
<1>7. ASSUME NEW t \in randomDigitRelabeling PROVE KeepsStructure(t)
  BY RelabelKeeps DEF randomDigitRelabeling
<1>8. ASSUME NEW t \in randomTranspose PROVE KeepsStructure(t)
  BY SameKeeps, TransposeKeeps DEF randomTranspose
<1> SUFFICES ASSUME NEW i \in 1 .. 8, NEW t \in operations[i] PROVE KeepsStructure(t)
  BY DEF ScramblingKeepsStructure
<1>9. /\ operations[1] = randomRotation /\ operations[2] = randomMirror
      /\ operations[3] = randomBandSwaps /\ operations[4] = randomStackSwaps
      /\ operations[5] = randomRowSwapsInBands /\ operations[6] = randomColumnSwapsInStacks
      /\ operations[7] = randomDigitRelabeling /\ operations[8] = randomTranspose
  BY DEF operations
<1>10. i = 1 \/ i = 2 \/ i = 3 \/ i = 4 \/ i = 5 \/ i = 6 \/ i = 7 \/ i = 8
  OBVIOUS
<1> QED BY <1>1, <1>2, <1>3, <1>4, <1>5, <1>6, <1>7, <1>8, <1>9, <1>10

\* The whole scrambling: one draw of each operation, in any order.
LEMMA ScrambleKeeps ==
    ASSUME NEW t, Draws(t), NEW order \in Shuffles(1 .. 8)
    PROVE  KeepsStructure(scramble(t, order))
<1>1. ASSUME NEW i \in 1 .. 8 PROVE KeepsStructure(t[order[i]])
  <2>1. order[i] \in 1 .. 8
    BY DEF Shuffles, Bijection, Injection
  <2> QED BY <2>1, OperationsKeepStructure DEF ScramblingKeepsStructure, Draws
<1>2. \A i \in 1 .. 8 : KeepsStructure(t[order[i]])
  BY <1>1
<1>3. KeepsStructure(Then(Then(Then(t[order[1]], t[order[2]]), t[order[3]]), t[order[4]]))
  BY <1>2, ThenKeeps
<1> DEFINE u == Then(Then(Then(t[order[1]], t[order[2]]), t[order[3]]), t[order[4]])
<1> HIDE DEF u
<1>4. KeepsStructure(Then(Then(Then(Then(u, t[order[5]]), t[order[6]]), t[order[7]]), t[order[8]]))
  BY <1>2, <1>3, ThenKeeps DEF u
<1> QED BY <1>4 DEF scramble, u

-----------------------------------------------------------------------------
\* What keeps the structure takes a sudoku with one solution to a sudoku with one
\* solution: any solution of the new puzzle, taken back, is one of the old.
LEMMA OneSolutionKept ==
    ASSUME NEW puzzle \in Boards, NEW solution \in FullBoards, Right(puzzle, solution),
           NEW t, KeepsStructure(t)
    PROVE  Right(Scrambled(t, puzzle), Scrambled(t, solution))
<1>1. /\ t.from \in [Cells -> Cells] /\ t.digit \in [Digits -> Digits]
      /\ \A c, d \in Cells : t.from[c] = t.from[d] => c = d
      /\ \A c \in Cells : \E d \in Cells : t.from[d] = c
      /\ \A d, e \in Digits : t.digit[d] = t.digit[e] => d = e
      /\ \A d \in Digits : \E e \in Digits : t.digit[e] = d
      /\ \A c, d \in Cells : Peers(c, d) <=> Peers(t.from[c], t.from[d])
  BY DEF KeepsStructure, Bijection, Injection, Surjection, IsInjective
<1>2. /\ puzzle \in [Cells -> Digits \cup {Blank}] /\ solution \in [Cells -> Digits]
      /\ \A c, d \in Cells : Peers(c, d) => solution[c] # solution[d]
      /\ \A c \in Cells : puzzle[c] # Blank => solution[c] = puzzle[c]
  BY DEF Right, Solves, Boards, FullBoards
<1> DEFINE new == Scrambled(t, solution)
<1>3. ASSUME NEW c \in Cells
      PROVE  /\ new[c] = t.digit[solution[t.from[c]]] /\ new[c] \in Digits
             /\ t.from[c] \in Cells /\ solution[t.from[c]] \in Digits
  BY <1>1, <1>2, BlankIsNoDigit DEF Scrambled
<1>4. new \in FullBoards
  <2>1. new = [c \in Cells |-> new[c]]
    BY DEF Scrambled
  <2> QED BY <1>3, <2>1 DEF FullBoards
<1>5. ASSUME NEW c \in Cells
      PROVE  /\ puzzle[t.from[c]] = Blank => Scrambled(t, puzzle)[c] = Blank
             /\ puzzle[t.from[c]] # Blank =>
                  /\ puzzle[t.from[c]] \in Digits
                  /\ Scrambled(t, puzzle)[c] = t.digit[puzzle[t.from[c]]]
                  /\ Scrambled(t, puzzle)[c] # Blank
  BY <1>1, <1>2, BlankIsNoDigit DEF Scrambled
<1>6. Solves(new, Scrambled(t, puzzle))
  <2>1. ASSUME NEW c \in Cells, NEW d \in Cells, Peers(c, d) PROVE new[c] # new[d]
    BY <1>1, <1>2, <1>3, <2>1
  <2>2. ASSUME NEW c \in Cells, Scrambled(t, puzzle)[c] # Blank
        PROVE  new[c] = Scrambled(t, puzzle)[c]
    BY <1>2, <1>3, <1>5, <2>2
  <2> QED BY <1>4, <2>1, <2>2 DEF Solves
<1>7. ASSUME NEW board \in FullBoards, Solves(board, Scrambled(t, puzzle)) PROVE board = new
  <2> DEFINE back == [c \in Cells |-> CHOOSE d \in Cells : t.from[d] = c]
             unnamed == [d \in Digits |-> CHOOSE e \in Digits : t.digit[e] = d]
             old == [c \in Cells |-> unnamed[board[back[c]]]]
  <2>1. ASSUME NEW c \in Cells PROVE back[c] \in Cells /\ t.from[back[c]] = c
    BY <1>1
  <2>2. ASSUME NEW d \in Digits PROVE unnamed[d] \in Digits /\ t.digit[unnamed[d]] = d
    BY <1>1
  <2>3. /\ board \in [Cells -> Digits]
        /\ \A c, d \in Cells : Peers(c, d) => board[c] # board[d]
        /\ \A c \in Cells : Scrambled(t, puzzle)[c] # Blank => board[c] = Scrambled(t, puzzle)[c]
    BY <1>7 DEF Solves, FullBoards
  <2> HIDE DEF back, unnamed
  <2>4. ASSUME NEW c \in Cells
        PROVE  /\ board[back[c]] \in Digits /\ old[c] \in Digits
               /\ t.digit[old[c]] = board[back[c]]
    BY <2>1, <2>2, <2>3
  <2>5. old \in FullBoards
    BY <2>4 DEF FullBoards
  <2>6. ASSUME NEW c \in Cells, NEW d \in Cells, Peers(c, d) PROVE old[c] # old[d]
    <3>1. Peers(back[c], back[d])
      BY <1>1, <2>1, <2>6
    <3> QED BY <2>1, <2>3, <2>4, <3>1
  <2>7. ASSUME NEW c \in Cells, puzzle[c] # Blank PROVE old[c] = puzzle[c]
    <3>1. /\ puzzle[c] \in Digits
          /\ Scrambled(t, puzzle)[back[c]] = t.digit[puzzle[c]]
          /\ Scrambled(t, puzzle)[back[c]] # Blank
      BY <1>5, <2>1, <2>7
    <3>2. board[back[c]] = t.digit[puzzle[c]]
      BY <2>1, <2>3, <3>1
    <3> QED BY <1>1, <2>4, <3>1, <3>2
  <2>8. old = solution
    BY <2>5, <2>6, <2>7 DEF Right, Solves
  <2>9. ASSUME NEW c \in Cells PROVE board[c] = new[c]
    <3>1. back[t.from[c]] = c
      BY <1>1, <1>3, <2>1
    <3> QED BY <1>3, <2>4, <2>8, <3>1
  <2>10. new \in [Cells -> Digits]
    BY <1>4 DEF FullBoards
  <2> HIDE DEF new
  <2> QED BY <2>3, <2>9, <2>10
<1> QED BY <1>6, <1>7 DEF Right

\* A scrambled sudoku has one solution, and it is the scrambled one, whatever the
\* operations draw and in whatever order they are made.
THEOREM ScrambledHasOneSolution ==
    ASSUME NEW puzzle \in Boards, NEW solution \in FullBoards, Right(puzzle, solution),
           NEW t, Draws(t), NEW order \in Shuffles(1 .. 8)
    PROVE  Right(Scrambled(scramble(t, order), puzzle),
                 Scrambled(scramble(t, order), solution))
  BY ScrambleKeeps, OneSolutionKept

=============================================================================
