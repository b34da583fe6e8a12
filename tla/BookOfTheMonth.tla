--------------------------- MODULE BookOfTheMonth ---------------------------
(***************************************************************************)
(* The sudoku book of the month.  Whoever asks first has it put together:  *)
(* puzzles drawn from a file of seeds for each level, scrambled, and       *)
(* stored under the id of the month; on the 27th a cron job asks for the   *)
(* book of the next month.  Months are counted with setMonth, which goes   *)
(* on into the month after the one meant when that has too few days, and a *)
(* request computes the id twice, when it reads and when it writes.        *)
(*                                                                         *)
(* The clock counts days.  A book expires at some hour of the first of a   *)
(* month: on that day a read may still find it, or not any more.  A puzzle *)
(* is named by its seed; module Scramble shows what scrambling keeps of it.*)
(***************************************************************************)
EXTENDS Integers, FiniteSets

CONSTANTS
    Levels,        \* the files of seeds
    Seeds,         \* what their rows are turned into: puzzles
    SeedsOf,       \* SeedsOf[l]: the seeds in the file of level l
    DISTRIBUTION,  \* DISTRIBUTION[l]: how many of them a book has
    Requests,      \* the requests that can be in progress at once
    LastMonth,     \* a bound on the clock: the last month it reaches
    Days,          \* Days[m]: the days of month m
    CronDay,       \* the day of the cron job: the 27th
    WeakReads,     \* TRUE: a read may find nothing where there is a book
    None

\* A request made in the last month, or a book stored then, looks two months ahead;
\* setMonth may add another.
Months == 0 .. LastMonth + 3

ASSUME SomeMonths == LastMonth \in Nat
ASSUME MonthsHaveDays == Days \in [Months -> Nat]
ASSUME CronDayIsEarly == CronDay \in Nat \ {0} /\ \A m \in Months : CronDay < Days[m]
ASSUME MonthsAreAlike == \A m, n \in Months : Days[m] <= 2 * Days[n]
ASSUME FilesHaveSeeds ==
    /\ SeedsOf \in [Levels -> SUBSET Seeds]
    /\ DISTRIBUTION \in [Levels -> Nat]
    /\ \A l \in Levels : IsFiniteSet(SeedsOf[l]) /\ DISTRIBUTION[l] <= Cardinality(SeedsOf[l])
ASSUME WeakReadsIsBoolean == WeakReads \in BOOLEAN

VARIABLES
    month, day,    \* the time
    row,           \* row[m]: the book of month m
    req,           \* req[r]: what request r has looked for and not found
    prepared,      \* the months whose book the cron job has been answered with
    skipped        \* the months whose book was stored two months ahead

clock == <<month, day>>
vars == <<clock, row, req, prepared, skipped>>

\* The puzzles of a book, and the month on whose first day it expires.
SudokuBook == [puzzles : [Levels -> SUBSET Seeds], expires : Months]

\* A request that is generating: whether for the next month, whether it is the
\* cron job's, and whether midnight has passed since it began.
Generating == [next : BOOLEAN, cron : BOOLEAN, late : BOOLEAN]

ASSUME NoneIsNoBook == None \notin SudokuBook
ASSUME NoneIsNoRequest == None \notin Generating

Init ==
    /\ month = 0
    /\ day = 1
    /\ row = [m \in Months |-> None]
    /\ req = [r \in Requests |-> None]
    /\ prepared = {}
    /\ skipped = {}

-----------------------------------------------------------------------------
\* now.setMonth(now.getMonth() + n): a day that the month does not have is counted
\* on into the month after it.
SetMonth(n) == IF day <= Days[month + n] THEN month + n ELSE month + n + 1

\* sudokuBookOfTheMonthId: the month a book is for, at the time of the call.
IdMonth(next) == IF next THEN SetMonth(1) ELSE month

\* Mutant: a book is kept for a month, whatever month it is for.
ExpiresInAMonth(next) == SetMonth(1)

\* Mutant: the months a book is kept are counted from its month, not from now.
ExpiresAfterItsMonth(next) == IdMonth(next) + (IF next THEN 2 ELSE 1)

\* The month on whose first day what is stored now expires: setDate(1) sets the day
\* in the month that setMonth has come to.
Expires(next) == SetMonth(IF next THEN 2 ELSE 1)

MayBeLive(book) ==
    /\ book # None
    /\ month < book.expires \/ (month = book.expires /\ day = 1)
MayBeExpired(book) == book # None => month >= book.expires

Look(r, next, cron) ==
    /\ cron => next /\ day = CronDay
    /\ req[r] = None
    /\ req' = [req EXCEPT ![r] = [next |-> next, cron |-> cron, late |-> FALSE]]
    /\ UNCHANGED <<clock, row, prepared, skipped>>

\* findSudokuBookOfTheMonth finds nothing, or only a book that has expired.
FindNothing(r, next, cron) ==
    /\ MayBeExpired(row[IdMonth(next)])
    /\ Look(r, next, cron)

\* The row is not on the replica yet, or every retry of the read has failed.
ReadFails(r, next, cron) ==
    /\ WeakReads
    /\ Look(r, next, cron)

\* A request that finds a live book is answered with it at once; of these answers
\* only the cron job's are followed.
CronFindsBook ==
    /\ day = CronDay
    /\ MayBeLive(row[IdMonth(TRUE)])
    /\ prepared' = prepared \cup {IdMonth(TRUE)}
    /\ UNCHANGED <<clock, row, req, skipped>>

-----------------------------------------------------------------------------
\* Mutant: an index may be drawn again, and the puzzle is then twice in the book.
selectWithRepeats(seeds, count) ==
    {s \in SUBSET seeds : s # {} /\ Cardinality(s) <= count}

\* selectRandomPuzzles: all there are, or as many different ones as asked for.
selectRandomPuzzles(seeds, count) ==
    IF count >= Cardinality(seeds) THEN {seeds}
    ELSE {s \in SUBSET seeds : Cardinality(s) = count}

\* readSeedFile: all the puzzles of a file, or none of a file that is not there, has no
\* rows, or has not all of the columns.
readSeedFile(l) == {SeedsOf[l], {}}

\* generateSudokuSelection: a file that cannot be read is logged and passed over.
generateSudokuSelection ==
    {p \in [Levels -> SUBSET Seeds] :
       \A l \in Levels : \E seeds \in readSeedFile(l) :
         p[l] \in IF seeds = {} THEN {{}} ELSE selectRandomPuzzles(seeds, DISTRIBUTION[l])}

\* Mutant: isNextMonth is not handed on to the write.
InsertForThisMonth(r, puzzles) ==
    /\ req[r] # None
    /\ row' = [row EXCEPT ![month] = [puzzles |-> puzzles, expires |-> Expires(FALSE)]]
    /\ req' = [req EXCEPT ![r] = None]
    /\ prepared' = IF req[r].cron THEN prepared \cup {IdMonth(TRUE)} ELSE prepared
    /\ UNCHANGED <<clock, skipped>>

\* insertSudokuBookOfTheMonth: the id is that of the month of the write.
InsertBook(r, puzzles) ==
    LET m == IdMonth(req[r].next)
    IN  /\ req[r] # None
        /\ row' = [row EXCEPT ![m] =
                     [puzzles |-> puzzles, expires |-> Expires(req[r].next)]]
        /\ req' = [req EXCEPT ![r] = None]
        /\ prepared' = IF req[r].cron THEN prepared \cup {m} ELSE prepared
        /\ skipped' = IF m = month + 2 THEN skipped \cup {m} ELSE skipped
        /\ UNCHANGED clock

\* The generation or the write fails, or the Lambda ends.
Abort(r) ==
    /\ req[r] # None
    /\ req' = [req EXCEPT ![r] = None]
    /\ UNCHANGED <<clock, row, prepared, skipped>>

-----------------------------------------------------------------------------
\* Midnight.  A request lives for seconds: it sees one at most.
Tick ==
    /\ \A r \in Requests : req[r] # None => ~req[r].late
    /\ IF day < Days[month] THEN day' = day + 1 /\ UNCHANGED month
                            ELSE day' = 1 /\ month < LastMonth /\ month' = month + 1
    /\ req' = [r \in Requests |-> IF req[r] = None THEN None ELSE [req[r] EXCEPT !.late = TRUE]]
    /\ UNCHANGED <<row, prepared, skipped>>

\* DynamoDB drops a row some time after it has expired.
Drop(m) ==
    /\ row[m] # None
    /\ MayBeExpired(row[m])
    /\ row' = [row EXCEPT ![m] = None]
    /\ UNCHANGED <<clock, req, prepared, skipped>>

bookOfTheMonth(r) ==
    \/ \E next, cron \in BOOLEAN : FindNothing(r, next, cron) \/ ReadFails(r, next, cron)
    \/ \E puzzles \in generateSudokuSelection : InsertBook(r, puzzles)
    \/ Abort(r)

Next ==
    \/ \E r \in Requests : bookOfTheMonth(r)
    \/ CronFindsBook
    \/ Tick
    \/ \E m \in Months : Drop(m)

Spec == Init /\ [][Next]_vars

-----------------------------------------------------------------------------
(***************************************************************************)
(* Properties.                                                             *)
(***************************************************************************)

\* Every variable stays within its type.
TypeOK ==
    /\ month \in 0 .. LastMonth
    /\ day \in 1 .. Days[month]
    /\ row \in [Months -> SudokuBook \cup {None}]
    /\ req \in [Requests -> Generating \cup {None}]
    /\ prepared \subseteq Months
    /\ skipped \subseteq Months

\* A book does not expire before the month it is for is over, whenever it was stored
\* and whichever lengths the months have: except a book that was stored two months
\* ahead, which happens when the next month is asked for on a day it does not have.
\* Such a book may expire as its month begins.
LivesItsMonth ==
    \A m \in Months : row[m] # None => row[m].expires > m \/ m \in skipped

\* What the cron job is for: after it has been answered on the 27th, the book of the
\* next month is there until that month is over.  Only a book stored two months
\* ahead, before the 27th of the month between, can have been taken for it.
ReadyForTheMonth ==
    \A m \in prepared : month <= m => (row[m] # None /\ row[m].expires > m) \/ m \in skipped

\* A level is in a book with its whole share of different puzzles, or, where its
\* file could not be read, not at all.
BooksAreWhole ==
    \A m \in Months : row[m] # None =>
        \A l \in Levels : Cardinality(row[m].puzzles[l]) \in {0, DISTRIBUTION[l]}

=============================================================================
