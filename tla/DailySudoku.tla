---------------------------- MODULE DailySudoku ----------------------------
(***************************************************************************)
(* The sudoku of the day, of one difficulty.  Whoever asks first has it    *)
(* generated and stored under the day's id, and a cron job asks for        *)
(* tomorrow's in the evening, so that nobody has to wait for it.  Nothing  *)
(* keeps two requests from generating at once, and a request computes the  *)
(* id twice, when it reads and when it writes: midnight may lie between.   *)
(*                                                                         *)
(* A day has Hours hours, and a request lives for Timeout of them at most, *)
(* much less than a day.  A row expires at an hour of a day; one that has  *)
(* expired is not read any more, also while DynamoDB still stores it.      *)
(***************************************************************************)
EXTENDS Integers

CONSTANTS
    Puzzles,      \* what qqwing can generate
    Requests,     \* the requests that can be in progress at once
    Hours,        \* the hours of a day
    Timeout,      \* the hours after which a Lambda is ended
    LastDay,      \* a bound on the clock: the last day with a sudoku
    WeakReads,    \* TRUE: a read may be stale, or find nothing as it failed
    None

ASSUME DaysHaveHours == Hours \in Nat \ {0}
ASSUME RequestsAreShort == Timeout \in Nat /\ Timeout < Hours
ASSUME SomeDays == LastDay \in Nat \ {0}
ASSUME WeakReadsIsBoolean == WeakReads \in BOOLEAN

VARIABLES
    day, hour,    \* the time
    row,          \* row[d]: the row of day d
    replica,      \* row as a lagging replica of the table serves it
    req           \* req[r]: what request r has looked for and not found

clock == <<day, hour>>
table == <<row, replica>>
vars == <<clock, table, req>>

Days == 0 .. LastDay

\* A row, with the day and the hour of its expiry.
Row == [puzzle : Puzzles, day : 0 .. LastDay + 1, hour : 0 .. Hours - 1]

\* A request that is generating: whether for tomorrow, the day it has looked for
\* and its age in hours.
Generating == [tomorrow : BOOLEAN, day : Days, age : 0 .. Timeout]

ASSUME NoneIsNoRow == None \notin Row
ASSUME NoneIsNoRequest == None \notin Generating

Init ==
    /\ day = 0
    /\ hour = 0
    /\ row = [d \in Days |-> None]
    /\ replica = row
    /\ req = [r \in Requests |-> None]

-----------------------------------------------------------------------------
Expired(copy) ==
    \/ day > copy.day
    \/ day = copy.day /\ hour > copy.hour

\* What a read of day d may come upon: a row that is there and has not expired.
Copies(d) == {row[d]} \cup {copy \in {replica[d]} : WeakReads}

Live(copy) == copy # None /\ ~Expired(copy)

\* sudokuOfTheDayId: the day a sudoku is for, at the time of the call.
IdDay(tomorrow) == IF tomorrow THEN day + 1 ELSE day

Look(r, tomorrow) ==
    req' = [req EXCEPT ![r] = [tomorrow |-> tomorrow, day |-> IdDay(tomorrow), age |-> 0]]

\* A request that comes upon a live row is answered with it at once; it is a step
\* only to find nothing, and then to generate.
FindNothing(r, tomorrow) ==
    /\ req[r] = None
    /\ \E copy \in Copies(IdDay(tomorrow)) : ~Live(copy)
    /\ Look(r, tomorrow)
    /\ UNCHANGED <<clock, table>>

\* Every retry of the read has failed: that, too, counts as nothing found.
ReadFails(r, tomorrow) ==
    /\ WeakReads
    /\ req[r] = None
    /\ Look(r, tomorrow)
    /\ UNCHANGED <<clock, table>>

\* Mutant: a sudoku is kept for a day, whatever day it is for.
InsertForADay(r, puzzle) ==
    LET d == IdDay(req[r].tomorrow)
    IN  /\ req[r] # None
        /\ row' = [row EXCEPT ![d] = [puzzle |-> puzzle, day |-> day + 1, hour |-> hour]]
        /\ req' = [req EXCEPT ![r] = None]
        /\ UNCHANGED <<clock, replica>>

\* Mutant: the days a sudoku is kept are counted from its day, not from now.
InsertForTooLong(r, puzzle) ==
    LET d == IdDay(req[r].tomorrow)
        days == IF req[r].tomorrow THEN 2 ELSE 1
    IN  /\ req[r] # None
        /\ row' = [row EXCEPT ![d] = [puzzle |-> puzzle, day |-> d + days, hour |-> hour]]
        /\ req' = [req EXCEPT ![r] = None]
        /\ UNCHANGED <<clock, replica>>

\* insertSudokuOfTheDay: looked for under the id of the day of the read, stored
\* under that of the day of the write; kept for a day or, for tomorrow, two.
InsertSudoku(r, puzzle) ==
    LET d == IdDay(req[r].tomorrow)
        days == IF req[r].tomorrow THEN 2 ELSE 1
    IN  /\ req[r] # None
        /\ row' = [row EXCEPT ![d] = [puzzle |-> puzzle, day |-> day + days, hour |-> hour]]
        /\ req' = [req EXCEPT ![r] = None]
        /\ UNCHANGED <<clock, replica>>

\* The generation fails, or the Lambda ends.
Abort(r) ==
    /\ req[r] # None
    /\ req' = [req EXCEPT ![r] = None]
    /\ UNCHANGED <<clock, table>>

-----------------------------------------------------------------------------
Older(s) == [r \in Requests |-> IF s[r] = None THEN None ELSE [s[r] EXCEPT !.age = @ + 1]]

\* Mutant: nothing ends a request that takes long.
TickWithoutTimeout ==
    /\ IF hour + 1 < Hours THEN hour' = hour + 1 /\ UNCHANGED day
                           ELSE hour' = 0 /\ day + 1 < LastDay /\ day' = day + 1
    /\ UNCHANGED <<table, req>>

\* An hour passes; a request that has reached its timeout has been ended.
Tick ==
    /\ \A r \in Requests : req[r] # None => req[r].age < Timeout
    /\ IF hour + 1 < Hours THEN hour' = hour + 1 /\ UNCHANGED day
                           ELSE hour' = 0 /\ day + 1 < LastDay /\ day' = day + 1
    /\ req' = Older(req)
    /\ UNCHANGED <<table>>

ReplicaCatchesUp(d) ==
    /\ WeakReads
    /\ replica[d] # row[d]
    /\ replica' = [replica EXCEPT ![d] = row[d]]
    /\ UNCHANGED <<clock, row, req>>

\* DynamoDB drops a row some time after it has expired.
Drop(d) ==
    /\ row[d] # None
    /\ Expired(row[d])
    /\ row' = [row EXCEPT ![d] = None]
    /\ UNCHANGED <<clock, replica, req>>

OfTheDay(r) ==
    \/ \E tomorrow \in BOOLEAN : FindNothing(r, tomorrow) \/ ReadFails(r, tomorrow)
    \/ \E puzzle \in Puzzles : InsertSudoku(r, puzzle)
    \/ Abort(r)

Next ==
    \/ \E r \in Requests : OfTheDay(r)
    \/ Tick
    \/ \E d \in Days : ReplicaCatchesUp(d) \/ Drop(d)

Spec == Init /\ [][Next]_vars

-----------------------------------------------------------------------------
(***************************************************************************)
(* Properties.                                                             *)
(***************************************************************************)

\* Every variable stays within its type.
TypeOK ==
    /\ day \in 0 .. LastDay - 1
    /\ hour \in 0 .. Hours - 1
    /\ row \in [Days -> Row \cup {None}]
    /\ replica \in [Days -> Row \cup {None}]
    /\ req \in [Requests -> Generating \cup {None}]

\* A sudoku does not expire before the day it is for is over, whoever asked for
\* it, for whichever day, and however late it was stored: nobody sees the sudoku
\* they have begun replaced because it had been prepared the evening before.
LivesItsDay == \A d \in Days : row[d] # None => row[d].day > d

\* The sudoku of d is stored, no replica has another, and no request is about to
\* store one: those in flight have looked for a day too early or too late.
Settled(d) ==
    /\ Live(row[d])
    /\ replica[d] = row[d]
    /\ \A r \in Requests : req[r] # None => req[r].day \notin {d - 1, d}

\* From then on to the end of its day the sudoku stays the same, for everybody:
\* the requests of the evening before, which may store what they generate after
\* midnight, are the last that could replace it.  Only a read that fails unsettles
\* it, as it passes for a sudoku that was not there.
SettledSudokuStays ==
    [][\A d \in Days :
         Settled(d) /\ day = d =>
            /\ row'[d] = row[d]
            /\ day' = d => Settled(d)' \/ \E r \in Requests : ReadFails(r, FALSE)]_vars

\* "Look up to see if sudoku of this difficulty has already been generated
\* today / If it hasn't, generate and return it": a sudoku that is there is not
\* generated again.
GeneratedOnce ==
    [][\A d \in Days : Live(row[d]) => row'[d] = row[d]]_vars

=============================================================================
