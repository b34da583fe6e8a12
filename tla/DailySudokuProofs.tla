------------------------- MODULE DailySudokuProofs -------------------------
(***************************************************************************)
(* That a sudoku lives its day, and stays the same through it once it has  *)
(* settled, for any number of requests and any hours of a day.             *)
(***************************************************************************)
EXTENDS DailySudoku, TLAPS

Ahead(tomorrow) == IF tomorrow THEN 1 ELSE 0

\* A request in flight began today, or yesterday and then less long ago than a
\* day has hours: its age is more than the hours that have passed since midnight.
RequestsAreRecent ==
    \A r \in Requests : req[r] # None =>
        \/ req[r].day = day + Ahead(req[r].tomorrow)
        \/ req[r].day + 1 = day + Ahead(req[r].tomorrow) /\ hour < req[r].age

Inv == TypeOK /\ LivesItsDay /\ RequestsAreRecent

-----------------------------------------------------------------------------
\* What the variables are, in the form the steps need it.
LEMMA Types ==
    TypeOK =>
        /\ Hours \in Nat /\ Hours > 0 /\ Timeout \in Nat /\ Timeout < Hours
        /\ LastDay \in Nat /\ LastDay > 0
        /\ day \in Nat /\ day < LastDay
        /\ hour \in Nat /\ hour < Hours
        /\ \A t \in BOOLEAN : IdDay(t) \in Days
        /\ \A r \in Requests : req[r] # None =>
              /\ req[r] \in Generating
              /\ req[r].tomorrow \in BOOLEAN
              /\ req[r].day \in Days
              /\ req[r].age \in Nat /\ req[r].age <= Timeout
  BY DaysHaveHours, RequestsAreShort, SomeDays DEF TypeOK, IdDay, Days, Generating

LEMMA InitInv == Init => Inv
<1> SUFFICES ASSUME Init PROVE Inv
  OBVIOUS
<1>1. 0 \in 0 .. LastDay - 1 /\ 0 \in 0 .. Hours - 1
  BY DaysHaveHours, SomeDays
<1>2. TypeOK
  BY <1>1 DEF Init, TypeOK
<1>3. LivesItsDay /\ RequestsAreRecent
  BY DEF Init, LivesItsDay, RequestsAreRecent
<1> QED BY <1>2, <1>3 DEF Inv

LEMMA LookInv ==
    ASSUME Inv, NEW r \in Requests, NEW t \in BOOLEAN, Look(r, t), UNCHANGED <<clock, table>>
    PROVE  Inv'
<1>1. TypeOK /\ LivesItsDay /\ RequestsAreRecent
  BY DEF Inv
<1> DEFINE new == [tomorrow |-> t, day |-> IdDay(t), age |-> 0]
<1>2. new \in Generating
  BY <1>1, Types DEF Generating
<1>3. req' = [req EXCEPT ![r] = new]
  BY DEF Look
<1>4. TypeOK'
  BY <1>1, <1>2, <1>3 DEF TypeOK, clock, table
<1>5. LivesItsDay'
  BY <1>1 DEF LivesItsDay, table
<1>6. ASSUME NEW q \in Requests, req'[q] # None
      PROVE  \/ req'[q].day = day' + Ahead(req'[q].tomorrow)
             \/ req'[q].day + 1 = day' + Ahead(req'[q].tomorrow) /\ hour' < req'[q].age
  <2>1. CASE q = r
    BY <1>1, <1>3, <2>1, Types DEF TypeOK, IdDay, Ahead, Days, clock
  <2>2. CASE q # r
    BY <1>1, <1>3, <1>6, <2>2 DEF TypeOK, RequestsAreRecent, clock
  <2> QED BY <2>1, <2>2
<1>7. RequestsAreRecent'
  BY <1>6 DEF RequestsAreRecent
<1> QED BY <1>4, <1>5, <1>7 DEF Inv

LEMMA InsertInv ==
    ASSUME Inv, NEW r \in Requests, NEW puzzle \in Puzzles, InsertSudoku(r, puzzle)
    PROVE  Inv'
<1>1. TypeOK /\ LivesItsDay /\ RequestsAreRecent
  BY DEF Inv
<1> DEFINE d == IdDay(req[r].tomorrow)
           days == IF req[r].tomorrow THEN 2 ELSE 1
           new == [puzzle |-> puzzle, day |-> day + days, hour |-> hour]
<1>2. /\ req[r] # None
      /\ row' = [row EXCEPT ![d] = new]
      /\ req' = [req EXCEPT ![r] = None]
      /\ day' = day /\ hour' = hour /\ replica' = replica
  BY DEF InsertSudoku, clock
<1>3. /\ d \in Days /\ req[r].tomorrow \in BOOLEAN
      /\ day + days = d + 1
      /\ day + days \in 0 .. LastDay + 1
  BY <1>1, <1>2, Types DEF IdDay, Days
<1>4. new \in Row
  BY <1>1, <1>3, Types DEF Row
<1>5. TypeOK'
  BY <1>1, <1>2, <1>3, <1>4 DEF TypeOK
<1>6. LivesItsDay'
  <2>1. ASSUME NEW e \in Days, row'[e] # None PROVE row'[e].day > e
    <3>1. CASE e = d
      BY <1>1, <1>2, <1>3, <3>1, Types DEF TypeOK, Days
    <3>2. CASE e # d
      BY <1>1, <1>2, <2>1, <3>2 DEF TypeOK, LivesItsDay
    <3> QED BY <3>1, <3>2
  <2> QED BY <2>1 DEF LivesItsDay
<1>7. RequestsAreRecent'
  BY <1>1, <1>2 DEF TypeOK, RequestsAreRecent
<1> QED BY <1>5, <1>6, <1>7 DEF Inv

LEMMA AbortInv ==
    ASSUME Inv, NEW r \in Requests, Abort(r) PROVE Inv'
  BY DEF Inv, Abort, TypeOK, LivesItsDay, RequestsAreRecent, clock, table

LEMMA TickInv == Inv /\ Tick => Inv'
<1> SUFFICES ASSUME Inv, Tick PROVE Inv'
  OBVIOUS
<1>1. TypeOK /\ LivesItsDay /\ RequestsAreRecent
  BY DEF Inv
<1>2. /\ \A r \in Requests : req[r] # None => req[r].age < Timeout
      /\ \/ hour + 1 < Hours /\ hour' = hour + 1 /\ day' = day
         \/ hour + 1 >= Hours /\ hour' = 0 /\ day' = day + 1 /\ day + 1 < LastDay
      /\ req' = Older(req)
      /\ row' = row /\ replica' = replica
  BY <1>1, Types DEF Tick, table
<1>3. day' \in 0 .. LastDay - 1 /\ hour' \in 0 .. Hours - 1
  BY <1>1, <1>2, Types
<1>4. ASSUME NEW r \in Requests
      PROVE  /\ req[r] = None => req'[r] = None
             /\ req[r] # None => /\ req'[r] \in Generating
                                 /\ req'[r] # None
                                 /\ req'[r].tomorrow = req[r].tomorrow
                                 /\ req'[r].day = req[r].day
                                 /\ req'[r].age = req[r].age + 1
  <2>1. req'[r] = IF req[r] = None THEN None ELSE [req[r] EXCEPT !.age = @ + 1]
    BY <1>2 DEF Older
  <2>2. CASE req[r] # None
    <3>1. req[r] \in Generating /\ req[r].age + 1 \in 0 .. Timeout
      BY <1>1, <1>2, <2>2, Types
    <3>2. [req[r] EXCEPT !.age = @ + 1] \in Generating
      BY <3>1 DEF Generating
    <3> QED BY <2>1, <2>2, <3>1, <3>2, NoneIsNoRequest DEF Generating
  <2> QED BY <2>1, <2>2
<1>5. TypeOK'
  <2>1. req' \in [Requests -> Generating \cup {None}]
    BY <1>2, <1>4 DEF Older
  <2> QED BY <1>1, <1>2, <1>3, <2>1 DEF TypeOK
<1>6. LivesItsDay'
  BY <1>1, <1>2 DEF LivesItsDay
<1>7. ASSUME NEW r \in Requests, req'[r] # None
      PROVE  \/ req'[r].day = day' + Ahead(req'[r].tomorrow)
             \/ req'[r].day + 1 = day' + Ahead(req'[r].tomorrow) /\ hour' < req'[r].age
  <2>1. /\ req[r] # None /\ req'[r].tomorrow = req[r].tomorrow
        /\ req'[r].day = req[r].day /\ req'[r].age = req[r].age + 1
    BY <1>4, <1>7
  <2>2. \/ req[r].day = day + Ahead(req[r].tomorrow)
        \/ req[r].day + 1 = day + Ahead(req[r].tomorrow) /\ hour < req[r].age
    BY <1>1, <2>1 DEF RequestsAreRecent
  <2>3. /\ req[r].age < Timeout /\ req[r].age \in Nat /\ req[r].day \in Nat
        /\ Ahead(req[r].tomorrow) \in Nat
    BY <1>1, <1>2, <2>1, Types DEF Days, Ahead
  <2>4. CASE day' = day /\ hour' = hour + 1
    BY <1>1, <2>1, <2>2, <2>3, <2>4, Types
  <2>5. CASE day' = day + 1 /\ hour' = 0 /\ hour + 1 >= Hours
    <3>1. req[r].day = day + Ahead(req[r].tomorrow)
      BY <1>1, <2>2, <2>3, <2>5, Types
    <3> QED BY <1>1, <2>1, <2>3, <2>5, <3>1, Types
  <2> QED BY <1>2, <2>4, <2>5
<1>8. RequestsAreRecent'
  BY <1>7 DEF RequestsAreRecent
<1> QED BY <1>5, <1>6, <1>8 DEF Inv

LEMMA CatchUpInv ==
    ASSUME Inv, NEW d \in Days, ReplicaCatchesUp(d) PROVE Inv'
  BY DEF Inv, ReplicaCatchesUp, TypeOK, LivesItsDay, RequestsAreRecent, clock

LEMMA DropInv ==
    ASSUME Inv, NEW d \in Days, Drop(d) PROVE Inv'
  BY DEF Inv, Drop, TypeOK, LivesItsDay, RequestsAreRecent, clock

LEMMA StepInv == Inv /\ [Next]_vars => Inv'
<1> SUFFICES ASSUME Inv, [Next]_vars PROVE Inv'
  OBVIOUS
<1>1. ASSUME NEW r \in Requests, NEW t \in BOOLEAN, FindNothing(r, t) \/ ReadFails(r, t)
      PROVE  Inv'
  BY <1>1, LookInv DEF FindNothing, ReadFails
<1>2. ASSUME NEW r \in Requests, NEW puzzle \in Puzzles, InsertSudoku(r, puzzle) PROVE Inv'
  BY <1>2, InsertInv
<1>3. ASSUME NEW r \in Requests, Abort(r) PROVE Inv'
  BY <1>3, AbortInv
<1>4. CASE Tick
  BY <1>4, TickInv
<1>5. ASSUME NEW d \in Days, ReplicaCatchesUp(d) PROVE Inv'
  BY <1>5, CatchUpInv
<1>6. ASSUME NEW d \in Days, Drop(d) PROVE Inv'
  BY <1>6, DropInv
<1>7. CASE UNCHANGED vars
  BY <1>7 DEF vars, clock, table, Inv, TypeOK, LivesItsDay, RequestsAreRecent
<1> QED
  BY <1>1, <1>2, <1>3, <1>4, <1>5, <1>6, <1>7 DEF Next, OfTheDay

LEMMA Invariance == Spec => []Inv
<1> QED BY InitInv, StepInv, PTL DEF Spec

-----------------------------------------------------------------------------
\* The variables keep their types.
THEOREM TypeCorrect == Spec => []TypeOK
<1>1. Inv => TypeOK
  BY DEF Inv
<1> QED BY Invariance, <1>1, PTL

\* No sudoku expires before its day is over.
THEOREM SudokusLiveTheirDay == Spec => []LivesItsDay
<1>1. Inv => LivesItsDay
  BY DEF Inv
<1> QED BY Invariance, <1>1, PTL

-----------------------------------------------------------------------------
\* A sudoku is settled as long as nothing of what settles it changes, whatever
\* the hour: it lives its day.
LEMMA SettledAgain ==
    ASSUME Inv, Inv', NEW d \in Days, Settled(d), day' = d,
           row'[d] = row[d], replica'[d] = row[d],
           \A r \in Requests : req'[r] # None => req'[r].day \notin {d - 1, d}
    PROVE  Settled(d)'
<1>1. row'[d] # None
  BY DEF Settled, Live
<1>2. row'[d] \in Row /\ row'[d].day > d
  BY <1>1 DEF Inv, TypeOK, LivesItsDay
<1>3. row'[d].day \in Int /\ d \in Int
  BY <1>2, SomeDays DEF Row, Days
<1>4. Live(row[d])'
  BY <1>1, <1>2, <1>3 DEF Live, Expired
<1> QED BY <1>4 DEF Settled

\* A request that finds nothing does not look for the settled sudoku of today.
LEMMA NothingElsewhere ==
    ASSUME Inv, NEW d \in Days, Settled(d), day = d,
           NEW r \in Requests, NEW t \in BOOLEAN,
           FindNothing(r, t) \/ t = TRUE
    PROVE  IdDay(t) \notin {d - 1, d}
<1>1. day \in Nat
  BY Types DEF Inv
<1>2. CASE t
  BY <1>1, <1>2 DEF IdDay
<1>3. CASE ~t
  <2>1. PICK copy \in Copies(d) : ~Live(copy)
    BY <1>3 DEF FindNothing, IdDay
  <2>2. copy = row[d]
    BY <2>1 DEF Copies, Settled
  <2> QED BY <2>1, <2>2 DEF Settled
<1> QED BY <1>2, <1>3

\* No request stores a sudoku for today any more.
LEMMA InsertElsewhere ==
    ASSUME Inv, NEW d \in Days, Settled(d), day = d,
           NEW r \in Requests, req[r] # None
    PROVE  IdDay(req[r].tomorrow) # d
<1>1. TypeOK /\ RequestsAreRecent
  BY DEF Inv
<1>2. /\ day \in Nat /\ req[r].day \in Nat /\ req[r].tomorrow \in BOOLEAN
  BY <1>1, Types DEF Days
<1>3. req[r].day \notin {d - 1, d}
  BY DEF Settled
<1>4. \/ req[r].day = day + Ahead(req[r].tomorrow)
      \/ req[r].day + 1 = day + Ahead(req[r].tomorrow)
  BY <1>1 DEF RequestsAreRecent
<1>5. CASE ~req[r].tomorrow
  BY <1>2, <1>3, <1>4, <1>5 DEF Ahead
<1>6. CASE req[r].tomorrow
  BY <1>2, <1>6 DEF IdDay
<1> QED BY <1>2, <1>5, <1>6

LEMMA StepStays ==
    ASSUME Inv, Next, NEW d \in Days, Settled(d), day = d
    PROVE  /\ row'[d] = row[d]
           /\ day' = d => Settled(d)' \/ \E r \in Requests : ReadFails(r, FALSE)
<1>0. Inv'
  BY StepInv
<1>1. /\ TypeOK /\ replica[d] = row[d] /\ Live(row[d])
      /\ \A q \in Requests : req[q] # None => req[q].day \notin {d - 1, d}
  BY DEF Inv, Settled
<1>2. ASSUME NEW r \in Requests, NEW t \in BOOLEAN, FindNothing(r, t) \/ ReadFails(r, t),
             ~ReadFails(r, FALSE)
      PROVE  row' = row /\ Settled(d)'
  <2>1. Look(r, t) /\ row' = row /\ replica' = replica /\ day' = day
    BY <1>2 DEF FindNothing, ReadFails, clock, table
  <2>2. IdDay(t) \notin {d - 1, d}
    BY <1>2, NothingElsewhere
  <2>3. \A q \in Requests : req'[q] # None => req'[q].day \notin {d - 1, d}
    BY <1>1, <2>1, <2>2 DEF Look, TypeOK
  <2> QED BY <1>0, <1>1, <2>1, <2>3, SettledAgain
<1>3. ASSUME NEW r \in Requests, NEW puzzle \in Puzzles, InsertSudoku(r, puzzle)
      PROVE  row'[d] = row[d] /\ Settled(d)'
  <2>1. row'[d] = row[d]
    BY <1>1, <1>3, InsertElsewhere DEF InsertSudoku, TypeOK
  <2>2. /\ replica' = replica /\ day' = day
        /\ \A q \in Requests : req'[q] # None => req'[q].day \notin {d - 1, d}
    BY <1>1, <1>3 DEF InsertSudoku, TypeOK, clock
  <2> QED BY <1>0, <1>1, <2>1, <2>2, SettledAgain
<1>4. ASSUME NEW r \in Requests, Abort(r) PROVE row' = row /\ Settled(d)'
  <2>1. /\ row' = row /\ replica' = replica /\ day' = day
        /\ \A q \in Requests : req'[q] # None => req'[q].day \notin {d - 1, d}
    BY <1>1, <1>4 DEF Abort, TypeOK, clock, table
  <2> QED BY <1>0, <1>1, <2>1, SettledAgain
<1>5. CASE Tick
  <2>1. row' = row /\ replica' = replica /\ req' = Older(req)
    BY <1>5 DEF Tick, table
  <2>2. ASSUME NEW q \in Requests, req'[q] # None PROVE req'[q].day \notin {d - 1, d}
    <3>1. req[q] # None /\ req'[q] = [req[q] EXCEPT !.age = @ + 1]
      BY <2>1, <2>2 DEF Older
    <3>2. req'[q].day = req[q].day
      BY <1>1, <3>1, Types DEF Generating
    <3> QED BY <1>1, <3>1, <3>2
  <2>3. day' = d => Settled(d)'
    BY <1>0, <1>1, <2>1, <2>2, SettledAgain
  <2> QED BY <2>1, <2>3
<1>6. ASSUME NEW e \in Days, ReplicaCatchesUp(e) PROVE row' = row /\ Settled(d)'
  <2>1. row' = row /\ req' = req /\ day' = day /\ replica'[d] = row[d]
    BY <1>1, <1>6 DEF ReplicaCatchesUp, TypeOK, clock
  <2> QED BY <1>0, <1>1, <2>1, SettledAgain
<1>7. ASSUME NEW e \in Days, Drop(e) PROVE row'[d] = row[d] /\ Settled(d)'
  <2>1. row'[d] = row[d] /\ req' = req /\ day' = day /\ replica' = replica
    BY <1>1, <1>7 DEF Drop, Live, TypeOK, clock
  <2> QED BY <1>0, <1>1, <2>1, SettledAgain
<1>8. ASSUME NEW r \in Requests, ReadFails(r, FALSE)
      PROVE  row'[d] = row[d] /\ \E q \in Requests : ReadFails(q, FALSE)
  BY <1>8 DEF ReadFails, table
<1> QED
  BY <1>2, <1>3, <1>4, <1>5, <1>6, <1>7, <1>8 DEF Next, OfTheDay

\* Once settled, the sudoku of a day is the same to the end of the day.
THEOREM SudokuStays == Spec => SettledSudokuStays
<1>1. Inv /\ [Next]_vars =>
        [\A d \in Days : Settled(d) /\ day = d =>
            /\ row'[d] = row[d]
            /\ day' = d => Settled(d)' \/ \E r \in Requests : ReadFails(r, FALSE)]_vars
  BY StepStays
<1> QED BY Invariance, <1>1, PTL DEF SettledSudokuStays, Spec

=============================================================================
