-------------------------- MODULE AnalyticsProofs --------------------------
(***************************************************************************)
(* Theorems about Analytics, for any rows, runs and days: that records are *)
(* true, and that the run of the night is complete.                        *)
(***************************************************************************)
EXTENDS Analytics, FiniteSetTheorems, TLAPS

USE RowsAreFinite, KindsDiffer, BoundsAreNumbers, StartsAreDays, NoneIsNoExport

LEMMA DayNumbers == Days \subseteq Nat /\ 0 \in Days /\ Starts \subseteq Days
BY DEF Days

LEMMA EntryFields ==
    ASSUME NEW e \in Entries
    PROVE  e.item \in Items /\ e.date \in Days /\ e.date \in Nat
BY DayNumbers DEF Entries

\* Figures are numbers, because there are finitely many rows and days.
LEMMA EntriesAreFinite == IsFiniteSet(Entries)
<1> DEFINE f == [x \in Items \X Days |-> [item |-> x[1], date |-> x[2]]]
<1>1. IsFiniteSet(Items)
  BY FS_Union DEF Items
<1>2. IsFiniteSet(Days)
  BY FS_Interval DEF Days
<1>3. IsFiniteSet(Items \X Days)
  BY <1>1, <1>2, FS_Product
<1>4. f \in Surjection(Items \X Days, Entries)
  <2>1. f \in [Items \X Days -> Entries]
    BY DEF Entries
  <2>2. ASSUME NEW e \in Entries PROVE \E x \in Items \X Days : f[x] = e
    <3>1. <<e.item, e.date>> \in Items \X Days
      BY EntryFields
    <3>2. f[<<e.item, e.date>>] = e
      BY <3>1 DEF Entries
    <3> QED
      BY <3>1, <3>2
  <2> QED
    BY <2>1, <2>2 DEF Surjection
<1> QED
  BY <1>3, <1>4, FS_Surjection DEF ExistsSurjection

LEMMA FiguresAreNumbers ==
    ASSUME NEW s \in SUBSET Entries, NEW d
    PROVE  Cardinality(Dated(d, s)) \in Nat
BY EntriesAreFinite, FS_Subset, FS_CardinalityType DEF Dated

LEMMA CappedType ==
    ASSUME NEW n \in Nat
    PROVE  Capped(n) \in 0 .. Cap
BY DEF Capped

-----------------------------------------------------------------------------
(***************************************************************************)
(* Types.                                                                  *)
(***************************************************************************)

LEMMA IdleType == Idle \in RunRecords
BY DayNumbers DEF Idle, RunRecords, Modes

LEMMA InitTypeOK == Init => TypeOK
BY IdleType, DayNumbers DEF Init, TypeOK

\* Steps of the runs leave everything else but the figures alone.
LEMMA RunStepTypeOK ==
    ASSUME TypeOK, UNCHANGED <<clock, rows, latest, figures>>, run' \in [Runs -> RunRecords]
    PROVE  TypeOK'
BY DEF TypeOK, clock, rows, figures

LEMMA RunTyped ==
    ASSUME TypeOK, NEW r \in Runs, NEW x \in RunRecords, run' = [run EXCEPT ![r] = x]
    PROVE  run' \in [Runs -> RunRecords]
BY DEF TypeOK

\* What a run becomes by each of its steps.
LetIn(r, e) ==
    IF ShouldIncludeDate(e.date, run[r].mode, run[r].start)
    THEN run[r].metrics \cup {e} ELSE run[r].metrics

LEMMA Processed ==
    ASSUME TypeOK, NEW r \in Runs, ProcessItem(r)
    PROVE  \E e \in run[r].todo :
               run' = [run EXCEPT ![r] = [run[r] EXCEPT !.todo = run[r].todo \ {e},
                                                        !.metrics = LetIn(r, e)]]
<1>1. run \in [Runs -> RunRecords] /\ run[r] \in RunRecords
  BY DEF TypeOK
<1>2. PICK e \in run[r].todo :
          run' = [run EXCEPT ![r].todo = run[r].todo \ {e}, ![r].metrics = LetIn(r, e)]
  BY DEF ProcessItem, LetIn
<1>3. [run EXCEPT ![r].todo = run[r].todo \ {e}, ![r].metrics = LetIn(r, e)]
      = [run EXCEPT ![r] = [run[r] EXCEPT !.todo = run[r].todo \ {e}, !.metrics = LetIn(r, e)]]
  BY <1>1
<1> QED
  BY <1>2, <1>3

LEMMA Published ==
    ASSUME TypeOK, NEW r \in Runs, PublishAllMetrics(r)
    PROVE  run' = [run EXCEPT ![r] = [run[r] EXCEPT !.pc = "write",
                                                    !.toWrite = DatesOf(run[r].metrics)]]
<1>1. run \in [Runs -> RunRecords] /\ run[r] \in RunRecords
  BY DEF TypeOK
<1> DEFINE dates == DatesOf(run[r].metrics)
<1>2. run' = [run EXCEPT ![r].pc = "write", ![r].toWrite = dates]
  BY DEF PublishAllMetrics
<1> HIDE DEF dates
<1>3. [run EXCEPT ![r].pc = "write", ![r].toWrite = dates]
      = [run EXCEPT ![r] = [run[r] EXCEPT !.pc = "write", !.toWrite = dates]]
  BY <1>1
<1>4. run' = [run EXCEPT ![r] = [run[r] EXCEPT !.pc = "write", !.toWrite = dates]]
  BY <1>2, <1>3
<1> QED
  BY <1>4 DEF dates

LEMMA Written ==
    ASSUME TypeOK, NEW r \in Runs, WriteAnalyticsRecord(r)
    PROVE  \E d \in run[r].toWrite :
               run' = [run EXCEPT ![r] = [run[r] EXCEPT !.toWrite = run[r].toWrite \ {d}]]
<1>1. run \in [Runs -> RunRecords] /\ run[r] \in RunRecords
  BY DEF TypeOK
<1>2. PICK d \in run[r].toWrite : run' = [run EXCEPT ![r].toWrite = run[r].toWrite \ {d}]
  BY DEF WriteAnalyticsRecord
<1>3. [run EXCEPT ![r].toWrite = run[r].toWrite \ {d}]
      = [run EXCEPT ![r] = [run[r] EXCEPT !.toWrite = run[r].toWrite \ {d}]]
  BY <1>1
<1> QED
  BY <1>2, <1>3

LEMMA NextTypeOK == TypeOK /\ [Next]_vars => TypeOK'
<1> SUFFICES ASSUME TypeOK, [Next]_vars PROVE TypeOK'
  OBVIOUS
<1>1. ASSUME NEW i \in Items, Upsert(i) PROVE TypeOK'
  <2>1. Today(i) \in Entries /\ Today(i).item = i
    BY DEF TypeOK, Today, Entries
  <2>2. table' \subseteq Entries /\ active' \subseteq Entries
    BY <1>1, <2>1 DEF Upsert, TypeOK
  <2>3. changed' \subseteq Items
    BY <1>1 DEF Upsert, TypeOK
  <2>4. \A e, f \in table' : e.item = f.item => e = f
    BY <1>1, <2>1 DEF Upsert, TypeOK, Of
  <2> QED
    BY <1>1, <2>2, <2>3, <2>4 DEF Upsert, TypeOK, clock, figures
<1>2. ASSUME NEW i \in Items, Destroy(i) PROVE TypeOK'
  BY <1>2 DEF Destroy, TypeOK, clock, figures
<1>3. CASE Midnight
  BY <1>3, DayNumbers DEF Midnight, TypeOK, figures, Days
<1>4. ASSUME NEW mode \in Modes, StartExport(mode) PROVE TypeOK'
  <2>1. Yesterdays \subseteq Entries
    BY DEF TypeOK, Yesterdays
  <2>2. latest' \in Exports
    BY <1>4, <2>1 DEF StartExport, TypeOK, Exports
  <2> QED
    BY <1>4, <2>2 DEF StartExport, TypeOK, clock, rows, figures
<1>5. CASE FinishExport
  <2>1. latest' \in Exports
    BY <1>5 DEF FinishExport, TypeOK, Exports
  <2> QED
    BY <1>5, <2>1 DEF FinishExport, TypeOK, clock, rows, figures
<1>6. CASE ExpireExport
  BY <1>6 DEF ExpireExport, TypeOK, clock, rows, figures
<1>7. ASSUME NEW r \in Runs, NEW mode \in Modes, NEW start \in Days,
             FindLatestExport(r, mode, start)
      PROVE  TypeOK'
  <2>1. latest \in Exports
    BY <1>7 DEF FindLatestExport, TypeOK
  <2>2. run' \in [Runs -> RunRecords]
    BY <1>7, <2>1, IdleType DEF FindLatestExport, TypeOK, RunRecords, Exports
  <2> QED
    BY <1>7, <2>2, RunStepTypeOK DEF FindLatestExport
<1>8. ASSUME NEW r \in Runs, ProcessItem(r) PROVE TypeOK'
  <2>0. run[r] \in RunRecords
    BY DEF TypeOK
  <2>2. PICK e \in run[r].todo :
            run' = [run EXCEPT ![r] = [run[r] EXCEPT !.todo = run[r].todo \ {e},
                                                     !.metrics = LetIn(r, e)]]
    BY <1>8, Processed
  <2>3. LetIn(r, e) \in SUBSET Entries /\ run[r].todo \ {e} \in SUBSET Entries
    BY <2>0 DEF LetIn, RunRecords
  <2>4. [run[r] EXCEPT !.todo = run[r].todo \ {e}, !.metrics = LetIn(r, e)] \in RunRecords
    BY <2>0, <2>3 DEF RunRecords
  <2>1. run' \in [Runs -> RunRecords]
    BY <2>2, <2>4, RunTyped
  <2> QED
    BY <1>8, <2>1, RunStepTypeOK DEF ProcessItem
<1>9. ASSUME NEW r \in Runs, PublishAllMetrics(r) PROVE TypeOK'
  <2>1. run[r].metrics \in SUBSET Entries
    BY DEF TypeOK, RunRecords
  <2>2. \A d \in Days : Capped(total[d] + Cardinality(Dated(d, run[r].metrics))) \in 0 .. Cap
    BY <2>1, FiguresAreNumbers, CappedType DEF TypeOK
  <2>3. total' \in [Days -> 0 .. Cap]
    BY <1>9, <2>2 DEF PublishAllMetrics, TypeOK
  <2>4. DatesOf(run[r].metrics) \subseteq Days
    BY <2>1, EntryFields DEF DatesOf
  <2> DEFINE next == [run[r] EXCEPT !.pc = "write", !.toWrite = DatesOf(run[r].metrics)]
  <2>6. run[r] \in RunRecords
    BY DEF TypeOK
  <2>7. next \in RunRecords
    BY <2>4, <2>6 DEF RunRecords
  <2>5. run' \in [Runs -> RunRecords]
    BY <1>9, <2>7, Published, RunTyped
  <2> QED
    BY <1>9, <2>3, <2>5 DEF PublishAllMetrics, TypeOK, clock, rows
<1>10. ASSUME NEW r \in Runs, WriteAnalyticsRecord(r) PROVE TypeOK'
  <2>1. run[r].metrics \subseteq Entries
    BY DEF TypeOK, RunRecords
  <2>2. record' \subseteq Entries
    BY <1>10, <2>1 DEF WriteAnalyticsRecord, TypeOK, Dated
  <2>0. run[r] \in RunRecords
    BY DEF TypeOK
  <2>4. PICK d \in run[r].toWrite :
            run' = [run EXCEPT ![r] = [run[r] EXCEPT !.toWrite = run[r].toWrite \ {d}]]
    BY <1>10, Written
  <2>5. [run[r] EXCEPT !.toWrite = run[r].toWrite \ {d}] \in RunRecords
    BY <2>0 DEF RunRecords
  <2>3. run' \in [Runs -> RunRecords]
    BY <2>4, <2>5, RunTyped
  <2> QED
    BY <1>10, <2>2, <2>3 DEF WriteAnalyticsRecord, TypeOK, clock, rows
<1>11. ASSUME NEW r \in Runs, Complete(r) PROVE TypeOK'
  BY <1>11, IdleType, RunStepTypeOK DEF Complete, TypeOK
<1>12. ASSUME NEW r \in Runs, Fail(r) PROVE TypeOK'
  BY <1>12, IdleType, RunStepTypeOK DEF Fail, TypeOK
<1>13. CASE UNCHANGED vars
  BY <1>13 DEF TypeOK, vars, clock, rows, figures
<1>14. "incremental" \in Modes /\ "backfill" \in Modes /\ 0 \in Days
  BY DayNumbers DEF Modes
<1> QED
  BY <1>1, <1>2, <1>3, <1>4, <1>5, <1>6, <1>7, <1>8, <1>9, <1>10, <1>11, <1>12, <1>13,
     <1>14, DayNumbers DEF Next

\* The variables keep to their types.
THEOREM TypeCorrect == Spec => []TypeOK
BY InitTypeOK, NextTypeOK, PTL DEF Spec

-----------------------------------------------------------------------------
(***************************************************************************)
(* Records are true.                                                       *)
(***************************************************************************)

\* Every entry that is on its way to a record has been there, and those that a run
\* has let in are of past days.
RunIsTrue(r) ==
    /\ run[r].todo \subseteq active /\ run[r].metrics \subseteq active
    /\ \A e \in run[r].metrics : e.date < day

TrueInv ==
    /\ table \subseteq active /\ midnight \subseteq active
    /\ latest # None => latest.rows \subseteq active
    /\ \A r \in Runs : RunIsTrue(r)
    /\ RecordsAreTrue

LEMMA InitTrue == Init => TrueInv
BY DEF Init, TrueInv, RunIsTrue, RecordsAreTrue, Idle

\* Nothing gets less true as days pass and rows are written.
LEMMA TrueStays ==
    ASSUME TypeOK, TrueInv, TypeOK', active \subseteq active', table' \subseteq active',
           midnight' \subseteq active', day <= day', UNCHANGED <<latest, run, figures>>
    PROVE  TrueInv'
<1>1. ASSUME NEW r \in Runs PROVE RunIsTrue(r)'
  <2>1. RunIsTrue(r) /\ run[r].metrics \subseteq Entries
    BY DEF TrueInv, TypeOK, RunRecords
  <2> QED
    BY <2>1, DayNumbers, EntryFields DEF RunIsTrue, TypeOK
<1>2. RecordsAreTrue'
  BY DayNumbers, EntryFields DEF TrueInv, RecordsAreTrue, TypeOK, figures
<1> QED
  BY <1>1, <1>2 DEF TrueInv

\* A run's step that changes no other run.
LEMMA OneRunIsTrue ==
    ASSUME TypeOK, TrueInv, NEW r \in Runs, UNCHANGED <<clock, rows, latest>>,
           RunIsTrue(r)', RecordsAreTrue', \A q \in Runs \ {r} : run'[q] = run[q]
    PROVE  TrueInv'
BY DEF TrueInv, RunIsTrue, clock, rows

LEMMA NextTrue == TypeOK /\ TrueInv /\ [Next]_vars => TrueInv'
<1> SUFFICES ASSUME TypeOK, TrueInv, [Next]_vars PROVE TrueInv'
  OBVIOUS
<1>0. TypeOK'
  BY NextTypeOK
<1>1. ASSUME NEW i \in Items, Upsert(i) PROVE TrueInv'
  <2>1. active \subseteq active' /\ table' \subseteq active'
    BY <1>1 DEF Upsert, TrueInv
  <2>2. midnight' \subseteq active' /\ day <= day'
    BY <1>1, <2>1, DayNumbers DEF Upsert, TrueInv, clock, TypeOK
  <2> QED
    BY <1>0, <1>1, <2>1, <2>2, TrueStays DEF Upsert
<1>2. ASSUME NEW i \in Items, Destroy(i) PROVE TrueInv'
  <2>1. table' \subseteq active' /\ midnight' \subseteq active' /\ day <= day'
    BY <1>2, DayNumbers DEF Destroy, TrueInv, clock, TypeOK
  <2> QED
    BY <1>0, <1>2, <2>1, TrueStays DEF Destroy
<1>3. CASE Midnight
  <2>1. table' \subseteq active' /\ midnight' \subseteq active' /\ day <= day'
    BY <1>3, DayNumbers DEF Midnight, TrueInv, TypeOK
  <2> QED
    BY <1>0, <1>3, <2>1, TrueStays DEF Midnight
<1>4. ASSUME NEW mode \in Modes, StartExport(mode) PROVE TrueInv'
  <2>1. latest'.rows \subseteq active
    BY <1>4 DEF StartExport, Yesterdays, TrueInv
  <2> QED
    BY <1>4, <2>1 DEF StartExport, TrueInv, RunIsTrue, RecordsAreTrue, clock, rows, figures
<1>5. CASE FinishExport
  <2>1. latest'.rows = latest.rows
    BY <1>5 DEF FinishExport, TypeOK, Exports
  <2> QED
    BY <1>5, <2>1 DEF FinishExport, TrueInv, RunIsTrue, RecordsAreTrue, clock, rows, figures
<1>6. CASE ExpireExport
  BY <1>6 DEF ExpireExport, TrueInv, RunIsTrue, RecordsAreTrue, clock, rows, figures
<1> DEFINE Others(r) == \A q \in Runs \ {r} : run'[q] = run[q]
<1>7. ASSUME NEW r \in Runs, NEW mode \in Modes, NEW start \in Days,
             FindLatestExport(r, mode, start)
      PROVE  TrueInv'
  <2>1. run'[r].todo = latest.rows /\ run'[r].metrics = {}
    BY <1>7 DEF FindLatestExport, TypeOK, Idle
  <2>2. RunIsTrue(r)'
    BY <1>7, <2>1 DEF FindLatestExport, RunIsTrue, TrueInv, rows
  <2>3. Others(r) /\ RecordsAreTrue'
    BY <1>7 DEF FindLatestExport, TrueInv, RecordsAreTrue, figures, rows, clock, TypeOK
  <2> QED
    BY <1>7, <2>2, <2>3, OneRunIsTrue DEF FindLatestExport
<1>8. ASSUME NEW r \in Runs, ProcessItem(r) PROVE TrueInv'
  <2>0. run \in [Runs -> RunRecords] /\ run[r] \in RunRecords
    BY DEF TypeOK
  <2>7. PICK e \in run[r].todo :
            run' = [run EXCEPT ![r] = [run[r] EXCEPT !.todo = run[r].todo \ {e},
                                                     !.metrics = LetIn(r, e)]]
    BY <1>8, Processed
  <2>1. run'[r].todo = run[r].todo \ {e} /\ run'[r].metrics = LetIn(r, e) /\ Others(r)
    BY <2>0, <2>7 DEF RunRecords
  <2>2. e \in Entries
    BY DEF TypeOK, RunRecords
  <2>3. ShouldIncludeDate(e.date, run[r].mode, run[r].start) => e.date < day
    BY <2>2, EntryFields, DayNumbers DEF ShouldIncludeDate, TypeOK
  <2>4. RunIsTrue(r)
    BY DEF TrueInv
  <2>8. UNCHANGED <<active, day>>
    BY <1>8 DEF ProcessItem, rows, clock
  <2>9. LetIn(r, e) \subseteq active /\ \A x \in LetIn(r, e) : x.date < day
    BY <2>3, <2>4 DEF RunIsTrue, LetIn
  <2>5. RunIsTrue(r)'
    BY <2>1, <2>4, <2>8, <2>9 DEF RunIsTrue
  <2>6. Others(r) /\ RecordsAreTrue'
    BY <1>8, <2>1 DEF ProcessItem, TrueInv, RecordsAreTrue, figures, rows, clock
  <2> QED
    BY <1>8, <2>5, <2>6, OneRunIsTrue DEF ProcessItem
<1>9. ASSUME NEW r \in Runs, PublishAllMetrics(r) PROVE TrueInv'
  <2>1. run'[r].todo = run[r].todo /\ run'[r].metrics = run[r].metrics
    BY <1>9 DEF PublishAllMetrics, TypeOK, RunRecords
  <2>2. RunIsTrue(r)'
    BY <1>9, <2>1 DEF PublishAllMetrics, RunIsTrue, TrueInv, rows, clock
  <2>3. Others(r) /\ RecordsAreTrue'
    BY <1>9 DEF PublishAllMetrics, TrueInv, RecordsAreTrue, rows, clock, TypeOK
  <2> QED
    BY <1>9, <2>2, <2>3, OneRunIsTrue DEF PublishAllMetrics
<1>10. ASSUME NEW r \in Runs, WriteAnalyticsRecord(r) PROVE TrueInv'
  <2>1. run'[r].todo = run[r].todo /\ run'[r].metrics = run[r].metrics
    BY <1>10 DEF WriteAnalyticsRecord, TypeOK, RunRecords
  <2>2. RunIsTrue(r)
    BY DEF TrueInv
  <2>3. RunIsTrue(r)'
    BY <1>10, <2>1, <2>2 DEF WriteAnalyticsRecord, RunIsTrue, rows, clock
  <2>4. record' \subseteq record \cup run[r].metrics
    BY <1>10 DEF WriteAnalyticsRecord, Dated
  <2>5. RecordsAreTrue'
    BY <1>10, <2>2, <2>4 DEF WriteAnalyticsRecord, RunIsTrue, TrueInv, RecordsAreTrue, rows, clock
  <2>6. Others(r)
    BY <1>10 DEF WriteAnalyticsRecord, TypeOK
  <2> QED
    BY <1>10, <2>3, <2>5, <2>6, OneRunIsTrue DEF WriteAnalyticsRecord
<1>11. ASSUME NEW r \in Runs, Complete(r) \/ Fail(r) PROVE TrueInv'
  <2>1. run'[r] = Idle /\ Others(r) /\ UNCHANGED <<clock, rows, latest, figures>>
    BY <1>11 DEF Complete, Fail, TypeOK
  <2>2. RunIsTrue(r)'
    BY <2>1 DEF RunIsTrue, Idle
  <2>3. RecordsAreTrue'
    BY <2>1 DEF TrueInv, RecordsAreTrue, figures, rows, clock
  <2> QED
    BY <2>1, <2>2, <2>3, OneRunIsTrue
<1>12. CASE UNCHANGED vars
  BY <1>12 DEF vars, TrueInv, RunIsTrue, RecordsAreTrue, clock, rows, figures
<1>13. "incremental" \in Modes /\ "backfill" \in Modes /\ 0 \in Days
  BY DayNumbers DEF Modes
<1> QED
  BY <1>1, <1>2, <1>3, <1>4, <1>5, <1>6, <1>7, <1>8, <1>9, <1>10, <1>11, <1>12,
     <1>13, DayNumbers DEF Next

\* A record counts only what happened on its day, and only when the day is over.
THEOREM RecordsStayTrue == Spec => []RecordsAreTrue
<1>1. TypeOK /\ TrueInv /\ [Next]_vars => TypeOK' /\ TrueInv'
  BY NextTypeOK, NextTrue
<1>2. Init => TypeOK /\ TrueInv
  BY InitTypeOK, InitTrue
<1>3. TrueInv => RecordsAreTrue
  BY DEF TrueInv
<1> QED
  BY <1>1, <1>2, <1>3, PTL DEF Spec

-----------------------------------------------------------------------------
(***************************************************************************)
(* The run of the night is complete.                                       *)
(***************************************************************************)

\* What happened yesterday and was there at midnight.
Wanted == {e \in midnight : e.date + 1 = day}

\* A row's day is not to come, and a row of today has been written today: so at
\* midnight an entry of the day before is among the rows of the export.
TodayIsChanged == \A e \in table : e.date <= day /\ (e.date = day => e.item \in changed)

MidnightIsPast == \A e \in midnight : e.date < day /\ (e.date + 1 = day => e.item \in before)

ExportIsOfYesterday ==
    latest # None =>
        /\ latest.taken <= day
        /\ latest.mode = "incremental" /\ latest.taken = day => latest.rows = Yesterdays

\* The runs the property is about: they use the incremental export of their own day.
IsNightly(r) ==
    /\ run[r].pc # "idle"
    /\ run[r].mode = "incremental"
    /\ run[r].source = "incremental"
    /\ run[r].taken = day

RunIsOnItsWay(r) ==
    /\ run[r].taken <= day
    /\ run[r].pc = "write" => run[r].todo = {}
    /\ IsNightly(r) =>
           /\ run[r].metrics \subseteq Wanted
           /\ Wanted \subseteq run[r].metrics \cup run[r].todo
           /\ run[r].todo \subseteq midnight

NightInv ==
    /\ TodayIsChanged
    /\ MidnightIsPast
    /\ ExportIsOfYesterday
    /\ \A r \in Runs : RunIsOnItsWay(r)

LEMMA InitNight == Init => NightInv
BY DayNumbers DEF Init, NightInv, TodayIsChanged, MidnightIsPast, ExportIsOfYesterday,
   RunIsOnItsWay, IsNightly, Idle

\* Steps of a run, and of nothing else.
LEMMA OneRunOnItsWay ==
    ASSUME NightInv, NEW r \in Runs, UNCHANGED <<clock, rows, latest>>,
           RunIsOnItsWay(r)', \A q \in Runs \ {r} : run'[q] = run[q]
    PROVE  NightInv'
<1>1. UNCHANGED <<day, midnight, before, table, changed, latest>>
  BY DEF clock, rows
<1>2. ASSUME NEW q \in Runs PROVE RunIsOnItsWay(q)'
  <2>1. CASE q = r
    BY <2>1
  <2>2. CASE q # r
    BY <1>1, <2>2 DEF NightInv, RunIsOnItsWay, IsNightly, Wanted
  <2> QED
    BY <2>1, <2>2
<1>3. TodayIsChanged' /\ MidnightIsPast' /\ ExportIsOfYesterday'
  BY <1>1 DEF NightInv, TodayIsChanged, MidnightIsPast, ExportIsOfYesterday, Yesterdays
<1> QED
  BY <1>2, <1>3 DEF NightInv

\* Steps of the table and the export within a day leave the runs on their way.
LEMMA RunsStayOnTheirWay ==
    ASSUME NightInv, UNCHANGED <<clock, run>>
    PROVE  (\A r \in Runs : RunIsOnItsWay(r))' /\ MidnightIsPast'
BY DEF NightInv, RunIsOnItsWay, IsNightly, Wanted, MidnightIsPast, clock

LEMMA NextNight == TypeOK /\ NightInv /\ [Next]_vars => NightInv'
<1> SUFFICES ASSUME TypeOK, NightInv, [Next]_vars PROVE NightInv'
  OBVIOUS
<1> DEFINE Others(r) == \A q \in Runs \ {r} : run'[q] = run[q]
<1>0. day \in Nat /\ run \in [Runs -> RunRecords] /\ \A r \in Runs : run[r] \in RunRecords
  BY DayNumbers DEF TypeOK
<1>1. ASSUME NEW i \in Items, Upsert(i) PROVE NightInv'
  <2>1. UNCHANGED <<clock, latest, run, day, midnight, before>>
    BY <1>1 DEF Upsert, clock
  <2>2. changed' = changed \cup {i} /\ table' \subseteq table \cup {Today(i)}
    BY <1>1 DEF Upsert
  <2>3. TodayIsChanged'
    BY <1>0, <2>1, <2>2 DEF NightInv, TodayIsChanged, Today
  <2>4. ExportIsOfYesterday'
    BY <2>1 DEF NightInv, ExportIsOfYesterday, Yesterdays
  <2> QED
    BY <2>1, <2>3, <2>4, RunsStayOnTheirWay DEF NightInv
<1>2. ASSUME NEW i \in Items, Destroy(i) PROVE NightInv'
  <2>1. UNCHANGED <<clock, latest, run, day, midnight, before>>
    BY <1>2 DEF Destroy, clock
  <2>2. TodayIsChanged'
    BY <1>2, <2>1 DEF Destroy, NightInv, TodayIsChanged
  <2>3. ExportIsOfYesterday'
    BY <2>1 DEF NightInv, ExportIsOfYesterday, Yesterdays
  <2> QED
    BY <2>1, <2>2, <2>3, RunsStayOnTheirWay DEF NightInv
<1>3. CASE Midnight
  <2>1. day' = day + 1 /\ midnight' = table /\ before' = changed /\ table' = table
        /\ latest' = latest /\ run' = run
    BY <1>3 DEF Midnight
  <2>2. \A e \in table : e.date \in Nat
    BY EntryFields DEF TypeOK
  <2>3. TodayIsChanged' /\ MidnightIsPast'
    BY <1>0, <2>1, <2>2 DEF NightInv, TodayIsChanged, MidnightIsPast
  <2>4. latest # None => latest.taken \in Nat
    BY DayNumbers DEF TypeOK, Exports
  <2>5. ExportIsOfYesterday'
    BY <1>0, <2>1, <2>4 DEF NightInv, ExportIsOfYesterday
  <2>6. ASSUME NEW r \in Runs PROVE RunIsOnItsWay(r)'
    <3>1. run[r].taken \in Nat
      BY <1>0, DayNumbers DEF RunRecords
    <3>2. RunIsOnItsWay(r)
      BY DEF NightInv
    <3> QED
      BY <1>0, <2>1, <3>1, <3>2 DEF RunIsOnItsWay, IsNightly
  <2> QED
    BY <2>3, <2>5, <2>6 DEF NightInv
<1>4. ASSUME NEW mode \in Modes, StartExport(mode) PROVE NightInv'
  <2>1. UNCHANGED <<clock, rows, run, day, midnight, before, table, changed>>
    BY <1>4 DEF StartExport, clock, rows
  <2>2. /\ latest'.taken = day /\ latest'.mode = mode
        /\ mode = "incremental" => latest'.rows = Yesterdays
    BY <1>4 DEF StartExport
  <2>3. ExportIsOfYesterday'
    BY <1>0, <2>1, <2>2 DEF ExportIsOfYesterday, Yesterdays
  <2>4. TodayIsChanged'
    BY <2>1 DEF NightInv, TodayIsChanged
  <2> QED
    BY <2>1, <2>3, <2>4, RunsStayOnTheirWay DEF NightInv
<1>5. CASE FinishExport
  <2>1. UNCHANGED <<clock, rows, run, day, midnight, before, table, changed>>
    BY <1>5 DEF FinishExport, clock, rows
  <2>2. latest # None /\ latest'.taken = latest.taken /\ latest'.mode = latest.mode
        /\ latest'.rows = latest.rows
    BY <1>5 DEF FinishExport, TypeOK, Exports
  <2>3. ExportIsOfYesterday'
    BY <2>1, <2>2 DEF NightInv, ExportIsOfYesterday, Yesterdays
  <2>4. TodayIsChanged'
    BY <2>1 DEF NightInv, TodayIsChanged
  <2> QED
    BY <2>1, <2>3, <2>4, RunsStayOnTheirWay DEF NightInv
<1>6. CASE ExpireExport
  <2>1. UNCHANGED <<clock, rows, run, table, changed, day>> /\ latest' = None
    BY <1>6 DEF ExpireExport, clock, rows
  <2>2. ExportIsOfYesterday' /\ TodayIsChanged'
    BY <2>1 DEF NightInv, ExportIsOfYesterday, TodayIsChanged
  <2> QED
    BY <2>1, <2>2, RunsStayOnTheirWay DEF NightInv
<1>7. ASSUME NEW r \in Runs, NEW mode \in Modes, NEW start \in Days,
             FindLatestExport(r, mode, start)
      PROVE  NightInv'
  <2>1. /\ run'[r].todo = latest.rows /\ run'[r].metrics = {}
        /\ run'[r].pc = "process" /\ run'[r].taken = latest.taken
        /\ run'[r].source = latest.mode
        /\ latest # None
        /\ Others(r)
    BY <1>7, <1>0 DEF FindLatestExport, Idle
  <2>2. UNCHANGED <<clock, rows, latest, day, midnight>>
    BY <1>7 DEF FindLatestExport, clock
  <2>3. Wanted \subseteq Yesterdays
    BY DEF NightInv, MidnightIsPast, Wanted, Yesterdays
  <2>4. latest.taken <= day
        /\ (latest.mode = "incremental" /\ latest.taken = day => latest.rows = Yesterdays)
    BY <2>1 DEF NightInv, ExportIsOfYesterday
  <2>5. Yesterdays \subseteq midnight
    BY DEF Yesterdays
  <2>6. Wanted' = Wanted
    BY <2>2 DEF Wanted
  <2>7. RunIsOnItsWay(r)'
    BY <2>1, <2>2, <2>3, <2>4, <2>5, <2>6 DEF RunIsOnItsWay, IsNightly
  <2> QED
    BY <2>1, <2>2, <2>7, OneRunOnItsWay
<1>8. ASSUME NEW r \in Runs, ProcessItem(r) PROVE NightInv'
  <2>1. PICK e \in run[r].todo :
            run' = [run EXCEPT ![r] = [run[r] EXCEPT !.todo = run[r].todo \ {e},
                                                     !.metrics = LetIn(r, e)]]
    BY <1>8, Processed
  <2>2. /\ run'[r].todo = run[r].todo \ {e} /\ run'[r].metrics = LetIn(r, e)
        /\ run'[r].pc = run[r].pc /\ run'[r].mode = run[r].mode
        /\ run'[r].source = run[r].source /\ run'[r].taken = run[r].taken
        /\ Others(r)
    BY <1>0, <2>1 DEF RunRecords
  <2>3. UNCHANGED <<clock, rows, latest, day, midnight>>
    BY <1>8 DEF ProcessItem, clock
  <2>4. Wanted' = Wanted /\ run[r].pc = "process"
    BY <1>8, <2>3 DEF Wanted, ProcessItem
  <2>5. RunIsOnItsWay(r)
    BY DEF NightInv
  <2>6. ASSUME IsNightly(r)
        PROVE  /\ LetIn(r, e) \subseteq Wanted
               /\ Wanted \subseteq LetIn(r, e) \cup (run[r].todo \ {e})
    BY <2>5, <2>6 DEF RunIsOnItsWay, IsNightly, LetIn, ShouldIncludeDate, Wanted
  <2>7. IsNightly(r)' <=> IsNightly(r)
    BY <2>2, <2>3 DEF IsNightly
  <2>8. RunIsOnItsWay(r)'
    BY <2>2, <2>3, <2>4, <2>5, <2>6, <2>7 DEF RunIsOnItsWay
  <2> QED
    BY <2>2, <2>3, <2>8, OneRunOnItsWay
<1>9. ASSUME NEW r \in Runs, PublishAllMetrics(r) PROVE NightInv'
  <2>1. run' = [run EXCEPT ![r] = [run[r] EXCEPT !.pc = "write",
                                                 !.toWrite = DatesOf(run[r].metrics)]]
    BY <1>9, Published
  <2>2. /\ run'[r].todo = run[r].todo /\ run'[r].metrics = run[r].metrics
        /\ run'[r].mode = run[r].mode /\ run'[r].pc = "write"
        /\ run'[r].source = run[r].source /\ run'[r].taken = run[r].taken
        /\ Others(r)
    BY <1>0, <2>1 DEF RunRecords
  <2>3. UNCHANGED <<clock, rows, latest, day, midnight>>
        /\ run[r].todo = {} /\ run[r].pc = "process"
    BY <1>9 DEF PublishAllMetrics, clock
  <2>4. RunIsOnItsWay(r) /\ Wanted' = Wanted
    BY <2>3 DEF NightInv, Wanted
  <2>5. IsNightly(r)' <=> IsNightly(r)
    BY <2>2, <2>3 DEF IsNightly
  <2>6. RunIsOnItsWay(r)'
    BY <2>2, <2>3, <2>4, <2>5 DEF RunIsOnItsWay
  <2> QED
    BY <2>2, <2>3, <2>6, OneRunOnItsWay
<1>10. ASSUME NEW r \in Runs, WriteAnalyticsRecord(r) PROVE NightInv'
  <2>1. PICK d \in run[r].toWrite :
            run' = [run EXCEPT ![r] = [run[r] EXCEPT !.toWrite = run[r].toWrite \ {d}]]
    BY <1>10, Written
  <2>2. /\ run'[r].todo = run[r].todo /\ run'[r].metrics = run[r].metrics
        /\ run'[r].mode = run[r].mode /\ run'[r].pc = run[r].pc
        /\ run'[r].source = run[r].source /\ run'[r].taken = run[r].taken
        /\ Others(r)
    BY <1>0, <2>1 DEF RunRecords
  <2>3. UNCHANGED <<clock, rows, latest, day, midnight>>
    BY <1>10 DEF WriteAnalyticsRecord, clock
  <2>4. RunIsOnItsWay(r) /\ Wanted' = Wanted
    BY <2>3 DEF NightInv, Wanted
  <2>5. IsNightly(r)' <=> IsNightly(r)
    BY <2>2, <2>3 DEF IsNightly
  <2>6. RunIsOnItsWay(r)'
    BY <2>2, <2>3, <2>4, <2>5 DEF RunIsOnItsWay
  <2> QED
    BY <2>2, <2>3, <2>6, OneRunOnItsWay
<1>11. ASSUME NEW r \in Runs, Complete(r) \/ Fail(r) PROVE NightInv'
  <2>1. run'[r] = Idle /\ Others(r) /\ UNCHANGED <<clock, rows, latest, day>>
    BY <1>0, <1>11 DEF Complete, Fail, clock
  <2>2. RunIsOnItsWay(r)'
    BY <1>0, <2>1 DEF RunIsOnItsWay, IsNightly, Idle
  <2> QED
    BY <2>1, <2>2, OneRunOnItsWay
<1>12. CASE UNCHANGED vars
  <2>1. UNCHANGED <<clock, run, table, changed, day, midnight, before, latest>>
    BY <1>12 DEF vars, clock, rows
  <2>2. TodayIsChanged' /\ ExportIsOfYesterday'
    BY <2>1 DEF NightInv, TodayIsChanged, ExportIsOfYesterday, Yesterdays
  <2> QED
    BY <2>1, <2>2, RunsStayOnTheirWay DEF NightInv
<1>13. "incremental" \in Modes /\ "backfill" \in Modes /\ 0 \in Days
  BY DayNumbers DEF Modes
<1> QED
  BY <1>1, <1>2, <1>3, <1>4, <1>5, <1>6, <1>7, <1>8, <1>9, <1>10, <1>11, <1>12,
     <1>13, DayNumbers DEF Next

\* The incremental run over an export of its own day counts everything that happened
\* on the day before and was still there at its end, and nothing else.
THEOREM NightlyRunsAreComplete == Spec => []NightlyRunIsComplete
<1>1. TypeOK /\ NightInv /\ [Next]_vars => TypeOK' /\ NightInv'
  BY NextTypeOK, NextNight
<1>2. Init => TypeOK /\ NightInv
  BY InitTypeOK, InitNight
<1>3. NightInv => NightlyRunIsComplete
  BY DEF NightInv, RunIsOnItsWay, IsNightly, Wanted, NightlyRunIsComplete
<1> QED
  BY <1>1, <1>2, <1>3, PTL DEF Spec

=============================================================================
