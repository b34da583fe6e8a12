----------------------------- MODULE Analytics -----------------------------
(***************************************************************************)
(* The daily figures.  One Lambda asks DynamoDB for an export of the table *)
(* to S3: of yesterday's changes every night, of the whole table for a     *)
(* backfill.  The export is finished some time later.  Another Lambda      *)
(* takes the latest export, sorts its rows into days, publishes the        *)
(* figures to CloudWatch, whose dashboards show their sum, and puts one    *)
(* record a day into the analytics table.  Both run by schedule, and by    *)
(* hand at any time.                                                       *)
(*                                                                         *)
(* A figure is a number of rows, so what matters of a record are the rows  *)
(* it counts.  An entry is a row with the day it counts for: that of its   *)
(* last update for a session, of its creation for a party or a member.     *)
(* One app is modelled: the figures of two have nothing in common.         *)
(***************************************************************************)
EXTENDS Naturals, FiniteSets

CONSTANTS
    Sessions,       \* rows that count for the day of their last update
    Creations,      \* parties and members, for the day of their creation
    Runs,           \* invocations of the aggregator that overlap
    Starts,         \* the days that backfills start from
    LastDay,        \* bound: the clock stops here, and the API writes no more
    Cap,            \* bound: sums on the dashboards count up to here
    None

ASSUME RowsAreFinite == IsFiniteSet(Sessions) /\ IsFiniteSet(Creations)
ASSUME KindsDiffer == Sessions \cap Creations = {}
ASSUME BoundsAreNumbers == LastDay \in Nat /\ Cap \in Nat

Items == Sessions \cup Creations
Days == 0 .. LastDay
Entries == [item : Items, date : Days]

Modes == {"incremental", "backfill"}

Exports == [mode : Modes, rows : SUBSET Entries, taken : Days, finished : BOOLEAN]

ASSUME StartsAreDays == Starts \subseteq 0 .. LastDay

ASSUME NoneIsNoExport == None \notin Exports

VARIABLES
    day,
    table,      \* the entries of the rows in the table
    changed,    \* the rows written today
    midnight,   \* the table as it was when the day began
    before,     \* the rows written the day before
    latest,     \* the export with the latest prefix in the bucket
    run,        \* the aggregator's invocations
    record,     \* the entries that the analytics table counts
    total,      \* the sum of what has been published for each day
    active      \* every entry there has ever been

rows == <<table, changed, active>>
clock == <<day, midnight, before>>
figures == <<record, total>>
vars == <<clock, rows, latest, run, figures>>

Idle == [pc |-> "idle", mode |-> "incremental", start |-> 0, source |-> "incremental",
         taken |-> 0, todo |-> {}, metrics |-> {}, toWrite |-> {}]

Init ==
    /\ day = 0
    /\ table = {} /\ changed = {}
    /\ midnight = {} /\ before = {}
    /\ latest = None
    /\ run = [r \in Runs |-> Idle]
    /\ record = {}
    /\ total = [d \in Days |-> 0]
    /\ active = {}

-----------------------------------------------------------------------------
(***************************************************************************)
(* The table, as the API writes it.                                        *)
(***************************************************************************)
Of(i, entries) == {e \in entries : e.item = i}

Today(i) == [item |-> i, date |-> day]

\* Mutant: every day has a row of its own.
UpsertBesides(i) ==
    /\ day < LastDay
    /\ changed' = changed \cup {i}
    /\ \/ /\ i \in Sessions \/ Of(i, table) = {}
          /\ table' = table \cup {Today(i)}
          /\ active' = active \cup {Today(i)}
       \/ /\ i \in Creations /\ Of(i, table) # {}
          /\ UNCHANGED <<table, active>>
    /\ UNCHANGED <<clock, latest, run, figures>>

\* An upsert sets updatedAt, and createdAt if there is none.
Upsert(i) ==
    /\ day < LastDay
    /\ changed' = changed \cup {i}
    /\ \/ /\ i \in Sessions \/ Of(i, table) = {}
          /\ table' = (table \ Of(i, table)) \cup {Today(i)}
          /\ active' = active \cup {Today(i)}
       \/ /\ i \in Creations /\ Of(i, table) # {}
          /\ UNCHANGED <<table, active>>
    /\ UNCHANGED <<clock, latest, run, figures>>

Destroy(i) ==
    /\ day < LastDay
    /\ Of(i, table) # {}
    /\ table' = table \ Of(i, table)
    /\ changed' = changed \cup {i}
    /\ UNCHANGED <<clock, active, latest, run, figures>>

Midnight ==
    /\ day < LastDay
    /\ day' = day + 1
    /\ midnight' = table
    /\ before' = changed
    /\ changed' = {}
    /\ UNCHANGED <<table, active, latest, run, figures>>

-----------------------------------------------------------------------------
(***************************************************************************)
(* The export.                                                             *)
(***************************************************************************)

\* Mutant: the window of the export ends now, not at midnight.
YesterdaysUntilNow == {e \in table : e.item \in before \cup changed}

\* An incremental export has the rows that changed yesterday, as they were at the
\* end of that day; deleted ones have no new image.
Yesterdays == {e \in midnight : e.item \in before}

StartExport(mode) ==
    /\ latest' = [mode |-> mode, taken |-> day, finished |-> FALSE,
                  rows |-> IF mode = "incremental" THEN Yesterdays ELSE table]
    /\ UNCHANGED <<clock, rows, run, figures>>

\* DynamoDB writes the manifest last.
FinishExport ==
    /\ latest # None
    /\ latest' = [latest EXCEPT !.finished = TRUE]
    /\ UNCHANGED <<clock, rows, run, figures>>

\* The bucket keeps an export for a day.
ExpireExport ==
    /\ latest # None
    /\ latest.taken < day
    /\ latest' = None
    /\ UNCHANGED <<clock, rows, run, figures>>

-----------------------------------------------------------------------------
(***************************************************************************)
(* The aggregator.                                                         *)
(***************************************************************************)

\* The latest export is found and its manifest read; there is none before it is
\* finished, and the run throws.
FindLatestExport(r, mode, start) ==
    /\ run[r].pc = "idle"
    /\ latest # None
    /\ latest.finished
    /\ run' = [run EXCEPT ![r] = [Idle EXCEPT
                  !.pc = "process", !.mode = mode, !.start = start,
                  !.source = latest.mode, !.taken = latest.taken, !.todo = latest.rows]]
    /\ UNCHANGED <<clock, rows, latest, figures>>

\* Mutant: today is a day to backfill.
IncludeToday(date, mode, start) ==
    IF mode = "incremental" THEN date + 1 = day
    ELSE start <= date /\ date <= day

\* The clock is read for every row.
ShouldIncludeDate(date, mode, start) ==
    IF mode = "incremental" THEN date + 1 = day
    ELSE start <= date /\ date + 1 <= day

ProcessItem(r) ==
    /\ run[r].pc = "process"
    /\ \E e \in run[r].todo :
          run' = [run EXCEPT
              ![r].todo = @ \ {e},
              ![r].metrics = IF ShouldIncludeDate(e.date, run[r].mode, run[r].start)
                             THEN @ \cup {e} ELSE @]
    /\ UNCHANGED <<clock, rows, latest, figures>>

DatesOf(entries) == {e.date : e \in entries}
Dated(d, entries) == {e \in entries : e.date = d}

Capped(n) == IF n > Cap THEN Cap ELSE n

\* The figures of all days are published at once, each of them or not.
PublishAllMetrics(r) ==
    /\ run[r].pc = "process"
    /\ run[r].todo = {}
    /\ \E published \in SUBSET DatesOf(run[r].metrics) :
          total' = [d \in Days |->
              IF d \in published
              THEN Capped(total[d] + Cardinality(Dated(d, run[r].metrics)))
              ELSE total[d]]
    /\ run' = [run EXCEPT ![r].pc = "write", ![r].toWrite = DatesOf(run[r].metrics)]
    /\ UNCHANGED <<clock, rows, latest, record>>

\* The record of a day is put, or the failure is logged; the run ends after the last.
WriteAnalyticsRecord(r) ==
    /\ run[r].pc = "write"
    /\ \E d \in run[r].toWrite :
          /\ \/ record' = (record \ Dated(d, record)) \cup Dated(d, run[r].metrics)
             \/ record' = record
          /\ run' = [run EXCEPT ![r].toWrite = @ \ {d}]
    /\ UNCHANGED <<clock, rows, latest, total>>

Complete(r) ==
    /\ run[r].pc = "write"
    /\ run[r].toWrite = {}
    /\ run' = [run EXCEPT ![r] = Idle]
    /\ UNCHANGED <<clock, rows, latest, figures>>

\* A file cannot be read, or the Lambda ends.
Fail(r) ==
    /\ run[r].pc # "idle"
    /\ run' = [run EXCEPT ![r] = Idle]
    /\ UNCHANGED <<clock, rows, latest, figures>>

Next ==
    \/ \E i \in Items : Upsert(i) \/ Destroy(i)
    \/ Midnight
    \/ \E mode \in Modes : StartExport(mode)
    \/ FinishExport
    \/ ExpireExport
    \/ \E r \in Runs :
          \/ FindLatestExport(r, "incremental", 0)
          \/ \E start \in Starts : FindLatestExport(r, "backfill", start)
          \/ ProcessItem(r)
          \/ PublishAllMetrics(r)
          \/ WriteAnalyticsRecord(r)
          \/ Complete(r)
          \/ Fail(r)

Spec == Init /\ [][Next]_vars

-----------------------------------------------------------------------------
(***************************************************************************)
(* Properties.                                                             *)
(***************************************************************************)
RunRecords ==
    [pc : {"idle", "process", "write"}, mode : Modes, start : Days, source : Modes,
     taken : Days, todo : SUBSET Entries, metrics : SUBSET Entries, toWrite : SUBSET Days]

\* Every variable keeps to its type, and a row has one entry at most in the table.
TypeOK ==
    /\ day \in Days
    /\ table \subseteq Entries /\ midnight \subseteq Entries
    /\ \A e, f \in table : e.item = f.item => e = f
    /\ changed \subseteq Items /\ before \subseteq Items
    /\ latest \in Exports \cup {None}
    /\ run \in [Runs -> RunRecords]
    /\ record \subseteq Entries /\ active \subseteq Entries
    /\ total \in [Days -> 0 .. Cap]

\* A record counts only what really happened on its day, and no record is written
\* for a day that is not over: whichever export a run takes, whatever midnight it
\* runs over, and however often it is repeated.
RecordsAreTrue == record \subseteq active /\ \A e \in record : e.date < day

\* The run of the night counts, for the day before, everything that happened on it
\* and was still there at its end, and nothing else: rows written again or deleted
\* since midnight do not matter.  It is one in incremental mode, over an incremental
\* export of the same day.
NightlyRunIsComplete ==
    \A r \in Runs :
        /\ run[r].pc = "write"
        /\ run[r].mode = "incremental"
        /\ run[r].source = "incremental"
        /\ run[r].taken = day
        => run[r].metrics = {e \in midnight : e.date + 1 = day}

\* docs/analytics-backfill.md: "The backfill process is idempotent".  However often
\* the aggregator is run, the dashboards show no more than there was.
DashboardsCountOnce == \A d \in Days : total[d] <= Cardinality(Dated(d, active))

=============================================================================
