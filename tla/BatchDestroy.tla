---------------------------- MODULE BatchDestroy ----------------------------
(***************************************************************************)
(* batchDestroy of the DynamoDB adapter, by which an account's rows are    *)
(* deleted: the items in batches, each batch sent again for what DynamoDB  *)
(* left unprocessed, each send retried with a backoff while it throws.     *)
(* A send whose answer is lost, or that fails half way, may have deleted   *)
(* any of its rows.                                                        *)
(*                                                                         *)
(* items is a list without duplicates whose order nothing depends on (it   *)
(* is what a query returned), so a batch is any BatchSize of what remains. *)
(* removed, tried and sends record the past; no guard reads them.          *)
(***************************************************************************)
EXTENDS Integers, FiniteSets

CONSTANTS
    Rows,         \* the keys of the table
    BatchSize,    \* 25
    MaxRetries    \* MAX_RETRIES, of both loops

ASSUME RowsAreFinite == IsFiniteSet(Rows)
ASSUME BatchesHoldSomething == BatchSize \in Nat \ {0}
ASSUME SomethingIsTried == MaxRetries \in Nat \ {0}

VARIABLES
    table,      \* the rows that are stored
    items,      \* what batchDestroy was called with
    rest,       \* the items of the batches still to come
    pending,    \* params.RequestItems of the batch being written
    attempt,    \* how often its unprocessed items have been sent again
    tries,      \* how often backOff has sent this request without an answer
    inFlight,   \* whether a send waits for its answer
    done,       \* the rows the send in flight has deleted
    errors,     \* the batches that failed
    outcome,    \* "running", "returned" or "thrown"
    removed,    \* the items this call has deleted at least once
    tried,      \* the items this call has sent at least once
    sends       \* the sends of this call, counted to one above their limit

batch == <<rest, pending, attempt, tries>>
history == <<removed, tried, sends>>
vars == <<table, items, batch, inFlight, done, errors, outcome, history>>

Init ==
    /\ table \in SUBSET Rows
    /\ items \in SUBSET Rows
    /\ rest = items
    /\ pending = {}
    /\ attempt = 0
    /\ tries = 0
    /\ inFlight = FALSE
    /\ done = {}
    /\ errors = 0
    /\ outcome = "running"
    /\ removed = {}
    /\ tried = {}
    /\ sends = 0

-----------------------------------------------------------------------------
Working == outcome = "running" /\ ~inFlight

\* What the next batch may be: BatchSize of what remains, fewer in the last.
Slices ==
    {S \in SUBSET rest :
        Cardinality(S) = IF Cardinality(rest) < BatchSize THEN Cardinality(rest)
                                                          ELSE BatchSize}

NextBatch ==
    /\ Working
    /\ pending = {}
    /\ rest # {}
    /\ \E S \in Slices : pending' = S /\ rest' = rest \ S
    /\ attempt' = 0
    /\ tries' = 0
    /\ UNCHANGED <<table, items, inFlight, done, errors, outcome, history>>

Batches(n) == (n + BatchSize - 1) \div BatchSize

\* The product of the loops: the sends of every batch, each try of each attempt.
SendsPerBatch == (MaxRetries + 1) * MaxRetries
SendLimit == Batches(Cardinality(items)) * SendsPerBatch

Send ==
    /\ Working
    /\ pending # {}
    /\ attempt <= MaxRetries
    /\ inFlight' = TRUE
    /\ done' = {}
    /\ tried' = tried \cup pending
    /\ sends' = IF sends > SendLimit THEN sends ELSE sends + 1
    /\ UNCHANGED <<table, items, batch, errors, outcome, removed>>

\* Mutant: a row is deleted that the request does not name.
DeleteAny(k) ==
    /\ inFlight
    /\ k \notin done
    /\ table' = table \ {k}
    /\ done' = done \cup {k}
    /\ removed' = removed \cup {k}
    /\ UNCHANGED <<items, batch, inFlight, errors, outcome, tried, sends>>

\* DynamoDB works through the request row by row.
Delete(k) ==
    /\ inFlight
    /\ k \in pending \ done
    /\ table' = table \ {k}
    /\ done' = done \cup {k}
    /\ removed' = removed \cup {k}
    /\ UNCHANGED <<items, batch, inFlight, errors, outcome, tried, sends>>

\* Mutant: an answer, whatever it leaves unprocessed, ends the batch.
AnsweredForAll ==
    /\ inFlight
    /\ inFlight' = FALSE
    /\ pending' = {}
    /\ attempt' = attempt + 1
    /\ tries' = 0
    /\ UNCHANGED <<table, items, rest, done, errors, outcome, history>>

\* The answer names what was left unprocessed; that is sent again, or the batch
\* is finished.
Answered ==
    /\ inFlight
    /\ inFlight' = FALSE
    /\ pending' = pending \ done
    /\ attempt' = attempt + 1
    /\ tries' = 0
    /\ UNCHANGED <<table, items, rest, done, errors, outcome, history>>

\* Mutant: the attempt is not counted when the request never got an answer.
SendThrowsUncounted ==
    /\ inFlight
    /\ inFlight' = FALSE
    /\ tries' = IF tries + 1 < MaxRetries THEN tries + 1 ELSE 0
    /\ UNCHANGED <<table, items, rest, pending, attempt, done, errors, outcome, history>>

\* Mutant: one try too many before the request counts as unprocessed.
SendThrowsOnceMore ==
    /\ inFlight
    /\ inFlight' = FALSE
    /\ IF tries < MaxRetries
       THEN tries' = tries + 1 /\ UNCHANGED attempt
       ELSE tries' = 0 /\ attempt' = attempt + 1
    /\ UNCHANGED <<table, items, rest, pending, done, errors, outcome, history>>

\* The send throws: it is tried again, and after the last try the whole
\* request counts as unprocessed.
SendThrows ==
    /\ inFlight
    /\ inFlight' = FALSE
    /\ IF tries + 1 < MaxRetries
       THEN tries' = tries + 1 /\ UNCHANGED attempt
       ELSE tries' = 0 /\ attempt' = attempt + 1
    /\ UNCHANGED <<table, items, rest, pending, done, errors, outcome, history>>

\* Mutant: the first failed batch is not caught.
EndBatchAndAll ==
    /\ Working
    /\ pending # {}
    /\ attempt > MaxRetries
    /\ pending' = {}
    /\ rest' = {}
    /\ errors' = errors + 1
    /\ UNCHANGED <<table, items, attempt, tries, inFlight, done, outcome, history>>

\* "reached max retries": the error is kept, and the next batch has its turn.
FailBatch ==
    /\ Working
    /\ pending # {}
    /\ attempt > MaxRetries
    /\ pending' = {}
    /\ errors' = errors + 1
    /\ UNCHANGED <<table, items, rest, attempt, tries, inFlight, done, outcome, history>>

Finish ==
    /\ Working
    /\ pending = {}
    /\ rest = {}
    /\ outcome' = IF errors = 0 THEN "returned" ELSE "thrown"
    /\ UNCHANGED <<table, items, batch, inFlight, done, errors, history>>

\* Other requests write rows, also the ones being deleted, and delete rows.
Write(k) ==
    /\ table' = table \cup {k}
    /\ UNCHANGED <<items, batch, inFlight, done, errors, outcome, history>>

Vanish(k) ==
    /\ table' = table \ {k}
    /\ UNCHANGED <<items, batch, inFlight, done, errors, outcome, history>>

Step ==
    \/ NextBatch
    \/ Send
    \/ Answered
    \/ SendThrows
    \/ FailBatch
    \/ Finish

Next ==
    \/ Step
    \/ \E k \in Rows : Delete(k) \/ Write(k) \/ Vanish(k)

\* The call itself is one sequence of awaits: it goes on as long as the process
\* lives and the SDK answers or throws, which its own timeouts see to.  Nothing
\* makes DynamoDB delete a row, or others write.
Spec == Init /\ [][Next]_vars /\ WF_vars(Step)

-----------------------------------------------------------------------------
TypeOK ==
    /\ table \subseteq Rows
    /\ items \subseteq Rows
    /\ rest \subseteq items
    /\ pending \subseteq items
    /\ done \subseteq pending \cup removed
    /\ attempt \in 0 .. MaxRetries + 1
    /\ tries \in 0 .. MaxRetries - 1
    /\ inFlight \in BOOLEAN
    /\ errors \in Nat
    /\ outcome \in {"running", "returned", "thrown"}
    /\ removed \subseteq items
    /\ tried \subseteq items
    /\ sends \in Nat

\* Whatever fails on the way, every item has been sent to DynamoDB at least once
\* before the call ends: a batch that fails does not take the later ones along.
EveryItemTried == outcome # "running" => tried = items

\* The two nested retry loops stay within their product for every batch, which
\* is what keeps a caller that waits for the call from waiting forever.
SendsBounded == sends <= SendLimit

\* The call ends, in one way or the other, whatever DynamoDB answers and
\* whatever others write.
Ends == <>(outcome # "running")

Contract == INSTANCE DestroyContract WITH
    asked <- items,
    left <- items \ removed

\* A normal return means that every item has been deleted, also when answers
\* were lost and batches sent again; nothing else is ever deleted.
ImplementsDestroyContract == Contract!Spec

=============================================================================
