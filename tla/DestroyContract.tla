-------------------------- MODULE DestroyContract --------------------------
(***************************************************************************)
(* What a bulk deletion promises its caller: it removes rows it was asked  *)
(* to remove and no others, one by one and not all at once, and when it    *)
(* returns normally each of them has been removed.  When it throws, any of *)
(* them may be left.  Others write and delete rows all the while, also the *)
(* rows that are being removed or have just been.                          *)
(* BatchDestroy, with its batches and its retries, implements this module. *)
(***************************************************************************)
CONSTANT Rows

VARIABLES
    table,      \* the rows that are stored
    asked,      \* the rows this call is to remove
    left,       \* those of them it has not removed yet
    outcome     \* "running", "returned" or "thrown"

vars == <<table, asked, left, outcome>>

Init ==
    /\ table \in SUBSET Rows
    /\ asked \in SUBSET Rows
    /\ left = asked
    /\ outcome = "running"

Remove(k) ==
    /\ outcome = "running"
    /\ k \in asked
    /\ table' = table \ {k}
    /\ left' = left \ {k}
    /\ UNCHANGED <<asked, outcome>>

Return ==
    /\ outcome = "running"
    /\ left = {}
    /\ outcome' = "returned"
    /\ UNCHANGED <<table, asked, left>>

Throw ==
    /\ outcome = "running"
    /\ outcome' = "thrown"
    /\ UNCHANGED <<table, asked, left>>

Write(k) ==
    /\ table' = table \cup {k}
    /\ UNCHANGED <<asked, left, outcome>>

Vanish(k) ==
    /\ table' = table \ {k}
    /\ UNCHANGED <<asked, left, outcome>>

Next ==
    \/ \E k \in Rows : Remove(k) \/ Write(k) \/ Vanish(k)
    \/ Return
    \/ Throw

Spec == Init /\ [][Next]_vars

=============================================================================
