------------------------- MODULE BatchDestroyProofs -------------------------
(***************************************************************************)
(* That batchDestroy keeps its contract, sends every item, and stays       *)
(* within its retries, for lists, batch sizes and retry limits of any      *)
(* size.                                                                   *)
(***************************************************************************)
EXTENDS BatchDestroy, FiniteSetTheorems, TLAPS

\* Where an item can be: in a batch to come, in the one being written, or in one
\* that is over, which has sent it; without a failed batch it is then deleted.
\* A request that is in flight, or has been given up, has been sent.
ItemsAccountedFor ==
    /\ items \subseteq rest \cup pending \cup tried
    /\ errors = 0 => items \subseteq rest \cup pending \cup removed
    /\ inFlight \/ attempt > 0 => pending \subseteq tried
    /\ done \subseteq removed
    /\ inFlight => outcome = "running" /\ attempt <= MaxRetries
    /\ outcome # "running" => rest = {} /\ pending = {}
    /\ outcome = "returned" => errors = 0

Inv == TypeOK /\ ItemsAccountedFor

LEMMA InitInv == Init => Inv
<1> SUFFICES ASSUME Init PROVE Inv
  OBVIOUS
<1>1. TypeOK
  <2>1. 0 \in 0 .. MaxRetries + 1 /\ 0 \in 0 .. MaxRetries - 1 /\ 0 \in Nat
    BY SomethingIsTried
  <2> QED BY <2>1 DEF Init, TypeOK
<1>2. ItemsAccountedFor
  BY DEF Init, ItemsAccountedFor
<1> QED BY <1>1, <1>2 DEF Inv

\* The counters of the two loops, as numbers.
LEMMA Counters ==
  Inv => /\ MaxRetries \in Nat /\ MaxRetries >= 1
         /\ attempt \in Nat /\ attempt <= MaxRetries + 1
         /\ tries \in Nat /\ tries < MaxRetries
  BY SomethingIsTried DEF Inv, TypeOK

\* Each step keeps the invariant.
LEMMA StepInv == Inv /\ [Next]_vars => Inv'
<1> SUFFICES ASSUME Inv, [Next]_vars PROVE Inv'
  OBVIOUS
<1>c. /\ MaxRetries \in Nat /\ MaxRetries >= 1
      /\ attempt \in Nat /\ attempt <= MaxRetries + 1
      /\ tries \in Nat /\ tries < MaxRetries
  BY Counters
<1> USE DEF Inv, TypeOK, ItemsAccountedFor, Working, batch, history
<1>1. CASE NextBatch
  <2>0. 0 \in 0 .. MaxRetries + 1 /\ 0 \in 0 .. MaxRetries - 1
    BY <1>c
  <2> QED BY <1>1, <2>0 DEF NextBatch, Slices
<1>2. CASE Send
  BY <1>2 DEF Send
<1>3. CASE Answered
  <2>0. attempt' \in 0 .. MaxRetries + 1 /\ tries' \in 0 .. MaxRetries - 1
    BY <1>3, <1>c DEF Answered
  <2>1. TypeOK'
    BY <1>3, <2>0 DEF Answered
  <2>2. ItemsAccountedFor'
    BY <1>3 DEF Answered
  <2> QED BY <2>1, <2>2
<1>4. CASE SendThrows
  <2>0. attempt' \in 0 .. MaxRetries + 1 /\ tries' \in 0 .. MaxRetries - 1
    BY <1>4, <1>c DEF SendThrows
  <2>1. TypeOK'
    BY <1>4, <2>0 DEF SendThrows
  <2>2. ItemsAccountedFor'
    BY <1>4 DEF SendThrows
  <2> QED BY <2>1, <2>2
<1>5. CASE FailBatch
  <2>0. attempt > 0 /\ errors' \in Nat /\ errors' # 0
    BY <1>5, <1>c DEF FailBatch
  <2> QED BY <1>5, <2>0 DEF FailBatch
<1>6. CASE Finish
  BY <1>6 DEF Finish
<1>7. ASSUME NEW k \in Rows, Delete(k) PROVE Inv'
  BY <1>7 DEF Delete
<1>8. ASSUME NEW k \in Rows, Write(k) \/ Vanish(k) PROVE Inv'
  BY <1>8 DEF Write, Vanish
<1>9. CASE UNCHANGED vars
  BY <1>9 DEF vars
<1> QED
  BY <1>1, <1>2, <1>3, <1>4, <1>5, <1>6, <1>7, <1>8, <1>9 DEF Next, Step

LEMMA Invariance == Spec => []Inv
<1> QED BY InitInv, StepInv, PTL DEF Spec

\* The variables keep their types.
THEOREM TypeCorrect == Spec => []TypeOK
<1>1. Inv => TypeOK
  BY DEF Inv
<1> QED BY Invariance, <1>1, PTL

\* A failed batch does not take the later ones along.
THEOREM EveryItemIsTried == Spec => []EveryItemTried
<1>1. Inv => EveryItemTried
  BY DEF Inv, TypeOK, ItemsAccountedFor, EveryItemTried
<1> QED BY Invariance, <1>1, PTL

LEMMA InitRefines == Init => Contract!Init
  BY DEF Init, Contract!Init

LEMMA StepRefines == Inv /\ [Next]_vars => [Contract!Next]_Contract!vars
<1> SUFFICES ASSUME Inv, [Next]_vars PROVE [Contract!Next]_Contract!vars
  OBVIOUS
<1> USE DEF batch, history, Contract!vars
<1>1. CASE NextBatch
  BY <1>1 DEF NextBatch
<1>2. CASE Send
  BY <1>2 DEF Send
<1>3. CASE Answered
  BY <1>3 DEF Answered
<1>4. CASE SendThrows
  BY <1>4 DEF SendThrows
<1>5. CASE FailBatch
  BY <1>5 DEF FailBatch
<1>6. CASE Finish
  <2>1. CASE errors = 0
    <3>1. items \ removed = {}
      BY <1>6, <2>1 DEF Finish, Inv, TypeOK, ItemsAccountedFor
    <3> QED BY <1>6, <2>1, <3>1 DEF Finish, Working, Contract!Next, Contract!Return
  <2>2. CASE errors # 0
    BY <1>6, <2>2 DEF Finish, Working, Contract!Next, Contract!Throw
  <2> QED BY <2>1, <2>2
<1>7. ASSUME NEW k \in Rows, Delete(k) PROVE Contract!Next
  <2>1. Contract!Remove(k)
    BY <1>7 DEF Delete, Inv, TypeOK, ItemsAccountedFor, Contract!Remove
  <2> QED BY <2>1 DEF Contract!Next
<1>8. ASSUME NEW k \in Rows, Write(k) PROVE Contract!Next
  <2>1. Contract!Write(k)
    BY <1>8 DEF Write, Contract!Write
  <2> QED BY <2>1 DEF Contract!Next
<1>9. ASSUME NEW k \in Rows, Vanish(k) PROVE Contract!Next
  <2>1. Contract!Vanish(k)
    BY <1>9 DEF Vanish, Contract!Vanish
  <2> QED BY <2>1 DEF Contract!Next
<1>10. CASE UNCHANGED vars
  BY <1>10 DEF vars
<1> QED
  BY <1>1, <1>2, <1>3, <1>4, <1>5, <1>6, <1>7, <1>8, <1>9, <1>10 DEF Next, Step

\* A normal return means that every item was deleted, and nothing else ever is.
THEOREM DestroysAsPromised == Spec => ImplementsDestroyContract
<1>1. Spec => Init /\ [][Next]_vars
  BY PTL DEF Spec
<1> QED
  BY InitRefines, StepRefines, Invariance, <1>1, PTL DEF Contract!Spec, ImplementsDestroyContract

-----------------------------------------------------------------------------
(***************************************************************************)
(* How often the call sends, and that it comes to an end.                  *)
(***************************************************************************)

\* The sends the batch being written has left, the one in flight included.
SendsOfBatch ==
    IF pending = {} THEN 0 ELSE (MaxRetries + 1 - attempt) * MaxRetries - tries

SendsToCome == Batches(Cardinality(rest)) * SendsPerBatch + SendsOfBatch

InFlight == IF inFlight THEN 1 ELSE 0

\* The sends so far and those to come stay within the limit; a request that has
\* used up its attempts has no tries left over, or the next batch would get them.
Budget ==
    /\ sends + SendsToCome - InFlight <= SendLimit
    /\ inFlight => pending # {}
    /\ attempt = MaxRetries + 1 => tries = 0

\* The steps the call has left if every send fails: two for each send, for each
\* batch its beginning and its failure, and the end of the call.
StepsToCome ==
    2 * SendsToCome - InFlight + 2 * Batches(Cardinality(rest))
      + (IF pending = {} THEN 0 ELSE 1) + (IF outcome = "running" THEN 1 ELSE 0)

\* Batches are counted up; a full batch less is one batch less.
LEMMA BatchesCounted ==
    ASSUME NEW n \in Nat
    PROVE  /\ Batches(n) \in Nat
           /\ n = 0 => Batches(n) = 0
           /\ 0 < n /\ n <= BatchSize => Batches(n) = 1
           /\ n > BatchSize => Batches(n) = Batches(n - BatchSize) + 1
<1>1. BatchSize \in Nat /\ BatchSize > 0
  BY BatchesHoldSomething
<1>2. Batches(n) \in Nat
  BY <1>1 DEF Batches
<1>3. n = 0 => Batches(n) = 0
  BY <1>1 DEF Batches
<1>4. 0 < n /\ n <= BatchSize => Batches(n) = 1
  BY <1>1 DEF Batches
<1>5. n > BatchSize => Batches(n) = Batches(n - BatchSize) + 1
  BY <1>1 DEF Batches
<1> QED BY <1>2, <1>3, <1>4, <1>5

\* What is left is a finite list.
LEMMA RestIsFinite ==
    Inv => /\ IsFiniteSet(rest) /\ Cardinality(rest) \in Nat
           /\ Batches(Cardinality(rest)) \in Nat
<1> SUFFICES ASSUME Inv
             PROVE  /\ IsFiniteSet(rest) /\ Cardinality(rest) \in Nat
                    /\ Batches(Cardinality(rest)) \in Nat
  OBVIOUS
<1>1. rest \subseteq Rows
  BY DEF Inv, TypeOK
<1>2. IsFiniteSet(rest)
  BY <1>1, RowsAreFinite, FS_Subset
<1>3. Cardinality(rest) \in Nat
  BY <1>2, FS_CardinalityType
<1> QED BY <1>2, <1>3, BatchesCounted

\* Cutting a batch off leaves one batch less.
LEMMA SliceIsABatch ==
    ASSUME Inv, rest # {}, NEW S \in Slices
    PROVE  /\ S # {}
           /\ Batches(Cardinality(rest \ S)) \in Nat
           /\ Batches(Cardinality(rest)) = Batches(Cardinality(rest \ S)) + 1
<1> DEFINE n == Cardinality(rest)
           m == Cardinality(rest \ S)
<1>1. IsFiniteSet(rest) /\ n \in Nat
  BY RestIsFinite
<1>2. n # 0
  BY <1>1, FS_EmptySet
<1>3. BatchSize \in Nat /\ BatchSize > 0
  BY BatchesHoldSomething
<1>4. S \subseteq rest /\ Cardinality(S) = IF n < BatchSize THEN n ELSE BatchSize
  BY DEF Slices
<1>5. S # {}
  BY <1>1, <1>2, <1>3, <1>4, FS_EmptySet
<1>6. m = n - Cardinality(S)
  <2>1. m = n - Cardinality(rest \cap S)
    BY <1>1, FS_Difference
  <2>2. rest \cap S = S
    BY <1>4
  <2> QED BY <2>1, <2>2
<1>7. m \in Nat /\ (n < BatchSize => m = 0) /\ (n >= BatchSize => m = n - BatchSize)
  BY <1>1, <1>3, <1>4, <1>6
<1> HIDE DEF n, m
<1>8. Batches(m) \in Nat /\ Batches(n) = Batches(m) + 1
  <2>1. CASE n < BatchSize
    BY <1>1, <1>2, <1>3, <1>7, <2>1, BatchesCounted
  <2>2. CASE n = BatchSize
    BY <1>1, <1>2, <1>3, <1>7, <2>2, BatchesCounted
  <2>3. CASE n > BatchSize
    BY <1>1, <1>3, <1>7, <2>3, BatchesCounted
  <2> QED BY <1>1, <1>3, <2>1, <2>2, <2>3
<1> QED BY <1>5, <1>8 DEF n, m

\* What a batch has left to send is a number: nothing once its attempts are used
\* up, and at least one send before.
LEMMA SendsAreCounted ==
    ASSUME Inv, Budget
    PROVE  /\ SendsPerBatch \in Nat
           /\ SendsOfBatch \in Nat
           /\ SendsToCome \in Nat
           /\ pending # {} /\ attempt <= MaxRetries => SendsOfBatch >= 1
           /\ pending # {} /\ attempt > MaxRetries => SendsOfBatch = 0
<1>1. /\ MaxRetries \in Nat /\ MaxRetries >= 1
      /\ attempt \in Nat /\ attempt <= MaxRetries + 1
      /\ tries \in Nat /\ tries < MaxRetries
  BY Counters
<1>2. SendsPerBatch \in Nat
  BY <1>1 DEF SendsPerBatch
<1>3. ASSUME pending # {}, attempt <= MaxRetries
      PROVE  SendsOfBatch \in Nat /\ SendsOfBatch >= 1
  <2> DEFINE a == MaxRetries - attempt
  <2>1. a \in Nat
    BY <1>1, <1>3
  <2>2. SendsOfBatch = a * MaxRetries + (MaxRetries - tries)
    BY <1>1, <1>3 DEF SendsOfBatch
  <2>3. a * MaxRetries \in Nat
    BY <1>1, <2>1
  <2> QED BY <1>1, <2>2, <2>3
<1>4. ASSUME pending # {}, attempt > MaxRetries
      PROVE  SendsOfBatch = 0
  BY <1>1, <1>4 DEF SendsOfBatch, Budget
<1>5. SendsOfBatch \in Nat
  BY <1>1, <1>3, <1>4 DEF SendsOfBatch
<1>6. SendsToCome \in Nat
  <2>1. Batches(Cardinality(rest)) \in Nat
    BY RestIsFinite
  <2> QED BY <1>2, <1>5, <2>1 DEF SendsToCome
<1> QED BY <1>2, <1>3, <1>4, <1>5, <1>6

\* Every step of the call uses up something: it keeps to the budget, and leaves
\* fewer steps than there were.
Spends ==
    /\ sends' + SendsToCome' - InFlight' <= sends + SendsToCome - InFlight
    /\ StepsToCome' < StepsToCome
    /\ Budget'

LEMMA StepSpends ==
    ASSUME Inv, Budget, Step
    PROVE  Spends
<1> DEFINE b == Batches(Cardinality(rest))
<1>c. /\ MaxRetries \in Nat /\ MaxRetries >= 1
      /\ attempt \in Nat /\ attempt <= MaxRetries + 1
      /\ tries \in Nat /\ tries < MaxRetries
      /\ sends \in Nat /\ sends' \in Nat
  <2>1. Inv'
    BY StepInv DEF Next
  <2> QED BY <2>1, Counters DEF Inv, TypeOK
<1>b. b \in Nat
  BY RestIsFinite
<1>s. /\ SendsPerBatch \in Nat
      /\ SendsOfBatch \in Nat
      /\ pending # {} /\ attempt <= MaxRetries => SendsOfBatch >= 1
      /\ pending # {} /\ attempt > MaxRetries => SendsOfBatch = 0
  BY SendsAreCounted
<1>p. \A x, y \in Nat : x = y + 1 => x * SendsPerBatch = y * SendsPerBatch + SendsPerBatch
  BY <1>s
<1>m. b * SendsPerBatch \in Nat
  BY <1>b, <1>s
<1>l. SendLimit' = SendLimit /\ SendLimit \in Int
  <2>1. items' = items
    BY DEF Step, NextBatch, Send, Answered, SendThrows, FailBatch, Finish, batch, history
  <2>2. IsFiniteSet(items)
    BY RowsAreFinite, FS_Subset DEF Inv, TypeOK
  <2>3. Batches(Cardinality(items)) \in Nat
    BY <2>2, FS_CardinalityType, BatchesCounted
  <2> QED BY <2>1, <2>3, <1>s DEF SendLimit
<1> USE DEF Working, batch, history
<1>1. CASE NextBatch
  <2>1. PICK S \in Slices : pending' = S /\ rest' = rest \ S
    BY <1>1 DEF NextBatch
  <2>2. S # {} /\ b' \in Nat /\ b = b' + 1
    BY <1>1, <2>1, SliceIsABatch DEF NextBatch
  <2>3. SendsOfBatch = 0 /\ SendsOfBatch' = SendsPerBatch
    <3>1. SendsOfBatch = 0
      BY <1>1 DEF NextBatch, SendsOfBatch
    <3>2. SendsOfBatch' = (MaxRetries + 1 - 0) * MaxRetries - 0
      BY <1>1, <2>1, <2>2 DEF NextBatch, SendsOfBatch
    <3> QED BY <3>1, <3>2, <1>c, <1>s DEF SendsPerBatch
  <2>4. SendsToCome' = SendsToCome /\ SendsToCome \in Nat
    <3>1. b * SendsPerBatch = b' * SendsPerBatch + SendsPerBatch
      BY <1>b, <1>p, <2>2
    <3>2. SendsPerBatch' = SendsPerBatch
      BY DEF SendsPerBatch
    <3>3. b' * SendsPerBatch \in Nat
      BY <2>2, <1>s
    <3> QED BY <1>s, <2>3, <3>1, <3>2, <3>3 DEF SendsToCome
  <2>5. InFlight' = 0 /\ InFlight = 0 /\ sends' = sends
    BY <1>1 DEF NextBatch, InFlight
  <2>6. StepsToCome = 2 * SendsToCome + 2 * b + 1
    BY <1>1, <1>b, <2>4, <2>5 DEF NextBatch, StepsToCome
  <2>7. StepsToCome' = 2 * SendsToCome + 2 * b' + 2
    BY <1>1, <2>1, <2>2, <2>4, <2>5 DEF NextBatch, StepsToCome
  <2>8. StepsToCome' < StepsToCome
    BY <1>b, <2>2, <2>4, <2>6, <2>7
  <2>9. Budget'
    BY <1>1, <1>c, <1>l, <2>1, <2>2, <2>4, <2>5 DEF NextBatch, Budget
  <2> QED BY <1>c, <2>4, <2>5, <2>8, <2>9 DEF Spends
\* The other steps leave the batches to come alone.
<1>2. ASSUME rest' = rest, SendsOfBatch' \in Nat
      PROVE  /\ SendsToCome' = b * SendsPerBatch + SendsOfBatch'
             /\ SendsToCome = b * SendsPerBatch + SendsOfBatch
             /\ StepsToCome' = 2 * SendsToCome' - InFlight' + 2 * b
                  + (IF pending' = {} THEN 0 ELSE 1)
                  + (IF outcome' = "running" THEN 1 ELSE 0)
             /\ SendsToCome' \in Nat
             /\ SendsToCome \in Nat
  <2>1. SendsPerBatch' = SendsPerBatch /\ b' = b
    BY <1>2 DEF SendsPerBatch
  <2> QED BY <1>2, <1>s, <1>m, <2>1 DEF SendsToCome, StepsToCome
<1> HIDE DEF b
<1>3. CASE Send
  <2>1. SendsOfBatch' = SendsOfBatch /\ rest' = rest
    BY <1>3 DEF Send, SendsOfBatch
  <2>2. InFlight' = 1 /\ InFlight = 0 /\ sends' <= sends + 1
    BY <1>3, <1>c DEF Send, InFlight
  <2>3. /\ SendsToCome' = SendsToCome /\ SendsToCome \in Nat
        /\ StepsToCome' < StepsToCome
    BY <1>3, <1>b, <1>s, <1>2, <2>1, <2>2 DEF Send, StepsToCome, b
  <2>4. sends' + SendsToCome' - InFlight' <= sends + SendsToCome - InFlight
    <3>1. \A m, n, c \in Nat : n <= m + 1 => n + c - 1 <= m + c - 0
      OBVIOUS
    <3> QED BY <3>1, <1>c, <2>2, <2>3
  <2>5. Budget'
    BY <1>3, <1>c, <1>l, <2>2, <2>3 DEF Send, Budget
  <2> QED BY <2>3, <2>4, <2>5 DEF Spends
\* An answer, or none, has used up the send; the batch may be finished early.
<1>4. ASSUME inFlight, ~inFlight', rest' = rest, sends' = sends, outcome' = outcome,
             SendsOfBatch' \in Nat, SendsOfBatch' + 1 <= SendsOfBatch,
             attempt' = MaxRetries + 1 => tries' = 0
      PROVE  Spends
  <2>1. InFlight' = 0 /\ InFlight = 1 /\ pending # {}
    BY <1>4 DEF InFlight, Budget
  <2>2. /\ SendsToCome' \in Nat /\ SendsToCome \in Nat
        /\ SendsToCome' + 1 <= SendsToCome
    <3>1. \A m, n, c \in Nat : n + 1 <= m => c + n + 1 <= c + m
      OBVIOUS
    <3> QED BY <3>1, <1>m, <1>s, <1>2, <1>4
  <2>3. StepsToCome' < StepsToCome
    BY <1>b, <1>2, <1>4, <2>1, <2>2 DEF StepsToCome, b
  <2>4. sends' + SendsToCome' - InFlight' <= sends + SendsToCome - InFlight
    <3>1. \A m, n, c \in Nat : n + 1 <= m => c + n - 0 <= c + m - 1
      OBVIOUS
    <3> QED BY <3>1, <1>c, <1>4, <2>1, <2>2
  <2>5. Budget'
    <3>1. \A l \in Int, k, m, n \in Nat :
            n + 1 <= m /\ k + m - 1 <= l => k + n - 0 <= l
      OBVIOUS
    <3>2. sends + SendsToCome - 1 <= SendLimit
      BY <2>1 DEF Budget
    <3>3. sends + SendsToCome' - 0 <= SendLimit
      BY <3>1, <3>2, <1>c, <1>l, <2>2
    <3>4. sends' + SendsToCome' - InFlight' <= SendLimit'
      BY <3>3, <1>l, <1>4, <2>1
    <3> QED BY <1>4, <3>4 DEF Budget
  <2> QED BY <2>3, <2>4, <2>5 DEF Spends
<1>5. CASE Answered
  <2>1. inFlight /\ pending # {} /\ attempt <= MaxRetries
    BY <1>5 DEF Answered, Budget, Inv, ItemsAccountedFor
  <2> DEFINE a == MaxRetries - attempt
  <2>2. a \in Nat /\ a * MaxRetries \in Nat
    BY <1>c, <2>1
  <2>3. SendsOfBatch = a * MaxRetries + (MaxRetries - tries)
    BY <1>c, <2>1 DEF SendsOfBatch
  <2>4. SendsOfBatch' = 0 \/ SendsOfBatch' = a * MaxRetries
    BY <1>5, <1>c, <2>1 DEF Answered, SendsOfBatch
  <2> HIDE DEF a
  <2>5. SendsOfBatch' \in Nat /\ SendsOfBatch' + 1 <= SendsOfBatch
    BY <1>c, <2>2, <2>3, <2>4
  <2> QED BY <1>4, <1>5, <2>5 DEF Answered
<1>6. CASE SendThrows
  <2>1. inFlight /\ pending # {} /\ attempt <= MaxRetries
    BY <1>6 DEF SendThrows, Budget, Inv, ItemsAccountedFor
  <2> DEFINE a == MaxRetries - attempt
  <2>2. a \in Nat /\ a * MaxRetries \in Nat
    BY <1>c, <2>1
  <2>3. SendsOfBatch = a * MaxRetries + (MaxRetries - tries)
    BY <1>c, <2>1 DEF SendsOfBatch
  <2>4. CASE tries + 1 < MaxRetries
    <3>1. SendsOfBatch' = a * MaxRetries + (MaxRetries - (tries + 1))
      BY <1>6, <1>c, <2>1, <2>4 DEF SendThrows, SendsOfBatch
    <3> HIDE DEF a
    <3>2. SendsOfBatch' \in Nat /\ SendsOfBatch' + 1 <= SendsOfBatch
      BY <1>c, <2>2, <2>3, <2>4, <3>1
    <3>3. attempt' # MaxRetries + 1
      BY <1>6, <1>c, <2>1, <2>4 DEF SendThrows
    <3> QED BY <1>4, <1>6, <3>2, <3>3 DEF SendThrows
  <2>5. CASE ~(tries + 1 < MaxRetries)
    <3>1. SendsOfBatch' = a * MaxRetries
      BY <1>6, <1>c, <2>1, <2>5 DEF SendThrows, SendsOfBatch
    <3> HIDE DEF a
    <3>2. SendsOfBatch' \in Nat /\ SendsOfBatch' + 1 <= SendsOfBatch
      BY <1>c, <2>2, <2>3, <3>1
    <3>3. tries' = 0
      BY <1>6, <2>5 DEF SendThrows
    <3> QED BY <1>4, <1>6, <3>2, <3>3 DEF SendThrows
  <2> QED BY <2>4, <2>5
\* A batch that fails, and the end of the call, send nothing.
<1>7. CASE FailBatch \/ Finish
  <2>1. SendsOfBatch' = 0 /\ SendsOfBatch = 0 /\ rest' = rest
    BY <1>7, <1>s DEF FailBatch, Finish, SendsOfBatch
  <2>2. InFlight' = 0 /\ InFlight = 0 /\ sends' = sends
    BY <1>7 DEF FailBatch, Finish, InFlight
  <2>3. SendsToCome' = SendsToCome /\ SendsToCome \in Nat
    BY <1>2, <2>1
  <2>4. StepsToCome = 2 * SendsToCome + 2 * b + (IF pending = {} THEN 0 ELSE 1) + 1
    BY <1>7, <1>b, <2>2, <2>3 DEF FailBatch, Finish, StepsToCome, b
  <2>5. StepsToCome' = 2 * SendsToCome + 2 * b + (IF pending' = {} THEN 0 ELSE 1)
                        + (IF outcome' = "running" THEN 1 ELSE 0)
    BY <1>2, <1>b, <2>1, <2>2, <2>3
  <2>6. StepsToCome' < StepsToCome
    <3>1. CASE FailBatch
      BY <1>b, <2>3, <2>4, <2>5, <3>1 DEF FailBatch
    <3>2. CASE Finish
      <4>1. pending = {} /\ pending' = {} /\ outcome' # "running"
        BY <3>2 DEF Finish
      <4> QED BY <1>b, <2>3, <2>4, <2>5, <4>1
    <3> QED BY <1>7, <3>1, <3>2
  <2>7. sends' + SendsToCome' - InFlight' <= sends + SendsToCome - InFlight
    BY <1>c, <2>2, <2>3
  <2>8. Budget'
    BY <1>7, <1>c, <1>l, <2>2, <2>3 DEF FailBatch, Finish, Budget
  <2> QED BY <2>6, <2>7, <2>8 DEF Spends
<1> QED BY <1>1, <1>3, <1>5, <1>6, <1>7 DEF Step

\* What DynamoDB and other requests do in between costs the call nothing.
LEMMA OthersSpendNothing ==
    ASSUME Inv, Budget, [Next]_vars, ~Step
    PROVE  Budget' /\ StepsToCome' = StepsToCome
<1>1. UNCHANGED <<items, rest, pending, attempt, tries, inFlight, outcome, sends>>
  <2>1. CASE UNCHANGED vars
    BY <2>1 DEF vars, batch, history
  <2>2. ASSUME NEW k \in Rows, Delete(k) \/ Write(k) \/ Vanish(k)
        PROVE  UNCHANGED <<items, rest, pending, attempt, tries, inFlight, outcome, sends>>
    BY <2>2 DEF Delete, Write, Vanish, batch, history
  <2> QED BY <2>1, <2>2 DEF Next
<1>2. UNCHANGED <<SendsToCome, InFlight, SendLimit, StepsToCome>>
  BY <1>1 DEF SendsToCome, SendsOfBatch, InFlight, SendLimit, SendsPerBatch, StepsToCome
<1>3. Budget'
  BY <1>1, <1>2 DEF Budget
<1> QED BY <1>2, <1>3

LEMMA InitBudget == Init => Budget
<1> SUFFICES ASSUME Init PROVE Budget
  OBVIOUS
<1>1. Inv /\ items = rest
  BY InitInv DEF Init
<1>2. Batches(Cardinality(items)) \in Nat /\ MaxRetries \in Nat
  BY <1>1, RestIsFinite, SomethingIsTried
<1>3. SendLimit \in Nat
  BY <1>2 DEF SendLimit, SendsPerBatch
<1>4. SendsToCome = SendLimit
  <2>1. SendsOfBatch = 0
    BY DEF Init, SendsOfBatch
  <2> QED BY <1>1, <1>3, <2>1 DEF SendsToCome, SendLimit
<1>5. sends + SendsToCome - InFlight <= SendLimit
  BY <1>3, <1>4 DEF Init, InFlight
<1> QED BY <1>5, SomethingIsTried DEF Init, Budget

LEMMA BudgetInvariance == Spec => []Budget
<1>1. Inv /\ Budget /\ [Next]_vars => Budget'
  BY StepSpends, OthersSpendNothing DEF Spends
<1> QED BY InitBudget, Invariance, <1>1, PTL DEF Spec

\* The two nested retry loops stay within their product for every batch.
THEOREM SendsAreBounded == Spec => []SendsBounded
<1>1. ASSUME Inv, Budget PROVE SendsBounded
  <2>1. /\ SendsToCome \in Nat /\ sends \in Nat
        /\ inFlight => SendsToCome >= 1
    <3>1. inFlight => SendsOfBatch >= 1
      BY <1>1, SendsAreCounted DEF Inv, ItemsAccountedFor, Budget
    <3>2. Batches(Cardinality(rest)) * SendsPerBatch \in Nat
      BY <1>1, RestIsFinite, SendsAreCounted
    <3> QED BY <1>1, <3>1, <3>2, SendsAreCounted DEF SendsToCome, Inv, TypeOK
  <2>2. SendLimit \in Int
    <3>1. IsFiniteSet(items)
      BY <1>1, RowsAreFinite, FS_Subset DEF Inv, TypeOK
    <3>2. Batches(Cardinality(items)) \in Nat
      BY <3>1, FS_CardinalityType, BatchesCounted
    <3> QED BY <1>1, <3>2, SendsAreCounted DEF SendLimit
  <2>3. CASE inFlight
    BY <1>1, <2>1, <2>2, <2>3 DEF Budget, InFlight, SendsBounded
  <2>4. CASE ~inFlight
    BY <1>1, <2>1, <2>2, <2>4 DEF Budget, InFlight, SendsBounded
  <2> QED BY <2>3, <2>4
<1> QED BY Invariance, BudgetInvariance, <1>1, PTL

\* A finite set has a subset of each smaller size.
LEMMA SubsetOfEachSize ==
    ASSUME NEW S, IsFiniteSet(S), NEW n \in 0 .. Cardinality(S)
    PROVE  \E T \in SUBSET S : Cardinality(T) = n
<1>1. Cardinality(S) \in Nat /\ ExistsBijection(1 .. Cardinality(S), S)
  BY FS_CardinalityType
<1>2. PICK f \in Bijection(1 .. Cardinality(S), S) : TRUE
  BY <1>1 DEF ExistsBijection
<1> DEFINE T == {f[i] : i \in 1 .. n}
           g == [i \in 1 .. n |-> f[i]]
<1>3. 1 .. n \subseteq 1 .. Cardinality(S)
  BY <1>1
<1>4. /\ f \in [1 .. Cardinality(S) -> S]
      /\ \A i, j \in 1 .. Cardinality(S) : f[i] = f[j] => i = j
  BY <1>2 DEF Bijection, Injection, IsInjective
<1>5. T \in SUBSET S
  BY <1>3, <1>4
<1>6. g \in Bijection(1 .. n, T)
  BY <1>3, <1>4 DEF Bijection, Injection, IsInjective, Surjection
<1>7. Cardinality(T) = n
  BY <1>6, FS_CountingElements DEF ExistsBijection
<1> QED BY <1>5, <1>7

\* Some action of Step has its guard: an answer or a failure of the send that is
\* under way, the next batch, the next send, the failure of the batch, the end.
StepIsPossible ==
    \/ inFlight
    \/ Working /\ pending = {} /\ rest # {} /\ Slices # {}
    \/ Working /\ pending # {} /\ attempt <= MaxRetries
    \/ Working /\ pending # {} /\ attempt > MaxRetries
    \/ Working /\ pending = {} /\ rest = {}

\* Until it has ended the call has a step to take.
THEOREM NeverStuck == Spec => [](outcome = "running" => StepIsPossible)
<1>1. ASSUME Inv, rest # {} PROVE Slices # {}
  <2>1. /\ IsFiniteSet(rest) /\ Cardinality(rest) \in Nat
        /\ BatchSize \in Nat
    BY <1>1, RestIsFinite, BatchesHoldSomething
  <2> DEFINE n == IF Cardinality(rest) < BatchSize THEN Cardinality(rest) ELSE BatchSize
  <2>2. n \in 0 .. Cardinality(rest)
    BY <2>1
  <2> QED BY <2>1, <2>2, SubsetOfEachSize DEF Slices
<1>2. ASSUME Inv, outcome = "running" PROVE StepIsPossible
  <2>1. attempt <= MaxRetries \/ attempt > MaxRetries
    BY <1>2, Counters
  <2> QED BY <1>1, <1>2, <2>1 DEF StepIsPossible, Working
<1> QED BY Invariance, <1>2, PTL

\* Every step of the call leaves it fewer to take, and nobody else gives it new
\* ones: with NeverStuck, what the fairness of Step needs for the call to end.
THEOREM CountsDown ==
    Spec => /\ [](StepsToCome \in Nat)
            /\ [][/\ Step => StepsToCome' < StepsToCome
                  /\ StepsToCome' <= StepsToCome]_vars
<1>1. ASSUME Inv, Budget PROVE StepsToCome \in Nat
  <2>1. Batches(Cardinality(rest)) \in Nat /\ SendsToCome \in Nat
    BY <1>1, RestIsFinite, SendsAreCounted
  <2>2. inFlight => pending # {}
    BY <1>1 DEF Budget
  <2>3. CASE inFlight
    BY <2>1, <2>2, <2>3 DEF StepsToCome, InFlight
  <2>4. CASE ~inFlight
    BY <2>1, <2>4 DEF StepsToCome, InFlight
  <2> QED BY <2>3, <2>4
<1>2. ASSUME Inv, Budget, [Next]_vars
      PROVE  [/\ Step => StepsToCome' < StepsToCome
              /\ StepsToCome' <= StepsToCome]_vars
  <2>1. StepsToCome \in Nat /\ StepsToCome' \in Nat
    <3>1. Inv' /\ Budget'
      BY <1>2, StepInv, StepSpends, OthersSpendNothing DEF Spends
    <3>2. Inv' /\ Budget' => (StepsToCome \in Nat)'
      BY <1>1, PTL
    <3> QED BY <1>1, <1>2, <3>1, <3>2
  <2>2. CASE Step
    BY <1>2, <2>1, <2>2, StepSpends DEF Spends
  <2>3. CASE ~Step
    BY <1>2, <2>1, <2>3, OthersSpendNothing
  <2> QED BY <2>2, <2>3
<1> QED BY Invariance, BudgetInvariance, <1>1, <1>2, PTL DEF Spec

=============================================================================
