---------------------- MODULE NotificationPolling_proofs ----------------------
(***************************************************************************)
(* Proofs about NotificationPolling, for every number of notifications,    *)
(* batch size and number of faults.                                        *)
(*                                                                         *)
(* The argument: the agent lists what it keeps in the order of issue, so a *)
(* list that begins with the last notification taken from it continues     *)
(* with the one that follows it (ListingContiguous).  The batch is         *)
(* therefore the next stretch of the inbox, in order and without a gap     *)
(* (BatchFollowsCursor), whatever was deleted meanwhile, and moving the    *)
(* marker over its first element skips nothing.                            *)
(***************************************************************************)
EXTENDS NotificationPolling, FiniteSetTheorems, TLAPS

\* The marker names an issued notification; index 0 goes with no name.
MarkerShape(marker) ==
  /\ marker.lastNotificationId <= issued
  /\ marker.nextIndex = 0 => marker.lastNotificationId = NoNote

\* While a batch is processed, it is the stretch of the inbox right after the
\* cursor: what is kept, later than the cursor and not in it comes after it.
BatchFollowsCursor ==
  pc \in {"process", "defer", "advance"} =>
    \A b \in batch :
      /\ b > cursor.lastNotificationId
      /\ \A x \in inbox :
           x > cursor.lastNotificationId /\ x \notin batch => b < x

\* What is known at the await where the loop is suspended.
SuspendedAt ==
  /\ pc = "advance" => \A n \in batch : IsFirst(n, batch) => n \in delivered \union failed
  /\ pc = "settle" => current \in failed \intersect delivered
  /\ pc = "reset" => cursor = StartMarker
  /\ pc \in Points \ {"stopped", "load", "reset", "backoff"} => cursor = stored

\* Until a reset, only the first kept notification after the stored marker
\* can have been processed or deferred already.
Frontier ==
  ~rewound =>
    \A x \in (delivered \union failed) \intersect inbox :
      x > stored.lastNotificationId =>
        \A y \in inbox : y > stored.lastNotificationId => x <= y

IInv ==
  /\ TypeOK
  /\ MarkerShape(stored)
  /\ MarkerShape(cursor)
  /\ NothingSkipped
  /\ BatchFollowsCursor
  /\ SuspendedAt
  /\ Frontier

-----------------------------------------------------------------------------
\* The position of a notification in the agent's list is a number, and later
\* notifications have larger positions.
LEMMA PositionMonotonic ==
  ASSUME TypeOK
  PROVE  /\ \A n \in Int : Position(n) \in Nat
         /\ \A m \in inbox, n \in Int : m < n => Position(m) < Position(n)
<1>1. IsFiniteSet(inbox)
  <2>1. IsFiniteSet(1..issued)
    BY FS_Interval DEF TypeOK
  <2>2. QED BY <2>1, FS_Subset DEF TypeOK
<1>2. ASSUME NEW n \in Int
      PROVE  /\ IsFiniteSet({k \in inbox : k < n})
             /\ Position(n) \in Nat
  <2>1. IsFiniteSet({k \in inbox : k < n})
    BY <1>1, FS_Subset
  <2>2. QED BY <2>1, FS_CardinalityType DEF Position
<1>3. ASSUME NEW m \in inbox, NEW n \in Int, m < n
      PROVE  Position(m) < Position(n)
  <2> DEFINE beforeM == {k \in inbox : k < m}
             beforeN == {k \in inbox : k < n}
  <2>1. m \in Int /\ inbox \subseteq Int
    BY DEF TypeOK
  <2>2. beforeM \subseteq beforeN
    <3>1. ASSUME NEW k \in inbox, k < m
          PROVE  k < n
      BY <1>3, <2>1, <3>1
    <3>2. QED BY <3>1
  <2>3. m \in beforeN /\ m \notin beforeM
    BY <1>3, <2>1
  <2>4. IsFiniteSet(beforeN)
    BY <1>2
  <2>5. /\ Cardinality(beforeM) <= Cardinality(beforeN)
        /\ Cardinality(beforeN) = Cardinality(beforeM) => beforeN = beforeM
    BY <2>2, <2>4, FS_Subset
  <2>6. Cardinality(beforeM) # Cardinality(beforeN)
    BY <2>3, <2>5
  <2>7. Cardinality(beforeM) \in Nat /\ Cardinality(beforeN) \in Nat
    BY <1>2, <2>1 DEF Position
  <2>8. Cardinality(beforeM) < Cardinality(beforeN)
    BY <2>5, <2>6, <2>7
  <2>9. QED BY <2>8 DEF Position
<1>4. QED BY <1>2, <1>3

\* A listing that begins with the notification m continues with the ones that
\* follow m in the agent's list, without a gap; one from index 0 has no gap
\* before it either.
LEMMA ListingContiguous ==
  ASSUME TypeOK, NEW start \in Nat, NEW m \in Notes \union {NoNote},
         \/ IsFirst(m, Listing(start, BatchSize))
         \/ start = 0 /\ m = NoNote,
         NEW b \in Listing(start, BatchSize), b # m
  PROVE  /\ b > m
         /\ \A x \in inbox : x > m /\ x \notin Listing(start, BatchSize) => b < x
<1>1. b \in inbox /\ b \in Nat \ {0} /\ m \in Nat
  BY MaxNotesAssumption DEF TypeOK, Listing, Notes, NoNote
<1>2. b > m
  BY <1>1 DEF IsFirst, NoNote
<1>3. ASSUME NEW x \in inbox, x > m, x \notin Listing(start, BatchSize)
      PROVE  b < x
  <2>1. x \in Nat
    BY DEF TypeOK
  <2>2. Position(x) \in Nat /\ Position(b) \in Nat
    BY <1>1, <2>1, PositionMonotonic
  <2>3. start <= Position(x)
    <3>1. CASE start = 0
      BY <2>2, <3>1
    <3>2. CASE IsFirst(m, Listing(start, BatchSize))
      <4>1. m \in inbox /\ start <= Position(m) /\ Position(m) \in Nat
        BY <1>1, <3>2, PositionMonotonic DEF IsFirst, Listing
      <4>2. Position(m) < Position(x)
        BY <1>3, <2>1, <4>1, PositionMonotonic
      <4>3. QED BY <2>2, <4>1, <4>2
    <3>3. QED BY <3>1, <3>2
  <2>4. Position(x) >= start + BatchSize
    BY <1>3, <2>2, <2>3, BatchSizeAssumption DEF Listing
  <2>5. Position(b) < start + BatchSize
    BY DEF Listing
  <2>6. ~(x < b)
    BY <1>1, <1>3, <2>1, <2>2, <2>4, <2>5, PositionMonotonic, BatchSizeAssumption
  <2>7. x # b
    BY <1>3
  <2>8. QED BY <1>1, <2>1, <2>6, <2>7
<1>4. QED BY <1>2, <1>3
-----------------------------------------------------------------------------
(* Type correctness.                                                       *)

\* A fault keeps the count of faults within its bound.
LEMMA FaultCounts ==
  ASSUME faults \in 0..MaxFaults, Fault
  PROVE  faults' \in 0..MaxFaults
BY MaxFaultsAssumption DEF Fault

\* Every state the poller reaches is well typed; in particular the retry pass
\* only visits entries of the failed queue and no index leaves the list.
LEMMA TypeStep == TypeOK /\ [Next]_vars => TypeOK'
<1> SUFFICES ASSUME TypeOK, [Next]_vars
             PROVE  TypeOK'
  OBVIOUS
<1> USE MaxNotesAssumption, MaxFaultsAssumption
    DEF TypeOK, Marker, StartMarker, Notes, NoNote, Points, keria, durable, agent, loop, history
<1>1. CASE Environment
  <2>1. CASE Issue
    BY <2>1 DEF Issue
  <2>2. CASE \E n \in inbox : Withdraw(n)
    BY <2>2 DEF Withdraw
  <2>3. CASE Crash
    BY <2>3, FaultCounts DEF Crash
  <2>4. CASE GoOffline \/ StopPolling
    BY <2>4, FaultCounts DEF GoOffline, StopPolling
  <2>5. CASE GoOnline \/ StartPolling \/ RetryIntervalElapsed
    BY <2>5 DEF GoOnline, StartPolling, RetryIntervalElapsed
  <2>6. CASE \E n \in Notes : BackoffElapsed(n)
    BY <2>6 DEF BackoffElapsed
  <2>7. QED BY <1>1, <2>1, <2>2, <2>3, <2>4, <2>5, <2>6 DEF Environment
<1>2. CASE PollStep
  <2>1. CASE Start \/ LoadMarker \/ PersistReset \/ Reconnect \/ Restart \/ RetryDone
    BY <2>1 DEF Start, LoadMarker, PersistReset, Reconnect, Restart, RetryDone
  <2>2. CASE FetchBatch
    <3>1. Fetched \subseteq inbox
      BY DEF Fetched, Listing
    <3>2. QED BY <2>2, <3>1 DEF FetchBatch
  <2>3. CASE FetchFindsMarkerInvalid
    BY <2>3 DEF FetchFindsMarkerInvalid
  <2>4. ASSUME NEW n \in Notes, ProcessReturns(n) \/ ProcessThrows(n) \/ Defer(n)
        PROVE  TypeOK'
    BY <2>4 DEF ProcessReturns, ProcessThrows, Defer, IsFirst
  <2>5. ASSUME NEW n \in Notes, Advance(n)
        PROVE  TypeOK'
    BY <2>5 DEF Advance, IsFirst
  <2>6. CASE BatchDone
    BY <2>6 DEF BatchDone
  <2>7. ASSUME NEW n \in Notes, RetryTooEarly(n) \/ RetryReturns(n) \/ RetryThrows(n)
        PROVE  TypeOK'
    BY <2>7 DEF RetryTooEarly, RetryReturns, RetryThrows
  <2>8. CASE Settle
    BY <2>8 DEF Settle
  <2>9. QED BY <1>2, <2>1, <2>2, <2>3, <2>4, <2>5, <2>6, <2>7, <2>8 DEF PollStep
<1>3. CASE FetchMeetsNetworkError \/ PollThrows \/ SettleFails
  BY <1>3, FaultCounts DEF FetchMeetsNetworkError, PollThrows, SettleFails
<1>4. CASE UNCHANGED vars
  BY <1>4 DEF vars
<1>5. QED BY <1>1, <1>2, <1>3, <1>4 DEF Next
\* The initial state is well typed.
LEMMA InitTypeOK == Init => TypeOK
<1>1. 0 \in 0..MaxNotes /\ 0 \in 0..MaxFaults
  BY MaxNotesAssumption, MaxFaultsAssumption
<1>2. StartMarker \in Marker
  BY DEF StartMarker, Marker
<1>3. "stopped" \in Points /\ TRUE \in BOOLEAN /\ FALSE \in BOOLEAN
  BY DEF Points
<1>4. QED BY <1>1, <1>2, <1>3 DEF Init, TypeOK

\* The poller's state keeps its type: the marker stays a marker, the queue only
\* names issued notifications and a retry pass only visits queued ones.
THEOREM TypeCorrect == Spec => []TypeOK
<1>1. Init => TypeOK
  BY InitTypeOK
<1>2. QED BY <1>1, TypeStep, PTL DEF Spec

-----------------------------------------------------------------------------
(* The inductive invariant.                                                *)

\* Nothing is behind the initial marker and no batch is fetched.
LEMMA InitIInv == Init => IInv
<1> SUFFICES ASSUME Init
             PROVE  IInv
  OBVIOUS
<1>1. TypeOK
  BY InitTypeOK
<1>2. MarkerShape(stored) /\ MarkerShape(cursor)
  BY DEF Init, MarkerShape, StartMarker, NoNote
<1>3. NothingSkipped /\ Frontier
  BY DEF Init, NothingSkipped, CoveredUpTo, Frontier
<1>4. BatchFollowsCursor /\ SuspendedAt
  BY DEF Init, BatchFollowsCursor, SuspendedAt
<1>5. QED BY <1>1, <1>2, <1>3, <1>4 DEF IInv

\* The batch a successful list call yields is the stretch after the cursor.
LEMMA FetchBatchIInv ==
  ASSUME IInv, FetchBatch, TypeOK'
  PROVE  IInv'
<1> DEFINE m == cursor.lastNotificationId
<1>1. StartFetchingIndex \in Nat /\ m \in Notes \union {NoNote}
  BY DEF IInv, TypeOK, Marker, StartFetchingIndex
<1>2. \/ IsFirst(m, Fetched)
      \/ StartFetchingIndex = 0 /\ m = NoNote
  BY DEF FetchBatch, MarkerInvalid, StartFetchingIndex, IInv, TypeOK, Marker, MarkerShape
<1>3. /\ batch' \subseteq Fetched
      /\ Fetched \subseteq batch' \union {m}
      /\ m \notin batch'
  <2>1. CASE cursor.nextIndex > 0
    <3>1. IsFirst(m, Fetched)
      BY <2>1 DEF FetchBatch, MarkerInvalid
    <3>2. Fetched \subseteq inbox /\ inbox \subseteq Int
      BY DEF Fetched, Listing, IInv, TypeOK
    <3>3. ASSUME NEW n \in Fetched
          PROVE  IsFirst(n, Fetched) <=> n = m
      <4>1. n \in Int /\ m \in Int /\ m \in Fetched /\ m <= n
        BY <3>1, <3>2 DEF IsFirst
      <4>2. IsFirst(n, Fetched) => n <= m
        BY <4>1 DEF IsFirst
      <4>3. QED BY <3>1, <4>1, <4>2
    <3>4. batch' = {n \in Fetched : ~IsFirst(n, Fetched)}
      BY <2>1 DEF FetchBatch
    <3>5. QED BY <3>1, <3>3, <3>4 DEF IsFirst
  <2>2. CASE ~(cursor.nextIndex > 0)
    <3>1. m = NoNote
      BY <2>2 DEF IInv, TypeOK, Marker, MarkerShape
    <3>2. NoNote \notin Fetched
      BY DEF Fetched, Listing, IInv, TypeOK, NoNote
    <3>3. QED BY <2>2, <3>1, <3>2 DEF FetchBatch
  <2>3. QED BY <2>1, <2>2
<1>4. ASSUME NEW b \in batch'
      PROVE  /\ b > m
             /\ \A x \in inbox : x > m /\ x \notin batch' => b < x
  <2>1. b \in Fetched /\ b # m
    BY <1>3
  <2>2. /\ b > m
        /\ \A x \in inbox : x > m /\ x \notin Fetched => b < x
    BY <1>1, <1>2, <2>1, ListingContiguous DEF Fetched, IInv
  <2>3. ASSUME NEW x \in inbox, x > m
        PROVE  x # m
    BY <1>1, <2>3 DEF Notes, NoNote
  <2>4. QED BY <1>3, <2>2, <2>3
<1>5. BatchFollowsCursor'
  BY <1>4 DEF BatchFollowsCursor, FetchBatch, keria
<1>6. SuspendedAt'
  BY DEF SuspendedAt, IInv, FetchBatch, keria, durable, loop, history, Points
<1>7. MarkerShape(stored)' /\ MarkerShape(cursor)' /\ NothingSkipped' /\ Frontier'
  BY DEF IInv, MarkerShape, NothingSkipped, CoveredUpTo, Frontier, FetchBatch,
         keria, durable, history
<1>8. QED BY <1>5, <1>6, <1>7 DEF IInv

\* Moving the marker over the first element of the batch skips nothing.
LEMMA AdvanceIInv ==
  ASSUME IInv, NEW n \in Notes, Advance(n), TypeOK'
  PROVE  IInv'
<1>1. /\ cursor = stored
      /\ n > cursor.lastNotificationId
      /\ n \in delivered \union failed
      /\ IsFirst(n, batch)
      /\ n \in 1..issued
  BY DEF Advance, IInv, SuspendedAt, BatchFollowsCursor, IsFirst, Points, TypeOK
<1>2. /\ stored' = [nextIndex |-> cursor.nextIndex + 1, lastNotificationId |-> n]
      /\ cursor' = stored'
      /\ batch' = batch \ {n}
      /\ UNCHANGED <<issued, inbox, failed, delivered, rewound>>
      /\ pc' = "process"
  BY DEF Advance, keria, history
<1>3. \A x \in inbox : x > cursor.lastNotificationId => n <= x
  BY <1>1 DEF IInv, BatchFollowsCursor, IsFirst, Advance, TypeOK
<1>4. MarkerShape(stored)' /\ MarkerShape(cursor)'
  BY <1>1, <1>2 DEF MarkerShape, IInv, TypeOK, Marker
<1>5. NothingSkipped'
  <2>1. ASSUME NEW x \in inbox, x <= n
        PROVE  x \in delivered \union failed
    <3>1. CASE x <= cursor.lastNotificationId
      BY <3>1 DEF IInv, NothingSkipped, CoveredUpTo
    <3>2. CASE x > cursor.lastNotificationId
      BY <1>1, <1>3, <2>1, <3>2 DEF IInv, TypeOK
    <3>3. QED BY <3>1, <3>2 DEF IInv, TypeOK, Marker, Notes, NoNote
  <2>2. QED BY <1>2, <2>1 DEF NothingSkipped, CoveredUpTo
<1>6. BatchFollowsCursor'
  <2>1. ASSUME NEW b \in batch, b # n
        PROVE  /\ b > n
               /\ \A x \in inbox : x > n /\ x \notin batch \ {n} => b < x
    <3>1. b > n
      BY <1>1, <2>1 DEF IsFirst, IInv, TypeOK
    <3>2. ASSUME NEW x \in inbox, x > n, x \notin batch \ {n}
          PROVE  b < x
      <4>1. x > cursor.lastNotificationId /\ x \notin batch
        BY <1>1, <3>2 DEF IInv, TypeOK, Marker, Notes, NoNote
      <4>2. QED BY <4>1 DEF IInv, BatchFollowsCursor, Advance
    <3>3. QED BY <3>1, <3>2
  <2>2. QED BY <1>2, <2>1 DEF BatchFollowsCursor
<1>7. SuspendedAt'
  BY <1>2 DEF SuspendedAt, Points
<1>8. Frontier'
  <2>1. ASSUME ~rewound, NEW x \in (delivered \union failed) \intersect inbox, x > n,
               NEW y \in inbox, y > n
        PROVE  x <= y
    <3>1. x > stored.lastNotificationId /\ y > stored.lastNotificationId
      BY <1>1, <2>1 DEF IInv, TypeOK, Marker, Notes, NoNote
    <3>2. QED BY <2>1, <3>1 DEF IInv, Frontier
  <2>2. QED BY <1>2, <2>1 DEF Frontier
<1>9. QED BY <1>4, <1>5, <1>6, <1>7, <1>8 DEF IInv
\* A step that leaves the marker, the queue, the inbox and the batch alone, and
\* moves the loop to another await, keeps the invariant if what must be known
\* at that await is known.
LEMMA MoveIInv ==
  ASSUME IInv, TypeOK', SuspendedAt',
         UNCHANGED <<issued, inbox, stored, failed, cursor, batch, delivered, rewound>>,
         pc' \in {"process", "defer", "advance"} => pc \in {"process", "defer", "advance"}
  PROVE  IInv'
BY DEF IInv, MarkerShape, NothingSkipped, CoveredUpTo, BatchFollowsCursor, Frontier

\* Every step keeps the inductive invariant.
LEMMA NextIInv == IInv /\ [Next]_vars => IInv'
<1> SUFFICES ASSUME IInv, [Next]_vars
             PROVE  IInv'
  OBVIOUS
<1> USE DEF keria, durable, agent, loop, history
<1>0. TypeOK'
  BY TypeStep DEF IInv
<1>1. CASE Environment
  <2>1. CASE Issue
    <3>1. inbox' = inbox \union {issued + 1} /\ issued' = issued + 1
      BY <2>1 DEF Issue
    <3>2. \A x \in inbox \union failed \union delivered \union batch : x < issued + 1
      BY DEF IInv, TypeOK
    <3>3. /\ stored.lastNotificationId < issued + 1
          /\ cursor.lastNotificationId < issued + 1
      BY DEF IInv, MarkerShape, TypeOK, Marker, Notes, NoNote
    <3>4. MarkerShape(stored)' /\ MarkerShape(cursor)'
      BY <2>1, <3>3 DEF Issue, MarkerShape, IInv, TypeOK, Marker, Notes, NoNote
    <3>5. NothingSkipped'
      BY <2>1, <3>1, <3>3
         DEF Issue, IInv, NothingSkipped, CoveredUpTo, TypeOK, Marker, Notes, NoNote
    <3>6. BatchFollowsCursor'
      BY <2>1, <3>1, <3>2 DEF Issue, IInv, BatchFollowsCursor
    <3>7. SuspendedAt'
      BY <2>1 DEF Issue, IInv, SuspendedAt
    <3>8. Frontier'
      <4>1. ASSUME ~rewound, NEW x \in (delivered \union failed) \intersect inbox',
                   x > stored.lastNotificationId,
                   NEW y \in inbox', y > stored.lastNotificationId
            PROVE  x <= y
        BY <3>1, <3>2, <4>1 DEF IInv, Frontier, TypeOK
      <4>2. QED BY <2>1, <4>1 DEF Issue, Frontier
    <3>9. QED BY <1>0, <3>4, <3>5, <3>6, <3>7, <3>8 DEF IInv
  <2>2. ASSUME NEW n \in inbox, Withdraw(n)
        PROVE  IInv'
    <3>1. inbox' \subseteq inbox
      BY <2>2 DEF Withdraw
    <3>2. MarkerShape(stored)' /\ MarkerShape(cursor)' /\ SuspendedAt'
      BY <2>2 DEF Withdraw, IInv, MarkerShape, SuspendedAt
    <3>3. NothingSkipped' /\ BatchFollowsCursor' /\ Frontier'
      BY <2>2, <3>1 DEF Withdraw, IInv, NothingSkipped, CoveredUpTo, BatchFollowsCursor, Frontier
    <3>4. QED BY <1>0, <3>2, <3>3 DEF IInv
  <2>3. CASE Crash
    <3>1. MarkerShape(stored)' /\ MarkerShape(cursor)'
      BY <2>3 DEF Crash, IInv, MarkerShape, StartMarker, NoNote, TypeOK
    <3>2. NothingSkipped'
      <4>1. \A x \in inbox : ~(x <= NoNote)
        BY DEF IInv, TypeOK, NoNote
      <4>2. QED BY <2>3, <4>1 DEF Crash, IInv, NothingSkipped, CoveredUpTo, StartMarker
    <3>3. BatchFollowsCursor' /\ SuspendedAt' /\ Frontier'
      BY <2>3 DEF Crash, IInv, BatchFollowsCursor, SuspendedAt, Frontier
    <3>4. QED BY <1>0, <3>1, <3>2, <3>3 DEF IInv
  <2>4. CASE GoOffline \/ GoOnline \/ StopPolling \/ StartPolling
    BY <1>0, <2>4, MoveIInv
    DEF GoOffline, GoOnline, StopPolling, StartPolling, SuspendedAt, IInv
  <2>5. CASE RetryIntervalElapsed \/ \E n \in Notes : BackoffElapsed(n)
    BY <1>0, <2>5, MoveIInv DEF RetryIntervalElapsed, BackoffElapsed, SuspendedAt, IInv
  <2>6. QED BY <1>1, <2>1, <2>2, <2>3, <2>4, <2>5 DEF Environment
<1>2. CASE PollStep
  <2>1. CASE Start \/ Reconnect \/ Restart \/ RetryDone
    <3>1. SuspendedAt'
      BY <2>1 DEF Start, Reconnect, Restart, RetryDone, SuspendedAt, IInv, Points
    <3>2. QED BY <1>0, <2>1, <3>1, MoveIInv DEF Start, Reconnect, Restart, RetryDone
  <2>2. CASE LoadMarker
    BY <1>0, <2>2
    DEF LoadMarker, IInv, MarkerShape, NothingSkipped, CoveredUpTo, BatchFollowsCursor,
        SuspendedAt, Frontier
  <2>3. CASE FetchBatch
    BY <1>0, <2>3, FetchBatchIInv
  <2>4. CASE FetchFindsMarkerInvalid
    <3>1. MarkerShape(stored)' /\ MarkerShape(cursor)'
      BY <2>4 DEF FetchFindsMarkerInvalid, IInv, MarkerShape, StartMarker, NoNote, TypeOK
    <3>2. NothingSkipped'
      <4>1. \A x \in inbox : ~(x <= NoNote)
        BY DEF IInv, TypeOK, NoNote
      <4>2. QED BY <2>4, <4>1
            DEF FetchFindsMarkerInvalid, IInv, NothingSkipped, CoveredUpTo, StartMarker
    <3>3. BatchFollowsCursor' /\ SuspendedAt' /\ Frontier'
      BY <2>4 DEF FetchFindsMarkerInvalid, IInv, BatchFollowsCursor, SuspendedAt, Frontier
    <3>4. QED BY <1>0, <3>1, <3>2, <3>3 DEF IInv
  <2>5. CASE PersistReset
    BY <1>0, <2>5
    DEF PersistReset, IInv, MarkerShape, NothingSkipped, CoveredUpTo, BatchFollowsCursor,
        SuspendedAt, Frontier
  <2>6. ASSUME NEW n \in Notes, ProcessReturns(n)
        PROVE  IInv'
    <3>1. MarkerShape(stored)' /\ MarkerShape(cursor)' /\ NothingSkipped' /\ BatchFollowsCursor'
      BY <2>6 DEF ProcessReturns, IInv, MarkerShape, NothingSkipped, CoveredUpTo, BatchFollowsCursor
    <3>2. \A i \in batch : IsFirst(i, batch) => i = n
      BY <2>6 DEF ProcessReturns, IsFirst, IInv, TypeOK
    <3>3. SuspendedAt'
      BY <2>6, <3>2 DEF ProcessReturns, IInv, SuspendedAt, IsFirst, Points
    <3>4. ASSUME NEW y \in inbox, y > stored.lastNotificationId
          PROVE  n <= y
      BY <2>6, <3>4
         DEF ProcessReturns, IInv, BatchFollowsCursor, SuspendedAt, IsFirst, Points, TypeOK
    <3>5. Frontier'
      BY <2>6, <3>4 DEF ProcessReturns, IInv, Frontier
    <3>6. QED BY <1>0, <3>1, <3>3, <3>5 DEF IInv
  <2>7. ASSUME NEW n \in Notes, ProcessThrows(n)
        PROVE  IInv'
    <3>1. SuspendedAt'
      BY <2>7 DEF ProcessThrows, SuspendedAt, IInv, Points
    <3>2. QED BY <1>0, <2>7, <3>1, MoveIInv DEF ProcessThrows
  <2>8. ASSUME NEW n \in Notes, Defer(n)
        PROVE  IInv'
    <3>1. MarkerShape(stored)' /\ MarkerShape(cursor)' /\ NothingSkipped' /\ BatchFollowsCursor'
      BY <2>8 DEF Defer, IInv, MarkerShape, NothingSkipped, CoveredUpTo, BatchFollowsCursor
    <3>2. \A i \in batch : IsFirst(i, batch) => i = n
      BY <2>8 DEF Defer, IsFirst, IInv, TypeOK
    <3>3. SuspendedAt'
      BY <2>8, <3>2 DEF Defer, IInv, SuspendedAt, IsFirst, Points
    <3>4. ASSUME NEW y \in inbox, y > stored.lastNotificationId
          PROVE  n <= y
      BY <2>8, <3>4 DEF Defer, IInv, BatchFollowsCursor, SuspendedAt, IsFirst, Points, TypeOK
    <3>5. Frontier'
      BY <2>8, <3>4 DEF Defer, IInv, Frontier
    <3>6. QED BY <1>0, <3>1, <3>3, <3>5 DEF IInv
  <2>9. ASSUME NEW n \in Notes, Advance(n)
        PROVE  IInv'
    BY <1>0, <2>9, AdvanceIInv
  <2>10. CASE BatchDone
    <3>1. SuspendedAt'
      BY <2>10 DEF BatchDone, SuspendedAt, IInv, Points
    <3>2. QED BY <1>0, <2>10, <3>1, MoveIInv DEF BatchDone
  <2>11. ASSUME NEW n \in Notes, RetryTooEarly(n) \/ RetryThrows(n)
         PROVE  IInv'
    BY <1>0, <2>11, MoveIInv DEF RetryTooEarly, RetryThrows, SuspendedAt, IInv
  <2>12. ASSUME NEW n \in Notes, RetryReturns(n)
         PROVE  IInv'
    <3>1. n \in failed
      BY <2>12 DEF RetryReturns, IInv, TypeOK
    <3>2. QED BY <1>0, <2>12, <3>1
          DEF RetryReturns, IInv, MarkerShape, NothingSkipped, CoveredUpTo, BatchFollowsCursor,
              SuspendedAt, Frontier, Points
  <2>13. CASE Settle
    <3>1. current \in delivered
      BY <2>13 DEF Settle, IInv, SuspendedAt
    <3>2. QED BY <1>0, <2>13, <3>1
          DEF Settle, IInv, MarkerShape, NothingSkipped, CoveredUpTo, BatchFollowsCursor,
              SuspendedAt, Frontier, Points
  <2>14. QED BY <1>2, <2>1, <2>2, <2>3, <2>4, <2>5, <2>6, <2>7, <2>8, <2>9, <2>10, <2>11,
                <2>12, <2>13 DEF PollStep
<1>3. CASE FetchMeetsNetworkError \/ PollThrows
  <2>1. SuspendedAt'
    BY <1>3 DEF FetchMeetsNetworkError, PollThrows, SuspendedAt, IInv, Points
  <2>2. QED BY <1>0, <1>3, <2>1, MoveIInv DEF FetchMeetsNetworkError, PollThrows
<1>4. CASE SettleFails
  <2>1. SuspendedAt'
    BY <1>4 DEF SettleFails, SuspendedAt, IInv, Points
  <2>2. QED BY <1>0, <1>4, <2>1, MoveIInv DEF SettleFails
<1>5. CASE UNCHANGED vars
  BY <1>0, <1>5, MoveIInv DEF vars, SuspendedAt, IInv
<1>6. QED BY <1>1, <1>2, <1>3, <1>4, <1>5 DEF Next

\* The inductive invariant holds in every reachable state.
THEOREM Inductive == Spec => []IInv
BY InitIInv, NextIInv, PTL DEF Spec
-----------------------------------------------------------------------------
(* The properties.                                                         *)

\* No notification behind the marker is lost: it was processed or is queued.
THEOREM NoNotificationSkipped == Spec => []NothingSkipped
<1>1. IInv => NothingSkipped
  BY DEF IInv
<1>2. QED BY <1>1, Inductive, PTL

\* Until a reset of the marker, a restart repeats at most one notification.
THEOREM RestartRepeatsAtMostOne == Spec => []AtMostOneRepeated
<1>1. IInv => AtMostOneRepeated
  BY DEF IInv, TypeOK, Frontier, AtMostOneRepeated
<1>2. QED BY <1>1, Inductive, PTL

\* Only processed notifications leave the failed queue: the one step that
\* removes an entry follows a return of processNotification for it.
THEOREM QueueKeepsUnprocessed == Spec => OnlyProcessedLeaveQueue
<1>1. IInv /\ [Next]_vars => [\A n \in failed \ failed' : n \in delivered]_vars
  <2> SUFFICES ASSUME IInv, [Next]_vars, NEW n \in failed \ failed'
               PROVE  n \in delivered
    OBVIOUS
  <2> USE DEF keria, durable, agent, loop, history
  <2>1. CASE Settle
    BY <2>1 DEF Settle, IInv, SuspendedAt
  <2>2. CASE Environment
    BY <2>2 DEF Environment, Issue, Withdraw, Crash, GoOffline, GoOnline, StopPolling,
                StartPolling, BackoffElapsed, RetryIntervalElapsed
  <2>3. CASE PollStep /\ ~Settle
    BY <2>3 DEF PollStep, Start, LoadMarker, FetchBatch, FetchFindsMarkerInvalid, PersistReset,
                Reconnect, Restart, ProcessReturns, ProcessThrows, Defer, Advance, BatchDone,
                RetryTooEarly, RetryReturns, RetryThrows, RetryDone
  <2>4. CASE FetchMeetsNetworkError \/ PollThrows \/ SettleFails \/ UNCHANGED vars
    BY <2>4 DEF FetchMeetsNetworkError, PollThrows, SettleFails, vars
  <2>5. QED BY <2>1, <2>2, <2>3, <2>4 DEF Next
<1>2. QED BY <1>1, Inductive, PTL DEF OnlyProcessedLeaveQueue, Spec

-----------------------------------------------------------------------------
(* The poller implements the contract of NotificationDelivery.             *)

\* The abstract state does not change when these variables do not.
contractState == <<issued, inbox, stored, failed, delivered>>

\* A step outside the contract's view is a stutter of it.
LEMMA StutterStep ==
  ASSUME UNCHANGED contractState
  PROVE  UNCHANGED Delivery!contractVars
BY DEF contractState, Delivery!contractVars

\* Moving the marker over a notification acknowledges everything up to it.
LEMMA AdvanceAcknowledges ==
  ASSUME IInv, NEW n \in Notes, Advance(n)
  PROVE  Delivery!Acknowledge(1..n)
<1>1. /\ cursor = stored
      /\ n > cursor.lastNotificationId
      /\ n \in delivered \union failed
      /\ n \in 1..issued
  BY DEF Advance, IInv, SuspendedAt, BatchFollowsCursor, IsFirst, Points, TypeOK
<1>2. \A x \in inbox : x > cursor.lastNotificationId => n <= x
  BY <1>1 DEF IInv, BatchFollowsCursor, IsFirst, Advance, TypeOK
<1>3. 1..n \subseteq 1..issued /\ 1..stored.lastNotificationId \subseteq 1..n
  BY <1>1 DEF IInv, TypeOK, Marker, Notes, NoNote
<1>4. ASSUME NEW x \in 1..n, x \notin (1..issued) \ inbox
      PROVE  x \in delivered \union failed
  <2>1. x \in inbox
    BY <1>3, <1>4
  <2>2. CASE x <= cursor.lastNotificationId
    BY <2>1, <2>2 DEF IInv, NothingSkipped, CoveredUpTo
  <2>3. CASE x > cursor.lastNotificationId
    BY <1>1, <1>2, <2>1, <2>3
  <2>4. QED BY <2>2, <2>3 DEF IInv, TypeOK, Marker, Notes, NoNote
<1>5. /\ stored'.lastNotificationId = n
      /\ UNCHANGED <<issued, inbox, failed, delivered>>
  BY DEF Advance, keria, history
<1>6. QED BY <1>3, <1>4, <1>5 DEF Delivery!Acknowledge

\* Every step of the poller is a step of the contract or a stutter of it.
LEMMA StepImplements == IInv /\ IInv' /\ [Next]_vars => [Delivery!Next]_(Delivery!contractVars)
<1> SUFFICES ASSUME IInv, IInv', [Next]_vars
             PROVE  Delivery!Next \/ UNCHANGED Delivery!contractVars
  OBVIOUS
<1> USE DEF keria, durable, agent, loop, history
<1>1. CASE Environment
  <2>1. CASE Issue
    <3>1. issued + 1 \in Notes /\ issued + 1 \notin 1..issued
      BY <2>1, MaxNotesAssumption DEF Issue, Notes, IInv, TypeOK
    <3>2. 1..issued' = (1..issued) \union {issued + 1}
      BY <2>1 DEF Issue, IInv, TypeOK
    <3>3. (1..issued') \ inbox' = (1..issued) \ inbox
      BY <2>1, <3>1, <3>2 DEF Issue
    <3>4. Delivery!Publish(issued + 1)
      BY <2>1, <3>1, <3>2, <3>3 DEF Issue, Delivery!Publish
    <3>5. QED BY <3>1, <3>4 DEF Delivery!Next
  <2>2. ASSUME NEW n \in inbox, Withdraw(n)
        PROVE  Delivery!Next
    <3>1. n \in 1..issued /\ n \in Notes
      BY MaxNotesAssumption DEF IInv, TypeOK, Notes
    <3>2. Delivery!Withdraw(n)
      BY <2>2, <3>1 DEF Withdraw, Delivery!Withdraw
    <3>3. QED BY <3>1, <3>2 DEF Delivery!Next
  <2>3. CASE Crash \/ GoOffline \/ GoOnline \/ StopPolling \/ StartPolling
             \/ RetryIntervalElapsed \/ \E n \in Notes : BackoffElapsed(n)
    BY <2>3, StutterStep
    DEF contractState, Crash, GoOffline, GoOnline, StopPolling, StartPolling,
        RetryIntervalElapsed, BackoffElapsed
  <2>4. QED BY <1>1, <2>1, <2>2, <2>3 DEF Environment
<1>2. CASE PollStep
  <2>1. CASE Start \/ LoadMarker \/ FetchBatch \/ FetchFindsMarkerInvalid \/ Reconnect
             \/ Restart \/ BatchDone \/ RetryDone
    BY <2>1, StutterStep
    DEF contractState, Start, LoadMarker, FetchBatch, FetchFindsMarkerInvalid, Reconnect,
        Restart, BatchDone, RetryDone
  <2>2. CASE PersistReset
    <3>1. stored'.lastNotificationId = NoNote
      BY <2>2 DEF PersistReset, IInv, SuspendedAt, StartMarker
    <3>2. 1..stored'.lastNotificationId = {}
      BY <3>1 DEF NoNote
    <3>3. Delivery!Rewind
      BY <2>2, <3>2 DEF PersistReset, Delivery!Rewind
    <3>4. QED BY <3>3 DEF Delivery!Next
  <2>3. ASSUME NEW n \in Notes, ProcessReturns(n) \/ RetryReturns(n)
        PROVE  Delivery!Next
    <3>1. n \in 1..issued
      BY <2>3 DEF ProcessReturns, RetryReturns, IsFirst, IInv, TypeOK
    <3>2. Delivery!Deliver(n)
      BY <2>3, <3>1 DEF ProcessReturns, RetryReturns, Delivery!Deliver
    <3>3. QED BY <3>2 DEF Delivery!Next
  <2>4. ASSUME NEW n \in Notes, Defer(n)
        PROVE  Delivery!Next
    <3>1. n \in 1..issued
      BY <2>4 DEF Defer, IsFirst, IInv, TypeOK
    <3>2. Delivery!Owe(n)
      BY <2>4, <3>1 DEF Defer, Delivery!Owe
    <3>3. QED BY <3>2 DEF Delivery!Next
  <2>5. ASSUME NEW n \in Notes, Advance(n)
        PROVE  Delivery!Next
    <3>1. 1..n \in SUBSET Notes
      BY <2>5, MaxNotesAssumption DEF Notes
    <3>2. QED BY <2>5, <3>1, AdvanceAcknowledges DEF Delivery!Next
  <2>6. ASSUME NEW n \in Notes, ProcessThrows(n) \/ RetryTooEarly(n) \/ RetryThrows(n)
        PROVE  UNCHANGED Delivery!contractVars
    BY <2>6, StutterStep DEF contractState, ProcessThrows, RetryTooEarly, RetryThrows
  <2>7. CASE Settle
    <3>1. current \in failed /\ current \in delivered
      BY <2>7 DEF Settle, IInv, SuspendedAt
    <3>2. current \in Notes
      BY <3>1, MaxNotesAssumption DEF IInv, TypeOK, Notes
    <3>3. Delivery!Settle(current)
      BY <2>7, <3>1 DEF Settle, Delivery!Settle
    <3>4. QED BY <3>2, <3>3 DEF Delivery!Next
  <2>8. QED BY <1>2, <2>1, <2>2, <2>3, <2>4, <2>5, <2>6, <2>7 DEF PollStep
<1>3. CASE FetchMeetsNetworkError \/ PollThrows \/ SettleFails \/ UNCHANGED vars
  BY <1>3, StutterStep DEF contractState, FetchMeetsNetworkError, PollThrows, SettleFails, vars
<1>4. QED BY <1>1, <1>2, <1>3 DEF Next

\* The poller, with its cursor, batches, retry queue, resets and restarts, keeps
\* the at-least-once contract of NotificationDelivery.
THEOREM PollingImplementsDelivery == Spec => ImplementsDelivery
<1>1. Init => Delivery!Init
  <2>1. Init => 1..issued = {} /\ 1..stored.lastNotificationId = {}
    BY DEF Init, StartMarker, NoNote
  <2>2. QED BY <2>1 DEF Init, Delivery!Init
<1>2. QED BY <1>1, StepImplements, Inductive, PTL DEF Spec, ImplementsDelivery, Delivery!Spec
=============================================================================
