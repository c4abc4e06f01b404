------------------------- MODULE NotificationPolling -------------------------
(***************************************************************************)
(* The notification poller of the wallet:                                  *)
(* KeriaNotificationService.pollNotifications and                          *)
(* retryFailedNotifications (src/core/agent/services/                      *)
(* keriaNotificationService.ts), with the two records they keep in basic   *)
(* storage (KERIA_NOTIFICATION_MARKER and FAILED_NOTIFICATIONS), the KERIA *)
(* agent that lists the notifications, and an application that can be      *)
(* killed between any two awaits and opened again.                         *)
(*                                                                         *)
(* A notification is the number of its issue, so the agent's list is the   *)
(* set of those it still keeps, in increasing order; 0 stands for the      *)
(* empty lastNotificationId.  What processNotification does with one is    *)
(* left open here: it returns or it throws.                                *)
(***************************************************************************)
EXTENDS Integers, FiniteSets

CONSTANTS
  MaxNotes,     \* bound: notifications the agent issues over the run
  BatchSize,    \* notifications one list call returns, 25 in the code
  MaxFaults     \* bound: crashes, errors, logouts and disconnections

ASSUME MaxNotesAssumption  == MaxNotes \in Nat \ {0}
ASSUME BatchSizeAssumption == BatchSize \in Nat /\ BatchSize >= 2
ASSUME MaxFaultsAssumption == MaxFaults \in Nat

VARIABLES
  issued,       \* KERIA: number of notifications issued so far
  inbox,        \* KERIA: those it still keeps
  stored,       \* storage: the KERIA_NOTIFICATION_MARKER record
  failed,       \* storage: keys of the FAILED_NOTIFICATIONS record
  due,          \* entries of failed whose backoff delay has elapsed
  online,       \* Agent.getKeriaOnlineStatus()
  loggedIn,     \* KeriaNotificationService.loggedIn
  pc,           \* await at which the poll loop is suspended
  cursor,       \* notificationQuery, the loop's copy of the marker
  batch,        \* fetched notifications not yet behind the cursor
  retrying,     \* entries of failed this retry pass has yet to visit
  current,      \* entry whose successful retry is not recorded yet
  retryDue,     \* FAILED_NOTIFICATIONS_RETRY_INTERVAL has passed
  faults,       \* faults so far
  delivered,    \* history: notifications processNotification returned for
  rewound       \* history: the stored marker was once reset

keria   == <<issued, inbox>>
durable == <<stored, failed, due>>
agent   == <<online, loggedIn>>
loop    == <<cursor, batch, retrying, current, retryDue>>
history == <<delivered, rewound>>
vars    == <<keria, durable, agent, pc, loop, faults, history>>

Notes       == 1..MaxNotes
NoNote      == 0
Marker      == [nextIndex : Nat, lastNotificationId : Notes \union {NoNote}]
StartMarker == [nextIndex |-> 0, lastNotificationId |-> NoNote]

Points == {"stopped", "load", "gate", "reconnect", "reset", "process",
           "defer", "advance", "retry", "settle", "backoff"}

IsFirst(n, s) == n \in s /\ \A m \in s : n <= m

-----------------------------------------------------------------------------
(* The agent's list, which grows at the end and shrinks anywhere.          *)

Position(n) == Cardinality({m \in inbox : m < n})

Listing(start, size) ==
  {n \in inbox : start <= Position(n) /\ Position(n) < start + size}

Issue ==
  /\ issued < MaxNotes
  /\ issued' = issued + 1
  /\ inbox' = inbox \union {issued + 1}
  /\ UNCHANGED <<durable, agent, pc, loop, faults, history>>

Withdraw(n) ==
  /\ inbox' = inbox \ {n}
  /\ UNCHANGED <<issued, durable, agent, pc, loop, faults, history>>

-----------------------------------------------------------------------------
(* Faults, and the rest of the application.                                *)

Fault ==
  /\ faults < MaxFaults
  /\ faults' = faults + 1

\* The process is killed: memory is gone, a new one is logged in and offline.
Crash ==
  /\ pc # "stopped"
  /\ Fault
  /\ pc' = "stopped"
  /\ cursor' = StartMarker
  /\ batch' = {}
  /\ retrying' = {}
  /\ current' = NoNote
  /\ retryDue' = TRUE
  /\ online' = FALSE
  /\ loggedIn' = TRUE
  /\ UNCHANGED <<keria, durable, history>>

\* Another service meets a network error and marks the agent offline.
GoOffline ==
  /\ online
  /\ Fault
  /\ online' = FALSE
  /\ UNCHANGED <<keria, durable, loggedIn, pc, loop, history>>

GoOnline ==
  /\ ~online
  /\ online' = TRUE
  /\ UNCHANGED <<keria, durable, loggedIn, pc, loop, faults, history>>

StopPolling ==
  /\ loggedIn
  /\ Fault
  /\ loggedIn' = FALSE
  /\ UNCHANGED <<keria, durable, online, pc, loop, history>>

StartPolling ==
  /\ ~loggedIn
  /\ loggedIn' = TRUE
  /\ UNCHANGED <<keria, durable, online, pc, loop, faults, history>>

BackoffElapsed(n) ==
  /\ n \in failed \ due
  /\ due' = due \union {n}
  /\ UNCHANGED <<keria, stored, failed, agent, pc, loop, faults, history>>

RetryIntervalElapsed ==
  /\ ~retryDue
  /\ retryDue' = TRUE
  /\ UNCHANGED <<keria, durable, agent, pc, cursor, batch, retrying, current, faults, history>>

-----------------------------------------------------------------------------
(* The poll loop: one action from each await to the next.                  *)

Start ==
  /\ pc = "stopped"
  /\ pc' = "load"
  /\ UNCHANGED <<keria, durable, agent, loop, faults, history>>

LoadMarker ==
  /\ pc = "load"
  /\ cursor' = stored
  /\ batch' = {}
  /\ retrying' = {}
  /\ current' = NoNote
  /\ retryDue' = TRUE
  /\ pc' = "gate"
  /\ UNCHANGED <<keria, durable, agent, faults, history>>

Ready == loggedIn /\ online

StartFetchingIndex ==
  IF cursor.nextIndex > 0 THEN cursor.nextIndex - 1 ELSE 0

\* Mutant: the range of the list call ends one short.
FetchedOneShort == Listing(StartFetchingIndex, BatchSize - 1)

Fetched == Listing(StartFetchingIndex, BatchSize)

\* The list does not begin with the last notification taken from it.
MarkerInvalid(notes) ==
  /\ cursor.nextIndex > 0
  /\ ~IsFirst(cursor.lastNotificationId, notes)

\* notes.shift() drops the first, which was processed already.
FetchBatch ==
  /\ pc = "gate"
  /\ Ready
  /\ ~MarkerInvalid(Fetched)
  /\ batch' = IF cursor.nextIndex > 0
              THEN {n \in Fetched : ~IsFirst(n, Fetched)}
              ELSE Fetched
  /\ pc' = "process"
  /\ UNCHANGED <<keria, durable, agent, cursor, retrying, current, retryDue, faults, history>>

FetchFindsMarkerInvalid ==
  /\ pc = "gate"
  /\ Ready
  /\ MarkerInvalid(Fetched)
  /\ cursor' = StartMarker
  /\ pc' = "reset"
  /\ UNCHANGED <<keria, durable, agent, batch, retrying, current, retryDue, faults, history>>

PersistReset ==
  /\ pc = "reset"
  /\ stored' = cursor
  /\ rewound' = TRUE
  /\ pc' = "gate"
  /\ UNCHANGED <<keria, failed, due, agent, loop, faults, delivered>>

\* Network error: the loop marks the agent offline and hangs in connect().
FetchMeetsNetworkError ==
  /\ pc = "gate"
  /\ Ready
  /\ Fault
  /\ online' = FALSE
  /\ pc' = "reconnect"
  /\ UNCHANGED <<keria, durable, loggedIn, loop, history>>

Reconnect ==
  /\ pc = "reconnect"
  /\ online' = TRUE
  /\ pc' = "gate"
  /\ UNCHANGED <<keria, durable, loggedIn, loop, faults, history>>

\* Any other error of a list call, and any error of basic storage outside
\* the per-notification handlers, leaves the loop for pollNotifications.
PollThrows ==
  /\ \/ pc \in {"load", "reset", "defer", "advance", "retry"}
     \/ pc = "gate" /\ Ready
  /\ Fault
  /\ pc' = "backoff"
  /\ UNCHANGED <<keria, durable, agent, loop, history>>

Restart ==
  /\ pc = "backoff"
  /\ pc' = "load"
  /\ UNCHANGED <<keria, durable, agent, loop, faults, history>>

ProcessReturns(n) ==
  /\ pc = "process"
  /\ IsFirst(n, batch)
  /\ delivered' = delivered \union {n}
  /\ pc' = "advance"
  /\ UNCHANGED <<keria, durable, agent, loop, faults, rewound>>

\* Mutant: the marker moves on without the failed entry being written.
ProcessThrowsUnrecorded(n) ==
  /\ pc = "process"
  /\ IsFirst(n, batch)
  /\ pc' = "advance"
  /\ UNCHANGED <<keria, durable, agent, loop, faults, history>>

ProcessThrows(n) ==
  /\ pc = "process"
  /\ IsFirst(n, batch)
  /\ pc' = "defer"
  /\ UNCHANGED <<keria, durable, agent, loop, faults, history>>

\* The failed entry is written with attempts: 1 and a fresh lastAttempt.
Defer(n) ==
  /\ pc = "defer"
  /\ IsFirst(n, batch)
  /\ failed' = failed \union {n}
  /\ due' = due \ {n}
  /\ pc' = "advance"
  /\ UNCHANGED <<keria, stored, agent, loop, faults, history>>

\* Mutant: the marker is stored once per batch.
AdvanceStoringLast(n) ==
  /\ pc = "advance"
  /\ IsFirst(n, batch)
  /\ cursor' = [nextIndex |-> cursor.nextIndex + 1, lastNotificationId |-> n]
  /\ stored' = IF batch = {n} THEN cursor' ELSE stored
  /\ batch' = batch \ {n}
  /\ pc' = "process"
  /\ UNCHANGED <<keria, failed, due, agent, retrying, current, retryDue, faults, history>>

Advance(n) ==
  /\ pc = "advance"
  /\ IsFirst(n, batch)
  /\ cursor' = [nextIndex |-> cursor.nextIndex + 1, lastNotificationId |-> n]
  /\ stored' = cursor'
  /\ batch' = batch \ {n}
  /\ pc' = "process"
  /\ UNCHANGED <<keria, failed, due, agent, retrying, current, retryDue, faults, history>>

\* Mutant: the time of the last retry pass is taken without making the pass.
BatchDoneUnretried ==
  /\ pc = "process"
  /\ batch = {}
  /\ pc' = "gate"
  /\ retryDue' = FALSE
  /\ retrying' = {}
  /\ UNCHANGED <<keria, durable, agent, cursor, batch, current, faults, history>>

BatchDone ==
  /\ pc = "process"
  /\ batch = {}
  /\ retryDue' = FALSE
  /\ \/ /\ retryDue
        /\ retrying' = failed
        /\ pc' = "retry"
     \/ /\ ~retryDue
        /\ retrying' = {}
        /\ pc' = "gate"
  /\ UNCHANGED <<keria, durable, agent, cursor, batch, current, faults, history>>

-----------------------------------------------------------------------------
(* retryFailedNotifications, over the entries it read when it began.       *)

RetryTooEarly(n) ==
  /\ pc = "retry"
  /\ n \in retrying \ due
  /\ retrying' = retrying \ {n}
  /\ UNCHANGED <<keria, durable, agent, pc, cursor, batch, current, retryDue, faults, history>>

RetryReturns(n) ==
  /\ pc = "retry"
  /\ n \in retrying \intersect due
  /\ delivered' = delivered \union {n}
  /\ current' = n
  /\ pc' = "settle"
  /\ UNCHANGED <<keria, durable, agent, cursor, batch, retrying, retryDue, faults, rewound>>

\* Mutant: an entry that fails again is given up.
RetryThrowsGivingUp(n) ==
  /\ pc = "retry"
  /\ n \in retrying \intersect due
  /\ failed' = failed \ {n}
  /\ due' = due \ {n}
  /\ retrying' = retrying \ {n}
  /\ UNCHANGED <<keria, stored, agent, pc, cursor, batch, current, retryDue, faults, history>>

RetryThrows(n) ==
  /\ pc = "retry"
  /\ n \in retrying \intersect due
  /\ due' = due \ {n}
  /\ retrying' = retrying \ {n}
  /\ UNCHANGED <<keria, stored, failed, agent, pc, cursor, batch, current, retryDue, faults, history>>

\* Mutant: the entry leaves the queue, its delay stays.
SettleKeepingDelay ==
  /\ pc = "settle"
  /\ failed' = failed \ {current}
  /\ retrying' = retrying \ {current}
  /\ current' = NoNote
  /\ pc' = "retry"
  /\ UNCHANGED <<keria, stored, due, agent, cursor, batch, retryDue, faults, history>>

Settle ==
  /\ pc = "settle"
  /\ failed' = failed \ {current}
  /\ due' = due \ {current}
  /\ retrying' = retrying \ {current}
  /\ current' = NoNote
  /\ pc' = "retry"
  /\ UNCHANGED <<keria, stored, agent, cursor, batch, retryDue, faults, history>>

\* The update of the record fails: the catch puts the entry back.
SettleFails ==
  /\ pc = "settle"
  /\ Fault
  /\ due' = due \ {current}
  /\ retrying' = retrying \ {current}
  /\ current' = NoNote
  /\ pc' = "retry"
  /\ UNCHANGED <<keria, stored, failed, agent, cursor, batch, retryDue, history>>

RetryDone ==
  /\ pc = "retry"
  /\ retrying = {}
  /\ pc' = "gate"
  /\ UNCHANGED <<keria, durable, agent, loop, faults, history>>

-----------------------------------------------------------------------------
Init ==
  /\ issued = 0
  /\ inbox = {}
  /\ stored = StartMarker
  /\ failed = {}
  /\ due = {}
  /\ online = FALSE
  /\ loggedIn = TRUE
  /\ pc = "stopped"
  /\ cursor = StartMarker
  /\ batch = {}
  /\ retrying = {}
  /\ current = NoNote
  /\ retryDue = TRUE
  /\ faults = 0
  /\ delivered = {}
  /\ rewound = FALSE

Environment ==
  \/ Issue
  \/ \E n \in inbox : Withdraw(n)
  \/ Crash
  \/ GoOffline
  \/ GoOnline
  \/ StopPolling
  \/ StartPolling
  \/ \E n \in Notes : BackoffElapsed(n)
  \/ RetryIntervalElapsed

PollStep ==
  \/ Start
  \/ LoadMarker
  \/ FetchBatch
  \/ FetchFindsMarkerInvalid
  \/ PersistReset
  \/ Reconnect
  \/ Restart
  \/ \E n \in Notes : \/ ProcessReturns(n)
                      \/ ProcessThrows(n)
                      \/ Defer(n)
                      \/ Advance(n)
  \/ BatchDone
  \/ \E n \in Notes : \/ RetryTooEarly(n)
                      \/ RetryReturns(n)
                      \/ RetryThrows(n)
  \/ Settle
  \/ RetryDone

Next ==
  \/ Environment
  \/ PollStep
  \/ FetchMeetsNetworkError
  \/ PollThrows
  \/ SettleFails

\* The loop keeps running, timers fire, the user logs in again and the
\* connection returns; a notification retried for ever does not throw for ever.
Fairness ==
  /\ WF_vars(PollStep)
  /\ WF_vars(GoOnline)
  /\ WF_vars(StartPolling)
  /\ WF_vars(RetryIntervalElapsed)
  /\ \A n \in Notes : WF_vars(BackoffElapsed(n)) /\ SF_vars(RetryReturns(n))

Spec == Init /\ [][Next]_vars /\ Fairness

-----------------------------------------------------------------------------
TypeOK ==
  /\ issued \in 0..MaxNotes
  /\ inbox \subseteq 1..issued
  /\ stored \in Marker
  /\ failed \subseteq 1..issued
  /\ due \subseteq failed
  /\ online \in BOOLEAN
  /\ loggedIn \in BOOLEAN
  /\ pc \in Points
  /\ cursor \in Marker
  /\ batch \subseteq 1..issued
  /\ retrying \subseteq failed
  /\ current \in failed \union {NoNote}
  /\ retryDue \in BOOLEAN
  /\ faults \in 0..MaxFaults
  /\ delivered \subseteq 1..issued
  /\ rewound \in BOOLEAN

\* Every notification up to n that the agent still keeps was processed or
\* waits in the failed queue.
CoveredUpTo(n) ==
  \A m \in inbox : m <= n => m \in delivered \union failed

\* The poller skips nothing: whatever is deleted on KERIA, fails or crashes,
\* a notification behind the marker, the stored one or the loop's, has been
\* processed or is in FAILED_NOTIFICATIONS.
NothingSkipped ==
  /\ CoveredUpTo(stored.lastNotificationId)
  /\ CoveredUpTo(cursor.lastNotificationId)

\* The marker is written after each notification, not after each batch: until
\* a deletion forces a reset, a restart repeats at most one notification.
AtMostOneRepeated ==
  ~rewound =>
    \A m, n \in (delivered \union failed) \intersect inbox :
      /\ m > stored.lastNotificationId
      /\ n > stored.lastNotificationId
      => m = n

\* An entry leaves FAILED_NOTIFICATIONS only once its notification was
\* processed: retryFailedNotifications writes a map it read before its awaits.
OnlyProcessedLeaveQueue ==
  [][\A n \in failed \ failed' : n \in delivered]_vars

\* A notification is processed in the end unless KERIA drops it first, across
\* failures, backoff, restarts and resets of the marker.
EveryNotificationProcessed ==
  \A n \in Notes : n \in inbox ~> n \in delivered \/ n \notin inbox

\* Every entry of FAILED_NOTIFICATIONS is retried until it leaves the queue,
\* also those of notifications KERIA no longer lists.
FailedQueueDrains ==
  \A n \in Notes : n \in failed ~> n \notin failed

\* The poller implements the at-least-once contract.
Delivery == INSTANCE NotificationDelivery WITH
  published    <- 1..issued,
  withdrawn    <- (1..issued) \ inbox,
  owed         <- failed,
  acknowledged <- 1..stored.lastNotificationId

ImplementsDelivery == Delivery!Spec
=============================================================================
