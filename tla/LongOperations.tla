--------------------------- MODULE LongOperations ---------------------------
(***************************************************************************)
(* The wallet's long-running operations: the OperationPendingRecords that  *)
(* services save and delete, the array pendingOperations that mirrors them *)
(* in memory, and KeriaNotificationService.pollLongOperations, which walks *)
(* the array while others change it.                                       *)
(*                                                                         *)
(* A storage call is two awaits, one that looks the record up and one that *)
(* writes, so uses of one record by several services can overlap.  What an *)
(* operation's handler does is left open: it returns or it throws;         *)
(* CredentialExchange models one.                                          *)
(***************************************************************************)
EXTENDS Integers, Sequences, FiniteSets, SequencesExt

CONSTANTS
  Ops,          \* ids of operations, such as witness.<prefix>
  MaxSaves,     \* bound: saves of a record that go past the lookup
  MaxFaults     \* bound: crashes, errors and disconnections

ASSUME MaxSavesAssumption  == MaxSaves \in Nat
ASSUME MaxFaultsAssumption == MaxFaults \in Nat

VARIABLES
  stored,       \* storage: ids with an OperationPendingRecord
  live,         \* pendingOperations: the record objects, in order
  saving,       \* the record objects being saved that found no record yet
  removing,     \* ids whose removal found a record
  done,         \* KERIA: operations that are done
  ready,        \* loggedIn and the agent is online
  pc,           \* await at which the loop is suspended
  index,        \* position of the array's iterator
  current,      \* operationRecord, the object being processed
  saves,        \* record objects created so far, which numbers them
  faults,       \* faults so far
  handled,      \* history: operations whose handler returned
  abandoned,    \* history: operations of identifiers that were deleted
  raced         \* history: a write overlapped a write or removal of its record

records == <<stored, live, saves>>
service == <<saving, removing>>
loop    == <<pc, index, current>>
history == <<handled, abandoned, raced>>
vars    == <<records, service, done, ready, loop, faults, history>>

\* An object is told from another of the same id by its number.
Object(o, n) == [id |-> o, number |-> n]
Objects      == [id : Ops, number : 0..MaxSaves]
Loaded       == 0

IndicesOf(o) == {i \in DOMAIN live : live[i].id = o}

Fault ==
  /\ faults < MaxFaults
  /\ faults' = faults + 1

-----------------------------------------------------------------------------
(* The services that save and delete operations; all of it after the start,*)
(* when the loop has its records: the services wait for a connection.      *)

\* save: the lookup; a record that exists is left alone and not announced.
SaveLooksUp(o) ==
  /\ pc # "load"
  /\ o \notin stored \union abandoned
  /\ saves < MaxSaves
  /\ saves' = saves + 1
  /\ saving' = saving \union {Object(o, saves')}
  /\ UNCHANGED <<stored, live, removing, done, ready, loop, faults, history>>

\* INSERT OR IGNORE, then OperationAdded, whose listener pushes the object.
SaveWrites(r) ==
  /\ r \in saving
  /\ saving' = saving \ {r}
  /\ stored' = stored \union {r.id}
  /\ live' = Append(live, r)
  /\ handled' = handled \ {r.id}
  /\ raced' = (raced \/ r.id \in stored \union abandoned)
  /\ UNCHANGED <<saves, removing, done, ready, loop, faults, abandoned>>

\* cleanupPendingOperationsForIdentifier.
RemovalLooksUp(o) ==
  /\ pc # "load"
  /\ o \in stored \ removing
  /\ removing' = removing \union {o}
  /\ abandoned' = abandoned \union {o}
  /\ UNCHANGED <<records, saving, done, ready, loop, faults, handled, raced>>

\* Mutant: the loop is not told.
RemovalWritesUnannounced(o) ==
  /\ o \in removing
  /\ removing' = removing \ {o}
  /\ stored' = stored \ {o}
  /\ raced' = (raced \/ o \notin stored)
  /\ UNCHANGED <<live, saves, saving, done, ready, loop, faults, handled, abandoned>>

\* The delete, then OperationRemoved, whose listener takes the first object
\* of that id out of the array.
RemovalWrites(o) ==
  /\ o \in removing
  /\ removing' = removing \ {o}
  /\ stored' = stored \ {o}
  /\ live' = IF IndicesOf(o) = {} THEN live
             ELSE RemoveAt(live, CHOOSE i \in IndicesOf(o) : \A j \in IndicesOf(o) : i <= j)
  /\ raced' = (raced \/ o \notin stored)
  /\ UNCHANGED <<saves, saving, done, ready, loop, faults, handled, abandoned>>

-----------------------------------------------------------------------------
(* KERIA, and the rest of the application.                                 *)

Complete(o) ==
  /\ o \notin done
  /\ done' = done \union {o}
  /\ UNCHANGED <<records, service, ready, loop, faults, history>>

BecomeUnready ==
  /\ ready
  /\ Fault
  /\ ready' = FALSE
  /\ UNCHANGED <<records, service, done, loop, history>>

BecomeReady ==
  /\ ~ready
  /\ ready' = TRUE
  /\ UNCHANGED <<records, service, done, loop, faults, history>>

NoObject == [id |-> "none", number |-> 0]

Crash ==
  /\ Fault
  /\ live' = <<>>
  /\ saving' = {}
  /\ removing' = {}
  /\ pc' = "load"
  /\ index' = 1
  /\ current' = NoObject
  /\ UNCHANGED <<stored, saves, done, ready, history>>

-----------------------------------------------------------------------------
(* pollLongOperations.                                                     *)

\* getAll gives the records in some order.
Load ==
  /\ pc = "load"
  /\ \E order \in [1..Cardinality(stored) -> stored] :
       /\ IsInjective(order)
       /\ live' = [i \in DOMAIN order |-> Object(order[i], Loaded)]
  /\ pc' = "gate"
  /\ UNCHANGED <<stored, saves, service, done, ready, index, current, faults, history>>

StartPass ==
  /\ pc = "gate"
  /\ ready
  /\ pc' = "next"
  /\ index' = 1
  /\ UNCHANGED <<records, service, done, ready, current, faults, history>>

Visit ==
  /\ pc = "next"
  /\ index <= Len(live)
  /\ current' = live[index]
  /\ index' = index + 1
  /\ pc' = "get"
  /\ UNCHANGED <<records, service, done, ready, faults, history>>

PassDone ==
  /\ pc = "next"
  /\ index > Len(live)
  /\ pc' = "gate"
  /\ index' = 1
  /\ current' = NoObject
  /\ UNCHANGED <<records, service, done, ready, faults, history>>

\* Mutant: the loop handles an operation without asking whether it is done.
GetAnything ==
  /\ pc = "get"
  /\ pc' = "handle"
  /\ UNCHANGED <<records, service, done, ready, index, current, faults, history>>

GetOperation ==
  /\ pc = "get"
  /\ pc' = IF current.id \in done THEN "handle" ELSE "next"
  /\ UNCHANGED <<records, service, done, ready, index, current, faults, history>>

\* Network error: the loop marks the agent offline and hangs in connect().
GetMeetsNetworkError ==
  /\ pc = "get"
  /\ ready
  /\ Fault
  /\ ready' = FALSE
  /\ pc' = "connect"
  /\ UNCHANGED <<records, service, done, index, current, history>>

Reconnect ==
  /\ pc = "connect"
  /\ ready' = TRUE
  /\ pc' = "next"
  /\ UNCHANGED <<records, service, done, index, current, faults, history>>

GetThrows ==
  /\ pc = "get"
  /\ Fault
  /\ pc' = "next"
  /\ UNCHANGED <<records, service, done, ready, index, current, history>>

HandlerReturns(o) ==
  /\ pc = "handle"
  /\ current.id = o
  /\ handled' = handled \union {o}
  /\ pc' = "lookup"
  /\ UNCHANGED <<records, service, done, ready, index, current, faults, abandoned, raced>>

\* Mutant: an operation whose handler gave up is deleted all the same.
HandlerThrowsToDelete(o) ==
  /\ pc = "handle"
  /\ current.id = o
  /\ pc' = "lookup"
  /\ UNCHANGED <<records, service, done, ready, index, current, faults, history>>

\* Or it returns early, when the credential is not on KERIA yet.
HandlerThrows(o) ==
  /\ pc = "handle"
  /\ current.id = o
  /\ pc' = "next"
  /\ UNCHANGED <<records, service, done, ready, index, current, faults, history>>

\* deleteById: the lookup; it throws when the record is gone.
DeleteLooksUp ==
  /\ pc = "lookup"
  /\ pc' = IF current.id \in stored THEN "delete" ELSE "next"
  /\ UNCHANGED <<records, service, done, ready, index, current, faults, history>>

\* Mutant: the object is taken out at the iterator's position.
SplicedAtIndex == IF index \in DOMAIN live THEN RemoveAt(live, index) ELSE live

\* splice(indexOf(operationRecord), 1): an index of -1 takes out the last.
Spliced ==
  IF live = <<>> THEN live
  ELSE IF \E i \in DOMAIN live : live[i] = current
       THEN RemoveAt(live, CHOOSE i \in DOMAIN live : live[i] = current)
       ELSE Front(live)

DeleteWrites ==
  /\ pc = "delete"
  /\ stored' = stored \ {current.id}
  /\ live' = Spliced
  /\ raced' = (raced \/ current.id \notin stored)
  /\ pc' = "next"
  /\ UNCHANGED <<saves, service, done, ready, index, current, faults, handled, abandoned>>

-----------------------------------------------------------------------------
Init ==
  /\ stored = {}
  /\ live = <<>>
  /\ saving = {}
  /\ removing = {}
  /\ done = {}
  /\ ready = FALSE
  /\ pc = "load"
  /\ index = 1
  /\ current = NoObject
  /\ saves = 0
  /\ faults = 0
  /\ handled = {}
  /\ abandoned = {}
  /\ raced = FALSE

Services ==
  \/ \E r \in Objects : SaveWrites(r)
  \/ \E o \in Ops : SaveLooksUp(o) \/ RemovalLooksUp(o) \/ RemovalWrites(o)

Poll ==
  \/ Load
  \/ StartPass
  \/ Visit
  \/ PassDone
  \/ GetOperation
  \/ Reconnect
  \/ \E o \in Ops : HandlerReturns(o) \/ HandlerThrows(o)
  \/ DeleteLooksUp
  \/ DeleteWrites

Next ==
  \/ Services
  \/ Poll
  \/ \E o \in Ops : Complete(o)
  \/ BecomeUnready
  \/ BecomeReady
  \/ GetMeetsNetworkError
  \/ GetThrows
  \/ Crash

\* The loop keeps running, the user logs in and the connection returns; a
\* handler called for ever does not throw for ever.
Fairness ==
  /\ WF_vars(Poll)
  /\ WF_vars(BecomeReady)
  /\ \A o \in Ops : SF_vars(HandlerReturns(o))

Spec == Init /\ [][Next]_vars /\ Fairness

-----------------------------------------------------------------------------
Points == {"load", "gate", "next", "get", "connect", "handle", "lookup", "delete"}

TypeOK ==
  /\ stored \subseteq Ops
  /\ live \in Seq(Objects)
  /\ saving \subseteq Objects
  /\ removing \subseteq abandoned
  /\ done \subseteq Ops
  /\ ready \in BOOLEAN
  /\ pc \in Points
  /\ index \in Nat \ {0}
  /\ current \in Objects \union {NoObject}
  /\ saves \in 0..MaxSaves
  /\ faults \in 0..MaxFaults
  /\ handled \subseteq done
  /\ abandoned \subseteq Ops
  /\ raced \in BOOLEAN

\* Unless two uses of one record overlapped, the array holds each stored
\* operation once and nothing else, however it changes under the iterator:
\* nothing is forgotten until the next start, or processed for ever.
LiveMirrorsStored ==
  pc # "load" /\ ~raced =>
    /\ {live[i].id : i \in DOMAIN live} = stored
    /\ \A i, j \in DOMAIN live : live[i].id = live[j].id => i = j

\* A record leaves storage only when its handler has returned or the
\* identifier it belongs to is deleted, unless two uses of it overlapped.
OnlyHandledLeave ==
  [][~raced' => \A o \in stored \ stored' : o \in handled \union removing]_vars

\* An operation that is done is handled and forgotten, however often it is
\* skipped, fails or is interrupted.
DoneOperationLeaves ==
  \A o \in Ops : o \in stored /\ o \in done ~> o \notin stored \/ raced
=============================================================================
