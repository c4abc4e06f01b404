----------------------------- MODULE Identifiers -----------------------------
(***************************************************************************)
(* The wallet's own identifiers: the queue of names still to be made, the   *)
(* metadata records, the witness operations, the names that KERIA keeps for *)
(* its identifiers, and the calls of IdentifierService that change them:    *)
(*   - createIdentifier, by the user or for a queued name;                  *)
(*   - markIdentifierPendingDelete and deleteIdentifier;                    *)
(*   - updateIdentifier and its propagation to KERIA;                       *)
(* with the tasks that take up each of them when the agent comes online.    *)
(*                                                                         *)
(* KERIA is the wallet's backup: a recovery takes an identifier for deleted *)
(* when its name there says so.  updateIdentifierMetadata, which looks a    *)
(* record up and writes it, is one step; group identifiers are left out.    *)
(***************************************************************************)
EXTENDS Integers, FiniteSets

CONSTANTS
  Names,        \* names for which the user asks for an identifier
  NewNames,     \* names that the user gives to identifiers later
  MaxIds,       \* bound: identifiers that KERIA makes
  MaxUpdates,   \* bound: changes of a name
  MaxFaults     \* bound: crashes, failed calls and disconnections

ASSUME NamesAssumption      == Names \intersect NewNames = {}
ASSUME MaxIdsAssumption     == MaxIds \in Nat
ASSUME MaxUpdatesAssumption == MaxUpdates \in Nat
ASSUME MaxFaultsAssumption  == MaxFaults \in Nat

VARIABLES
  queue,        \* storage: IDENTIFIERS_PENDING_CREATION
  record,       \* storage: the IdentifierMetadataRecord of each id, or Absent
  witness,      \* storage: ids with a witness operation
  keria,        \* KERIA: the name of each identifier it has made
  online,       \* Agent.isOnline, and KERIA can be reached
  create,       \* createIdentifier of the user and of the task
  creations,    \* names that the creation task has yet to take
  deletion,     \* deleteIdentifier of each id
  removals,     \* ids that the removal task has yet to take
  update,       \* propagateUpdatesForIdentifier of the user and of the task
  updates,      \* records that the update task has yet to take, as it read them
  faults,       \* faults so far
  renames,      \* changes of a name so far
  origin,       \* history: the name for which each identifier was made
  promised,     \* history: names that were queued
  clobbered,    \* history: a write of the queue undid another one
  freed,        \* history: names freed on KERIA while still to be made
  crossed,      \* history: ids renamed during a propagation, or propagated with a name
                \* or for a record of the past
  stopped       \* history: ids and names that a task which threw did not reach

service == <<create, creations>>
removal == <<deletion, removals>>
propagation == <<update, updates>>
history == <<origin, promised, clobbered, freed, crossed, stopped>>
vars    == <<queue, record, witness, keria, online, service, removal, propagation,
             faults, renames, history>>

Ids      == 1..MaxIds
Callers  == {"user", "task"}
AllNames == Names \union NewNames
NoName   == "no name"
Deleted  == "XX"

\* KERIA's names for no identifier and for a deleted one are nobody's choice:
\* the prefix that the wallet writes before a name keeps them apart.
ASSUME SentinelsAssumption == {NoName, Deleted} \intersect AllNames = {}

Absent == [name |-> NoName]
Idle   == [step |-> "idle"]

Stored   == {i \in Ids : record[i] # Absent}
Made     == {i \in Ids : keria[i] # NoName}
Deleting == {i \in Stored : record[i].deleting}
Updating == {i \in Stored : record[i].updating}

\* The name is queued, or a call is about to make it.
Wanted(n) ==
  \/ n \in queue \union creations
  \/ \E c \in Callers : create[c].step \in {"write", "incept"} /\ create[c].name = n

Fault ==
  /\ faults < MaxFaults
  /\ faults' = faults + 1

\* A call of KERIA rejects: no network, or an error.
CallFails ==
  \/ ~online /\ UNCHANGED faults
  \/ Fault

-----------------------------------------------------------------------------
(* The queue: read whole, changed and written whole.                       *)

\* indexOf and splice.
Without(queued, n) == queued \ {n}

WriteQueue(read, written) ==
  /\ queue' = written
  /\ clobbered' = (clobbered \/ queue # read)

-----------------------------------------------------------------------------
(* createIdentifier.                                                       *)

CreateReadsQueue(n) ==
  /\ online
  /\ create["user"] = Idle
  /\ n \notin promised
  /\ create' = [create EXCEPT !["user"] = [step |-> "write", name |-> n, read |-> queue]]
  /\ UNCHANGED <<queue, record, witness, keria, online, creations, removal, propagation,
                 faults, renames, history>>

CreateQueues ==
  /\ create["user"].step = "write"
  /\ LET c == create["user"] IN
       /\ WriteQueue(c.read, c.read \union {c.name})
       /\ promised' = promised \union {c.name}
       /\ create' = [create EXCEPT !["user"] = [step |-> "incept", name |-> c.name]]
  /\ UNCHANGED <<record, witness, keria, online, creations, removal, propagation,
                 faults, renames, origin, freed, crossed, stopped>>

\* processIdentifiersPendingCreation takes the next of the names it read.
CreateNext(n) ==
  /\ n \in creations
  /\ create["task"] = Idle
  /\ creations' = creations \ {n}
  /\ create' = [create EXCEPT !["task"] = [step |-> "incept", name |-> n]]
  /\ UNCHANGED <<queue, record, witness, keria, online, removal, propagation, faults,
                 renames, history>>

At(c, step) == create[c].step = step

\* The call rejects; the task stops at the first that does.
CreateStops(c) ==
  /\ create' = [create EXCEPT ![c] = Idle]
  /\ stopped' = stopped \union {create[c].name} \union (IF c = "task" THEN creations ELSE {})
  /\ creations' = IF c = "task" THEN {} ELSE creations

\* Mutant: KERIA is not asked for an identifier of that name.
CreateInceptsAgain(c) ==
  /\ At(c, "incept")
  /\ online
  /\ LET i == Cardinality(Made) + 1 IN
       /\ i \in Ids
       /\ keria' = [keria EXCEPT ![i] = create[c].name]
       /\ origin' = [origin EXCEPT ![i] = create[c].name]
       /\ \/ /\ create' = [create EXCEPT ![c] = [step |-> "save", name |-> @.name, id |-> i]]
             /\ UNCHANGED <<creations, stopped, faults>>
          \/ CallFails /\ CreateStops(c)
  /\ UNCHANGED <<queue, record, witness, online, removal, propagation, renames, promised,
                 clobbered, freed, crossed>>

\* KERIA makes an identifier unless it has one of that name, which the
\* wallet then searches for.  The get and addEndRole that follow may fail.
CreateIncepts(c) ==
  /\ At(c, "incept")
  /\ online
  /\ LET n == create[c].name
         named == {i \in Ids : keria[i] = n}
         i == IF named # {} THEN CHOOSE i \in named : TRUE ELSE Cardinality(Made) + 1
     IN
       /\ i \in Ids
       /\ keria' = [keria EXCEPT ![i] = n]
       /\ origin' = [origin EXCEPT ![i] = IF i \in Made THEN @ ELSE n]
       /\ \/ /\ create' = [create EXCEPT ![c] = [step |-> "save", name |-> n, id |-> i]]
             /\ UNCHANGED <<creations, stopped, faults>>
          \/ CallFails /\ CreateStops(c)
  /\ UNCHANGED <<queue, record, witness, online, removal, propagation, renames, promised,
                 clobbered, freed, crossed>>

CreateThrows(c) ==
  /\ At(c, "incept")
  /\ CallFails
  /\ CreateStops(c)
  /\ UNCHANGED <<queue, record, witness, keria, online, removal, propagation, renames,
                 origin, promised, clobbered, freed, crossed>>

\* Mutant: the operation comes before the record.
CreateSkipsRecord(c) ==
  /\ At(c, "save")
  /\ create' = [create EXCEPT ![c].step = "operation"]
  /\ UNCHANGED <<queue, record, witness, keria, online, creations, removal, propagation,
                 faults, renames, history>>

\* A record that exists is left alone.
CreateSaves(c) ==
  /\ At(c, "save")
  /\ create' = [create EXCEPT ![c].step = "operation"]
  /\ LET i == create[c].id IN
       record' = IF i \in Stored THEN record
                 ELSE [record EXCEPT ![i] = [name |-> create[c].name, deleting |-> FALSE,
                                             deleted |-> FALSE, updating |-> FALSE,
                                             status |-> "pending"]]
  /\ UNCHANGED <<queue, witness, keria, online, creations, removal, propagation, faults,
                 renames, history>>

\* Mutant: the name is taken out of the queue before the operation is saved.
CreateClearsFirst(c) ==
  /\ At(c, "operation")
  /\ WriteQueue(queue, Without(queue, create[c].name))
  /\ witness' = witness
  /\ create' = [create EXCEPT ![c] = [step |-> "unqueue", name |-> @.name, read |-> queue]]
  /\ UNCHANGED <<record, keria, online, creations, removal, propagation, faults, renames,
                 origin, promised, freed, crossed, stopped>>

\* The operation, then clearQueuedIdentifier: the queue is read, and written
\* unless the name is not in it.
CreateSavesOperation(c) ==
  /\ At(c, "operation")
  /\ witness' = witness \union {create[c].id}
  /\ create' = [create EXCEPT ![c] =
                  IF create[c].name \in queue
                  THEN [step |-> "unqueue", name |-> create[c].name, read |-> queue] ELSE Idle]
  /\ UNCHANGED <<queue, record, keria, online, creations, removal, propagation, faults,
                 renames, history>>

CreateUnqueues(c) ==
  /\ At(c, "unqueue")
  /\ WriteQueue(create[c].read, Without(create[c].read, create[c].name))
  /\ create' = [create EXCEPT ![c] = Idle]
  /\ UNCHANGED <<record, witness, keria, online, creations, removal, propagation, faults,
                 renames, origin, promised, freed, crossed, stopped>>

\* The poll: the witness operation is done, the record's status follows and
\* the operation is deleted.
HandlerCompletes(i) ==
  /\ i \in witness
  /\ online
  /\ witness' = witness \ {i}
  /\ record' = IF i \in Stored THEN [record EXCEPT ![i].status = "settled"] ELSE record
  /\ UNCHANGED <<queue, keria, online, service, removal, propagation, faults, renames, history>>

-----------------------------------------------------------------------------
(* deleteIdentifier.                                                       *)

\* The record is marked, and IdentifierRemoved starts the deletion.
MarkIdentifierPendingDelete(i) ==
  /\ i \in Stored \ Deleting
  /\ ~record[i].deleted
  /\ deletion[i] = Idle
  /\ record' = [record EXCEPT ![i].deleting = TRUE]
  /\ deletion' = [deletion EXCEPT ![i] = [step |-> "begin", by |-> "user"]]
  /\ UNCHANGED <<queue, witness, keria, online, service, removals, propagation, faults,
                 renames, history>>

\* removeIdentifiersPendingDeletion takes the next of the records it read.
RemoveNext(i) ==
  /\ i \in removals
  /\ \A j \in Ids : deletion[j] # Idle => deletion[j].by = "user"
  /\ deletion[i] = Idle
  /\ removals' = removals \ {i}
  /\ deletion' = [deletion EXCEPT ![i] = [step |-> "begin", by |-> "task"]]
  /\ UNCHANGED <<queue, record, witness, keria, online, service, propagation, faults,
                 renames, history>>

\* The metadata is read, the witness operation deleted and the queue read.
DeletionBegins(i) ==
  /\ deletion[i].step = "begin"
  /\ witness' = witness \ {i}
  /\ deletion' = [deletion EXCEPT ![i] =
                    IF record[i].name \in queue
                    THEN [step |-> "unqueue", by |-> @.by, name |-> record[i].name, read |-> queue]
                    ELSE [step |-> "rename", by |-> @.by]]
  /\ UNCHANGED <<queue, record, keria, online, service, removals, propagation, faults,
                 renames, history>>

DeletionUnqueues(i) ==
  /\ deletion[i].step = "unqueue"
  /\ WriteQueue(deletion[i].read, Without(deletion[i].read, deletion[i].name))
  /\ deletion' = [deletion EXCEPT ![i] = [step |-> "rename", by |-> @.by]]
  /\ UNCHANGED <<record, witness, keria, online, service, removals, propagation, faults,
                 renames, origin, promised, freed, crossed, stopped>>

\* Mutant: the local record comes first.
DeletionRenamesLast(i) ==
  /\ deletion[i].step = "rename"
  /\ deletion' = [deletion EXCEPT ![i].step = "finish"]
  /\ UNCHANGED <<queue, record, witness, keria, online, service, removals, propagation,
                 faults, renames, history>>

\* After its connections and credentials the identifier gets a name on KERIA
\* that says it is deleted; the name it had is free.
DeletionRenames(i) ==
  /\ deletion[i].step = "rename"
  /\ online
  /\ keria' = [keria EXCEPT ![i] = Deleted]
  /\ freed' = IF Wanted(keria[i]) THEN freed \union {keria[i]} ELSE freed
  /\ deletion' = [deletion EXCEPT ![i].step = "finish"]
  /\ UNCHANGED <<queue, record, witness, online, service, removals, propagation, faults,
                 renames, origin, promised, clobbered, crossed, stopped>>

\* The notifications are deleted, and the record is deleted by its flag.
DeletionEnds(i) ==
  /\ deletion[i].step = "finish"
  /\ record' = [record EXCEPT ![i].deleted = TRUE, ![i].deleting = FALSE]
  /\ deletion' = [deletion EXCEPT ![i] = Idle]
  /\ UNCHANGED <<queue, witness, keria, online, service, removals, propagation, faults,
                 renames, history>>

DeletionThrows(i) ==
  /\ deletion[i].step \in {"rename", "finish"}
  /\ CallFails
  /\ deletion' = [deletion EXCEPT ![i] = Idle]
  /\ stopped' = stopped \union {i} \union (IF deletion[i].by = "task" THEN removals ELSE {})
  /\ removals' = IF deletion[i].by = "task" THEN {} ELSE removals
  /\ UNCHANGED <<queue, record, witness, keria, online, service, propagation, renames,
                 origin, promised, clobbered, freed, crossed>>

-----------------------------------------------------------------------------
(* updateIdentifier, and propagateUpdatesForIdentifier.                    *)

UpdateIdentifier(i, n) ==
  /\ online
  /\ i \in Stored \ Deleting
  /\ ~record[i].deleted
  /\ update["user"] = Idle
  /\ \A j \in Stored : n # record[j].name
  /\ renames < MaxUpdates
  /\ renames' = renames + 1
  /\ record' = [record EXCEPT ![i].name = n, ![i].updating = TRUE]
  /\ update' = [update EXCEPT !["user"] = [step |-> "rename", id |-> i, name |-> n]]
  /\ crossed' = IF update["task"] = Idle \/ update["task"].id # i
                THEN crossed ELSE crossed \union {i}
  /\ UNCHANGED <<queue, witness, keria, online, service, removal, updates, faults, origin,
                 promised, clobbered, freed, stopped>>

\* processIdentifiersPendingUpdate takes the next of the records it read.
UpdateNext(u) ==
  /\ u \in updates
  /\ update["task"] = Idle
  /\ updates' = updates \ {u}
  /\ update' = [update EXCEPT !["task"] = [step |-> "rename", id |-> u.id, name |-> u.name]]
  /\ UNCHANGED <<queue, record, witness, keria, online, service, removal, faults, renames,
                 history>>

\* The name as the call knows it is written to KERIA when it differs.
UpdateRenames(c) ==
  /\ update[c].step = "rename"
  /\ online
  /\ LET i == update[c].id
         n == update[c].name
     IN
       /\ keria' = [keria EXCEPT ![i] = n]
       /\ freed' = IF keria[i] # n /\ Wanted(keria[i]) THEN freed \union {keria[i]} ELSE freed
       /\ crossed' = IF record[i].name # n \/ record[i].deleting \/ record[i].deleted
                     THEN crossed \union {i} ELSE crossed
  /\ update' = [update EXCEPT ![c].step = "settle"]
  /\ UNCHANGED <<queue, record, witness, online, service, removal, updates, faults,
                 renames, origin, promised, clobbered, stopped>>

UpdateSettles(c) ==
  /\ update[c].step = "settle"
  /\ record' = [record EXCEPT ![update[c].id].updating = FALSE]
  /\ update' = [update EXCEPT ![c] = Idle]
  /\ UNCHANGED <<queue, witness, keria, online, service, removal, updates, faults,
                 renames, history>>

\* Mutant: a propagation that failed is not tried again.
UpdateThrowsAway(c) ==
  /\ update[c].step = "rename"
  /\ CallFails
  /\ record' = [record EXCEPT ![update[c].id].updating = FALSE]
  /\ update' = [update EXCEPT ![c] = Idle]
  /\ UNCHANGED <<queue, witness, keria, online, service, removal, updates, renames, history>>

\* The user's call rejects; the task logs and goes on.
UpdateThrows(c) ==
  /\ update[c].step = "rename"
  /\ CallFails
  /\ update' = [update EXCEPT ![c] = Idle]
  /\ UNCHANGED <<queue, record, witness, keria, online, service, removal, updates,
                 renames, history>>

-----------------------------------------------------------------------------
(* The agent, and the tasks it starts unawaited when it comes online.      *)

\* Mutant: deletions are not taken up again.
BecomeOnlineNotDeleting ==
  /\ ~online
  /\ creations' = queue
  /\ online' = TRUE
  /\ stopped' = {}
  /\ UNCHANGED <<queue, record, witness, keria, create, removal, propagation, faults,
                 renames, origin, promised, clobbered, freed, crossed>>

\* markAgentStatus(true).  Bound: the last such tasks are over.
BecomeOnline ==
  /\ ~online
  /\ create["task"] = Idle /\ creations = {}
  /\ update["task"] = Idle /\ updates = {}
  /\ \A i \in Ids : deletion[i] = Idle
  /\ online' = TRUE
  /\ removals' = Deleting
  /\ creations' = queue
  /\ updates' = {[id |-> i, name |-> record[i].name] : i \in Updating}
  /\ stopped' = {}
  /\ UNCHANGED <<queue, record, witness, keria, create, deletion, update, faults, renames,
                 origin, promised, clobbered, freed, crossed>>

Disconnect ==
  /\ online
  /\ Fault
  /\ online' = FALSE
  /\ UNCHANGED <<queue, record, witness, keria, service, removal, propagation, renames,
                 history>>

Crash ==
  /\ Fault
  /\ online' = FALSE
  /\ create' = [c \in Callers |-> Idle]
  /\ update' = [c \in Callers |-> Idle]
  /\ deletion' = [i \in Ids |-> Idle]
  /\ creations' = {}
  /\ removals' = {}
  /\ updates' = {}
  /\ UNCHANGED <<queue, record, witness, keria, renames, history>>

-----------------------------------------------------------------------------
Init ==
  /\ queue = {}
  /\ record = [i \in Ids |-> Absent]
  /\ witness = {}
  /\ keria = [i \in Ids |-> NoName]
  /\ online = FALSE
  /\ create = [c \in Callers |-> Idle]
  /\ creations = {}
  /\ deletion = [i \in Ids |-> Idle]
  /\ removals = {}
  /\ update = [c \in Callers |-> Idle]
  /\ updates = {}
  /\ faults = 0
  /\ renames = 0
  /\ origin = [i \in Ids |-> NoName]
  /\ promised = {}
  /\ clobbered = FALSE
  /\ freed = {}
  /\ crossed = {}
  /\ stopped = {}

Create(c) ==
  \/ CreateIncepts(c)
  \/ CreateThrows(c)
  \/ CreateSaves(c)
  \/ CreateSavesOperation(c)
  \/ CreateUnqueues(c)

Delete(i) ==
  \/ DeletionBegins(i)
  \/ DeletionUnqueues(i)
  \/ DeletionRenames(i)
  \/ DeletionEnds(i)
  \/ DeletionThrows(i)

Propagate(c) == UpdateRenames(c) \/ UpdateSettles(c) \/ UpdateThrows(c)

PendingUpdates == [id : Ids, name : AllNames]

Next ==
  \/ \E n \in Names : CreateReadsQueue(n) \/ CreateNext(n)
  \/ CreateQueues
  \/ \E c \in Callers : Create(c) \/ Propagate(c)
  \/ \E i \in Ids : \/ HandlerCompletes(i)
                    \/ MarkIdentifierPendingDelete(i)
                    \/ RemoveNext(i)
                    \/ Delete(i)
  \/ \E i \in Ids, n \in NewNames : UpdateIdentifier(i, n)
  \/ \E u \in PendingUpdates : UpdateNext(u)
  \/ BecomeOnline
  \/ Disconnect
  \/ Crash

Spec == Init /\ [][Next]_vars

-----------------------------------------------------------------------------
TypeOK ==
  /\ queue \subseteq Names
  /\ \A i \in Stored : record[i] \in [name : AllNames, deleting : BOOLEAN, deleted : BOOLEAN,
                                      updating : BOOLEAN, status : {"pending", "settled"}]
  /\ witness \subseteq Stored
  /\ \A i \in Ids : keria[i] \in AllNames \union {Deleted, NoName}
  /\ \A i \in Stored : keria[i] # NoName /\ origin[i] \in Names
  /\ online \in BOOLEAN
  /\ creations \subseteq promised
  /\ removals \subseteq Stored
  /\ updates \subseteq PendingUpdates
  /\ faults \in 0..MaxFaults
  /\ renames \in 0..MaxUpdates
  /\ promised \subseteq Names
  /\ clobbered \in BOOLEAN

\* A name that was queued stays queued until its identifier has a record and
\* an operation to complete it, or had them, unless two uses of the queue
\* overlapped.
QueuedUntilMade ==
  \A n \in promised : \/ n \in queue
                      \/ \E i \in Stored : /\ origin[i] = n
                                           /\ \/ i \in witness
                                              \/ record[i].status = "settled"
                                              \/ record[i].deleting \/ record[i].deleted
                      \/ clobbered

\* However often a creation is retried, KERIA makes one identifier for it,
\* unless the name was freed while a call or the queue still held it.
OneIdentifierPerName ==
  \A i, j \in Made : i # j /\ origin[i] = origin[j] => origin[i] \in freed \/ clobbered

\* An identifier whose deletion has ended is deleted on KERIA too, where a
\* recovery would bring it back, unless an update was propagated across it.
DeletedStaysDeleted ==
  \A i \in Stored : record[i].deleted /\ i \notin crossed => keria[i] = Deleted

\* While the agent is online, the deletion of a marked identifier is under
\* way or has thrown since the agent came online.
DeletionIsUnderWay ==
  online => \A i \in Deleting : deletion[i] # Idle \/ i \in removals \union stopped

\* While the agent is online, a queued name is being made, or its creation
\* has thrown since the agent came online, unless two uses overlapped.
CreationIsUnderWay ==
  online => \A n \in queue : \/ n \in creations \union stopped
                             \/ \E c \in Callers : create[c] # Idle /\ create[c].name = n
                             \/ clobbered

\* While the agent is online, nothing waits for its next start unless a task
\* has thrown since it came online.
PendingIsUnderWay == DeletionIsUnderWay /\ CreationIsUnderWay

\* When no update is pending, KERIA has the name that the wallet shows.
NamesAgree ==
  \A i \in Stored \ (Updating \union Deleting) :
    ~record[i].deleted /\ i \notin crossed => keria[i] = record[i].name

\* A deleted identifier stays deleted when the wallet is recovered.
DeletedIsNotRecovered == \A i \in Stored : record[i].deleted => keria[i] = Deleted
=============================================================================
