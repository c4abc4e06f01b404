---------------------------- MODULE GroupCreation ----------------------------
(***************************************************************************)
(* The creation of group identifiers by the wallets of its members: the     *)
(* initiator's createGroup, the others' joinGroup, the queue from which     *)
(* processGroupsPendingCreation retries both, the inception messages that   *)
(* the members send each other, and the group operation that is done once   *)
(* as many of them as its threshold says have incepted the group.           *)
(*                                                                         *)
(* A wallet knows a group by a name, KERIA and the other members by the     *)
(* digest of its inception data, of which only the threshold varies here.   *)
(* The end roles that follow the group, its deletion, and the OOBIs sent    *)
(* along with it are left out.                                              *)
(***************************************************************************)
EXTENDS Integers, FiniteSets, Sequences

CONSTANTS
  Members,      \* one wallet each
  Names,        \* names of the groups
  Thresholds,   \* thresholds that an initiator may choose
  Initiator,    \* who creates the group of each name
  MaxAsks,      \* bound: calls of createGroup and joinGroup by the users
  MaxFaults     \* bound: crashes, failed calls and disconnections

ASSUME ThresholdsAssumption == Thresholds \subseteq 1..Cardinality(Members)
ASSUME InitiatorAssumption  == Initiator \in [Names -> Members]
ASSUME MaxAsksAssumption    == MaxAsks \in Nat
ASSUME MaxFaultsAssumption  == MaxFaults \in Nat

VARIABLES
  queue,        \* storage: MULTISIG_IDENTIFIERS_PENDING_CREATION
  record,       \* storage: the status of each group that has a record
  operation,    \* storage: groups with a group operation
  notes,        \* storage: requests to join a group, by sender
  keria,        \* KERIA: groups that the member has incepted
  inbox,        \* KERIA: inception messages that the wallet has not polled
  online,       \* Agent.isOnline, and KERIA can be reached
  call,         \* createGroup or joinGroup of the user and of the task
  tasks,        \* entries of the queue that the task has yet to take
  asks,         \* calls of the users so far
  faults,       \* faults so far
  promised,     \* history: groups that the wallet has queued
  clobbered     \* history: wallets where a write of the queue undid another one

storage == <<queue, record, operation, notes>>
cloud   == <<keria, inbox>>
service == <<call, tasks>>
bounds  == <<asks, faults>>
history == <<promised, clobbered>>
vars    == <<storage, cloud, online, service, bounds, history>>

Callers  == {"user", "task"}
Groups   == [name : Names, threshold : Thresholds]
Notes    == [group : Groups, from : Members]
Entries  == [group : Groups, joins : SUBSET Notes]
Idle     == [step |-> "idle"]
NoRecord == "none"

At(m, c, step) == call[m][c].step = step
Running(m)     == {c \in Callers : call[m][c] # Idle}
Recorded(m)    == {g \in Groups : record[m][g] # NoRecord}
Incepted(g)    == {m \in Members : g \in keria[m]}

Fault ==
  /\ faults < MaxFaults
  /\ faults' = faults + 1

\* A call of KERIA rejects: no network, or an error.
CallFails(m) ==
  \/ ~online[m] /\ UNCHANGED faults
  \/ Fault

GoTo(m, c, step) == call' = [call EXCEPT ![m][c].step = step]

-----------------------------------------------------------------------------
(* The queue: read whole, changed and written whole.                       *)

WriteQueue(m, read, written) ==
  /\ queue' = [queue EXCEPT ![m] = written]
  /\ clobbered' = IF queue[m] = read THEN clobbered ELSE clobbered \union {m}

Positions(q, name) == {i \in DOMAIN q : q[i].group.name = name}

\* findIndex.
First(q, name) == CHOOSE i \in Positions(q, name) : \A j \in Positions(q, name) : i <= j

\* splice of the first entry of that name.
Without(q, name) ==
  IF Positions(q, name) = {} THEN q
  ELSE SubSeq(q, 1, First(q, name) - 1) \o SubSeq(q, First(q, name) + 1, Len(q))

-----------------------------------------------------------------------------
(* The users.                                                              *)

\* generateAndStoreInceptionData reads the queue, and then asks KERIA.
Begin(m, entry) ==
  /\ online[m]
  /\ call[m]["user"] = Idle
  /\ asks < MaxAsks
  /\ asks' = asks + 1
  /\ call' = [call EXCEPT ![m]["user"] = [step |-> "write", entry |-> entry, read |-> queue[m]]]
  /\ UNCHANGED <<storage, cloud, online, tasks, faults, history>>

\* The page is there until the group has a record.
CreateGroup(m, g) ==
  /\ m = Initiator[g.name]
  /\ \A h \in Recorded(m) : h.name # g.name
  /\ Begin(m, [group |-> g, joins |-> {}])

JoinGroup(m, n) ==
  /\ n \in notes[m]
  /\ Begin(m, [group |-> n.group, joins |-> {n}])

Decline(m, n) ==
  /\ n \in notes[m]
  /\ online[m]
  /\ notes' = [notes EXCEPT ![m] = @ \ {n}]
  /\ UNCHANGED <<queue, record, operation, cloud, online, service, bounds, history>>

CallQueues(m) ==
  /\ At(m, "user", "write")
  /\ LET u == call[m]["user"] IN
       /\ WriteQueue(m, u.read, Append(u.read, u.entry))
       /\ promised' = [promised EXCEPT ![m] = @ \union {u.entry.group}]
       /\ call' = [call EXCEPT ![m]["user"] = [step |-> "incept", entry |-> u.entry]]
  /\ UNCHANGED <<record, operation, notes, cloud, online, tasks, bounds>>

-----------------------------------------------------------------------------
(* What createGroup and joinGroup have in common.                          *)

\* The call rejects; the task stops at the first that does.
Stop(m, c) ==
  /\ call' = [call EXCEPT ![m][c] = Idle]
  /\ tasks' = IF c = "task" THEN [tasks EXCEPT ![m] = <<>>] ELSE tasks

CallThrows(m, c) ==
  /\ \E step \in {"write", "incept", "send"} : At(m, c, step)
  /\ CallFails(m)
  /\ Stop(m, c)
  /\ UNCHANGED <<storage, cloud, online, asks, history>>

\* Mutant: an inception that was done before ends the retry.
CallInceptsOnce(m, c) ==
  /\ At(m, c, "incept")
  /\ online[m]
  /\ LET g == call[m][c].entry.group IN
       IF \E h \in keria[m] : h.name = g.name
       THEN Stop(m, c) /\ UNCHANGED keria
       ELSE /\ keria' = [keria EXCEPT ![m] = @ \union {g}]
            /\ GoTo(m, c, "send")
            /\ UNCHANGED tasks
  /\ UNCHANGED <<storage, inbox, online, bounds, history>>

\* KERIA has one group of a name: "already incepted" is ignored.
CallIncepts(m, c) ==
  /\ At(m, c, "incept")
  /\ online[m]
  /\ LET g == call[m][c].entry.group IN
       keria' = IF \E h \in keria[m] : h.name = g.name THEN keria
                ELSE [keria EXCEPT ![m] = @ \union {g}]
  /\ GoTo(m, c, "send")
  /\ UNCHANGED <<storage, inbox, online, tasks, bounds, history>>

\* Mutant: the group is not read from KERIA.
CallSendsOnly(m, c) ==
  /\ At(m, c, "send")
  /\ online[m]
  /\ inbox' = [o \in Members |->
                 IF o = m THEN inbox[o]
                 ELSE inbox[o] \union {[group |-> call[m][c].entry.group, from |-> m]}]
  /\ GoTo(m, c, "save")
  /\ UNCHANGED <<storage, keria, online, tasks, bounds, history>>

\* The message to the other members; then the group is read from KERIA,
\* which fails if the inception was of another one.
CallSends(m, c) ==
  /\ At(m, c, "send")
  /\ online[m]
  /\ LET g == call[m][c].entry.group IN
       /\ inbox' = [o \in Members |->
                      IF o = m THEN inbox[o] ELSE inbox[o] \union {[group |-> g, from |-> m]}]
       /\ IF g \in keria[m] THEN GoTo(m, c, "save") /\ UNCHANGED tasks ELSE Stop(m, c)
  /\ UNCHANGED <<storage, keria, online, bounds, history>>

\* Mutant: the entry leaves the queue before the record is saved.
CallUnqueuesFirst(m, c) ==
  /\ At(m, c, "save")
  /\ WriteQueue(m, queue[m], Without(queue[m], call[m][c].entry.group.name))
  /\ GoTo(m, c, "operation")
  /\ UNCHANGED <<record, operation, notes, cloud, online, tasks, bounds, promised>>

\* A record that exists is left alone.
CallSaves(m, c) ==
  /\ At(m, c, "save")
  /\ LET g == call[m][c].entry.group IN
       record' = IF g \in Recorded(m) THEN record ELSE [record EXCEPT ![m][g] = "pending"]
  /\ GoTo(m, c, "operation")
  /\ UNCHANGED <<queue, operation, notes, cloud, online, tasks, bounds, history>>

\* Deletes the request that was joined, if it is there still, and reads the
\* queue.  The request is marked on KERIA first, which may fail.
CallClearsNote(m, c) ==
  \/ LET e == call[m][c].entry IN
       /\ e.joins \intersect notes[m] # {} => online[m]
       /\ notes' = [notes EXCEPT ![m] = @ \ e.joins]
       /\ call' = [call EXCEPT ![m][c] = [step |-> "unqueue", entry |-> e, read |-> queue[m]]]
       /\ UNCHANGED <<tasks, faults>>
  \/ /\ call[m][c].entry.joins \intersect notes[m] # {}
     /\ CallFails(m)
     /\ Stop(m, c)
     /\ UNCHANGED notes

CallSavesOperation(m, c) ==
  /\ At(m, c, "operation")
  /\ operation' = [operation EXCEPT ![m] = @ \union {call[m][c].entry.group}]
  /\ CallClearsNote(m, c)
  /\ UNCHANGED <<queue, record, cloud, online, asks, history>>

CallUnqueues(m, c) ==
  /\ At(m, c, "unqueue")
  /\ LET read == call[m][c].read IN
       WriteQueue(m, read, Without(read, call[m][c].entry.group.name))
  /\ call' = [call EXCEPT ![m][c] = Idle]
  /\ UNCHANGED <<record, operation, notes, cloud, online, tasks, bounds, promised>>

-----------------------------------------------------------------------------
(* processGroupsPendingCreation.                                           *)

\* The next entry of those it read; getInceptionData takes the data of the
\* first entry that the queue has of that name now, and throws without one.
TaskNext(m) ==
  /\ tasks[m] # <<>>
  /\ call[m]["task"] = Idle
  /\ LET e == Head(tasks[m])
         q == queue[m]
     IN
       IF Positions(q, e.group.name) = {}
       THEN /\ tasks' = [tasks EXCEPT ![m] = <<>>]
            /\ UNCHANGED call
       ELSE /\ tasks' = [tasks EXCEPT ![m] = Tail(@)]
            /\ call' = [call EXCEPT ![m]["task"] =
                          [step |-> "incept",
                           entry |-> [e EXCEPT !.group = q[First(q, e.group.name)].group]]]
  /\ UNCHANGED <<storage, cloud, online, bounds, history>>

-----------------------------------------------------------------------------
(* Polling.                                                                *)

\* processMultiSigIcpNotification: a request, unless the group is on KERIA.
PollInception(m, n) ==
  /\ n \in inbox[m]
  /\ online[m]
  /\ inbox' = [inbox EXCEPT ![m] = @ \ {n}]
  /\ notes' = IF n.group \in keria[m] THEN notes ELSE [notes EXCEPT ![m] = @ \union {n}]
  /\ UNCHANGED <<queue, record, operation, keria, online, service, bounds, history>>

\* The operation is done: the record's status follows, if there is one; the
\* end roles are asked for, which may fail; the operation is deleted.
OperationDone(m, g) ==
  /\ g \in operation[m]
  /\ online[m]
  /\ Cardinality(Incepted(g)) >= g.threshold
  /\ record' = IF g \in Recorded(m) THEN [record EXCEPT ![m][g] = "complete"] ELSE record
  /\ \/ operation' = [operation EXCEPT ![m] = @ \ {g}] /\ UNCHANGED faults
     \/ Fault /\ UNCHANGED operation
  /\ UNCHANGED <<queue, notes, cloud, online, service, asks, history>>

-----------------------------------------------------------------------------
\* markAgentStatus(true).  Bound: the last such task is over.
ComeOnline(m) ==
  /\ ~online[m]
  /\ call[m]["task"] = Idle /\ tasks[m] = <<>>
  /\ online' = [online EXCEPT ![m] = TRUE]
  /\ tasks' = [tasks EXCEPT ![m] = queue[m]]
  /\ UNCHANGED <<storage, cloud, call, bounds, history>>

\* The same, when the wallet is closed while nothing is under way, and opened.
Reopen(m) ==
  /\ online[m]
  /\ Running(m) = {} /\ tasks[m] = <<>>
  /\ tasks' = [tasks EXCEPT ![m] = queue[m]]
  /\ UNCHANGED <<storage, cloud, online, call, bounds, history>>

Disconnect(m) ==
  /\ online[m]
  /\ Fault
  /\ online' = [online EXCEPT ![m] = FALSE]
  /\ UNCHANGED <<storage, cloud, service, asks, history>>

Crash(m) ==
  /\ Fault
  /\ online' = [online EXCEPT ![m] = FALSE]
  /\ call' = [call EXCEPT ![m] = [c \in Callers |-> Idle]]
  /\ tasks' = [tasks EXCEPT ![m] = <<>>]
  /\ UNCHANGED <<storage, cloud, asks, history>>

Init ==
  /\ queue = [m \in Members |-> <<>>]
  /\ record = [m \in Members |-> [g \in Groups |-> NoRecord]]
  /\ operation = [m \in Members |-> {}]
  /\ notes = [m \in Members |-> {}]
  /\ keria = [m \in Members |-> {}]
  /\ inbox = [m \in Members |-> {}]
  /\ online = [m \in Members |-> TRUE]
  /\ call = [m \in Members |-> [c \in Callers |-> Idle]]
  /\ tasks = [m \in Members |-> <<>>]
  /\ asks = 0
  /\ faults = 0
  /\ promised = [m \in Members |-> {}]
  /\ clobbered = {}

Proceed(m, c) ==
  \/ CallIncepts(m, c)
  \/ CallSends(m, c)
  \/ CallSaves(m, c)
  \/ CallSavesOperation(m, c)
  \/ CallUnqueues(m, c)
  \/ CallThrows(m, c)

Next ==
  \E m \in Members :
    \/ \E g \in Groups : CreateGroup(m, g) \/ OperationDone(m, g)
    \/ \E n \in Notes : JoinGroup(m, n) \/ Decline(m, n) \/ PollInception(m, n)
    \/ CallQueues(m)
    \/ \E c \in Callers : Proceed(m, c)
    \/ TaskNext(m)
    \/ ComeOnline(m)
    \/ Reopen(m)
    \/ Disconnect(m)
    \/ Crash(m)

\* Calls settle and polls come around while the wallet runs, and it is opened
\* again and again.  What the users ask for, and the faults, are not fair.
Fairness ==
  \A m \in Members :
    /\ WF_vars(CallQueues(m))
    /\ \A c \in Callers : WF_vars(Proceed(m, c))
    /\ WF_vars(TaskNext(m))
    /\ \A n \in Notes : WF_vars(PollInception(m, n))
    /\ \A g \in Groups : WF_vars(OperationDone(m, g))
    /\ WF_vars(ComeOnline(m))
    /\ WF_vars(Reopen(m))

Spec == Init /\ [][Next]_vars /\ Fairness

-----------------------------------------------------------------------------
TypeOK ==
  /\ \A m \in Members :
       /\ \A i \in DOMAIN queue[m] : queue[m][i] \in Entries
       /\ \A i \in DOMAIN tasks[m] : tasks[m][i] \in Entries
       /\ \A c \in Running(m) :
            /\ call[m][c].step \in {"write", "incept", "send", "save", "operation", "unqueue"}
            /\ call[m][c].entry \in Entries
       \* Only what KERIA holds is recorded, and it holds one group of a name.
       /\ operation[m] \subseteq Recorded(m)
       /\ Recorded(m) \subseteq keria[m]
       /\ \A g, h \in keria[m] : g.name = h.name => g = h
  /\ record \in [Members -> [Groups -> {NoRecord, "pending", "complete"}]]
  /\ notes \in [Members -> SUBSET Notes]
  /\ inbox \in [Members -> SUBSET Notes]
  /\ online \in [Members -> BOOLEAN]
  /\ asks \in 0..MaxAsks
  /\ faults \in 0..MaxFaults
  /\ promised \in [Members -> SUBSET Groups]
  /\ clobbered \subseteq Members

\* Wallets that have queued two groups of one name.
Disputed == {m \in Members : \E g, h \in promised[m] : g # h /\ g.name = h.name}

Tracked(m, g) == g \in operation[m] \/ record[m][g] = "complete"

\* A group stays in the queue until the wallet has its record and its
\* operation, or had them, unless two uses of the queue overlapped.
QueuedUntilTracked ==
  \A m \in Members : \A g \in promised[m] :
    \/ \E i \in DOMAIN queue[m] : queue[m][i].group = g
    \/ Tracked(m, g)
    \/ m \in clobbered \/ m \in Disputed

\* A queued group gets its record in the end, however often its creation is
\* interrupted, unless the wallet queued another group of a name.
QueuedGroupIsMade ==
  \A m \in Members : \A g \in Groups :
    (\E i \in DOMAIN queue[m] : queue[m][i].group = g)
      ~> g \in Recorded(m) \/ m \in clobbered \/ m \in Disputed

\* The queue is empty in the end: nothing in it keeps a later entry waiting.
QueueDrains ==
  \A m \in Members : queue[m] # <<>> ~> queue[m] = <<>>

\* A wallet that has a record of a group learns that it is complete once as
\* many members as its threshold says have incepted it.
CompleteGroupIsShown ==
  \A m \in Members : \A g \in Groups :
    record[m][g] = "pending" /\ Cardinality(Incepted(g)) >= g.threshold
      ~> record[m][g] = "complete" \/ m \in clobbered \/ m \in Disputed
=============================================================================
