----------------------------- MODULE Connections -----------------------------
(***************************************************************************)
(* Connections of the wallet's identifiers with contacts: the ContactRecord *)
(* and the ConnectionPairRecords of each contact, the fields that KERIA     *)
(* keeps for a recovery, and the calls that change them while others run:   *)
(*   - ConnectionService.connectByOobiUrl, and resolveOobi unawaited;       *)
(*   - markConnectionPendingDelete and the deletion, started by its event   *)
(*     and again whenever the agent comes online;                           *)
(*   - the handler of an Oobi operation, which keeps the pair records it    *)
(*     read across calls of KERIA and writes them back whole.               *)
(*                                                                         *)
(* A step is what runs between two awaits.  Operations of one contact are   *)
(* not told apart: a second one finds nothing left to do.                   *)
(***************************************************************************)
EXTENDS Integers, FiniteSets

CONSTANTS
  Pairs,        \* <<identifier, contact>>, the connections users make
  MaxConnects,  \* bound: connections made over the run
  MaxFaults,    \* bound: crashes, failed calls, disconnections and recoveries
  Recovers      \* whether the wallet may be recovered on an empty device

ASSUME PairsAssumption       == IsFiniteSet(Pairs) /\ \A p \in Pairs : p = <<p[1], p[2]>>
ASSUME MaxConnectsAssumption == MaxConnects \in Nat
ASSUME MaxFaultsAssumption   == MaxFaults \in Nat
ASSUME RecoversAssumption    == Recovers \in BOOLEAN

VARIABLES
  contact,      \* storage: contacts with a ContactRecord
  pair,         \* storage: the ConnectionPairRecord of each pair, or Absent
  operation,    \* storage: contacts with an operation, the handler's aside
  keriaPair,    \* KERIA: pairs with fields <identifier>:* in their contact
  online,       \* Agent.isOnline, and KERIA can be reached
  connecting,   \* pairs that connectByOobiUrl is about to save
  requested,    \* contacts for which an event has resolveOobi under way
  resolving,    \* contacts that resolvePendingConnections has yet to resolve
  deletion,     \* await of each deleteConnectionByIdAndIdentifier
  removals,     \* pairs that removeConnectionsPendingDeletion has yet to take
  handler,      \* processOperation: its await, contact and stale records
  connects,     \* connections made so far
  faults,       \* faults so far
  overlapped,   \* history: contacts connected while being deleted
  crossed,      \* history: pairs deleted while their operation was handled
  unremoved,    \* history: pairs whose deletion failed while online, or was not
                \* reached by a task that did, since the agent came online
  unresolved    \* history: likewise, contacts that were not resolved

local   == <<contact, pair>>
calls   == <<connecting, requested, resolving>>
removal == <<deletion, removals>>
history == <<overlapped, crossed, unremoved, unresolved>>
vars    == <<local, operation, keriaPair, online, calls, removal, handler,
             connects, faults, history>>

Contacts == {p[2] : p \in Pairs}
Callers  == {"event", "online"}
Calls    == Pairs \X Callers

Statuses     == {"pending", "complete", "failed"}
Record(s, d) == [status |-> s, deleting |-> d]
Absent       == Record("absent", FALSE)
PairsOf(c)   == {p \in Pairs : p[2] = c}
Stored       == {p \in Pairs : pair[p] # Absent}
Pending      == {p \in Pairs : pair[p].status = "pending"}
Deleting     == {p \in Pairs : pair[p].deleting}

NoHandler == [step |-> "idle"]
Handles(c) == handler # NoHandler /\ handler.contact = c

\* A deletion of a connection with c is wanted or running.
BeingDeleted(c) ==
  \E p \in PairsOf(c) : \/ p \in Deleting \union removals
                        \/ \E caller \in Callers : deletion[<<p, caller>>] # "idle"

Fault ==
  /\ faults < MaxFaults
  /\ faults' = faults + 1

\* A call of KERIA rejects: for want of a network, or for any other error,
\* which leaves the agent online.
CallFails == (~online /\ UNCHANGED faults) \/ Fault

-----------------------------------------------------------------------------
(* connectByOobiUrl, OnlineOnly, and its createConnectionMetadata.         *)

\* findById of the contact, and its save when there is none.  A crash before
\* the save is one before the lookup.
ConnectSavesContact(p) ==
  /\ online
  /\ connecting = {}
  /\ connects < MaxConnects
  /\ connects' = connects + 1
  /\ connecting' = {p}
  /\ contact' = contact \union {p[2]}
  /\ overlapped' = IF BeingDeleted(p[2]) \/ Handles(p[2])
                   THEN overlapped \union {p[2]} ELSE overlapped
  /\ UNCHANGED <<pair, operation, keriaPair, online, requested, resolving, removal,
                 handler, faults, crossed, unremoved, unresolved>>

\* The save of a pair that exists throws.  Else ConnectionStateChanged, whose
\* listener calls resolveOobi unawaited.
ConnectSavesPair(p) ==
  /\ p \in connecting
  /\ connecting' = {}
  /\ IF p \in Stored THEN UNCHANGED <<pair, requested, history>>
     ELSE /\ pair' = [pair EXCEPT ![p] = Record("pending", FALSE)]
          /\ requested' = requested \union {p[2]}
          /\ crossed' = crossed \ {p}
          /\ unremoved' = unremoved \ {p}
          /\ unresolved' = unresolved \ {p[2]}
          /\ UNCHANGED overlapped
  /\ UNCHANGED <<contact, operation, keriaPair, online, resolving, removal, handler,
                 connects, faults>>

\* resolveOobi names an operation and saves it.  A crash between the two is
\* one before the call, but for an operation on KERIA that nobody asks for.
ResolveOobi(c) ==
  /\ online
  /\ \/ c \in requested /\ requested' = requested \ {c} /\ UNCHANGED resolving
     \/ c \in resolving /\ resolving' = resolving \ {c} /\ UNCHANGED requested
  /\ operation' = operation \union {c}
  /\ unresolved' = unresolved \ {c}
  /\ UNCHANGED <<local, keriaPair, online, connecting, removal, handler, connects,
                 faults, overlapped, crossed, unremoved>>

LeavesUnresolved(C) ==
  /\ unresolved' = IF online THEN unresolved \union C ELSE unresolved
  /\ UNCHANGED <<local, operation, keriaPair, online, connecting, removal, handler,
                 connects, overlapped, crossed, unremoved>>

\* Nobody awaits the call of the event.
ResolveThrows(c) ==
  /\ c \in requested
  /\ CallFails
  /\ requested' = requested \ {c}
  /\ LeavesUnresolved({c})
  /\ UNCHANGED resolving

\* resolvePendingConnections awaits one call after another: one that rejects
\* ends the task, at whichever contact it is.  Not counted as a fault, as the
\* task fails once.  Bound: while online, before the last connection is made.
ResolvePendingThrows ==
  /\ resolving # {}
  /\ ~online \/ connects < MaxConnects
  /\ UNCHANGED faults
  /\ resolving' = {}
  /\ LeavesUnresolved(resolving)
  /\ UNCHANGED requested

-----------------------------------------------------------------------------
(* Deletion of connections.                                                *)

\* markConnectionPendingDelete, then ConnectionRemoved and its listener.
MarkConnectionPendingDelete(p) ==
  /\ p \in Stored \ Deleting
  /\ deletion[<<p, "event">>] = "idle"
  /\ pair' = [pair EXCEPT ![p].deleting = TRUE]
  /\ deletion' = [deletion EXCEPT ![<<p, "event">>] = "find"]
  /\ UNCHANGED <<contact, operation, keriaPair, online, calls, removals, handler,
                 connects, faults, history>>

\* removeConnectionsPendingDeletion takes its next pair.
RemoveNext(p) ==
  /\ p \in removals
  /\ \A q \in Pairs : deletion[<<q, "online">>] = "idle"
  /\ removals' = removals \ {p}
  /\ deletion' = [deletion EXCEPT ![<<p, "online">>] = "find"]
  /\ UNCHANGED <<local, operation, keriaPair, online, calls, handler, connects,
                 faults, history>>

Moves(k, from, to) ==
  /\ deletion[k] = from
  /\ deletion' = [deletion EXCEPT ![k] = to]

\* Nobody catches a deletion that throws, which ends the task it is part of.
Throws(k) ==
  LET dropped == IF k[2] = "online" THEN removals ELSE {} IN
    /\ deletion' = [deletion EXCEPT ![k] = "idle"]
    /\ removals' = removals \ dropped
    /\ unremoved' = IF online THEN unremoved \union dropped \union {k[1]} ELSE unremoved
    /\ UNCHANGED <<overlapped, crossed, unresolved>>

\* findExpectedById of the pair, which throws when another call deleted it.
DeletionLooksUp(k) ==
  /\ deletion[k] = "find"
  /\ IF k[1] \in Stored
     THEN Moves(k, "find", "count") /\ UNCHANGED <<removals, history>>
     ELSE Throws(k)
  /\ UNCHANGED <<local, operation, keriaPair, online, calls, handler, connects, faults>>

\* Mutant: the contact goes with any of its pairs.
DeletionCountsNothing(k) ==
  /\ Moves(k, "count", "deleteFromKeria")
  /\ UNCHANGED <<local, operation, keriaPair, online, calls, removals, handler,
                 connects, faults, history>>

\* The contact goes with its last pair.
DeletionCounts(k) ==
  /\ Moves(k, "count", IF Cardinality(Stored \intersect PairsOf(k[1][2])) = 1
                       THEN "deleteFromKeria" ELSE "getFromKeria")
  /\ overlapped' = IF k[1] \notin Stored \/ \E p \in connecting : p[2] = k[1][2]
                   THEN overlapped \union {k[1][2]} ELSE overlapped
  /\ UNCHANGED <<local, operation, keriaPair, online, calls, removals, handler,
                 connects, faults, crossed, unremoved, unresolved>>

\* 404 counts as deleted.
DeletesFromKeria(k) ==
  /\ online
  /\ Moves(k, "deleteFromKeria", "deleteContact")
  /\ keriaPair' = keriaPair \ PairsOf(k[1][2])
  /\ UNCHANGED <<local, operation, online, calls, removals, handler, connects,
                 faults, history>>

DeletesContact(k) ==
  /\ Moves(k, "deleteContact", "deletePair")
  /\ contact' = contact \ {k[1][2]}
  /\ UNCHANGED <<pair, operation, keriaPair, online, calls, removals, handler,
                 connects, faults, history>>

\* The fields to set to null are those that the get returns.
GetsFromKeria(k) ==
  /\ online
  /\ Moves(k, "getFromKeria", IF k[1] \in keriaPair THEN "clearFields" ELSE "deletePair")
  /\ UNCHANGED <<local, operation, keriaPair, online, calls, removals, handler,
                 connects, faults, history>>

\* Mutant: the fields stay, as if the update were not awaited and failed.
ClearsNothing(k) ==
  /\ Moves(k, "clearFields", "deletePair")
  /\ UNCHANGED <<local, operation, keriaPair, online, calls, removals, handler,
                 connects, faults, history>>

ClearsFields(k) ==
  /\ online
  /\ Moves(k, "clearFields", "deletePair")
  /\ keriaPair' = keriaPair \ {k[1]}
  /\ UNCHANGED <<local, operation, online, calls, removals, handler, connects,
                 faults, history>>

CallsKeria == {"deleteFromKeria", "getFromKeria", "clearFields"}

\* An error of KERIA but 404; while online, KERIA may have done its part.
DeletionThrows(k) ==
  /\ deletion[k] \in CallsKeria
  /\ CallFails
  /\ Throws(k)
  /\ \/ UNCHANGED keriaPair
     \/ online /\ deletion[k] = "deleteFromKeria" /\ keriaPair' = keriaPair \ PairsOf(k[1][2])
     \/ online /\ deletion[k] = "clearFields" /\ keriaPair' = keriaPair \ {k[1]}
  /\ UNCHANGED <<local, operation, online, calls, handler, connects>>

\* Mutant: the record is emptied and stays marked.
EmptiesPair(k) ==
  /\ Moves(k, "deletePair", "idle")
  /\ pair' = [pair EXCEPT ![k[1]].status = "absent"]
  /\ UNCHANGED <<contact, operation, keriaPair, online, calls, removals, handler,
                 connects, faults, history>>

DeletesPair(k) ==
  /\ deletion[k] = "deletePair"
  /\ IF k[1] \in Stored
     THEN Moves(k, "deletePair", "idle") /\ UNCHANGED <<removals, history>>
     ELSE Throws(k)
  /\ pair' = [pair EXCEPT ![k[1]] = Absent]
  /\ UNCHANGED <<contact, operation, keriaPair, online, calls, handler, connects, faults>>

-----------------------------------------------------------------------------
(* The handler of an Oobi operation, one at a time.                        *)

\* KERIA ended the operation with a contact or with an error, and
\* findAllByQuery gives the pending records as they are now.
HandlerReads(c) ==
  /\ handler = NoHandler
  /\ online
  /\ c \in operation
  /\ \E step \in {"share", "fail"} :
       handler' = [step |-> step, contact |-> c,
                   todo |-> {[of |-> p, deleting |-> pair[p].deleting] :
                               p \in Pending \intersect PairsOf(c)}]
  /\ operation' = operation \ {c}
  /\ UNCHANGED <<local, keriaPair, online, calls, removal, connects, faults, history>>

\* The OOBI led to no contact: all its pairs are marked and deleted.  Bound:
\* one deletion by event of a pair at a time.
HandlerMarksInvalid(c) ==
  /\ handler = NoHandler
  /\ online
  /\ c \in operation
  /\ LET invalid == Stored \intersect PairsOf(c) IN
       /\ pair' = [p \in Pairs |-> IF p \in invalid THEN Record(pair[p].status, TRUE)
                                   ELSE pair[p]]
       /\ deletion' = [k \in Calls |-> IF k \in invalid \X {"event"} /\ deletion[k] = "idle"
                                       THEN "find" ELSE deletion[k]]
  /\ operation' = operation \ {c}
  /\ UNCHANGED <<contact, keriaPair, online, calls, removals, handler, connects,
                 faults, history>>

\* Mutant: an operation is deleted before it is handled.
DropOperation == UNCHANGED operation

\* The operation is no longer handled, but is still stored.
KeepOperation ==
  operation' = IF handler = NoHandler THEN operation ELSE operation \union {handler.contact}

\* The handler returns and the operation is deleted.
HandlerReturns ==
  /\ handler.step \in {"share", "fail"}
  /\ handler.todo = {}
  /\ handler' = NoHandler
  /\ UNCHANGED <<local, operation, keriaPair, online, calls, removal, connects, faults, history>>

\* The record is written as it was read, but for its status; an update of
\* no record throws.
Writes(r, status) ==
  IF r.of \in Stored
  THEN /\ pair' = [pair EXCEPT ![r.of] = Record(status, r.deleting)]
       /\ crossed' = IF pair[r.of].deleting /\ ~r.deleting
                     THEN crossed \union {r.of} ELSE crossed
       /\ handler' = [step |-> IF status = "failed" THEN "fail" ELSE "share",
                       contact |-> handler.contact, todo |-> handler.todo \ {r}]
       /\ UNCHANGED operation
  ELSE handler' = NoHandler /\ KeepOperation /\ UNCHANGED <<pair, crossed>>

\* An error: the records that were not being deleted have failed.
HandlerFails(r) ==
  /\ handler.step = "fail"
  /\ r \in handler.todo
  /\ IF r.deleting
     THEN handler' = [handler EXCEPT !.todo = @ \ {r}] /\ UNCHANGED <<pair, operation, crossed>>
     ELSE Writes(r, "failed")
  /\ UNCHANGED <<contact, keriaPair, online, calls, removal, connects,
                 faults, overlapped, unremoved, unresolved>>

\* A contact: its record must be there, and shareIdentifier runs unless the
\* pair's record was being deleted.
HandlerShares(r) ==
  /\ handler.step = "share"
  /\ r \in handler.todo
  /\ handler.contact \in contact
  /\ r.deleting \/ online
  /\ handler' = [step |-> "update", contact |-> handler.contact,
                 todo |-> handler.todo, record |-> r]
  /\ UNCHANGED <<local, operation, keriaPair, online, calls, removal, connects,
                 faults, history>>

\* Mutant: the update of KERIA is not awaited, and fails unseen.
HandlerIgnoresKeria ==
  /\ handler.step = "update"
  /\ handler' = [handler EXCEPT !.step = "write"]
  /\ UNCHANGED <<local, operation, keriaPair, online, calls, removal, connects,
                 faults, history>>

\* contacts().update, which makes the contact when KERIA has none.
BacksUp(p) ==
  /\ keriaPair' = keriaPair \union {p}
  /\ crossed' = IF p \in Deleting \/ p \notin Stored THEN crossed \union {p} ELSE crossed

HandlerUpdatesKeria ==
  /\ handler.step = "update"
  /\ online
  /\ handler' = [handler EXCEPT !.step = "write"]
  /\ BacksUp(handler.record.of)
  /\ UNCHANGED <<local, operation, online, calls, removal, connects, faults,
                 overlapped, unremoved, unresolved>>

HandlerWrites ==
  /\ handler.step = "write"
  /\ Writes(handler.record, "complete")
  /\ UNCHANGED <<contact, keriaPair, online, calls, removal, connects,
                 faults, overlapped, unremoved, unresolved>>

\* There is no contact, or a call fails, and while online KERIA may have done
\* its part: the operation stays.
HandlerThrows ==
  /\ \/ /\ handler.step = "share"
        /\ handler.todo # {}
        /\ CallFails \/ (handler.contact \notin contact /\ UNCHANGED faults)
        /\ UNCHANGED <<keriaPair, crossed>>
     \/ /\ handler.step = "update"
        /\ CallFails
        /\ (online /\ BacksUp(handler.record.of)) \/ UNCHANGED <<keriaPair, crossed>>
  /\ handler' = NoHandler
  /\ KeepOperation
  /\ UNCHANGED <<local, online, calls, removal, connects, overlapped, unremoved, unresolved>>

-----------------------------------------------------------------------------
(* The agent, and what it starts unawaited when it comes online.           *)

\* getConnectionsPending throws when any pending pair has no contact.
ResolvePendingConnections ==
  LET pending == {p[2] : p \in Pending} IN
    IF pending \subseteq contact
    THEN resolving' = pending /\ UNCHANGED unresolved
    ELSE resolving' = {} /\ unresolved' = pending

\* Mutant: deletions are not taken up again.
BecomeOnlineOnly ==
  /\ ~online
  /\ online' = TRUE
  /\ ResolvePendingConnections
  /\ UNCHANGED <<local, operation, keriaPair, connecting, requested, removal, handler,
                 connects, faults, overlapped, crossed, unremoved>>

\* markAgentStatus(true).  Bound: the tasks of the last time are over.
BecomeOnline ==
  /\ ~online
  /\ removals = {}
  /\ resolving = {}
  /\ \A q \in Pairs : deletion[<<q, "online">>] = "idle"
  /\ online' = TRUE
  /\ removals' = Deleting
  /\ ResolvePendingConnections
  /\ UNCHANGED <<local, operation, keriaPair, connecting, requested, deletion, handler,
                 connects, faults, overlapped, crossed, unremoved>>

GoesOffline ==
  /\ online' = FALSE
  /\ unremoved' = {}
  /\ unresolved' = {}

Disconnect ==
  /\ online
  /\ Fault
  /\ GoesOffline
  /\ UNCHANGED <<local, operation, keriaPair, calls, removal, handler, connects,
                 overlapped, crossed>>

Forgets ==
  /\ GoesOffline
  /\ connecting' = {}
  /\ requested' = {}
  /\ resolving' = {}
  /\ deletion' = [k \in Calls |-> "idle"]
  /\ removals' = {}
  /\ handler' = NoHandler

Crash ==
  /\ Fault
  /\ Forgets
  /\ KeepOperation
  /\ UNCHANGED <<local, keriaPair, connects, overlapped, crossed>>

\* Recovery on an empty device: syncKeriaContacts.
SyncKeriaContacts ==
  /\ Recovers
  /\ Fault
  /\ Forgets
  /\ contact' = {p[2] : p \in keriaPair}
  /\ pair' = [p \in Pairs |-> IF p \in keriaPair THEN Record("complete", FALSE) ELSE Absent]
  /\ operation' = {}
  /\ crossed' = crossed \union Deleting
  /\ UNCHANGED <<keriaPair, connects, overlapped>>

-----------------------------------------------------------------------------
Init ==
  /\ contact = {}
  /\ pair = [p \in Pairs |-> Absent]
  /\ operation = {}
  /\ keriaPair = {}
  /\ online = FALSE
  /\ connecting = {}
  /\ requested = {}
  /\ resolving = {}
  /\ deletion = [k \in Calls |-> "idle"]
  /\ removals = {}
  /\ handler = NoHandler
  /\ connects = 0
  /\ faults = 0
  /\ overlapped = {}
  /\ crossed = {}
  /\ unremoved = {}
  /\ unresolved = {}

Resolve(c) ==
  \/ ResolveOobi(c)
  \/ ResolveThrows(c)
  \/ c \in resolving /\ ResolvePendingThrows

Delete(k) ==
  \/ DeletionLooksUp(k)
  \/ DeletionCounts(k)
  \/ DeletesFromKeria(k)
  \/ DeletesContact(k)
  \/ GetsFromKeria(k)
  \/ ClearsFields(k)
  \/ DeletionThrows(k)
  \/ DeletesPair(k)

Records == [of : Pairs, deleting : BOOLEAN]

HandleOperation ==
  \/ \E r \in Records : HandlerFails(r) \/ HandlerShares(r)
  \/ HandlerUpdatesKeria
  \/ HandlerWrites
  \/ HandlerReturns
  \/ HandlerThrows

Next ==
  \/ \E p \in Pairs : \/ ConnectSavesContact(p)
                      \/ ConnectSavesPair(p)
                      \/ MarkConnectionPendingDelete(p)
                      \/ RemoveNext(p)
  \/ \E c \in Contacts : Resolve(c) \/ HandlerReads(c) \/ HandlerMarksInvalid(c)
  \/ \E k \in Calls : Delete(k)
  \/ HandleOperation
  \/ BecomeOnline
  \/ Disconnect
  \/ Crash
  \/ SyncKeriaContacts

\* Calls return, KERIA ends its operations, the poll visits each operation
\* in turn and the agent keeps trying to connect.  The user need do nothing.
Fairness ==
  /\ \A p \in Pairs : WF_vars(ConnectSavesPair(p)) /\ WF_vars(RemoveNext(p))
  /\ \A c \in Contacts : WF_vars(Resolve(c)) /\ SF_vars(HandlerReads(c))
  /\ \A k \in Calls : WF_vars(Delete(k))
  /\ WF_vars(HandleOperation)
  /\ WF_vars(BecomeOnline)

Spec == Init /\ [][Next]_vars /\ Fairness

-----------------------------------------------------------------------------
Awaits == CallsKeria \union {"find", "count", "deleteContact", "deletePair"}

TypeOK ==
  /\ contact \subseteq Contacts
  /\ pair \in [Pairs -> [status : Statuses, deleting : BOOLEAN] \union {Absent}]
  /\ operation \subseteq Contacts
  /\ keriaPair \subseteq Pairs
  /\ online \in BOOLEAN
  /\ connecting \subseteq Pairs
  /\ requested \subseteq Contacts
  /\ resolving \subseteq Contacts
  /\ deletion \in [Calls -> Awaits \union {"idle"}]
  /\ removals \subseteq Pairs
  /\ handler \in {NoHandler}
       \union [step : {"share", "fail"}, contact : Contacts, todo : SUBSET Records]
       \union [step : {"update", "write"}, contact : Contacts,
               todo : SUBSET Records, record : Records]
  /\ connects \in 0..MaxConnects
  /\ faults \in 0..MaxFaults
  /\ overlapped \subseteq Contacts
  /\ crossed \subseteq Pairs
  /\ unremoved \subseteq Pairs
  /\ unresolved \subseteq Contacts

\* A connection that is shown has its contact, so that getConnections does
\* not throw for all of them, unless the contact was connected during a
\* deletion or an operation was handled during one.
ShownConnectionHasContact ==
  \A p \in Stored \ Deleting : p[2] \in contact \/ p[2] \in overlapped \/ p \in crossed

\* A connection shown as confirmed is on KERIA, where a recovery finds it.
ConfirmedConnectionIsBackedUp ==
  \A p \in Stored \ Deleting :
    pair[p].status = "complete" =>
      p \in keriaPair \/ p[2] \in overlapped \/ p \in crossed

\* A connection that was deleted is not on KERIA, where a recovery would
\* bring it back, unless its contact was connected during a deletion or its
\* operation was handled during its own.
DeletedConnectionStaysDeleted ==
  \A p \in Pairs \ Stored : p \in keriaPair => p[2] \in overlapped \/ p \in crossed

\* While the agent is online, the deletion of a marked connection is under
\* way, whatever interrupted the one before the agent came online, unless a
\* call of it failed since, or a task stopped before it, or its contact was
\* connected again during a deletion.
DeletionIsUnderWay ==
  online => \A p \in Deleting : \/ p \in removals \union unremoved
                                 \/ p[2] \in overlapped
                                 \/ \E caller \in Callers : deletion[<<p, caller>>] # "idle"

\* While the agent is online, a pending connection is being resolved or has
\* an operation to settle it, whatever interrupted it before, unless a call
\* for it failed since the agent came online, or the task stopped before it.
PendingConnectionIsResolved ==
  online => \A p \in Pending \ Deleting : \/ p[2] \in requested \union resolving
                                           \/ p[2] \in operation
                                           \/ Handles(p[2])
                                           \/ p[2] \in unresolved

\* The wallet retries a deletion until it is done, whenever the agent comes
\* online: only one that failed since then waits for the next time.
MarkedConnectionIsDeleted ==
  \A p \in Pairs : p \in Deleting ~> p \notin Stored \/ p \in unremoved
=============================================================================
