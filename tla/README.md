# Formal models of the Veridian wallet

TLA+ models of the wallet core (`src/core`), checked with TLC. Their safety
properties are also proved with TLAPS, for every number of records, calls and
faults. The core is a set of TypeScript services in one JavaScript event loop.
It keeps records in local storage and works with a KERIA cloud agent through
signify-ts. There are no transactions
over the two: `docs/core/DistributedReliability.md` asks instead that every
action be repeatable and be repeated. What goes wrong in such a program goes
wrong between two awaits: another service runs, a call fails, or the
application is killed. The models put every such interleaving, failure and
restart next to the code's steps.

## 1. Inventory

Paths are relative to the repository; `services/` is
`src/core/agent/services/`.

### Core services

| Component | State | Operations | Interacts with | Correct when | Model |
|---|---|---|---|---|---|
| **Notification polling** (`services/keriaNotificationService.ts`) | `KERIA_NOTIFICATION_MARKER` and `FAILED_NOTIFICATIONS` in basic storage; `notificationQuery`, the fetched batch, `loggedIn` in memory | `pollNotifications`, `retryFailedNotifications`, `startPolling`, `stopPolling` | KERIA's list of notifications; `Agent.connect`; all handlers of notifications | nothing is skipped, nothing unprocessed is forgotten, everything is processed in the end | `NotificationPolling` |
| **Credential receipt and revocation** (`keriaNotificationService.ts`, `ipexCommunicationService.ts`, `credentialService.ts`, `utils.ts`) | `CredentialMetadataRecord`, `NotificationRecord`, `OperationPendingRecord`; the TEL, exchanges and credentials on KERIA | `processExnIpexGrantNotification`, `admitAcdcFromGrant`, the `ExchangeReceiveCredential` case of `processOperation`, `deleteCredential`, `deleteNotificationRecordById` | poller, user, worker and removal share the records | a credential is confirmed, revoked and deleted as the issuer and the user decided, in whatever order their steps meet | `CredentialExchange` |
| **Long-running operations** (`keriaNotificationService.ts`, `operationPendingStorage.ts`) | `OperationPendingRecord`s; the array `pendingOperations` | `save`, `deleteById`, `pollLongOperations`, `processOperation`, the listeners of `OperationAdded` and `OperationRemoved`, `cleanupPendingOperations` | every service that starts an operation | the array mirrors storage; an operation leaves when it was handled | `LongOperations`; handlers in `CredentialExchange`, `Connections`, `Identifiers`, `GroupCreation` |
| Other notification routes | group and message records | `processMultiSig*`, `processHumanReadable*`, `processRemoteSignReq` | groups, connections | as above, per route | group inceptions in `GroupCreation` |
| Credential presentation (`ipexCommunicationService.ts`) | apply, offer, agree and grant exchanges, linked requests | `offerAcdcFromApply`, `grantAcdcFromAgree`, `joinMultisigOffer`, `joinMultisigGrant` | poller, operations, groups | one offer per apply, one grant per agree | no |
| Agent connection (`agent.ts`) | `Agent.isOnline`, the Signify client, `CLOUD_RECOVERY_STATUS` | `bootAndConnect`, `recoverKeriaAgent`, `start`, `connect`, `markAgentStatus` | starts every resuming task when online | not online while recovering; the connection returns; a recovery that was killed is resumed | `AgentConnection` |
| Identifiers (`identifierService.ts`) | `IdentifierMetadataRecord`, `IDENTIFIERS_PENDING_CREATION`, identifiers on KERIA | `createIdentifier`, `processIdentifiersPendingCreation`, `deleteIdentifier`, `updateIdentifier` | operations, credentials, connections, KERIA's names | a queued name yields one identifier; deletion is complete, on KERIA too | `Identifiers` |
| Multisig groups (`multiSigService.ts`) | `MULTISIG_IDENTIFIERS_PENDING_CREATION`, group metadata | `createGroup`, `joinGroup`, `processGroupsPendingCreation` | the other members' wallets, notifications, operations | a queued group is made and shown, whatever interrupts it | `GroupCreation` |
| Connections (`connectionService.ts`) | `ContactRecord`, `ConnectionPairRecord`, contacts on KERIA | `connectByOobiUrl`, `resolveOobi`, `deleteConnectionByIdAndIdentifier` | operations, identifiers, recovery | a contact lives while a pair needs it; a deletion is finished and stays so | `Connections` |
| Authentication and critical actions (`authService.ts`, `agent.ts`) | login attempts, lock time, verification deadline | `incrementLoginAttempts`, `initCriticalActionState` | UI | the lock grows with the attempts | no |
| Record storage (`src/core/storage`) | items and tags | `save`, `update`, `deleteById`, `findAllByQuery` | everything | an id names at most one record; both back ends answer alike | its two awaits, inside `LongOperations` |
| Storage migrations | local and cloud version | `executeLocalMigrations`, `executeCloudMigrations` | agent connection | each migration once, in order | no |
| Peer connection (`src/core/cardano/walletConnect`) | the paired dApp, the pending approval | `signKeri`, `connectWithDApp` | UI, identifiers | a late approval signs nothing | no |
| Incoming request queue (`src/store/reducers/stateCache`) | `queueIncomingRequest` | reducers | UI | one request at a time, none lost | no |

### Not core

The React UI, the locales and assets, the native projects and build files, the
demonstration issuer (`services/credential-server`, its UI) and the sample dApp
are not modelled: they are separate programs or carry none of the core's
protocol. What the UI asks of the services appears as choices of the user.

### What is hard here

* *Interleaving.* Two polling loops, the user's calls and the tasks that start
  when the agent comes online share the event loop and the records, and switch
  at each await.
* *Stale reads.* A handler keeps a copy of a record over several remote calls
  and decides on it, or writes all of it back.
* *Partial failure and restart.* Every handler is a list of remote calls and
  local writes, any of which can be the last one.
* *Order.* IPEX messages, TEL events and parsed credentials arrive in no fixed
  order; the failed queue repeats notifications late.
* *Iterators.* `pollLongOperations` walks an array that others change.

`PROJECT.json` lists these hazards at their lines, with the properties that
cover them and the ones that none covers yet.

## 2. Plan

Done, in this order:

1. `NotificationDelivery`, `NotificationPolling`: how notifications reach the
   wallet at all. The abstract contract is at-least-once delivery.
2. `CredentialExchange`: the wallet's main business on top of that contract.
3. `LongOperations`: the second loop.
4. `Connections` and `Identifiers`: what the tasks that start when the agent
   comes online take up, and what KERIA keeps for a recovery.
5. `AgentConnection`: when the agent comes online at all.
6. `GroupCreation`: several wallets that make one identifier.

The modules meet at their borders. `CredentialExchange` is composed with the
poller through `NotificationDelivery`: the poller is proved to implement it,
and the exchange's own deliveries are checked to follow it. `LongOperations`
leaves open what a handler does; the other modules each hold the handlers of
their own operations and take from it that an operation is handled, one at a
time, until its handler returns. `BecomeOnline` of `Connections`, `Identifiers`
and `GroupCreation` is `markAgentStatus(true)`, whose coming
`ComesOnlineInTheEnd` of `AgentConnection` is about.

Next to be modelled: `CredentialPresentation` (apply, offer, agree, grant), the
end roles of groups and their members' part in a credential, login attempts and
the incoming requests. Proved are the safety properties of all modules (section
6). Next to be proved: contracts between the modules, as the one of
`NotificationDelivery` is, such as what `LongOperations` promises the handlers
of operations. No module declares a recursive operator, since TLAPS cannot
reason about one.

## 3. Modules

Each module's state is the records and variables of the code, under their
names where TLA+ permits. A process that is suspended at an await is a `pc` or
a record with the field `at`, and an action is the code from one await to the
next. `MaxFaults` bounds crashes, errors and disconnections together; without
faults nothing fails. History variables, marked as such, are read by properties
only. Operators whose comment begins with *Mutant* are wrong on purpose: each
shows that a property notices a plausible mistake, and no specification uses
them.

### NotificationDelivery

What the poller promises the rest of the wallet: a notification may be put
behind the marker only when it was delivered or is owed, an owed one may be
forgotten only when it was delivered, and the wallet may forget the marker at
any time.

### NotificationPolling

| Code | Model |
|---|---|
| marker record, `notificationQuery` | `stored`, `cursor`, with the index and the last notification |
| keys of `FAILED_NOTIFICATIONS` | `failed`; those whose delay has passed, `due` |
| `list(start, start + 24)` | `Listing`, over the set `inbox` of what KERIA still keeps |
| first of the list is not the last one taken | `MarkerInvalid`, then `FetchFindsMarkerInvalid`, `PersistReset` |
| the loop over the batch | `ProcessReturns` or `ProcessThrows` and `Defer`, then `Advance` |
| `retryFailedNotifications` | `RetryTooEarly`, `RetryReturns`, `RetryThrows`, `Settle`, `SettleFails`, `RetryDone` |
| the `catch` of `pollNotifications` | `PollThrows`, `Restart` |
| a killed and reopened application | `Crash`, `Start`, `LoadMarker` |

The handler of a notification returns or throws, as the environment likes, and
throwing is not counted as a fault. Time is abstracted: a delay may have passed
at any moment (`BackoffElapsed`, `RetryIntervalElapsed`), so the counter of
attempts, which only selects the delay, is left out. The code fetches 25
notifications at a time; `BatchSize` is any number from two.

### CredentialExchange

One credential, one holder of a single signature, and four processes:

| Process | Code | Steps |
|---|---|---|
| `poller` | `processNotification`, `processExnIpexGrantNotification` | read credential, TEL, notifications; purge, revoke, notice and mark, or create |
| `user` | `admitAcdcFromGrant`; declining; deleting | open the offer, save pending, submit, record the operation, hide the offer |
| `worker` | `processOperation` of `ExchangeReceiveCredential` | delete the offer, read metadata, ask KERIA for the credential, write, finish |
| `removal` | `deleteCredential` | delete on KERIA, delete the metadata |

`notes` holds the notification records of the grants and, under `Notice`, the
local notification of a revocation; `accepted` is the record hidden with
`linkedRequest.accepted`. `ops` are the pending operations of the admits;
`acked` and `owed` stand for marker and failed queue.

Two steps of the code are one in the model where nobody could tell the
difference: a local lookup and the local write that follows it at once
(`MarkRevoked`, `MarkConfirmed`, `SavePending`, `AcceptNote`), and the
history item and second admit of a revocation with the notice after them. The
deletion of a notification, a mark on KERIA and a local delete, is one step
with a variant that stops in the middle (`MarkOnly`). Left out are groups, and
`syncKeriaCredentials`, which runs only in recovery. History variables:
`declined`; `reopened`, grants whose notification was made a second time;
`told`, that a grant was processed as one of a revoked credential; `crossed`,
that a grant was handled on a copy of the credential that had changed, or that
the credential was deleted in the middle of an admission.

### LongOperations

`stored` are the records, `live` is the array, whose entries are objects, told
from another object of the same id by a number; `index` is the position of the
`for...of` iterator, which stays where it is when the array shifts. A storage
call is two steps, the lookup and the write, so that two uses of one record can
overlap; `raced` remembers that some did. `saving` holds the objects whose save
is between the two, numbered as they are created. What a handler does is left
open: it returns or it throws. Services act only after the loop's first read:
they wait for the agent to be online, and the read is the first thing the
application does.

### Connections

| Code | Model |
|---|---|
| `ContactRecord` by id | `contact` |
| `ConnectionPairRecord`: `creationStatus`, `pendingDeletion` | `pair`, with `status` and `deleting` |
| fields `<identifier>:*` of a contact on KERIA | `keriaPair` |
| `connectByOobiUrl` up to its event, `createConnectionMetadata` | `ConnectSavesContact`, `ConnectSavesPair` |
| `resolveOobi`, called by the event's listener | `ResolveOobi`, `ResolveThrows` |
| `resolvePendingConnections`, which stops at the first error | `ResolvePendingConnections`, `ResolveOobi`, `ResolvePendingThrows` |
| `markConnectionPendingDelete`, the listener of `ConnectionRemoved` | `MarkConnectionPendingDelete` |
| `deleteConnectionByIdAndIdentifier` | the actions of `Delete(k)`: look up, count the pairs, then the contact on KERIA and locally, or this pair's fields; last the pair |
| `removeConnectionsPendingDeletion`, which stops at the first error | `BecomeOnline`, `RemoveNext`, `Throws` |
| `processOperation` of an `Oobi` operation, `shareIdentifier` | `HandlerReads`, `HandlerMarksInvalid`, `HandlerShares`, `HandlerUpdatesKeria`, `HandlerWrites`, `HandlerFails`, `HandlerThrows`, `HandlerReturns` |
| `syncKeriaContacts` on an empty device | `SyncKeriaContacts` |

A deletion runs at most twice at once for a pair, called by its event and by the
task of coming online. Any call of KERIA may fail (`CallFails`): as long as the
agent is offline, or as a fault while it stays online, after which KERIA may or
may not have done its part. Nobody catches what the listeners call, and a task
ends with its first error. `handler.todo` are the records as the handler read
them, which is what it writes back. Properties except what the code leaves open
by history: `overlapped`, a contact that was connected while a deletion or an
operation of it was under way; `crossed`, a pair whose operation was handled
across its deletion (`DeletedConnectionStaysDeleted` excepts these two only);
`unremoved` and `unresolved`, the deletions and resolutions that failed since
the agent came online, with what their task did not reach. Nothing retries these
before the agent goes offline, which empties both histories, and comes online
again. The operations and resolutions of one contact are not told apart, since a
second one finds no pending record.

### Identifiers

| Code | Model |
|---|---|
| `IDENTIFIERS_PENDING_CREATION` | `queue`, read and written in two steps (`WriteQueue`) |
| `IdentifierMetadataRecord` | `record`: `name`, `deleting`, `deleted`, `updating` (`pendingUpdate`), `status` |
| `witness.<prefix>` operations | `witness` |
| the identifiers of the agent, by name | `keria` |
| `createIdentifier`, by the user or for a queued name | `CreateReadsQueue`, `CreateQueues`, then `Create(c)` |
| `processIdentifiersPendingCreation` | `CreateNext`; it stops at the first error (`CreateStops`) |
| `markIdentifierPendingDelete`, `deleteIdentifier`, `removeIdentifiersPendingDeletion` | `MarkIdentifierPendingDelete`, `Delete(i)`, `RemoveNext` |
| `updateIdentifier`, `propagateUpdatesForIdentifier`, `processIdentifiersPendingUpdate` | `UpdateIdentifier`, `Propagate(c)`, `UpdateNext` |

KERIA refuses a second identifier of a name, and the wallet then searches for
the first: this is what makes creation repeatable, and `CreateIncepts` has both
branches. A failed answer after KERIA acted is one of its outcomes. History
variables: `origin`, the name for which KERIA made an identifier; `promised`
names; `clobbered`, that a write of the queue undid another; `freed`, names
that a deletion or a change of name released on KERIA while they were still to
be made; `crossed`, identifiers renamed from a record that had changed since,
or renamed while the task propagated an earlier name; `stopped`, what a task
that threw did not reach. `updateIdentifierMetadata` looks up and writes in one
step.

### AgentConnection

The flow of the pages is `flow`: `CreateSSIAgent` in a recovery
(`RecoverKeriaAgent`, `SaveRecoveryStatus`, `SaveAgentUrls`) or the login of
`AppWrapper` (`StartAgent`, `CheckRecovery`), then `syncWithKeria` part by part
and `loadDb`. Every caller of `Agent.connect` has a `loop` of its own: the
flow, the two pollers, and each `OnlineOnly` call that met a network error.
`connect(interval, update)` marks the agent offline, and online on success if
`update`; the timer's repetition (`ConnectAgain`) calls `connect()` without
arguments, which is `update = TRUE`. `repeated` remembers that the flow's
connect did. A network error is taken where the code handles it, so a poll that
is under way when the network goes is one that meets it afterwards.

### GroupCreation

| Code | Model |
|---|---|
| `MULTISIG_IDENTIFIERS_PENDING_CREATION` | `queue`, a sequence; entries are found by name (`First`, `Without`) |
| group metadata, group operation, the requests to join | `record`, `operation`, `notes` |
| `generateAndStoreInceptionData` | `Begin`, `CallQueues` |
| `createGroup`, `joinGroup` after it, by the user or the task | `Proceed(m, c)`: incept, send, save, operation and request, unqueue |
| `processGroupsPendingCreation`, `getInceptionData` | `TaskNext` |
| `processMultiSigIcpNotification` | `PollInception` |
| `processOperation` of a `Group` operation | `OperationDone` |

Each member is a wallet with all of this state; they meet through `inbox` and
through KERIA's group operation, which is done once as many members as the
threshold says have incepted. A group is its name and its threshold, the part
of the inception data that decides whether two inceptions are of one group; the
name that the code puts together anew at a retry (`multiSigService.ts:605`) is
taken to be the one of the first time. Two messages of one sender about one
group are not told apart. `Reopen` is a wallet that is closed with nothing
under way and opened again, which happens without any fault. `clobbered` are
wallets in which a write of the queue undid another one, `Disputed` those that
queued two groups under one name.

## 4. Runs

| Run | Bounds | Shows |
|---|---|---|
| `polling` | 2 notifications, batches of 2, 2 faults; 52 thousand states | `NothingSkipped`, `AtMostOneRepeated`, `OnlyProcessedLeaveQueue`, the refinement `ImplementsDelivery`; `EveryNotificationProcessed`, `FailedQueueDrains` |
| `exchange_safety` | 2 grants, 2 admits, 1 fault; 8.0 million | `AcceptedHasOperation`, `OneNotePerCredential`, `PendingHasAWayOutUntilRevoked`, `RevokedStaysRevokedWithoutFaults`, `DeliveredAtLeastOnce` |
| `exchange_liveness` | 2 grants, 1 admit, 1 fault; 609 thousand | `AcceptedOfferIsCleared`, `PendingIsSettledIfCredentialsArrive`, `OwedRevocationIsApplied` |
| `operations` | 2 operations, 3 saves, 1 fault; 306 thousand | `LiveMirrorsStored`, `OnlyHandledLeave`, `DoneOperationLeaves` |
| `connections` | 2 identifiers, 1 contact, 2 connections, 1 fault; 4.8 million up to symmetry | `ShownConnectionHasContact`, `ConfirmedConnectionIsBackedUp`, `DeletedConnectionStaysDeleted`, `DeletionIsUnderWay`, `PendingConnectionIsResolved` |
| `identifiers` | 2 names and a new one, 2 identifiers, 1 change of name, 1 fault; 2.6 million | `QueuedUntilMade`, `OneIdentifierPerName`, `DeletedStaysDeleted`, `PendingIsUnderWay`, `NamesAgree` |
| `agent_connection` | 2 pollers, 2 calls, 3 faults; 28 thousand | `RecoveryIsResumed`, `OnlineOnceLoaded`, `ComesOnlineInTheEnd` |
| `groups` | 2 members, 2 groups, either threshold, 2 calls, 1 fault; 61 thousand | `QueuedUntilTracked`, `QueuedGroupIsMade`, `CompleteGroupIsShown` |
| the four runs of section 5 | as above or smaller | each violates one property |

Each passing run but `exchange_liveness` also checks its module's type
invariant.

The bounds are the smallest that reach the cases at issue. In the poller a list
spans two batches, of which one overlaps the other, and two faults allow a crash
during the recovery from another; the proofs of section 6 cover every larger
value for safety (3 notifications were also checked by hand), so one run with
liveness is enough. Two grants are the issuance and the revocation, or an
issuance repeated; two admits allow a retry by the user after a failure. Larger
instances of the exchange were searched by hand, without faults to the end (3
grants and 3 admits, 767 thousand states; with the inductive invariant of
section 6 also 4 grants and 2 admits, 5.1 million) and with 2 faults in part;
they showed the two exceptions named `crossed`. Two operations are what it takes
for one to be hit by the removal of the other, three saves let one of them be
saved again. Two identifiers share one contact, so that a deletion finds another
pair or does not, and one of them may connect while the other disconnects; two
connections in all let a deleted one be made again. After the fault the tasks of
coming online take up what it left, where resolving may fail again. That a
deletion of theirs fails while the agent stays online takes a second fault, and
that a failure stops a task with several contacts to go takes a second contact:
both are covered by the proofs, and were checked by hand, without the bound on
`ResolvePendingThrows` (one connection and three faults, 94 thousand states; two
contacts and one fault, 7.4 million). Two names are two entries of the queue,
one fault interrupts any step of a creation, a deletion or a change of name, and
the tasks of the next start meet what it left. The two names are symmetric, as
are the two identifiers of a contact, and these runs have no temporal property.
Three faults of the agent's connection let the network fail twice in a recovery
that is also killed. Two groups fill the queue with two entries, and two calls
are an inception and a join, or an inception and its retry with another
threshold. Larger instances of the groups were checked by hand: one name with
three calls (82 thousand states), two names with the threshold 2 and three calls
(182 thousand) or two faults (159 thousand).

Bounds of the models themselves: one task of a kind runs at a time, where the
code could start a second one if the agent comes online again before the first
has ended; a deletion started by an event runs once for a pair or an
identifier. In the `connections` run one fault is one crash, one disconnection,
one recovery or one call that fails while online; what fails for want of a
network after it is free. A failure of `resolvePendingConnections` is no fault,
since no such task starts without one before it; while online it happens before
the last connection of the run is made, which bounds the states.

Deadlock is checked for the poller and the loop of operations, which never
stop. Elsewhere a state without a successor is a wallet at rest, in which no
user, issuer or fault is left to act, and deadlock is not checked.

### Fairness

*Poller.* `NotificationPolling` is weakly fair in what the loop does, in the
timers, in coming online and in logging in: the loop is restarted whenever the
application is, `connect` repeats until it succeeds, and a wallet that is never
opened promises nothing. That a retry returns in the end (strong fairness of
`RetryReturns`) is an assumption about KERIA and the handlers: without it no
queue drains. *Exchange.* Each process keeps running, and KERIA completes every
admit, with an error or not. That the credential of an admit arrives is not
assumed: `credentialService.ts:299` says that it may never do so and then stays
pending. `PendingIsSettledIfCredentialsArrive` has it as its premise. The
worker's loop visits every operation of its array in turn, so each one that
stays done is taken in the end, between whatever else it does (strong fairness
of `TakeOperation` per operation). Neither the user nor the issuer has to do
anything. *Operations.* The loop runs, the agent comes online, and a handler
that is called again and again returns once (`HandlerReturns`); KERIA need not
complete an operation. *Connections.* Calls return, KERIA ends its operations,
the poll visits each of them, and the agent keeps trying to connect; only the
violated run reads it. *Agent connection.* Timers fire, promises settle, and a
network that is lost returns. *Groups.* Calls settle and polls come around
while a wallet runs, and a wallet is opened again and again. No member has to
create or join a group, and no threshold has to be reached. `Identifiers` has
safety properties only and states no fairness.

## 5. What the code does that its documents do not say

Each of these is a run that TLC finds violated; the trace is the evidence.

* **A revocation can be lost** (`exchange_lost_revocation`). The handler of a
  grant reads the credential, then asks KERIA for the TEL, then deletes the
  offers. If the user accepts the offer after that first read, the handler
  still believes that there is no credential: it creates an ordinary offer for
  the revocation's grant and acknowledges it. The admission completes and the
  credential is shown as confirmed for good. No fault is involved.
* **A deletion of a connection can be forgotten** (`connections_deletion`). The
  handler of an Oobi operation writes pair records back whole as they were
  before its calls of KERIA, `pendingDeletion: false` included. If the deletion
  that started meanwhile is interrupted, nothing retries it.
* **A deleted identifier can come back in a recovery** (`identifiers_recovery`).
  A deletion is known to KERIA by the identifier's name; a change of name that
  is propagated late puts a live name over it.
* **A failed group can block the queue** (`groups_retry`). Entries are found by
  name. A retry with another threshold queues a second entry, the retries take
  the first one's data, KERIA holds a group of the other's, and the task stops
  at that entry at every start.

Seen while modelling and proving, and excepted in properties or left to the
reader:

* The stale copy of the first finding also offers a credential a second time.
  If a repeated grant is handled while the user accepts the offer of the first,
  it becomes an offer too. An admission of that second offer which is under way
  when a third grant revokes the credential shows the revoked credential as
  confirmed. No fault is involved; `RevokedStaysRevokedWithoutFaults` excepts
  it (`crossed`).
* The deletion of a credential does not end an admission of it that is under
  way. With what is left of that admission, a later one of the same credential
  can stay pending with nothing to complete it. `PendingHasAWayOutUntilRevoked`
  excepts it (`crossed`).
* `propagateUpdatesForIdentifier` ends with `pendingUpdate: false`
  (`identifierService.ts:443`), whatever name it propagated. A change of name
  that the user makes meanwhile loses its mark, and if it fails, nothing
  retries it. `NamesAgree` excepts it (`crossed`); it takes three changes.
* `markAcdc(CONFIRMED)` (`credentialService.ts:308`) writes the whole record
  back in the way of the second finding; `MarkConfirmed` does so.
* A credential whose admission failed keeps its offer, to be accepted again. A
  revocation deletes the offer first and then waits for the pending credential,
  so that nothing is left to settle it. `PendingHasAWayOutUntilRevoked` ends
  where this begins.
* The cleanup of operations (`utils.ts:126`) queries by a field that is none of
  the record's tags, and matches nothing; it is not modelled for that reason.
* `splice(indexOf(..), 1)` (`keriaNotificationService.ts:1518`) with an index
  of -1 takes the last operation out of the array until the next start. It
  takes two removals of one record, and `LiveMirrorsStored` excepts those
  (`raced`).
* `connect` repeats itself without its second argument (`agent.ts:607`), so a
  recovery whose network fails twice marks the agent online before it is over.
  `OnlineOnceLoaded` excepts it (`repeated`).
* The queues of pending names and pending groups are read, changed and written
  across awaits. Two uses that overlap lose an entry, which `QueuedUntilMade`
  and `QueuedUntilTracked` except (`clobbered`).

Properties that hold only in part are stated that way.
`RevokedStaysRevokedWithoutFaults` is limited to runs without faults, since a
worker that fails after `markAcdc(CONFIRMED)` repeats it over a revocation that
came in between, and to those without the second offer above.
`AcceptedHasOperation` excepts grants whose record was made a second time by a
redelivered notification.

## 6. Proofs

`NotificationPolling_proofs` proves the safety of the poller for every number
of notifications, every batch size from two and every number of faults. The
assumptions are those of the module on its constants.

* `TypeCorrect`: `TypeOK` is inductive by itself.
* `Inductive`: the invariant `IInv`. `NothingSkipped` alone is not inductive:
  it says nothing of the batch in memory or of the point at which the loop is
  suspended. `IInv` adds that the batch is a run of the agent's list that
  begins right after the cursor (`BatchFollowsCursor`), so that the cursor
  never jumps over a notification; that at `advance` the first of the batch is
  processed or in the queue (`SuspendedAt`); that cursor and stored marker are
  the same wherever the loop could be killed, and that nothing beyond the
  cursor but the one notification at hand was processed before a reset
  (`Frontier`). The step that matters is `FetchBatch`: if the list begins with
  the last notification taken, then what follows it is what follows it on
  KERIA, whatever was deleted before. It rests on two lemmas about the list,
  `PositionMonotonic` and `ListingContiguous`.
* `NoNotificationSkipped`, `RestartRepeatsAtMostOne`, `QueueKeepsUnprocessed`
  follow from `IInv`.
* `PollingImplementsDelivery`: under the mapping of the module every step is a
  step of `NotificationDelivery` or leaves its variables alone.

`AgentConnection_proofs` proves the safety of the connection for every set of
pollers and calls and every number of faults, from `OwnersAssumption` and
`MaxFaultsAssumption`.

* `TypeCorrect`: `TypeOK` is inductive by itself. Its last conjunct, that the
  flow is at its connect exactly while that connect runs, is what lets every
  other step of the flow leave the loops alone.
* `RecoveryStatusSurvives`: `RecoveryIsResumed` says nothing of a flow between
  saving the status and saving the URLs, or of the parts it has counted past.
  `RecoveryRecorded` adds that the status is there at `url`, and that
  everything before `flow.part` is copied.
* `OnlyRepetitionIsEarly`: `OnlineHasACause` follows who may still mark the
  agent online. Pollers and calls have a loop only if they began when the agent
  was online, and the flow's own connect asks for it only when it has repeated
  itself.

`CredentialExchange_proofs` proves the safety of the exchange for any number of
grants, admits and faults, from the module's assumptions on these three.

* `OffersAreOne`: that two offers of a credential are never before the user
  rests on the poller alone, who creates one only after it found none
  (`PollerKnows`); everyone else only takes away.
* `AcceptedAreAnswered`: whoever hides an offer has recorded its operation
  (`UserKnows`), and the worker drops an operation only after it deleted the
  offer (`WorkerKnows`), so the order of the two writes does not matter.
* `PendingCanBeAdmitted`: `PendingIsOpen` follows an admission from the save of
  the pending credential to the end of its operation, as long as nobody revoked,
  declined or deleted in between.
* `GrantsAreDelivered`: every step is one of `NotificationDelivery` or leaves
  its variables alone. It needs that what lies behind the marker was delivered
  or is owed (`PollerDelivers`).
* `RevokedStayRevoked`: without faults a second invariant holds (`CalmInv`). A
  grant is delivered once (`GrantsOnce`), so that an offer is open only for a
  credential that is not there (`OfferIsNew`), there is one admission at a time
  (`OneAdmission`), and a credential that the poller saw confirmed is still
  admitted by nobody when the poller revokes it (`PollerSaw`).

`LongOperations_proofs` proves the safety of the loop for every set of
operations and any number of saves and faults.

* `ArrayMirrorsStorage`: until two uses of a record overlap, the array has one
  object of each stored operation. Then `findIndex` and `indexOf` can only meet
  the object of the record that was deleted. The invariant adds that the object
  under way is in the array as long as its record is stored
  (`CurrentIsKnown`), that nothing is saved before the loop has read its
  records (`ServicesWait`), and that the stored records are finitely many, so
  that the order in which they are read is a sequence.
* `OnlyHandledAreDeleted`: the record of the loop's object was handled when the
  loop deletes it, by the same invariant.

`Connections_proofs` proves the safety of connections for every finite set of
pairs of an identifier and a contact (the count of a contact's pairs needs that
they are finite), with and without a recovery, for any number of connections and
faults.

* The three properties of what is shown, confirmed and deleted are in the
  invariant. They need what a process under way relies on: a deletion, that
  what it deletes is still marked, and from its count on, that all the pairs
  of the contact are (`DeletionKnows`); a pair being connected, that its contact
  is there (`ConnectingKnows`); the handler of an operation, that the records it
  read are as it read them but for a mark of deletion (`HandlerKnows`).
* `DeletionsAreUnderWay`, `PendingAreResolved`: the two tasks of coming online
  take up everything and drop only what they finish. What a failed call leaves
  behind is in `unremoved` or `unresolved` until the agent goes offline, so
  that the next coming online meets all of it again.

`Identifiers_proofs` proves the safety of identifiers for every set of names
and any number of identifiers, changes of name and faults. `NamesAssumption`
says that new names are not names in the queue, and `SentinelsAssumption` that
the values for no name and a deleted one are not names.

* `QueuedNamesAreMade`: a record is never removed and a mark of deletion never
  taken back, so a call may rely on what its first step saw (`CallsKnow`).
* `RetriesMakeOne`: a name that KERIA knows is found again instead of made
  twice. A second identifier needs the name to be released while it was
  wanted, which `FreedTooSoon` follows.
* `DeletionReachesKeria`, `RenamesReachKeria`: KERIA and the record differ only
  while an update or a deletion is on its way (`Renamed`).
* `PendingIsTakenUp` is inductive with the types.

`GroupCreation_proofs` proves the safety of groups for every set of members,
names and thresholds, any number of calls and faults.

* `TypeCorrect`: the types hold together with `RecordsFollow` (a record is of a
  group that KERIA holds, an operation of a recorded one) and `OneOfAName`.
* `QueuedAreTracked`: a call that takes an entry out of the queue has its group
  recorded and its operation saved (`CallsKnow`). It takes the first entry of a
  name: if that is of another group, then two groups of that name were
  promised, for whatever is queued or called for was (`OnlyPromised`), and the
  wallet is one of `Disputed`.

Each inductive invariant was first checked with TLC, on small instances. All
invariants and action properties of the passing runs are proved, and the two
refinements of `NotificationDelivery`.

Model-checked only: the liveness properties, since reasoning about fairness and
enabled actions is out of the prover's reach. These are
`EveryNotificationProcessed`, `FailedQueueDrains`, `AcceptedOfferIsCleared`,
`PendingIsSettledIfCredentialsArrive`, `OwedRevocationIsApplied`,
`DoneOperationLeaves`, `ComesOnlineInTheEnd`, `QueuedGroupIsMade` and
`CompleteGroupIsShown`.

## 7. Not modelled

* *Credential presentation*: each call sends one message and marks its
  notification; its group exchanges need the members of `GroupCreation`.
* *Group members' part in credentials, end roles, deletion of groups, OOBIs in
  messages*: an exchange of messages of the same shape as the inception's.
* *Incoming requests* (`stateCache.ts`, `IncomingRequest.tsx`): reducers over
  one array, whose head a page takes off on a timer of its own.
* *Authentication, migrations, identifier names*: sequential code over one
  record or string.
* *Peer connection*: its protocol is a library's whose source the repository
  does not have.
* *Record storage*: its two awaits are in `LongOperations`; elsewhere a record
  is written in one step. What a query matches is data.
* *The rest of the repository*: about half of it are the pages, components and
  word lists of the UI, and most of the other half the credential server, its
  UI and the sample dApp, which are programs of their own. They hold layout,
  forms and HTTP routes, with no protocol of the wallet to check. The models
  therefore cover the core's services that change shared state, not a large
  share of the repository's lines.

Contents of messages and records, wording, encodings and times appear only
where a property tells them apart. KERIA is what the wallet uses of it: a list
that grows at the end and shrinks anywhere, operations that get done, a TEL
that turns from `iss` to `rev`, identifiers and contacts by name and id, groups
that need a number of inceptions.
