------------------------- MODULE CredentialExchange -------------------------
(***************************************************************************)
(* How a holder's wallet receives one credential over IPEX and learns of   *)
(* its revocation.  Four processes of the same application interleave at   *)
(* their awaits over the same records:                                     *)
(*   poller   KeriaNotificationService.processNotification, for grants     *)
(*   user     IpexCommunicationService.admitAcdcFromGrant, and the pages   *)
(*            that decline an offer or delete a credential                 *)
(*   worker   KeriaNotificationService.processOperation, for the admits    *)
(*   removal  CredentialService.deleteCredential, in the background        *)
(* The holder is a single identifier.  A grant is the number of its        *)
(* notification; notifications reach the poller under the contract of      *)
(* NotificationDelivery.                                                   *)
(***************************************************************************)
EXTENDS Integers, Sequences, FiniteSets

CONSTANTS
  MaxGrants,    \* bound: IPEX grants of the credential the issuer sends
  MaxAdmits,    \* bound: admits the user submits
  MaxFaults     \* bound: crashes, errors, marker resets

ASSUME MaxGrantsAssumption == MaxGrants \in Nat \ {0}
ASSUME MaxAdmitsAssumption == MaxAdmits \in Nat
ASSUME MaxFaultsAssumption == MaxFaults \in Nat

VARIABLES
  sent,         \* KERIA: number of grants it notified of
  tel,          \* KERIA: last event of the credential's TEL, iss or rev
  marked,       \* KERIA: notifications with the read flag r
  submitted,    \* KERIA: the grants our admits answer, one per operation
  done,         \* KERIA: operations that are done
  errored,      \* KERIA: those of them done with an error
  arrived,      \* KERIA: those whose credential was parsed
  available,    \* KERIA: credentials().get finds the credential
  notes,        \* storage: NotificationRecords about the credential
  cred,         \* storage: status in the CredentialMetadataRecord
  deleting,     \* storage: its pendingDeletion flag
  ops,          \* storage: OperationPendingRecords of our admits
  acked,        \* storage: last notification behind the marker
  owed,         \* storage: notifications in FAILED_NOTIFICATIONS
  poller, user, worker, removal,
  faults,       \* faults so far
  delivered,    \* history: grants processNotification returned for
  declined,     \* history: the user deleted the notification of a grant
  reopened,     \* history: grants whose notification was created again
  told,         \* history: a grant was processed that found the TEL revoked
  crossed       \* history: a grant was handled on a copy of the credential that
                \* had changed, or the credential deleted during an admission

keria   == <<sent, tel, marked, submitted, done, errored, arrived, available>>
credential == <<cred, deleting>>
queue   == <<acked, owed, delivered>>
history == <<declined, reopened, told, crossed>>
vars    == <<keria, notes, credential, ops, queue,
             poller, user, worker, removal, faults, history>>

Grants  == 1..MaxGrants
Notice  == 0                          \* the LocalAcdcRevoked notification
NoteIds == Grants \union {Notice}
Admits  == 1..Len(submitted)
Present == {n \in NoteIds : notes[n] # "none"}

PollerIdle == [at |-> "idle", grant |-> 0, again |-> FALSE,
               seen |-> "none", tel |-> "iss", old |-> {}]
UserIdle   == [at |-> "idle", grant |-> 0]
WorkerIdle == [at |-> "idle", op |-> 0, old |-> {}, kept |-> FALSE]

Fault ==
  /\ faults < MaxFaults
  /\ faults' = faults + 1

\* deleteNotificationRecordById: a local notification is not marked on KERIA.
\* Its cleanupPendingOperations finds nothing to delete, see LongOperations.
DeleteNote(n) ==
  /\ marked' = IF n = Notice THEN marked ELSE marked \union {n}
  /\ notes' = [notes EXCEPT ![n] = "none"]

\* The same, when the second of its two steps fails.
MarkOnly(n) ==
  /\ marked' = IF n = Notice THEN marked ELSE marked \union {n}
  /\ UNCHANGED notes

-----------------------------------------------------------------------------
(* The issuer and the KERIA agent.                                         *)

SendGrant ==
  /\ sent < MaxGrants
  /\ sent' = sent + 1
  /\ UNCHANGED <<tel, marked, submitted, done, errored, arrived, available>>
  /\ UNCHANGED <<notes, credential, ops, queue, poller, user, worker, removal, faults, history>>

Revoke ==
  /\ tel = "iss"
  /\ sent > 0
  /\ tel' = "rev"
  /\ UNCHANGED <<sent, marked, submitted, done, errored, arrived, available>>
  /\ UNCHANGED <<notes, credential, ops, queue, poller, user, worker, removal, faults, history>>

CompleteAdmit(a) ==
  /\ a \in Admits \ done
  /\ done' = done \union {a}
  /\ \/ UNCHANGED <<errored, faults>>
     \/ Fault /\ errored' = errored \union {a}
  /\ UNCHANGED <<sent, tel, marked, submitted, arrived, available>>
  /\ UNCHANGED <<notes, credential, ops, queue, poller, user, worker, removal, history>>

\* The credential is parsed some time after the admit is done, or never.
CredentialArrives(a) ==
  /\ a \in done \ (errored \union arrived)
  /\ arrived' = arrived \union {a}
  /\ available' = TRUE
  /\ UNCHANGED <<sent, tel, marked, submitted, done, errored>>
  /\ UNCHANGED <<notes, credential, ops, queue, poller, user, worker, removal, faults, history>>

-----------------------------------------------------------------------------
(* The poller: delivery of one grant, and processExnIpexGrantNotification. *)

PollerGoes(step) == poller' = [poller EXCEPT !.at = step]

\* A notification whose read flag is set is skipped.
Fetch(g) ==
  /\ poller.at = "idle"
  /\ g = acked + 1
  /\ g <= sent
  /\ \/ /\ g \in marked
        /\ poller' = [PollerIdle EXCEPT !.at = "settle", !.grant = g]
        /\ delivered' = delivered \union {g}
     \/ /\ g \notin marked
        /\ poller' = [PollerIdle EXCEPT !.at = "credential", !.grant = g]
        /\ UNCHANGED delivered
  /\ UNCHANGED <<keria, notes, credential, ops, acked, owed, user, worker, removal, faults, history>>

\* The queue kept the notification as it was listed, with r unset.
Retry(g) ==
  /\ poller.at = "idle"
  /\ g \in owed
  /\ poller' = [PollerIdle EXCEPT !.at = "credential", !.grant = g, !.again = TRUE]
  /\ UNCHANGED <<keria, notes, credential, ops, queue, user, worker, removal, faults, history>>

ReadCredential ==
  /\ poller.at = "credential"
  /\ poller' = [poller EXCEPT !.at = "tel", !.seen = cred]
  /\ UNCHANGED <<keria, notes, credential, ops, queue, user, worker, removal, faults, history>>

ReadTel ==
  /\ poller.at = "tel"
  /\ poller' = [poller EXCEPT !.at = "notes", !.tel = tel]
  /\ UNCHANGED <<keria, notes, credential, ops, queue, user, worker, removal, faults, history>>

\* Mutant: an offer that was not yet accepted is overlooked.
DuplicateUnlessOffered == poller.seen # "none"

\* DUPLICATE_ISSUANCE: the TEL may lag behind a revocation.
Duplicate == poller.seen # "none" \/ Present # {}

ReadNotes ==
  /\ poller.at = "notes"
  /\ \/ poller.tel = "iss" /\ Duplicate /\ PollerGoes("throw")
     \/ poller.tel = "iss" /\ ~Duplicate /\ PollerGoes("create")
     \/ poller.tel = "rev" /\ poller' = [poller EXCEPT !.at = "purge", !.old = Present]
  /\ UNCHANGED <<keria, notes, credential, ops, queue, user, worker, removal, faults, history>>

PurgeNote(n) ==
  /\ poller.at = "purge"
  /\ n \in poller.old
  /\ \/ /\ n \in Present
        /\ DeleteNote(n)
        /\ poller' = [poller EXCEPT !.old = @ \ {n}]
     \/ /\ n \notin Present
        /\ PollerGoes("throw")
        /\ UNCHANGED <<marked, notes>>
  /\ UNCHANGED <<sent, tel, submitted, done, errored, arrived, available>>
  /\ UNCHANGED <<credential, ops, queue, user, worker, removal, faults, history>>

\* Mutant: a revocation of a pending credential is applied at once.
PurgeDoneWithoutOrder ==
  /\ poller.at = "purge"
  /\ poller.old = {}
  /\ \/ poller.seen \in {"pending", "confirmed"} /\ PollerGoes("revoke")
     \/ poller.seen \in {"none", "revoked"} /\ PollerGoes("create")
  /\ UNCHANGED <<keria, notes, credential, ops, queue, user, worker, removal, faults, history>>

\* Mutant: a revocation is shown as one more offer.
PurgeDoneWithoutRevoking ==
  /\ poller.at = "purge"
  /\ poller.old = {}
  /\ \/ poller.seen = "pending" /\ PollerGoes("throw")
     \/ poller.seen # "pending" /\ PollerGoes("create")
  /\ UNCHANGED <<keria, notes, credential, ops, queue, user, worker, removal, faults, history>>

\* OUT_OF_ORDER_NOTIFICATION while the credential is pending.
PurgeDone ==
  /\ poller.at = "purge"
  /\ poller.old = {}
  /\ \/ poller.seen = "pending" /\ PollerGoes("throw")
     \/ poller.seen = "confirmed" /\ PollerGoes("revoke")
     \/ poller.seen \in {"none", "revoked"} /\ PollerGoes("create")
  /\ UNCHANGED <<keria, notes, credential, ops, queue, user, worker, removal, faults, history>>

MarkRevoked ==
  /\ poller.at = "revoke"
  /\ \/ cred = "none" /\ PollerGoes("throw") /\ UNCHANGED cred
     \/ cred # "none" /\ PollerGoes("notice") /\ cred' = "revoked"
  /\ UNCHANGED <<keria, notes, deleting, ops, queue, user, worker, removal, faults, history>>

\* After the history item and the admit of the revocation.
SaveNotice ==
  /\ poller.at = "notice"
  /\ notes' = [notes EXCEPT ![Notice] = "open"]
  /\ PollerGoes("mark")
  /\ UNCHANGED <<keria, credential, ops, queue, user, worker, removal, faults, history>>

MarkNotification ==
  /\ poller.at = "mark"
  /\ marked' = marked \union {poller.grant}
  /\ delivered' = delivered \union {poller.grant}
  /\ told' = TRUE
  /\ PollerGoes("settle")
  /\ UNCHANGED <<sent, tel, submitted, done, errored, arrived, available>>
  /\ UNCHANGED <<notes, credential, ops, acked, owed, user, worker, removal, faults, declined, reopened, crossed>>

\* A record that already exists is left as it is.
CreateNotificationRecord ==
  /\ poller.at = "create"
  /\ notes' = IF poller.grant \in Present THEN notes ELSE [notes EXCEPT ![poller.grant] = "open"]
  /\ delivered' = delivered \union {poller.grant}
  /\ reopened' = reopened \union (({poller.grant} \intersect delivered) \ Present)
  /\ told' = (told \/ poller.tel = "rev")
  /\ crossed' = (crossed \/ cred # poller.seen)
  /\ PollerGoes("settle")
  /\ UNCHANGED <<keria, credential, ops, acked, owed, user, worker, removal, faults, declined>>

\* Mutant: the marker moves on without the failed entry being written.
ThrowWithoutEntry ==
  /\ poller.at = "throw"
  /\ poller' = IF poller.again THEN PollerIdle ELSE [poller EXCEPT !.at = "settle"]
  /\ UNCHANGED <<keria, notes, credential, ops, queue, user, worker, removal, faults, history>>

Throw ==
  /\ poller.at = "throw"
  /\ owed' = owed \union {poller.grant}
  /\ poller' = IF poller.again THEN PollerIdle ELSE [poller EXCEPT !.at = "settle"]
  /\ UNCHANGED <<keria, notes, credential, ops, acked, delivered, user, worker, removal, faults, history>>

Settle ==
  /\ poller.at = "settle"
  /\ \/ poller.again /\ owed' = owed \ {poller.grant} /\ UNCHANGED acked
     \/ ~poller.again /\ acked' = poller.grant /\ UNCHANGED owed
  /\ poller' = PollerIdle
  /\ UNCHANGED <<keria, notes, credential, ops, delivered, user, worker, removal, faults, history>>

PollerFails ==
  /\ poller.at \in {"credential", "tel", "notes", "purge", "revoke", "notice", "mark", "create"}
  /\ Fault
  /\ PollerGoes("throw")
  /\ \/ UNCHANGED <<marked, notes>>
     \/ poller.at = "purge" /\ \E n \in poller.old \intersect Present : MarkOnly(n)
  /\ UNCHANGED <<sent, tel, submitted, done, errored, arrived, available>>
  /\ UNCHANGED <<credential, ops, queue, user, worker, removal, history>>

\* KERIA dropped a notification: the poller starts again from the first.
Rewind ==
  /\ poller.at = "idle"
  /\ acked > 0
  /\ Fault
  /\ acked' = 0
  /\ UNCHANGED <<keria, notes, credential, ops, owed, delivered, poller, user, worker, removal, history>>

-----------------------------------------------------------------------------
(* The user: accepting or declining an offer, deleting the credential.     *)

UserGoes(step) == user' = [user EXCEPT !.at = step]

\* The offer's page shows no accept button for a revoked credential.
OpenOffer(g) ==
  /\ user.at = "idle"
  /\ notes[g] = "open"
  /\ tel = "iss"
  /\ user' = [at |-> "offer", grant |-> g]
  /\ UNCHANGED <<keria, notes, credential, ops, queue, poller, worker, removal, faults, history>>

CloseOffer ==
  /\ user.at = "offer"
  /\ user' = UserIdle
  /\ UNCHANGED <<keria, notes, credential, ops, queue, poller, worker, removal, faults, history>>

\* admitAcdcFromGrant reads the record: it exists and is not yet accepted.
AcceptOffer ==
  /\ user.at = "offer"
  /\ notes[user.grant] = "open"
  /\ Len(submitted) < MaxAdmits
  /\ UserGoes("save")
  /\ UNCHANGED <<keria, notes, credential, ops, queue, poller, worker, removal, faults, history>>

\* saveAcdcMetadataRecord; a record that already exists is no error.
SavePending ==
  /\ user.at = "save"
  /\ cred' = IF cred = "none" THEN "pending" ELSE cred
  /\ UserGoes("submit")
  /\ UNCHANGED <<keria, notes, deleting, ops, queue, poller, worker, removal, faults, history>>

SubmitAdmit ==
  /\ user.at = "submit"
  /\ submitted' = Append(submitted, user.grant)
  /\ UserGoes("record")
  /\ UNCHANGED <<sent, tel, marked, done, errored, arrived, available>>
  /\ UNCHANGED <<notes, credential, ops, queue, poller, worker, removal, faults, history>>

\* Mutant: the record is written under the name of the next operation.
RecordNextOperation ==
  /\ user.at = "record"
  /\ ops' = ops \union {Len(submitted) + 1}
  /\ UserGoes("accept")
  /\ UNCHANGED <<keria, notes, credential, queue, poller, worker, removal, faults, history>>

RecordOperation ==
  /\ user.at = "record"
  /\ ops' = ops \union {Len(submitted)}
  /\ UserGoes("accept")
  /\ UNCHANGED <<keria, notes, credential, queue, poller, worker, removal, faults, history>>

\* Mutant: a record that is gone is created again.
AcceptNoteOrCreate ==
  /\ user.at = "accept"
  /\ notes' = [notes EXCEPT ![user.grant] = "accepted"]
  /\ user' = UserIdle
  /\ UNCHANGED <<keria, credential, ops, queue, poller, worker, removal, faults, history>>

\* Accepted and hidden; the update throws when the record is gone.
AcceptNote ==
  /\ user.at = "accept"
  /\ notes' = IF user.grant \in Present THEN [notes EXCEPT ![user.grant] = "accepted"] ELSE notes
  /\ user' = UserIdle
  /\ UNCHANGED <<keria, credential, ops, queue, poller, worker, removal, faults, history>>

AdmitFails ==
  /\ user.at \in {"save", "submit", "record", "accept"}
  /\ Fault
  /\ user' = UserIdle
  /\ UNCHANGED <<keria, notes, credential, ops, queue, poller, worker, removal, history>>

Dismiss(n) ==
  /\ user.at = "idle"
  /\ notes[n] = "open"
  /\ \/ DeleteNote(n) /\ UNCHANGED faults
     \/ MarkOnly(n) /\ Fault
  /\ declined' = (declined \/ n \in Grants)
  /\ UNCHANGED <<sent, tel, submitted, done, errored, arrived, available>>
  /\ UNCHANGED <<credential, ops, queue, poller, user, worker, removal, reopened, told, crossed>>

\* archiveCredential and markCredentialPendingDeletion, whose event starts
\* the removal.
DeleteCredential ==
  /\ user.at = "idle"
  /\ cred # "none"
  /\ ~deleting
  /\ deleting' = TRUE
  /\ removal' = "keria"
  /\ UNCHANGED <<keria, notes, cred, ops, queue, poller, user, worker, faults, history>>

-----------------------------------------------------------------------------
(* The removal: started by the event, and when the agent comes online.     *)

RemoveCredentialsPendingDeletion ==
  /\ removal = "idle"
  /\ deleting
  /\ removal' = "keria"
  /\ UNCHANGED <<keria, notes, credential, ops, queue, poller, user, worker, faults, history>>

RemoveFromKeria ==
  /\ removal = "keria"
  /\ available' = FALSE
  /\ removal' = "local"
  /\ UNCHANGED <<sent, tel, marked, submitted, done, errored, arrived>>
  /\ UNCHANGED <<notes, credential, ops, queue, poller, user, worker, faults, history>>

\* An offer is being accepted, or its operation is still to be processed.
AdmissionUnderWay == ops # {} \/ user.at \in {"save", "submit", "record"}

RemoveMetadata ==
  /\ removal = "local"
  /\ cred' = "none"
  /\ deleting' = FALSE
  /\ removal' = "idle"
  /\ crossed' = (crossed \/ AdmissionUnderWay)
  /\ UNCHANGED <<keria, notes, ops, queue, poller, user, worker, faults, declined, reopened, told>>

RemovalFails ==
  /\ removal # "idle"
  /\ Fault
  /\ removal' = "idle"
  /\ UNCHANGED <<keria, notes, credential, ops, queue, poller, user, worker, history>>

-----------------------------------------------------------------------------
(* The worker: processOperation of ExchangeReceiveCredential.              *)

WorkerGoes(step) == worker' = [worker EXCEPT !.at = step]

\* Mutant: the query for the offer's notification finds nothing.
TakeOperationWithoutNote(a) ==
  /\ worker.at = "idle"
  /\ a \in ops \intersect done
  /\ worker' = [WorkerIdle EXCEPT !.at = IF a \in errored THEN "finish" ELSE "clear", !.op = a]
  /\ UNCHANGED <<keria, notes, credential, ops, queue, poller, user, removal, faults, history>>

\* An operation done with an error is dropped without further ado.
TakeOperation(a) ==
  /\ worker.at = "idle"
  /\ a \in ops \intersect done
  /\ worker' = IF a \in errored
               THEN [WorkerIdle EXCEPT !.at = "finish", !.op = a]
               ELSE [WorkerIdle EXCEPT !.at = "clear", !.op = a,
                                       !.old = {submitted[a]} \intersect Present]
  /\ UNCHANGED <<keria, notes, credential, ops, queue, poller, user, removal, faults, history>>

ClearNote(n) ==
  /\ worker.at = "clear"
  /\ n \in worker.old
  /\ \/ /\ n \in Present
        /\ DeleteNote(n)
        /\ worker' = [worker EXCEPT !.old = @ \ {n}]
     \/ /\ n \notin Present
        /\ worker' = WorkerIdle
        /\ UNCHANGED <<marked, notes>>
  /\ UNCHANGED <<sent, tel, submitted, done, errored, arrived, available>>
  /\ UNCHANGED <<credential, ops, queue, poller, user, removal, faults, history>>

\* markAcdc(CONFIRMED) keeps a copy of the metadata; none to mark is no error.
ReadMetadata ==
  /\ worker.at = "clear"
  /\ worker.old = {}
  /\ worker' = IF cred = "none"
               THEN [worker EXCEPT !.at = "finish"]
               ELSE [worker EXCEPT !.at = "fetch", !.kept = deleting]
  /\ UNCHANGED <<keria, notes, credential, ops, queue, poller, user, removal, faults, history>>

\* Mutant: the operation is dropped when the credential is not there yet.
EnsureCredentialAvailableOnce ==
  /\ worker.at = "fetch"
  /\ worker' = [worker EXCEPT !.at = IF available THEN "write" ELSE "finish"]
  /\ UNCHANGED <<keria, notes, credential, ops, queue, poller, user, removal, faults, history>>

\* ensureCredentialAvailable; the operation stays when it is not.
EnsureCredentialAvailable ==
  /\ worker.at = "fetch"
  /\ worker' = IF available THEN [worker EXCEPT !.at = "write"] ELSE WorkerIdle
  /\ UNCHANGED <<keria, notes, credential, ops, queue, poller, user, removal, faults, history>>

\* The copy goes back, pendingDeletion included; a missing record is ignored.
MarkConfirmed ==
  /\ worker.at = "write"
  /\ cred' = IF cred = "none" THEN cred ELSE "confirmed"
  /\ deleting' = IF cred = "none" THEN deleting ELSE worker.kept
  /\ WorkerGoes("finish")
  /\ UNCHANGED <<keria, notes, ops, queue, poller, user, removal, faults, history>>

\* After the history item.
FinishOperation ==
  /\ worker.at = "finish"
  /\ ops' = ops \ {worker.op}
  /\ worker' = WorkerIdle
  /\ UNCHANGED <<keria, notes, credential, queue, poller, user, removal, faults, history>>

WorkerFails ==
  /\ worker.at # "idle"
  /\ Fault
  /\ worker' = WorkerIdle
  /\ \/ UNCHANGED <<marked, notes>>
     \/ \E n \in worker.old \intersect Present : MarkOnly(n)
  /\ UNCHANGED <<sent, tel, submitted, done, errored, arrived, available>>
  /\ UNCHANGED <<credential, ops, queue, poller, user, removal, history>>

-----------------------------------------------------------------------------
\* The application is killed and opened again: the processes lose their place.
Crash ==
  /\ Fault
  /\ poller' = PollerIdle
  /\ user' = UserIdle
  /\ worker' = WorkerIdle
  /\ removal' = "idle"
  /\ UNCHANGED <<keria, notes, credential, ops, queue, history>>

Init ==
  /\ sent = 0
  /\ tel = "iss"
  /\ marked = {}
  /\ submitted = <<>>
  /\ done = {}
  /\ errored = {}
  /\ arrived = {}
  /\ available = FALSE
  /\ notes = [n \in NoteIds |-> "none"]
  /\ cred = "none"
  /\ deleting = FALSE
  /\ ops = {}
  /\ acked = 0
  /\ owed = {}
  /\ poller = PollerIdle
  /\ user = UserIdle
  /\ worker = WorkerIdle
  /\ removal = "idle"
  /\ faults = 0
  /\ delivered = {}
  /\ declined = FALSE
  /\ reopened = {}
  /\ told = FALSE
  /\ crossed = FALSE

Poll ==
  \/ \E g \in Grants : Fetch(g) \/ Retry(g)
  \/ ReadCredential
  \/ ReadTel
  \/ ReadNotes
  \/ \E n \in NoteIds : PurgeNote(n)
  \/ PurgeDone
  \/ MarkRevoked
  \/ SaveNotice
  \/ MarkNotification
  \/ CreateNotificationRecord
  \/ Throw
  \/ Settle

Admit ==
  \/ SavePending
  \/ SubmitAdmit
  \/ RecordOperation
  \/ AcceptNote

Work ==
  \/ \E a \in 1..MaxAdmits : TakeOperation(a)
  \/ \E n \in NoteIds : ClearNote(n)
  \/ ReadMetadata
  \/ EnsureCredentialAvailable
  \/ MarkConfirmed
  \/ FinishOperation

Remove ==
  \/ RemoveCredentialsPendingDeletion
  \/ RemoveFromKeria
  \/ RemoveMetadata

Keria ==
  \/ SendGrant
  \/ Revoke
  \/ \E a \in 1..MaxAdmits : CompleteAdmit(a) \/ CredentialArrives(a)

Choices ==
  \/ \E g \in Grants : OpenOffer(g)
  \/ CloseOffer
  \/ AcceptOffer
  \/ \E n \in NoteIds : Dismiss(n)
  \/ DeleteCredential

Next ==
  \/ Keria
  \/ Choices
  \/ Poll
  \/ Admit
  \/ Work
  \/ Remove
  \/ PollerFails
  \/ Rewind
  \/ AdmitFails
  \/ RemovalFails
  \/ WorkerFails
  \/ Crash

\* Each process keeps running, the worker's loop passes by every operation, and
\* KERIA ends every admit.  Nothing says that the credential arrives.
Fairness ==
  /\ WF_vars(Poll)
  /\ WF_vars(Admit)
  /\ WF_vars(Work)
  /\ \A a \in 1..MaxAdmits : SF_vars(TakeOperation(a))
  /\ WF_vars(Remove)
  /\ \A a \in 1..MaxAdmits : WF_vars(CompleteAdmit(a))

Spec == Init /\ [][Next]_vars /\ Fairness

-----------------------------------------------------------------------------
Statuses == {"none", "pending", "confirmed", "revoked"}

TypeOK ==
  /\ sent \in 0..MaxGrants
  /\ tel \in {"iss", "rev"}
  /\ marked \subseteq 1..sent
  /\ submitted \in Seq(1..sent)
  /\ Len(submitted) <= MaxAdmits
  /\ done \subseteq Admits
  /\ errored \subseteq done
  /\ arrived \subseteq done
  /\ available \in BOOLEAN
  /\ notes \in [NoteIds -> {"none", "open", "accepted"}]
  /\ cred \in Statuses
  /\ deleting \in BOOLEAN
  /\ ops \subseteq Admits
  /\ acked \in 0..sent
  /\ owed \subseteq 1..sent
  /\ poller \in [at : {"idle", "credential", "tel", "notes", "purge", "revoke",
                       "notice", "mark", "create", "throw", "settle"},
                 grant : 0..sent, again : BOOLEAN, seen : Statuses,
                 tel : {"iss", "rev"}, old : SUBSET NoteIds]
  /\ user \in [at : {"idle", "offer", "save", "submit", "record", "accept"}, grant : 0..sent]
  /\ worker \in [at : {"idle", "clear", "fetch", "write", "finish"},
                 op : 0..Len(submitted), old : SUBSET NoteIds, kept : BOOLEAN]
  /\ removal \in {"idle", "keria", "local"}
  /\ faults \in 0..MaxFaults
  /\ delivered \subseteq 1..sent
  /\ declined \in BOOLEAN
  /\ reopened \subseteq delivered
  /\ told \in BOOLEAN
  /\ crossed \in BOOLEAN

\* A note hidden as accepted has an operation that will remove it, in whatever
\* order the user's last two writes and the worker's interleave or fail.
AcceptedHasOperation ==
  \A g \in Grants \ reopened :
    notes[g] = "accepted" =>
      \E a \in Admits : submitted[a] = g /\ a \in ops \union errored

\* Redelivered or repeated grants never put two offers of one credential, or
\* an offer next to the notice of its revocation, before the user.
OneNotePerCredential == Cardinality(Present) <= 1

CanStillBeAdmitted ==
  \/ \E g \in Grants : notes[g] = "open"
  \/ ops # {}
  \/ user.at \in {"submit", "record"}

PendingIsAnswered ==
  cred = "pending" => CanStillBeAdmitted \/ declined \/ crossed \/ errored # {}

\* A failure in the middle of an admission leaves the offer to be accepted
\* again, as long as the issuer has not revoked the credential: it is not left
\* pending with nothing to complete it, unless it was deleted meanwhile.
PendingHasAWayOutUntilRevoked == tel = "iss" => PendingIsAnswered

\* Once a grant of the revoked credential was processed, the wallet does not
\* show the credential as valid.
RevocationIsNotLost == told => cred # "confirmed"

\* A revocation never overtakes the admission, which would confirm the
\* credential afterwards: OUT_OF_ORDER_NOTIFICATION puts it off.  A worker
\* that fails after markAcdc repeats it, so this is said of runs without faults;
\* a grant handled on a stale copy offers the credential a second time, and a
\* deletion during an admission starts it anew, so neither is allowed here.
RevokedStaysRevokedWithoutFaults ==
  [][cred = "revoked" /\ faults = 0 /\ ~crossed => cred' \in {"revoked", "none"}]_vars

\* An accepted offer, hidden from the list, is deleted once its admit is done.
AcceptedOfferIsCleared ==
  \A g \in Grants :
    notes[g] = "accepted" ~> notes[g] # "accepted" \/ errored # {} \/ g \in reopened

\* A grant with an invalid ACDC may never yield its credential, which then stays
\* pending, as markAcdc says.  Assuming that the credential of every admit that
\* KERIA ended without an error does arrive, one whose admit was recorded does
\* not stay pending, unless an admit failed, or an offer of it is before the
\* user again or was declined.
PendingIsSettledIfCredentialsArrive ==
  (\A a \in 1..MaxAdmits : WF_vars(CredentialArrives(a))) =>
    (cred = "pending" /\ ops # {}
       ~> \/ cred # "pending"
          \/ errored # {} \/ declined \/ crossed
          \/ \E g \in Grants : notes[g] = "open")

\* A grant put off because the TEL still said iss revokes the credential when
\* it is retried.
OwedRevocationIsApplied ==
  cred = "confirmed" /\ tel = "rev" /\ owed # {} /\ poller.at = "idle"
    ~> cred # "confirmed"

\* The grants reach the poller under the contract its loop implements.
Delivery == INSTANCE NotificationDelivery WITH
  Notes        <- Grants,
  published    <- 1..sent,
  withdrawn    <- {},
  acknowledged <- 1..acked

DeliveredAtLeastOnce == Delivery!Spec
=============================================================================
