---------------------- MODULE CredentialExchange_proofs ----------------------
(***************************************************************************)
(* Proofs about CredentialExchange, for every number of grants, admits and *)
(* faults.                                                                 *)
(*                                                                         *)
(* The argument: the notifications about the credential are at most one,   *)
(* for the poller looks before it creates one, and nobody else creates any *)
(* (PollerKnows).  A notification that was answered keeps an operation or  *)
(* an error until the worker has deleted it (WorkerKnows, UserKnows), and a*)
(* pending credential has a way out as long as no revocation, refusal or   *)
(* deletion has come in between (PendingIsOpen).                           *)
(* A revocation is final in the runs without faults (CalmInv): there a     *)
(* grant is delivered once, an offer is of a credential that is not there, *)
(* and what the poller saw of the credential holds until it acts on it.    *)
(***************************************************************************)
EXTENDS CredentialExchange, SequenceTheorems, FiniteSetTheorems, TLAPS

\* A process that is under way has its subject.
SubjectsExist ==
  /\ poller.at # "idle" => poller.grant \in 1..sent
  /\ user.at # "idle" => user.grant \in delivered
  /\ worker.at # "idle" => worker.op \in ops \intersect done
  /\ \A n \in Present : n = Notice \/ n \in delivered
  /\ notes[Notice] # "accepted"
  /\ \A a \in Admits : submitted[a] \in delivered
  /\ user.at \in {"record", "accept"} =>
       submitted # <<>> /\ submitted[Len(submitted)] = user.grant
  /\ user.at = "record" => Len(submitted) \notin ops
  /\ user.at \in {"save", "submit"} => Len(submitted) < MaxAdmits

\* There is at most one notification.
OneNote == \A m, n \in Present : m = n

\* What the poller knows of the TEL and of the notifications.
PollerKnows ==
  /\ poller.tel = "rev" => tel = "rev"
  /\ poller.at \in {"purge", "revoke", "notice", "mark"} => poller.tel = "rev"
  /\ poller.at = "purge" => Present \subseteq poller.old
  /\ poller.at \in {"revoke", "notice", "create"} => Present = {}

\* What lies behind the marker was delivered or is owed, and so is the grant
\* that is settled.
PollerDelivers ==
  /\ 1..acked \subseteq delivered \union owed
  /\ poller.at # "idle" =>
       IF poller.again THEN poller.grant \in owed ELSE poller.grant = acked + 1
  /\ poller.at = "settle" =>
       poller.grant \in delivered \union (IF poller.again THEN {} ELSE owed)

Answered(g) == \E a \in Admits : submitted[a] = g /\ a \in ops \union errored

\* The operation of an offer is there before the offer is hidden.
UserKnows ==
  user.at = "accept" /\ user.grant \notin reopened /\ user.grant \in Present =>
    Answered(user.grant)

\* The worker deletes the offer before anything else.
WorkerKnows ==
  /\ worker.at # "idle" /\ worker.op \notin errored /\ submitted[worker.op] \in Present =>
       \/ submitted[worker.op] \in reopened
       \/ worker.at = "clear" /\ submitted[worker.op] \in worker.old
  /\ worker.at \in {"clear", "fetch", "write"} => worker.op \notin errored

AnOfferIsOpen == \E g \in Grants : notes[g] = "open"

\* Nothing has come between the user and the credential.
Undisturbed == tel = "iss" /\ ~declined /\ ~crossed /\ errored = {}

\* While the credential is admitted, there is an operation or an offer left,
\* and its record is not deleted.
PendingIsOpen ==
  Undisturbed =>
    /\ cred = "pending" /\ user.at \in {"idle", "offer", "accept"} /\ ops = {} =>
         user.at # "accept" /\ AnOfferIsOpen
    /\ user.at = "save" =>
         AnOfferIsOpen \/ ops # {} \/ cred \in {"confirmed", "revoked"}
    /\ user.at \in {"submit", "record"} =>
         AnOfferIsOpen \/ ops # {} \/ cred # "pending"
    /\ AdmissionUnderWay => cred # "none" \/ (ops = {} /\ user.at = "save")
    /\ worker.at = "finish" => cred \in {"confirmed", "revoked"}

IInv ==
  /\ TypeOK
  /\ SubjectsExist
  /\ OneNote
  /\ PollerKnows
  /\ PollerDelivers
  /\ UserKnows
  /\ WorkerKnows
  /\ AcceptedHasOperation
  /\ PendingIsOpen

-----------------------------------------------------------------------------
(* Which actions write what.                                               *)

\* What KERIA and the issuer write.
LEMMA KeriaWrites ==
  ASSUME Keria
  PROVE  /\ UNCHANGED sent \/ SendGrant
         /\ UNCHANGED tel \/ Revoke
         /\ UNCHANGED <<done, errored, faults>> \/ \E a \in 1..MaxAdmits : CompleteAdmit(a)
         /\ UNCHANGED <<arrived, available>> \/ \E a \in 1..MaxAdmits : CredentialArrives(a)
         /\ UNCHANGED <<marked, submitted, notes, cred, deleting, ops, acked, owed, delivered>>
         /\ UNCHANGED <<poller, user, worker, removal, declined, reopened, told, crossed>>
BY DEF Keria, SendGrant, Revoke, CompleteAdmit, CredentialArrives, credential, queue, history

\* What the user's choices write.
LEMMA ChoicesWrite ==
  ASSUME Choices
  PROVE  /\ UNCHANGED <<sent, tel, submitted, done, errored, arrived, available>>
         /\ UNCHANGED <<ops, acked, owed, delivered, poller, worker, cred, reopened, told, crossed>>
         /\ UNCHANGED <<deleting, removal>> \/ DeleteCredential
         /\ UNCHANGED <<notes, marked, faults, declined>> \/ \E n \in NoteIds : Dismiss(n)
         /\ UNCHANGED user \/ CloseOffer \/ AcceptOffer \/ \E g \in Grants : OpenOffer(g)
BY DEF Choices, OpenOffer, CloseOffer, AcceptOffer, Dismiss, DeleteCredential, keria, credential,
   queue, history

\* What the poller writes.
LEMMA PollWrites ==
  ASSUME Poll
  PROVE  /\ UNCHANGED <<sent, tel, submitted, done, errored, arrived, available, faults>>
         /\ UNCHANGED <<deleting, ops, user, worker, removal, declined>>
         /\ UNCHANGED cred \/ MarkRevoked
         /\ \/ UNCHANGED notes
            \/ SaveNotice \/ CreateNotificationRecord \/ \E n \in NoteIds : PurgeNote(n)
         /\ UNCHANGED marked \/ MarkNotification \/ \E n \in NoteIds : PurgeNote(n)
         /\ \/ UNCHANGED delivered
            \/ MarkNotification \/ CreateNotificationRecord \/ \E g \in Grants : Fetch(g)
         /\ UNCHANGED <<reopened, crossed>> \/ CreateNotificationRecord
         /\ UNCHANGED told \/ MarkNotification \/ CreateNotificationRecord
         /\ UNCHANGED <<acked, owed>> \/ Throw \/ Settle
<1>1. CASE \E g \in Grants : Fetch(g) \/ Retry(g)
  BY <1>1 DEF Fetch, Retry, keria, credential, queue, history
<1>2. CASE ReadCredential \/ ReadTel \/ ReadNotes \/ PurgeDone
  BY <1>2 DEF ReadCredential, ReadTel, ReadNotes, PurgeDone, keria, credential, queue, history
<1>3. CASE \E n \in NoteIds : PurgeNote(n)
  BY <1>3 DEF PurgeNote, keria, credential, queue, history
<1>4. CASE MarkRevoked \/ SaveNotice
  BY <1>4 DEF MarkRevoked, SaveNotice, keria, credential, queue, history
<1>5. CASE MarkNotification \/ CreateNotificationRecord
  BY <1>5 DEF MarkNotification, CreateNotificationRecord, keria, credential, queue, history
<1>6. CASE Throw \/ Settle
  BY <1>6 DEF Throw, Settle, keria, credential, queue, history
<1>7. QED BY <1>1, <1>2, <1>3, <1>4, <1>5, <1>6 DEF Poll

\* What the user's admission writes.
LEMMA AdmitWrites ==
  ASSUME Admit
  PROVE  /\ UNCHANGED <<sent, tel, marked, done, errored, arrived, available, faults>>
         /\ UNCHANGED <<deleting, acked, owed, delivered, poller, worker, removal>>
         /\ UNCHANGED <<declined, reopened, told, crossed>>
         /\ UNCHANGED submitted \/ SubmitAdmit
         /\ UNCHANGED notes \/ AcceptNote
         /\ UNCHANGED cred \/ SavePending
         /\ UNCHANGED ops \/ RecordOperation
BY DEF Admit, SavePending, SubmitAdmit, RecordOperation, AcceptNote, keria, credential, queue,
   history

\* What the worker writes.
LEMMA WorkWrites ==
  ASSUME Work
  PROVE  /\ UNCHANGED <<sent, tel, submitted, done, errored, arrived, available, faults>>
         /\ UNCHANGED <<acked, owed, delivered, poller, user, removal>>
         /\ UNCHANGED <<declined, reopened, told, crossed>>
         /\ UNCHANGED <<notes, marked>> \/ \E n \in NoteIds : ClearNote(n)
         /\ UNCHANGED <<cred, deleting>> \/ MarkConfirmed
         /\ UNCHANGED ops \/ FinishOperation
<1>1. CASE \E a \in 1..MaxAdmits : TakeOperation(a)
  BY <1>1 DEF TakeOperation, keria, credential, queue, history
<1>2. CASE \E n \in NoteIds : ClearNote(n)
  BY <1>2 DEF ClearNote, keria, credential, queue, history
<1>3. CASE ReadMetadata \/ EnsureCredentialAvailable
  BY <1>3 DEF ReadMetadata, EnsureCredentialAvailable, keria, credential, queue, history
<1>4. CASE MarkConfirmed \/ FinishOperation
  BY <1>4 DEF MarkConfirmed, FinishOperation, keria, credential, queue, history
<1>5. QED BY <1>1, <1>2, <1>3, <1>4 DEF Work

\* What the removal writes.
LEMMA RemoveWrites ==
  ASSUME Remove
  PROVE  /\ UNCHANGED <<sent, tel, marked, submitted, done, errored, arrived, faults>>
         /\ UNCHANGED <<notes, ops, acked, owed, delivered, poller, user, worker>>
         /\ UNCHANGED <<declined, reopened, told>>
         /\ UNCHANGED available \/ RemoveFromKeria
         /\ UNCHANGED <<cred, deleting, crossed>> \/ RemoveMetadata
BY DEF Remove, RemoveCredentialsPendingDeletion, RemoveFromKeria, RemoveMetadata, keria,
   credential, queue, history

\* A failure, a rewind or a crash.
Fails == PollerFails \/ Rewind \/ AdmitFails \/ RemovalFails \/ WorkerFails \/ Crash

\* What failures write.
LEMMA FailsWrite ==
  ASSUME Fails
  PROVE  /\ UNCHANGED <<sent, tel, submitted, done, errored, arrived, available>>
         /\ UNCHANGED <<notes, cred, deleting, ops, owed, delivered>>
         /\ UNCHANGED <<declined, reopened, told, crossed>>
         /\ UNCHANGED marked \/ PollerFails \/ WorkerFails
         /\ UNCHANGED acked \/ Rewind
         /\ Fault
         /\ UNCHANGED poller \/ PollerFails \/ Crash
         /\ UNCHANGED user \/ AdmitFails \/ Crash
         /\ UNCHANGED worker \/ WorkerFails \/ Crash
         /\ UNCHANGED removal \/ RemovalFails \/ Crash
BY DEF Fails, PollerFails, Rewind, AdmitFails, RemovalFails, WorkerFails, Crash, MarkOnly, keria,
   credential, queue, history

\* Every step is one of these.
LEMMA NextCases ==
  ASSUME [Next]_vars
  PROVE  \/ UNCHANGED vars
         \/ Keria \/ Choices \/ Poll \/ Admit \/ Work \/ Remove \/ Fails
BY DEF Next, Fails

\* Which actions write each of the variables that the invariant is about.
LEMMA Writers ==
  ASSUME [Next]_vars
  PROVE  /\ UNCHANGED sent \/ SendGrant
         /\ UNCHANGED tel \/ Revoke
         /\ UNCHANGED submitted \/ SubmitAdmit
         /\ UNCHANGED <<done, errored>> \/ \E a \in 1..MaxAdmits : CompleteAdmit(a)
         /\ UNCHANGED ops \/ RecordOperation \/ FinishOperation
         /\ UNCHANGED cred \/ MarkRevoked \/ SavePending \/ RemoveMetadata \/ MarkConfirmed
         /\ \/ UNCHANGED notes \/ SaveNotice \/ CreateNotificationRecord \/ AcceptNote
            \/ \E n \in NoteIds : PurgeNote(n) \/ Dismiss(n) \/ ClearNote(n)
         /\ \/ UNCHANGED delivered \/ MarkNotification \/ CreateNotificationRecord
            \/ \E g \in Grants : Fetch(g)
         /\ UNCHANGED reopened \/ CreateNotificationRecord
         /\ UNCHANGED <<acked, owed>> \/ Throw \/ Settle \/ Rewind
         /\ UNCHANGED poller \/ Poll \/ PollerFails \/ Crash
         /\ \/ UNCHANGED user \/ Admit \/ CloseOffer \/ AcceptOffer \/ AdmitFails \/ Crash
            \/ \E g \in Grants : OpenOffer(g)
         /\ UNCHANGED worker \/ Work \/ WorkerFails \/ Crash
         /\ UNCHANGED declined \/ \E n \in NoteIds : Dismiss(n)
         /\ UNCHANGED crossed \/ CreateNotificationRecord \/ RemoveMetadata
<1>1. CASE UNCHANGED vars
  BY <1>1 DEF vars, keria, credential, queue, history
<1>2. CASE Keria
  BY <1>2, KeriaWrites
<1>3. CASE Choices
  BY <1>3, ChoicesWrite
<1>4. CASE Poll
  BY <1>4, PollWrites
<1>5. CASE Admit
  BY <1>5, AdmitWrites
<1>6. CASE Work
  BY <1>6, WorkWrites
<1>7. CASE Remove
  BY <1>7, RemoveWrites
<1>8. CASE Fails
  BY <1>8, FailsWrite
<1>9. QED BY <1>1, <1>2, <1>3, <1>4, <1>5, <1>6, <1>7, <1>8, NextCases

-----------------------------------------------------------------------------
(* What each variable can become.                                          *)

\* A note is deleted, accepted or created, one at a time.
LEMMA NotesStep ==
  ASSUME TypeOK, [Next]_vars
  PROVE  \/ notes' = notes
         \/ \E n \in Present :
              /\ notes' = [notes EXCEPT ![n] = "none"]
              /\ PurgeNote(n) \/ Dismiss(n) \/ ClearNote(n)
         \/ /\ AcceptNote /\ user.grant \in Present
            /\ notes' = [notes EXCEPT ![user.grant] = "accepted"]
         \/ SaveNotice /\ notes' = [notes EXCEPT ![Notice] = "open"]
         \/ /\ CreateNotificationRecord /\ poller.grant \notin Present
            /\ notes' = [notes EXCEPT ![poller.grant] = "open"]
<1>1. ASSUME NEW n \in NoteIds, PurgeNote(n) \/ ClearNote(n)
      PROVE  \/ notes' = notes
             \/ n \in Present /\ notes' = [notes EXCEPT ![n] = "none"]
  BY <1>1 DEF PurgeNote, ClearNote, DeleteNote
<1>2. ASSUME NEW n \in NoteIds, Dismiss(n)
      PROVE  \/ notes' = notes
             \/ n \in Present /\ notes' = [notes EXCEPT ![n] = "none"]
  BY <1>2 DEF Dismiss, DeleteNote, MarkOnly, Present
<1>3. ASSUME AcceptNote
      PROVE  \/ notes' = notes
             \/ /\ user.grant \in Present
                /\ notes' = [notes EXCEPT ![user.grant] = "accepted"]
  BY <1>3 DEF AcceptNote
<1>4. SaveNotice => notes' = [notes EXCEPT ![Notice] = "open"]
  BY DEF SaveNotice
<1>5. ASSUME CreateNotificationRecord
      PROVE  \/ notes' = notes
             \/ /\ poller.grant \notin Present
                /\ notes' = [notes EXCEPT ![poller.grant] = "open"]
  BY <1>5 DEF CreateNotificationRecord
<1>6. QED BY <1>1, <1>2, <1>3, <1>4, <1>5, Writers

\* The grants of the model, and the notice, which is none of them.
LEMMA NoteIdsFact == Notice \in NoteIds /\ Notice \notin Grants /\ Grants \subseteq NoteIds
BY DEF Notice, NoteIds, Grants

\* What submitting an admit does to the sequence of them.
LEMMA AdmitAppends ==
  ASSUME TypeOK, SubjectsExist, SubmitAdmit
  PROVE  /\ Len(submitted) \in Nat /\ submitted' \in Seq(1..sent)
         /\ Len(submitted') = Len(submitted) + 1
         /\ \A i \in 1..Len(submitted) : submitted'[i] = submitted[i]
         /\ submitted'[Len(submitted) + 1] = user.grant
         /\ submitted' # <<>> /\ submitted' # submitted
<1>1. /\ submitted' = Append(submitted, user.grant) /\ submitted \in Seq(1..sent)
      /\ user.grant \in 1..sent
  BY DEF SubmitAdmit, SubjectsExist, TypeOK
<1>2. Len(submitted) \in Nat
  BY <1>1, LenProperties
<1>3. /\ submitted' \in Seq(1..sent) /\ Len(submitted') = Len(submitted) + 1
      /\ \A i \in 1..Len(submitted) : submitted'[i] = submitted[i]
      /\ submitted'[Len(submitted) + 1] = user.grant
  BY <1>1, AppendProperties
<1>4. submitted' # <<>> /\ submitted' # submitted
  BY <1>2, <1>3, EmptySeq
<1>5. QED BY <1>2, <1>3, <1>4

\* A submitted admit is added at the end.
LEMMA SubmittedStep ==
  ASSUME TypeOK, SubjectsExist, [Next]_vars
  PROVE  /\ Admits \subseteq Admits' /\ Len(submitted) \in Nat
         /\ \A a \in Admits : submitted'[a] = submitted[a]
         /\ \/ submitted' = submitted
            \/ /\ SubmitAdmit /\ Len(submitted') = Len(submitted) + 1
               /\ submitted'[Len(submitted')] = user.grant
               /\ Admits' = Admits \union {Len(submitted')}
               /\ submitted' \in Seq(1..sent) /\ submitted' # <<>>
<1>1. submitted \in Seq(1..sent) /\ Len(submitted) \in Nat
  BY LenProperties DEF TypeOK
<1>2. CASE submitted' = submitted
  BY <1>1, <1>2 DEF Admits
<1>3. CASE SubmitAdmit
  <2>1. Admits' = Admits \union {Len(submitted')}
    BY <1>1, <1>3, AdmitAppends DEF Admits
  <2>2. QED BY <1>1, <1>3, <2>1, AdmitAppends DEF Admits
<1>4. QED BY <1>2, <1>3, Writers

\* What only grows.
LEMMA Monotone ==
  ASSUME TypeOK, SubjectsExist, [Next]_vars
  PROVE  /\ sent \in Nat /\ sent' \in Nat /\ sent <= sent' /\ 1..sent \subseteq 1..sent'
         /\ delivered \subseteq delivered' /\ reopened \subseteq reopened'
         /\ done \subseteq done' /\ errored \subseteq errored'
         /\ errored' \intersect done = errored
         /\ tel = "rev" => tel' = "rev"
         /\ declined => declined'
         /\ crossed => crossed'
<1>1. sent \in Nat
  BY MaxGrantsAssumption DEF TypeOK
<1>2. sent' = sent \/ sent' = sent + 1
  BY Writers DEF SendGrant
<1>3. sent' \in Nat /\ sent <= sent' /\ 1..sent \subseteq 1..sent'
  BY <1>1, <1>2
<1>4. delivered \subseteq delivered' /\ reopened \subseteq reopened'
  BY Writers DEF MarkNotification, CreateNotificationRecord, Fetch
<1>5. done \subseteq done' /\ errored \subseteq errored' /\ errored' \intersect done = errored
  BY Writers DEF CompleteAdmit, TypeOK
<1>6. tel = "rev" => tel' = "rev"
  BY Writers DEF Revoke
<1>7. declined => declined'
  BY Writers DEF Dismiss
<1>8. crossed => crossed'
  BY Writers DEF CreateNotificationRecord, RemoveMetadata
<1>9. QED BY <1>1, <1>3, <1>4, <1>5, <1>6, <1>7, <1>8

-----------------------------------------------------------------------------
(* The types.                                                              *)

\* Faults stay within their bound.
LEMMA FaultTypes ==
  ASSUME TypeOK, [Next]_vars
  PROVE  faults' \in 0..MaxFaults
<1>1. faults \in 0..MaxFaults /\ MaxFaults \in Nat
  BY MaxFaultsAssumption DEF TypeOK
<1>2. Fault => faults' \in 0..MaxFaults
  BY <1>1 DEF Fault
<1>3. CASE UNCHANGED vars
  BY <1>1, <1>3 DEF vars
<1>4. CASE Keria
  <2>1. \A a \in 1..MaxAdmits : CompleteAdmit(a) => UNCHANGED faults \/ Fault
    BY DEF CompleteAdmit
  <2>2. QED BY <1>1, <1>2, <1>4, <2>1, KeriaWrites
<1>5. CASE Choices
  <2>1. \A n \in NoteIds : Dismiss(n) => UNCHANGED faults \/ Fault
    BY DEF Dismiss
  <2>2. QED BY <1>1, <1>2, <1>5, <2>1, ChoicesWrite
<1>6. CASE Poll \/ Admit \/ Work \/ Remove
  BY <1>1, <1>6, PollWrites, AdmitWrites, WorkWrites, RemoveWrites
<1>7. CASE Fails
  BY <1>2, <1>7, FailsWrite
<1>8. QED BY <1>3, <1>4, <1>5, <1>6, <1>7, NextCases

\* Every step keeps the types of what KERIA holds.
LEMMA KeriaTypes ==
  ASSUME TypeOK, SubjectsExist, [Next]_vars
  PROVE  /\ sent' \in 0..MaxGrants /\ tel' \in {"iss", "rev"}
         /\ submitted' \in Seq(1..sent') /\ Len(submitted') <= MaxAdmits
         /\ done' \subseteq Admits' /\ errored' \subseteq done'
<1>1. sent' \in 0..MaxGrants
  <2>1. sent \in 0..MaxGrants /\ MaxGrants \in Nat
    BY MaxGrantsAssumption DEF TypeOK
  <2>2. sent' = sent \/ (sent < MaxGrants /\ sent' = sent + 1)
    BY Writers DEF SendGrant
  <2>3. QED BY <2>1, <2>2
<1>2. tel' \in {"iss", "rev"}
  BY Writers DEF Revoke, TypeOK
<1>3. submitted' \in Seq(1..sent') /\ Len(submitted') <= MaxAdmits
  <2>1. CASE submitted' = submitted
    <3>1. submitted \in Seq(1..sent)
      BY DEF TypeOK
    <3>2. QED BY <2>1, <3>1, Monotone, SeqMonotonic DEF TypeOK
  <2>2. CASE SubmitAdmit
    <3>1. sent' = sent
      BY <2>2 DEF SubmitAdmit
    <3>2. Len(submitted) < MaxAdmits /\ Len(submitted) \in Nat
      BY <2>2, LenProperties DEF SubmitAdmit, SubjectsExist, TypeOK
    <3>3. CASE submitted' = submitted
      BY <3>1, <3>3 DEF TypeOK
    <3>4. CASE submitted' \in Seq(1..sent) /\ Len(submitted') = Len(submitted) + 1
      BY <3>1, <3>2, <3>4, MaxAdmitsAssumption
    <3>5. QED BY <3>3, <3>4, SubmittedStep
  <2>3. QED BY <2>1, <2>2, SubmittedStep
<1>4. done' \subseteq Admits' /\ errored' \subseteq done'
  <2>1. CASE UNCHANGED <<done, errored>>
    BY <2>1, SubmittedStep DEF TypeOK
  <2>2. ASSUME NEW a \in 1..MaxAdmits, CompleteAdmit(a)
        PROVE  done' \subseteq Admits' /\ errored' \subseteq done'
    BY <2>2, SubmittedStep DEF CompleteAdmit, TypeOK
  <2>3. QED BY <2>1, <2>2, Writers
<1>5. QED BY <1>1, <1>2, <1>3, <1>4

\* Every step keeps the types of the parsed credentials and of the marks.
LEMMA MarkTypes ==
  ASSUME TypeOK, SubjectsExist, [Next]_vars
  PROVE  marked' \subseteq 1..sent' /\ arrived' \subseteq done' /\ available' \in BOOLEAN
<1>1. ASSUME NEW n \in Present, DeleteNote(n) \/ MarkOnly(n)
      PROVE  marked' \subseteq 1..sent
  BY <1>1 DEF DeleteNote, MarkOnly, SubjectsExist, TypeOK
<1>2. marked \subseteq 1..sent /\ arrived \subseteq done /\ available \in BOOLEAN
  BY DEF TypeOK
<1>3. /\ marked' \subseteq 1..sent \/ UNCHANGED marked
      /\ (\E a \in 1..MaxAdmits : CredentialArrives(a)) \/ UNCHANGED arrived
      /\ available' \in BOOLEAN
  <2>1. CASE UNCHANGED vars
    BY <1>2, <2>1 DEF vars, keria
  <2>2. CASE Keria
    BY <1>2, <2>2, KeriaWrites DEF CredentialArrives
  <2>3. CASE Choices
    <3>1. \A n \in NoteIds : Dismiss(n) => n \in Present /\ (DeleteNote(n) \/ MarkOnly(n))
      BY DEF Dismiss, Present
    <3>2. QED BY <1>1, <1>2, <2>3, <3>1, ChoicesWrite
  <2>4. CASE Poll
    <3>1. \A n \in NoteIds : PurgeNote(n) => UNCHANGED marked \/ (n \in Present /\ DeleteNote(n))
      BY DEF PurgeNote
    <3>2. MarkNotification => marked' \subseteq 1..sent
      BY <1>2 DEF MarkNotification, SubjectsExist
    <3>3. QED BY <1>1, <1>2, <2>4, <3>1, <3>2, PollWrites
  <2>5. CASE Admit
    BY <1>2, <2>5, AdmitWrites
  <2>6. CASE Work
    <3>1. \A n \in NoteIds : ClearNote(n) => UNCHANGED marked \/ (n \in Present /\ DeleteNote(n))
      BY DEF ClearNote
    <3>2. QED BY <1>1, <1>2, <2>6, <3>1, WorkWrites
  <2>7. CASE Remove
    BY <1>2, <2>7, RemoveWrites DEF RemoveFromKeria
  <2>8. CASE Fails
    <3>1. PollerFails => UNCHANGED marked \/ \E n \in Present : MarkOnly(n)
      BY DEF PollerFails
    <3>2. WorkerFails => UNCHANGED marked \/ \E n \in Present : MarkOnly(n)
      BY DEF WorkerFails
    <3>3. QED BY <1>1, <1>2, <2>8, <3>1, <3>2, FailsWrite
  <2>9. QED BY <2>1, <2>2, <2>3, <2>4, <2>5, <2>6, <2>7, <2>8, NextCases
<1>4. arrived' \subseteq done'
  BY <1>2, <1>3, Monotone DEF CredentialArrives
<1>5. QED BY <1>2, <1>3, <1>4, Monotone

\* Every step keeps the types of the records in storage.
LEMMA StorageTypes ==
  ASSUME TypeOK, SubjectsExist, [Next]_vars
  PROVE  /\ notes' \in [NoteIds -> {"none", "open", "accepted"}]
         /\ cred' \in Statuses /\ deleting' \in BOOLEAN /\ ops' \subseteq Admits'
<1>1. notes' \in [NoteIds -> {"none", "open", "accepted"}]
  BY NotesStep, NoteIdsFact DEF TypeOK
<1>2. cred' \in Statuses
  BY Writers DEF MarkRevoked, SavePending, RemoveMetadata, MarkConfirmed, TypeOK, Statuses
<1>3. deleting' \in BOOLEAN
  <2>1. deleting \in BOOLEAN
    BY DEF TypeOK
  <2>2. CASE UNCHANGED vars
    BY <2>1, <2>2 DEF vars, credential
  <2>3. DeleteCredential => deleting' \in BOOLEAN
    BY DEF DeleteCredential
  <2>4. MarkConfirmed => deleting' \in BOOLEAN
    BY DEF MarkConfirmed, TypeOK
  <2>5. RemoveMetadata => deleting' \in BOOLEAN
    BY DEF RemoveMetadata
  <2>6. QED
    BY <2>1, <2>2, <2>3, <2>4, <2>5, NextCases, KeriaWrites, ChoicesWrite, PollWrites,
       AdmitWrites, WorkWrites, RemoveWrites, FailsWrite
<1>4. ops' \subseteq Admits'
  <2>1. RecordOperation => Len(submitted) \in Admits
    <3>1. submitted \in Seq(1..sent)
      BY DEF TypeOK
    <3>2. RecordOperation => submitted # <<>>
      BY DEF RecordOperation, SubjectsExist
    <3>3. submitted # <<>> => Len(submitted) \in Nat \ {0}
      BY <3>1, EmptySeq
    <3>4. QED BY <3>2, <3>3 DEF Admits
  <2>2. ops \subseteq Admits /\ Admits \subseteq Admits'
    BY SubmittedStep DEF TypeOK
  <2>3. RecordOperation => ops' \subseteq Admits'
    BY <2>1, <2>2 DEF RecordOperation
  <2>4. FinishOperation => ops' \subseteq Admits'
    BY <2>2 DEF FinishOperation
  <2>5. QED BY <2>2, <2>3, <2>4, Writers
<1>5. QED BY <1>1, <1>2, <1>3, <1>4

\* Every step keeps the types of the marker and of the histories.
LEMMA MarkerTypes ==
  ASSUME TypeOK, SubjectsExist, [Next]_vars
  PROVE  /\ acked' \in 0..sent' /\ owed' \subseteq 1..sent' /\ delivered' \subseteq 1..sent'
         /\ reopened' \subseteq delivered'
<1>1. sent \in Nat /\ sent' \in Nat /\ sent <= sent' /\ 1..sent \subseteq 1..sent'
  BY Monotone
<1>2. /\ acked \in 0..sent /\ owed \subseteq 1..sent /\ delivered \subseteq 1..sent
      /\ reopened \subseteq delivered
      /\ poller.at # "idle" => poller.grant \in 1..sent
  BY DEF TypeOK, SubjectsExist
<1>3. acked' \in 0..sent /\ owed' \subseteq 1..sent
  <2>1. Throw \/ Settle \/ Rewind => acked' \in 0..sent /\ owed' \subseteq 1..sent
    BY <1>1, <1>2 DEF Throw, Settle, Rewind, keria
  <2>2. QED BY <1>2, <2>1, Writers
<1>4. delivered' \subseteq 1..sent
  <2>1. \A g \in Grants : Fetch(g) => g \in 1..sent /\ delivered' \subseteq delivered \union {g}
    BY <1>1, <1>2 DEF Fetch, Grants
  <2>2. QED BY <1>2, <2>1, Writers DEF MarkNotification, CreateNotificationRecord
<1>5. reopened' \subseteq delivered'
  BY <1>2, Writers, Monotone DEF CreateNotificationRecord
<1>6. QED BY <1>1, <1>3, <1>4, <1>5

\* Every step keeps the flags of the history flags.
LEMMA FlagTypes ==
  ASSUME TypeOK, [Next]_vars
  PROVE  declined' \in BOOLEAN /\ told' \in BOOLEAN /\ crossed' \in BOOLEAN
<1>1. declined \in BOOLEAN /\ told \in BOOLEAN /\ crossed \in BOOLEAN
  BY DEF TypeOK
<1>2. \A n \in NoteIds : Dismiss(n) => declined' \in BOOLEAN
  BY <1>1 DEF Dismiss
<1>3. CreateNotificationRecord \/ MarkNotification => told' \in BOOLEAN
  BY <1>1 DEF CreateNotificationRecord, MarkNotification
<1>4. CreateNotificationRecord \/ RemoveMetadata => crossed' \in BOOLEAN
  BY <1>1 DEF CreateNotificationRecord, RemoveMetadata
<1>5. UNCHANGED vars => UNCHANGED told
  BY DEF vars, history
<1>6. told' \in BOOLEAN
  BY <1>1, <1>3, <1>5, NextCases, KeriaWrites, ChoicesWrite, PollWrites, AdmitWrites, WorkWrites,
     RemoveWrites, FailsWrite
<1>7. QED BY <1>1, <1>2, <1>4, <1>6, Writers

\* The fields of the poller when it goes to its next step.
LEMMA PollerGoing ==
  ASSUME TypeOK, NEW step, PollerGoes(step)
  PROVE  /\ poller'.at = step /\ poller'.grant = poller.grant /\ poller'.again = poller.again
         /\ poller'.seen = poller.seen /\ poller'.tel = poller.tel /\ poller'.old = poller.old
         /\ poller' = [at |-> step, grant |-> poller.grant, again |-> poller.again,
                       seen |-> poller.seen, tel |-> poller.tel, old |-> poller.old]
BY DEF TypeOK, PollerGoes

PollerAts == {"idle", "credential", "tel", "notes", "purge", "revoke",
              "notice", "mark", "create", "throw", "settle"}

PollerRecords ==
  [at : PollerAts, grant : 0..sent, again : BOOLEAN, seen : Statuses,
   tel : {"iss", "rev"}, old : SUBSET NoteIds]

\* Every step keeps the types of the poller's fields.
LEMMA PollerTypes ==
  ASSUME TypeOK, SubjectsExist, [Next]_vars
  PROVE  poller' \in PollerRecords'
<1>1. 0..sent \subseteq 0..sent' /\ sent \in Nat
  <2>1. sent \in Nat /\ sent' \in Nat /\ sent <= sent'
    BY Monotone
  <2>2. QED BY <2>1
<1>2. SUFFICES poller' \in PollerRecords
  BY <1>1 DEF PollerRecords
<1>3. poller \in PollerRecords
  BY DEF TypeOK, PollerRecords, PollerAts
<1>4. PollerIdle \in PollerRecords
  BY <1>1 DEF PollerIdle, PollerRecords, PollerAts, Statuses
<1>5. ASSUME NEW step \in PollerAts, PollerGoes(step)
      PROVE  poller' \in PollerRecords
  BY <1>3, <1>5, PollerGoing DEF PollerRecords
<1>6. ASSUME NEW g \in Grants, Fetch(g)
      PROVE  poller' \in PollerRecords
  <2>1. g \in 0..sent
    BY <1>1, <1>6 DEF Fetch, Grants
  <2>2. \/ poller' = [PollerIdle EXCEPT !.at = "settle", !.grant = g]
        \/ poller' = [PollerIdle EXCEPT !.at = "credential", !.grant = g]
    BY <1>6 DEF Fetch
  <2>3. QED BY <2>1, <2>2 DEF PollerIdle, PollerRecords, PollerAts, Statuses
<1>7. ASSUME NEW g \in Grants, Retry(g)
      PROVE  poller' \in PollerRecords
  <2>1. g \in 0..sent
    BY <1>1, <1>7 DEF Retry, TypeOK
  <2>2. poller' = [PollerIdle EXCEPT !.at = "credential", !.grant = g, !.again = TRUE]
    BY <1>7 DEF Retry
  <2>3. QED BY <2>1, <2>2 DEF PollerIdle, PollerRecords, PollerAts, Statuses
<1>8. ASSUME ReadCredential
      PROVE  poller' \in PollerRecords
  <2>1. poller' = [poller EXCEPT !.at = "tel", !.seen = cred] /\ cred \in Statuses
    BY <1>8 DEF ReadCredential, TypeOK
  <2>2. QED BY <1>3, <2>1 DEF PollerRecords, PollerAts
<1>9. ASSUME ReadTel
      PROVE  poller' \in PollerRecords
  <2>1. poller' = [poller EXCEPT !.at = "notes", !.tel = tel] /\ tel \in {"iss", "rev"}
    BY <1>9 DEF ReadTel, TypeOK
  <2>2. QED BY <1>3, <2>1 DEF PollerRecords, PollerAts
<1>10. ASSUME ReadNotes
       PROVE  poller' \in PollerRecords
  <2>1. CASE poller' = [poller EXCEPT !.at = "purge", !.old = Present]
    <3>1. Present \subseteq NoteIds
      BY DEF Present
    <3>2. QED BY <1>3, <2>1, <3>1 DEF PollerRecords, PollerAts
  <2>2. CASE PollerGoes("throw") \/ PollerGoes("create")
    BY <1>5, <2>2 DEF PollerAts
  <2>3. QED BY <1>10, <2>1, <2>2 DEF ReadNotes
<1>11. ASSUME NEW n \in NoteIds, PurgeNote(n)
       PROVE  poller' \in PollerRecords
  <2>1. CASE poller' = [poller EXCEPT !.old = @ \ {n}]
    BY <1>3, <2>1 DEF PollerRecords
  <2>2. CASE PollerGoes("throw")
    BY <1>5, <2>2 DEF PollerAts
  <2>3. QED BY <1>11, <2>1, <2>2 DEF PurgeNote
<1>12. ASSUME Throw \/ Settle
       PROVE  poller' \in PollerRecords
  <2>1. CASE poller' = [poller EXCEPT !.at = "settle"]
    BY <1>5, <2>1 DEF PollerAts, PollerGoes
  <2>2. QED BY <1>4, <1>12, <2>1 DEF Throw, Settle
<1>13. ASSUME \/ PurgeDone \/ MarkRevoked \/ SaveNotice \/ MarkNotification
              \/ CreateNotificationRecord \/ PollerFails
       PROVE  \E step \in PollerAts : PollerGoes(step)
  BY <1>13 DEF PurgeDone, MarkRevoked, SaveNotice, MarkNotification, CreateNotificationRecord,
     PollerFails, PollerAts
<1>14. CASE Poll
  BY <1>5, <1>6, <1>7, <1>8, <1>9, <1>10, <1>11, <1>12, <1>13, <1>14 DEF Poll
<1>15. Crash => poller' = PollerIdle
  BY DEF Crash
<1>16. QED BY <1>3, <1>4, <1>5, <1>13, <1>14, <1>15, Writers

UserRecords ==
  [at : {"idle", "offer", "save", "submit", "record", "accept"}, grant : 0..sent]

WorkerRecords ==
  [at : {"idle", "clear", "fetch", "write", "finish"},
   op : 0..Len(submitted), old : SUBSET NoteIds, kept : BOOLEAN]

\* Every step keeps the types of the user's and the worker's fields.
LEMMA ProcessTypes ==
  ASSUME TypeOK, SubjectsExist, [Next]_vars
  PROVE  /\ user' \in UserRecords'
         /\ worker' \in WorkerRecords'
         /\ removal' \in {"idle", "keria", "local"}
<1>1. /\ sent \in Nat /\ 0..sent \subseteq 0..sent'
      /\ Len(submitted) \in Nat /\ 0..Len(submitted) \subseteq 0..Len(submitted')
  <2>1. sent \in Nat /\ sent' \in Nat /\ sent <= sent'
    BY Monotone
  <2>2. Len(submitted) \in Nat /\ Len(submitted') >= Len(submitted) /\ Len(submitted') \in Nat
    BY SubmittedStep
  <2>3. QED BY <2>1, <2>2
<1>2. user' \in UserRecords
  <2>1. user \in UserRecords /\ UserIdle \in UserRecords
    BY <1>1 DEF TypeOK, UserRecords, UserIdle
  <2>2. \A g \in Grants : OpenOffer(g) => user' \in UserRecords
    <3>1. \A g \in Grants : notes[g] = "open" => g \in 0..sent
      <4>1. \A g \in Grants : notes[g] = "open" => g \in Present /\ g # Notice
        BY NoteIdsFact DEF Present
      <4>2. delivered \subseteq 0..sent
        BY <1>1 DEF TypeOK
      <4>3. QED BY <4>1, <4>2 DEF SubjectsExist
    <3>2. QED BY <3>1 DEF OpenOffer, UserRecords
  <2>3. CloseOffer \/ AdmitFails \/ Crash => user' = UserIdle
    BY DEF CloseOffer, AdmitFails, Crash
  <2>4. Admit \/ AcceptOffer => user' \in UserRecords
    BY <2>1 DEF Admit, SavePending, SubmitAdmit, RecordOperation, AcceptNote, AcceptOffer, UserGoes,
       UserRecords
  <2>5. QED BY <2>1, <2>2, <2>3, <2>4, Writers
<1>3. worker' \in WorkerRecords
  <2>1. worker \in WorkerRecords /\ WorkerIdle \in WorkerRecords
    BY <1>1 DEF TypeOK, WorkerRecords, WorkerIdle
  <2>2. \A a \in 1..MaxAdmits : TakeOperation(a) => worker' \in WorkerRecords
    <3>1. ASSUME NEW a \in 1..MaxAdmits, TakeOperation(a)
          PROVE  worker' \in WorkerRecords
      <4>1. a \in 0..Len(submitted)
        BY <1>1, <3>1 DEF TakeOperation, TypeOK, Admits
      <4>2. {submitted[a]} \intersect Present \subseteq NoteIds
        BY DEF Present
      <4>3. \/ worker' = [WorkerIdle EXCEPT !.at = "finish", !.op = a]
            \/ worker' = [WorkerIdle EXCEPT !.at = "clear", !.op = a,
                                            !.old = {submitted[a]} \intersect Present]
        BY <3>1 DEF TakeOperation
      <4>4. QED BY <4>1, <4>2, <4>3 DEF WorkerIdle, WorkerRecords
    <3>2. QED BY <3>1
  <2>3. \A n \in NoteIds : ClearNote(n) => worker' \in WorkerRecords
    <3>1. ASSUME NEW n \in NoteIds, ClearNote(n)
          PROVE  worker' = [worker EXCEPT !.old = @ \ {n}] \/ worker' = WorkerIdle
      BY <3>1 DEF ClearNote
    <3>2. QED BY <2>1, <3>1 DEF WorkerRecords
  <2>4. ReadMetadata \/ EnsureCredentialAvailable => worker' \in WorkerRecords
    BY <2>1 DEF ReadMetadata, EnsureCredentialAvailable, WorkerRecords, TypeOK
  <2>5. MarkConfirmed \/ FinishOperation => worker' \in WorkerRecords
    <3>1. MarkConfirmed => worker' \in WorkerRecords
      BY <2>1 DEF MarkConfirmed, WorkerGoes, WorkerRecords
    <3>2. FinishOperation => worker' = WorkerIdle
      BY DEF FinishOperation
    <3>3. QED BY <2>1, <3>1, <3>2
  <2>6. WorkerFails \/ Crash => worker' = WorkerIdle
    BY DEF WorkerFails, Crash
  <2>7. QED BY <2>1, <2>2, <2>3, <2>4, <2>5, <2>6, Writers DEF Work
<1>4. removal' \in {"idle", "keria", "local"}
  <2>1. removal \in {"idle", "keria", "local"}
    BY DEF TypeOK
  <2>2. Remove => removal' \in {"idle", "keria", "local"}
    BY DEF Remove, RemoveCredentialsPendingDeletion, RemoveFromKeria, RemoveMetadata
  <2>3. DeleteCredential \/ RemovalFails \/ Crash => removal' \in {"idle", "keria", "local"}
    BY DEF DeleteCredential, RemovalFails, Crash
  <2>4. UNCHANGED vars => removal' = removal
    BY DEF vars
  <2>5. QED
    BY <2>1, <2>2, <2>3, <2>4, NextCases, KeriaWrites, ChoicesWrite, PollWrites, AdmitWrites,
       WorkWrites, FailsWrite
<1>5. QED BY <1>1, <1>2, <1>3, <1>4 DEF UserRecords, WorkerRecords

\* Every step keeps the types.
LEMMA TypesHold ==
  ASSUME TypeOK, SubjectsExist, [Next]_vars
  PROVE  TypeOK'
<1>1. notes' \in [NoteIds -> {"none", "open", "accepted"}]
  BY StorageTypes
<1>2. QED
  BY <1>1, FaultTypes, KeriaTypes, MarkTypes, StorageTypes, MarkerTypes, FlagTypes, PollerTypes,
     ProcessTypes DEF TypeOK, PollerRecords, PollerAts, UserRecords, WorkerRecords

-----------------------------------------------------------------------------
(* The steps of the processes.                                             *)

\* The poller keeps its grant until it is idle again.
LEMMA PollerSteps ==
  ASSUME TypeOK, [Next]_vars
  PROVE  \/ poller' = poller
         \/ poller' = PollerIdle
         \/ \E g \in Grants : Fetch(g) \/ Retry(g)
         \/ /\ \/ ReadCredential \/ ReadTel \/ ReadNotes \/ PurgeDone \/ MarkRevoked \/ SaveNotice
               \/ MarkNotification \/ CreateNotificationRecord \/ Throw \/ PollerFails
               \/ \E n \in NoteIds : PurgeNote(n)
            /\ poller.at # "idle"
            /\ poller'.grant = poller.grant /\ poller'.again = poller.again
<1>1. ASSUME NEW step, PollerGoes(step)
      PROVE  poller'.grant = poller.grant /\ poller'.again = poller.again
  BY <1>1, PollerGoing
<1>2. poller \in PollerRecords
  BY DEF TypeOK, PollerRecords, PollerAts
<1>3. ASSUME ReadCredential \/ ReadTel \/ ReadNotes
      PROVE  poller.at # "idle" /\ poller'.grant = poller.grant /\ poller'.again = poller.again
  <2>1. \/ poller' = [poller EXCEPT !.at = "tel", !.seen = cred]
        \/ poller' = [poller EXCEPT !.at = "notes", !.tel = tel]
        \/ poller' = [poller EXCEPT !.at = "purge", !.old = Present]
        \/ PollerGoes("throw") \/ PollerGoes("create")
    BY <1>3 DEF ReadCredential, ReadTel, ReadNotes
  <2>2. poller'.grant = poller.grant /\ poller'.again = poller.again
    BY <1>1, <1>2, <2>1 DEF PollerRecords
  <2>3. QED BY <1>3, <2>2 DEF ReadCredential, ReadTel, ReadNotes
<1>4. ASSUME NEW n \in NoteIds, PurgeNote(n)
      PROVE  poller.at # "idle" /\ poller'.grant = poller.grant /\ poller'.again = poller.again
  <2>1. poller' = [poller EXCEPT !.old = @ \ {n}] \/ PollerGoes("throw")
    BY <1>4 DEF PurgeNote
  <2>2. poller'.grant = poller.grant /\ poller'.again = poller.again
    BY <1>1, <1>2, <2>1 DEF PollerRecords
  <2>3. QED BY <1>4, <2>2 DEF PurgeNote
<1>5. ASSUME PurgeDone \/ MarkRevoked \/ SaveNotice \/ MarkNotification
      PROVE  poller.at # "idle" /\ poller'.grant = poller.grant /\ poller'.again = poller.again
  BY <1>1, <1>5 DEF PurgeDone, MarkRevoked, SaveNotice, MarkNotification
<1>6. ASSUME CreateNotificationRecord \/ PollerFails
      PROVE  poller.at # "idle" /\ poller'.grant = poller.grant /\ poller'.again = poller.again
  BY <1>1, <1>6 DEF CreateNotificationRecord, PollerFails
<1>7. ASSUME Throw, poller' # PollerIdle
      PROVE  poller.at # "idle" /\ poller'.grant = poller.grant /\ poller'.again = poller.again
  BY <1>1, <1>7 DEF Throw, PollerGoes
<1>8. Settle \/ Crash => poller' = PollerIdle
  BY DEF Settle, Crash
<1>9. QED BY <1>3, <1>4, <1>5, <1>6, <1>7, <1>8, Writers DEF Poll

\* The user takes the steps of an admission in order.
LEMMA UserSteps ==
  ASSUME TypeOK, [Next]_vars
  PROVE  \/ user' = user
         \/ user' = UserIdle
         \/ \E g \in Grants : OpenOffer(g) /\ user' = [at |-> "offer", grant |-> g]
         \/ /\ user'.grant = user.grant
            /\ \/ AcceptOffer /\ user.at = "offer" /\ user'.at = "save"
               \/ SavePending /\ user.at = "save" /\ user'.at = "submit"
               \/ SubmitAdmit /\ user.at = "submit" /\ user'.at = "record"
               \/ RecordOperation /\ user.at = "record" /\ user'.at = "accept"
<1>1. user \in [at : {"idle", "offer", "save", "submit", "record", "accept"}, grant : 0..sent]
  BY DEF TypeOK
<1>2. ASSUME NEW step, UserGoes(step)
      PROVE  user'.at = step /\ user'.grant = user.grant
  BY <1>1, <1>2 DEF UserGoes
<1>3. AcceptOffer => user.at = "offer" /\ UserGoes("save")
  BY DEF AcceptOffer
<1>4. SavePending => user.at = "save" /\ UserGoes("submit")
  BY DEF SavePending
<1>5. SubmitAdmit => user.at = "submit" /\ UserGoes("record")
  BY DEF SubmitAdmit
<1>6. RecordOperation => user.at = "record" /\ UserGoes("accept")
  BY DEF RecordOperation
<1>7. AcceptNote \/ CloseOffer \/ AdmitFails \/ Crash => user' = UserIdle
  BY DEF AcceptNote, CloseOffer, AdmitFails, Crash
<1>8. \A g \in Grants : OpenOffer(g) => user' = [at |-> "offer", grant |-> g]
  BY DEF OpenOffer
<1>9. QED BY <1>2, <1>3, <1>4, <1>5, <1>6, <1>7, <1>8, Writers DEF Admit

\* The worker takes an operation and keeps it until it is idle again.
LEMMA WorkerSteps ==
  ASSUME TypeOK, [Next]_vars
  PROVE  \/ worker' = worker
         \/ worker' = WorkerIdle
         \/ \E a \in ops \intersect done :
              /\ worker.at = "idle" /\ worker'.op = a
              /\ \/ a \in errored /\ worker'.at = "finish"
                 \/ /\ a \notin errored /\ worker'.at = "clear"
                    /\ worker'.old = {submitted[a]} \intersect Present
              /\ UNCHANGED <<ops, done, errored, submitted, notes, delivered, reopened>>
         \/ /\ worker'.op = worker.op
            /\ \/ \E n \in worker.old \intersect Present :
                    /\ ClearNote(n) /\ worker.at = "clear" /\ worker'.at = "clear"
                    /\ worker'.old = worker.old \ {n}
                    /\ notes' = [notes EXCEPT ![n] = "none"]
               \/ /\ ReadMetadata /\ worker.at = "clear" /\ worker.old = {}
                  /\ \/ cred = "none" /\ worker'.at = "finish"
                     \/ cred # "none" /\ worker'.at = "fetch"
               \/ EnsureCredentialAvailable /\ worker.at = "fetch" /\ worker'.at = "write"
               \/ MarkConfirmed /\ worker.at = "write" /\ worker'.at = "finish"
<1>1. worker \in WorkerRecords
  BY DEF TypeOK, WorkerRecords
<1>2. ASSUME NEW a \in 1..MaxAdmits, TakeOperation(a)
      PROVE  /\ worker.at = "idle" /\ worker'.op = a /\ a \in ops \intersect done
             /\ \/ a \in errored /\ worker'.at = "finish"
                \/ /\ a \notin errored /\ worker'.at = "clear"
                   /\ worker'.old = {submitted[a]} \intersect Present
             /\ UNCHANGED <<ops, done, errored, submitted, notes, delivered, reopened>>
  <2>1. /\ worker.at = "idle" /\ a \in ops \intersect done
        /\ UNCHANGED <<ops, done, errored, submitted, notes, delivered, reopened>>
    BY <1>2 DEF TakeOperation, keria, queue, history
  <2>2. CASE a \in errored
    <3>1. worker' = [WorkerIdle EXCEPT !.at = "finish", !.op = a]
      BY <1>2, <2>2 DEF TakeOperation
    <3>2. QED BY <2>1, <2>2, <3>1 DEF WorkerIdle
  <2>3. CASE a \notin errored
    <3>1. worker' = [WorkerIdle EXCEPT !.at = "clear", !.op = a,
                                       !.old = {submitted[a]} \intersect Present]
      BY <1>2, <2>3 DEF TakeOperation
    <3>2. QED BY <2>1, <2>3, <3>1 DEF WorkerIdle
  <2>4. QED BY <2>2, <2>3
<1>3. ASSUME NEW n \in NoteIds, ClearNote(n), worker' # WorkerIdle
      PROVE  /\ n \in worker.old \intersect Present
             /\ worker.at = "clear" /\ worker'.at = "clear" /\ worker'.op = worker.op
             /\ worker'.old = worker.old \ {n}
             /\ notes' = [notes EXCEPT ![n] = "none"]
  <2>1. /\ n \in worker.old \intersect Present /\ worker.at = "clear"
        /\ worker' = [worker EXCEPT !.old = @ \ {n}]
        /\ notes' = [notes EXCEPT ![n] = "none"]
    BY <1>3 DEF ClearNote, DeleteNote
  <2>2. QED BY <1>1, <2>1 DEF WorkerRecords
<1>4. ASSUME ReadMetadata
      PROVE  /\ worker'.op = worker.op /\ worker.at = "clear" /\ worker.old = {}
             /\ \/ cred = "none" /\ worker'.at = "finish"
                \/ cred # "none" /\ worker'.at = "fetch"
  BY <1>1, <1>4 DEF ReadMetadata, WorkerRecords
<1>5. ASSUME EnsureCredentialAvailable, worker' # WorkerIdle
      PROVE  worker'.op = worker.op /\ worker.at = "fetch" /\ worker'.at = "write"
  BY <1>1, <1>5 DEF EnsureCredentialAvailable, WorkerRecords
<1>6. ASSUME MarkConfirmed
      PROVE  worker'.op = worker.op /\ worker.at = "write" /\ worker'.at = "finish"
  BY <1>1, <1>6 DEF MarkConfirmed, WorkerGoes, WorkerRecords
<1>7. FinishOperation \/ WorkerFails \/ Crash => worker' = WorkerIdle
  BY DEF FinishOperation, WorkerFails, Crash
<1>8. QED BY <1>2, <1>3, <1>4, <1>5, <1>6, <1>7, Writers DEF Work

-----------------------------------------------------------------------------
(* The subjects of the processes.                                          *)

\* A grant that is processed was sent, and an operation that is processed has
\* a record and is done.
LEMMA PollerSubject ==
  ASSUME TypeOK, SubjectsExist, [Next]_vars
  PROVE  /\ poller'.at # "idle" => poller'.grant \in 1..sent'
         /\ worker'.at # "idle" => worker'.op \in ops' \intersect done'
<1>1. 1..sent \subseteq 1..sent' /\ sent \in Nat
  BY Monotone
<1>2. poller'.at # "idle" => poller'.grant \in 1..sent
  <2>1. poller.at # "idle" => poller.grant \in 1..sent
    BY DEF SubjectsExist
  <2>2. ASSUME NEW g \in Grants, Fetch(g) \/ Retry(g)
        PROVE  poller'.grant = g /\ g \in 1..sent
    <3>1. g \in 1..sent
      BY <1>1, <2>2 DEF Fetch, Retry, Grants, TypeOK
    <3>2. \/ poller' = [PollerIdle EXCEPT !.at = "settle", !.grant = g]
          \/ poller' = [PollerIdle EXCEPT !.at = "credential", !.grant = g]
          \/ poller' = [PollerIdle EXCEPT !.at = "credential", !.grant = g, !.again = TRUE]
      BY <2>2 DEF Fetch, Retry
    <3>3. QED BY <3>1, <3>2 DEF PollerIdle
  <2>3. PollerIdle.at = "idle"
    BY DEF PollerIdle
  <2>4. QED BY <2>1, <2>2, <2>3, PollerSteps
<1>3. worker'.at # "idle" => worker'.op \in ops' \intersect done'
  <2>1. worker.at # "idle" => worker.op \in ops \intersect done
    BY DEF SubjectsExist
  <2>2. WorkerIdle.at = "idle"
    BY DEF WorkerIdle
  <2>3. FinishOperation => worker' = WorkerIdle
    BY DEF FinishOperation
  <2>4. ops \subseteq ops' \/ FinishOperation
    BY Writers DEF RecordOperation
  <2>5. done \subseteq done'
    BY Monotone
  <2>6. worker'.at # "idle" => worker'.op \in ops \intersect done
    BY <2>1, <2>2, WorkerSteps
  <2>7. QED BY <2>2, <2>3, <2>4, <2>5, <2>6
<1>4. QED BY <1>1, <1>2, <1>3

\* A notification exists only of a grant that was delivered, and only grants
\* are accepted.
LEMMA NoteSubject ==
  ASSUME TypeOK, SubjectsExist, [Next]_vars
  PROVE  /\ \A n \in Present' : n = Notice \/ n \in delivered'
         /\ notes'[Notice] # "accepted"
<1>1. /\ \A n \in Present : n = Notice \/ n \in delivered
      /\ notes[Notice] # "accepted" /\ delivered \subseteq delivered'
      /\ notes \in [NoteIds -> {"none", "open", "accepted"}]
  BY Monotone DEF SubjectsExist, TypeOK
<1>2. CASE notes' = notes
  BY <1>1, <1>2 DEF Present
<1>3. ASSUME NEW n \in Present, notes' = [notes EXCEPT ![n] = "none"]
      PROVE  /\ \A x \in Present' : x = Notice \/ x \in delivered'
             /\ notes'[Notice] # "accepted"
  BY <1>1, <1>3, NoteIdsFact DEF Present
<1>4. ASSUME AcceptNote, user.grant \in Present,
             notes' = [notes EXCEPT ![user.grant] = "accepted"]
      PROVE  /\ \A x \in Present' : x = Notice \/ x \in delivered'
             /\ notes'[Notice] # "accepted"
  <2>1. user.grant # Notice
    <3>1. user.grant \in 1..sent
      BY <1>4 DEF AcceptNote, SubjectsExist, TypeOK
    <3>2. QED BY <3>1 DEF Notice
  <2>2. QED BY <1>1, <1>4, <2>1, NoteIdsFact DEF Present
<1>5. ASSUME SaveNotice, notes' = [notes EXCEPT ![Notice] = "open"]
      PROVE  /\ \A x \in Present' : x = Notice \/ x \in delivered'
             /\ notes'[Notice] # "accepted"
  BY <1>1, <1>5, NoteIdsFact DEF Present
<1>6. ASSUME CreateNotificationRecord, notes' = [notes EXCEPT ![poller.grant] = "open"]
      PROVE  /\ \A x \in Present' : x = Notice \/ x \in delivered'
             /\ notes'[Notice] # "accepted"
  <2>1. poller.grant \in delivered'
    BY <1>6 DEF CreateNotificationRecord
  <2>2. QED BY <1>1, <1>6, <2>1, NoteIdsFact DEF Present
<1>7. QED BY <1>2, <1>3, <1>4, <1>5, <1>6, NotesStep

\* The user admits a grant that was delivered, and the last admit is the one
\* that is still to be recorded.
LEMMA UserSubject ==
  ASSUME TypeOK, SubjectsExist, [Next]_vars
  PROVE  /\ user'.at # "idle" => user'.grant \in delivered'
         /\ \A a \in Admits' : submitted'[a] \in delivered'
         /\ user'.at \in {"record", "accept"} =>
              submitted' # <<>> /\ submitted'[Len(submitted')] = user'.grant
         /\ user'.at = "record" => Len(submitted') \notin ops'
         /\ user'.at \in {"save", "submit"} => Len(submitted') < MaxAdmits
<1>1. delivered \subseteq delivered'
  BY Monotone
<1>2. UserIdle.at = "idle"
  BY DEF UserIdle
<1>3. user'.at # "idle" => user'.grant \in delivered
  <2>1. \A g \in Grants : OpenOffer(g) => g \in delivered
    BY NoteIdsFact DEF OpenOffer, SubjectsExist, Present
  <2>2. QED BY <1>2, <2>1, UserSteps DEF SubjectsExist
<1>4. CASE SubmitAdmit
  <2>1. user.at = "submit" /\ user.grant \in delivered /\ ops' = ops /\ user'.at = "record"
        /\ user'.grant = user.grant
    BY <1>4 DEF SubmitAdmit, SubjectsExist, UserGoes, TypeOK
  <2>3. /\ Len(submitted') = Len(submitted) + 1 /\ Len(submitted) \in Nat
        /\ submitted'[Len(submitted) + 1] = user.grant /\ submitted' # <<>>
        /\ \A i \in 1..Len(submitted) : submitted'[i] = submitted[i]
    BY <1>4, AdmitAppends
  <2>5. Len(submitted') \notin ops'
    <3>1. ops \subseteq 1..Len(submitted)
      BY DEF TypeOK, Admits
    <3>2. QED BY <2>1, <2>3, <3>1
  <2>6. \A a \in Admits' : submitted'[a] \in delivered
    <3>1. \A i \in 1..Len(submitted) : submitted[i] \in delivered
      BY DEF SubjectsExist, Admits
    <3>2. ASSUME NEW a \in 1..Len(submitted')
          PROVE  submitted'[a] \in delivered
      <4>1. a \in 1..Len(submitted) \/ a = Len(submitted) + 1
        BY <2>3
      <4>2. QED BY <2>1, <2>3, <3>1, <4>1
    <3>3. QED BY <3>2 DEF Admits
  <2>7. QED BY <1>1, <1>3, <2>1, <2>3, <2>5, <2>6
<1>5. CASE UNCHANGED submitted
  <2>0. ~SubmitAdmit
    BY <1>5, AdmitAppends
  <2>1. \A a \in Admits' : submitted'[a] \in delivered
    BY <1>5 DEF SubjectsExist, Admits
  <2>2. ASSUME user'.at \in {"record", "accept"}
        PROVE  submitted # <<>> /\ submitted[Len(submitted)] = user'.grant
    <3>1. user.at \in {"record", "accept"} /\ user'.grant = user.grant
      BY <1>2, <2>0, <2>2, UserSteps
    <3>2. QED BY <3>1 DEF SubjectsExist
  <2>3. ASSUME user'.at = "record"
        PROVE  Len(submitted) \notin ops'
    <3>1. ~RecordOperation
      BY <2>3 DEF RecordOperation, UserGoes, TypeOK
    <3>2. user' = user
      BY <1>2, <2>0, <2>3, UserSteps
    <3>3. ops' \subseteq ops
      BY <3>1, Writers DEF FinishOperation
    <3>4. QED BY <2>3, <3>2, <3>3 DEF SubjectsExist
  <2>4. ASSUME user'.at \in {"save", "submit"}
        PROVE  Len(submitted) < MaxAdmits
    BY <1>2, <2>4, UserSteps DEF SubjectsExist, AcceptOffer
  <2>5. QED BY <1>1, <1>3, <1>5, <2>1, <2>2, <2>3, <2>4
<1>6. QED BY <1>4, <1>5, Writers

\* The processes keep their subjects.
LEMMA SubjectsHold ==
  ASSUME TypeOK, SubjectsExist, [Next]_vars
  PROVE  SubjectsExist'
BY PollerSubject, NoteSubject, UserSubject DEF SubjectsExist

-----------------------------------------------------------------------------
(* What the poller knows.                                                  *)

\* The poller deletes one of the notes it listed.
PurgesOne ==
  /\ poller.at = "purge" /\ poller'.at = "purge"
  /\ \E n \in poller.old \intersect Present :
       /\ poller'.old = poller.old \ {n}
       /\ notes' = [notes EXCEPT ![n] = "none"]

\* The poller's steps, with what each of them reads or relies on.
LEMMA PollerMoves ==
  ASSUME TypeOK, [Next]_vars
  PROVE  \/ poller' = poller
         \/ /\ poller'.at \in {"idle", "credential", "tel", "throw", "settle"}
            /\ poller'.tel \in {"iss", poller.tel}
         \/ ReadTel /\ poller.at = "tel" /\ poller'.at = "notes" /\ poller'.tel = tel
         \/ /\ poller'.tel = poller.tel
            /\ \/ /\ poller.at = "notes" /\ notes' = notes
                  /\ \/ poller'.at = "create" /\ Present = {}
                     \/ poller'.at = "purge" /\ poller.tel = "rev" /\ poller'.old = Present
               \/ PurgesOne
               \/ /\ poller.at = "purge" /\ poller.old = {} /\ notes' = notes
                  /\ poller'.at \in {"revoke", "create"}
               \/ MarkRevoked /\ poller.at = "revoke" /\ poller'.at = "notice" /\ notes' = notes
               \/ SaveNotice /\ poller.at = "notice" /\ poller'.at = "mark"
<1>1. poller \in PollerRecords
  BY DEF TypeOK, PollerRecords, PollerAts
<1>2. ASSUME NEW step, PollerGoes(step)
      PROVE  poller'.at = step /\ poller'.tel = poller.tel
  BY <1>2, PollerGoing
<1>3. CASE poller' = PollerIdle
  BY <1>3 DEF PollerIdle
<1>4. ASSUME NEW g \in Grants, Fetch(g) \/ Retry(g)
      PROVE  poller'.at \in {"credential", "settle"} /\ poller'.tel = "iss"
  <2>1. \/ poller' = [PollerIdle EXCEPT !.at = "settle", !.grant = g]
        \/ poller' = [PollerIdle EXCEPT !.at = "credential", !.grant = g]
        \/ poller' = [PollerIdle EXCEPT !.at = "credential", !.grant = g, !.again = TRUE]
    BY <1>4 DEF Fetch, Retry
  <2>2. QED BY <2>1 DEF PollerIdle
<1>5. ReadCredential => poller'.at = "tel" /\ poller'.tel = poller.tel
  BY <1>1 DEF ReadCredential, PollerRecords
<1>6. ReadTel => poller.at = "tel" /\ poller'.at = "notes" /\ poller'.tel = tel
  BY <1>1 DEF ReadTel, PollerRecords
<1>7. ASSUME ReadNotes
      PROVE  /\ poller'.tel = poller.tel /\ poller.at = "notes" /\ notes' = notes
             /\ \/ poller'.at = "throw"
                \/ poller'.at = "create" /\ Present = {}
                \/ poller'.at = "purge" /\ poller.tel = "rev" /\ poller'.old = Present
  <2>1. poller.at = "notes" /\ notes' = notes
    BY <1>7 DEF ReadNotes
  <2>2. \/ PollerGoes("throw")
        \/ Present = {} /\ PollerGoes("create")
        \/ poller.tel = "rev" /\ poller' = [poller EXCEPT !.at = "purge", !.old = Present]
    BY <1>7 DEF ReadNotes, Duplicate
  <2>3. QED BY <1>1, <1>2, <2>1, <2>2 DEF PollerRecords
<1>8. ASSUME NEW n \in NoteIds, PurgeNote(n)
      PROVE  /\ poller'.tel = poller.tel /\ poller.at = "purge"
             /\ poller'.at = "throw" \/ PurgesOne
  <2>1. /\ poller.at = "purge" /\ n \in poller.old
        /\ \/ PollerGoes("throw")
           \/ /\ n \in Present /\ poller' = [poller EXCEPT !.old = @ \ {n}]
              /\ notes' = [notes EXCEPT ![n] = "none"]
    BY <1>8 DEF PurgeNote, DeleteNote
  <2>2. QED BY <1>1, <1>2, <2>1 DEF PollerRecords, PurgesOne
<1>9. ASSUME PurgeDone
      PROVE  /\ poller'.tel = poller.tel /\ poller.at = "purge" /\ poller.old = {}
             /\ notes' = notes /\ poller'.at \in {"throw", "revoke", "create"}
  BY <1>2, <1>9 DEF PurgeDone
<1>10. ASSUME MarkRevoked
       PROVE  /\ poller'.tel = poller.tel /\ poller.at = "revoke" /\ notes' = notes
              /\ poller'.at \in {"throw", "notice"}
  BY <1>2, <1>10 DEF MarkRevoked
<1>11. SaveNotice => poller.at = "notice" /\ poller'.at = "mark" /\ poller'.tel = poller.tel
  BY <1>2 DEF SaveNotice
<1>12. ASSUME MarkNotification \/ CreateNotificationRecord \/ PollerFails
       PROVE  poller'.at \in {"settle", "throw"} /\ poller'.tel = poller.tel
  BY <1>2, <1>12 DEF MarkNotification, CreateNotificationRecord, PollerFails
<1>13. Throw => poller' = PollerIdle \/ PollerGoes("settle")
  BY DEF Throw, PollerGoes
<1>14. QED
  BY <1>2, <1>3, <1>4, <1>5, <1>6, <1>7, <1>8, <1>9, <1>10, <1>11, <1>12, <1>13, PollerSteps

\* Only the poller creates notifications, and only when there is none.
LEMMA PresentStep ==
  ASSUME TypeOK, SubjectsExist, PollerKnows, [Next]_vars
  PROVE  \/ /\ Present' \subseteq Present
            /\ \A n \in Present' : notes'[n] # notes[n] => AcceptNote /\ n = user.grant
         \/ SaveNotice /\ Present = {} /\ Present' = {Notice}
         \/ /\ CreateNotificationRecord /\ Present = {} /\ Present' = {poller.grant}
            /\ notes'[poller.grant] = "open"
<1>1. notes \in [NoteIds -> {"none", "open", "accepted"}]
  BY DEF TypeOK
<1>2. CASE notes' = notes
  BY <1>2 DEF Present
<1>3. ASSUME NEW n \in Present, notes' = [notes EXCEPT ![n] = "none"]
      PROVE  Present' \subseteq Present /\ \A x \in Present' : notes'[x] = notes[x]
  BY <1>1, <1>3 DEF Present
<1>4. ASSUME user.grant \in Present, notes' = [notes EXCEPT ![user.grant] = "accepted"]
      PROVE  Present' = Present /\ \A x \in Present' : x # user.grant => notes'[x] = notes[x]
  BY <1>1, <1>4 DEF Present
<1>5. ASSUME SaveNotice, notes' = [notes EXCEPT ![Notice] = "open"]
      PROVE  Present = {} /\ Present' = {Notice}
  <2>1. Present = {}
    BY <1>5 DEF SaveNotice, PollerKnows
  <2>2. QED BY <1>1, <1>5, <2>1, NoteIdsFact DEF Present
<1>6. ASSUME CreateNotificationRecord, notes' = [notes EXCEPT ![poller.grant] = "open"]
      PROVE  /\ Present = {} /\ Present' = {poller.grant}
             /\ notes'[poller.grant] = "open"
  <2>1. Present = {} /\ poller.grant \in 1..sent
    BY <1>6 DEF CreateNotificationRecord, PollerKnows, SubjectsExist
  <2>2. poller.grant \in NoteIds
    BY <2>1, MaxGrantsAssumption DEF NoteIds, Grants, TypeOK
  <2>3. QED BY <1>1, <1>6, <2>1, <2>2 DEF Present
<1>7. QED BY <1>2, <1>3, <1>4, <1>5, <1>6, NotesStep

\* There is still at most one notification.
LEMMA OneNoteHolds ==
  ASSUME TypeOK, SubjectsExist, PollerKnows, OneNote, [Next]_vars
  PROVE  OneNote'
BY PresentStep DEF OneNote

\* What the poller read of the TEL stays true, and nobody else creates a
\* notification between its look at them and its own.
LEMMA PollerKnowsHolds ==
  ASSUME TypeOK, SubjectsExist, PollerKnows, [Next]_vars
  PROVE  PollerKnows'
<1>1. tel \in {"iss", "rev"} /\ (tel = "rev" => tel' = "rev")
  BY Monotone DEF TypeOK
<1>2. /\ poller'.tel = "rev" => tel' = "rev"
      /\ poller'.at \in {"purge", "revoke", "notice", "mark"} => poller'.tel = "rev"
  <2>1. PurgesOne => poller.at = "purge" /\ poller'.at = "purge"
    BY DEF PurgesOne
  <2>2. QED BY <1>1, <2>1, PollerMoves DEF PollerKnows
<1>3. CASE poller' = poller
  <2>1. ASSUME SaveNotice \/ CreateNotificationRecord
        PROVE  FALSE
    <3>1. poller.at \in {"notice", "create"} /\ poller'.at \in {"mark", "settle"}
      BY <2>1, PollerGoing DEF SaveNotice, CreateNotificationRecord
    <3>2. QED BY <1>3, <3>1
  <2>2. Present' \subseteq Present
    BY <2>1, PresentStep
  <2>3. QED BY <1>2, <1>3, <2>2 DEF PollerKnows
<1>4. CASE notes' = notes /\ ~PurgesOne /\ poller' # poller
  <2>1. Present' = Present
    BY <1>4 DEF Present
  <2>2. ASSUME poller'.at = "purge"
        PROVE  Present \subseteq poller'.old
    BY <1>4, <2>2, PollerMoves
  <2>3. ASSUME poller'.at \in {"revoke", "notice", "create"}
        PROVE  Present = {}
    BY <1>4, <2>3, PollerMoves DEF PollerKnows
  <2>4. QED BY <1>2, <2>1, <2>2, <2>3 DEF PollerKnows
<1>5. CASE PurgesOne
  <2>1. Present \subseteq poller.old
    BY <1>5 DEF PollerKnows, PurgesOne
  <2>2. Present' \subseteq poller'.old
    BY <1>5, <2>1 DEF Present, TypeOK, PurgesOne
  <2>3. QED BY <1>2, <1>5, <2>2 DEF PollerKnows, PurgesOne
<1>6. CASE poller'.at \in {"idle", "credential", "tel", "throw", "settle", "notes", "mark"}
  BY <1>2, <1>6 DEF PollerKnows
<1>7. \/ poller' = poller \/ notes' = notes \/ PurgesOne
      \/ poller'.at \in {"idle", "credential", "tel", "throw", "settle", "notes", "mark"}
  BY PollerMoves
<1>8. QED BY <1>3, <1>4, <1>5, <1>6, <1>7

-----------------------------------------------------------------------------
(* The marker and the entries of the retry queue.                          *)

\* The poller reaches the settling of a grant with the grant delivered or owed.
LEMMA SettleReached ==
  ASSUME TypeOK, SubjectsExist, [Next]_vars, poller'.at = "settle", poller' # poller
  PROVE  poller'.grant \in delivered' \/ (~poller'.again /\ poller'.grant \in owed')
<1>1. poller' # PollerIdle
  BY DEF PollerIdle
<1>2. ASSUME NEW g \in Grants, Fetch(g) \/ Retry(g)
      PROVE  poller'.grant \in delivered'
  <2>1. \/ poller' = [PollerIdle EXCEPT !.at = "settle", !.grant = g]
           /\ delivered' = delivered \union {g}
        \/ poller' = [PollerIdle EXCEPT !.at = "credential", !.grant = g]
        \/ poller' = [PollerIdle EXCEPT !.at = "credential", !.grant = g, !.again = TRUE]
    BY <1>2 DEF Fetch, Retry
  <2>2. QED BY <2>1 DEF PollerIdle
<1>3. ASSUME MarkNotification \/ CreateNotificationRecord
      PROVE  poller'.grant \in delivered'
  BY <1>3, PollerGoing DEF MarkNotification, CreateNotificationRecord
<1>4. ASSUME Throw
      PROVE  ~poller'.again /\ poller'.grant \in owed'
  <2>1. ~poller.again /\ PollerGoes("settle") /\ owed' = owed \union {poller.grant}
    BY <1>1, <1>4 DEF Throw, PollerGoes
  <2>2. QED BY <2>1, PollerGoing
<1>5. ~ReadCredential /\ ~ReadTel
  BY DEF ReadCredential, ReadTel, TypeOK
<1>6. /\ ~ReadNotes /\ ~PurgeDone /\ ~MarkRevoked /\ ~SaveNotice /\ ~PollerFails
      /\ \A n \in NoteIds : ~PurgeNote(n)
  BY PollerMoves DEF ReadNotes, PurgeDone, MarkRevoked, SaveNotice, PollerFails, PurgeNote, TypeOK,
     PollerGoes
<1>7. QED BY <1>1, <1>2, <1>3, <1>4, <1>5, <1>6, PollerSteps

\* Under an unchanged marker the poller keeps the contract.
LEMMA DeliversUnmoved ==
  ASSUME TypeOK, SubjectsExist, PollerDelivers, [Next]_vars, acked' = acked, owed \subseteq owed'
  PROVE  PollerDelivers'
<1>1. delivered \subseteq delivered'
  BY Monotone
<1>2. 1..acked' \subseteq delivered' \union owed'
  BY <1>1 DEF PollerDelivers
<1>3. ASSUME poller'.at # "idle"
      PROVE  IF poller'.again THEN poller'.grant \in owed' ELSE poller'.grant = acked' + 1
  <2>1. ASSUME NEW g \in Grants, Fetch(g)
        PROVE  ~poller'.again /\ poller'.grant = acked + 1
    <3>1. /\ g = acked + 1
          /\ \/ poller' = [PollerIdle EXCEPT !.at = "settle", !.grant = g]
             \/ poller' = [PollerIdle EXCEPT !.at = "credential", !.grant = g]
      BY <2>1 DEF Fetch
    <3>2. QED BY <3>1 DEF PollerIdle
  <2>2. ASSUME NEW g \in Grants, Retry(g)
        PROVE  poller'.again /\ poller'.grant \in owed
    <3>1. /\ g \in owed
          /\ poller' = [PollerIdle EXCEPT !.at = "credential", !.grant = g, !.again = TRUE]
      BY <2>2 DEF Retry
    <3>2. QED BY <3>1 DEF PollerIdle
  <2>3. ASSUME poller.at # "idle", poller'.grant = poller.grant, poller'.again = poller.again
        PROVE  IF poller'.again THEN poller'.grant \in owed ELSE poller'.grant = acked + 1
    BY <2>3 DEF PollerDelivers
  <2>4. poller' # PollerIdle
    BY <1>3 DEF PollerIdle
  <2>5. QED BY <1>3, <2>1, <2>2, <2>3, <2>4, PollerSteps
<1>4. poller'.at = "settle" =>
        poller'.grant \in delivered' \union (IF poller'.again THEN {} ELSE owed')
  <2>1. CASE poller' = poller
    BY <1>1, <2>1 DEF PollerDelivers
  <2>2. CASE poller' # poller
    BY <2>2, SettleReached
  <2>3. QED BY <2>1, <2>2
<1>5. QED BY <1>2, <1>3, <1>4 DEF PollerDelivers

\* The marker and the entries of the retry queue cover every grant that is
\* behind the marker and was not delivered.
LEMMA PollerDeliversHolds ==
  ASSUME TypeOK, SubjectsExist, PollerDelivers, [Next]_vars
  PROVE  PollerDelivers'
<1>1. acked \in Nat /\ delivered \subseteq delivered'
  BY Monotone DEF TypeOK
<1>2. CASE Settle
  <2>1. poller' = PollerIdle /\ poller.at = "settle" /\ delivered' = delivered
    BY <1>2 DEF Settle
  <2>2. 1..acked' \subseteq delivered \union owed'
    <3>1. CASE poller.again /\ owed' = owed \ {poller.grant} /\ acked' = acked
      BY <2>1, <3>1 DEF PollerDelivers
    <3>2. CASE ~poller.again /\ owed' = owed /\ acked' = poller.grant
      <4>1. acked' = acked + 1 /\ acked + 1 \in delivered \union owed
        BY <2>1, <3>2 DEF PollerDelivers
      <4>2. \A i \in 1..acked + 1 : i \in 1..acked \/ i = acked + 1
        BY <1>1
      <4>3. QED BY <3>2, <4>1, <4>2 DEF PollerDelivers
    <3>3. QED BY <1>2, <3>1, <3>2 DEF Settle
  <2>3. QED BY <2>1, <2>2 DEF PollerDelivers, PollerIdle
<1>3. CASE Rewind
  <2>1. acked' = 0 /\ poller' = poller /\ poller.at = "idle"
    BY <1>3 DEF Rewind
  <2>2. QED BY <2>1 DEF PollerDelivers
<1>4. CASE Throw
  BY <1>4, DeliversUnmoved DEF Throw
<1>5. CASE UNCHANGED <<acked, owed>>
  BY <1>5, DeliversUnmoved
<1>6. QED BY <1>2, <1>3, <1>4, <1>5, Writers

-----------------------------------------------------------------------------
(* The notifications that were answered.                                   *)

\* An answer stays until its operation is removed, or for good when the
\* operation failed.
LEMMA AnsweredStays ==
  ASSUME TypeOK, SubjectsExist, [Next]_vars, NEW g, Answered(g),
         \/ ops \subseteq ops'
         \/ worker.op \in errored
         \/ submitted[worker.op] # g
  PROVE  Answered(g)'
<1>1. PICK a \in Admits : submitted[a] = g /\ a \in ops \union errored
  BY DEF Answered
<1>2. a \in Admits' /\ submitted'[a] = g
  BY <1>1, SubmittedStep
<1>3. errored \subseteq errored'
  BY Monotone
<1>4. ops \subseteq ops' \/ ops' = ops \ {worker.op}
  BY Writers DEF RecordOperation, FinishOperation
<1>5. a \in ops' \union errored'
  BY <1>1, <1>3, <1>4
<1>6. QED BY <1>2, <1>5 DEF Answered

\* The worker removes the operation of an offer after the offer.
LEMMA AnsweredWhilePresent ==
  ASSUME TypeOK, SubjectsExist, WorkerKnows, [Next]_vars,
         NEW g \in Present, g \notin reopened, Answered(g)
  PROVE  Answered(g)'
<1>1. CASE FinishOperation
  <2>1. worker.at = "finish"
    BY <1>1 DEF FinishOperation
  <2>2. worker.op \in errored \/ submitted[worker.op] # g
    BY <2>1 DEF WorkerKnows
  <2>3. QED BY <2>2, AnsweredStays
<1>2. CASE ~FinishOperation
  <2>1. ops \subseteq ops'
    BY <1>2, Writers DEF RecordOperation
  <2>2. QED BY <2>1, AnsweredStays
<1>3. QED BY <1>1, <1>2

\* A grant that has a notification after a step had it before, or was offered
\* for the second time.
LEMMA StaysPresent ==
  ASSUME TypeOK, SubjectsExist, PollerKnows, [Next]_vars,
         NEW g \in delivered, g \in Present', g \notin reopened'
  PROVE  /\ g \in Present
         /\ notes'[g] # notes[g] => AcceptNote /\ g = user.grant
<1>1. g # Notice
  BY DEF TypeOK, Notice
<1>2. CreateNotificationRecord /\ Present' = {poller.grant} => g \in Present
  BY DEF CreateNotificationRecord
<1>3. QED BY <1>1, <1>2, PresentStep

\* An accepted note has its operation.
LEMMA AcceptedHolds ==
  ASSUME TypeOK, SubjectsExist, PollerKnows, UserKnows, WorkerKnows, AcceptedHasOperation,
         [Next]_vars
  PROVE  AcceptedHasOperation'
<1> SUFFICES ASSUME NEW g \in Grants, g \notin reopened', notes'[g] = "accepted"
             PROVE  Answered(g)'
  BY DEF AcceptedHasOperation, Answered
<1>1. g \notin reopened /\ g # Notice
  BY Monotone, NoteIdsFact
<1>2. g \in Present /\ (notes'[g] # notes[g] => AcceptNote /\ g = user.grant)
  <2>1. g \in Present'
    BY NoteIdsFact DEF Present
  <2>2. QED BY <1>1, <2>1, PresentStep
<1>3. Answered(g)
  <2>1. CASE notes'[g] = notes[g]
    BY <1>1, <2>1 DEF AcceptedHasOperation, Answered
  <2>2. CASE AcceptNote /\ g = user.grant
    BY <1>1, <1>2, <2>2 DEF AcceptNote, UserKnows
  <2>3. QED BY <1>2, <2>1, <2>2
<1>4. QED BY <1>1, <1>2, <1>3, AnsweredWhilePresent

\* The offer that the user is about to hide has its operation.
LEMMA UserKnowsHolds ==
  ASSUME TypeOK, SubjectsExist, PollerKnows, UserKnows, WorkerKnows, [Next]_vars
  PROVE  UserKnows'
<1> SUFFICES ASSUME NEW g, g = user'.grant, user'.at = "accept", g \notin reopened', g \in Present'
             PROVE  \E a \in Admits' : submitted'[a] = g /\ a \in ops' \union errored'
  BY DEF UserKnows, Answered
<1>1. CASE user' = user
  <2>1. g \in delivered /\ g \notin reopened
    BY <1>1, Monotone DEF SubjectsExist
  <2>2. g \in Present
    BY <2>1, StaysPresent
  <2>3. Answered(g)
    BY <1>1, <2>1, <2>2 DEF UserKnows
  <2>4. QED BY <2>1, <2>2, <2>3, AnsweredWhilePresent DEF Answered
<1>2. CASE RecordOperation /\ user.at = "record" /\ g = user.grant
  <2>1. ops' = ops \union {Len(submitted)} /\ submitted' = submitted
    BY <1>2 DEF RecordOperation, keria
  <2>2. submitted # <<>> /\ submitted[Len(submitted)] = g /\ submitted \in Seq(1..sent)
    BY <1>2 DEF SubjectsExist, TypeOK
  <2>3. Len(submitted) \in Admits
    <3>1. Len(submitted) \in Nat /\ Len(submitted) # 0
      BY <2>2, LenProperties, EmptySeq
    <3>2. QED BY <3>1 DEF Admits
  <2>4. Admits' = Admits
    BY <2>1 DEF Admits
  <2>5. QED BY <2>1, <2>2, <2>3, <2>4
<1>3. user' # UserIdle
  BY DEF UserIdle
<1>4. QED BY <1>1, <1>2, <1>3, UserSteps

\* The worker holds the offer of its operation until it has deleted it.
LEMMA WorkerKnowsHolds ==
  ASSUME TypeOK, SubjectsExist, PollerKnows, WorkerKnows, [Next]_vars
  PROVE  WorkerKnows'
<1>1. worker.at # "idle" => worker.op \in ops /\ worker.op \in done /\ worker.op \in Admits
  BY DEF SubjectsExist, TypeOK
<1>2. WorkerIdle.at = "idle"
  BY DEF WorkerIdle
<1>3. worker'.at \in {"clear", "fetch", "write"} => worker'.op \notin errored'
  <2>1. errored' \intersect done = errored
    BY Monotone
  <2>2. QED BY <1>1, <1>2, <2>1, WorkerSteps DEF WorkerKnows
<1>4. ASSUME worker'.at # "idle", worker'.op \notin errored',
             NEW g, g = submitted'[worker'.op], g \in Present', g \notin reopened'
      PROVE  worker'.at = "clear" /\ g \in worker'.old
  <2>0. errored \subseteq errored' /\ reopened \subseteq reopened'
    BY Monotone
  <2>1. ASSUME worker.at # "idle", worker'.op = worker.op
        PROVE  g = submitted[worker.op] /\ g \in Present /\ worker.at = "clear" /\ g \in worker.old
    <3>1. g = submitted[worker.op] /\ g \in delivered
      BY <1>1, <1>4, <2>1, SubmittedStep DEF SubjectsExist
    <3>2. g \in Present
      BY <1>4, <3>1, StaysPresent
    <3>3. QED BY <1>4, <2>0, <2>1, <3>1, <3>2 DEF WorkerKnows
  <2>2. CASE worker' = worker
    BY <1>4, <2>1, <2>2
  <2>3. ASSUME NEW a \in ops \intersect done, worker'.op = a, a \notin errored,
               worker'.at = "clear", worker'.old = {submitted[a]} \intersect Present,
               UNCHANGED <<submitted, notes>>
        PROVE  worker'.at = "clear" /\ g \in worker'.old
    BY <1>4, <2>3 DEF Present
  <2>4. ASSUME NEW n \in worker.old \intersect Present, worker'.op = worker.op,
               worker.at = "clear", worker'.at = "clear", worker'.old = worker.old \ {n},
               notes' = [notes EXCEPT ![n] = "none"]
        PROVE  worker'.at = "clear" /\ g \in worker'.old
    <3>1. g # n
      BY <1>4, <2>4 DEF Present, TypeOK
    <3>2. QED BY <2>1, <2>4, <3>1
  <2>5. QED BY <1>2, <1>4, <2>0, <2>1, <2>2, <2>3, <2>4, WorkerSteps
<1>5. QED BY <1>3, <1>4 DEF WorkerKnows

-----------------------------------------------------------------------------
(* The way out of a pending credential.                                    *)

\* What becomes of the credential's record.
LEMMA CredSteps ==
  ASSUME TypeOK, [Next]_vars
  PROVE  \/ cred' = cred
         \/ cred' = "revoked" /\ cred # "none"
         \/ SavePending /\ user.at = "save" /\ cred = "none" /\ cred' = "pending"
         \/ /\ cred' = "none" /\ crossed' = (crossed \/ AdmissionUnderWay)
            /\ UNCHANGED <<ops, user, worker>>
         \/ MarkConfirmed /\ cred # "none" /\ cred' = "confirmed"
BY Writers DEF MarkRevoked, SavePending, RemoveMetadata, MarkConfirmed

\* What becomes of the operations' records.
LEMMA OpsSteps ==
  ASSUME TypeOK, [Next]_vars
  PROVE  \/ ops' = ops
         \/ RecordOperation /\ user.at = "record" /\ user'.at = "accept" /\ ops' # {}
         \/ /\ FinishOperation /\ worker.at = "finish" /\ worker' = WorkerIdle
            /\ cred' = cred /\ user' = user
<1>1. RecordOperation => user.at = "record" /\ user'.at = "accept" /\ ops' # {}
  BY DEF RecordOperation, UserGoes, TypeOK
<1>2. FinishOperation => /\ worker.at = "finish" /\ worker' = WorkerIdle
                         /\ cred' = cred /\ user' = user
  BY DEF FinishOperation, credential
<1>3. QED BY <1>1, <1>2, Writers

\* An open offer stays open, is hidden as accepted, or is deleted while its
\* operation is there.
LEMMA OfferStays ==
  ASSUME TypeOK, SubjectsExist, PollerKnows, [Next]_vars, Undisturbed', AnOfferIsOpen
  PROVE  AnOfferIsOpen' \/ ops' # {} \/ (AcceptNote /\ user.at = "accept" /\ user' = UserIdle)
<1>1. PICK g \in Grants : notes[g] = "open"
  BY DEF AnOfferIsOpen
<1>2. notes \in [NoteIds -> {"none", "open", "accepted"}] /\ g \in NoteIds
  BY <1>1, NoteIdsFact DEF TypeOK
<1>3. CASE notes' = notes
  BY <1>1, <1>3 DEF AnOfferIsOpen
<1>4. ASSUME NEW n \in Present, notes' = [notes EXCEPT ![n] = "none"],
             PurgeNote(n) \/ Dismiss(n) \/ ClearNote(n)
      PROVE  AnOfferIsOpen' \/ ops' # {}
  <2>1. CASE PurgeNote(n)
    <3>1. poller.at = "purge"
      BY <2>1 DEF PurgeNote
    <3>2. QED BY <3>1, Monotone DEF PollerKnows, Undisturbed
  <2>2. CASE Dismiss(n)
    <3>1. n \notin Grants
      BY <2>2 DEF Dismiss, Undisturbed
    <3>2. notes'[g] = "open"
      BY <1>1, <1>2, <1>4, <3>1
    <3>3. QED BY <1>1, <3>2 DEF AnOfferIsOpen
  <2>3. CASE ClearNote(n)
    BY <2>3 DEF ClearNote, SubjectsExist
  <2>4. QED BY <1>4, <2>1, <2>2, <2>3
<1>5. ASSUME NEW n \in NoteIds, notes' = [notes EXCEPT ![n] = "open"]
      PROVE  AnOfferIsOpen'
  BY <1>1, <1>2, <1>5 DEF AnOfferIsOpen
<1>6. AcceptNote => user.at = "accept" /\ user' = UserIdle
  BY DEF AcceptNote
<1>7. CreateNotificationRecord => poller.grant \in NoteIds
  BY MaxGrantsAssumption DEF CreateNotificationRecord, SubjectsExist, TypeOK, NoteIds, Grants
<1>8. QED BY <1>3, <1>4, <1>5, <1>6, <1>7, NoteIdsFact, NotesStep

\* What is undisturbed after a step was so before it.
LEMMA UndisturbedBefore ==
  ASSUME TypeOK, SubjectsExist, [Next]_vars, Undisturbed'
  PROVE  Undisturbed /\ ~crossed' /\ errored = {}
BY Monotone DEF TypeOK, Undisturbed

\* A pending credential that nobody is admitting has an offer or an operation.
LEMMA PendingWaits ==
  ASSUME TypeOK, SubjectsExist, PollerKnows, PendingIsOpen, [Next]_vars, Undisturbed',
         cred' = "pending", user'.at \in {"idle", "offer", "accept"}, ops' = {}
  PROVE  user'.at # "accept" /\ AnOfferIsOpen'
<1>1. Undisturbed
  BY UndisturbedBefore
<1>2. ~SavePending
  BY DEF SavePending, UserGoes, TypeOK
<1>3. cred = "pending"
  BY <1>2, CredSteps
<1>4. ops = {}
  BY <1>1, <1>3, OpsSteps DEF PendingIsOpen
<1>5. AnOfferIsOpen /\ user.at # "accept"
  BY <1>1, <1>3, <1>4 DEF PendingIsOpen, TypeOK
<1>6. AnOfferIsOpen'
  BY <1>5, OfferStays
<1>7. user'.at # "accept"
  <2>1. ~RecordOperation
    BY <1>4, OpsSteps DEF RecordOperation
  <2>2. QED BY <1>5, <2>1, UserSteps DEF UserIdle
<1>8. QED BY <1>6, <1>7

\* While the user admits a credential, its record is not taken away.
LEMMA AdmissionKeeps ==
  ASSUME TypeOK, SubjectsExist, PendingIsOpen, [Next]_vars, Undisturbed', AdmissionUnderWay,
         cred # "none"
  PROVE  /\ cred' # "none"
         /\ cred \in {"confirmed", "revoked"} => cred' \in {"confirmed", "revoked"}
         /\ cred # "pending" => cred' # "pending"
<1>1. ~crossed'
  BY UndisturbedBefore
<1>2. QED BY <1>1, CredSteps

\* The operation that an offer or a credential relies on is removed once the
\* credential is confirmed.
LEMMA OperationStays ==
  ASSUME TypeOK, SubjectsExist, PendingIsOpen, [Next]_vars, Undisturbed', ops # {}
  PROVE  ops' # {} \/ cred' \in {"confirmed", "revoked"}
<1>1. Undisturbed
  BY UndisturbedBefore
<1>2. QED BY <1>1, OpsSteps DEF PendingIsOpen

\* The offer that is being admitted stays until its operation is recorded.
LEMMA SavingWaits ==
  ASSUME TypeOK, SubjectsExist, PollerKnows, PendingIsOpen, [Next]_vars, Undisturbed',
         user'.at = "save"
  PROVE  AnOfferIsOpen' \/ ops' # {} \/ cred' \in {"confirmed", "revoked"}
<1>1. Undisturbed
  BY UndisturbedBefore
<1>2. CASE user' = user
  <2>1. AdmissionUnderWay
    BY <1>2 DEF AdmissionUnderWay
  <2>2. AnOfferIsOpen => AnOfferIsOpen' \/ ops' # {}
    BY <1>2, OfferStays
  <2>3. cred \in {"confirmed", "revoked"} => cred' \in {"confirmed", "revoked"}
    BY <2>1, AdmissionKeeps
  <2>4. AnOfferIsOpen \/ ops # {} \/ cred \in {"confirmed", "revoked"}
    BY <1>1, <1>2 DEF PendingIsOpen
  <2>5. QED BY <2>2, <2>3, <2>4, OperationStays
<1>3. CASE AcceptOffer
  <2>1. notes[user.grant] = "open" /\ notes' = notes /\ user.grant \in 1..sent
    BY <1>3 DEF AcceptOffer, SubjectsExist, TypeOK
  <2>2. user.grant \in Grants
    BY <2>1, MaxGrantsAssumption DEF Grants, TypeOK
  <2>3. QED BY <2>1, <2>2 DEF AnOfferIsOpen
<1>4. user' # UserIdle
  BY DEF UserIdle
<1>5. QED BY <1>2, <1>3, <1>4, UserSteps

\* The same while the admit is submitted and recorded.
LEMMA SubmittingWaits ==
  ASSUME TypeOK, SubjectsExist, PollerKnows, PendingIsOpen, [Next]_vars, Undisturbed',
         user'.at \in {"submit", "record"}
  PROVE  AnOfferIsOpen' \/ ops' # {} \/ cred' # "pending"
<1>1. Undisturbed
  BY UndisturbedBefore
<1>2. CASE user' = user
  <2>1. AdmissionUnderWay
    BY <1>2 DEF AdmissionUnderWay
  <2>2. AnOfferIsOpen => AnOfferIsOpen' \/ ops' # {}
    BY <1>2, OfferStays
  <2>3. cred # "pending" => cred' # "pending"
    BY <1>1, <1>2, <2>1, AdmissionKeeps DEF PendingIsOpen
  <2>4. AnOfferIsOpen \/ ops # {} \/ cred # "pending"
    BY <1>1, <1>2 DEF PendingIsOpen
  <2>5. QED BY <2>2, <2>3, <2>4, OperationStays
<1>3. CASE SavePending
  <2>1. notes' = notes /\ ops' = ops /\ user.at = "save"
        /\ (cred \in {"confirmed", "revoked"} => cred' = cred)
    BY <1>3 DEF SavePending
  <2>2. QED BY <1>1, <2>1 DEF PendingIsOpen, AnOfferIsOpen
<1>4. CASE SubmitAdmit
  <2>1. notes' = notes /\ ops' = ops /\ cred' = cred /\ user.at = "submit"
    BY <1>4 DEF SubmitAdmit, credential
  <2>2. QED BY <1>1, <2>1 DEF PendingIsOpen, AnOfferIsOpen
<1>5. user' # UserIdle
  BY DEF UserIdle
<1>6. QED BY <1>2, <1>3, <1>4, <1>5, UserSteps

\* An admission under way has its record once that was saved.
LEMMA AdmissionHasRecord ==
  ASSUME TypeOK, SubjectsExist, PendingIsOpen, [Next]_vars, Undisturbed', AdmissionUnderWay'
  PROVE  cred' # "none" \/ (ops' = {} /\ user'.at = "save")
<1>1. Undisturbed
  BY UndisturbedBefore
<1>2. CASE AdmissionUnderWay /\ cred # "none"
  BY <1>2, AdmissionKeeps
<1>3. CASE ops = {} /\ user.at \notin {"submit", "record"} /\ ~SavePending
  <2>1. ops' = {}
    BY <1>1, <1>3, OpsSteps DEF SubjectsExist
  <2>2. user'.at \notin {"submit", "record"}
    BY <1>3, UserSteps DEF UserIdle
  <2>3. QED BY <2>1, <2>2 DEF AdmissionUnderWay
<1>4. CASE SavePending
  BY <1>4 DEF SavePending
<1>5. AdmissionUnderWay /\ cred = "none" => ops = {} /\ user.at = "save"
  BY <1>1 DEF PendingIsOpen
<1>6. QED BY <1>2, <1>3, <1>4, <1>5 DEF AdmissionUnderWay

\* The worker finishes an operation with the credential confirmed or revoked.
LEMMA FinishHasCredential ==
  ASSUME TypeOK, SubjectsExist, PendingIsOpen, [Next]_vars, Undisturbed', worker'.at = "finish"
  PROVE  cred' \in {"confirmed", "revoked"}
<1>1. Undisturbed /\ errored = {}
  BY UndisturbedBefore
<1>2. ASSUME worker.at # "idle"
      PROVE  AdmissionUnderWay /\ cred # "none"
  <2>1. ops # {}
    BY <1>2 DEF SubjectsExist
  <2>2. QED BY <1>1, <2>1 DEF AdmissionUnderWay, PendingIsOpen
<1>3. CASE worker' = worker
  BY <1>1, <1>2, <1>3, AdmissionKeeps DEF PendingIsOpen
<1>4. CASE MarkConfirmed
  BY <1>2, <1>4 DEF MarkConfirmed
<1>5. CASE ReadMetadata /\ cred = "none"
  BY <1>2, <1>5 DEF ReadMetadata
<1>6. worker' # WorkerIdle
  BY DEF WorkerIdle
<1>7. QED BY <1>1, <1>3, <1>4, <1>5, <1>6, WorkerSteps

\* A pending credential has a way out, as long as nothing comes in between.
LEMMA PendingHolds ==
  ASSUME TypeOK, SubjectsExist, PollerKnows, PendingIsOpen, [Next]_vars
  PROVE  PendingIsOpen'
BY PendingWaits, SavingWaits, SubmittingWaits, AdmissionHasRecord, FinishHasCredential
DEF PendingIsOpen

-----------------------------------------------------------------------------
(* The theorems.                                                           *)

\* The invariant holds when the application is opened for the first time.
LEMMA InitHolds == Init => IInv
<1> SUFFICES ASSUME Init
             PROVE  IInv
  OBVIOUS
<1>1. Present = {} /\ Admits = {} /\ submitted \in Seq(1..sent) /\ Len(submitted) = 0
  BY EmptySeq DEF Init, Present, Admits
<1>2. TypeOK
  <2>1. /\ sent = 0 /\ marked = {} /\ done = {} /\ errored = {} /\ arrived = {} /\ ops = {}
        /\ acked = 0 /\ owed = {} /\ delivered = {} /\ reopened = {} /\ faults = 0
    BY DEF Init
  <2>2. /\ notes \in [NoteIds -> {"none", "open", "accepted"}] /\ cred \in Statuses
        /\ tel \in {"iss", "rev"} /\ available \in BOOLEAN /\ deleting \in BOOLEAN
        /\ removal \in {"idle", "keria", "local"}
        /\ declined \in BOOLEAN /\ told \in BOOLEAN /\ crossed \in BOOLEAN
    BY DEF Init, Statuses
  <2>3. poller \in [at : {"idle", "credential", "tel", "notes", "purge", "revoke",
                          "notice", "mark", "create", "throw", "settle"},
                    grant : 0..sent, again : BOOLEAN, seen : Statuses,
                    tel : {"iss", "rev"}, old : SUBSET NoteIds]
    BY <2>1 DEF Init, PollerIdle, Statuses
  <2>4. user \in [at : {"idle", "offer", "save", "submit", "record", "accept"}, grant : 0..sent]
    BY <2>1 DEF Init, UserIdle
  <2>5. worker \in [at : {"idle", "clear", "fetch", "write", "finish"},
                    op : 0..Len(submitted), old : SUBSET NoteIds, kept : BOOLEAN]
    BY <1>1 DEF Init, WorkerIdle
  <2>6. QED BY <1>1, <2>1, <2>2, <2>3, <2>4, <2>5, MaxGrantsAssumption, MaxAdmitsAssumption,
             MaxFaultsAssumption DEF TypeOK
<1>3. SubjectsExist /\ OneNote /\ PollerKnows /\ PollerDelivers
  BY <1>1, NoteIdsFact
  DEF Init, SubjectsExist, OneNote, PollerKnows, PollerDelivers, PollerIdle, UserIdle, WorkerIdle
<1>4. UserKnows /\ WorkerKnows /\ AcceptedHasOperation /\ PendingIsOpen
  BY NoteIdsFact
  DEF Init, UserKnows, WorkerKnows, AcceptedHasOperation, PendingIsOpen, PollerIdle, UserIdle,
      WorkerIdle, AdmissionUnderWay
<1>5. QED BY <1>2, <1>3, <1>4 DEF IInv

\* Every step keeps the invariant.
LEMMA StepHolds == IInv /\ [Next]_vars => IInv'
BY TypesHold, SubjectsHold, OneNoteHolds, PollerKnowsHolds, PollerDeliversHolds, AcceptedHolds,
   UserKnowsHolds, WorkerKnowsHolds, PendingHolds
DEF IInv

\* The inductive invariant: who may create a notification, what the marker
\* covers, and what an answered or a pending credential rests on.
THEOREM Inductive == Spec => []IInv
BY InitHolds, StepHolds, PTL DEF Spec

\* The variables stay in their types.
THEOREM TypeCorrect == Spec => []TypeOK
<1>1. IInv => TypeOK
  BY DEF IInv
<1>2. QED BY <1>1, Inductive, PTL

\* A notification is hidden as accepted only while the operation that will
\* delete it is recorded, or has failed, in whatever order admitAcdcFromGrant
\* and processOperation interleave, fail or are killed.
THEOREM AcceptedAreAnswered == Spec => []AcceptedHasOperation
<1>1. IInv => AcceptedHasOperation
  BY DEF IInv
<1>2. QED BY <1>1, Inductive, PTL

\* However often a grant is delivered or issued, the user is shown one
\* notification of the credential.
THEOREM OffersAreOne == Spec => []OneNotePerCredential
<1>1. IInv => OneNotePerCredential
  <2> SUFFICES ASSUME IInv
               PROVE  Cardinality(Present) <= 1
    BY DEF OneNotePerCredential
  <2>1. CASE Present = {}
    <3>1. Cardinality(Present) = 0
      BY <2>1, FS_EmptySet
    <3>2. QED BY <3>1
  <2>2. ASSUME NEW n \in Present
        PROVE  Cardinality(Present) <= 1
    <3>1. Present = {n}
      BY <2>2 DEF IInv, OneNote
    <3>2. Cardinality({n}) = 1
      BY FS_Singleton
    <3>3. QED BY <3>1, <3>2
  <2>3. QED BY <2>1, <2>2
<1>2. QED BY <1>1, Inductive, PTL

\* While the issuer has not revoked it, a pending credential can still be
\* admitted: an offer of it or an operation is left, whatever failed.
THEOREM PendingCanBeAdmitted == Spec => []PendingHasAWayOutUntilRevoked
<1>1. IInv => PendingHasAWayOutUntilRevoked
  <2> SUFFICES ASSUME IInv, tel = "iss", cred = "pending", ~declined, ~crossed, errored = {}
               PROVE  CanStillBeAdmitted
    BY DEF PendingHasAWayOutUntilRevoked, PendingIsAnswered
  <2>1. Undisturbed /\ PendingIsOpen
    BY DEF Undisturbed, IInv
  <2>2. user.at \in {"idle", "offer", "save", "submit", "record", "accept"}
    BY DEF IInv, TypeOK
  <2>3. CASE user.at = "save"
    BY <2>1, <2>3 DEF PendingIsOpen, AnOfferIsOpen, CanStillBeAdmitted
  <2>4. CASE user.at \in {"idle", "offer", "accept"}
    BY <2>1, <2>4 DEF PendingIsOpen, AnOfferIsOpen, CanStillBeAdmitted
  <2>5. QED BY <2>2, <2>3, <2>4 DEF CanStillBeAdmitted
<1>2. QED BY <1>1, Inductive, PTL

-----------------------------------------------------------------------------
(* The poller keeps the contract of NotificationDelivery.                  *)

\* The contract sees these variables only.
contractState == <<sent, delivered, owed, acked>>

\* A step that leaves them alone is a stutter of the contract.
LEMMA StutterStep ==
  ASSUME UNCHANGED contractState
  PROVE  UNCHANGED Delivery!contractVars
BY DEF contractState, Delivery!contractVars

\* Which steps the contract sees.
LEMMA ContractSteps ==
  ASSUME TypeOK, [Next]_vars
  PROVE  \/ UNCHANGED contractState
         \/ SendGrant \/ MarkNotification \/ CreateNotificationRecord \/ Throw \/ Settle \/ Rewind
         \/ \E g \in Grants : Fetch(g)
BY Writers DEF contractState

\* A settled grant moves the marker, or leaves the retry queue.
LEMMA SettleImplements ==
  ASSUME IInv, Settle
  PROVE  Delivery!Next
<1>1. /\ poller.at = "settle" /\ poller.grant \in 1..sent /\ PollerDelivers
      /\ UNCHANGED <<sent, delivered>> /\ sent \in 0..MaxGrants /\ acked \in 0..sent
  BY DEF Settle, IInv, SubjectsExist, TypeOK, keria
<1>2. CASE poller.again /\ owed' = owed \ {poller.grant} /\ acked' = acked
  <2>1. Delivery!Settle(poller.grant)
    BY <1>1, <1>2 DEF Delivery!Settle, PollerDelivers
  <2>2. poller.grant \in Grants
    BY <1>1, MaxGrantsAssumption DEF Grants
  <2>3. QED BY <2>1, <2>2 DEF Delivery!Next
<1>3. CASE ~poller.again /\ acked' = poller.grant /\ owed' = owed
  <2>1. acked' = acked + 1 /\ acked + 1 \in 1..sent /\ acked + 1 \in delivered \union owed
    BY <1>1, <1>3 DEF PollerDelivers
  <2>2. \A i \in 1..acked + 1 : i \in 1..acked \/ i = acked + 1
    BY <1>1
  <2>3. 1..acked' \subseteq delivered \union owed
    BY <1>1, <2>1, <2>2 DEF PollerDelivers
  <2>4. 1..acked' \subseteq 1..sent /\ 1..acked \subseteq 1..acked' /\ 1..acked' \subseteq Grants
    BY <1>1, <2>1, MaxGrantsAssumption DEF Grants
  <2>5. Delivery!Acknowledge(1..acked')
    BY <1>1, <1>3, <2>3, <2>4 DEF Delivery!Acknowledge
  <2>6. QED BY <2>4, <2>5 DEF Delivery!Next
<1>4. QED BY <1>2, <1>3 DEF Settle

\* Every step is a step of the contract or a stutter of it.
LEMMA StepImplements == IInv /\ [Next]_vars => [Delivery!Next]_(Delivery!contractVars)
<1> SUFFICES ASSUME IInv, [Next]_vars
             PROVE  Delivery!Next \/ UNCHANGED Delivery!contractVars
  OBVIOUS
<1>1. TypeOK /\ SubjectsExist /\ sent \in 0..MaxGrants
  BY DEF IInv, TypeOK
<1>2. poller.at # "idle" => poller.grant \in 1..sent /\ poller.grant \in Grants
  BY <1>1, MaxGrantsAssumption DEF SubjectsExist, Grants
<1>3. CASE SendGrant
  <2>1. /\ sent' = sent + 1 /\ UNCHANGED <<delivered, owed, acked>>
        /\ sent + 1 \in Grants /\ sent + 1 \notin 1..sent
    BY <1>1, <1>3, MaxGrantsAssumption DEF SendGrant, Grants, queue
  <2>2. 1..sent' = (1..sent) \union {sent + 1}
    BY <1>1, <2>1
  <2>3. Delivery!Publish(sent + 1)
    BY <2>1, <2>2 DEF Delivery!Publish
  <2>4. QED BY <2>1, <2>3 DEF Delivery!Next
<1>4. CASE MarkNotification \/ CreateNotificationRecord
  <2>1. Delivery!Deliver(poller.grant)
    BY <1>2, <1>4 DEF MarkNotification, CreateNotificationRecord, Delivery!Deliver, keria
  <2>2. QED BY <1>2, <1>4, <2>1 DEF MarkNotification, CreateNotificationRecord, Delivery!Next
<1>5. ASSUME NEW g \in Grants, Fetch(g)
      PROVE  Delivery!Next \/ UNCHANGED Delivery!contractVars
  <2>1. /\ UNCHANGED <<sent, owed, acked>> /\ g \in 1..sent
        /\ delivered' = delivered \union {g} \/ delivered' = delivered
    BY <1>1, <1>5 DEF Fetch, keria, Grants
  <2>2. CASE delivered' = delivered \union {g}
    BY <2>1, <2>2 DEF Delivery!Deliver, Delivery!Next
  <2>3. CASE delivered' = delivered
    BY <2>1, <2>3, StutterStep DEF contractState
  <2>4. QED BY <2>1, <2>2, <2>3
<1>6. CASE Throw
  <2>1. Delivery!Owe(poller.grant)
    BY <1>2, <1>6 DEF Throw, Delivery!Owe, keria
  <2>2. QED BY <1>2, <1>6, <2>1 DEF Throw, Delivery!Next
<1>7. CASE Rewind
  <2>1. acked' = 0 /\ UNCHANGED <<sent, delivered, owed>>
    BY <1>7 DEF Rewind, keria
  <2>2. 1..acked' = {}
    BY <2>1
  <2>3. Delivery!Rewind
    BY <2>1, <2>2 DEF Delivery!Rewind
  <2>4. QED BY <2>3 DEF Delivery!Next
<1>8. QED BY <1>1, <1>3, <1>4, <1>5, <1>6, <1>7, SettleImplements, StutterStep, ContractSteps

\* The poller of the grants, with its marker, its retries and its rewinds, keeps
\* the at-least-once contract that its loop implements.
THEOREM GrantsAreDelivered == Spec => DeliveredAtLeastOnce
<1>1. Init => Delivery!Init
  <2>1. Init => 1..sent = {} /\ 1..acked = {}
    BY DEF Init
  <2>2. QED BY <2>1 DEF Init, Delivery!Init
<1>2. QED BY <1>1, StepImplements, Inductive, PTL DEF Spec, DeliveredAtLeastOnce, Delivery!Spec

-----------------------------------------------------------------------------
(* Revocation, without faults.                                             *)

\* The runs in which a revocation is promised to be final.
Calm == faults = 0 /\ ~crossed

\* Without faults no grant is delivered twice.
GrantsOnce ==
  /\ errored = {} /\ reopened = {}
  /\ \A g \in delivered : g <= acked \/ (poller.at = "settle" /\ g = poller.grant)
  /\ \A g \in owed :
       g <= acked \/ (poller.at = "settle" /\ ~poller.again /\ g = poller.grant)
  /\ \A g \in owed \intersect delivered :
       poller.at = "settle" /\ poller.again /\ g = poller.grant
  /\ poller.at \notin {"idle", "settle"} => poller.grant \notin delivered

\* There is one admission at a time, of a credential that is new when it starts
\* and pending until its operation is processed.
OneAdmission ==
  /\ \A a, b \in ops : a = b
  /\ user.at = "save" => cred = "none" /\ ops = {}
  /\ user.at \in {"submit", "record"} => cred = "pending" /\ ops = {}
  /\ ops # {} => cred = "pending" \/ (worker.at = "finish" /\ cred # "none")

\* An offer that can be accepted is of a credential that is not there, but for
\* the one that is being accepted.
OfferIsNew ==
  /\ tel = "iss" /\ AnOfferIsOpen =>
       \/ cred = "none" /\ ops = {}
       \/ user.at \in {"submit", "record", "accept"} /\ notes[user.grant] = "open"
  /\ user.at = "offer" /\ notes[user.grant] = "open" => cred = "none" /\ ops = {}
  /\ tel = "iss" /\ user.at \in {"save", "submit", "record"} => notes[user.grant] = "open"

\* The poller revokes a credential that was confirmed, and nothing admits that
\* one anew.
NoneIsAdmitted ==
  /\ cred # "pending"
  /\ user.at \notin {"save", "submit", "record"}
  /\ ~(user.at = "offer" /\ notes[user.grant] = "open")
  /\ ~(tel = "iss" /\ AnOfferIsOpen)

PollerSaw ==
  /\ poller.at = "revoke" => poller.seen = "confirmed"
  /\ poller.at = "create" /\ poller.tel = "iss" => poller.seen = "none"
  /\ poller.at \in {"tel", "notes", "purge", "revoke"} /\ poller.seen = "confirmed" =>
       NoneIsAdmitted

CalmInv == Calm => GrantsOnce /\ OneAdmission /\ OfferIsNew /\ PollerSaw

\* A step of such a run is none of the faults.
LEMMA CalmStep ==
  ASSUME TypeOK, [Next]_vars, Calm'
  PROVE  Calm /\ ~Fails /\ ~Fault
<1>1. Fault => faults' # 0
  BY DEF Fault, TypeOK
<1>2. ~Fault /\ ~Fails
  BY <1>1, FailsWrite DEF Calm
<1>3. faults' = faults
  <2>1. UNCHANGED vars => faults' = faults
    BY DEF vars
  <2>2. Keria => faults' = faults
    BY <1>2, KeriaWrites DEF CompleteAdmit
  <2>3. Choices => faults' = faults
    BY <1>2, ChoicesWrite DEF Dismiss
  <2>4. QED BY <1>2, <2>1, <2>2, <2>3, NextCases, PollWrites, AdmitWrites, WorkWrites, RemoveWrites
<1>4. ~crossed
  BY Writers DEF CreateNotificationRecord, RemoveMetadata, Calm
<1>5. QED BY <1>2, <1>3, <1>4 DEF Calm

\* What becomes of the marker, the retry queue and the deliveries.
LEMMA QueueSteps ==
  ASSUME TypeOK, [Next]_vars, ~Fails
  PROVE  \/ poller' = poller /\ UNCHANGED <<acked, owed, delivered, reopened>>
         \/ /\ poller.at = "idle" /\ UNCHANGED <<acked, owed, reopened>>
            /\ ~poller'.again /\ poller'.grant = acked + 1
            /\ \/ poller'.at = "settle" /\ delivered' = delivered \union {acked + 1}
               \/ poller'.at = "credential" /\ delivered' = delivered
         \/ /\ poller.at = "idle" /\ UNCHANGED <<acked, owed, delivered, reopened>>
            /\ poller'.at = "credential" /\ poller'.again /\ poller'.grant \in owed
         \/ /\ poller.at \notin {"idle", "settle"} /\ UNCHANGED acked
            /\ poller'.grant = poller.grant /\ poller'.again = poller.again
            /\ \/ /\ poller'.at \notin {"idle", "settle"}
                  /\ UNCHANGED <<owed, delivered, reopened>>
               \/ /\ poller'.at = "settle" /\ UNCHANGED owed
                  /\ delivered' = delivered \union {poller.grant}
                  /\ \/ UNCHANGED reopened
                     \/ reopened' =
                          reopened \union (({poller.grant} \intersect delivered) \ Present)
               \/ /\ poller'.at = "settle" /\ owed' = owed \union {poller.grant} /\ ~poller.again
                  /\ UNCHANGED <<delivered, reopened>>
         \/ /\ poller.at \notin {"idle", "settle"} /\ poller'.at = "idle" /\ poller.again
            /\ owed' = owed \union {poller.grant} /\ UNCHANGED <<acked, delivered, reopened>>
         \/ /\ poller.at = "settle" /\ poller'.at = "idle" /\ UNCHANGED <<delivered, reopened>>
            /\ \/ poller.again /\ owed' = owed \ {poller.grant} /\ UNCHANGED acked
               \/ ~poller.again /\ acked' = poller.grant /\ UNCHANGED owed
<1>1. CASE UNCHANGED vars \/ Keria \/ Choices \/ Admit \/ Work \/ Remove
  BY <1>1, KeriaWrites, ChoicesWrite, AdmitWrites, WorkWrites, RemoveWrites
  DEF vars, queue, history
<1>2. ASSUME NEW g \in Grants, Fetch(g)
      PROVE  /\ poller.at = "idle" /\ UNCHANGED <<acked, owed, reopened>>
             /\ ~poller'.again /\ poller'.grant = acked + 1
             /\ \/ poller'.at = "settle" /\ delivered' = delivered \union {acked + 1}
                \/ poller'.at = "credential" /\ delivered' = delivered
  <2>1. /\ poller.at = "idle" /\ UNCHANGED <<acked, owed, reopened>> /\ g = acked + 1
        /\ \/ /\ poller' = [PollerIdle EXCEPT !.at = "settle", !.grant = g]
              /\ delivered' = delivered \union {g}
           \/ /\ poller' = [PollerIdle EXCEPT !.at = "credential", !.grant = g]
              /\ delivered' = delivered
    BY <1>2 DEF Fetch, history
  <2>2. QED BY <2>1 DEF PollerIdle
<1>3. ASSUME NEW g \in Grants, Retry(g)
      PROVE  /\ poller.at = "idle" /\ UNCHANGED <<acked, owed, delivered, reopened>>
             /\ poller'.at = "credential" /\ poller'.again /\ poller'.grant \in owed
  <2>1. /\ poller.at = "idle" /\ UNCHANGED <<acked, owed, delivered, reopened>> /\ g \in owed
        /\ poller' = [PollerIdle EXCEPT !.at = "credential", !.grant = g, !.again = TRUE]
    BY <1>3 DEF Retry, queue, history
  <2>2. QED BY <2>1 DEF PollerIdle
<1>4. ASSUME ReadCredential \/ ReadTel \/ ReadNotes \/ PurgeDone \/ MarkRevoked \/ SaveNotice
             \/ \E n \in NoteIds : PurgeNote(n)
      PROVE  /\ poller.at \notin {"idle", "settle"}
             /\ UNCHANGED <<acked, owed, delivered, reopened>>
             /\ poller'.at \notin {"idle", "settle"}
             /\ poller'.grant = poller.grant /\ poller'.again = poller.again
  <2>1. poller.at \notin {"idle", "settle"} /\ UNCHANGED <<acked, owed, delivered, reopened>>
    BY <1>4 DEF ReadCredential, ReadTel, ReadNotes, PurgeDone, MarkRevoked, SaveNotice, PurgeNote,
       queue, history
  <2>2. CASE ReadCredential
    BY <2>1, <2>2 DEF ReadCredential, TypeOK
  <2>3. CASE ReadTel
    BY <2>1, <2>3 DEF ReadTel, TypeOK
  <2>4. CASE ReadNotes
    <3>1. CASE poller.tel = "rev"
      BY <2>1, <2>4, <3>1 DEF ReadNotes, TypeOK
    <3>2. CASE poller.tel # "rev"
      BY <2>1, <2>4, <3>2, PollerGoing DEF ReadNotes
    <3>3. QED BY <3>1, <3>2
  <2>5. CASE PurgeDone
    BY <2>1, <2>5, PollerGoing DEF PurgeDone
  <2>6. CASE MarkRevoked
    BY <2>1, <2>6, PollerGoing DEF MarkRevoked
  <2>7. CASE SaveNotice
    BY <2>1, <2>7, PollerGoing DEF SaveNotice
  <2>8. ASSUME NEW n \in NoteIds, PurgeNote(n)
        PROVE  /\ poller'.at \notin {"idle", "settle"}
               /\ poller'.grant = poller.grant /\ poller'.again = poller.again
    <3>1. poller' = [poller EXCEPT !.old = @ \ {n}] \/ PollerGoes("throw")
      BY <2>8 DEF PurgeNote
    <3>2. CASE PollerGoes("throw")
      BY <3>2, PollerGoing
    <3>3. CASE poller' = [poller EXCEPT !.old = @ \ {n}]
      BY <2>1, <3>3 DEF TypeOK
    <3>4. QED BY <3>1, <3>2, <3>3
  <2>9. QED BY <1>4, <2>1, <2>2, <2>3, <2>4, <2>5, <2>6, <2>7, <2>8
<1>5. ASSUME MarkNotification \/ CreateNotificationRecord
      PROVE  /\ poller.at \notin {"idle", "settle"} /\ UNCHANGED <<acked, owed>>
             /\ poller'.grant = poller.grant /\ poller'.again = poller.again
             /\ poller'.at = "settle" /\ delivered' = delivered \union {poller.grant}
             /\ \/ UNCHANGED reopened
                \/ reopened' = reopened \union (({poller.grant} \intersect delivered) \ Present)
  BY <1>5, PollerGoing DEF MarkNotification, CreateNotificationRecord
<1>6. ASSUME Throw
      PROVE  /\ poller.at \notin {"idle", "settle"} /\ UNCHANGED <<acked, delivered, reopened>>
             /\ owed' = owed \union {poller.grant}
             /\ \/ poller.again /\ poller'.at = "idle"
                \/ /\ ~poller.again /\ poller'.at = "settle"
                   /\ poller'.grant = poller.grant /\ poller'.again = poller.again
  <2>1. /\ poller.at = "throw" /\ UNCHANGED <<acked, delivered, reopened>>
        /\ owed' = owed \union {poller.grant}
    BY <1>6 DEF Throw, history
  <2>2. (poller.again /\ poller' = PollerIdle) \/ (~poller.again /\ PollerGoes("settle"))
    BY <1>6 DEF Throw, PollerGoes, TypeOK
  <2>3. QED BY <2>1, <2>2, PollerGoing DEF PollerIdle
<1>7. ASSUME Settle
      PROVE  /\ poller.at = "settle" /\ poller'.at = "idle" /\ UNCHANGED <<delivered, reopened>>
             /\ \/ poller.again /\ owed' = owed \ {poller.grant} /\ UNCHANGED acked
                \/ ~poller.again /\ acked' = poller.grant /\ UNCHANGED owed
  BY <1>7 DEF Settle, PollerIdle, history
<1>8. QED BY <1>1, <1>2, <1>3, <1>4, <1>5, <1>6, <1>7, NextCases DEF Poll

\* A grant is put off before it is delivered, or delivered, but not both.
LEMMA GrantsOnceHolds ==
  ASSUME TypeOK, PollerDelivers, GrantsOnce, [Next]_vars, ~Fails, ~Fault
  PROVE  GrantsOnce'
<1>1. errored' = {}
  BY Writers DEF CompleteAdmit, GrantsOnce
<1>2. /\ acked \in Nat /\ owed \subseteq Nat /\ delivered \subseteq Nat /\ poller.grant \in Nat
      /\ errored = {} /\ reopened = {}
  BY DEF TypeOK, GrantsOnce
<1>3. CASE poller' = poller /\ UNCHANGED <<acked, owed, delivered, reopened>>
  BY <1>1, <1>3 DEF GrantsOnce
<1>4. CASE /\ poller.at = "idle" /\ UNCHANGED <<acked, owed, reopened>>
           /\ ~poller'.again /\ poller'.grant = acked + 1
           /\ \/ poller'.at = "settle" /\ delivered' = delivered \union {acked + 1}
              \/ poller'.at = "credential" /\ delivered' = delivered
  <2>1. /\ \A g \in delivered : g <= acked
        /\ \A g \in owed : g <= acked /\ g \notin delivered
    BY <1>4 DEF GrantsOnce
  <2>2. acked + 1 \notin owed /\ acked + 1 \notin delivered
    BY <1>2, <2>1
  <2>3. QED BY <1>1, <1>2, <1>4, <2>1, <2>2 DEF GrantsOnce
<1>5. CASE /\ poller.at = "idle" /\ UNCHANGED <<acked, owed, delivered, reopened>>
           /\ poller'.at = "credential" /\ poller'.again /\ poller'.grant \in owed
  BY <1>1, <1>2, <1>5 DEF GrantsOnce
<1>6. CASE /\ poller.at \notin {"idle", "settle"} /\ UNCHANGED acked
           /\ poller'.grant = poller.grant /\ poller'.again = poller.again
           /\ \/ /\ poller'.at \notin {"idle", "settle"}
                 /\ UNCHANGED <<owed, delivered, reopened>>
              \/ /\ poller'.at = "settle" /\ UNCHANGED owed
                 /\ delivered' = delivered \union {poller.grant}
                 /\ \/ UNCHANGED reopened
                    \/ reopened' = reopened \union (({poller.grant} \intersect delivered) \ Present)
              \/ /\ poller'.at = "settle" /\ owed' = owed \union {poller.grant} /\ ~poller.again
                 /\ UNCHANGED <<delivered, reopened>>
  <2>1. /\ \A g \in delivered : g <= acked
        /\ \A g \in owed : g <= acked /\ g \notin delivered
        /\ poller.grant \notin delivered
    BY <1>6 DEF GrantsOnce
  <2>2. ~poller.again => poller.grant \notin owed
    BY <1>2, <1>6, <2>1 DEF PollerDelivers
  <2>3. reopened' = {}
    BY <1>2, <1>6, <2>1
  <2>4. QED BY <1>1, <1>2, <1>6, <2>1, <2>2, <2>3 DEF GrantsOnce
<1>7. CASE /\ poller.at \notin {"idle", "settle"} /\ poller'.at = "idle" /\ poller.again
           /\ owed' = owed \union {poller.grant} /\ UNCHANGED <<acked, delivered, reopened>>
  <2>1. owed' = owed
    BY <1>7 DEF PollerDelivers
  <2>2. QED BY <1>1, <1>2, <1>7, <2>1 DEF GrantsOnce
<1>8. CASE /\ poller.at = "settle" /\ poller'.at = "idle" /\ UNCHANGED <<delivered, reopened>>
           /\ \/ poller.again /\ owed' = owed \ {poller.grant} /\ UNCHANGED acked
              \/ ~poller.again /\ acked' = poller.grant /\ UNCHANGED owed
  <2>1. CASE poller.again /\ owed' = owed \ {poller.grant} /\ UNCHANGED acked
    <3>1. poller.grant <= acked
      BY <1>8, <2>1 DEF GrantsOnce, PollerDelivers
    <3>2. QED BY <1>1, <1>2, <1>8, <2>1, <3>1 DEF GrantsOnce
  <2>2. CASE ~poller.again /\ acked' = poller.grant /\ UNCHANGED owed
    <3>1. poller.grant = acked + 1
      BY <1>8, <2>2 DEF PollerDelivers
    <3>2. QED BY <1>1, <1>2, <1>8, <2>2, <3>1 DEF GrantsOnce
  <2>3. QED BY <1>8, <2>1, <2>2
<1>9. QED BY <1>3, <1>4, <1>5, <1>6, <1>7, <1>8, QueueSteps

\* What the steps of such a run do to the credential.
LEMMA CalmCred ==
  ASSUME TypeOK, SubjectsExist, PollerSaw, OneAdmission, [Next]_vars, ~crossed', ~Fails
  PROVE  \/ cred' = cred
         \/ cred' = "revoked" /\ cred \notin {"none", "pending"}
         \/ SavePending /\ user.at = "save" /\ cred = "none" /\ cred' = "pending" /\ ops = {}
         \/ cred' = "none" /\ ~AdmissionUnderWay
         \/ MarkConfirmed /\ worker.at = "write" /\ ops # {} /\ cred = "pending"
            /\ cred' = "confirmed" /\ worker'.at = "finish"
<1>1. cred' = "revoked" /\ cred' # cred => cred # "pending"
  BY Writers DEF MarkRevoked, SavePending, RemoveMetadata, MarkConfirmed, PollerSaw, NoneIsAdmitted
<1>2. MarkConfirmed => worker.at = "write" /\ ops # {} /\ worker'.at = "finish"
  BY DEF MarkConfirmed, WorkerGoes, TypeOK, SubjectsExist
<1>3. QED BY <1>1, <1>2, CredSteps DEF OneAdmission

\* The worker that has confirmed the credential ends with the operation.
LEMMA FinishEmpties ==
  ASSUME TypeOK, SubjectsExist, OneAdmission, [Next]_vars, ~Fails, worker.at = "finish", ops # {}
  PROVE  worker' = worker \/ ops' = {}
<1>1. CASE Work
  <2>1. FinishOperation
    BY <1>1 DEF Work, TakeOperation, ClearNote, ReadMetadata, EnsureCredentialAvailable,
       MarkConfirmed
  <2>2. QED BY <2>1 DEF FinishOperation, SubjectsExist, OneAdmission
<1>2. CASE ~Work
  BY <1>2, NextCases, KeriaWrites, ChoicesWrite, PollWrites, AdmitWrites, RemoveWrites DEF vars
<1>3. QED BY <1>1, <1>2

\* An admission starts from an offer of a credential that is not there.
LEMMA OneAdmissionHolds ==
  ASSUME TypeOK, SubjectsExist, PollerSaw, OneAdmission, OfferIsNew, [Next]_vars, ~crossed', ~Fails
  PROVE  OneAdmission'
<1>1. \A a, b \in ops' : a = b
  <2>1. CASE UNCHANGED ops
    BY <2>1 DEF OneAdmission
  <2>2. CASE RecordOperation
    BY <2>2 DEF RecordOperation, OneAdmission
  <2>3. CASE FinishOperation
    BY <2>3 DEF FinishOperation, OneAdmission
  <2>4. QED BY <2>1, <2>2, <2>3, Writers
<1>2. user'.at = user.at /\ ops = {} /\ user.at # "record" => ops' = {}
  BY Writers DEF RecordOperation, FinishOperation
<1>3. ASSUME user'.at = "save"
      PROVE  cred' = "none" /\ ops' = {}
  <2>1. CASE user' = user
    <3>1. cred = "none" /\ ops = {} /\ user.at = "save"
      BY <1>3, <2>1 DEF OneAdmission
    <3>2. ~SavePending
      BY <1>3, <2>1 DEF SavePending, UserGoes, TypeOK
    <3>3. cred' = "none"
      BY <3>1, <3>2, CalmCred
    <3>4. QED BY <1>2, <2>1, <3>1, <3>3
  <2>2. CASE AcceptOffer
    BY <2>2 DEF AcceptOffer, OfferIsNew, credential
  <2>3. QED BY <1>3, <2>1, <2>2, UserSteps DEF UserIdle
<1>4. ASSUME user'.at \in {"submit", "record"}
      PROVE  cred' = "pending" /\ ops' = {}
  <2>1. CASE user' = user
    <3>1. cred = "pending" /\ ops = {} /\ AdmissionUnderWay
      BY <1>4, <2>1 DEF OneAdmission, AdmissionUnderWay
    <3>2. cred' = "pending"
      BY <3>1, CalmCred
    <3>3. ~RecordOperation
      BY <1>4, <2>1 DEF RecordOperation, UserGoes, TypeOK
    <3>4. ops' = {}
      BY <3>1, <3>3, Writers DEF FinishOperation
    <3>5. QED BY <3>2, <3>4
  <2>2. CASE SavePending /\ user.at = "save"
    BY <2>2 DEF SavePending, OneAdmission
  <2>3. CASE SubmitAdmit /\ user.at = "submit"
    BY <2>3 DEF SubmitAdmit, OneAdmission, credential
  <2>4. QED BY <1>4, <2>1, <2>2, <2>3, UserSteps DEF UserIdle
<1>5. ASSUME ops' # {}
      PROVE  cred' = "pending" \/ (worker'.at = "finish" /\ cred' # "none")
  <2>1. CASE ops' = ops
    <3>1. AdmissionUnderWay /\ ops # {}
      BY <1>5, <2>1 DEF AdmissionUnderWay
    <3>2. CASE cred = "pending"
      BY <3>1, <3>2, CalmCred
    <3>3. CASE worker.at = "finish" /\ cred # "none"
      <4>1. worker' = worker
        BY <1>5, <3>1, <3>3, FinishEmpties
      <4>2. cred' # "none"
        BY <3>1, <3>3, CalmCred
      <4>3. QED BY <3>3, <4>1, <4>2
    <3>4. QED BY <3>1, <3>2, <3>3 DEF OneAdmission
  <2>2. CASE RecordOperation
    BY <2>2 DEF RecordOperation, OneAdmission, credential
  <2>3. CASE FinishOperation
    BY <1>5, <2>3 DEF FinishOperation, OneAdmission, SubjectsExist
  <2>4. QED BY <2>1, <2>2, <2>3, Writers
<1>6. QED BY <1>1, <1>3, <1>4, <1>5 DEF OneAdmission

\* An offer is open because it was, or because the poller has just created it.
LEMMA OfferOrigin ==
  ASSUME TypeOK, [Next]_vars, NEW g \in Grants, notes'[g] = "open"
  PROVE  notes[g] = "open" \/ (CreateNotificationRecord /\ g = poller.grant /\ g \notin Present)
<1>1. g \in NoteIds /\ g # Notice /\ g \in DOMAIN notes
  BY NoteIdsFact DEF TypeOK
<1>2. QED BY <1>1, NotesStep DEF TypeOK

\* The offer before the user is of a grant that was delivered.
LEMMA UserHasGrant ==
  ASSUME TypeOK, SubjectsExist, user.at # "idle"
  PROVE  user.grant \in Grants /\ user.grant \in NoteIds /\ user.grant \in delivered
<1>1. user.grant \in 1..sent /\ sent \in 0..MaxGrants /\ user.grant \in delivered
  BY DEF TypeOK, SubjectsExist
<1>2. QED BY <1>1, MaxGrantsAssumption, NoteIdsFact DEF Grants

\* A second offer needs a stale copy, which is told by the history.
LEMMA NewOfferHolds ==
  ASSUME IInv, GrantsOnce, OneAdmission, OfferIsNew, PollerSaw, [Next]_vars, ~crossed', ~Fails,
         tel' = "iss", AnOfferIsOpen'
  PROVE  \/ cred' = "none" /\ ops' = {}
         \/ user'.at \in {"submit", "record", "accept"} /\ notes'[user'.grant] = "open"
<1>1. TypeOK /\ SubjectsExist /\ OneNote /\ PollerKnows
  BY DEF IInv
<1>2. tel = "iss"
  BY <1>1, Monotone DEF TypeOK
<1>3. PICK g \in Grants : notes'[g] = "open"
  BY DEF AnOfferIsOpen
<1>4. CASE CreateNotificationRecord
  <2>1. poller.at = "create" /\ poller.tel = "iss"
    BY <1>1, <1>2, <1>4 DEF CreateNotificationRecord, PollerKnows, TypeOK
  <2>2. cred = "none"
    BY <1>4, <2>1 DEF CreateNotificationRecord, PollerSaw
  <2>3. ops = {}
    BY <2>2 DEF OneAdmission
  <2>4. QED BY <1>4, <2>2, <2>3 DEF CreateNotificationRecord, credential
<1>5. CASE ~CreateNotificationRecord
  <2>1. notes[g] = "open"
    BY <1>1, <1>3, <1>5, OfferOrigin
  <2>2. CASE cred = "none" /\ ops = {}
    <3>1. ops' = {}
      BY <2>2, Writers DEF RecordOperation, FinishOperation, OneAdmission
    <3>2. CASE cred' = "none"
      BY <3>1, <3>2
    <3>3. CASE SavePending /\ user.at = "save"
      <4>1. notes[user.grant] = "open"
        BY <1>2, <3>3 DEF OfferIsNew
      <4>2. user'.at = "submit" /\ user'.grant = user.grant /\ notes' = notes
        BY <1>1, <3>3 DEF SavePending, UserGoes, TypeOK
      <4>3. QED BY <4>1, <4>2
    <3>4. QED BY <1>1, <2>2, <3>2, <3>3, CalmCred
  <2>3. CASE user.at \in {"submit", "record", "accept"} /\ notes[user.grant] = "open"
    <3>1. user.grant \in Present /\ g \in Present
      <4>1. user.grant \in NoteIds
        BY <1>1, <2>3, UserHasGrant
      <4>2. QED BY <2>1, <2>3, <4>1, NoteIdsFact DEF Present
    <3>2. notes'[user.grant] = "open"
      BY <1>1, <1>3, <3>1 DEF OneNote
    <3>3. ~AcceptNote
      BY <1>1, <3>1, <3>2 DEF AcceptNote, TypeOK, Present
    <3>4. user' # UserIdle
      BY <1>1, <2>3, <3>3, Writers DEF Admit, SavePending, SubmitAdmit, RecordOperation, UserGoes,
         CloseOffer, AcceptOffer, Fails, UserIdle, TypeOK, OpenOffer
    <3>5. user'.at \in {"submit", "record", "accept"} /\ user'.grant = user.grant
      BY <1>1, <2>3, <3>4, UserSteps DEF OpenOffer
    <3>6. QED BY <3>2, <3>5
  <2>4. AnOfferIsOpen
    BY <2>1 DEF AnOfferIsOpen
  <2>5. QED BY <1>2, <2>2, <2>3, <2>4 DEF OfferIsNew
<1>6. QED BY <1>4, <1>5

\* The offer that the user looks at is not replaced by another one.
LEMMA OpenedOfferHolds ==
  ASSUME IInv, GrantsOnce, OneAdmission, OfferIsNew, PollerSaw, [Next]_vars, ~crossed', ~Fails,
         user'.at = "offer", notes'[user'.grant] = "open"
  PROVE  cred' = "none" /\ ops' = {}
<1>1. TypeOK /\ SubjectsExist
  BY DEF IInv
<1>2. CASE user' = user
  <2>1. user.grant \in delivered /\ user.grant \in Grants
    BY <1>1, <1>2, UserHasGrant
  <2>2. ~(CreateNotificationRecord /\ user.grant = poller.grant)
    BY <2>1 DEF CreateNotificationRecord, GrantsOnce
  <2>3. notes[user.grant] = "open"
    BY <1>1, <1>2, <2>1, <2>2, OfferOrigin
  <2>4. cred = "none" /\ ops = {}
    BY <1>2, <2>3 DEF OfferIsNew
  <2>5. ops' = {}
    BY <1>2, <2>4, Writers DEF RecordOperation, FinishOperation
  <2>6. cred' = "none"
    BY <1>1, <1>2, <2>4, CalmCred
  <2>7. QED BY <2>5, <2>6
<1>3. ASSUME NEW g \in Grants, OpenOffer(g)
      PROVE  cred' = "none" /\ ops' = {}
  <2>1. AnOfferIsOpen /\ tel = "iss" /\ user.at = "idle" /\ UNCHANGED <<cred, ops>>
    BY <1>3 DEF OpenOffer, AnOfferIsOpen, credential
  <2>2. QED BY <2>1 DEF OfferIsNew
<1>4. QED BY <1>1, <1>2, <1>3, UserSteps DEF UserIdle

\* Nobody deletes an offer while it is admitted.
LEMMA AdmittedOfferHolds ==
  ASSUME IInv, GrantsOnce, OneAdmission, OfferIsNew, [Next]_vars, ~Fails,
         tel' = "iss", user'.at \in {"save", "submit", "record"}
  PROVE  notes'[user'.grant] = "open"
<1>1. TypeOK /\ SubjectsExist /\ OneNote /\ PollerKnows
  BY DEF IInv
<1>2. tel = "iss"
  BY <1>1, Monotone DEF TypeOK
<1>3. CASE user' = user
  <2>1. notes[user.grant] = "open" /\ ops = {} /\ user.at \in {"save", "submit", "record"}
    BY <1>2, <1>3 DEF OfferIsNew, OneAdmission
  <2>2. user.grant \in Present
    BY <1>1, <2>1, UserHasGrant DEF Present
  <2>3. \A n \in NoteIds : ~PurgeNote(n) /\ ~Dismiss(n) /\ ~ClearNote(n)
    BY <1>1, <1>2, <2>1 DEF PurgeNote, Dismiss, ClearNote, PollerKnows, SubjectsExist
  <2>4. ~AcceptNote /\ ~SaveNotice
    BY <1>1, <2>1, <2>2 DEF AcceptNote, SaveNotice, PollerKnows
  <2>5. notes' = notes \/ notes' = [notes EXCEPT ![poller.grant] = "open"]
    BY <1>1, <2>3, <2>4, NotesStep DEF Present
  <2>6. user.grant \in DOMAIN notes
    BY <1>1, <2>2 DEF TypeOK, Present
  <2>7. QED BY <1>3, <2>1, <2>5, <2>6
<1>4. CASE user' # user
  <2>1. CASE AcceptOffer /\ user'.grant = user.grant
    BY <2>1 DEF AcceptOffer
  <2>2. CASE SavePending /\ user.at = "save" /\ user'.grant = user.grant
    BY <1>2, <2>2 DEF SavePending, OfferIsNew
  <2>3. CASE SubmitAdmit /\ user.at = "submit" /\ user'.grant = user.grant
    BY <1>2, <2>3 DEF SubmitAdmit, OfferIsNew
  <2>4. user' # UserIdle /\ \A g \in Grants : user' # [at |-> "offer", grant |-> g]
    BY DEF UserIdle
  <2>5. ~(RecordOperation /\ user.at = "record" /\ user'.at = "accept")
    OBVIOUS
  <2>6. QED BY <1>1, <1>4, <2>1, <2>2, <2>3, <2>4, <2>5, UserSteps
<1>5. QED BY <1>3, <1>4

\* The three cases of an offer together.
LEMMA OfferIsNewHolds ==
  ASSUME IInv, GrantsOnce, OneAdmission, OfferIsNew, PollerSaw, [Next]_vars, ~crossed', ~Fails
  PROVE  OfferIsNew'
BY NewOfferHolds, OpenedOfferHolds, AdmittedOfferHolds DEF OfferIsNew

\* Where the poller's copy of the status goes.
LEMMA SeenSteps ==
  ASSUME TypeOK, [Next]_vars, ~Fails
  PROVE  \/ poller' = poller
         \/ poller'.at \notin {"tel", "notes", "purge", "revoke", "create"}
         \/ ReadCredential /\ poller'.at = "tel" /\ poller'.seen = cred
         \/ /\ poller'.seen = poller.seen
            /\ \/ poller.at \in {"tel", "notes"} /\ poller'.at \in {"notes", "purge"}
               \/ poller.at = "purge" /\ poller'.at = "purge"
               \/ poller.at = "purge" /\ poller'.at = "revoke" /\ poller.seen = "confirmed"
               \/ /\ poller.at = "notes" /\ poller'.at = "create" /\ poller.seen = "none"
               \/ /\ poller.at = "purge" /\ poller'.at = "create" /\ poller'.tel = poller.tel
<1>1. CASE ReadCredential
  BY <1>1 DEF ReadCredential, TypeOK
<1>2. CASE ReadTel
  BY <1>2 DEF ReadTel, TypeOK
<1>3. CASE ReadNotes
  <2>1. CASE poller.tel = "rev"
    BY <1>3, <2>1 DEF ReadNotes, TypeOK
  <2>2. CASE poller.tel # "rev"
    BY <1>3, <2>2, PollerGoing DEF ReadNotes, Duplicate
  <2>3. QED BY <2>1, <2>2
<1>4. CASE PurgeDone
  BY <1>4, PollerGoing DEF PurgeDone
<1>5. ASSUME NEW n \in NoteIds, PurgeNote(n)
      PROVE  \/ poller'.at = "throw"
             \/ poller'.seen = poller.seen /\ poller.at = "purge" /\ poller'.at = "purge"
  <2>1. poller' = [poller EXCEPT !.old = @ \ {n}] \/ PollerGoes("throw")
    BY <1>5 DEF PurgeNote
  <2>2. CASE PollerGoes("throw")
    BY <2>2, PollerGoing
  <2>3. CASE poller' = [poller EXCEPT !.old = @ \ {n}]
    BY <1>5, <2>3 DEF TypeOK, PurgeNote
  <2>4. QED BY <2>1, <2>2, <2>3
<1>6. CASE MarkRevoked \/ SaveNotice \/ MarkNotification \/ CreateNotificationRecord
  BY <1>6, PollerGoing DEF MarkRevoked, SaveNotice, MarkNotification, CreateNotificationRecord
<1>7. CASE Throw \/ Settle
  BY <1>7 DEF Throw, Settle, PollerIdle, TypeOK
<1>8. ASSUME NEW g \in Grants, Fetch(g) \/ Retry(g)
      PROVE  poller'.at \in {"settle", "credential"}
  BY <1>8 DEF Fetch, Retry, PollerIdle
<1>9. CASE ~Poll
  BY <1>9, Writers DEF Fails
<1>10. QED BY <1>1, <1>2, <1>3, <1>4, <1>5, <1>6, <1>7, <1>8, <1>9 DEF Poll

\* A credential that the poller finds confirmed has no admission under way.
LEMMA ConfirmedIsAdmitted ==
  ASSUME IInv, GrantsOnce, OneAdmission, OfferIsNew, cred = "confirmed"
  PROVE  NoneIsAdmitted
<1>1. TypeOK /\ SubjectsExist /\ UserKnows /\ WorkerKnows
  BY DEF IInv
<1>2. user.at \notin {"save", "submit", "record"}
  BY DEF OneAdmission
<1>3. ASSUME tel = "iss", AnOfferIsOpen
      PROVE  FALSE
  <2>1. user.at = "accept" /\ notes[user.grant] = "open"
    BY <1>2, <1>3 DEF OfferIsNew
  <2>2. user.grant \in Present
    BY <1>1, <2>1, UserHasGrant DEF Present
  <2>3. PICK a \in Admits : submitted[a] = user.grant /\ a \in ops
    BY <2>1, <2>2 DEF UserKnows, Answered, GrantsOnce, IInv
  <2>4. worker.at = "finish" /\ worker.op = a
    BY <1>1, <2>3 DEF OneAdmission, SubjectsExist
  <2>5. QED BY <1>1, <2>2, <2>3, <2>4 DEF WorkerKnows, GrantsOnce
<1>4. QED BY <1>2, <1>3 DEF NoneIsAdmitted, OfferIsNew

\* Only the creation of an offer starts an admission anew.
LEMMA NoneIsAdmittedStays ==
  ASSUME IInv, OneAdmission, PollerSaw, NoneIsAdmitted, [Next]_vars, ~crossed', ~Fails,
         ~CreateNotificationRecord
  PROVE  NoneIsAdmitted'
<1>1. TypeOK /\ SubjectsExist
  BY DEF IInv
<1>2. cred' # "pending"
  BY <1>1, CalmCred DEF NoneIsAdmitted
<1>3. user'.at \notin {"save", "submit", "record"}
  BY <1>1, UserSteps DEF NoneIsAdmitted, AcceptOffer, UserIdle
<1>4. ~(tel' = "iss" /\ AnOfferIsOpen')
  BY <1>1, Monotone, OfferOrigin DEF NoneIsAdmitted, AnOfferIsOpen, TypeOK
<1>5. ASSUME user'.at = "offer", notes'[user'.grant] = "open"
      PROVE  FALSE
  <2>1. CASE user' = user
    BY <1>1, <1>5, <2>1, UserHasGrant, OfferOrigin DEF NoneIsAdmitted
  <2>2. ASSUME NEW g \in Grants, OpenOffer(g)
        PROVE  FALSE
    BY <2>2 DEF OpenOffer, NoneIsAdmitted, AnOfferIsOpen
  <2>3. QED BY <1>1, <1>5, <2>1, <2>2, UserSteps DEF UserIdle
<1>6. QED BY <1>2, <1>3, <1>4, <1>5 DEF NoneIsAdmitted

\* What the poller saw holds until it acts on it.
LEMMA PollerSawHolds ==
  ASSUME IInv, GrantsOnce, OneAdmission, OfferIsNew, PollerSaw, [Next]_vars, ~crossed', ~Fails
  PROVE  PollerSaw'
<1>1. TypeOK /\ PollerKnows
  BY DEF IInv
<1>2. poller'.at = "revoke" => poller'.seen = "confirmed"
  BY <1>1, SeenSteps DEF PollerSaw
<1>3. poller'.at = "create" /\ poller'.tel = "iss" => poller'.seen = "none"
  BY <1>1, SeenSteps DEF PollerSaw, PollerKnows
<1>4. ASSUME poller'.at \in {"tel", "notes", "purge", "revoke"}, poller'.seen = "confirmed"
      PROVE  NoneIsAdmitted'
  <2>1. CASE ReadCredential /\ poller'.seen = cred
    <3>1. NoneIsAdmitted
      BY <1>4, <2>1, ConfirmedIsAdmitted
    <3>2. ~CreateNotificationRecord
      BY <2>1 DEF ReadCredential, CreateNotificationRecord
    <3>3. QED BY <3>1, <3>2, NoneIsAdmittedStays
  <2>2. CASE poller.at \in {"tel", "notes", "purge", "revoke"} /\ poller.seen = "confirmed"
    <3>1. NoneIsAdmitted
      BY <2>2 DEF PollerSaw
    <3>2. ~CreateNotificationRecord
      BY <2>2 DEF CreateNotificationRecord
    <3>3. QED BY <3>1, <3>2, NoneIsAdmittedStays
  <2>3. QED BY <1>1, <1>4, <2>1, <2>2, SeenSteps
<1>5. QED BY <1>2, <1>3, <1>4 DEF PollerSaw

\* The invariant of such runs is preserved by every step.
LEMMA CalmStepHolds == IInv /\ CalmInv /\ [Next]_vars => CalmInv'
<1>1. SUFFICES ASSUME IInv, CalmInv, [Next]_vars, Calm'
              PROVE  (GrantsOnce /\ OneAdmission /\ OfferIsNew /\ PollerSaw)'
  BY DEF CalmInv
<1>2. TypeOK /\ SubjectsExist /\ PollerDelivers
  BY <1>1 DEF IInv
<1>3. Calm /\ ~Fails /\ ~Fault /\ ~crossed'
  BY <1>1, <1>2, CalmStep DEF Calm
<1>4. GrantsOnce /\ OneAdmission /\ OfferIsNew /\ PollerSaw
  BY <1>1, <1>3 DEF CalmInv
<1>5. GrantsOnce'
  BY <1>1, <1>2, <1>3, <1>4, GrantsOnceHolds
<1>6. OneAdmission'
  BY <1>1, <1>2, <1>3, <1>4, OneAdmissionHolds
<1>7. OfferIsNew' /\ PollerSaw'
  BY <1>1, <1>3, <1>4, OfferIsNewHolds, PollerSawHolds
<1>8. QED BY <1>5, <1>6, <1>7

\* The invariant of such runs holds initially.
LEMMA CalmInitHolds == Init => CalmInv
BY DEF Init, CalmInv, GrantsOnce, OneAdmission, OfferIsNew, PollerSaw, AnOfferIsOpen, PollerIdle,
   UserIdle, Grants, NoteIds

\* Without faults, copies that have changed and deletions in the middle of an
\* admission, no admission confirms a credential that was revoked.
THEOREM RevokedStayRevoked == Spec => RevokedStaysRevokedWithoutFaults
<1>1. Spec => [](IInv /\ CalmInv)
  <2>1. Init => IInv /\ CalmInv
    BY InitHolds, CalmInitHolds
  <2>2. IInv /\ CalmInv /\ [Next]_vars => (IInv /\ CalmInv)'
    BY StepHolds, CalmStepHolds
  <2>3. QED BY <2>1, <2>2, PTL DEF Spec
<1>2. ASSUME IInv, CalmInv, [Next]_vars, cred = "revoked", faults = 0, ~crossed
      PROVE  cred' \in {"revoked", "none"}
  <2>1. TypeOK /\ SubjectsExist /\ OneAdmission
    BY <1>2 DEF IInv, CalmInv, Calm
  <2>2. ~MarkConfirmed
    BY <1>2, <2>1 DEF MarkConfirmed, SubjectsExist, OneAdmission
  <2>3. QED BY <1>2, <2>1, <2>2, CredSteps
<1>3. QED BY <1>1, <1>2, PTL DEF Spec, RevokedStaysRevokedWithoutFaults
=============================================================================
