-------------------------- MODULE Connections_proofs --------------------------
(***************************************************************************)
(* Proofs about Connections, for every set of pairs and every bound.       *)
(*                                                                         *)
(* A connection that is wanted while its contact is deleted is marked by   *)
(* one of the histories: while nothing marks it, what is being deleted is  *)
(* still marked or gone (DeletionKnows), what is being connected is in the *)
(* way of no deletion past its count (ConnectingKnows), and what a handler *)
(* read is as it read it (HandlerKnows).                                   *)
(***************************************************************************)
EXTENDS Connections, FiniteSetTheorems, TLAPS

\* The histories account for the connection.
Excused(p) == p[2] \in overlapped \/ p \in crossed

\* The connection's record says that it is complete.
Confirmed == {p \in Pairs : pair[p].status = "complete"}

\* The connection is deleted, or marked.
Leaving(p) == p \notin Stored \/ p \in Deleting \/ Excused(p)

\* The handler has the connection's record yet to write.
Held(p) == handler # NoHandler /\ \E r \in handler.todo : r.of = p

\* What a connection being made relies on.
ConnectingKnows ==
  \A q \in connecting :
    /\ q[2] \in contact \union overlapped
    /\ q[2] \notin overlapped =>
         /\ \A k \in Calls : k[1][2] = q[2] => deletion[k] \in {"idle", "find", "count"}
         /\ \/ q \in removals
            \/ \E caller \in Callers : deletion[<<q, caller>>] # "idle"
            \/ Held(q)
            => q \in Stored

\* What a deletion relies on.
DeletionKnows ==
  /\ \A p \in removals : Leaving(p)
  /\ \A k \in Calls :
       /\ deletion[k] # "idle" => Leaving(k[1])
       /\ deletion[k] \in {"deleteFromKeria", "deleteContact"}
            => \A q \in PairsOf(k[1][2]) : Leaving(q)
       /\ deletion[k] \in {"deleteContact", "deletePair"}
            => k[1] \notin keriaPair \/ Excused(k[1])

\* What the handler relies on.
HandlerKnows ==
  /\ handler # NoHandler =>
       /\ \A r, s \in handler.todo : r.of = s.of => r = s
       /\ \A r \in handler.todo :
            /\ r.of[2] = handler.contact
            /\ r.deleting => \/ r.of \notin Stored
                             \/ r.of \in Deleting
                             \/ r.of[2] \in overlapped
  /\ handler.step \in {"update", "write"} => handler.record \in handler.todo
  /\ handler.step = "write" =>
       \/ Leaving(handler.record.of)
       \/ handler.record.of \in keriaPair

\* A pending connection has something that will settle it.
PendingIsSettled ==
  online => \A p \in Pending \ Deleting :
              \/ p[2] \in requested \union resolving \union operation \union unresolved
              \/ handler # NoHandler /\ \E r \in handler.todo : r.of = p /\ ~r.deleting

IInv ==
  /\ TypeOK
  /\ ConnectingKnows
  /\ DeletionKnows
  /\ HandlerKnows
  /\ ShownConnectionHasContact
  /\ ConfirmedConnectionIsBackedUp
  /\ DeletedConnectionStaysDeleted
  /\ DeletionIsUnderWay
  /\ PendingIsSettled

-----------------------------------------------------------------------------
(* What the types say of a record, of a call and of the handler.           *)

\* A record that is marked, pending or complete is there.
LEMMA StoredPairs ==
  ASSUME TypeOK
  PROVE  /\ Stored \subseteq Pairs
         /\ Deleting \subseteq Stored
         /\ Pending \subseteq Stored
         /\ Confirmed \subseteq Stored \ Pending
BY DEF TypeOK, Stored, Deleting, Pending, Confirmed, Absent, Record, Statuses

\* A record that is there is a status and a mark.
LEMMA PairShape ==
  ASSUME TypeOK, NEW p \in Pairs
  PROVE  /\ p \in Stored <=> pair[p] \in [status : Statuses, deleting : BOOLEAN]
         /\ p \notin Stored <=> pair[p] = Absent
BY DEF TypeOK, Stored, Absent, Record, Statuses

\* At each of its steps the handler knows its contact and what it read.
LEMMA HandlerShape ==
  ASSUME TypeOK
  PROVE  /\ handler.step \in {"idle", "share", "fail", "update", "write"}
         /\ handler.step = "idle" <=> handler = NoHandler
         /\ handler # NoHandler => /\ handler.contact \in Contacts
                                   /\ handler.todo \in SUBSET Records
         /\ handler.step \in {"update", "write"} => handler.record \in Records
BY DEF TypeOK, NoHandler

\* A call of a deletion is a pair and its caller.
LEMMA CallShape ==
  ASSUME NEW k \in Calls
  PROVE  k[1] \in Pairs /\ k[2] \in Callers /\ k = <<k[1], k[2]>> /\ k[1][2] \in Contacts
BY DEF Calls, Contacts

-----------------------------------------------------------------------------
(* What each action does to the records of the pairs.                      *)

\* A record that is written, and the other records.
LEMMA PairWritten ==
  ASSUME TypeOK, NEW p \in Pairs, NEW r \in [status : Statuses, deleting : BOOLEAN],
         pair' = [pair EXCEPT ![p] = r]
  PROVE  /\ pair' \in [Pairs -> [status : Statuses, deleting : BOOLEAN] \union {Absent}]
         /\ Stored' = Stored \union {p}
         /\ Deleting' = IF r.deleting THEN Deleting \union {p} ELSE Deleting \ {p}
         /\ Pending' = IF r.status = "pending" THEN Pending \union {p} ELSE Pending \ {p}
         /\ Confirmed' = IF r.status = "complete" THEN Confirmed \union {p}
                         ELSE Confirmed \ {p}
<1>1. r # Absent
  BY DEF Record, Absent, Statuses
<1>2. /\ pair'[p] = r
      /\ \A q \in Pairs \ {p} : pair'[q] = pair[q]
      /\ pair' \in [Pairs -> [status : Statuses, deleting : BOOLEAN] \union {Absent}]
  BY DEF TypeOK
<1>3. Stored' = Stored \union {p}
  BY <1>1, <1>2 DEF Stored
<1>4. Deleting' = IF r.deleting THEN Deleting \union {p} ELSE Deleting \ {p}
  BY <1>2 DEF Deleting
<1>5. Pending' = IF r.status = "pending" THEN Pending \union {p} ELSE Pending \ {p}
  BY <1>2 DEF Pending
<1>6. Confirmed' = IF r.status = "complete" THEN Confirmed \union {p} ELSE Confirmed \ {p}
  BY <1>2 DEF Confirmed
<1>7. QED BY <1>2, <1>3, <1>4, <1>5, <1>6

\* The record of a new pair.
LEMMA PairMade ==
  ASSUME TypeOK, NEW p \in Pairs, ConnectSavesPair(p), p \notin Stored
  PROVE  /\ pair' \in [Pairs -> [status : Statuses, deleting : BOOLEAN] \union {Absent}]
         /\ Stored' = Stored \union {p}
         /\ Deleting' = Deleting
         /\ Pending' = Pending \union {p}
         /\ Confirmed' = Confirmed
<1> DEFINE r == Record("pending", FALSE)
<1>1. pair' = [pair EXCEPT ![p] = r]
  BY DEF ConnectSavesPair
<1>2. p \notin Deleting /\ p \notin Confirmed
  BY StoredPairs
<1>3. /\ r \in [status : Statuses, deleting : BOOLEAN]
      /\ r.status = "pending" /\ ~r.deleting
  BY DEF Statuses, Record
<1> HIDE DEF r
<1>4. /\ pair' \in [Pairs -> [status : Statuses, deleting : BOOLEAN] \union {Absent}]
      /\ Stored' = Stored \union {p}
      /\ Deleting' = Deleting \ {p}
      /\ Pending' = Pending \union {p}
      /\ Confirmed' = Confirmed \ {p}
  BY <1>1, <1>3, PairWritten
<1>5. QED BY <1>2, <1>4

\* The record of a pair that is marked.
LEMMA PairMarked ==
  ASSUME TypeOK, NEW p \in Pairs, MarkConnectionPendingDelete(p)
  PROVE  /\ pair' \in [Pairs -> [status : Statuses, deleting : BOOLEAN] \union {Absent}]
         /\ Stored' = Stored
         /\ Deleting' = Deleting \union {p}
         /\ Pending' = Pending
         /\ Confirmed' = Confirmed
<1>1. p \in Stored /\ pair[p] \in [status : Statuses, deleting : BOOLEAN]
  BY PairShape DEF MarkConnectionPendingDelete
<1> DEFINE r == [pair[p] EXCEPT !.deleting = TRUE]
<1>2. pair' = [pair EXCEPT ![p] = r]
  BY DEF MarkConnectionPendingDelete
<1>3. /\ r \in [status : Statuses, deleting : BOOLEAN]
      /\ r.status = pair[p].status /\ r.deleting
  BY <1>1
<1> HIDE DEF r
<1>4. p \in Pending <=> r.status = "pending"
  BY <1>3 DEF Pending
<1>5. p \in Confirmed <=> r.status = "complete"
  BY <1>3 DEF Confirmed
<1>6. /\ pair' \in [Pairs -> [status : Statuses, deleting : BOOLEAN] \union {Absent}]
      /\ Stored' = Stored \union {p}
      /\ Deleting' = Deleting \union {p}
      /\ Pending' = IF r.status = "pending" THEN Pending \union {p} ELSE Pending \ {p}
      /\ Confirmed' = IF r.status = "complete" THEN Confirmed \union {p}
                      ELSE Confirmed \ {p}
  BY <1>2, <1>3, PairWritten
<1>7. QED BY <1>1, <1>4, <1>5, <1>6

\* The records of all pairs of a contact whose OOBI was invalid.
LEMMA PairsInvalid ==
  ASSUME TypeOK, NEW c \in Contacts, HandlerMarksInvalid(c)
  PROVE  /\ pair' \in [Pairs -> [status : Statuses, deleting : BOOLEAN] \union {Absent}]
         /\ Stored' = Stored
         /\ Deleting' = Deleting \union (Stored \intersect PairsOf(c))
         /\ Pending' = Pending
         /\ Confirmed' = Confirmed
<1>1. \A p \in Pairs : pair'[p] = IF p \in Stored \intersect PairsOf(c)
                                  THEN Record(pair[p].status, TRUE) ELSE pair[p]
  BY DEF HandlerMarksInvalid
<1>2. \A p \in Stored : /\ pair[p].status \in Statuses
                        /\ Record(pair[p].status, TRUE)
                             \in [status : Statuses, deleting : BOOLEAN]
                        /\ Record(pair[p].status, TRUE).status = pair[p].status
                        /\ Record(pair[p].status, TRUE).deleting
                        /\ Record(pair[p].status, TRUE) # Absent
  BY PairShape, StoredPairs DEF Record, Absent, Statuses
<1>3. /\ DOMAIN pair' = Pairs
      /\ pair' = [p \in Pairs |-> pair'[p]]
  BY DEF HandlerMarksInvalid
<1>4. \A p \in Pairs : pair'[p] \in [status : Statuses, deleting : BOOLEAN] \union {Absent}
  <2> SUFFICES ASSUME NEW p \in Pairs
               PROVE  pair'[p] \in [status : Statuses, deleting : BOOLEAN] \union {Absent}
    OBVIOUS
  <2>1. pair[p] \in [status : Statuses, deleting : BOOLEAN] \union {Absent}
    BY DEF TypeOK
  <2>2. CASE p \in Stored \intersect PairsOf(c)
    BY <1>1, <1>2, <2>2
  <2>3. CASE p \notin Stored \intersect PairsOf(c)
    BY <1>1, <2>1, <2>3
  <2>4. QED BY <2>2, <2>3
<1>5. pair' \in [Pairs -> [status : Statuses, deleting : BOOLEAN] \union {Absent}]
  BY <1>3, <1>4
<1>6. Stored' = Stored
  BY <1>1, <1>2 DEF Stored
<1>7. Deleting' = Deleting \union (Stored \intersect PairsOf(c))
  BY <1>1, <1>2, StoredPairs DEF Deleting
<1>8. Pending' = Pending /\ Confirmed' = Confirmed
  BY <1>1, <1>2 DEF Pending, Confirmed
<1>9. QED BY <1>5, <1>6, <1>7, <1>8

\* The record of a pair that is deleted.
LEMMA PairDeleted ==
  ASSUME TypeOK, NEW k \in Calls, DeletesPair(k)
  PROVE  /\ pair' \in [Pairs -> [status : Statuses, deleting : BOOLEAN] \union {Absent}]
         /\ Stored' = Stored \ {k[1]}
         /\ Deleting' = Deleting \ {k[1]}
         /\ Pending' = Pending \ {k[1]}
         /\ Confirmed' = Confirmed \ {k[1]}
<1>1. /\ pair'[k[1]] = Absent
      /\ \A q \in Pairs \ {k[1]} : pair'[q] = pair[q]
      /\ pair' \in [Pairs -> [status : Statuses, deleting : BOOLEAN] \union {Absent}]
  BY CallShape DEF DeletesPair, TypeOK
<1>2. Absent.status # "pending" /\ Absent.status # "complete" /\ ~Absent.deleting
  BY DEF Absent, Record
<1>3. QED BY <1>1, <1>2 DEF Stored, Deleting, Pending, Confirmed

\* A recovery has the pairs of KERIA, all complete.
LEMMA PairsSynced ==
  ASSUME TypeOK, SyncKeriaContacts
  PROVE  /\ pair' \in [Pairs -> [status : Statuses, deleting : BOOLEAN] \union {Absent}]
         /\ Stored' = keriaPair
         /\ Deleting' = {}
         /\ Pending' = {}
<1>1. /\ Absent.status # "pending" /\ ~Absent.deleting
      /\ Record("complete", FALSE) \in [status : Statuses, deleting : BOOLEAN]
      /\ Record("complete", FALSE).status # "pending"
      /\ ~Record("complete", FALSE).deleting
      /\ Record("complete", FALSE) # Absent
  BY DEF Absent, Record, Statuses
<1>2. pair' = [p \in Pairs |-> IF p \in keriaPair THEN Record("complete", FALSE) ELSE Absent]
  BY DEF SyncKeriaContacts
<1>3. keriaPair \subseteq Pairs
  BY DEF TypeOK
<1>4. QED BY <1>1, <1>2, <1>3 DEF Stored, Deleting, Pending

\* Where nothing is written, nothing changes.
LEMMA PairsUntouched ==
  ASSUME UNCHANGED pair
  PROVE  /\ Stored' = Stored
         /\ Deleting' = Deleting
         /\ Pending' = Pending
         /\ Confirmed' = Confirmed
BY DEF Stored, Deleting, Pending, Confirmed

\* The handler writes the record of a pair that is there.
LEMMA PairHandled ==
  ASSUME TypeOK, NEW r \in Records, NEW s \in {"failed", "complete"}, Writes(r, s),
         r.of \in Stored
  PROVE  /\ pair' \in [Pairs -> [status : Statuses, deleting : BOOLEAN] \union {Absent}]
         /\ Stored' = Stored
         /\ Deleting' = IF r.deleting THEN Deleting \union {r.of} ELSE Deleting \ {r.of}
         /\ Pending' = Pending \ {r.of}
         /\ Confirmed' = IF s = "complete" THEN Confirmed \union {r.of}
                         ELSE Confirmed \ {r.of}
<1>1. r.of \in Pairs /\ r.deleting \in BOOLEAN
  BY DEF Records
<1> DEFINE w == Record(s, r.deleting)
<1>2. pair' = [pair EXCEPT ![r.of] = w]
  BY DEF Writes
<1>3. /\ w \in [status : Statuses, deleting : BOOLEAN]
      /\ w.status = s /\ w.deleting = r.deleting
  BY <1>1 DEF Record, Statuses
<1> HIDE DEF w
<1>4. /\ pair' \in [Pairs -> [status : Statuses, deleting : BOOLEAN] \union {Absent}]
      /\ Stored' = Stored \union {r.of}
      /\ Deleting' = IF w.deleting THEN Deleting \union {r.of} ELSE Deleting \ {r.of}
      /\ Pending' = IF w.status = "pending" THEN Pending \union {r.of} ELSE Pending \ {r.of}
      /\ Confirmed' = IF w.status = "complete" THEN Confirmed \union {r.of}
                      ELSE Confirmed \ {r.of}
  BY <1>1, <1>2, <1>3, PairWritten
<1>5. QED BY <1>3, <1>4

-----------------------------------------------------------------------------
(* Who writes what.                                                        *)

\* The handler writes a record: as failed or as complete.
Handled(r, s) ==
  \/ HandlerFails(r) /\ ~r.deleting /\ s = "failed"
  \/ HandlerWrites /\ r = handler.record /\ s = "complete"

\* Only these actions write the records of the pairs.
LEMMA PairWriters ==
  ASSUME TypeOK, [Next]_vars
  PROVE  \/ UNCHANGED pair
         \/ \E p \in Pairs : ConnectSavesPair(p) /\ p \notin Stored
         \/ \E p \in Pairs : MarkConnectionPendingDelete(p)
         \/ \E c \in Contacts : HandlerMarksInvalid(c)
         \/ \E k \in Calls : DeletesPair(k)
         \/ \E r \in Records, s \in {"failed", "complete"} :
              Handled(r, s) /\ Writes(r, s) /\ r.of \in Stored
         \/ SyncKeriaContacts
<1>1. CASE UNCHANGED vars
  BY <1>1 DEF vars, local
<1>2. ASSUME NEW p \in Pairs,
             \/ ConnectSavesContact(p) \/ ConnectSavesPair(p)
             \/ MarkConnectionPendingDelete(p) \/ RemoveNext(p)
      PROVE  \/ UNCHANGED pair
             \/ ConnectSavesPair(p) /\ p \notin Stored
             \/ MarkConnectionPendingDelete(p)
  BY <1>2 DEF ConnectSavesContact, ConnectSavesPair, RemoveNext, local
<1>3. ASSUME NEW c \in Contacts, Resolve(c) \/ HandlerReads(c)
      PROVE  UNCHANGED pair
  BY <1>3 DEF Resolve, ResolveOobi, ResolveThrows, ResolvePendingThrows, LeavesUnresolved,
     HandlerReads, local
<1>4. ASSUME NEW k \in Calls, Delete(k)
      PROVE  UNCHANGED pair \/ DeletesPair(k)
  BY <1>4 DEF Delete, DeletionLooksUp, DeletionCounts, DeletesFromKeria, DeletesContact,
     GetsFromKeria, ClearsFields, DeletionThrows, local
<1>5. ASSUME NEW r \in Records, HandlerFails(r) \/ HandlerShares(r)
      PROVE  \/ UNCHANGED pair
             \/ Handled(r, "failed") /\ Writes(r, "failed") /\ r.of \in Stored
  BY <1>5 DEF HandlerFails, HandlerShares, local, Handled, Writes
<1>6. ASSUME HandlerWrites
      PROVE  \/ UNCHANGED pair
             \/ \E r \in Records : /\ Handled(r, "complete") /\ Writes(r, "complete")
                                   /\ r.of \in Stored
  <2>1. handler.record \in Records
    BY <1>6, HandlerShape DEF HandlerWrites
  <2>2. Writes(handler.record, "complete") /\ Handled(handler.record, "complete")
    BY <1>6 DEF HandlerWrites, Handled
  <2>3. CASE handler.record.of \in Stored
    BY <2>1, <2>2, <2>3
  <2>4. CASE handler.record.of \notin Stored
    BY <2>2, <2>4 DEF Writes
  <2>5. QED BY <2>3, <2>4
<1>7. CASE HandlerUpdatesKeria \/ HandlerReturns \/ HandlerThrows
  BY <1>7 DEF HandlerUpdatesKeria, HandlerReturns, HandlerThrows, local
<1>8. CASE BecomeOnline \/ Disconnect \/ Crash
  BY <1>8 DEF BecomeOnline, Disconnect, GoesOffline, Crash, local
<1>9. QED
  BY <1>1, <1>2, <1>3, <1>4, <1>5, <1>6, <1>7, <1>8 DEF Next, HandleOperation

\* What excuses a pair only grows, but for the pair that is made anew.
LEMMA HistoryLasts ==
  ASSUME TypeOK, [Next]_vars, NEW p \in Pairs
  PROVE  /\ p[2] \in overlapped => p[2] \in overlapped'
         /\ Excused(p) => \/ Excused(p)'
                          \/ ConnectSavesPair(p) /\ p \notin Stored
<1>1. CASE UNCHANGED vars
  BY <1>1 DEF vars, history, Excused
<1>2. ASSUME NEW q \in Pairs,
             \/ ConnectSavesContact(q)
             \/ MarkConnectionPendingDelete(q) \/ RemoveNext(q)
      PROVE  overlapped \subseteq overlapped' /\ crossed' = crossed
  BY <1>2 DEF ConnectSavesContact, MarkConnectionPendingDelete, RemoveNext, history
<1>3. ASSUME NEW q \in Pairs, ConnectSavesPair(q)
      PROVE  /\ overlapped' = overlapped
             /\ p \in crossed /\ p \notin crossed' => p = q /\ q \notin Stored
  BY <1>3 DEF ConnectSavesPair, history
<1>4. ASSUME NEW c \in Contacts, Resolve(c) \/ HandlerReads(c) \/ HandlerMarksInvalid(c)
      PROVE  overlapped' = overlapped /\ crossed' = crossed
  BY <1>4 DEF Resolve, ResolveOobi, ResolveThrows, ResolvePendingThrows, LeavesUnresolved,
     HandlerReads, HandlerMarksInvalid, history
<1>5. ASSUME NEW k \in Calls, Delete(k)
      PROVE  overlapped \subseteq overlapped' /\ crossed' = crossed
  BY <1>5 DEF Delete, DeletionLooksUp, DeletionCounts, DeletesFromKeria, DeletesContact,
     GetsFromKeria, ClearsFields, DeletionThrows, DeletesPair, Throws, history
<1>6. CASE HandleOperation
  <2>1. overlapped' = overlapped /\ crossed \subseteq crossed'
    BY <1>6 DEF HandleOperation, HandlerFails, HandlerShares, HandlerWrites,
       HandlerUpdatesKeria, HandlerReturns, HandlerThrows, Writes, BacksUp, history
  <2>2. QED BY <2>1 DEF Excused
<1>7. CASE BecomeOnline \/ Disconnect \/ Crash \/ SyncKeriaContacts
  BY <1>7 DEF BecomeOnline, Disconnect, GoesOffline, Crash, SyncKeriaContacts, history,
     Excused
<1>8. CASE \E q \in Pairs : ConnectSavesPair(q)
  BY <1>3, <1>8 DEF Excused
<1>9. QED
  BY <1>1, <1>2, <1>4, <1>5, <1>6, <1>7, <1>8 DEF Next, Excused

-----------------------------------------------------------------------------
(* The types.                                                              *)

\* Faults stay within their bound.
LEMMA FaultTypes ==
  ASSUME TypeOK, Fault \/ CallFails
  PROVE  faults' \in 0..MaxFaults
<1>1. faults \in 0..MaxFaults
  BY DEF TypeOK
<1>2. QED BY <1>1, MaxFaultsAssumption DEF Fault, CallFails

\* A connection that is made and resolved keeps the types.
LEMMA ConnectTypes ==
  ASSUME TypeOK, NEW p \in Pairs,
         ConnectSavesContact(p) \/ ConnectSavesPair(p) \/ Resolve(p[2])
  PROVE  TypeOK'
<1>1. p[2] \in Contacts
  BY DEF Contacts
<1>2. CASE ConnectSavesContact(p)
  BY <1>1, <1>2, MaxConnectsAssumption DEF TypeOK, ConnectSavesContact, removal
<1>3. CASE ConnectSavesPair(p)
  BY <1>1, <1>3, PairMade DEF TypeOK, ConnectSavesPair, removal, history
<1>4. CASE ResolveOobi(p[2])
  BY <1>1, <1>4 DEF TypeOK, ResolveOobi, local, removal
<1>5. CASE ResolveThrows(p[2]) \/ ResolvePendingThrows
  <2>1. faults' \in 0..MaxFaults
    BY <1>5, FaultTypes DEF TypeOK, ResolveThrows, ResolvePendingThrows
  <2>2. QED
    BY <1>1, <1>5, <2>1
    DEF TypeOK, ResolveThrows, ResolvePendingThrows, LeavesUnresolved, local, removal
<1>6. QED BY <1>2, <1>3, <1>4, <1>5 DEF Resolve

\* Each step of a deletion keeps the types.
LEMMA DeletionTypes ==
  ASSUME TypeOK, NEW k \in Calls,
         MarkConnectionPendingDelete(k[1]) \/ RemoveNext(k[1]) \/ Delete(k)
  PROVE  TypeOK'
<1>1. k[1] \in Pairs /\ k[1][2] \in Contacts
  BY CallShape
<1>2. CASE MarkConnectionPendingDelete(k[1])
  <2>1. deletion' \in [Calls -> Awaits \union {"idle"}]
    BY <1>2 DEF MarkConnectionPendingDelete, TypeOK, Awaits
  <2>2. QED
    BY <1>1, <1>2, <2>1, PairMarked
    DEF TypeOK, MarkConnectionPendingDelete, calls, history
<1>3. CASE RemoveNext(k[1])
  BY <1>1, <1>3 DEF TypeOK, RemoveNext, local, calls, history, Awaits
<1>4. CASE DeletionLooksUp(k)
  BY <1>1, <1>4 DEF TypeOK, DeletionLooksUp, Throws, Moves, Awaits, local, calls, history
<1>5. CASE DeletionCounts(k)
  BY <1>1, <1>5 DEF TypeOK, DeletionCounts, Moves, Awaits, CallsKeria, local, calls, removal
<1>6. CASE DeletesFromKeria(k) \/ DeletesContact(k) \/ GetsFromKeria(k) \/ ClearsFields(k)
  BY <1>1, <1>6 DEF TypeOK, DeletesFromKeria, DeletesContact, GetsFromKeria, ClearsFields,
     Moves, Awaits, CallsKeria, local, calls, removal, history
<1>7. CASE DeletesPair(k)
  <2>1. deletion' \in [Calls -> Awaits \union {"idle"}]
    BY <1>7 DEF DeletesPair, TypeOK, Awaits, Moves, Throws
  <2>2. QED
    BY <1>1, <1>7, <2>1, PairDeleted DEF TypeOK, DeletesPair, Throws, calls, history
<1>8. CASE DeletionThrows(k)
  <2>1. faults' \in 0..MaxFaults /\ keriaPair' \subseteq Pairs
    BY <1>8, FaultTypes DEF DeletionThrows, TypeOK
  <2>2. QED
    BY <1>1, <1>8, <2>1 DEF TypeOK, DeletionThrows, Throws, Awaits, local, calls
<1>9. QED BY <1>2, <1>3, <1>4, <1>5, <1>6, <1>7, <1>8 DEF Delete

\* What is read, or marked, when an operation is handled.
LEMMA ReadTypes ==
  ASSUME TypeOK, NEW c \in Contacts, HandlerReads(c) \/ HandlerMarksInvalid(c)
  PROVE  TypeOK'
<1>1. CASE HandlerReads(c)
  <2> DEFINE todo == {[of |-> p, deleting |-> pair[p].deleting] :
                        p \in Pending \intersect PairsOf(c)}
  <2>1. todo \in SUBSET Records
    BY PairShape, StoredPairs DEF Records, Pending
  <2>2. PICK step \in {"share", "fail"} :
          handler' = [step |-> step, contact |-> c, todo |-> todo]
    BY <1>1 DEF HandlerReads
  <2> HIDE DEF todo
  <2>3. handler' \in [step : {"share", "fail"}, contact : Contacts, todo : SUBSET Records]
    BY <2>1, <2>2
  <2>4. QED BY <1>1, <2>3 DEF TypeOK, HandlerReads, local, calls, removal, history
<1>2. CASE HandlerMarksInvalid(c)
  <2>1. deletion' \in [Calls -> Awaits \union {"idle"}]
    BY <1>2 DEF HandlerMarksInvalid, TypeOK, Awaits
  <2>2. QED BY <1>2, <2>1, PairsInvalid DEF TypeOK, HandlerMarksInvalid, calls, history
<1>3. QED BY <1>1, <1>2

\* An operation that is kept has a contact.
LEMMA KeptTypes ==
  ASSUME TypeOK, KeepOperation
  PROVE  operation' \subseteq Contacts
BY HandlerShape DEF KeepOperation, TypeOK

\* A record that is written, or that is gone.
LEMMA WriteTypes ==
  ASSUME TypeOK, NEW r \in Records, NEW s \in {"failed", "complete"}, Writes(r, s),
         handler # NoHandler
  PROVE  /\ pair' \in [Pairs -> [status : Statuses, deleting : BOOLEAN] \union {Absent}]
         /\ handler' \in {NoHandler}
              \union [step : {"share", "fail"}, contact : Contacts, todo : SUBSET Records]
         /\ operation' \subseteq Contacts
         /\ crossed' \subseteq Pairs
<1>1. r.of \in Pairs
  BY DEF Records
<1>2. handler.contact \in Contacts /\ handler.todo \in SUBSET Records
  BY HandlerShape
<1>3. CASE r.of \in Stored
  BY <1>1, <1>2, <1>3, PairHandled DEF Writes, TypeOK
<1>4. CASE r.of \notin Stored
  BY <1>4, KeptTypes DEF Writes, TypeOK
<1>5. QED BY <1>3, <1>4

\* Each step of the handler keeps the types.
LEMMA HandlerTypes ==
  ASSUME TypeOK, HandleOperation
  PROVE  TypeOK'
<1>1. ASSUME NEW r \in Records, HandlerFails(r)
      PROVE  TypeOK'
  <2>1. handler.step = "fail" /\ handler # NoHandler
    BY <1>1 DEF HandlerFails, NoHandler
  <2>2. CASE r.deleting
    <3>1. handler' \in [step : {"share", "fail"}, contact : Contacts, todo : SUBSET Records]
      BY <1>1, <2>1, <2>2 DEF HandlerFails, TypeOK, NoHandler
    <3>2. QED BY <1>1, <2>2, <3>1 DEF HandlerFails, TypeOK, calls, removal
  <2>3. CASE ~r.deleting
    BY <1>1, <2>1, <2>3, WriteTypes DEF HandlerFails, TypeOK, calls, removal
  <2>4. QED BY <2>2, <2>3
<1>2. ASSUME NEW r \in Records, HandlerShares(r)
      PROVE  TypeOK'
  BY <1>2, HandlerShape DEF HandlerShares, TypeOK, local, calls, removal, history, NoHandler
<1>3. CASE HandlerUpdatesKeria
  <2>1. /\ handler \in [step : {"update", "write"}, contact : Contacts,
                        todo : SUBSET Records, record : Records]
        /\ handler.record.of \in Pairs
    BY <1>3 DEF HandlerUpdatesKeria, TypeOK, NoHandler, Records
  <2>2. handler' \in [step : {"update", "write"}, contact : Contacts,
                      todo : SUBSET Records, record : Records]
    BY <1>3, <2>1 DEF HandlerUpdatesKeria
  <2>3. QED
    BY <1>3, <2>1, <2>2 DEF HandlerUpdatesKeria, BacksUp, TypeOK, local, calls, removal
<1>4. CASE HandlerWrites
  <2>1. handler # NoHandler /\ handler.record \in Records /\ Writes(handler.record, "complete")
    BY <1>4, HandlerShape DEF HandlerWrites
  <2>2. /\ pair' \in [Pairs -> [status : Statuses, deleting : BOOLEAN] \union {Absent}]
        /\ handler' \in {NoHandler}
             \union [step : {"share", "fail"}, contact : Contacts, todo : SUBSET Records]
        /\ operation' \subseteq Contacts
        /\ crossed' \subseteq Pairs
    BY <2>1, WriteTypes
  <2>3. QED BY <1>4, <2>2 DEF HandlerWrites, TypeOK, calls, removal
<1>5. CASE HandlerReturns
  BY <1>5 DEF HandlerReturns, TypeOK, local, calls, removal, history
<1>6. CASE HandlerThrows
  <2>1. faults' \in 0..MaxFaults
    BY <1>6, FaultTypes DEF HandlerThrows, TypeOK
  <2>2. keriaPair' \subseteq Pairs /\ crossed' \subseteq Pairs
    BY <1>6, HandlerShape DEF HandlerThrows, BacksUp, TypeOK, Records
  <2>3. QED
    BY <1>6, <2>1, <2>2, KeptTypes DEF HandlerThrows, TypeOK, local, calls, removal
<1>7. QED BY <1>1, <1>2, <1>3, <1>4, <1>5, <1>6 DEF HandleOperation

\* What the agent does keeps the types.
LEMMA AgentTypes ==
  ASSUME TypeOK, BecomeOnline \/ Disconnect \/ Crash \/ SyncKeriaContacts
  PROVE  TypeOK'
<1>1. /\ {p[2] : p \in keriaPair} \subseteq Contacts
      /\ {p[2] : p \in Pending} \subseteq Contacts
      /\ Deleting \subseteq Pairs /\ Pending \subseteq Pairs
  BY DEF TypeOK, Contacts, Deleting, Pending
<1>2. CASE BecomeOnline
  <2>1. online' \in BOOLEAN
    BY <1>2 DEF BecomeOnline
  <2>2. resolving' \subseteq Contacts /\ unresolved' \subseteq Contacts
    BY <1>1, <1>2 DEF BecomeOnline, ResolvePendingConnections, TypeOK
  <2>3. QED BY <1>1, <1>2, <2>1, <2>2 DEF TypeOK, BecomeOnline, local
<1>3. CASE Disconnect
  <2>1. online' \in BOOLEAN /\ faults' \in 0..MaxFaults
    BY <1>3, FaultTypes DEF Disconnect, GoesOffline
  <2>2. QED BY <1>3, <2>1 DEF TypeOK, Disconnect, GoesOffline, local, calls, removal, history
<1>4. CASE Crash
  <2>1. online' \in BOOLEAN /\ faults' \in 0..MaxFaults
    BY <1>4, FaultTypes DEF Crash, Forgets, GoesOffline
  <2>2. QED
    BY <1>4, <2>1, KeptTypes DEF Crash, Forgets, GoesOffline, TypeOK, local, history, Awaits
<1>5. CASE SyncKeriaContacts
  <2>1. online' \in BOOLEAN /\ faults' \in 0..MaxFaults
    BY <1>5, FaultTypes DEF SyncKeriaContacts, Forgets, GoesOffline
  <2>2. QED
    BY <1>1, <1>5, <2>1, PairsSynced DEF SyncKeriaContacts, Forgets, GoesOffline, TypeOK,
       Awaits
<1>6. QED BY <1>2, <1>3, <1>4, <1>5

\* Every step keeps the types.
LEMMA TypesHold ==
  ASSUME TypeOK, [Next]_vars
  PROVE  TypeOK'
<1>1. CASE UNCHANGED vars
  BY <1>1 DEF vars, local, calls, removal, history, TypeOK
<1>2. ASSUME NEW p \in Pairs,
             \/ ConnectSavesContact(p) \/ ConnectSavesPair(p)
             \/ MarkConnectionPendingDelete(p) \/ RemoveNext(p)
      PROVE  TypeOK'
  <2>1. <<p, "event">> \in Calls /\ <<p, "event">>[1] = p
    BY DEF Calls, Callers
  <2>2. QED BY <1>2, <2>1, ConnectTypes, DeletionTypes
<1>3. ASSUME NEW c \in Contacts, Resolve(c) \/ HandlerReads(c) \/ HandlerMarksInvalid(c)
      PROVE  TypeOK'
  <2>1. PICK p \in Pairs : c = p[2]
    BY <1>3 DEF Contacts
  <2>2. QED BY <1>3, <2>1, ConnectTypes, ReadTypes
<1>4. ASSUME NEW k \in Calls, Delete(k)
      PROVE  TypeOK'
  BY <1>4, DeletionTypes
<1>5. QED BY <1>1, <1>2, <1>3, <1>4, HandlerTypes, AgentTypes DEF Next

\* KERIA forgets a contact, or what it has of a pair, for a deletion that may
\* yet throw; and it learns of a pair from a handler that may.
ForgetsContact(k) ==
  deletion[k] = "deleteFromKeria" /\ keriaPair' = keriaPair \ PairsOf(k[1][2])
ForgetsPair(k) == deletion[k] = "clearFields" /\ keriaPair' = keriaPair \ {k[1]}
LearnsPair     == handler.step = "update" /\ BacksUp(handler.record.of)

\* Only these actions write what KERIA keeps of a pair.
LEMMA KeriaWriters ==
  ASSUME [Next]_vars
  PROVE  \/ UNCHANGED keriaPair
         \/ \E k \in Calls : ForgetsContact(k) \/ ForgetsPair(k)
         \/ LearnsPair
<1>1. ASSUME NEW k \in Calls, Delete(k)
      PROVE  UNCHANGED keriaPair \/ ForgetsContact(k) \/ ForgetsPair(k)
  BY <1>1 DEF Delete, DeletionLooksUp, DeletionCounts, DeletesFromKeria, DeletesContact,
     GetsFromKeria, ClearsFields, DeletionThrows, DeletesPair, Moves, ForgetsContact,
     ForgetsPair
<1>2. CASE HandleOperation
  BY <1>2 DEF HandleOperation, HandlerReturns, HandlerFails, HandlerShares,
     HandlerUpdatesKeria, HandlerWrites, HandlerThrows, LearnsPair
<1>3. QED
  BY <1>1, <1>2 DEF Next, Resolve, ConnectSavesContact, ConnectSavesPair, ResolveOobi,
     ResolveThrows, ResolvePendingThrows, LeavesUnresolved, MarkConnectionPendingDelete,
     RemoveNext, HandlerReads, HandlerMarksInvalid, BecomeOnline, Disconnect, Crash,
     SyncKeriaContacts, vars

\* A contact leaves the storage only when a deletion, or a recovery, takes it.
LEMMA ContactWriters ==
  ASSUME [Next]_vars
  PROVE  \/ contact \subseteq contact'
         \/ \E k \in Calls : DeletesContact(k)
         \/ SyncKeriaContacts
BY DEF Next, Resolve, Delete, HandleOperation, ConnectSavesContact, ConnectSavesPair,
   ResolveOobi, ResolveThrows, ResolvePendingThrows, LeavesUnresolved,
   MarkConnectionPendingDelete, RemoveNext, DeletionLooksUp, DeletionCounts,
   DeletesFromKeria, GetsFromKeria, ClearsFields, DeletionThrows, DeletesPair, HandlerReads,
   HandlerMarksInvalid, HandlerReturns, HandlerFails, HandlerShares, HandlerUpdatesKeria,
   HandlerWrites, HandlerThrows, BecomeOnline, Disconnect, GoesOffline, Crash, vars, local

\* A pair is about to be saved once its contact was, until it is or a crash.
LEMMA ConnectingSteps ==
  ASSUME [Next]_vars, NEW q \in connecting'
  PROVE  \/ ConnectSavesContact(q)
         \/ q \in connecting /\ ~Crash /\ ~SyncKeriaContacts
BY DEF Next, Resolve, Delete, HandleOperation, ConnectSavesContact, ConnectSavesPair,
   ResolveOobi, ResolveThrows, ResolvePendingThrows, LeavesUnresolved,
   MarkConnectionPendingDelete, RemoveNext, DeletionLooksUp, DeletionCounts,
   DeletesFromKeria, DeletesContact, GetsFromKeria, ClearsFields, DeletionThrows,
   DeletesPair, HandlerReads, HandlerMarksInvalid, HandlerReturns, HandlerFails,
   HandlerShares, HandlerUpdatesKeria, HandlerWrites, HandlerThrows, BecomeOnline,
   Disconnect, Crash, SyncKeriaContacts, Forgets, GoesOffline, vars, calls

\* The task of the removals takes what is marked when it starts.
LEMMA RemovalSteps ==
  ASSUME [Next]_vars
  PROVE  \/ removals' \subseteq removals
         \/ BecomeOnline
BY DEF Next, Resolve, Delete, HandleOperation, ConnectSavesContact, ConnectSavesPair,
   ResolveOobi, ResolveThrows, ResolvePendingThrows, LeavesUnresolved,
   MarkConnectionPendingDelete, RemoveNext, DeletionLooksUp, DeletionCounts,
   DeletesFromKeria, DeletesContact, GetsFromKeria, ClearsFields, DeletionThrows,
   DeletesPair, HandlerReads, HandlerMarksInvalid, HandlerReturns, HandlerFails,
   HandlerShares, HandlerUpdatesKeria, HandlerWrites, HandlerThrows, Disconnect, Crash,
   SyncKeriaContacts, Forgets, GoesOffline, Throws, vars, removal

\* A call of a deletion starts.
Starts(k) ==
  /\ deletion[k] = "idle" /\ deletion'[k] = "find"
  /\ \/ MarkConnectionPendingDelete(k[1])
     \/ RemoveNext(k[1])
     \/ HandlerMarksInvalid(k[1][2]) /\ k[1] \in Stored

\* A call of a deletion goes from an await to the next.
MovesOn(k) ==
  \/ DeletionLooksUp(k) /\ k[1] \in Stored /\ deletion'[k] = "count"
  \/ DeletionCounts(k)
  \/ DeletesFromKeria(k)
  \/ DeletesContact(k)
  \/ GetsFromKeria(k)
  \/ ClearsFields(k)

\* A call of a deletion ends.
Ends(k) ==
  /\ deletion'[k] = "idle"
  /\ \/ (DeletionLooksUp(k) /\ k[1] \notin Stored) \/ DeletionThrows(k) \/ DeletesPair(k)
     \/ Crash \/ SyncKeriaContacts

\* What a step does to a call of a deletion.
LEMMA DeletionSteps ==
  ASSUME TypeOK, [Next]_vars, NEW k \in Calls
  PROVE  deletion'[k] = deletion[k] \/ Starts(k) \/ MovesOn(k) \/ Ends(k)
<1>1. CASE UNCHANGED vars
  BY <1>1 DEF vars, removal
<1>2. ASSUME NEW p \in Pairs,
             \/ ConnectSavesContact(p) \/ ConnectSavesPair(p)
             \/ MarkConnectionPendingDelete(p) \/ RemoveNext(p)
      PROVE  deletion'[k] = deletion[k] \/ Starts(k)
  <2>1. CASE ConnectSavesContact(p) \/ ConnectSavesPair(p)
    BY <2>1 DEF ConnectSavesContact, ConnectSavesPair, removal
  <2>2. <<p, "event">>[1] = p /\ <<p, "online">>[1] = p
    OBVIOUS
  <2>3. CASE MarkConnectionPendingDelete(p)
    BY <2>2, <2>3 DEF MarkConnectionPendingDelete, Starts, TypeOK
  <2>4. CASE RemoveNext(p)
    BY <2>2, <2>4 DEF RemoveNext, Starts, TypeOK
  <2>5. QED BY <1>2, <2>1, <2>3, <2>4
<1>3. ASSUME NEW c \in Contacts, Resolve(c) \/ HandlerReads(c)
      PROVE  deletion'[k] = deletion[k]
  BY <1>3 DEF Resolve, ResolveOobi, ResolveThrows, ResolvePendingThrows, LeavesUnresolved,
     HandlerReads, removal
<1>4. ASSUME NEW c \in Contacts, HandlerMarksInvalid(c)
      PROVE  deletion'[k] = deletion[k] \/ Starts(k)
  <2>1. CASE k \in (Stored \intersect PairsOf(c)) \X {"event"} /\ deletion[k] = "idle"
    <3>1. k[1] \in Stored /\ k[1][2] = c
      BY <2>1, CallShape DEF PairsOf
    <3>2. deletion'[k] = "find"
      BY <1>4, <2>1 DEF HandlerMarksInvalid
    <3>3. QED BY <1>4, <2>1, <3>1, <3>2 DEF Starts
  <2>2. CASE ~(k \in (Stored \intersect PairsOf(c)) \X {"event"} /\ deletion[k] = "idle")
    BY <1>4, <2>2 DEF HandlerMarksInvalid
  <2>3. QED BY <2>1, <2>2
<1>5. ASSUME NEW j \in Calls, Delete(j)
      PROVE  deletion'[k] = deletion[k] \/ MovesOn(k) \/ Ends(k)
  <2>1. CASE j # k
    BY <1>5, <2>1 DEF Delete, DeletionLooksUp, DeletionCounts, DeletesFromKeria,
       DeletesContact, GetsFromKeria, ClearsFields, DeletionThrows, DeletesPair, Moves,
       Throws, TypeOK
  <2>2. CASE j = k /\ (DeletionLooksUp(k) \/ DeletionThrows(k) \/ DeletesPair(k))
    BY <2>2 DEF DeletionLooksUp, DeletionThrows, DeletesPair, Moves, Throws, TypeOK,
       MovesOn, Ends
  <2>3. QED BY <1>5, <2>1, <2>2 DEF Delete, MovesOn
<1>6. CASE HandleOperation
  BY <1>6 DEF HandleOperation, HandlerFails, HandlerShares, HandlerWrites,
     HandlerUpdatesKeria, HandlerReturns, HandlerThrows, removal
<1>7. CASE BecomeOnline \/ Disconnect
  BY <1>7 DEF BecomeOnline, Disconnect, GoesOffline, removal
<1>8. CASE Crash \/ SyncKeriaContacts
  BY <1>8 DEF Crash, SyncKeriaContacts, Forgets, GoesOffline, Ends
<1>9. QED
  BY <1>1, <1>2, <1>3, <1>4, <1>5, <1>6, <1>7, <1>8 DEF Next

\* The handler is done with a record.
Drops(r) ==
  /\ HandlerFails(r) \/ (HandlerWrites /\ r = handler.record)
  /\ r \in Records
  /\ handler'.step \in {"share", "fail"}
  /\ handler'.contact = handler.contact
  /\ handler'.todo = handler.todo \ {r}

\* What a step does to the handler.
LEMMA HandlerSteps ==
  ASSUME TypeOK, [Next]_vars
  PROVE  \/ UNCHANGED handler
         \/ handler' = NoHandler
         \/ \E c \in Contacts : HandlerReads(c)
         \/ \E r \in Records : HandlerShares(r)
         \/ HandlerUpdatesKeria
         \/ handler # NoHandler /\ \E r \in Records : Drops(r)
<1>1. ASSUME NEW r \in Records, HandlerFails(r)
      PROVE  handler # NoHandler /\ (Drops(r) \/ handler' = NoHandler)
  <2>1. handler.step = "fail" /\ handler # NoHandler
    BY <1>1 DEF HandlerFails, NoHandler
  <2>2. handler \in [step : {"share", "fail"}, contact : Contacts, todo : SUBSET Records]
    BY <2>1 DEF TypeOK
  <2>3. CASE r.deleting
    <3>1. handler' = [handler EXCEPT !.todo = @ \ {r}]
      BY <1>1, <2>3 DEF HandlerFails
    <3>2. /\ handler'.step = "fail" /\ handler'.contact = handler.contact
          /\ handler'.todo = handler.todo \ {r}
      BY <2>1, <2>2, <3>1
    <3>3. QED BY <1>1, <2>1, <3>2 DEF Drops
  <2>4. CASE ~r.deleting
    BY <1>1, <2>1, <2>4 DEF HandlerFails, Writes, Drops
  <2>5. QED BY <2>3, <2>4
<1>2. CASE HandlerWrites
  <2>1. handler.record \in Records /\ handler # NoHandler
    BY <1>2, HandlerShape DEF HandlerWrites
  <2>2. Drops(handler.record) \/ handler' = NoHandler
    BY <1>2, <2>1 DEF HandlerWrites, Writes, Drops
  <2>3. QED BY <2>1, <2>2
<1>3. QED
  BY <1>1, <1>2 DEF Next, Resolve, Delete, HandleOperation, ConnectSavesContact,
     ConnectSavesPair, ResolveOobi, ResolveThrows, ResolvePendingThrows, LeavesUnresolved,
     MarkConnectionPendingDelete, RemoveNext, DeletionLooksUp, DeletionCounts,
     DeletesFromKeria, DeletesContact, GetsFromKeria, ClearsFields, DeletionThrows,
     DeletesPair, HandlerMarksInvalid, HandlerReturns, HandlerThrows, BecomeOnline,
     Disconnect, Crash, SyncKeriaContacts, Forgets, GoesOffline, vars

-----------------------------------------------------------------------------
(* What is leaving does not come back unseen.                              *)

\* Only a new pair stops leaving, of those that no history accounts for.
LEMMA LeavingLasts ==
  ASSUME IInv, [Next]_vars, NEW p \in Pairs, Leaving(p)
  PROVE  Leaving(p)' \/ (ConnectSavesPair(p) /\ p \notin Stored)
<1> USE DEF IInv
<1>1. CASE UNCHANGED pair
  BY <1>1, PairsUntouched, HistoryLasts DEF Leaving
<1>2. ASSUME NEW q \in Pairs, ConnectSavesPair(q), q \notin Stored
      PROVE  Leaving(p)' \/ (ConnectSavesPair(p) /\ p \notin Stored)
  BY <1>2, PairMade, HistoryLasts DEF Leaving
<1>3. ASSUME NEW q \in Pairs, MarkConnectionPendingDelete(q)
      PROVE  Leaving(p)' \/ (ConnectSavesPair(p) /\ p \notin Stored)
  BY <1>3, PairMarked, HistoryLasts DEF Leaving
<1>4. ASSUME NEW c \in Contacts, HandlerMarksInvalid(c)
      PROVE  Leaving(p)' \/ (ConnectSavesPair(p) /\ p \notin Stored)
  BY <1>4, PairsInvalid, HistoryLasts DEF Leaving
<1>5. ASSUME NEW k \in Calls, DeletesPair(k)
      PROVE  Leaving(p)' \/ (ConnectSavesPair(p) /\ p \notin Stored)
  BY <1>5, PairDeleted, HistoryLasts DEF Leaving
<1>6. ASSUME NEW r \in Records, NEW s \in {"failed", "complete"},
             Handled(r, s), Writes(r, s), r.of \in Stored
      PROVE  Leaving(p)' \/ (ConnectSavesPair(p) /\ p \notin Stored)
  <2>1. CASE p = r.of /\ p \in Deleting /\ ~r.deleting
    <3>1. pair[p].deleting
      BY <2>1 DEF Deleting
    <3>2. p \in crossed'
      BY <1>6, <2>1, <3>1 DEF Writes
    <3>3. QED BY <3>2 DEF Leaving, Excused
  <2>2. CASE ~(p = r.of /\ p \in Deleting /\ ~r.deleting)
    <3>1. p \in Deleting => p \in Deleting'
      BY <1>6, <2>2, PairHandled
    <3>2. p \notin Stored => p \notin Stored'
      BY <1>6, PairHandled
    <3>3. QED BY <3>1, <3>2, HistoryLasts DEF Leaving
  <2>3. QED BY <2>1, <2>2
<1>7. CASE SyncKeriaContacts
  <2>1. Stored' = keriaPair /\ Deleting \subseteq crossed'
    BY <1>7, PairsSynced DEF SyncKeriaContacts
  <2>2. p \in keriaPair /\ p \notin Stored => Excused(p)
    BY DEF DeletedConnectionStaysDeleted, Excused
  <2>3. QED BY <2>1, <2>2, HistoryLasts DEF Leaving, Excused
<1>8. QED
  BY <1>1, <1>2, <1>3, <1>4, <1>5, <1>6, <1>7, PairWriters

\* A deletion of the pair is running or to come, or the handler has it.
Watched(p) ==
  \/ p \in removals
  \/ \E caller \in Callers : deletion[<<p, caller>>] # "idle"
  \/ Held(p)

\* What is watched is not made anew unseen.
LEMMA WatchedIsNotMade ==
  ASSUME IInv, NEW p \in Pairs, Watched(p), ConnectSavesPair(p), p \notin Stored
  PROVE  p[2] \in overlapped /\ p[2] \in overlapped'
<1>1. p \in connecting /\ overlapped' = overlapped
  BY DEF ConnectSavesPair, history
<1>2. QED BY <1>1 DEF IInv, ConnectingKnows, Watched

\* What is watched and leaving is still leaving after every step.
LEMMA WatchedStaysLeaving ==
  ASSUME IInv, [Next]_vars, NEW p \in Pairs, Leaving(p), Watched(p)
  PROVE  Leaving(p)'
BY LeavingLasts, WatchedIsNotMade DEF Leaving, Excused

\* What is watched and accounted for stays accounted for.
LEMMA WatchedStaysExcused ==
  ASSUME IInv, [Next]_vars, NEW p \in Pairs, Excused(p), Watched(p)
  PROVE  Excused(p)'
BY HistoryLasts, WatchedIsNotMade DEF Excused, IInv

\* The pair of a running deletion is watched.
LEMMA CallWatches ==
  ASSUME NEW k \in Calls, deletion[k] # "idle"
  PROVE  Watched(k[1])
<1>1. k = <<k[1], k[2]>> /\ k[2] \in Callers
  BY CallShape
<1>2. QED BY <1>1 DEF Watched

\* A pair that is there leaves only with its deletion or a recovery.
LEMMA StoredLasts ==
  ASSUME TypeOK, [Next]_vars, NEW p \in Pairs, p \in Stored, p \notin Stored'
  PROVE  (\E k \in Calls : DeletesPair(k) /\ k[1] = p) \/ SyncKeriaContacts
<1>1. CASE UNCHANGED pair
  BY <1>1, PairsUntouched
<1>2. ASSUME NEW k \in Calls, DeletesPair(k)
      PROVE  k[1] = p
  BY <1>2, PairDeleted
<1>3. QED BY <1>1, <1>2, PairWriters, PairMade, PairMarked, PairsInvalid, PairHandled

\* What the handler has is what it had, or what is pending when it reads.
LEMMA HeldSteps ==
  ASSUME TypeOK, [Next]_vars, NEW p \in Pairs, Held(p)'
  PROVE  Held(p) \/ (p \in Pending /\ UNCHANGED pair)
<1>1. CASE UNCHANGED handler
  BY <1>1 DEF Held
<1>2. ASSUME NEW c \in Contacts, HandlerReads(c)
      PROVE  p \in Pending /\ UNCHANGED pair
  BY <1>2 DEF HandlerReads, Held, local
<1>3. ASSUME NEW r \in Records, HandlerShares(r)
      PROVE  Held(p)
  BY <1>3 DEF HandlerShares, Held, NoHandler
<1>4. CASE HandlerUpdatesKeria
  <2>1. handler \in [step : {"update", "write"}, contact : Contacts,
                     todo : SUBSET Records, record : Records]
    BY <1>4 DEF HandlerUpdatesKeria, TypeOK, NoHandler
  <2>2. handler # NoHandler /\ handler'.todo = handler.todo
    BY <1>4, <2>1 DEF HandlerUpdatesKeria, NoHandler
  <2>3. QED BY <2>2 DEF Held
<1>5. ASSUME NEW r \in Records, Drops(r), handler # NoHandler
      PROVE  Held(p)
  BY <1>5 DEF Drops, Held
<1>6. QED BY <1>1, <1>2, <1>3, <1>4, <1>5, HandlerSteps DEF Held

-----------------------------------------------------------------------------
(* Connections that are being made.                                        *)

\* What a connection being made relies on, one connection at a time.
Connects(q) ==
  /\ q[2] \in contact \union overlapped
  /\ q[2] \notin overlapped =>
       /\ \A k \in Calls : k[1][2] = q[2] => deletion[k] \in {"idle", "find", "count"}
       /\ Watched(q) => q \in Stored

\* It knows what it needs when its contact is saved.
LEMMA ConnectingStarts ==
  ASSUME TypeOK, HandlerKnows, NEW q \in Pairs, ConnectSavesContact(q)
  PROVE  Connects(q)'
<1>2. CASE q[2] \in overlapped'
  BY <1>2 DEF Connects
<1>3. CASE q[2] \notin overlapped'
  <2>1. q[2] \in contact' /\ ~BeingDeleted(q[2]) /\ ~Handles(q[2])
    BY <1>3 DEF ConnectSavesContact
  <2>2. UNCHANGED <<deletion, removals, handler>>
    BY DEF ConnectSavesContact, removal
  <2>3. ASSUME NEW k \in Calls, k[1][2] = q[2]
        PROVE  deletion[k] = "idle"
    <3>1. k[1] \in PairsOf(q[2]) /\ k[2] \in Callers /\ k = <<k[1], k[2]>>
      BY <2>3, CallShape DEF PairsOf
    <3>2. QED BY <2>1, <3>1 DEF BeingDeleted
  <2>4. q \notin removals /\ \A caller \in Callers : deletion[<<q, caller>>] = "idle"
    <3>1. q \in PairsOf(q[2])
      BY DEF PairsOf
    <3>2. QED BY <2>1, <3>1 DEF BeingDeleted
  <2>5. ~Held(q)
    BY <2>1 DEF Handles, Held, HandlerKnows
  <2>6. ~Watched(q)'
    BY <2>2, <2>4, <2>5 DEF Watched, Held
  <2>7. QED BY <2>1, <2>2, <2>3, <2>6 DEF Connects
<1>4. QED BY <1>2, <1>3

\* What is newly watched is there.
LEMMA WatchingStarts ==
  ASSUME TypeOK, [Next]_vars, NEW q \in Pairs, Watched(q)', ~Watched(q)
  PROVE  q \in Stored /\ q \in Stored'
<1>1. CASE q \in removals'
  <2>1. BecomeOnline /\ q \in Deleting
    BY <1>1, RemovalSteps DEF Watched, BecomeOnline
  <2>2. UNCHANGED pair
    BY <2>1 DEF BecomeOnline, local
  <2>3. QED BY <2>1, <2>2, StoredPairs, PairsUntouched
<1>2. ASSUME NEW caller \in Callers, deletion'[<<q, caller>>] # "idle"
      PROVE  q \in Stored /\ q \in Stored'
  <2> DEFINE k == <<q, caller>>
  <2>1. k \in Calls /\ k[1] = q
    BY DEF Calls
  <2>2. deletion[k] = "idle"
    BY DEF Watched
  <2>3. ~MovesOn(k)
    BY <2>2 DEF MovesOn, DeletionLooksUp, DeletionCounts, DeletesFromKeria, DeletesContact,
       GetsFromKeria, ClearsFields, Moves
  <2>4. Starts(k)
    BY <1>2, <2>1, <2>2, <2>3, DeletionSteps DEF Ends
  <2>5. ~RemoveNext(q)
    BY DEF RemoveNext, Watched
  <2>6. CASE MarkConnectionPendingDelete(q)
    BY <2>6, PairMarked DEF MarkConnectionPendingDelete
  <2>7. CASE HandlerMarksInvalid(q[2]) /\ q \in Stored
    BY <2>7, PairsInvalid DEF Contacts
  <2>8. QED BY <2>1, <2>4, <2>5, <2>6, <2>7 DEF Starts
<1>3. CASE Held(q)'
  BY <1>3, HeldSteps, StoredPairs, PairsUntouched DEF Watched
<1>4. QED BY <1>1, <1>2, <1>3 DEF Watched

\* It keeps what it knows until it is made.
LEMMA ConnectingLasts ==
  ASSUME IInv, [Next]_vars, NEW q \in connecting, ~Crash, ~SyncKeriaContacts
  PROVE  Connects(q)'
<1>1. TypeOK /\ q \in Pairs
  BY DEF IInv, TypeOK
<1>2. CASE q[2] \in overlapped'
  BY <1>2 DEF Connects
<1>3. CASE q[2] \notin overlapped'
  <2>1. q[2] \notin overlapped
    BY <1>1, <1>3, HistoryLasts
  <2>2. /\ q[2] \in contact
        /\ \A k \in Calls : k[1][2] = q[2] => deletion[k] \in {"idle", "find", "count"}
        /\ Watched(q) => q \in Stored
    BY <2>1 DEF IInv, ConnectingKnows, Watched
  <2>3. q[2] \in contact'
    <3>1. ASSUME NEW k \in Calls, DeletesContact(k)
          PROVE  k[1][2] # q[2]
      BY <2>2, <3>1 DEF DeletesContact, Moves
    <3>2. QED BY <2>2, <3>1, ContactWriters DEF DeletesContact
  <2>4. ASSUME NEW k \in Calls, k[1][2] = q[2]
        PROVE  deletion'[k] \in {"idle", "find", "count"}
    <3>1. deletion[k] \in {"idle", "find", "count"}
      BY <2>2, <2>4
    <3>2. CASE MovesOn(k)
      <4>1. ~DeletionCounts(k)
        BY <1>3, <2>4 DEF DeletionCounts
      <4>2. QED
        BY <3>1, <3>2, <4>1 DEF MovesOn, DeletesFromKeria, DeletesContact, GetsFromKeria,
           ClearsFields, Moves
    <3>3. QED BY <1>1, <3>1, <3>2, DeletionSteps DEF Starts, Ends
  <2>5. Watched(q)' => q \in Stored'
    <3>1. q \in Stored => q \in Stored'
      <4>1. ASSUME NEW k \in Calls, DeletesPair(k)
            PROVE  k[1] # q
        BY <2>2, <4>1 DEF DeletesPair
      <4>2. QED BY <1>1, <4>1, StoredLasts
    <3>2. QED BY <1>1, <2>2, <3>1, WatchingStarts
  <2>6. QED BY <2>3, <2>4, <2>5 DEF Connects
<1>4. QED BY <1>2, <1>3

\* Every step keeps what the connections being made rely on.
LEMMA ConnectingHolds ==
  ASSUME IInv, [Next]_vars
  PROVE  ConnectingKnows'
<1>1. ASSUME NEW q \in connecting'
      PROVE  Connects(q)'
  <2>1. TypeOK'
    BY TypesHold DEF IInv
  <2>2. q \in Pairs
    BY <2>1 DEF TypeOK
  <2>3. QED BY <2>2, ConnectingSteps, ConnectingStarts, ConnectingLasts DEF IInv
<1>2. QED BY <1>1 DEF ConnectingKnows, Connects, Watched

-----------------------------------------------------------------------------
(* Deletions.                                                              *)

\* A deletion that counts one pair left has seen all of its contact leave.
LEMMA CountsTheLast ==
  ASSUME IInv, NEW k \in Calls, DeletionCounts(k), deletion'[k] = "deleteFromKeria",
         NEW q \in PairsOf(k[1][2])
  PROVE  Leaving(q)'
<1>1. /\ TypeOK /\ k[1] \in Pairs /\ deletion[k] = "count"
      /\ q \in Pairs /\ q[2] = k[1][2]
  BY CallShape DEF IInv, DeletionCounts, Moves, PairsOf
<1>2. /\ UNCHANGED <<pair, crossed>>
      /\ overlapped \subseteq overlapped'
  BY DEF DeletionCounts, local
<1>3. CASE k[1] \notin Stored
  BY <1>1, <1>3 DEF DeletionCounts, Leaving, Excused
<1>4. CASE k[1] \in Stored
  <2> DEFINE S == Stored \intersect PairsOf(k[1][2])
  <2>1. Cardinality(S) = 1
    BY <1>1 DEF DeletionCounts, Moves, TypeOK
  <2>2. IsFiniteSet(S)
    BY PairsAssumption, FS_Subset, StoredPairs, <1>1
  <2>3. PICK x : S = {x}
    BY <2>1, <2>2, FS_Singleton
  <2>4. k[1] \in S
    BY <1>1, <1>4 DEF PairsOf
  <2>5. q # k[1] => q \notin Stored
    BY <2>3, <2>4
  <2>6. q = k[1] => Leaving(q)
    BY <1>1 DEF IInv, DeletionKnows
  <2>7. Leaving(q)
    BY <2>5, <2>6 DEF Leaving
  <2>8. QED BY <1>2, <2>7, PairsUntouched DEF Leaving, Excused
<1>5. QED BY <1>3, <1>4

\* All that is to be deleted is leaving.
LEMMA RemovalsLeave ==
  ASSUME IInv, [Next]_vars, NEW p \in removals'
  PROVE  Leaving(p)'
<1>1. TypeOK /\ TypeOK'
  BY TypesHold DEF IInv
<1>2. p \in Pairs
  BY <1>1 DEF TypeOK
<1>3. CASE p \in removals
  BY <1>2, <1>3, WatchedStaysLeaving DEF IInv, DeletionKnows, Watched
<1>4. CASE p \notin removals
  <2>1. BecomeOnline
    BY <1>4, RemovalSteps
  <2>2. p \in Deleting /\ UNCHANGED pair
    BY <2>1 DEF BecomeOnline, local
  <2>3. QED BY <2>2, PairsUntouched DEF Leaving
<1>5. QED BY <1>3, <1>4

\* The pair of a running deletion is leaving.
LEMMA DeletionLeaves ==
  ASSUME IInv, [Next]_vars, NEW k \in Calls, deletion'[k] # "idle"
  PROVE  Leaving(k[1])'
<1>1. TypeOK /\ k[1] \in Pairs /\ k[1][2] \in Contacts
  BY CallShape DEF IInv
<1>2. CASE deletion[k] # "idle"
  BY <1>1, <1>2, CallWatches, WatchedStaysLeaving DEF IInv, DeletionKnows
<1>3. CASE deletion[k] = "idle"
  <2>1. ~MovesOn(k)
    BY <1>3 DEF MovesOn, DeletionLooksUp, DeletionCounts, DeletesFromKeria, DeletesContact,
       GetsFromKeria, ClearsFields, Moves
  <2>2. Starts(k)
    BY <1>1, <1>3, <2>1, DeletionSteps DEF Ends
  <2>3. CASE MarkConnectionPendingDelete(k[1])
    BY <1>1, <2>3, PairMarked DEF Leaving
  <2>4. CASE RemoveNext(k[1])
    <3>1. k[1] \in removals
      BY <2>4 DEF RemoveNext
    <3>2. QED BY <1>1, <3>1, WatchedStaysLeaving DEF IInv, DeletionKnows, Watched
  <2>5. CASE HandlerMarksInvalid(k[1][2]) /\ k[1] \in Stored
    BY <1>1, <2>5, PairsInvalid DEF Leaving, PairsOf
  <2>6. QED BY <2>2, <2>3, <2>4, <2>5 DEF Starts
<1>4. QED BY <1>2, <1>3

\* All pairs of a contact that is being deleted are leaving.
LEMMA ContactLeaves ==
  ASSUME IInv, [Next]_vars, NEW k \in Calls,
         deletion'[k] \in {"deleteFromKeria", "deleteContact"}, NEW q \in PairsOf(k[1][2])
  PROVE  Leaving(q)'
<1>1. TypeOK /\ q \in Pairs /\ q[2] = k[1][2]
  BY DEF IInv, PairsOf
<1>2. CASE deletion[k] \in {"deleteFromKeria", "deleteContact"}
  <2>1. Leaving(q)
    BY <1>2 DEF IInv, DeletionKnows
  <2>2. ConnectSavesPair(q) => q[2] \in overlapped /\ overlapped \subseteq overlapped'
    BY <1>1, <1>2 DEF IInv, ConnectingKnows, ConnectSavesPair, history
  <2>3. QED BY <1>1, <2>1, <2>2, LeavingLasts DEF Leaving, Excused
<1>3. CASE deletion[k] \notin {"deleteFromKeria", "deleteContact"}
  <2>1. deletion'[k] # "find" /\ deletion'[k] # "count" /\ deletion'[k] # "idle"
    OBVIOUS
  <2>2. MovesOn(k)
    BY <1>1, <1>3, <2>1, DeletionSteps DEF Starts, Ends
  <2>3. DeletionCounts(k) /\ deletion'[k] = "deleteFromKeria"
    BY <1>1, <1>3, <2>1, <2>2 DEF MovesOn, DeletionCounts, DeletesFromKeria, DeletesContact,
       GetsFromKeria, ClearsFields, Moves, TypeOK
  <2>4. QED BY <2>3, CountsTheLast
<1>4. QED BY <1>2, <1>3

\* A deletion that is about to delete its pair has KERIA cleared of it.
LEMMA KeriaCleared ==
  ASSUME IInv, [Next]_vars, NEW k \in Calls,
         deletion'[k] \in {"deleteContact", "deletePair"}
  PROVE  k[1] \notin keriaPair' \/ Excused(k[1])'
<1>1. TypeOK /\ k[1] \in Pairs /\ k[1] \in PairsOf(k[1][2])
  BY CallShape DEF IInv, PairsOf
<1>2. ASSUME deletion[k] \in {"deleteContact", "deletePair"}
      PROVE  k[1] \notin keriaPair' \/ Excused(k[1])'
  <2>1. Watched(k[1]) /\ Leaving(k[1])
    BY <1>2, CallWatches DEF IInv, DeletionKnows
  <2>2. CASE Excused(k[1])
    BY <1>1, <2>1, <2>2, WatchedStaysExcused
  <2>3. CASE ~Excused(k[1])
    <3>1. k[1] \notin keriaPair
      BY <1>2, <2>3 DEF IInv, DeletionKnows
    <3>2. LearnsPair /\ k[1] = handler.record.of => k[1] \in crossed'
      BY <2>1, <2>3 DEF LearnsPair, BacksUp, Leaving
    <3>3. LearnsPair => keriaPair' = keriaPair \union {handler.record.of}
      BY DEF LearnsPair, BacksUp
    <3>4. QED
      BY <3>1, <3>2, <3>3, KeriaWriters DEF ForgetsContact, ForgetsPair, Excused
  <2>4. QED BY <2>2, <2>3
<1>3. CASE deletion[k] \notin {"deleteContact", "deletePair"}
  <2>1. MovesOn(k)
    BY <1>1, <1>3, DeletionSteps DEF Starts, Ends
  <2>2. DeletesFromKeria(k) \/ (GetsFromKeria(k) /\ k[1] \notin keriaPair) \/ ClearsFields(k)
    BY <1>1, <1>3, <2>1 DEF MovesOn, DeletionCounts, DeletesContact, GetsFromKeria, Moves,
       TypeOK
  <2>3. QED BY <1>1, <2>2 DEF DeletesFromKeria, GetsFromKeria, ClearsFields
<1>4. QED BY <1>2, <1>3

\* Every step keeps what the deletions rely on.
LEMMA DeletionHolds ==
  ASSUME IInv, [Next]_vars
  PROVE  DeletionKnows'
BY RemovalsLeave, DeletionLeaves, ContactLeaves, KeriaCleared DEF DeletionKnows, PairsOf

-----------------------------------------------------------------------------
(* The handler.                                                            *)

\* What the handler read of a pair is still so, or the history tells.
ReadStill(r) ==
  r.deleting => \/ r.of \notin Stored
                \/ r.of \in Deleting
                \/ r.of[2] \in overlapped

\* A record that the handler holds, and does not write now, stays as it was
\* read.
LEMMA ReadLasts ==
  ASSUME IInv, [Next]_vars, handler # NoHandler, NEW r \in handler.todo, ReadStill(r),
         ~SyncKeriaContacts,
         \A s \in Records : Drops(s) => s.of # r.of
  PROVE  ReadStill(r)'
<1>1. TypeOK /\ r \in Records /\ r.of \in Pairs /\ Held(r.of)
  BY HandlerShape DEF IInv, Records, Held
<1>2. r.of[2] \in overlapped => r.of[2] \in overlapped'
  BY <1>1, HistoryLasts
<1>3. CASE UNCHANGED pair
  BY <1>2, <1>3, PairsUntouched DEF ReadStill
<1>4. ASSUME NEW p \in Pairs, ConnectSavesPair(p), p \notin Stored
      PROVE  ReadStill(r)'
  <2>1. r.of = p => r.of[2] \in overlapped'
    BY <1>1, <1>4, WatchedIsNotMade DEF Watched
  <2>2. QED BY <1>1, <1>2, <1>4, <2>1, PairMade DEF ReadStill
<1>5. ASSUME NEW p \in Pairs, MarkConnectionPendingDelete(p)
      PROVE  ReadStill(r)'
  BY <1>1, <1>2, <1>5, PairMarked DEF ReadStill
<1>6. ASSUME NEW c \in Contacts, HandlerMarksInvalid(c)
      PROVE  ReadStill(r)'
  BY <1>1, <1>2, <1>6, PairsInvalid DEF ReadStill
<1>7. ASSUME NEW k \in Calls, DeletesPair(k)
      PROVE  ReadStill(r)'
  BY <1>1, <1>2, <1>7, PairDeleted DEF ReadStill
<1>8. ASSUME NEW w \in Records, NEW s \in {"failed", "complete"},
             Handled(w, s), Writes(w, s), w.of \in Stored
      PROVE  ReadStill(r)'
  <2>1. Drops(w)
    BY <1>8 DEF Handled, Drops, Writes
  <2>2. w.of # r.of
    BY <2>1
  <2>3. QED BY <1>1, <1>2, <1>8, <2>2, PairHandled DEF ReadStill
<1>9. QED BY <1>1, <1>3, <1>4, <1>5, <1>6, <1>7, <1>8, PairWriters

\* What the handler reads is so when it reads it.
LEMMA HandlerReadsTruth ==
  ASSUME TypeOK, NEW c \in Contacts, HandlerReads(c)
  PROVE  HandlerKnows'
<1> DEFINE todo == {[of |-> p, deleting |-> pair[p].deleting] :
                      p \in Pending \intersect PairsOf(c)}
<1>1. PICK step \in {"share", "fail"} :
        handler' = [step |-> step, contact |-> c, todo |-> todo]
  BY DEF HandlerReads
<1>2. \A r \in todo : /\ r.of \in Pairs /\ r.of[2] = c
                      /\ r.deleting = pair[r.of].deleting
  BY DEF PairsOf
<1>3. \A r, s \in todo : r.of = s.of => r = s
  OBVIOUS
<1> HIDE DEF todo
<1>4. /\ handler'.todo = todo /\ handler'.contact = c
      /\ handler'.step \notin {"update", "write"}
  BY <1>1
<1>5. Deleting' = Deleting
  BY PairsUntouched DEF HandlerReads, local
<1>6. \A r \in todo : r.deleting => r.of \in Deleting'
  BY <1>2, <1>5 DEF Deleting
<1>7. QED BY <1>2, <1>3, <1>4, <1>6 DEF HandlerKnows

\* The records that the handler holds, each once, as they were read.
TodoKnown ==
  /\ \A r, s \in handler.todo : r.of = s.of => r = s
  /\ \A r \in handler.todo : r.of[2] = handler.contact /\ ReadStill(r)

\* The records that the handler holds are known after its steps.
LEMMA TodoLasts ==
  ASSUME IInv, [Next]_vars, handler # NoHandler, ~SyncKeriaContacts,
         handler'.contact = handler.contact,
         \/ handler'.todo = handler.todo /\ \A r \in Records : ~Drops(r)
         \/ \E r \in handler.todo : Drops(r)
  PROVE  TodoKnown'
<1>1. TodoKnown
  BY DEF IInv, HandlerKnows, TodoKnown, ReadStill
<1>2. CASE handler'.todo = handler.todo /\ \A r \in Records : ~Drops(r)
  BY <1>1, <1>2, ReadLasts DEF TodoKnown
<1>3. ASSUME NEW r \in handler.todo, Drops(r)
      PROVE  TodoKnown'
  <2>1. handler'.todo = handler.todo \ {r}
    BY <1>3 DEF Drops
  <2>2. \A s \in Records : Drops(s) => handler.todo \ {s} = handler.todo \ {r}
    BY <2>1 DEF Drops
  <2>3. ASSUME NEW t \in handler.todo \ {r}
        PROVE  ReadStill(t)'
    <3>1. ASSUME NEW s \in Records, Drops(s)
          PROVE  s.of # t.of
      <4>1. t \in handler.todo \ {s}
        BY <2>2, <2>3, <3>1
      <4>2. s = r
        BY <2>2, <3>1
      <4>3. QED BY <1>1, <1>3, <2>3, <4>2 DEF TodoKnown
    <3>2. QED BY <1>1, <2>3, <3>1, ReadLasts DEF TodoKnown
  <2>4. QED BY <1>1, <2>1, <2>3 DEF TodoKnown
<1>4. QED BY <1>2, <1>3

\* What the handler is done with, it held.
LEMMA DropsHeld ==
  ASSUME HandlerKnows, NEW r \in Records, Drops(r)
  PROVE  r \in handler.todo
BY DEF HandlerKnows, Drops, HandlerFails, HandlerWrites

\* What is not leaving and on KERIA stays there or begins to leave.
LEMMA KeriaLasts ==
  ASSUME IInv, [Next]_vars, NEW p \in keriaPair, ~Leaving(p)
  PROVE  p \in keriaPair'
<1>1. ASSUME NEW k \in Calls, ForgetsContact(k)
      PROVE  p \in keriaPair'
  BY <1>1 DEF ForgetsContact, IInv, DeletionKnows
<1>2. ASSUME NEW k \in Calls, ForgetsPair(k)
      PROVE  p \in keriaPair'
  BY <1>2 DEF ForgetsPair, IInv, DeletionKnows
<1>3. QED BY <1>1, <1>2, KeriaWriters DEF LearnsPair, BacksUp

\* What the handler gave to KERIA is there when the record is written, or the
\* pair is leaving.
LEMMA GivenLasts ==
  ASSUME IInv, [Next]_vars, handler.step = "write", NEW p \in Pairs, p = handler.record.of
  PROVE  Leaving(p)' \/ p \in keriaPair'
<1>1. Watched(p) /\ (Leaving(p) \/ p \in keriaPair)
  <2>1. handler.record \in handler.todo /\ handler # NoHandler
    BY HandlerShape DEF IInv, HandlerKnows
  <2>2. QED BY <2>1 DEF IInv, HandlerKnows, Watched, Held
<1>2. QED BY <1>1, WatchedStaysLeaving, KeriaLasts

\* Every step keeps what the handler relies on.
LEMMA HandlerHolds ==
  ASSUME IInv, [Next]_vars
  PROVE  HandlerKnows'
<1>1. TypeOK /\ HandlerKnows
  BY DEF IInv
<1>2. CASE handler' = NoHandler
  BY <1>2 DEF HandlerKnows, NoHandler
<1>3. ASSUME NEW c \in Contacts, HandlerReads(c)
      PROVE  HandlerKnows'
  BY <1>1, <1>3, HandlerReadsTruth
<1>4. CASE UNCHANGED handler /\ handler # NoHandler
  <2>1. ~SyncKeriaContacts
    BY <1>4 DEF SyncKeriaContacts, Forgets, GoesOffline
  <2>2. \A r \in Records : ~Drops(r)
    BY <1>1, <1>4, DropsHeld DEF Drops
  <2>3. TodoKnown'
    BY <1>4, <2>1, <2>2, TodoLasts
  <2>4. ASSUME handler.step = "write"
        PROVE  (Leaving(handler.record.of) \/ handler.record.of \in keriaPair)'
    <3>1. PICK p \in Pairs : p = handler.record.of
      BY <1>1, <2>4, HandlerShape DEF Records
    <3>2. Leaving(p)' \/ p \in keriaPair'
      BY <2>4, <3>1, GivenLasts
    <3>3. QED BY <1>4, <3>1, <3>2 DEF Leaving, Excused
  <2>5. QED BY <1>1, <1>4, <2>3, <2>4 DEF HandlerKnows, TodoKnown, ReadStill
<1>5. ASSUME NEW r \in Records, HandlerShares(r)
      PROVE  HandlerKnows'
  <2>1. /\ handler # NoHandler /\ r \in handler.todo
        /\ handler'.step = "update" /\ handler'.record = r
        /\ handler'.todo = handler.todo /\ handler'.contact = handler.contact
    BY <1>5 DEF HandlerShares, NoHandler
  <2>2. ~SyncKeriaContacts
    <3>1. handler' # NoHandler
      BY <2>1 DEF NoHandler
    <3>2. QED BY <3>1 DEF SyncKeriaContacts, Forgets, GoesOffline
  <2>3. \A s \in Records : ~Drops(s)
    BY <2>1 DEF Drops
  <2>4. TodoKnown'
    BY <2>1, <2>2, <2>3, TodoLasts
  <2>5. QED BY <2>1, <2>4 DEF HandlerKnows, TodoKnown, ReadStill
<1>6. CASE HandlerUpdatesKeria
  <2>1. handler \in [step : {"update", "write"}, contact : Contacts,
                     todo : SUBSET Records, record : Records]
    BY <1>1, <1>6 DEF HandlerUpdatesKeria, TypeOK, NoHandler
  <2>2. /\ handler # NoHandler
        /\ handler'.step = "write" /\ handler'.record = handler.record
        /\ handler'.todo = handler.todo /\ handler'.contact = handler.contact
    BY <1>6, <2>1 DEF HandlerUpdatesKeria, NoHandler
  <2>3. ~SyncKeriaContacts
    <3>1. handler' # NoHandler
      BY <2>2 DEF NoHandler
    <3>2. QED BY <3>1 DEF SyncKeriaContacts, Forgets, GoesOffline
  <2>4. \A s \in Records : ~Drops(s)
    BY <2>2 DEF Drops
  <2>5. TodoKnown'
    BY <2>2, <2>3, <2>4, TodoLasts
  <2>6. handler'.record \in handler'.todo /\ handler'.record.of \in keriaPair'
    BY <1>1, <1>6, <2>2 DEF HandlerUpdatesKeria, BacksUp, HandlerKnows
  <2>7. QED BY <2>5, <2>6 DEF HandlerKnows, TodoKnown, ReadStill
<1>7. ASSUME handler # NoHandler, NEW r \in Records, Drops(r)
      PROVE  HandlerKnows'
  <2>1. handler' # NoHandler
    BY <1>7 DEF Drops, NoHandler
  <2>2. ~SyncKeriaContacts
    BY <2>1 DEF SyncKeriaContacts, Forgets, GoesOffline
  <2>3. TodoKnown'
    BY <1>1, <1>7, <2>2, DropsHeld, TodoLasts DEF Drops
  <2>4. handler'.step \notin {"update", "write"}
    BY <1>7 DEF Drops
  <2>5. QED BY <2>3, <2>4 DEF HandlerKnows, TodoKnown, ReadStill
<1>8. QED BY <1>1, <1>2, <1>3, <1>4, <1>5, <1>6, <1>7, HandlerSteps

-----------------------------------------------------------------------------
(* What the user sees, and what KERIA keeps.                               *)

\* Every step keeps the contact of a connection that is shown.
LEMMA ShownHolds ==
  ASSUME IInv, [Next]_vars
  PROVE  ShownConnectionHasContact'
<1>1. TypeOK /\ TypeOK'
  BY TypesHold DEF IInv
<1>2. SUFFICES ASSUME NEW p \in Pairs, ~Leaving(p)'
               PROVE  p[2] \in contact' \/ Excused(p)'
  BY <1>1, StoredPairs DEF ShownConnectionHasContact, Leaving, Excused, Stored
<1>3. CASE Leaving(p)
  <2>1. p \in connecting /\ p[2] \in contact \union overlapped
        /\ contact' = contact /\ overlapped' = overlapped
    BY <1>2, <1>3, LeavingLasts DEF ConnectSavesPair, IInv, ConnectingKnows, history
  <2>2. QED BY <2>1 DEF Excused
<1>4. CASE ~Leaving(p)
  <2>1. p \in Stored \ Deleting /\ ~Excused(p)
    BY <1>4 DEF Leaving
  <2>2. p[2] \in contact
    BY <2>1 DEF IInv, ShownConnectionHasContact, Excused
  <2>3. ASSUME NEW k \in Calls, DeletesContact(k)
        PROVE  p[2] \in contact'
    BY <1>4, <2>2, <2>3 DEF DeletesContact, Moves, IInv, DeletionKnows, PairsOf
  <2>4. CASE SyncKeriaContacts
    <3>1. p \in keriaPair
      BY <1>1, <1>2, <2>4, PairsSynced DEF Leaving
    <3>2. QED BY <2>4, <3>1 DEF SyncKeriaContacts
  <2>5. QED BY <2>2, <2>3, <2>4, ContactWriters
<1>5. QED BY <1>3, <1>4

\* A pair becomes complete only when the handler writes it, or in a recovery.
LEMMA ConfirmedSteps ==
  ASSUME TypeOK, [Next]_vars, NEW p \in Pairs, p \in Confirmed', p \notin Confirmed
  PROVE  \/ handler.step = "write" /\ p = handler.record.of /\ HandlerWrites
         \/ SyncKeriaContacts
<1>1. ASSUME NEW r \in Records, NEW s \in {"failed", "complete"},
             Handled(r, s), Writes(r, s), r.of \in Stored
      PROVE  handler.step = "write" /\ p = handler.record.of /\ HandlerWrites
  <2>1. p = r.of /\ s = "complete"
    BY <1>1, PairHandled
  <2>2. QED BY <1>1, <2>1 DEF Handled, HandlerWrites
<1>2. QED
  BY <1>1, PairWriters, PairsUntouched, PairMade, PairMarked, PairsInvalid, PairDeleted

\* Every step keeps what is confirmed on KERIA.
LEMMA ConfirmedHolds ==
  ASSUME IInv, [Next]_vars
  PROVE  ConfirmedConnectionIsBackedUp'
<1>1. TypeOK /\ TypeOK'
  BY TypesHold DEF IInv
<1>2. SUFFICES ASSUME NEW p \in Pairs, ~Leaving(p)', p \in Confirmed'
               PROVE  p \in keriaPair' \/ Excused(p)'
  BY DEF ConfirmedConnectionIsBackedUp, Leaving, Excused, Stored, Confirmed
<1>3. CASE SyncKeriaContacts
  BY <1>1, <1>2, <1>3, PairsSynced DEF SyncKeriaContacts, Leaving
<1>4. CASE Leaving(p) /\ ~SyncKeriaContacts
  <2>1. ConnectSavesPair(p) /\ p \notin Stored
    BY <1>2, <1>4, LeavingLasts
  <2>2. p \notin Confirmed'
    BY <1>1, <2>1, PairMade, StoredPairs
  <2>3. QED BY <1>2, <2>2
<1>5. CASE ~Leaving(p) /\ ~SyncKeriaContacts
  <2>1. CASE p \in Confirmed
    BY <1>5, <2>1, KeriaLasts
    DEF IInv, ConfirmedConnectionIsBackedUp, Leaving, Excused, Confirmed
  <2>2. CASE p \notin Confirmed
    <3>1. handler.step = "write" /\ p = handler.record.of /\ HandlerWrites
      BY <1>1, <1>2, <1>5, <2>2, ConfirmedSteps
    <3>2. p \in keriaPair
      BY <1>5, <3>1 DEF IInv, HandlerKnows
    <3>3. QED BY <1>5, <3>2, KeriaLasts
  <2>3. QED BY <2>1, <2>2
<1>6. QED BY <1>3, <1>4, <1>5

\* Every step keeps what is deleted off KERIA.
LEMMA DeletedHolds ==
  ASSUME IInv, [Next]_vars
  PROVE  DeletedConnectionStaysDeleted'
<1>1. TypeOK
  BY DEF IInv
<1>2. SUFFICES ASSUME NEW p \in Pairs, p \notin Stored', p \in keriaPair'
               PROVE  Excused(p)'
  BY DEF DeletedConnectionStaysDeleted, Excused
<1>3. CASE p \notin Stored
  <2>1. CASE p \in keriaPair
    <3>1. Excused(p)
      BY <1>3, <2>1 DEF IInv, DeletedConnectionStaysDeleted, Excused
    <3>2. ~(ConnectSavesPair(p) /\ p \notin Stored)
      BY <1>1, <1>2, PairMade
    <3>3. QED BY <1>1, <3>1, <3>2, HistoryLasts
  <2>2. CASE p \notin keriaPair
    <3>1. LearnsPair
      BY <1>2, <2>2, KeriaWriters DEF ForgetsContact, ForgetsPair
    <3>2. QED BY <1>2, <1>3, <2>2, <3>1 DEF LearnsPair, BacksUp, Excused
  <2>3. QED BY <2>1, <2>2
<1>4. CASE p \in Stored
  <2>1. ASSUME NEW k \in Calls, DeletesPair(k), k[1] = p
        PROVE  Excused(p)'
    <3>1. deletion[k] = "deletePair" /\ keriaPair' = keriaPair
      BY <2>1 DEF DeletesPair
    <3>2. Excused(p) /\ Watched(p)
      BY <1>2, <2>1, <3>1, CallWatches DEF IInv, DeletionKnows
    <3>3. QED BY <3>2, WatchedStaysExcused
  <2>2. ~SyncKeriaContacts
    BY <1>1, <1>2, PairsSynced DEF SyncKeriaContacts
  <2>3. QED BY <1>1, <1>2, <1>4, <2>1, <2>2, StoredLasts
<1>5. QED BY <1>3, <1>4

-----------------------------------------------------------------------------
(* Deletions and resolutions that are owed.                                *)

\* While the agent is online, what a call of a deletion gives up when it fails,
\* and what the task of the removals then does, is left in unremoved.
LEMMA DeletionLasts ==
  ASSUME IInv, [Next]_vars, online', online, NEW p \in Deleting, p \in Deleting'
  PROVE  \/ p \in removals' \union unremoved'
         \/ p[2] \in overlapped'
         \/ \E caller \in Callers : deletion'[<<p, caller>>] # "idle"
<1>1. TypeOK /\ p \in Pairs /\ p \in Stored
  BY StoredPairs DEF IInv, Deleting
<1>2. CASE p[2] \in overlapped
  BY <1>1, <1>2, HistoryLasts
<1>3. ASSUME NEW caller \in Callers, deletion[<<p, caller>>] # "idle"
      PROVE  deletion'[<<p, caller>>] # "idle" \/ p \in unremoved'
  <2> DEFINE k == <<p, caller>>
  <2>1. k \in Calls /\ k[1] = p
    BY <1>1 DEF Calls
  <2>2. ~Crash /\ ~SyncKeriaContacts /\ (DeletionThrows(k) => p \in unremoved')
    BY DEF DeletionThrows, Throws, Crash, SyncKeriaContacts, Forgets, GoesOffline
  <2>3. ~DeletesPair(k)
    BY <1>1, <2>1, PairDeleted
  <2>4. Ends(k) => p \in unremoved'
    BY <1>1, <2>1, <2>2, <2>3 DEF Ends
  <2>5. MovesOn(k) => deletion'[k] # "idle"
    BY <1>1, <2>1 DEF MovesOn, DeletionCounts, DeletesFromKeria, DeletesContact,
       GetsFromKeria, ClearsFields, Moves, TypeOK
  <2>6. QED BY <1>1, <1>3, <2>1, <2>4, <2>5, DeletionSteps DEF Starts
<1>4. CASE p \in removals \union unremoved
  <2>1. ~BecomeOnline /\ ~Crash /\ ~SyncKeriaContacts
    BY DEF BecomeOnline, Crash, SyncKeriaContacts, Forgets, GoesOffline
  <2>2. ASSUME NEW q \in Pairs, RemoveNext(q)
        PROVE  \/ p \in removals' \union unremoved'
               \/ \E caller \in Callers : deletion'[<<p, caller>>] # "idle"
    <3>1. deletion'[<<q, "online">>] = "find"
      BY <1>1, <2>2 DEF RemoveNext, TypeOK, Calls, Callers
    <3>2. "online" \in Callers
      BY DEF Callers
    <3>3. removals' = removals \ {q} /\ unremoved' = unremoved
      BY <2>2 DEF RemoveNext, history
    <3>4. QED BY <1>4, <3>1, <3>2, <3>3
  <2>3. ASSUME NEW q \in Pairs, ConnectSavesPair(q)
        PROVE  p \in removals' \union unremoved'
    BY <1>1, <1>4, <2>3 DEF ConnectSavesPair, removal, history
  <2>4. ASSUME NEW k \in Calls, Delete(k)
        PROVE  p \in removals' \union unremoved'
    BY <1>4, <2>4 DEF Delete, DeletionLooksUp, DeletionCounts, DeletesFromKeria,
       DeletesContact, GetsFromKeria, ClearsFields, DeletionThrows, DeletesPair, Throws,
       removal, history
  <2>5. CASE UNCHANGED <<removals, unremoved>>
    BY <1>4, <2>5
  <2>6. QED
    BY <2>1, <2>2, <2>3, <2>4, <2>5 DEF Next, Resolve, HandleOperation, ConnectSavesContact,
       ResolveOobi, ResolveThrows, ResolvePendingThrows, LeavesUnresolved,
       MarkConnectionPendingDelete, HandlerReads, HandlerMarksInvalid, HandlerReturns,
       HandlerFails, HandlerShares, HandlerUpdatesKeria, HandlerWrites, HandlerThrows,
       Disconnect, GoesOffline, vars, removal, history
<1>5. QED BY <1>2, <1>3, <1>4 DEF IInv, DeletionIsUnderWay

\* A pair that is marked anew is deleted by an event, or the history tells.
LEMMA DeletionStarts ==
  ASSUME IInv, [Next]_vars, NEW p \in Deleting', p \notin Deleting
  PROVE  \/ p[2] \in overlapped'
         \/ \E caller \in Callers : deletion'[<<p, caller>>] # "idle"
<1>1. TypeOK /\ p \in Pairs
  BY DEF IInv, Deleting
<1> DEFINE k == <<p, "event">>
<1>2. k \in Calls /\ "event" \in Callers
  BY <1>1 DEF Calls, Callers
<1>3. ASSUME NEW q \in Pairs, MarkConnectionPendingDelete(q)
      PROVE  deletion'[k] # "idle"
  <2>1. p = q
    BY <1>1, <1>3, PairMarked
  <2>2. QED BY <1>1, <1>2, <1>3, <2>1 DEF MarkConnectionPendingDelete, TypeOK
<1>4. ASSUME NEW c \in Contacts, HandlerMarksInvalid(c)
      PROVE  deletion'[k] # "idle"
  <2>1. p \in Stored \intersect PairsOf(c)
    BY <1>1, <1>4, PairsInvalid
  <2>2. QED BY <1>2, <1>4, <2>1 DEF HandlerMarksInvalid
<1>5. ASSUME NEW r \in Records, NEW s \in {"failed", "complete"},
             Handled(r, s), Writes(r, s), r.of \in Stored
      PROVE  p[2] \in overlapped'
  <2>1. p = r.of /\ r.deleting
    BY <1>1, <1>5, PairHandled
  <2>2. r \in handler.todo /\ handler # NoHandler
    BY <1>5 DEF Handled, HandlerFails, HandlerWrites, NoHandler, IInv, HandlerKnows
  <2>3. p[2] \in overlapped
    BY <1>5, <2>1, <2>2 DEF IInv, HandlerKnows
  <2>4. QED BY <1>1, <2>3, HistoryLasts
<1>6. QED
  BY <1>1, <1>2, <1>3, <1>4, <1>5, PairWriters, PairsUntouched, PairMade, PairDeleted,
     PairsSynced

\* Every step keeps the deletions that are owed under way.
LEMMA UnderWayHolds ==
  ASSUME IInv, [Next]_vars
  PROVE  DeletionIsUnderWay'
<1>1. TypeOK
  BY DEF IInv
<1>2. SUFFICES ASSUME online', NEW p \in Deleting'
               PROVE  \/ p \in removals' \union unremoved'
                      \/ p[2] \in overlapped'
                      \/ \E caller \in Callers : deletion'[<<p, caller>>] # "idle"
  BY DEF DeletionIsUnderWay
<1>3. CASE p \notin Deleting
  BY <1>2, <1>3, DeletionStarts
<1>4. CASE p \in Deleting /\ online
  BY <1>2, <1>4, DeletionLasts
<1>5. CASE p \in Deleting /\ ~online
  <2>1. BecomeOnline
    BY <1>2, <1>5 DEF Next, Resolve, Delete, HandleOperation, ConnectSavesContact,
       ConnectSavesPair, ResolveOobi, ResolveThrows, ResolvePendingThrows, LeavesUnresolved,
       MarkConnectionPendingDelete, RemoveNext, DeletionLooksUp, DeletionCounts,
       DeletesFromKeria, DeletesContact, GetsFromKeria, ClearsFields, DeletionThrows,
       DeletesPair, HandlerReads, HandlerMarksInvalid, HandlerReturns, HandlerFails,
       HandlerShares, HandlerUpdatesKeria, HandlerWrites, HandlerThrows, Disconnect, Crash,
       SyncKeriaContacts, Forgets, GoesOffline, vars
  <2>2. QED BY <1>5, <2>1 DEF BecomeOnline
<1>6. QED BY <1>3, <1>4, <1>5

\* Something will settle a pending pair.
Settled(p) ==
  \/ p[2] \in requested \union resolving \union operation \union unresolved
  \/ handler # NoHandler /\ \E r \in handler.todo : r.of = p /\ ~r.deleting

\* While the agent is online, a contact that is being resolved has an
\* operation next, or is left in unresolved until it is resolved anew.
LEMMA RequestLasts ==
  ASSUME [Next]_vars, online, online',
         NEW c \in requested \union resolving \union unresolved
  PROVE  c \in requested' \union resolving' \union operation' \union unresolved'
BY DEF Next, Resolve, Delete, HandleOperation, ConnectSavesContact, ConnectSavesPair,
   ResolveOobi, ResolveThrows, ResolvePendingThrows, LeavesUnresolved,
   MarkConnectionPendingDelete, RemoveNext, DeletionLooksUp, DeletionCounts,
   DeletesFromKeria, DeletesContact, GetsFromKeria, ClearsFields, DeletionThrows,
   DeletesPair, HandlerReads, HandlerMarksInvalid, HandlerReturns, HandlerFails,
   HandlerShares, HandlerUpdatesKeria, HandlerWrites, HandlerThrows, BecomeOnline,
   Disconnect, Crash, SyncKeriaContacts, Forgets, GoesOffline, Throws, vars, calls,
   history

\* An operation is there until it is handled.
LEMMA OperationLasts ==
  ASSUME [Next]_vars, online', NEW c \in operation, c \notin operation'
  PROVE  HandlerReads(c) \/ HandlerMarksInvalid(c)
<1>1. ASSUME NEW p \in Pairs,
             ConnectSavesContact(p) \/ ConnectSavesPair(p) \/ MarkConnectionPendingDelete(p)
      PROVE  operation' = operation
  BY <1>1 DEF ConnectSavesContact, ConnectSavesPair, MarkConnectionPendingDelete
<1>2. ASSUME NEW p \in Pairs, RemoveNext(p)
      PROVE  operation' = operation
  BY <1>2 DEF RemoveNext
<1>3. ASSUME NEW d \in Contacts, Resolve(d)
      PROVE  operation \subseteq operation'
  BY <1>3 DEF Resolve, ResolveOobi, ResolveThrows, ResolvePendingThrows, LeavesUnresolved
<1>4. ASSUME NEW d \in Contacts, HandlerReads(d) \/ HandlerMarksInvalid(d)
      PROVE  operation \ {d} \subseteq operation'
  BY <1>4 DEF HandlerReads, HandlerMarksInvalid
<1>5. ASSUME NEW k \in Calls, Delete(k)
      PROVE  operation' = operation
  <2>1. CASE DeletionLooksUp(k) \/ DeletionCounts(k) \/ DeletesFromKeria(k)
    BY <2>1 DEF DeletionLooksUp, DeletionCounts, DeletesFromKeria
  <2>2. CASE DeletesContact(k) \/ GetsFromKeria(k) \/ ClearsFields(k)
    BY <2>2 DEF DeletesContact, GetsFromKeria, ClearsFields
  <2>3. CASE DeletionThrows(k) \/ DeletesPair(k)
    BY <2>3 DEF DeletionThrows, DeletesPair
  <2>4. QED BY <1>5, <2>1, <2>2, <2>3 DEF Delete
<1>6. KeepOperation => operation \subseteq operation'
  BY DEF KeepOperation
<1>7. ASSUME NEW r, HandlerFails(r) \/ HandlerShares(r)
      PROVE  operation \subseteq operation'
  BY <1>6, <1>7 DEF HandlerFails, HandlerShares, Writes
<1>8. HandlerUpdatesKeria \/ HandlerWrites \/ HandlerReturns \/ HandlerThrows
        => operation \subseteq operation'
  BY <1>6 DEF HandlerUpdatesKeria, HandlerWrites, HandlerReturns, HandlerThrows, Writes
<1>9. HandleOperation => operation \subseteq operation'
  BY <1>7, <1>8 DEF HandleOperation
<1>10. BecomeOnline \/ UNCHANGED vars => operation \subseteq operation'
  BY DEF BecomeOnline, vars
<1>11. ~Disconnect /\ ~Crash /\ ~SyncKeriaContacts
  BY DEF Disconnect, Crash, SyncKeriaContacts, Forgets, GoesOffline
<1>12. QED
  BY <1>1, <1>2, <1>3, <1>4, <1>5, <1>9, <1>10, <1>11 DEF Next

\* A handler that ends has nothing left to write, or its operation is kept.
LEMMA HandlerEnds ==
  ASSUME [Next]_vars, online', handler # NoHandler, handler' = NoHandler
  PROVE  handler.todo = {} \/ handler.contact \in operation'
<1>1. CASE HandleOperation
  <2>1. ~HandlerUpdatesKeria /\ \A r \in Records : ~HandlerShares(r)
    BY DEF HandlerUpdatesKeria, HandlerShares, NoHandler
  <2>2. ASSUME NEW r \in Records, HandlerFails(r)
        PROVE  handler.contact \in operation'
    <3>1. handler.step = "fail"
      BY <2>2 DEF HandlerFails
    <3>2. ~r.deleting /\ Writes(r, "failed")
      BY <2>2, <3>1 DEF HandlerFails, NoHandler
    <3>3. QED BY <3>2 DEF Writes, KeepOperation, NoHandler
  <2>3. CASE HandlerWrites
    BY <2>3 DEF HandlerWrites, Writes, KeepOperation, NoHandler
  <2>4. CASE HandlerReturns
    BY <2>4 DEF HandlerReturns
  <2>5. CASE HandlerThrows
    BY <2>5 DEF HandlerThrows, KeepOperation
  <2>6. QED BY <1>1, <2>1, <2>2, <2>3, <2>4, <2>5 DEF HandleOperation
<1>2. ~Crash /\ ~SyncKeriaContacts
  BY DEF Crash, SyncKeriaContacts, Forgets, GoesOffline
<1>3. ASSUME NEW c \in Contacts
      PROVE  ~HandlerReads(c) /\ ~HandlerMarksInvalid(c)
  BY DEF HandlerReads, HandlerMarksInvalid
<1>4. QED
  BY <1>1, <1>2, <1>3 DEF Next, Resolve, Delete, ConnectSavesContact, ConnectSavesPair,
     ResolveOobi, ResolveThrows, ResolvePendingThrows, LeavesUnresolved,
     MarkConnectionPendingDelete, RemoveNext, DeletionLooksUp, DeletionCounts,
     DeletesFromKeria, DeletesContact, GetsFromKeria, ClearsFields, DeletionThrows,
     DeletesPair, BecomeOnline, Disconnect, GoesOffline, vars

\* A pair that the handler is to write is written, or is still to be settled.
LEMMA HeldIsSettled ==
  ASSUME IInv, [Next]_vars, online', handler # NoHandler, NEW r \in handler.todo,
         ~r.deleting, r.of \in Pending'
  PROVE  Settled(r.of)'
<1>1. /\ TypeOK /\ r \in Records /\ r.of \in Pairs /\ r.of[2] = handler.contact
      /\ HandlerKnows
  BY HandlerShape DEF IInv, Records, HandlerKnows
<1> DEFINE p == r.of
<1> HIDE DEF p
<1>2. SUFFICES Settled(p)'
  BY DEF p, Settled
<1>3. r \in Records /\ p \in Pairs /\ p[2] = handler.contact /\ r.of = p
  BY <1>1 DEF p
<1>4. CASE handler' = NoHandler
  BY <1>3, <1>4, HandlerEnds DEF Settled
<1>5. CASE handler'.todo = handler.todo /\ handler' # NoHandler
  BY <1>3, <1>5 DEF Settled
<1>6. ASSUME NEW s \in Records, Drops(s)
      PROVE  Settled(p)'
  <2>1. handler' # NoHandler /\ handler'.todo = handler.todo \ {s}
    BY <1>6 DEF Drops, NoHandler
  <2>2. CASE s = r
    <3>1. \E status \in {"failed", "complete"} : Writes(r, status)
      BY <1>6, <2>2 DEF Drops, HandlerFails, HandlerWrites
    <3>2. r.of \in Stored
      BY <2>1, <3>1 DEF Writes
    <3>3. r.of \notin Pending'
      BY <1>1, <3>1, <3>2, PairHandled
    <3>4. QED BY <3>3
  <2>3. CASE s # r
    BY <1>3, <2>1, <2>3 DEF Settled
  <2>4. QED BY <2>2, <2>3
<1>7. ASSUME NEW s \in Records, HandlerShares(s)
      PROVE  handler'.todo = handler.todo /\ handler' # NoHandler
  BY <1>7 DEF HandlerShares, NoHandler
<1>8. CASE HandlerUpdatesKeria
  <2>1. handler \in [step : {"update", "write"}, contact : Contacts,
                     todo : SUBSET Records, record : Records]
    BY <1>1, <1>8 DEF HandlerUpdatesKeria, TypeOK, NoHandler
  <2>2. handler'.todo = handler.todo /\ handler' # NoHandler
    BY <1>8, <2>1 DEF HandlerUpdatesKeria, NoHandler
  <2>3. QED BY <1>5, <2>2
<1>9. ASSUME NEW c \in Contacts
      PROVE  ~HandlerReads(c)
  BY DEF HandlerReads
<1>10. QED BY <1>1, <1>4, <1>5, <1>6, <1>7, <1>8, <1>9, HandlerSteps

\* A pair becomes pending and wanted only when it is made.
LEMMA PendingStarts ==
  ASSUME TypeOK, [Next]_vars, NEW p \in Pending' \ Deleting', p \notin Pending \ Deleting
  PROVE  ConnectSavesPair(p) /\ p[2] \in requested'
<1>1. p \in Pairs
  BY DEF Pending
<1>2. ASSUME NEW r \in Records, NEW s \in {"failed", "complete"},
             Handled(r, s), Writes(r, s), r.of \in Stored
      PROVE  FALSE
  <2>1. Pending' = Pending \ {r.of}
    BY <1>2, PairHandled
  <2>2. p # r.of /\ p \in Pending
    BY <2>1
  <2>3. p \in Deleting => p \in Deleting'
    BY <1>2, <2>2, PairHandled
  <2>4. QED BY <2>2, <2>3
<1>3. ASSUME NEW q \in Pairs, ConnectSavesPair(q), q \notin Stored
      PROVE  ConnectSavesPair(p) /\ p[2] \in requested'
  <2>1. p = q
    BY <1>3, PairMade
  <2>2. QED BY <1>3, <2>1 DEF ConnectSavesPair
<1>4. QED
  BY <1>1, <1>2, <1>3, PairWriters, PairsUntouched, PairMarked, PairsInvalid, PairDeleted,
     PairsSynced

\* Every step keeps something that settles each pending pair.
LEMMA SettledHolds ==
  ASSUME IInv, [Next]_vars
  PROVE  PendingIsSettled'
<1>1. TypeOK
  BY DEF IInv
<1>2. SUFFICES ASSUME online', NEW p \in Pending' \ Deleting'
               PROVE  Settled(p)'
  BY DEF PendingIsSettled, Settled
<1>3. CASE p \notin Pending \ Deleting
  BY <1>1, <1>3, PendingStarts DEF Settled
<1>4. CASE p \in Pending \ Deleting /\ online
  <2>1. CASE p[2] \in requested \union resolving \union unresolved
    BY <1>2, <1>4, <2>1, RequestLasts DEF Settled
  <2>2. CASE p[2] \in operation
    <3>1. CASE p[2] \in operation'
      BY <3>1 DEF Settled
    <3>2. CASE HandlerReads(p[2])
      <4> DEFINE r == [of |-> p, deleting |-> pair[p].deleting]
      <4>1. p \in Pending \intersect PairsOf(p[2]) /\ ~pair[p].deleting
        BY <1>4 DEF Pending, Deleting, PairsOf
      <4>2. r \in handler'.todo /\ handler' # NoHandler
        BY <3>2, <4>1 DEF HandlerReads, NoHandler
      <4>3. r.of = p /\ ~r.deleting
        BY <4>1
      <4>4. QED BY <4>2, <4>3 DEF Settled
    <3>3. ~HandlerMarksInvalid(p[2])
      <4>1. p[2] \in Contacts /\ p \in Stored \intersect PairsOf(p[2])
        BY <1>1, <1>4, StoredPairs DEF Contacts, PairsOf
      <4>2. QED BY <1>1, <1>2, <4>1, PairsInvalid
    <3>4. QED BY <1>2, <2>2, <3>1, <3>2, <3>3, OperationLasts
  <2>3. ASSUME handler # NoHandler, NEW r \in handler.todo, r.of = p, ~r.deleting
        PROVE  Settled(p)'
    <3>1. r.of \in Pending'
      BY <1>2, <2>3
    <3>2. Settled(r.of)'
      BY <1>2, <2>3, <3>1, HeldIsSettled
    <3>3. QED BY <2>3, <3>2 DEF Settled
  <2>4. QED BY <1>4, <2>1, <2>2, <2>3 DEF IInv, PendingIsSettled
<1>5. CASE p \in Pending \ Deleting /\ ~online
  <2>1. BecomeOnline
    BY <1>2, <1>5 DEF Next, Resolve, Delete, HandleOperation, ConnectSavesContact,
       ConnectSavesPair, ResolveOobi, ResolveThrows, ResolvePendingThrows, LeavesUnresolved,
       MarkConnectionPendingDelete, RemoveNext, DeletionLooksUp, DeletionCounts,
       DeletesFromKeria, DeletesContact, GetsFromKeria, ClearsFields, DeletionThrows,
       DeletesPair, HandlerReads, HandlerMarksInvalid, HandlerReturns, HandlerFails,
       HandlerShares, HandlerUpdatesKeria, HandlerWrites, HandlerThrows, Disconnect, Crash,
       SyncKeriaContacts, Forgets, GoesOffline, vars
  <2>2. QED BY <1>5, <2>1 DEF BecomeOnline, ResolvePendingConnections, Settled
<1>6. QED BY <1>3, <1>4, <1>5

-----------------------------------------------------------------------------
(* The theorems.                                                           *)

\* Nothing is stored, wanted or owed at first.
LEMMA InitHolds ==
  ASSUME Init
  PROVE  IInv
<1>1. TypeOK
  <2>1. 0 \in 0..MaxConnects /\ 0 \in 0..MaxFaults
    BY MaxConnectsAssumption, MaxFaultsAssumption
  <2>2. pair \in [Pairs -> [status : Statuses, deleting : BOOLEAN] \union {Absent}]
    BY DEF Init
  <2>3. deletion \in [Calls -> Awaits \union {"idle"}]
    BY DEF Init
  <2>4. QED BY <2>1, <2>2, <2>3 DEF Init, TypeOK
<1>2. Stored = {} /\ Deleting = {} /\ Pending = {}
  BY DEF Init, Stored, Deleting, Pending, Absent, Record
<1>3. HandlerKnows
  BY DEF Init, HandlerKnows, NoHandler
<1>4. QED
  BY <1>1, <1>2, <1>3 DEF Init, IInv, ConnectingKnows, DeletionKnows,
     ShownConnectionHasContact, ConfirmedConnectionIsBackedUp,
     DeletedConnectionStaysDeleted, DeletionIsUnderWay, PendingIsSettled

\* Every step keeps the inductive invariant.
LEMMA StepHolds ==
  ASSUME IInv, [Next]_vars
  PROVE  IInv'
<1>1. TypeOK'
  BY TypesHold DEF IInv
<1>2. QED
  BY <1>1, ConnectingHolds, DeletionHolds, HandlerHolds, ShownHolds, ConfirmedHolds,
     DeletedHolds, UnderWayHolds, SettledHolds DEF IInv

\* The inductive invariant holds throughout, for every set of pairs and bound.
THEOREM Inductive == Spec => []IInv
<1>1. QED BY InitHolds, StepHolds, PTL DEF Spec

\* Records, calls, the handler and the histories stay of their types
\* throughout: storage never holds a record that is half deleted.
THEOREM TypeCorrect == Spec => []TypeOK
<1>1. IInv => TypeOK
  BY DEF IInv
<1>2. QED BY <1>1, Inductive, PTL

\* getConnections finds the contact of every pair that it shows, whatever
\* deletions, operations and crashes ran meanwhile, or a history says why not.
THEOREM ShownHaveContacts == Spec => []ShownConnectionHasContact
<1>1. IInv => ShownConnectionHasContact
  BY DEF IInv
<1>2. QED BY <1>1, Inductive, PTL

\* A recovery finds every connection that is shown as confirmed: the update of
\* the contact on KERIA lasts as long as the record says so.
THEOREM ConfirmedAreBackedUp == Spec => []ConfirmedConnectionIsBackedUp
<1>1. IInv => ConfirmedConnectionIsBackedUp
  BY DEF IInv
<1>2. QED BY <1>1, Inductive, PTL

\* A recovery brings no deleted connection back: a deletion that went through
\* cleared KERIA first.
THEOREM DeletedStayDeleted == Spec => []DeletedConnectionStaysDeleted
<1>1. IInv => DeletedConnectionStaysDeleted
  BY DEF IInv
<1>2. QED BY <1>1, Inductive, PTL

\* While the agent is online, no marked connection is forgotten: a call or the
\* task of the removals has it, or one failed with it since the agent came
\* online, and the next time that the agent comes online takes it up.
THEOREM DeletionsAreUnderWay == Spec => []DeletionIsUnderWay
<1>1. IInv => DeletionIsUnderWay
  BY DEF IInv
<1>2. QED BY <1>1, Inductive, PTL

\* While the agent is online, no pending connection is forgotten: its contact
\* is being resolved or has an operation, or a call for it, or before it in the
\* task, failed since the agent came online.
THEOREM PendingAreResolved == Spec => []PendingConnectionIsResolved
<1>1. IInv => PendingConnectionIsResolved
  BY DEF IInv, PendingIsSettled, HandlerKnows, Handles, PendingConnectionIsResolved
<1>2. QED BY <1>1, Inductive, PTL
=============================================================================
