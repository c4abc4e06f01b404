-------------------------- MODULE Identifiers_proofs --------------------------
(***************************************************************************)
(* Proofs about Identifiers, for every set of names and every bound.       *)
(*                                                                         *)
(* Three arguments.  What has a record, or a mark of deletion, keeps it, so*)
(* a call may rely on what its first step saw (CallsKnow).  A name that no *)
(* queue or call wants any more is never wanted again unless a write of the*)
(* queue is lost, so a second identifier for it needs a name freed too soon*)
(* (FreedTooSoon).  And KERIA and the record differ only while an update or*)
(* a deletion is on its way (Renamed).                                     *)
(***************************************************************************)
EXTENDS Identifiers, FiniteSetTheorems, TLAPS

CreateCalls ==
  {Idle} \union [step : {"write", "unqueue"}, name : Names, read : SUBSET Names]
         \union [step : {"incept"}, name : Names]
         \union [step : {"save", "operation"}, name : Names, id : Ids]

DeletionCalls ==
  {Idle} \union [step : {"begin", "rename", "finish"}, by : Callers]
         \union [step : {"unqueue"}, by : Callers, name : Names, read : SUBSET Names]

UpdateCalls == {Idle} \union [step : {"rename", "settle"}, id : Ids, name : NewNames]

Records == [name : AllNames, deleting : BOOLEAN, deleted : BOOLEAN, updating : BOOLEAN,
            status : {"pending", "settled"}]

KeriaNames == AllNames \union {Deleted, NoName}

Types ==
  /\ queue \in SUBSET Names
  /\ record \in [Ids -> Records \union {Absent}]
  /\ witness \in SUBSET Ids
  /\ keria \in [Ids -> KeriaNames]
  /\ online \in BOOLEAN
  /\ create \in [Callers -> CreateCalls]
  /\ creations \in SUBSET Names
  /\ deletion \in [Ids -> DeletionCalls]
  /\ removals \in SUBSET Ids
  /\ update \in [Callers -> UpdateCalls]
  /\ updates \in SUBSET [id : Ids, name : NewNames]
  /\ faults \in 0..MaxFaults
  /\ renames \in 0..MaxUpdates
  /\ origin \in [Ids -> Names \union {NoName}]
  /\ promised \in SUBSET Names
  /\ clobbered \in BOOLEAN

\* The deletion of the identifier has been asked for.
Removed(i) == i \in Stored /\ (record[i].deleting \/ record[i].deleted)

\* The identifier has a record, and something to complete it or to delete it.
Settling(i) ==
  /\ i \in Stored
  /\ i \in witness \/ record[i].status = "settled" \/ record[i].deleting \/ record[i].deleted

\* KERIA numbers what it makes.
MadeInOrder == \E k \in 0..MaxIds : Made = 1..k

\* Only names that were queued are made.
OnlyPromised ==
  /\ queue \union creations \subseteq promised
  /\ \A c \in Callers :
       /\ create[c].step \in {"incept", "save", "operation", "unqueue"}
            => create[c].name \in promised
       /\ create[c].step \in {"write", "unqueue"} => create[c].read \subseteq promised
  /\ \A i \in Ids : deletion[i].step = "unqueue" => deletion[i].read \subseteq promised

\* An identifier keeps the name for which it was made until the user or its
\* deletion gives it another.
NamesHaveOrigin ==
  /\ Stored \subseteq Made
  /\ \A i \in Made : /\ origin[i] \in promised
                     /\ keria[i] \in {origin[i], Deleted} \union NewNames
  /\ \A i \in Stored : /\ record[i].name \in {origin[i]} \union NewNames
                       /\ record[i].updating => record[i].name \in NewNames

\* What a call relies on from its earlier steps.
CallsKnow ==
  /\ witness \subseteq Stored
  /\ \A c \in Callers :
       /\ create[c].step \in {"save", "operation"}
            => create[c].id \in Made /\ origin[create[c].id] = create[c].name
       /\ create[c].step = "operation" => create[c].id \in Stored
       /\ create[c].step = "unqueue"
            => \E i \in Ids : Settling(i) /\ origin[i] = create[c].name
       /\ update[c] # Idle => update[c].id \in Stored
  /\ \A u \in updates : u.id \in Stored
  /\ \A i \in Ids : /\ deletion[i] # Idle \/ i \in removals => Removed(i)
                    /\ deletion[i].step = "unqueue" => origin[i] = deletion[i].name

\* What a name on KERIA is owed to.
Renamed ==
  /\ DeletedStaysDeleted
  /\ \A i \in Ids : deletion[i].step = "finish" /\ i \notin crossed => keria[i] = Deleted
  /\ NamesAgree
  /\ \A c \in Callers :
       /\ create[c].step = "save" /\ create[c].id \notin Stored
            => keria[create[c].id] = create[c].name
       /\ update[c].step = "settle" /\ update[c].id \notin crossed
          /\ ~Removed(update[c].id)
            => /\ record[update[c].id].name = update[c].name
               /\ keria[update[c].id] = update[c].name

\* A name was taken from an identifier while it was wanted.
FreedTooSoon ==
  /\ OneIdentifierPerName
  /\ \A i \in Made : \/ keria[i] = origin[i]
                     \/ ~Wanted(origin[i])
                     \/ origin[i] \in freed
                     \/ clobbered

IInv ==
  /\ Types
  /\ MadeInOrder
  /\ OnlyPromised
  /\ NamesHaveOrigin
  /\ CallsKnow
  /\ Renamed
  /\ FreedTooSoon
  /\ QueuedUntilMade
  /\ PendingIsUnderWay

-----------------------------------------------------------------------------
(* What the types say of one call, or of one record.                       *)

\* A record is there in full, or it is absent.
LEMMA RecordShape ==
  ASSUME Types, NEW i \in Ids
  PROVE  /\ i \in Stored <=> record[i] \in Records
         /\ i \notin Stored <=> record[i] = Absent
BY SentinelsAssumption DEF Types, Stored, Records, Absent, AllNames

\* At each of its steps a createIdentifier knows name, id or queue.
LEMMA CreateShape ==
  ASSUME Types, NEW c \in Callers
  PROVE  /\ create[c].step \in {"idle", "write", "incept", "save", "operation", "unqueue"}
         /\ create[c].step = "idle" <=> create[c] = Idle
         /\ create[c].step # "idle" => create[c].name \in Names
         /\ create[c].step \in {"write", "unqueue"} => create[c].read \in SUBSET Names
         /\ create[c].step \in {"save", "operation"} => create[c].id \in Ids
BY DEF Types, CreateCalls, Idle

\* At each of its steps a deleteIdentifier knows its caller, and what it read.
LEMMA DeletionShape ==
  ASSUME Types, NEW i \in Ids
  PROVE  /\ deletion[i].step \in {"idle", "begin", "unqueue", "rename", "finish"}
         /\ deletion[i].step = "idle" <=> deletion[i] = Idle
         /\ deletion[i].step # "idle" => deletion[i].by \in Callers
         /\ deletion[i].step = "unqueue"
              => deletion[i].name \in Names /\ deletion[i].read \in SUBSET Names
BY DEF Types, DeletionCalls, Idle

\* A propagation knows its identifier and a name that the user gave it.
LEMMA UpdateShape ==
  ASSUME Types, NEW c \in Callers
  PROVE  /\ update[c].step \in {"idle", "rename", "settle"}
         /\ update[c].step = "idle" <=> update[c] = Idle
         /\ update[c].step # "idle" => update[c].id \in Ids /\ update[c].name \in NewNames
BY DEF Types, UpdateCalls, Idle

\* A record that is written, and the other records.
LEMMA RecordWritten ==
  ASSUME Types, NEW i \in Ids, NEW r \in Records, record' = [record EXCEPT ![i] = r]
  PROVE  /\ record' \in [Ids -> Records \union {Absent}]
         /\ record'[i] = r
         /\ \A j \in Ids \ {i} : record'[j] = record[j]
         /\ Stored' = Stored \union {i}
<1>1. /\ record' \in [Ids -> Records \union {Absent}]
      /\ record'[i] = r
      /\ \A j \in Ids \ {i} : record'[j] = record[j]
  BY DEF Types
<1>2. r # Absent
  BY SentinelsAssumption DEF Records, Absent, AllNames
<1>3. QED BY <1>1, <1>2 DEF Stored

-----------------------------------------------------------------------------
(* What each call writes into a record.                                    *)

\* A mark of deletion, or its end, touches nothing else of the record.
LEMMA DeletionWrites ==
  ASSUME Types, CallsKnow, NEW i \in Ids, MarkIdentifierPendingDelete(i) \/ DeletionEnds(i)
  PROVE  /\ i \in Stored
         /\ record' \in [Ids -> Records \union {Absent}]
         /\ \E r \in Records :
              /\ record' = [record EXCEPT ![i] = r]
              /\ r.deleting \/ r.deleted
              /\ DeletionEnds(i) => ~r.deleting
              /\ r.deleted /\ ~record[i].deleted => DeletionEnds(i)
              /\ r.name = record[i].name /\ r.updating = record[i].updating
              /\ r.status = record[i].status
<1>1. i \in Stored /\ record[i] \in Records
  BY RecordShape, DeletionShape
  DEF MarkIdentifierPendingDelete, DeletionEnds, CallsKnow, Removed
<1>2. CASE DeletionEnds(i)
  <2> DEFINE r == [record[i] EXCEPT !.deleted = TRUE, !.deleting = FALSE]
  <2>1. /\ r \in Records /\ r.deleted /\ ~r.deleting
        /\ r.name = record[i].name /\ r.updating = record[i].updating
        /\ r.status = record[i].status
    BY <1>1 DEF Records
  <2>2. record' = [record EXCEPT ![i] = r]
    BY <1>1, <1>2 DEF DeletionEnds, Types
  <2> HIDE DEF r
  <2>3. record' \in [Ids -> Records \union {Absent}]
    BY <2>1, <2>2 DEF Types
  <2>4. QED BY <1>1, <1>2, <2>1, <2>2, <2>3
<1>3. CASE MarkIdentifierPendingDelete(i)
  <2> DEFINE r == [record[i] EXCEPT !.deleting = TRUE]
  <2>1. /\ r \in Records /\ r.deleting /\ r.deleted = record[i].deleted
        /\ r.name = record[i].name /\ r.updating = record[i].updating
        /\ r.status = record[i].status
    BY <1>1 DEF Records
  <2>2. record' = [record EXCEPT ![i] = r]
    BY <1>3 DEF MarkIdentifierPendingDelete
  <2> HIDE DEF r
  <2>3. record' \in [Ids -> Records \union {Absent}]
    BY <2>1, <2>2 DEF Types
  <2>4. deletion[i].step # "finish"
    BY <1>3 DEF MarkIdentifierPendingDelete, Idle
  <2>5. QED BY <1>1, <2>1, <2>2, <2>3, <2>4 DEF DeletionEnds
<1>4. QED BY <1>2, <1>3

\* A rename changes the name and marks the update as pending.
LEMMA UpdateWrites ==
  ASSUME Types, NEW i \in Ids, NEW n \in NewNames, UpdateIdentifier(i, n)
  PROVE  /\ i \in Stored
         /\ \E r \in Records :
              /\ record' = [record EXCEPT ![i] = r]
              /\ r.name = n /\ r.updating
              /\ r.deleting = record[i].deleting /\ r.deleted = record[i].deleted
              /\ r.status = record[i].status
<1>1. i \in Stored /\ record[i] \in Records
  BY RecordShape DEF UpdateIdentifier
<1> DEFINE r == [record[i] EXCEPT !.name = n, !.updating = TRUE]
<1>2. /\ r \in Records /\ r.name = n /\ r.updating /\ r.status = record[i].status
      /\ r.deleting = record[i].deleting /\ r.deleted = record[i].deleted
  BY <1>1 DEF Records, AllNames
<1>3. record' = [record EXCEPT ![i] = r]
  BY <1>1 DEF UpdateIdentifier, Types
<1> HIDE DEF r
<1>4. QED BY <1>1, <1>2, <1>3

\* A settled propagation clears the mark of the update only.
LEMMA SettlementWrites ==
  ASSUME Types, CallsKnow, NEW c \in Callers, UpdateSettles(c)
  PROVE  /\ record' \in [Ids -> Records \union {Absent}]
         /\ \E r \in Records :
              /\ record' = [record EXCEPT ![update[c].id] = r]
              /\ r.name = record[update[c].id].name /\ ~r.updating
              /\ r.deleting = record[update[c].id].deleting
              /\ r.deleted = record[update[c].id].deleted
              /\ r.status = record[update[c].id].status
<1> DEFINE i == update[c].id
<1>1. i \in Ids /\ record[i] \in Records
  BY UpdateShape, RecordShape DEF UpdateSettles, CallsKnow
<1> DEFINE r == [record[i] EXCEPT !.updating = FALSE]
<1>2. /\ r \in Records /\ r.name = record[i].name /\ ~r.updating /\ r.status = record[i].status
      /\ r.deleting = record[i].deleting /\ r.deleted = record[i].deleted
  BY <1>1 DEF Records
<1>3. record' = [record EXCEPT ![i] = r]
  BY DEF UpdateSettles
<1> HIDE DEF r
<1>4. record' \in [Ids -> Records \union {Absent}]
  BY <1>2, <1>3 DEF Types
<1>5. QED BY <1>2, <1>3, <1>4

\* A creation writes a record only when there is none.
LEMMA CreationWrites ==
  ASSUME Types, NEW c \in Callers, CreateSaves(c)
  PROVE  /\ create[c].id \in Ids
         /\ create[c].id \in Stored => UNCHANGED record
         /\ create[c].id \notin Stored =>
              \E r \in Records : /\ record' = [record EXCEPT ![create[c].id] = r]
                                 /\ r.name = create[c].name
                                 /\ ~r.deleting /\ ~r.deleted /\ ~r.updating
<1>1. create[c].id \in Ids /\ create[c].name \in Names
  BY CreateShape DEF CreateSaves, At
<1> DEFINE r == [name |-> create[c].name, deleting |-> FALSE, deleted |-> FALSE,
                 updating |-> FALSE, status |-> "pending"]
<1>2. r \in Records /\ r.name = create[c].name /\ ~r.deleting /\ ~r.deleted /\ ~r.updating
  BY <1>1 DEF Records, AllNames
<1>3. create[c].id \notin Stored => record' = [record EXCEPT ![create[c].id] = r]
  BY DEF CreateSaves
<1> HIDE DEF r
<1>4. QED BY <1>1, <1>2, <1>3 DEF CreateSaves

\* The poll completes a record that is there, and changes its status only.
LEMMA CompletionWrites ==
  ASSUME Types, CallsKnow, NEW i \in Ids, HandlerCompletes(i)
  PROVE  /\ i \in Stored
         /\ \E r \in Records :
              /\ record' = [record EXCEPT ![i] = r]
              /\ r.name = record[i].name /\ r.updating = record[i].updating
              /\ r.deleting = record[i].deleting /\ r.deleted = record[i].deleted
              /\ r.status = "settled"
<1>1. i \in Stored /\ record[i] \in Records
  BY RecordShape DEF HandlerCompletes, CallsKnow
<1> DEFINE r == [record[i] EXCEPT !.status = "settled"]
<1>2. /\ r \in Records /\ r.name = record[i].name /\ r.updating = record[i].updating
      /\ r.deleting = record[i].deleting /\ r.deleted = record[i].deleted
      /\ r.status = "settled"
  BY <1>1 DEF Records
<1>3. record' = [record EXCEPT ![i] = r]
  BY <1>1 DEF HandlerCompletes
<1> HIDE DEF r
<1>4. QED BY <1>1, <1>2, <1>3

-----------------------------------------------------------------------------
(* What lasts: records, marks of deletion and what was made for a name.    *)

Lasting ==
  /\ Stored \subseteq Stored'
  /\ \A i \in Made : i \in Made' /\ origin'[i] = origin[i]
  /\ promised \subseteq promised'
  /\ \A i \in Ids : /\ Removed(i) => Removed(i)'
                    /\ Settling(i) => Settling(i)'

\* A step that leaves records, operations, KERIA and history alone.
LEMMA NothingHappens ==
  ASSUME UNCHANGED <<record, witness, keria, origin, promised>>
  PROVE  Lasting
BY DEF Lasting, Stored, Made, Removed, Settling

\* A write of a record that leaves its marks of deletion, or sets one, and
\* does not unsettle it.
LEMMA RecordLasts ==
  ASSUME Types, NEW i \in Ids, NEW r \in Records, record' = [record EXCEPT ![i] = r],
         i \in Stored => /\ record[i].deleting \/ record[i].deleted => r.deleting \/ r.deleted
                         /\ record[i].status = "settled" => r.status = "settled",
         witness \subseteq witness' \union (IF r.status = "settled" THEN {i} ELSE {}),
         UNCHANGED <<keria, origin, promised>>
  PROVE  Lasting
<1>1. /\ record'[i] = r
      /\ \A j \in Ids \ {i} : record'[j] = record[j]
      /\ Stored' = Stored \union {i}
  BY RecordWritten
<1>2. ASSUME NEW j \in Ids
      PROVE  (Removed(j) => Removed(j)') /\ (Settling(j) => Settling(j)')
  BY <1>1 DEF Removed, Settling
<1>3. QED BY <1>1, <1>2 DEF Lasting, Made

\* The index of what KERIA makes next is free.
LEMMA NextIsFree ==
  ASSUME MadeInOrder
  PROVE  /\ Cardinality(Made) \in 0..MaxIds
         /\ Made = 1..Cardinality(Made)
         /\ Cardinality(Made) + 1 \notin Made
<1>1. PICK k \in 0..MaxIds : Made = 1..k
  BY DEF MadeInOrder
<1>2. k \in Nat
  BY MaxIdsAssumption
<1>3. Cardinality(Made) = k
  BY <1>1, <1>2, MaxIdsAssumption, FS_Interval
<1>4. QED BY <1>1, <1>3, MaxIdsAssumption

\* What KERIA gives to a name: the identifier that has it, or the next.
LEMMA Incepts ==
  ASSUME Types, MadeInOrder, NamesHaveOrigin, NEW c \in Callers, CreateIncepts(c)
  PROVE  \E i \in Ids :
           /\ \/ /\ i \in Made
                 /\ keria[i] = create[c].name /\ origin[i] = create[c].name
              \/ /\ i \notin Made /\ Made' = 1..i
                 /\ \A j \in Ids : keria[j] # create[c].name
           /\ Made' = Made \union {i}
           /\ keria' \in [Ids -> KeriaNames] /\ keria'[i] = create[c].name
           /\ origin' \in [Ids -> Names \union {NoName}] /\ origin'[i] = create[c].name
           /\ \A j \in Ids \ {i} : keria'[j] = keria[j] /\ origin'[j] = origin[j]
           /\ \/ create' = [create EXCEPT ![c] =
                              [step |-> "save", name |-> create[c].name, id |-> i]]
                 /\ UNCHANGED <<creations, stopped, faults>>
              \/ CallFails /\ CreateStops(c)
<1> DEFINE n == create[c].name
           named == {j \in Ids : keria[j] = n}
           i == IF named # {} THEN CHOOSE j \in named : TRUE ELSE Cardinality(Made) + 1
<1>1. n \in Names
  BY CreateShape DEF CreateIncepts, At
<1>2. /\ i \in Ids
      /\ keria' = [keria EXCEPT ![i] = n]
      /\ origin' = [origin EXCEPT ![i] = IF i \in Made THEN origin[i] ELSE n]
      /\ \/ create' = [create EXCEPT ![c] = [step |-> "save", name |-> n, id |-> i]]
            /\ UNCHANGED <<creations, stopped, faults>>
         \/ CallFails /\ CreateStops(c)
  BY DEF CreateIncepts
<1>3. \/ i \in Made /\ keria[i] = n
      \/ /\ i \notin Made /\ i = Cardinality(Made) + 1
         /\ \A j \in Ids : keria[j] # n
  <2>1. CASE named # {}
    <3>1. i \in named
      BY <2>1
    <3>2. n # NoName
      BY <1>1, SentinelsAssumption DEF AllNames
    <3>3. QED BY <3>1, <3>2 DEF Made
  <2>2. CASE named = {}
    BY <2>2, NextIsFree
  <2>3. QED BY <2>1, <2>2
<1> HIDE DEF i
<1>4. i \in Made => origin[i] = n
  <2> SUFFICES ASSUME i \in Made
               PROVE  origin[i] = n
    OBVIOUS
  <2>1. n # Deleted /\ n \notin NewNames
    BY <1>1, SentinelsAssumption, NamesAssumption DEF AllNames
  <2>2. QED BY <1>3, <2>1 DEF NamesHaveOrigin
<1>5. /\ keria' \in [Ids -> KeriaNames] /\ keria'[i] = n
      /\ \A j \in Ids \ {i} : keria'[j] = keria[j]
  BY <1>1, <1>2 DEF Types, KeriaNames, AllNames
<1>6. /\ origin' \in [Ids -> Names \union {NoName}] /\ origin'[i] = n
      /\ \A j \in Ids \ {i} : origin'[j] = origin[j]
  BY <1>1, <1>2, <1>4 DEF Types
<1>7. Made' = Made \union {i}
  BY <1>1, <1>2, <1>5, SentinelsAssumption DEF Made, AllNames
<1>8. i \notin Made => Made' = 1..i
  BY <1>2, <1>3, <1>7, NextIsFree, MaxIdsAssumption DEF Ids
<1>9. QED BY <1>2, <1>3, <1>5, <1>6, <1>7, <1>8

\* What is known lasts over every step.
LEMMA LastingStep ==
  Types /\ MadeInOrder /\ NamesHaveOrigin /\ CallsKnow /\ [Next]_vars => Lasting
<1> SUFFICES ASSUME Types, MadeInOrder, NamesHaveOrigin, CallsKnow, [Next]_vars
             PROVE  Lasting
  OBVIOUS
<1>1. ASSUME NEW n \in Names, CreateReadsQueue(n) \/ CreateNext(n)
      PROVE  Lasting
  BY <1>1, NothingHappens DEF CreateReadsQueue, CreateNext, history
<1>2. CASE CreateQueues
  <2>1. UNCHANGED <<record, witness, keria, origin>> /\ promised \subseteq promised'
    BY <1>2 DEF CreateQueues
  <2>2. QED BY <2>1 DEF Lasting, Stored, Made, Removed, Settling
<1>3. ASSUME NEW c \in Callers, CreateIncepts(c)
      PROVE  Lasting
  <2>1. UNCHANGED <<record, witness, promised>>
    BY <1>3 DEF CreateIncepts
  <2>2. PICK i \in Ids :
          /\ i \in Made => origin[i] = create[c].name
          /\ Made' = Made \union {i}
          /\ origin'[i] = create[c].name
          /\ \A j \in Ids \ {i} : origin'[j] = origin[j]
    BY <1>3, Incepts
  <2>3. \A j \in Made : j \in Made' /\ origin'[j] = origin[j]
    BY <2>2 DEF Made
  <2>4. QED BY <2>1, <2>3 DEF Lasting, Stored, Removed, Settling
<1>4. ASSUME NEW c \in Callers, CreateSaves(c)
      PROVE  Lasting
  <2>1. UNCHANGED <<witness, keria, origin, promised>>
    BY <1>4 DEF CreateSaves, history
  <2>2. QED BY <1>4, <2>1, CreationWrites, NothingHappens, RecordLasts
<1>5. ASSUME NEW c \in Callers, CreateThrows(c) \/ CreateSavesOperation(c) \/ CreateUnqueues(c)
      PROVE  Lasting
  <2>1. UNCHANGED <<record, keria, origin, promised>> /\ witness \subseteq witness'
    BY <1>5 DEF CreateThrows, CreateSavesOperation, CreateUnqueues, history
  <2>2. QED BY <2>1 DEF Lasting, Stored, Made, Removed, Settling
<1>6. ASSUME NEW i \in Ids, HandlerCompletes(i)
      PROVE  Lasting
  <2>1. PICK r \in Records :
          /\ record' = [record EXCEPT ![i] = r]
          /\ r.deleting = record[i].deleting /\ r.deleted = record[i].deleted
          /\ r.status = "settled"
    BY <1>6, CompletionWrites
  <2>2. witness \subseteq witness' \union {i} /\ UNCHANGED <<keria, origin, promised>>
    BY <1>6 DEF HandlerCompletes, history
  <2>3. QED BY <2>1, <2>2, RecordLasts
<1>7. ASSUME NEW i \in Ids, MarkIdentifierPendingDelete(i) \/ DeletionEnds(i)
      PROVE  Lasting
  <2>2. PICK r \in Records :
          /\ record' = [record EXCEPT ![i] = r]
          /\ r.deleting \/ r.deleted
          /\ r.status = record[i].status
    BY <1>7, DeletionWrites
  <2>3. UNCHANGED <<witness, keria, origin, promised>>
    BY <1>7 DEF MarkIdentifierPendingDelete, DeletionEnds, history
  <2>4. QED BY <2>2, <2>3, RecordLasts
<1>8. ASSUME NEW i \in Ids, RemoveNext(i) \/ DeletionUnqueues(i) \/ DeletionThrows(i)
      PROVE  Lasting
  BY <1>8, NothingHappens DEF RemoveNext, DeletionUnqueues, DeletionThrows, history
<1>9. ASSUME NEW i \in Ids, DeletionBegins(i)
      PROVE  Lasting
  <2>1. Removed(i) /\ witness' = witness \ {i} /\ UNCHANGED <<record, keria, origin, promised>>
    BY <1>9, DeletionShape DEF DeletionBegins, CallsKnow, history
  <2>2. QED BY <2>1 DEF Lasting, Stored, Made, Removed, Settling
<1>10. ASSUME NEW i \in Ids, DeletionRenames(i)
       PROVE  Lasting
  <2>1. UNCHANGED <<record, witness, origin, promised>> /\ keria' = [keria EXCEPT ![i] = Deleted]
    BY <1>10 DEF DeletionRenames
  <2>2. Made \subseteq Made'
    BY <2>1, SentinelsAssumption DEF Made, Types, Deleted, NoName
  <2>3. QED BY <2>1, <2>2 DEF Lasting, Stored, Removed, Settling
<1>11. ASSUME NEW i \in Ids, NEW n \in NewNames, UpdateIdentifier(i, n)
       PROVE  Lasting
  <2>1. PICK r \in Records :
          /\ record' = [record EXCEPT ![i] = r]
          /\ r.deleting = record[i].deleting /\ r.deleted = record[i].deleted
          /\ r.status = record[i].status
    BY <1>11, UpdateWrites
  <2>2. UNCHANGED <<witness, keria, origin, promised>>
    BY <1>11 DEF UpdateIdentifier
  <2>3. QED BY <2>1, <2>2, RecordLasts
<1>12. ASSUME NEW c \in Callers, UpdateSettles(c)
       PROVE  Lasting
  <2>1. update[c].id \in Ids
    BY <1>12, UpdateShape DEF UpdateSettles
  <2>2. PICK r \in Records :
          /\ record' = [record EXCEPT ![update[c].id] = r]
          /\ r.deleting = record[update[c].id].deleting
          /\ r.deleted = record[update[c].id].deleted
          /\ r.status = record[update[c].id].status
    BY <1>12, SettlementWrites
  <2>3. UNCHANGED <<witness, keria, origin, promised>>
    BY <1>12 DEF UpdateSettles, history
  <2>4. QED BY <2>1, <2>2, <2>3, RecordLasts
<1>13. ASSUME NEW c \in Callers, UpdateRenames(c)
       PROVE  Lasting
  <2> DEFINE i == update[c].id
  <2>1. update[c].name # NoName
    BY <1>13, UpdateShape, SentinelsAssumption DEF UpdateRenames, AllNames
  <2>2. UNCHANGED <<record, witness, origin, promised>>
        /\ keria' = [keria EXCEPT ![i] = update[c].name]
    BY <1>13 DEF UpdateRenames
  <2>3. Made \subseteq Made'
    BY <2>1, <2>2 DEF Made, Types
  <2>4. QED BY <2>2, <2>3 DEF Lasting, Stored, Removed, Settling
<1>14. ASSUME NEW c \in Callers, UpdateThrows(c)
       PROVE  Lasting
  BY <1>14, NothingHappens DEF UpdateThrows, history
<1>15. ASSUME NEW u \in PendingUpdates, UpdateNext(u)
       PROVE  Lasting
  BY <1>15, NothingHappens DEF UpdateNext, history
<1>16. CASE BecomeOnline \/ Disconnect \/ Crash
  BY <1>16, NothingHappens DEF BecomeOnline, Disconnect, Crash, history
<1>17. CASE UNCHANGED vars
  BY <1>17, NothingHappens DEF vars, history
<1>18. QED
  BY <1>1, <1>2, <1>3, <1>4, <1>5, <1>6, <1>7, <1>8, <1>9, <1>10, <1>11, <1>12, <1>13, <1>14,
     <1>15, <1>16, <1>17 DEF Next, Create, Delete, Propagate

-----------------------------------------------------------------------------
(* Types.                                                                  *)

\* A step with a fault, or without one, stays within the bound of faults.
LEMMA FaultsCounted ==
  ASSUME Types, Fault \/ CallFails \/ UNCHANGED faults
  PROVE  faults' \in 0..MaxFaults
BY MaxFaultsAssumption DEF Types, Fault, CallFails

Plain ==
  /\ queue \in SUBSET Names
  /\ witness \in SUBSET Ids
  /\ online \in BOOLEAN
  /\ creations \in SUBSET Names
  /\ removals \in SUBSET Ids
  /\ updates \in SUBSET [id : Ids, name : NewNames]
  /\ faults \in 0..MaxFaults
  /\ renames \in 0..MaxUpdates
  /\ promised \in SUBSET Names

Functional ==
  /\ record \in [Ids -> Records \union {Absent}]
  /\ keria \in [Ids -> KeriaNames]
  /\ create \in [Callers -> CreateCalls]
  /\ deletion \in [Ids -> DeletionCalls]
  /\ update \in [Callers -> UpdateCalls]
  /\ origin \in [Ids -> Names \union {NoName}]

\* Only writes of the queue touch the history of lost writes.
LEMMA ClobberedIsBoolean ==
  ASSUME Types, Next
  PROVE  clobbered' \in BOOLEAN
<1>1. UNCHANGED clobbered \/ \E read, written : WriteQueue(read, written)
  BY DEF Next, Create, Delete, Propagate, history, CreateReadsQueue, CreateNext, CreateQueues,
     CreateIncepts, CreateThrows, CreateSaves, CreateSavesOperation, CreateUnqueues,
     HandlerCompletes, MarkIdentifierPendingDelete, RemoveNext, DeletionBegins, DeletionUnqueues,
     DeletionRenames, DeletionEnds, DeletionThrows, UpdateIdentifier, UpdateNext, UpdateRenames,
     UpdateSettles, UpdateThrows, BecomeOnline, Disconnect, Crash
<1>2. QED BY <1>1 DEF WriteQueue, Types

\* Every step keeps the types of the variables that are not functions.
LEMMA PlainStep ==
  ASSUME Types, CallsKnow, NamesHaveOrigin, Next
  PROVE  Plain'
<1> USE DEF Plain, Types
<1>1. ASSUME NEW n \in Names, CreateReadsQueue(n) \/ CreateNext(n)
      PROVE  Plain'
  BY <1>1 DEF CreateReadsQueue, CreateNext, propagation, removal, history
<1>2. CASE CreateQueues
  BY <1>2, CreateShape DEF CreateQueues, WriteQueue, propagation, removal, Callers
<1>3. ASSUME NEW c \in Callers, CreateIncepts(c) \/ CreateThrows(c)
      PROVE  Plain'
  BY <1>3, FaultsCounted DEF CreateIncepts, CreateThrows, CreateStops, propagation, removal
<1>4. ASSUME NEW c \in Callers, CreateSaves(c) \/ CreateSavesOperation(c) \/ CreateUnqueues(c)
      PROVE  Plain'
  <2>1. CASE CreateSaves(c)
    BY <2>1 DEF CreateSaves, propagation, removal, history
  <2>2. CASE CreateSavesOperation(c)
    BY <2>2, CreateShape DEF CreateSavesOperation, At, propagation, removal, history
  <2>3. CASE CreateUnqueues(c)
    BY <2>3, CreateShape DEF CreateUnqueues, At, WriteQueue, Without, propagation, removal
  <2>4. QED BY <1>4, <2>1, <2>2, <2>3
<1>5. ASSUME NEW i \in Ids, \/ HandlerCompletes(i) \/ MarkIdentifierPendingDelete(i)
                            \/ RemoveNext(i) \/ DeletionBegins(i)
      PROVE  Plain'
  BY <1>5 DEF HandlerCompletes, MarkIdentifierPendingDelete, RemoveNext, DeletionBegins,
     service, propagation, removal, history
<1>6. ASSUME NEW i \in Ids, \/ DeletionUnqueues(i) \/ DeletionRenames(i)
                            \/ DeletionEnds(i) \/ DeletionThrows(i)
      PROVE  Plain'
  BY <1>6, DeletionShape, FaultsCounted DEF DeletionUnqueues, DeletionRenames, DeletionEnds,
     DeletionThrows, WriteQueue, Without, service, propagation, removal, history
<1>7. ASSUME NEW i \in Ids, NEW n \in NewNames, UpdateIdentifier(i, n)
      PROVE  Plain'
  BY <1>7, MaxUpdatesAssumption DEF UpdateIdentifier, service, removal
<1>8. ASSUME NEW c \in Callers, UpdateRenames(c) \/ UpdateSettles(c) \/ UpdateThrows(c)
      PROVE  Plain'
  BY <1>8, FaultsCounted DEF UpdateRenames, UpdateSettles, UpdateThrows, service, removal, history
<1>9. ASSUME NEW u \in PendingUpdates, UpdateNext(u)
      PROVE  Plain'
  BY <1>9 DEF UpdateNext, service, removal, history
<1>10. CASE BecomeOnline
  <2>1. updates' \in SUBSET [id : Ids, name : NewNames]
    BY <1>10, RecordShape DEF BecomeOnline, NamesHaveOrigin, Updating, Stored
  <2>2. removals' \in SUBSET Ids
    BY <1>10 DEF BecomeOnline, Deleting, Stored
  <2>3. QED BY <1>10, <2>1, <2>2 DEF BecomeOnline
<1>11. CASE Disconnect \/ Crash
  BY <1>11, FaultsCounted DEF Disconnect, Crash, service, removal, propagation, history
<1>12. QED
  BY <1>1, <1>2, <1>3, <1>4, <1>5, <1>6, <1>7, <1>8, <1>9, <1>10, <1>11
  DEF Next, Create, Delete, Propagate

\* The calls keep their shape, and so do the records and KERIA's names.
LEMMA FunctionalStep ==
  ASSUME Types, MadeInOrder, NamesHaveOrigin, CallsKnow, Next
  PROVE  Functional'
<1> USE DEF Functional, Types
<1>1. ASSUME NEW n \in Names, CreateReadsQueue(n) \/ CreateNext(n)
      PROVE  Functional'
  <2>1. create' \in [Callers -> CreateCalls]
    BY <1>1 DEF CreateReadsQueue, CreateNext, CreateCalls
  <2>2. QED BY <1>1, <2>1 DEF CreateReadsQueue, CreateNext, propagation, removal, history
<1>2. CASE CreateQueues
  <2>1. create' \in [Callers -> CreateCalls]
    BY <1>2, CreateShape DEF CreateQueues, CreateCalls, Callers
  <2>2. QED BY <1>2, <2>1 DEF CreateQueues, propagation, removal
<1>3. ASSUME NEW c \in Callers, CreateIncepts(c)
      PROVE  Functional'
  <2>1. create[c].name \in Names
    BY <1>3, CreateShape DEF CreateIncepts, At
  <2>2. /\ keria' \in [Ids -> KeriaNames] /\ origin' \in [Ids -> Names \union {NoName}]
        /\ create' \in [Callers -> CreateCalls]
    <3>1. PICK i \in Ids :
            /\ keria' \in [Ids -> KeriaNames] /\ origin' \in [Ids -> Names \union {NoName}]
            /\ \/ create' = [create EXCEPT ![c] =
                               [step |-> "save", name |-> create[c].name, id |-> i]]
               \/ CreateStops(c)
      BY <1>3, Incepts
    <3>2. create' \in [Callers -> CreateCalls]
      BY <2>1, <3>1 DEF CreateStops, CreateCalls
    <3>3. QED BY <3>1, <3>2
  <2>3. QED BY <1>3, <2>2 DEF CreateIncepts, propagation, removal
<1>4. ASSUME NEW c \in Callers, CreateThrows(c) \/ CreateSavesOperation(c) \/ CreateUnqueues(c)
      PROVE  Functional'
  <2>1. create' \in [Callers -> CreateCalls]
    BY <1>4, CreateShape DEF CreateThrows, CreateStops, CreateSavesOperation, CreateUnqueues, At,
       CreateCalls
  <2>2. QED BY <1>4, <2>1 DEF CreateThrows, CreateSavesOperation, CreateUnqueues, propagation,
              removal, history
<1>5. ASSUME NEW c \in Callers, CreateSaves(c)
      PROVE  Functional'
  <2>1. create' \in [Callers -> CreateCalls]
    BY <1>5 DEF CreateSaves, At, CreateCalls, Idle
  <2>2. record' \in [Ids -> Records \union {Absent}]
    BY <1>5, CreateShape DEF CreateSaves, At, Records, AllNames
  <2>3. QED BY <1>5, <2>1, <2>2 DEF CreateSaves, propagation, removal, history
<1>6. ASSUME NEW i \in Ids, HandlerCompletes(i)
      PROVE  Functional'
  <2>1. record' \in [Ids -> Records \union {Absent}]
    BY <1>6, RecordShape DEF HandlerCompletes, Records
  <2>2. QED BY <1>6, <2>1 DEF HandlerCompletes, service, propagation, removal, history
<1>7. ASSUME NEW i \in Ids, MarkIdentifierPendingDelete(i) \/ DeletionEnds(i)
      PROVE  Functional'
  <2>2. record' \in [Ids -> Records \union {Absent}]
    BY <1>7, DeletionWrites
  <2>3. deletion' \in [Ids -> DeletionCalls]
    BY <1>7 DEF MarkIdentifierPendingDelete, DeletionEnds, DeletionCalls, Callers
  <2>4. QED BY <1>7, <2>2, <2>3 DEF MarkIdentifierPendingDelete, DeletionEnds, service,
              propagation, history
<1>8. ASSUME NEW i \in Ids, \/ RemoveNext(i) \/ DeletionBegins(i) \/ DeletionUnqueues(i)
                            \/ DeletionThrows(i)
      PROVE  Functional'
  <2>1. deletion' \in [Ids -> DeletionCalls]
    <3>1. CASE RemoveNext(i) \/ DeletionThrows(i)
      BY <3>1 DEF RemoveNext, DeletionThrows, DeletionCalls, Callers
    <3>2. CASE DeletionBegins(i) \/ DeletionUnqueues(i)
      BY <3>2, DeletionShape DEF DeletionBegins, DeletionUnqueues, DeletionCalls
    <3>3. QED BY <1>8, <3>1, <3>2
  <2>2. QED BY <1>8, <2>1 DEF RemoveNext, DeletionBegins, DeletionUnqueues, DeletionThrows,
              service, propagation, history
<1>9. ASSUME NEW i \in Ids, DeletionRenames(i)
      PROVE  Functional'
  <2>1. deletion' \in [Ids -> DeletionCalls]
    BY <1>9 DEF DeletionRenames, DeletionCalls, Idle
  <2>2. keria' \in [Ids -> KeriaNames]
    BY <1>9 DEF DeletionRenames, KeriaNames
  <2>3. QED BY <1>9, <2>1, <2>2 DEF DeletionRenames, service, propagation
<1>10. ASSUME NEW i \in Ids, NEW n \in NewNames, UpdateIdentifier(i, n)
       PROVE  Functional'
  <2>1. record' \in [Ids -> Records \union {Absent}]
    BY <1>10, UpdateWrites DEF Types
  <2>2. update' \in [Callers -> UpdateCalls]
    BY <1>10 DEF UpdateIdentifier, UpdateCalls
  <2>3. QED BY <1>10, <2>1, <2>2 DEF UpdateIdentifier, service, removal
<1>11. ASSUME NEW c \in Callers, UpdateRenames(c) \/ UpdateThrows(c)
       PROVE  Functional'
  <2>1. update' \in [Callers -> UpdateCalls]
    BY <1>11 DEF UpdateRenames, UpdateThrows, UpdateCalls, Idle
  <2>2. keria' \in [Ids -> KeriaNames]
    BY <1>11, UpdateShape DEF UpdateRenames, UpdateThrows, KeriaNames, AllNames
  <2>3. QED BY <1>11, <2>1, <2>2 DEF UpdateRenames, UpdateThrows, service, removal, history
<1>12. ASSUME NEW c \in Callers, UpdateSettles(c)
       PROVE  Functional'
  <2>2. record' \in [Ids -> Records \union {Absent}]
    BY <1>12, SettlementWrites
  <2>3. update' \in [Callers -> UpdateCalls]
    BY <1>12 DEF UpdateSettles, UpdateCalls
  <2>4. QED BY <1>12, <2>2, <2>3 DEF UpdateSettles, service, removal, history
<1>13. ASSUME NEW u \in PendingUpdates, UpdateNext(u)
       PROVE  Functional'
  <2>1. update' \in [Callers -> UpdateCalls]
    BY <1>13 DEF UpdateNext, UpdateCalls
  <2>2. QED BY <1>13, <2>1 DEF UpdateNext, service, removal, history
<1>14. CASE BecomeOnline \/ Disconnect \/ Crash
  BY <1>14 DEF BecomeOnline, Disconnect, Crash, service, removal, propagation, history,
     CreateCalls, UpdateCalls, DeletionCalls
<1>15. QED
  BY <1>1, <1>2, <1>3, <1>4, <1>5, <1>6, <1>7, <1>8, <1>9, <1>10, <1>11, <1>12, <1>13, <1>14
  DEF Next, Create, Delete, Propagate

\* Every step keeps the types.
LEMMA TypesStep == Types /\ MadeInOrder /\ NamesHaveOrigin /\ CallsKnow /\ [Next]_vars => Types'
<1> SUFFICES ASSUME Types, MadeInOrder, NamesHaveOrigin, CallsKnow, [Next]_vars
             PROVE  Types'
  OBVIOUS
<1>1. CASE Next
  BY <1>1, PlainStep, FunctionalStep, ClobberedIsBoolean DEF Types, Plain, Functional
<1>2. CASE UNCHANGED vars
  BY <1>2 DEF Types, vars, service, removal, propagation, history
<1>3. QED BY <1>1, <1>2

-----------------------------------------------------------------------------
(* What is on KERIA, and for which name.                                   *)

\* A deletion names its own identifier on KERIA, which was made and marked.
LEMMA DeletionRenamesOne ==
  ASSUME Types, NamesHaveOrigin, CallsKnow, NEW i \in Ids, DeletionRenames(i)
  PROVE  /\ i \in Made /\ Removed(i)
         /\ Made' = Made
         /\ keria'[i] = Deleted
         /\ \A j \in Ids \ {i} : keria'[j] = keria[j]
<1>1. i \in Made /\ Removed(i)
  BY DeletionShape DEF DeletionRenames, CallsKnow, Removed, NamesHaveOrigin
<1>2. keria' = [keria EXCEPT ![i] = Deleted]
  BY DEF DeletionRenames
<1>3. keria'[i] = Deleted /\ \A j \in Ids \ {i} : keria'[j] = keria[j]
  BY <1>1, <1>2 DEF Types
<1>4. QED BY <1>1, <1>3 DEF Made, Deleted, NoName

\* A propagation names its own identifier on KERIA, which has a record.
LEMMA UpdateRenamesOne ==
  ASSUME Types, NamesHaveOrigin, CallsKnow, NEW c \in Callers, UpdateRenames(c)
  PROVE  /\ update[c].id \in Stored /\ update[c].id \in Made /\ update[c].name \in NewNames
         /\ Made' = Made
         /\ keria'[update[c].id] = update[c].name
         /\ \A j \in Ids \ {update[c].id} : keria'[j] = keria[j]
<1> DEFINE i == update[c].id
<1>1. i \in Stored /\ i \in Made /\ update[c].name \in NewNames
  BY UpdateShape DEF UpdateRenames, CallsKnow, NamesHaveOrigin
<1>2. keria' = [keria EXCEPT ![i] = update[c].name]
  BY DEF UpdateRenames
<1>3. keria'[i] = update[c].name /\ \A j \in Ids \ {i} : keria'[j] = keria[j]
  BY <1>1, <1>2 DEF Types, Stored
<1>4. update[c].name # NoName
  BY <1>1, SentinelsAssumption DEF AllNames
<1>5. QED BY <1>1, <1>3, <1>4 DEF Made

\* Everyone else leaves KERIA's names alone.
LEMMA KeriaUntouched ==
  ASSUME [Next]_vars,
         \A c \in Callers : ~CreateIncepts(c) /\ ~UpdateRenames(c),
         \A i \in Ids : ~DeletionRenames(i)
  PROVE  UNCHANGED <<keria, origin, freed>>
BY DEF vars, Next, Create, Delete, Propagate, history, CreateReadsQueue, CreateNext,
   CreateQueues, CreateThrows, CreateSaves, CreateSavesOperation, CreateUnqueues,
   HandlerCompletes, MarkIdentifierPendingDelete, RemoveNext, DeletionBegins, DeletionUnqueues,
   DeletionEnds, DeletionThrows, UpdateIdentifier, UpdateNext, UpdateSettles, UpdateThrows,
   BecomeOnline, Disconnect, Crash

\* Everyone who does not write a record leaves the records alone.
LEMMA RecordsUntouched ==
  ASSUME [Next]_vars,
         \A c \in Callers : ~CreateSaves(c) /\ ~UpdateSettles(c),
         \A i \in Ids : /\ ~HandlerCompletes(i) /\ ~MarkIdentifierPendingDelete(i)
                        /\ ~DeletionEnds(i)
                        /\ \A n \in NewNames : ~UpdateIdentifier(i, n)
  PROVE  UNCHANGED record
BY DEF vars, Next, Create, Delete, Propagate, CreateReadsQueue, CreateNext,
   CreateQueues, CreateIncepts, CreateThrows, CreateSavesOperation, CreateUnqueues,
   RemoveNext, DeletionBegins, DeletionUnqueues, DeletionRenames,
   DeletionThrows, UpdateNext, UpdateRenames, UpdateThrows,
   BecomeOnline, Disconnect, Crash

\* KERIA goes on numbering in order.
LEMMA MadeInOrderStep ==
  ASSUME Types, MadeInOrder, NamesHaveOrigin, CallsKnow, [Next]_vars
  PROVE  MadeInOrder'
<1>1. ASSUME NEW c \in Callers, CreateIncepts(c)
      PROVE  MadeInOrder'
  <2>1. PICK i \in Ids : /\ Made' = Made \union {i}
                         /\ i \in Made \/ Made' = 1..i
    BY <1>1, Incepts
  <2>2. CASE i \in Made
    BY <2>1, <2>2 DEF MadeInOrder
  <2>3. CASE Made' = 1..i
    BY <2>3, MaxIdsAssumption DEF MadeInOrder, Ids
  <2>4. QED BY <2>1, <2>2, <2>3
<1>2. ASSUME NEW i \in Ids, DeletionRenames(i)
      PROVE  MadeInOrder'
  BY <1>2, DeletionRenamesOne DEF MadeInOrder
<1>3. ASSUME NEW c \in Callers, UpdateRenames(c)
      PROVE  MadeInOrder'
  BY <1>3, UpdateRenamesOne DEF MadeInOrder
<1>4. CASE UNCHANGED keria
  BY <1>4 DEF MadeInOrder, Made
<1>5. QED BY <1>1, <1>2, <1>3, <1>4, KeriaUntouched

\* No name comes into a queue or a call that was never queued.
LEMMA OnlyPromisedStep ==
  ASSUME Types, OnlyPromised, CallsKnow, [Next]_vars
  PROVE  OnlyPromised'
<1> USE DEF OnlyPromised
<1>1. ASSUME NEW n \in Names, CreateReadsQueue(n) \/ CreateNext(n)
      PROVE  OnlyPromised'
  BY <1>1 DEF CreateReadsQueue, CreateNext, Types, removal, history
<1>2. CASE CreateQueues
  BY <1>2 DEF CreateQueues, WriteQueue, Types, Callers, removal
<1>3. ASSUME NEW c \in Callers, CreateIncepts(c) \/ CreateThrows(c) \/ CreateSaves(c)
      PROVE  OnlyPromised'
  BY <1>3 DEF CreateIncepts, CreateThrows, CreateSaves, CreateStops, At, Types, CreateCalls, Idle,
     removal, history
<1>4. ASSUME NEW c \in Callers, CreateSavesOperation(c) \/ CreateUnqueues(c)
      PROVE  OnlyPromised'
  BY <1>4 DEF CreateSavesOperation, CreateUnqueues, WriteQueue, Without, At, Types, Idle,
     removal, history
<1>5. ASSUME NEW i \in Ids, \/ HandlerCompletes(i) \/ MarkIdentifierPendingDelete(i)
                            \/ RemoveNext(i) \/ DeletionEnds(i) \/ DeletionThrows(i)
      PROVE  OnlyPromised'
  BY <1>5 DEF HandlerCompletes, MarkIdentifierPendingDelete, RemoveNext, DeletionEnds,
     DeletionThrows, Types, Idle, service, removal, history
<1>6. ASSUME NEW i \in Ids, DeletionBegins(i) \/ DeletionUnqueues(i) \/ DeletionRenames(i)
      PROVE  OnlyPromised'
  BY <1>6 DEF DeletionBegins, DeletionUnqueues, DeletionRenames, WriteQueue, Without, Types,
     DeletionCalls, Idle, service, history
<1>7. CASE UNCHANGED <<queue, service, deletion, promised>>
  BY <1>7 DEF service
<1>8. CASE BecomeOnline \/ Crash
  BY <1>8 DEF BecomeOnline, Crash, Idle, history
<1>9. (\E i \in Ids, n \in NewNames : UpdateIdentifier(i, n))
      \/ (\E c \in Callers : Propagate(c)) \/ (\E u \in PendingUpdates : UpdateNext(u))
      \/ Disconnect \/ UNCHANGED vars => UNCHANGED <<queue, service, deletion, promised>>
  BY DEF UpdateIdentifier, Propagate, UpdateRenames, UpdateSettles, UpdateThrows, UpdateNext,
     Disconnect, vars, removal, history
<1>10. QED
  BY <1>1, <1>2, <1>3, <1>4, <1>5, <1>6, <1>7, <1>8, <1>9 DEF Next, Create, Delete

\* KERIA and the record have the origin's name, or one given to it later.
KeriaHasOrigin ==
  \A i \in Made : /\ origin[i] \in promised
                  /\ keria[i] \in {origin[i], Deleted} \union NewNames

RecordHasOrigin(i) ==
  /\ record[i].name \in {origin[i]} \union NewNames
  /\ record[i].updating => record[i].name \in NewNames

RecordsHaveOrigin == Stored \subseteq Made /\ \A i \in Stored : RecordHasOrigin(i)

\* No step gives an identifier the origin of another.
LEMMA NamesHaveOriginStep ==
  ASSUME Types, MadeInOrder, NamesHaveOrigin, CallsKnow, OnlyPromised, Lasting, [Next]_vars
  PROVE  NamesHaveOrigin'
<1> USE DEF KeriaHasOrigin
<1>1. KeriaHasOrigin'
  <2>1. ASSUME NEW c \in Callers, CreateIncepts(c)
        PROVE  KeriaHasOrigin'
    <3>1. create[c].name \in promised /\ promised \subseteq promised'
      BY <2>1, LastingStep DEF OnlyPromised, CreateIncepts, At, Lasting
    <3>2. PICK i \in Ids :
            /\ Made' = Made \union {i}
            /\ keria'[i] = create[c].name /\ origin'[i] = create[c].name
            /\ \A j \in Ids \ {i} : keria'[j] = keria[j] /\ origin'[j] = origin[j]
      BY <2>1, Incepts
    <3>3. QED BY <3>1, <3>2 DEF NamesHaveOrigin, Made
  <2>2. ASSUME NEW i \in Ids, DeletionRenames(i)
        PROVE  KeriaHasOrigin'
    BY <2>2, DeletionRenamesOne DEF NamesHaveOrigin, Made, Lasting
  <2>3. ASSUME NEW c \in Callers, UpdateRenames(c)
        PROVE  KeriaHasOrigin'
    BY <2>3, UpdateRenamesOne DEF NamesHaveOrigin, Made, Lasting
  <2>4. CASE UNCHANGED <<keria, origin>>
    BY <2>4 DEF NamesHaveOrigin, Made, Lasting
  <2>5. QED BY <2>1, <2>2, <2>3, <2>4, KeriaUntouched
<1>2. ASSUME NEW i \in Stored, NEW r \in Records, record' = [record EXCEPT ![i] = r],
             r.name \in {origin[i]} \union NewNames, r.updating => r.name \in NewNames
      PROVE  RecordsHaveOrigin'
  <2>1. /\ record'[i] = r
        /\ \A j \in Ids \ {i} : record'[j] = record[j]
        /\ Stored' = Stored
    BY <1>2, RecordWritten DEF Stored
  <2>2. \A j \in Stored : j \in Made /\ origin'[j] = origin[j] /\ RecordHasOrigin(j)
    BY DEF NamesHaveOrigin, Lasting, RecordHasOrigin
  <2>3. QED BY <1>2, <2>1, <2>2 DEF RecordsHaveOrigin, RecordHasOrigin, Lasting, Stored
<1>3. RecordsHaveOrigin'
  <2>1. CASE UNCHANGED record
    BY <2>1 DEF Stored, Lasting, NamesHaveOrigin, RecordsHaveOrigin, RecordHasOrigin
  <2>2. ASSUME NEW c \in Callers, CreateSaves(c), ~UNCHANGED record
        PROVE  RecordsHaveOrigin'
    <3>1. PICK i \in Ids : /\ i = create[c].id
                           /\ i \notin Stored /\ i \in Made /\ origin[i] = create[c].name
      BY <2>2, CreationWrites DEF CallsKnow, CreateSaves, At
    <3>2. PICK r \in Records : /\ record' = [record EXCEPT ![i] = r]
                               /\ r.name = create[c].name /\ ~r.updating
      BY <2>2, <3>1, CreationWrites
    <3>3. /\ record'[i] = r
          /\ \A j \in Ids \ {i} : record'[j] = record[j]
          /\ Stored' = Stored \union {i}
      BY <3>1, <3>2, RecordWritten
    <3>4. \A j \in Stored \union {i} : j \in Made' /\ origin'[j] = origin[j]
      BY <3>1 DEF NamesHaveOrigin, Lasting
    <3>5. RecordHasOrigin(i)'
      BY <3>1, <3>2, <3>3, <3>4 DEF RecordHasOrigin
    <3>6. \A j \in Stored : RecordHasOrigin(j)'
      BY <3>1, <3>3, <3>4 DEF RecordHasOrigin, NamesHaveOrigin, Stored
    <3>7. QED BY <3>3, <3>4, <3>5, <3>6 DEF RecordsHaveOrigin
  <2>3. ASSUME NEW c \in Callers, UpdateSettles(c)
        PROVE  RecordsHaveOrigin'
    <3>1. update[c].id \in Stored
      BY <2>3, UpdateShape DEF UpdateSettles, CallsKnow
    <3>2. QED BY <1>2, <2>3, <3>1, SettlementWrites DEF NamesHaveOrigin
  <2>4. ASSUME NEW i \in Ids, HandlerCompletes(i)
        PROVE  RecordsHaveOrigin'
    BY <1>2, <2>4, CompletionWrites DEF NamesHaveOrigin
  <2>5. ASSUME NEW i \in Ids, MarkIdentifierPendingDelete(i) \/ DeletionEnds(i)
        PROVE  RecordsHaveOrigin'
    BY <1>2, <2>5, DeletionWrites DEF NamesHaveOrigin
  <2>6. ASSUME NEW i \in Ids, NEW n \in NewNames, UpdateIdentifier(i, n)
        PROVE  RecordsHaveOrigin'
    BY <1>2, <2>6, UpdateWrites
  <2>7. QED BY <2>1, <2>2, <2>3, <2>4, <2>5, <2>6, RecordsUntouched
<1>4. QED BY <1>1, <1>3 DEF NamesHaveOrigin, RecordsHaveOrigin, RecordHasOrigin

-----------------------------------------------------------------------------
(* What the calls know.                                                    *)

CreateKnows(c) ==
  /\ create[c].step \in {"save", "operation"}
       => create[c].id \in Made /\ origin[create[c].id] = create[c].name
  /\ create[c].step = "operation" => create[c].id \in Stored
  /\ create[c].step = "unqueue" => \E i \in Ids : Settling(i) /\ origin[i] = create[c].name

UpdateKnows(c) == update[c] # Idle => update[c].id \in Stored

DeletionKnows(i) ==
  /\ deletion[i] # Idle \/ i \in removals => Removed(i)
  /\ deletion[i].step = "unqueue" => origin[i] = deletion[i].name

\* A call that rests still knows what it knew.
LEMMA KnowledgeLasts ==
  ASSUME NamesHaveOrigin, CallsKnow, Lasting
  PROVE  /\ \A c \in Callers : create'[c] = create[c] => CreateKnows(c)'
         /\ \A c \in Callers : update'[c] = update[c] => UpdateKnows(c)'
         /\ \A u \in updates : u.id \in Stored'
         /\ \A i \in Ids : deletion'[i] = deletion[i] /\ (i \in removals' => i \in removals)
                              => DeletionKnows(i)'
<1>1. \A c \in Callers : CreateKnows(c) /\ UpdateKnows(c)
  BY DEF CallsKnow, CreateKnows, UpdateKnows
<1>2. \A i \in Ids : DeletionKnows(i)
  BY DEF CallsKnow, DeletionKnows
<1>3. \A i \in Stored : i \in Made
  BY DEF NamesHaveOrigin
<1>4. \A i \in Ids : Settling(i) => Settling(i)' /\ origin'[i] = origin[i]
  BY <1>3 DEF Lasting, Settling
<1>5. ASSUME NEW c \in Callers, create'[c] = create[c]
      PROVE  CreateKnows(c)'
  BY <1>1, <1>4, <1>5 DEF CreateKnows, Lasting
<1>6. ASSUME NEW i \in Ids, deletion'[i] = deletion[i], i \in removals' => i \in removals
      PROVE  DeletionKnows(i)'
  <2>1. DeletionKnows(i) /\ (Removed(i) => Removed(i)' /\ origin'[i] = origin[i])
    BY <1>2, <1>3 DEF Lasting, Removed
  <2>2. QED BY <1>6, <2>1 DEF DeletionKnows, Idle
<1>7. ASSUME NEW c \in Callers, update'[c] = update[c]
      PROVE  UpdateKnows(c)'
  BY <1>1, <1>7 DEF UpdateKnows, Lasting
<1>8. \A u \in updates : u.id \in Stored'
  BY DEF CallsKnow, Lasting
<1>9. QED BY <1>5, <1>6, <1>7, <1>8

\* The steps after which a call of createIdentifier knows something.
LEMMA CreateTransitions ==
  ASSUME Types, [Next]_vars, NEW c \in Callers
  PROVE  \/ create'[c] = create[c]
         \/ create'[c].step \in {"idle", "write", "incept"}
         \/ CreateIncepts(c) /\ create'[c].step = "save"
         \/ CreateSaves(c)
         \/ CreateSavesOperation(c) /\ create'[c].step = "unqueue"
<1> DEFINE Goal == \/ create'[c] = create[c]
                   \/ create'[c].step \in {"idle", "write", "incept"}
                   \/ CreateIncepts(c) /\ create'[c].step = "save"
                   \/ CreateSaves(c)
                   \/ CreateSavesOperation(c) /\ create'[c].step = "unqueue"
<1>1. ASSUME NEW n \in Names, CreateReadsQueue(n) \/ CreateNext(n)
      PROVE  Goal
  BY <1>1 DEF CreateReadsQueue, CreateNext, Types
<1>2. CASE CreateQueues
  BY <1>2 DEF CreateQueues, Types
<1>3. ASSUME NEW d \in Callers, CreateIncepts(d) \/ CreateThrows(d)
      PROVE  Goal
  <2>1. d # c => create'[c] = create[c]
    BY <1>3 DEF CreateIncepts, CreateThrows, CreateStops, Types
  <2>2. CreateStops(c) => create'[c].step = "idle"
    BY DEF CreateStops, Types, Idle
  <2>3. CreateIncepts(c) => create'[c].step = "save" \/ CreateStops(c)
    BY DEF CreateIncepts, Types
  <2>4. QED BY <1>3, <2>1, <2>2, <2>3 DEF CreateThrows
<1>4. ASSUME NEW d \in Callers, CreateSaves(d) \/ CreateSavesOperation(d) \/ CreateUnqueues(d)
      PROVE  Goal
  <2>1. d # c => create'[c] = create[c]
    BY <1>4 DEF CreateSaves, CreateSavesOperation, CreateUnqueues, Types
  <2>2. CreateUnqueues(c) => create'[c].step = "idle"
    BY DEF CreateUnqueues, Types, Idle
  <2>3. CreateSavesOperation(c) => create'[c].step \in {"idle", "unqueue"}
    BY DEF CreateSavesOperation, Types, Idle
  <2>4. QED BY <1>4, <2>1, <2>2, <2>3
<1>5. CASE UNCHANGED create \/ Crash
  BY <1>5 DEF Crash, Idle
<1>6. (\E i \in Ids : \/ HandlerCompletes(i) \/ MarkIdentifierPendingDelete(i)
                      \/ RemoveNext(i) \/ Delete(i)
                      \/ \E n \in NewNames : UpdateIdentifier(i, n))
      \/ (\E d \in Callers : Propagate(d)) \/ (\E u \in PendingUpdates : UpdateNext(u))
      \/ BecomeOnline \/ Disconnect \/ UNCHANGED vars => UNCHANGED create
  BY DEF HandlerCompletes, MarkIdentifierPendingDelete, RemoveNext, Delete, DeletionBegins,
     DeletionUnqueues, DeletionRenames, DeletionEnds, DeletionThrows, UpdateIdentifier,
     Propagate, UpdateRenames, UpdateSettles, UpdateThrows, UpdateNext, BecomeOnline,
     Disconnect, vars, service
<1>7. QED BY <1>1, <1>2, <1>3, <1>4, <1>5, <1>6 DEF Next, Create

\* A createIdentifier that reaches a step knows what that step relies on.
LEMMA CreateKnowsStep ==
  ASSUME Types, Types', MadeInOrder, NamesHaveOrigin, CallsKnow, Lasting, [Next]_vars,
         NEW c \in Callers
  PROVE  CreateKnows(c)'
<1>1. CASE create'[c] = create[c]
  BY <1>1, KnowledgeLasts
<1>2. CASE create'[c].step \in {"idle", "write", "incept"}
  BY <1>2 DEF CreateKnows
<1>3. ASSUME CreateIncepts(c), create'[c].step = "save"
      PROVE  CreateKnows(c)'
  <2>1. PICK i \in Ids :
          /\ Made' = Made \union {i} /\ origin'[i] = create[c].name
          /\ \/ create' = [create EXCEPT ![c] =
                             [step |-> "save", name |-> create[c].name, id |-> i]]
             \/ CreateStops(c)
    BY <1>3, Incepts
  <2>2. ~CreateStops(c)
    BY <1>3 DEF CreateStops, Types, Idle
  <2>3. create'[c] = [step |-> "save", name |-> create[c].name, id |-> i]
    BY <2>1, <2>2 DEF Types
  <2>4. /\ create'[c].step = "save"
        /\ create'[c].name = create[c].name /\ create'[c].id = i
    BY <2>3
  <2>5. QED BY <2>1, <2>4 DEF CreateKnows
<1>4. CASE CreateSaves(c)
  <2>1. /\ create'[c].step = "operation"
        /\ create'[c].name = create[c].name /\ create'[c].id = create[c].id
    BY <1>4 DEF CreateSaves, At, Types, CreateCalls, Idle
  <2>2. /\ create[c].id \in Made' /\ origin'[create[c].id] = create[c].name
    BY <1>4 DEF CreateSaves, At, CallsKnow, Lasting
  <2>3. create[c].id \in Stored'
    BY <1>4, CreationWrites, RecordWritten DEF Stored
  <2>4. QED BY <2>1, <2>2, <2>3 DEF CreateKnows
<1>5. ASSUME CreateSavesOperation(c), create'[c].step = "unqueue"
      PROVE  CreateKnows(c)'
  <2>1. create'[c].name = create[c].name
    BY <1>5 DEF CreateSavesOperation, Types, Idle
  <2>2. PICK i \in Ids : i = create[c].id /\ i \in Stored /\ i \in witness'
    BY <1>5, CreateShape DEF CreateSavesOperation, At, CallsKnow
  <2>3. Settling(i)' /\ origin'[i] = create[c].name
    BY <1>5, <2>2 DEF CreateSavesOperation, At, CallsKnow, Lasting, Settling
  <2>4. QED BY <1>5, <2>1, <2>3 DEF CreateKnows
<1>6. QED BY <1>1, <1>2, <1>3, <1>4, <1>5, CreateTransitions

\* Propagations, and the records they wait with, are of stored identifiers.
LEMMA UpdateKnowsStep ==
  ASSUME Types, NamesHaveOrigin, CallsKnow, Lasting, [Next]_vars, NEW c \in Callers
  PROVE  UpdateKnows(c)' /\ \A u \in updates' : u.id \in Stored'
<1> DEFINE Kept == UNCHANGED <<update, updates>>
           Goal == UpdateKnows(c)' /\ \A u \in updates' : u.id \in Stored'
<1>1. CASE Kept
  BY <1>1, KnowledgeLasts
<1>2. ASSUME NEW i \in Ids, NEW n \in NewNames, UpdateIdentifier(i, n)
      PROVE  Goal
  <2>1. i \in Stored' /\ updates' = updates
    BY <1>2 DEF UpdateIdentifier, Lasting
  <2>2. CASE c = "user"
    <3>1. update'[c].id = i
      BY <1>2, <2>2 DEF UpdateIdentifier, Types
    <3>2. QED BY <2>1, <3>1, KnowledgeLasts DEF UpdateKnows
  <2>3. CASE c # "user"
    <3>1. update'[c] = update[c]
      BY <1>2, <2>3 DEF UpdateIdentifier, Types
    <3>2. QED BY <2>1, <3>1, KnowledgeLasts
  <2>4. QED BY <2>2, <2>3
<1>3. ASSUME NEW u \in PendingUpdates, UpdateNext(u)
      PROVE  Goal
  <2>1. u.id \in Stored' /\ updates' \subseteq updates
    BY <1>3 DEF UpdateNext, CallsKnow, Lasting
  <2>2. CASE c = "task"
    <3>1. update'[c].id = u.id
      BY <1>3, <2>2 DEF UpdateNext, Types
    <3>2. QED BY <2>1, <3>1, KnowledgeLasts DEF UpdateKnows
  <2>3. CASE c # "task"
    <3>1. update'[c] = update[c]
      BY <1>3, <2>3 DEF UpdateNext, Types
    <3>2. QED BY <2>1, <3>1, KnowledgeLasts
  <2>4. QED BY <2>2, <2>3
<1>4. ASSUME NEW d \in Callers, Propagate(d)
      PROVE  Goal
  <2>1. updates' = updates
    BY <1>4 DEF Propagate, UpdateRenames, UpdateSettles, UpdateThrows
  <2>2. CASE d # c
    <3>1. update'[c] = update[c]
      BY <1>4, <2>2 DEF Propagate, UpdateRenames, UpdateSettles, UpdateThrows, Types
    <3>2. QED BY <2>1, <3>1, KnowledgeLasts
  <2>3. CASE UpdateRenames(c)
    <3>1. update'[c].id = update[c].id /\ update[c] # Idle
      BY <2>3, UpdateShape DEF UpdateRenames, Types, UpdateCalls, Idle
    <3>2. QED BY <2>1, <3>1, KnowledgeLasts DEF UpdateKnows, CallsKnow, Lasting
  <2>4. CASE UpdateSettles(c) \/ UpdateThrows(c)
    <3>1. update'[c] = Idle
      BY <2>4 DEF UpdateSettles, UpdateThrows, Types
    <3>2. QED BY <2>1, <3>1, KnowledgeLasts DEF UpdateKnows
  <2>5. QED BY <1>4, <2>2, <2>3, <2>4 DEF Propagate
<1>5. CASE BecomeOnline
  <2>1. update' = update
    BY <1>5 DEF BecomeOnline
  <2>2. \A u \in updates' : u.id \in Stored
    BY <1>5 DEF BecomeOnline, Updating
  <2>3. QED BY <2>1, <2>2, KnowledgeLasts DEF Lasting
<1>6. CASE Crash
  BY <1>6 DEF Crash, UpdateKnows
<1>7. (\E n \in Names : CreateReadsQueue(n) \/ CreateNext(n)) \/ CreateQueues
      \/ (\E d \in Callers : Create(d))
      \/ (\E i \in Ids : \/ HandlerCompletes(i) \/ MarkIdentifierPendingDelete(i)
                         \/ RemoveNext(i) \/ Delete(i))
      \/ Disconnect \/ UNCHANGED vars => Kept
  BY DEF CreateReadsQueue, CreateNext, CreateQueues, Create, CreateIncepts, CreateThrows,
     CreateSaves, CreateSavesOperation, CreateUnqueues, HandlerCompletes,
     MarkIdentifierPendingDelete, RemoveNext, Delete, DeletionBegins, DeletionUnqueues,
     DeletionRenames, DeletionEnds, DeletionThrows, Disconnect, vars, propagation
<1>8. QED BY <1>1, <1>2, <1>3, <1>4, <1>5, <1>6, <1>7 DEF Next

\* The deletions of other identifiers go on as they were.
LEMMA DeletionTransitions ==
  ASSUME Types, [Next]_vars, NEW i \in Ids
  PROVE  \/ deletion'[i] = deletion[i] /\ (i \in removals' => i \in removals)
         \/ deletion'[i] = Idle /\ i \notin removals'
         \/ BecomeOnline
         \/ MarkIdentifierPendingDelete(i) \/ RemoveNext(i) \/ Delete(i)
<1> DEFINE Goal == \/ deletion'[i] = deletion[i] /\ (i \in removals' => i \in removals)
                   \/ deletion'[i] = Idle /\ i \notin removals'
                   \/ BecomeOnline
                   \/ MarkIdentifierPendingDelete(i) \/ RemoveNext(i) \/ Delete(i)
<1>1. ASSUME NEW j \in Ids, MarkIdentifierPendingDelete(j) \/ RemoveNext(j)
      PROVE  Goal
  BY <1>1 DEF MarkIdentifierPendingDelete, RemoveNext, Types
<1>2. ASSUME NEW j \in Ids, Delete(j)
      PROVE  Goal
  <2>1. CASE DeletionBegins(j) \/ DeletionUnqueues(j)
    BY <1>2, <2>1 DEF DeletionBegins, DeletionUnqueues, Types
  <2>2. CASE DeletionRenames(j)
    BY <1>2, <2>2 DEF DeletionRenames, Types
  <2>3. CASE DeletionEnds(j)
    BY <1>2, <2>3 DEF DeletionEnds, Types
  <2>4. CASE DeletionThrows(j)
    BY <1>2, <2>4 DEF DeletionThrows, Types
  <2>5. QED BY <1>2, <2>1, <2>2, <2>3, <2>4 DEF Delete
<1>3. CASE BecomeOnline \/ UNCHANGED removal
  BY <1>3 DEF removal
<1>4. CASE Crash
  BY <1>4 DEF Crash
<1>5. (\E n \in Names : CreateReadsQueue(n) \/ CreateNext(n)) \/ CreateQueues
      \/ (\E d \in Callers : Create(d) \/ Propagate(d))
      \/ (\E j \in Ids : HandlerCompletes(j) \/ \E n \in NewNames : UpdateIdentifier(j, n))
      \/ (\E u \in PendingUpdates : UpdateNext(u))
      \/ Disconnect \/ UNCHANGED vars => UNCHANGED removal
  BY DEF CreateReadsQueue, CreateNext, CreateQueues, Create, CreateIncepts, CreateThrows,
     CreateSaves, CreateSavesOperation, CreateUnqueues, HandlerCompletes, Propagate,
     UpdateIdentifier, UpdateRenames, UpdateSettles, UpdateThrows, UpdateNext, Disconnect, vars
<1>6. QED BY <1>1, <1>2, <1>3, <1>4, <1>5 DEF Next

\* Deletions are of stored identifiers that are marked.
LEMMA DeletionKnowsStep ==
  ASSUME Types, NamesHaveOrigin, CallsKnow, Lasting, [Next]_vars, NEW i \in Ids
  PROVE  DeletionKnows(i)'
<1>1. CASE deletion'[i] = deletion[i] /\ (i \in removals' => i \in removals)
  BY <1>1, KnowledgeLasts
<1>2. CASE deletion'[i] = Idle /\ i \notin removals'
  BY <1>2 DEF DeletionKnows, Idle
<1>3. CASE BecomeOnline
  <2>1. deletion'[i] = Idle
    BY <1>3 DEF BecomeOnline
  <2>2. i \in removals' => Removed(i)
    BY <1>3 DEF BecomeOnline, Deleting, Removed
  <2>3. QED BY <2>1, <2>2 DEF DeletionKnows, Idle, Lasting
<1>4. CASE MarkIdentifierPendingDelete(i)
  <2>1. Removed(i)'
    BY <1>4, DeletionWrites, RecordWritten DEF Removed, Stored
  <2>2. deletion'[i].step = "begin"
    BY <1>4 DEF MarkIdentifierPendingDelete, Types
  <2>3. QED BY <2>1, <2>2 DEF DeletionKnows
<1>5. CASE RemoveNext(i)
  <2>1. Removed(i)'
    BY <1>5 DEF RemoveNext, CallsKnow, Lasting
  <2>2. deletion'[i].step = "begin"
    BY <1>5 DEF RemoveNext, Types
  <2>3. QED BY <2>1, <2>2 DEF DeletionKnows
<1>6. CASE Delete(i)
  <2>1. deletion[i] # Idle
    BY <1>6 DEF Delete, DeletionBegins, DeletionUnqueues, DeletionRenames, DeletionEnds,
       DeletionThrows, Idle
  <2>2. Removed(i) /\ Removed(i)' /\ origin'[i] = origin[i]
    BY <2>1 DEF CallsKnow, Lasting, Removed, NamesHaveOrigin
  <2>3. ASSUME deletion'[i].step = "unqueue"
        PROVE  origin[i] = deletion'[i].name
    <3>1. /\ DeletionBegins(i)
          /\ deletion'[i].name = record[i].name
          /\ record[i].name \in queue
      BY <1>6, <2>3 DEF Delete, DeletionBegins, DeletionUnqueues, DeletionRenames, DeletionEnds,
         DeletionThrows, Types, DeletionCalls, Idle
    <3>2. record[i].name \in {origin[i]} \union NewNames
      BY <2>2 DEF Removed, NamesHaveOrigin
    <3>3. QED BY <3>1, <3>2, NamesAssumption DEF Types
  <2>4. QED BY <2>2, <2>3 DEF DeletionKnows
<1>7. QED BY <1>1, <1>2, <1>3, <1>4, <1>5, <1>6, DeletionTransitions

\* Every call knows what it relies on, after every step.
LEMMA CallsKnowStep ==
  ASSUME Types, Types', MadeInOrder, NamesHaveOrigin, CallsKnow, Lasting, [Next]_vars
  PROVE  CallsKnow'
<1>1. witness' \subseteq Stored'
  <2>1. ASSUME NEW c \in Callers, CreateSavesOperation(c)
        PROVE  witness' \subseteq Stored
    BY <2>1 DEF CreateSavesOperation, At, CallsKnow
  <2>2. (\A c \in Callers : ~CreateSavesOperation(c)) => witness' \subseteq witness
    BY DEF vars, Next, Create, Delete, Propagate, CreateReadsQueue, CreateNext, CreateQueues,
       CreateIncepts, CreateThrows, CreateSaves, CreateUnqueues, HandlerCompletes,
       MarkIdentifierPendingDelete, RemoveNext, DeletionBegins, DeletionUnqueues,
       DeletionRenames, DeletionEnds, DeletionThrows, UpdateIdentifier, UpdateNext,
       UpdateRenames, UpdateSettles, UpdateThrows, BecomeOnline, Disconnect, Crash
  <2>3. QED BY <2>1, <2>2 DEF CallsKnow, Lasting
<1>2. \A c \in Callers : CreateKnows(c)'
  BY CreateKnowsStep
<1>3. /\ \A c \in Callers : UpdateKnows(c)'
      /\ \A u \in updates' : u.id \in Stored'
  BY UpdateKnowsStep DEF Callers
<1>4. \A i \in Ids : DeletionKnows(i)'
  BY DeletionKnowsStep
<1>5. QED BY <1>1, <1>2, <1>3, <1>4 DEF CallsKnow, CreateKnows, UpdateKnows, DeletionKnows

-----------------------------------------------------------------------------
(* What happens to one identifier: its record, and its name on KERIA.      *)

KeepsName(i)  == record'[i].name = record[i].name
KeepsMarks(i) == record'[i].deleting = record[i].deleting /\ record'[i].deleted = record[i].deleted

\* Its record is made, marked, renamed or settled, or keeps name and marks.
LEMMA RecordTransitions ==
  ASSUME Types, CallsKnow, [Next]_vars, NEW i \in Ids
  PROVE  \/ record'[i] = record[i]
         \/ /\ i \in Stored /\ KeepsName(i) /\ KeepsMarks(i)
            /\ record'[i].updating = record[i].updating
         \/ /\ i \in Stored /\ KeepsName(i) /\ record'[i].updating = record[i].updating
            /\ record'[i].deleting \/ record'[i].deleted
            /\ record'[i].deleted /\ ~record[i].deleted => DeletionEnds(i)
            /\ record'[i].deleting => MarkIdentifierPendingDelete(i)
         \/ \E n \in NewNames : /\ UpdateIdentifier(i, n) /\ i \in Stored
                                /\ record'[i].name = n /\ record'[i].updating /\ KeepsMarks(i)
         \/ \E c \in Callers : /\ UpdateSettles(c) /\ update[c].id = i /\ i \in Stored
                               /\ KeepsName(i) /\ KeepsMarks(i) /\ ~record'[i].updating
         \/ \E c \in Callers : /\ CreateSaves(c) /\ create[c].id = i /\ i \notin Stored
                               /\ record'[i].name = create[c].name /\ ~record'[i].updating
                               /\ ~record'[i].deleting /\ ~record'[i].deleted
<1> DEFINE Goal ==
         \/ record'[i] = record[i]
         \/ /\ i \in Stored /\ KeepsName(i) /\ KeepsMarks(i)
            /\ record'[i].updating = record[i].updating
         \/ /\ i \in Stored /\ KeepsName(i) /\ record'[i].updating = record[i].updating
            /\ record'[i].deleting \/ record'[i].deleted
            /\ record'[i].deleted /\ ~record[i].deleted => DeletionEnds(i)
            /\ record'[i].deleting => MarkIdentifierPendingDelete(i)
         \/ \E n \in NewNames : /\ UpdateIdentifier(i, n) /\ i \in Stored
                                /\ record'[i].name = n /\ record'[i].updating /\ KeepsMarks(i)
         \/ \E c \in Callers : /\ UpdateSettles(c) /\ update[c].id = i /\ i \in Stored
                               /\ KeepsName(i) /\ KeepsMarks(i) /\ ~record'[i].updating
         \/ \E c \in Callers : /\ CreateSaves(c) /\ create[c].id = i /\ i \notin Stored
                               /\ record'[i].name = create[c].name /\ ~record'[i].updating
                               /\ ~record'[i].deleting /\ ~record'[i].deleted
<1>1. ASSUME NEW j \in Ids, NEW r \in Records, record' = [record EXCEPT ![j] = r]
      PROVE  IF i = j THEN record'[i] = r ELSE record'[i] = record[i]
  BY <1>1, RecordWritten
<1>2. ASSUME NEW j \in Ids, HandlerCompletes(j)
      PROVE  Goal
  BY <1>1, <1>2, CompletionWrites DEF KeepsName, KeepsMarks
<1>3. ASSUME NEW j \in Ids, MarkIdentifierPendingDelete(j) \/ DeletionEnds(j)
      PROVE  Goal
  BY <1>1, <1>3, DeletionWrites DEF KeepsName
<1>4. ASSUME NEW j \in Ids, NEW n \in NewNames, UpdateIdentifier(j, n)
      PROVE  Goal
  BY <1>1, <1>4, UpdateWrites DEF KeepsMarks
<1>5. ASSUME NEW c \in Callers, UpdateSettles(c)
      PROVE  Goal
  <2>1. update[c].id \in Stored /\ update[c].id \in Ids
    BY <1>5, UpdateShape DEF UpdateSettles, CallsKnow
  <2>2. QED BY <1>1, <1>5, <2>1, SettlementWrites DEF KeepsName, KeepsMarks
<1>6. ASSUME NEW c \in Callers, CreateSaves(c)
      PROVE  Goal
  BY <1>1, <1>6, CreationWrites
<1>7. CASE UNCHANGED record
  BY <1>7
<1>8. QED BY <1>2, <1>3, <1>4, <1>5, <1>6, <1>7, RecordsUntouched

\* Its name on KERIA is new, is taken away, is that of an update, or stays.
LEMMA KeriaTransitions ==
  ASSUME Types, MadeInOrder, NamesHaveOrigin, CallsKnow, [Next]_vars, NEW i \in Ids
  PROVE  \/ keria'[i] = keria[i] /\ (i \in Made' => i \in Made)
         \/ /\ i \notin Made
            /\ \E c \in Callers : /\ CreateIncepts(c) /\ keria'[i] = create[c].name
                                  /\ origin'[i] = create[c].name
                                  /\ \A j \in Ids : keria[j] # create[c].name
         \/ DeletionRenames(i) /\ keria'[i] = Deleted /\ i \in Made
         \/ \E c \in Callers : /\ UpdateRenames(c) /\ update[c].id = i /\ i \in Made
                               /\ keria'[i] = update[c].name
<1> DEFINE Goal ==
         \/ keria'[i] = keria[i] /\ (i \in Made' => i \in Made)
         \/ /\ i \notin Made
            /\ \E c \in Callers : /\ CreateIncepts(c) /\ keria'[i] = create[c].name
                                  /\ origin'[i] = create[c].name
                                  /\ \A j \in Ids : keria[j] # create[c].name
         \/ DeletionRenames(i) /\ keria'[i] = Deleted /\ i \in Made
         \/ \E c \in Callers : /\ UpdateRenames(c) /\ update[c].id = i /\ i \in Made
                               /\ keria'[i] = update[c].name
<1>1. ASSUME NEW c \in Callers, CreateIncepts(c)
      PROVE  Goal
  <2>1. PICK j \in Ids :
          /\ \/ j \in Made /\ keria[j] = create[c].name
             \/ j \notin Made /\ \A k \in Ids : keria[k] # create[c].name
          /\ Made' = Made \union {j}
          /\ keria'[j] = create[c].name /\ origin'[j] = create[c].name
          /\ \A k \in Ids \ {j} : keria'[k] = keria[k]
    BY <1>1, Incepts
  <2>2. QED BY <1>1, <2>1
<1>2. ASSUME NEW j \in Ids, DeletionRenames(j)
      PROVE  Goal
  BY <1>2, DeletionRenamesOne
<1>3. ASSUME NEW c \in Callers, UpdateRenames(c)
      PROVE  Goal
  BY <1>3, UpdateRenamesOne
<1>4. CASE UNCHANGED keria
  BY <1>4 DEF Made
<1>5. QED BY <1>1, <1>2, <1>3, <1>4, KeriaUntouched

\* An identifier that was crossed stays so.
LEMMA CrossedGrows == [Next]_vars => crossed \subseteq crossed'
BY DEF vars, Next, Create, Delete, Propagate, history, CreateReadsQueue, CreateNext,
   CreateQueues, CreateIncepts, CreateThrows, CreateSaves, CreateSavesOperation, CreateUnqueues,
   HandlerCompletes, MarkIdentifierPendingDelete, RemoveNext, DeletionBegins, DeletionUnqueues,
   DeletionRenames, DeletionEnds, DeletionThrows, UpdateIdentifier, UpdateNext, UpdateRenames,
   UpdateSettles, UpdateThrows, BecomeOnline, Disconnect, Crash

-----------------------------------------------------------------------------
(* KERIA's names follow the records and the deletions.                     *)

DeletedAgrees(i) ==
  i \in Stored /\ i \notin crossed
    => /\ record[i].deleted => keria[i] = Deleted
       /\ deletion[i].step = "finish" => keria[i] = Deleted

\* An uncrossed deletion keeps the name of the deleted on KERIA.
LEMMA DeletedAgreesStep ==
  ASSUME Types, MadeInOrder, NamesHaveOrigin, CallsKnow, Renamed, Lasting, [Next]_vars,
         NEW i \in Ids
  PROVE  DeletedAgrees(i)'
<1> SUFFICES ASSUME i \in Stored', i \notin crossed',
                    record'[i].deleted \/ deletion'[i].step = "finish"
             PROVE  keria'[i] = Deleted
  BY DEF DeletedAgrees
<1>1. i \notin crossed
  BY CrossedGrows
<1>2. CASE DeletionRenames(i)
  BY <1>2, DeletionRenamesOne
<1>3. ASSUME keria[i] = Deleted, Removed(i)
      PROVE  keria'[i] = Deleted
  <2>1. i \in Made
    BY <1>3 DEF Removed, NamesHaveOrigin
  <2>2. ASSUME NEW c \in Callers, UpdateRenames(c), update[c].id = i
        PROVE  FALSE
    BY <1>3, <2>2 DEF UpdateRenames, Removed
  <2>3. QED BY <1>2, <1>3, <2>1, <2>2, KeriaTransitions
<1>4. CASE record'[i].deleted
  <2>1. CASE DeletionEnds(i)
    <3>1. keria[i] = Deleted /\ Removed(i)
      BY <1>1, <2>1 DEF DeletionEnds, Renamed, CallsKnow, Idle
    <3>2. QED BY <1>3, <3>1
  <2>2. CASE i \in Stored /\ record[i].deleted
    BY <1>1, <1>3, <2>2 DEF Renamed, DeletedStaysDeleted, Removed
  <2>3. i \notin Stored => record'[i].deleted = FALSE \/ record'[i] = record[i]
    BY RecordTransitions
  <2>4. i \in Stored
    BY <1>4, <2>3 DEF Stored
  <2>5. record[i].deleted \/ DeletionEnds(i)
    BY <1>4, <2>4, RecordTransitions DEF KeepsMarks
  <2>6. QED BY <2>1, <2>2, <2>4, <2>5
<1>5. CASE deletion'[i].step = "finish"
  <2>1. CASE deletion'[i] = deletion[i]
    <3>1. keria[i] = Deleted /\ Removed(i)
      BY <1>1, <1>5, <2>1 DEF Renamed, CallsKnow, Idle
    <3>2. QED BY <1>3, <3>1
  <2>2. CASE deletion'[i] = Idle
    BY <1>5, <2>2 DEF Idle
  <2>3. CASE BecomeOnline
    BY <1>5, <2>3 DEF BecomeOnline, Idle
  <2>4. CASE MarkIdentifierPendingDelete(i) \/ RemoveNext(i)
    BY <1>5, <2>4 DEF MarkIdentifierPendingDelete, RemoveNext, Types
  <2>5. CASE Delete(i)
    BY <1>2, <1>5, <2>5 DEF Delete, DeletionBegins, DeletionUnqueues, DeletionEnds,
       DeletionThrows, Types, Idle
  <2>6. QED BY <2>1, <2>2, <2>3, <2>4, <2>5, DeletionTransitions
<1>6. QED BY <1>4, <1>5

\* A propagation that is not crossed finds the name it has, and writes it.
LEMMA UncrossedRename ==
  ASSUME NEW c \in Callers, UpdateRenames(c), update[c].id \notin crossed'
  PROVE  record[update[c].id].name = update[c].name /\ ~Removed(update[c].id)
BY DEF UpdateRenames, Removed

\* Once KERIA has a record's name, only a step that crosses changes that.
LEMMA AgreementLasts ==
  ASSUME Types, MadeInOrder, NamesHaveOrigin, CallsKnow, [Next]_vars, NEW i \in Stored,
         keria[i] = record[i].name, ~Removed(i), i \notin crossed'
  PROVE  keria'[i] = record[i].name
<1>1. i \in Made /\ i \in Ids
  BY DEF NamesHaveOrigin, Stored
<1>2. ~DeletionRenames(i)
  BY <1>1, DeletionRenamesOne
<1>3. QED BY <1>1, <1>2, KeriaTransitions, UncrossedRename

\* Only the write to KERIA brings a propagation to its settlement.
LEMMA UpdateTransitions ==
  ASSUME Types, [Next]_vars, NEW c \in Callers
  PROVE  update'[c] = update[c] \/ update'[c].step \in {"idle", "rename"} \/ UpdateRenames(c)
<1>1. ASSUME NEW d \in Callers, Propagate(d), d # c
      PROVE  update'[c] = update[c]
  BY <1>1 DEF Propagate, UpdateRenames, UpdateSettles, UpdateThrows, Types
<1>2. UpdateSettles(c) \/ UpdateThrows(c) => update'[c].step = "idle"
  BY DEF UpdateSettles, UpdateThrows, Types, Idle
<1>3. ASSUME NEW i \in Ids, NEW n \in NewNames, UpdateIdentifier(i, n)
      PROVE  update'[c] = update[c] \/ update'[c].step = "rename"
  BY <1>3 DEF UpdateIdentifier, Types
<1>4. ASSUME NEW u \in PendingUpdates, UpdateNext(u)
      PROVE  update'[c] = update[c] \/ update'[c].step = "rename"
  BY <1>4 DEF UpdateNext, Types
<1>5. Crash => update'[c].step = "idle"
  BY DEF Crash, Idle
<1>6. (\E n \in Names : CreateReadsQueue(n) \/ CreateNext(n)) \/ CreateQueues
      \/ (\E d \in Callers : Create(d))
      \/ (\E i \in Ids : \/ HandlerCompletes(i) \/ MarkIdentifierPendingDelete(i)
                         \/ RemoveNext(i) \/ Delete(i))
      \/ BecomeOnline \/ Disconnect \/ UNCHANGED vars => UNCHANGED update
  BY DEF CreateReadsQueue, CreateNext, CreateQueues, Create, CreateIncepts, CreateThrows,
     CreateSaves, CreateSavesOperation, CreateUnqueues, HandlerCompletes,
     MarkIdentifierPendingDelete, RemoveNext, Delete, DeletionBegins, DeletionUnqueues,
     DeletionRenames, DeletionEnds, DeletionThrows, BecomeOnline, Disconnect, vars, propagation
<1>7. QED BY <1>1, <1>2, <1>3, <1>4, <1>5, <1>6 DEF Next, Propagate

SettleAgrees(c) ==
  update[c].step = "settle" /\ update[c].id \notin crossed /\ ~Removed(update[c].id)
    => record[update[c].id].name = update[c].name /\ keria[update[c].id] = update[c].name

\* An uncrossed propagation that waits to settle still agrees with its record.
LEMMA SettleAgreesStep ==
  ASSUME Types, MadeInOrder, NamesHaveOrigin, CallsKnow, Renamed, Lasting, [Next]_vars,
         NEW c \in Callers
  PROVE  SettleAgrees(c)'
<1>1. CASE update'[c] = update[c]
  <2> SUFFICES ASSUME NEW i \in Ids, i = update[c].id, update[c].step = "settle",
                      i \notin crossed', ~Removed(i)'
               PROVE  record'[i].name = update[c].name /\ keria'[i] = update[c].name
    BY <1>1, UpdateShape DEF SettleAgrees, Removed
  <2>1. i \in Stored /\ i \notin crossed /\ ~Removed(i)
    BY CrossedGrows DEF CallsKnow, Lasting, Idle
  <2>2. record[i].name = update[c].name /\ keria[i] = update[c].name
    BY <2>1 DEF Renamed
  <2>3. keria'[i] = update[c].name
    BY <2>1, <2>2, AgreementLasts
  <2>4. ASSUME NEW n \in NewNames, UpdateIdentifier(i, n)
        PROVE  FALSE
    BY <2>4 DEF UpdateIdentifier, Idle, Callers
  <2>5. record'[i].name = record[i].name
    BY <2>1, <2>4, RecordTransitions DEF KeepsName
  <2>6. QED BY <2>2, <2>3, <2>5
<1>2. CASE update'[c].step \in {"idle", "rename"}
  BY <1>2 DEF SettleAgrees
<1>3. CASE UpdateRenames(c)
  <2> SUFFICES ASSUME NEW i \in Ids, i = update[c].id, i \notin crossed'
               PROVE  record[i].name = update[c].name /\ keria'[i] = update[c].name
                      /\ record' = record /\ update'[c].id = i /\ update'[c].name = update[c].name
    BY <1>3, UpdateShape, UpdateRenamesOne DEF SettleAgrees, UpdateRenames, Types, UpdateCalls
  <2>1. QED
    BY <1>3, UpdateRenamesOne, UncrossedRename DEF UpdateRenames, Types, UpdateCalls, Idle
<1>4. QED BY <1>1, <1>2, <1>3, UpdateTransitions

SaveAgrees(c) ==
  create[c].step = "save" /\ create[c].id \notin Stored
    => keria[create[c].id] = create[c].name

\* KERIA has the name of a creation until its record is there.
LEMMA SaveAgreesStep ==
  ASSUME Types, MadeInOrder, NamesHaveOrigin, CallsKnow, Renamed, Lasting, [Next]_vars,
         NEW c \in Callers
  PROVE  SaveAgrees(c)'
<1>1. CASE create'[c] = create[c]
  <2> SUFFICES ASSUME NEW i \in Ids, i = create[c].id, create[c].step = "save", i \notin Stored
               PROVE  keria'[i] = create[c].name
    BY <1>1, CreateShape DEF SaveAgrees, Lasting
  <2>1. i \in Made /\ keria[i] = create[c].name
    BY DEF Renamed, CallsKnow
  <2>2. ~DeletionRenames(i)
    BY DeletionRenamesOne DEF Removed
  <2>3. ASSUME NEW d \in Callers, UpdateRenames(d), update[d].id = i
        PROVE  FALSE
    BY <2>3, UpdateRenamesOne
  <2>4. QED BY <2>1, <2>2, <2>3, KeriaTransitions
<1>2. CASE create'[c].step \in {"idle", "write", "incept", "unqueue"}
  BY <1>2 DEF SaveAgrees
<1>3. ASSUME CreateIncepts(c), create'[c].step = "save"
      PROVE  SaveAgrees(c)'
  <2>1. PICK i \in Ids :
          /\ keria'[i] = create[c].name
          /\ \/ create' = [create EXCEPT ![c] =
                             [step |-> "save", name |-> create[c].name, id |-> i]]
             \/ CreateStops(c)
    BY <1>3, Incepts
  <2>2. ~CreateStops(c)
    BY <1>3 DEF CreateStops, Types, Idle
  <2>3. create'[c].name = create[c].name /\ create'[c].id = i
    BY <2>1, <2>2 DEF Types
  <2>4. QED BY <2>1, <2>3 DEF SaveAgrees
<1>4. CASE CreateSaves(c)
  <2>1. create'[c].step = "operation"
    BY <1>4 DEF CreateSaves, At, Types, CreateCalls, Idle
  <2>2. QED BY <2>1 DEF SaveAgrees
<1>5. QED BY <1>1, <1>2, <1>3, <1>4, CreateTransitions

NamesAgreeOn(i) ==
  /\ i \in Stored \ (Updating \union Deleting)
  /\ ~record[i].deleted /\ i \notin crossed
  => keria[i] = record[i].name

\* Record and KERIA agree again when the update is no longer pending.
LEMMA NamesAgreeStep ==
  ASSUME Types, Types', MadeInOrder, NamesHaveOrigin, CallsKnow, Renamed, Lasting, [Next]_vars,
         NEW i \in Ids
  PROVE  NamesAgreeOn(i)'
<1> SUFFICES ASSUME i \in Stored', ~record'[i].updating, ~record'[i].deleting,
                    ~record'[i].deleted, i \notin crossed'
             PROVE  keria'[i] = record'[i].name
  BY DEF NamesAgreeOn, Updating, Deleting
<1>1. i \notin crossed /\ ~Removed(i)
  BY CrossedGrows DEF Removed, Lasting
<1>2. CASE i \in Stored /\ ~record[i].updating /\ record'[i].name = record[i].name
  <2>1. keria[i] = record[i].name
    BY <1>1, <1>2 DEF Renamed, NamesAgree, Removed, Updating, Deleting
  <2>2. QED BY <1>1, <1>2, <2>1, AgreementLasts
<1>3. ASSUME NEW c \in Callers, UpdateSettles(c), update[c].id = i, i \in Stored,
             record'[i].name = record[i].name
      PROVE  keria'[i] = record'[i].name
  <2>1. keria[i] = record[i].name
    BY <1>1, <1>3 DEF Renamed, UpdateSettles
  <2>2. QED BY <1>1, <1>3, <2>1, AgreementLasts
<1>4. ASSUME NEW c \in Callers, CreateSaves(c), create[c].id = i, i \notin Stored,
             record'[i].name = create[c].name
      PROVE  keria'[i] = record'[i].name
  BY <1>4 DEF CreateSaves, At, Renamed
<1>5. CASE record'[i] = record[i]
  <2>1. i \in Stored
    BY <1>5 DEF Stored
  <2>2. QED BY <1>2, <1>5, <2>1
<1>6. QED BY <1>2, <1>3, <1>4, <1>5, RecordTransitions DEF KeepsName, KeepsMarks

\* Every step keeps KERIA's names in step with the records.
LEMMA RenamedStep ==
  ASSUME Types, Types', MadeInOrder, NamesHaveOrigin, CallsKnow, CallsKnow', Renamed, Lasting,
         [Next]_vars
  PROVE  Renamed'
<1>1. \A i \in Ids : DeletedAgrees(i)' /\ NamesAgreeOn(i)'
  BY DeletedAgreesStep, NamesAgreeStep
<1>2. \A c \in Callers : SettleAgrees(c)' /\ SaveAgrees(c)'
  BY SettleAgreesStep, SaveAgreesStep
<1>3. DeletedStaysDeleted' /\ NamesAgree'
  BY <1>1 DEF DeletedAgrees, NamesAgreeOn, DeletedStaysDeleted, NamesAgree, Stored
<1>4. \A i \in Ids : deletion'[i].step = "finish" => i \in Stored'
  BY DEF CallsKnow, Removed, Idle
<1>5. QED BY <1>1, <1>2, <1>3, <1>4 DEF Renamed, DeletedAgrees, SettleAgrees, SaveAgrees

-----------------------------------------------------------------------------
(* The queue.                                                              *)

\* A write of the queue that undid no other is a write of what is there.
LEMMA UnclobberedWrite ==
  ASSUME NEW read, NEW written, WriteQueue(read, written)
  PROVE  queue' = written /\ (clobbered' \/ queue = read)
BY DEF WriteQueue

\* History is not forgotten.
LEMMA HistoryGrows ==
  ASSUME Types, [Next]_vars
  PROVE  freed \subseteq freed' /\ (clobbered => clobbered')
<1>1. UNCHANGED clobbered \/ \E read, written : WriteQueue(read, written)
  BY DEF vars, Next, Create, Delete, Propagate, history, CreateReadsQueue, CreateNext,
     CreateQueues, CreateIncepts, CreateThrows, CreateSaves, CreateSavesOperation,
     CreateUnqueues, HandlerCompletes, MarkIdentifierPendingDelete, RemoveNext, DeletionBegins,
     DeletionUnqueues, DeletionRenames, DeletionEnds, DeletionThrows, UpdateIdentifier,
     UpdateNext, UpdateRenames, UpdateSettles, UpdateThrows, BecomeOnline, Disconnect, Crash
<1>2. clobbered => clobbered'
  BY <1>1 DEF WriteQueue
<1>3. freed \subseteq freed'
  <2>1. (\E c \in Callers : CreateIncepts(c) \/ UpdateRenames(c))
        \/ (\E i \in Ids : DeletionRenames(i)) => freed \subseteq freed'
    BY DEF CreateIncepts, UpdateRenames, DeletionRenames
  <2>2. QED BY <2>1, KeriaUntouched
<1>4. QED BY <1>2, <1>3

\* A name that has been queued is wanted only as long as it has been.
LEMMA WantedOnce ==
  ASSUME Types, [Next]_vars, NEW n \in promised, Wanted(n)'
  PROVE  Wanted(n) \/ clobbered'
<1> DEFINE At1(c) == create[c].step \in {"write", "incept"} /\ create[c].name = n
<1>1. ASSUME NEW m \in Names, CreateReadsQueue(m) \/ CreateNext(m)
      PROVE  Wanted(n)
  <2>1. UNCHANGED queue /\ creations' \subseteq creations
    BY <1>1 DEF CreateReadsQueue, CreateNext
  <2>2. ASSUME NEW c \in Callers, At1(c)'
        PROVE  At1(c) \/ n \in creations
    BY <1>1, <2>2 DEF CreateReadsQueue, CreateNext, Types
  <2>3. QED BY <2>1, <2>2 DEF Wanted
<1>2. CASE CreateQueues
  <2>1. /\ queue' = create["user"].read \union {create["user"].name}
        /\ clobbered' \/ queue = create["user"].read
        /\ create["user"].step = "write"
        /\ UNCHANGED creations
    BY <1>2, UnclobberedWrite DEF CreateQueues
  <2>2. ASSUME NEW c \in Callers, At1(c)'
        PROVE  At1(c)
    BY <1>2, <2>2 DEF CreateQueues, Types
  <2>3. QED BY <2>1, <2>2 DEF Wanted, Callers
<1>3. ASSUME NEW d \in Callers, \/ CreateIncepts(d) \/ CreateThrows(d) \/ CreateSaves(d)
                                \/ CreateSavesOperation(d) \/ CreateUnqueues(d)
      PROVE  Wanted(n) \/ clobbered'
  <2>1. creations' \subseteq creations
    BY <1>3 DEF CreateIncepts, CreateThrows, CreateStops, CreateSaves, CreateSavesOperation,
       CreateUnqueues
  <2>2. queue' \subseteq queue \/ clobbered'
    <3>1. CASE CreateUnqueues(d)
      BY <3>1, UnclobberedWrite DEF CreateUnqueues, Without
    <3>2. CASE ~CreateUnqueues(d)
      BY <1>3, <3>2 DEF CreateIncepts, CreateThrows, CreateSaves, CreateSavesOperation
    <3>3. QED BY <3>1, <3>2
  <2>3. ASSUME NEW c \in Callers, At1(c)'
        PROVE  At1(c)
    <3>1. CASE c = d
      <4>1. create'[c].step \in {"idle", "save", "operation", "unqueue"}
        <5>1. CASE CreateIncepts(d) \/ CreateThrows(d)
          BY <3>1, <5>1 DEF CreateIncepts, CreateThrows, CreateStops, Types, Idle
        <5>2. CASE CreateSaves(d)
          BY <3>1, <5>2 DEF CreateSaves, At, Types, CreateCalls, Idle
        <5>3. CASE CreateSavesOperation(d) \/ CreateUnqueues(d)
          BY <3>1, <5>3 DEF CreateSavesOperation, CreateUnqueues, Types, Idle
        <5>4. QED BY <1>3, <5>1, <5>2, <5>3
      <4>2. QED BY <2>3, <4>1
    <3>2. CASE c # d
      BY <1>3, <2>3, <3>2 DEF CreateIncepts, CreateThrows, CreateStops, CreateSaves,
         CreateSavesOperation, CreateUnqueues, Types
    <3>3. QED BY <3>1, <3>2
  <2>4. QED BY <2>1, <2>2, <2>3 DEF Wanted
<1>4. ASSUME NEW i \in Ids, DeletionUnqueues(i)
      PROVE  Wanted(n) \/ clobbered'
  <2>1. queue' \subseteq queue \/ clobbered'
    BY <1>4, UnclobberedWrite DEF DeletionUnqueues, Without
  <2>2. QED BY <1>4, <2>1 DEF DeletionUnqueues, Wanted, service
<1>5. CASE UNCHANGED <<queue, service>>
  BY <1>5 DEF Wanted, service
<1>6. CASE BecomeOnline
  BY <1>6 DEF BecomeOnline, Wanted
<1>7. CASE Crash
  BY <1>7 DEF Crash, Wanted, Idle
<1>8. (\E i \in Ids : \/ HandlerCompletes(i) \/ MarkIdentifierPendingDelete(i) \/ RemoveNext(i)
                      \/ DeletionBegins(i) \/ DeletionRenames(i) \/ DeletionEnds(i)
                      \/ DeletionThrows(i) \/ \E m \in NewNames : UpdateIdentifier(i, m))
      \/ (\E c \in Callers : Propagate(c)) \/ (\E u \in PendingUpdates : UpdateNext(u))
      \/ Disconnect \/ UNCHANGED vars => UNCHANGED <<queue, service>>
  BY DEF HandlerCompletes, MarkIdentifierPendingDelete, RemoveNext, DeletionBegins,
     DeletionRenames, DeletionEnds, DeletionThrows, UpdateIdentifier, Propagate, UpdateRenames,
     UpdateSettles, UpdateThrows, UpdateNext, Disconnect, vars
<1>9. QED BY <1>1, <1>2, <1>3, <1>4, <1>5, <1>6, <1>7, <1>8 DEF Next, Create, Delete

FreedWhileWanted ==
  \A i \in Made : keria[i] = origin[i] \/ ~Wanted(origin[i]) \/ origin[i] \in freed \/ clobbered

\* A second identifier for a name needs a name that was freed while wanted.
LEMMA FreedTooSoonStep ==
  ASSUME Types, MadeInOrder, OnlyPromised, NamesHaveOrigin, CallsKnow, FreedTooSoon, Lasting,
         [Next]_vars
  PROVE  FreedTooSoon'
<1>1. freed \subseteq freed' /\ (clobbered => clobbered')
  BY HistoryGrows
<1>2. ASSUME NEW i \in Made
      PROVE  /\ i \in Ids /\ i \in Made' /\ origin'[i] = origin[i] /\ origin[i] \in promised
             /\ origin[i] \in Names
  BY DEF NamesHaveOrigin, Lasting, Made, Types
<1>3. FreedWhileWanted'
  <2> SUFFICES ASSUME NEW i \in Ids, i \in Made', keria'[i] # origin'[i],
                      NEW n, n = origin'[i], Wanted(n)'
               PROVE  origin'[i] \in freed' \/ clobbered'
    BY DEF FreedWhileWanted, Made, Wanted
  <2>1. i \in Made
    BY KeriaTransitions
  <2>2. Wanted(origin[i]) \/ clobbered'
    <3>1. n \in promised /\ n = origin[i]
      BY <1>2, <2>1
    <3>2. QED BY <3>1, WantedOnce
  <2>3. CASE keria[i] = origin[i]
    <3>1. CASE DeletionRenames(i)
      BY <1>2, <2>1, <2>2, <2>3, <3>1 DEF DeletionRenames
    <3>2. ASSUME NEW c \in Callers, UpdateRenames(c), update[c].id = i
          PROVE  origin'[i] \in freed' \/ clobbered'
      <4>1. update[c].name # origin[i]
        BY <1>2, <2>1, <3>2, UpdateRenamesOne, NamesAssumption
      <4>2. QED BY <1>2, <2>1, <2>2, <2>3, <3>2, <4>1 DEF UpdateRenames
    <3>3. QED BY <1>2, <2>1, <2>3, <3>1, <3>2, KeriaTransitions
  <2>4. CASE keria[i] # origin[i]
    BY <1>1, <1>2, <2>1, <2>2, <2>4 DEF FreedTooSoon
  <2>5. QED BY <2>3, <2>4
<1>4. ASSUME NEW i \in Ids, i \notin Made, i \in Made', NEW j \in Made, origin'[i] = origin[j]
      PROVE  origin[j] \in freed' \/ clobbered'
  <2>1. PICK c \in Callers :
          /\ CreateIncepts(c) /\ origin'[i] = create[c].name
          /\ \A k \in Ids : keria[k] # create[c].name
    BY <1>4, KeriaTransitions
  <2>2. Wanted(origin[j])
    BY <1>4, <2>1 DEF Wanted, CreateIncepts, At
  <2>3. keria[j] # origin[j]
    BY <1>2, <1>4, <2>1
  <2>4. QED BY <1>1, <2>2, <2>3 DEF FreedTooSoon
<1>5. ASSUME NEW i \in Ids, NEW j \in Ids, i \notin Made, j \notin Made, i \in Made', j \in Made'
      PROVE  i = j
  <2>1. PICK c \in Callers : CreateIncepts(c)
    BY <1>5, KeriaTransitions
  <2>2. QED BY <1>5, <2>1, Incepts
<1>6. OneIdentifierPerName'
  <2> SUFFICES ASSUME NEW i \in Ids, NEW j \in Ids, i \in Made', j \in Made', i # j,
                      origin'[i] = origin'[j]
               PROVE  origin'[i] \in freed' \/ clobbered'
    BY DEF OneIdentifierPerName, Made
  <2>1. CASE i \in Made /\ j \in Made
    BY <1>1, <1>2, <2>1 DEF FreedTooSoon, OneIdentifierPerName
  <2>2. CASE i \notin Made /\ j \in Made
    BY <1>2, <1>4, <2>2
  <2>3. CASE i \in Made /\ j \notin Made
    BY <1>2, <1>4, <2>3
  <2>4. QED BY <1>5, <2>1, <2>2, <2>3
<1>7. QED BY <1>3, <1>6 DEF FreedTooSoon, FreedWhileWanted

\* A queued name leaves the queue when its creation or its deletion takes it
\* out, or when a write of the queue undoes another.
LEMMA QueueTransitions ==
  ASSUME Types, [Next]_vars, NEW n
  PROVE  /\ n \in queue => \/ n \in queue' \/ clobbered'
                           \/ \E c \in Callers : CreateUnqueues(c) /\ create[c].name = n
                           \/ \E i \in Ids : DeletionUnqueues(i) /\ deletion[i].name = n
         /\ n \in promised' => n \in promised \/ n \in queue'
<1>1. CASE CreateQueues
  BY <1>1, UnclobberedWrite DEF CreateQueues
<1>2. ASSUME NEW c \in Callers, CreateUnqueues(c)
      PROVE  /\ n \in queue => n \in queue' \/ clobbered' \/ create[c].name = n
             /\ UNCHANGED promised
  BY <1>2, UnclobberedWrite DEF CreateUnqueues, Without
<1>3. ASSUME NEW i \in Ids, DeletionUnqueues(i)
      PROVE  /\ n \in queue => n \in queue' \/ clobbered' \/ deletion[i].name = n
             /\ UNCHANGED promised
  BY <1>3, UnclobberedWrite DEF DeletionUnqueues, Without
<1>4. \/ CreateQueues \/ (\E c \in Callers : CreateUnqueues(c))
      \/ (\E i \in Ids : DeletionUnqueues(i)) \/ UNCHANGED <<queue, promised>>
  BY DEF vars, Next, Create, Delete, Propagate, history, CreateReadsQueue, CreateNext,
     CreateIncepts, CreateThrows, CreateSaves, CreateSavesOperation,
     HandlerCompletes, MarkIdentifierPendingDelete, RemoveNext, DeletionBegins,
     DeletionRenames, DeletionEnds, DeletionThrows, UpdateIdentifier,
     UpdateNext, UpdateRenames, UpdateSettles, UpdateThrows, BecomeOnline, Disconnect, Crash
<1>5. QED BY <1>1, <1>2, <1>3, <1>4

\* No step takes a name out of the queue before there is something to show.
LEMMA QueuedUntilMadeStep ==
  ASSUME Types, OnlyPromised, NamesHaveOrigin, CallsKnow, QueuedUntilMade, Lasting, [Next]_vars
  PROVE  QueuedUntilMade'
<1> DEFINE Had(n) == \E i \in Ids : Settling(i) /\ origin[i] = n
<1>1. ASSUME NEW n, Had(n)
      PROVE  Had(n)'
  BY <1>1 DEF Lasting, Settling, NamesHaveOrigin
<1>2. ASSUME NEW n \in promised', Had(n)' \/ n \in queue' \/ clobbered'
      PROVE  \/ n \in queue'
             \/ \E i \in Stored' : /\ origin'[i] = n
                                   /\ \/ i \in witness' \/ record'[i].status = "settled"
                                      \/ record'[i].deleting \/ record'[i].deleted
             \/ clobbered'
  BY <1>2 DEF Settling
<1>3. ASSUME NEW n \in promised'
      PROVE  Had(n)' \/ n \in queue' \/ clobbered'
  <2>1. CASE n \notin promised
    BY <1>3, <2>1, QueueTransitions
  <2>2. CASE n \in promised
    <3>1. n \in queue \/ Had(n) \/ clobbered
      BY <2>2 DEF QueuedUntilMade, Settling, Stored
    <3>2. ASSUME NEW c \in Callers, CreateUnqueues(c), create[c].name = n
          PROVE  Had(n)
      BY <3>2 DEF CreateUnqueues, At, CallsKnow
    <3>3. ASSUME NEW i \in Ids, DeletionUnqueues(i), deletion[i].name = n
          PROVE  Had(n)
      BY <3>3 DEF DeletionUnqueues, CallsKnow, Idle, Removed, Settling
    <3>4. QED BY <1>1, <3>1, <3>2, <3>3, QueueTransitions, HistoryGrows
  <2>3. QED BY <2>1, <2>2
<1>4. QED BY <1>2, <1>3 DEF QueuedUntilMade

-----------------------------------------------------------------------------
(* What waits while the agent is online.                                   *)

\* Until it ends, or the agent stops, a deletion that is under way stays so,
\* or is seen to throw.
LEMMA RemovalGoesOn ==
  ASSUME Types, [Next]_vars, NEW i \in Ids, deletion[i] # Idle \/ i \in removals \union stopped,
         online', ~BecomeOnline, ~DeletionEnds(i)
  PROVE  deletion'[i] # Idle \/ i \in removals' \union stopped'
<1> DEFINE Goal == deletion'[i] # Idle \/ i \in removals' \union stopped'
<1>1. ASSUME NEW j \in Ids, MarkIdentifierPendingDelete(j) \/ RemoveNext(j)
      PROVE  Goal
  <2>1. UNCHANGED stopped /\ removals \subseteq removals' \union {j}
    BY <1>1 DEF MarkIdentifierPendingDelete, RemoveNext, history
  <2>2. /\ deletion'[j].step = "begin"
        /\ i # j => deletion'[i] = deletion[i]
    <3>1. PICK by \in Callers : deletion' = [deletion EXCEPT ![j] = [step |-> "begin", by |-> by]]
      BY <1>1 DEF MarkIdentifierPendingDelete, RemoveNext, Callers
    <3>2. QED BY <3>1 DEF Types
  <2>3. deletion'[j] # Idle
    BY <2>2 DEF Idle
  <2>4. QED BY <2>1, <2>2, <2>3
<1>2. ASSUME NEW j \in Ids, DeletionBegins(j) \/ DeletionUnqueues(j) \/ DeletionRenames(j)
      PROVE  Goal
  <2>1. UNCHANGED <<removals, stopped>>
    BY <1>2 DEF DeletionBegins, DeletionUnqueues, DeletionRenames, history
  <2>2. CASE i = j
    <3>1. DeletionBegins(i) => deletion'[i].step \in {"unqueue", "rename"}
      BY DEF DeletionBegins, Types
    <3>2. DeletionUnqueues(i) => deletion'[i].step = "rename"
      BY DEF DeletionUnqueues, Types
    <3>3. DeletionRenames(i) => deletion'[i].step = "finish"
      BY DEF DeletionRenames, Types, DeletionCalls, Idle
    <3>4. deletion'[i].step # "idle"
      BY <1>2, <2>2, <3>1, <3>2, <3>3
    <3>5. QED BY <3>4 DEF Idle
  <2>3. CASE i # j
    BY <1>2, <2>1, <2>3 DEF DeletionBegins, DeletionUnqueues, DeletionRenames, Types
  <2>4. QED BY <2>2, <2>3
<1>3. ASSUME NEW j \in Ids, DeletionEnds(j)
      PROVE  Goal
  BY <1>3 DEF DeletionEnds, Types, history
<1>4. ASSUME NEW j \in Ids, DeletionThrows(j)
      PROVE  Goal
  BY <1>4 DEF DeletionThrows, Types
<1>5. CASE UNCHANGED removal /\ stopped \subseteq stopped'
  BY <1>5 DEF removal
<1>6. (\E n \in Names : CreateReadsQueue(n) \/ CreateNext(n)) \/ CreateQueues
      \/ (\E d \in Callers : Create(d) \/ Propagate(d))
      \/ (\E j \in Ids : HandlerCompletes(j) \/ \E n \in NewNames : UpdateIdentifier(j, n))
      \/ (\E u \in PendingUpdates : UpdateNext(u))
      \/ Disconnect \/ UNCHANGED vars => UNCHANGED removal /\ stopped \subseteq stopped'
  BY DEF CreateReadsQueue, CreateNext, CreateQueues, Create, CreateIncepts, CreateThrows,
     CreateStops, CreateSaves, CreateSavesOperation, CreateUnqueues, HandlerCompletes, Propagate,
     UpdateIdentifier, UpdateRenames, UpdateSettles, UpdateThrows, UpdateNext, Disconnect, vars,
     history
<1>7. CASE Crash
  BY <1>7 DEF Crash
<1>8. QED BY <1>1, <1>2, <1>3, <1>4, <1>5, <1>6, <1>7 DEF Next, Delete

\* While the agent is online, no deletion is left for its next start.
LEMMA DeletionIsUnderWayStep ==
  ASSUME Types, CallsKnow, PendingIsUnderWay, [Next]_vars
  PROVE  DeletionIsUnderWay'
<1> SUFFICES ASSUME NEW i \in Ids, i \in Stored', record'[i].deleting, online'
             PROVE  deletion'[i] # Idle \/ i \in removals' \union stopped'
  BY DEF DeletionIsUnderWay, Deleting, Stored
<1> DEFINE Goal == deletion'[i] # Idle \/ i \in removals' \union stopped'
<1>1. CASE BecomeOnline
  BY <1>1 DEF BecomeOnline, Deleting, Stored
<1>2. CASE MarkIdentifierPendingDelete(i)
  BY <1>2 DEF MarkIdentifierPendingDelete, Types, Idle
<1>3. CASE DeletionEnds(i)
  <2>1. ~record'[i].deleting
    BY <1>3, DeletionWrites DEF Types
  <2>2. QED BY <2>1
<1>4. ASSUME ~BecomeOnline, ~MarkIdentifierPendingDelete(i), ~DeletionEnds(i)
      PROVE  Goal
  <2>1. online
    BY <1>4 DEF vars, Next, Create, Delete, Propagate, CreateReadsQueue, CreateNext,
       CreateQueues, CreateIncepts, CreateThrows, CreateSaves, CreateSavesOperation,
       CreateUnqueues, HandlerCompletes, MarkIdentifierPendingDelete, RemoveNext,
       DeletionBegins, DeletionUnqueues, DeletionRenames, DeletionEnds, DeletionThrows,
       UpdateIdentifier, UpdateNext, UpdateRenames, UpdateSettles, UpdateThrows, Disconnect,
       Crash
  <2>2. i \in Deleting
    BY <1>4, RecordTransitions DEF Deleting, Stored, KeepsMarks
  <2>3. deletion[i] # Idle \/ i \in removals \union stopped
    BY <2>1, <2>2 DEF PendingIsUnderWay, DeletionIsUnderWay
  <2>4. QED BY <1>4, <2>3, RemovalGoesOn
<1>5. QED BY <1>1, <1>2, <1>3, <1>4

\* A queued name is being made, or its creation has thrown, or two writes of
\* the queue overlapped.
BeingMade(n) ==
  \/ n \in creations \union stopped
  \/ \E c \in Callers : create[c] # Idle /\ create[c].name = n
  \/ clobbered

\* Until the agent stops, a queued name is being made or was seen to throw.
LEMMA CreationGoesOn ==
  ASSUME Types, CallsKnow, [Next]_vars, NEW n \in queue', online', ~BecomeOnline,
         n \in queue => BeingMade(n)
  PROVE  BeingMade(n)'
<1>1. ASSUME NEW m \in Names, CreateReadsQueue(m) \/ CreateNext(m)
      PROVE  BeingMade(n)'
  <2>1. BeingMade(n) /\ UNCHANGED <<stopped, clobbered>>
    BY <1>1 DEF CreateReadsQueue, CreateNext, history
  <2>2. PICK c \in Callers : /\ create[c] = Idle /\ create'[c] # Idle /\ create'[c].name = m
                             /\ \A d \in Callers \ {c} : create'[d] = create[d]
    <3>1. PICK c \in Callers : /\ create[c] = Idle
                               /\ create'[c].step # "idle" /\ create'[c].name = m
                               /\ \A d \in Callers \ {c} : create'[d] = create[d]
      <4>1. CASE CreateReadsQueue(m)
        <5>1. /\ "user" \in Callers /\ create["user"] = Idle
              /\ create'["user"] = [step |-> "write", name |-> m, read |-> queue]
              /\ \A d \in Callers \ {"user"} : create'[d] = create[d]
          BY <4>1 DEF CreateReadsQueue, Types, Callers
        <5>2. QED BY <5>1
      <4>2. CASE CreateNext(m)
        <5>1. /\ "task" \in Callers /\ create["task"] = Idle
              /\ create'["task"] = [step |-> "incept", name |-> m]
              /\ \A d \in Callers \ {"task"} : create'[d] = create[d]
          BY <4>2 DEF CreateNext, Types, Callers
        <5>2. QED BY <5>1
      <4>3. QED BY <1>1, <4>1, <4>2
    <3>2. create'[c] # Idle
      BY <3>1 DEF Idle
    <3>3. QED BY <3>1, <3>2
  <2>3. creations' = creations \/ creations' = creations \ {m}
    BY <1>1 DEF CreateReadsQueue, CreateNext
  <2>4. QED BY <2>1, <2>2, <2>3 DEF BeingMade
<1>2. CASE CreateQueues
  <2>1. /\ queue' = create["user"].read \union {create["user"].name}
        /\ clobbered' \/ queue = create["user"].read
        /\ UNCHANGED <<creations, stopped>>
        /\ create'["user"] # Idle /\ create'["user"].name = create["user"].name
        /\ \A d \in Callers \ {"user"} : create'[d] = create[d]
    BY <1>2, UnclobberedWrite DEF CreateQueues, Types, Callers, Idle
  <2>2. clobbered => clobbered'
    BY HistoryGrows
  <2>3. QED BY <2>1, <2>2 DEF BeingMade, Callers
<1>3. ASSUME NEW d \in Callers, CreateIncepts(d) \/ CreateThrows(d)
      PROVE  BeingMade(n)'
  <2>1. BeingMade(n) /\ UNCHANGED clobbered
    BY <1>3 DEF CreateIncepts, CreateThrows
  <2>2. /\ \A c \in Callers \ {d} : create'[c] = create[c]
        /\ \/ UNCHANGED <<creations, stopped>> /\ create'[d] # Idle
              /\ create'[d].name = create[d].name
           \/ CreateStops(d)
    <3>1. \A c \in Callers \ {d} : create'[c] = create[c]
      BY <1>3 DEF CreateIncepts, CreateThrows, CreateStops, Types
    <3>2. CASE CreateIncepts(d) /\ ~CreateStops(d)
      <4>1. UNCHANGED <<creations, stopped>>
            /\ create'[d].step = "save" /\ create'[d].name = create[d].name
        BY <3>2 DEF CreateIncepts, Types
      <4>2. create'[d] # Idle
        BY <4>1 DEF Idle
      <4>3. QED BY <3>1, <4>1, <4>2
    <3>3. QED BY <1>3, <3>1, <3>2 DEF CreateThrows
  <2>3. CreateStops(d) => /\ create[d].name \in stopped' /\ stopped \subseteq stopped'
                          /\ creations \subseteq creations' \union stopped'
    BY DEF CreateStops
  <2>4. QED BY <2>1, <2>2, <2>3 DEF BeingMade
<1>4. ASSUME NEW d \in Callers, CreateSaves(d)
      PROVE  BeingMade(n)'
  <2>1. BeingMade(n) /\ UNCHANGED <<creations, stopped, clobbered>>
    BY <1>4 DEF CreateSaves, history
  <2>2. /\ create'[d] # Idle /\ create'[d].name = create[d].name
        /\ \A c \in Callers \ {d} : create'[c] = create[c]
    BY <1>4 DEF CreateSaves, At, Types, CreateCalls, Idle
  <2>3. QED BY <2>1, <2>2 DEF BeingMade
<1>5. ASSUME NEW d \in Callers, CreateSavesOperation(d)
      PROVE  BeingMade(n)'
  <2>1. n \in queue /\ BeingMade(n) /\ UNCHANGED <<creations, stopped, clobbered>>
    BY <1>5 DEF CreateSavesOperation, history
  <2>2. /\ create[d].name = n => create'[d] # Idle /\ create'[d].name = n
        /\ \A c \in Callers \ {d} : create'[c] = create[c]
    BY <1>5, <2>1 DEF CreateSavesOperation, Types, Idle
  <2>3. QED BY <2>1, <2>2 DEF BeingMade
<1>6. ASSUME NEW d \in Callers, CreateUnqueues(d)
      PROVE  BeingMade(n)'
  <2>1. /\ clobbered' \/ (n \in queue /\ n # create[d].name)
        /\ UNCHANGED <<creations, stopped>>
        /\ \A c \in Callers \ {d} : create'[c] = create[c]
    BY <1>6, UnclobberedWrite DEF CreateUnqueues, Without, Types
  <2>2. clobbered => clobbered'
    BY HistoryGrows
  <2>3. QED BY <2>1, <2>2 DEF BeingMade
<1>7. ASSUME NEW i \in Ids, DeletionUnqueues(i)
      PROVE  BeingMade(n)'
  <2>1. /\ clobbered' \/ n \in queue
        /\ UNCHANGED <<service, stopped>>
    BY <1>7, UnclobberedWrite DEF DeletionUnqueues, Without
  <2>2. clobbered => clobbered'
    BY HistoryGrows
  <2>3. QED BY <2>1, <2>2 DEF BeingMade, service
<1>8. ASSUME NEW i \in Ids, DeletionThrows(i)
      PROVE  BeingMade(n)'
  BY <1>8 DEF DeletionThrows, BeingMade, service
<1>9. CASE UNCHANGED <<queue, service, stopped, clobbered>>
  BY <1>9 DEF BeingMade, service
<1>10. CASE Crash
  BY <1>10 DEF Crash
<1>11. (\E i \in Ids : \/ HandlerCompletes(i) \/ MarkIdentifierPendingDelete(i) \/ RemoveNext(i)
                       \/ DeletionBegins(i) \/ DeletionRenames(i) \/ DeletionEnds(i)
                       \/ \E m \in NewNames : UpdateIdentifier(i, m))
       \/ (\E c \in Callers : Propagate(c)) \/ (\E u \in PendingUpdates : UpdateNext(u))
       \/ Disconnect \/ UNCHANGED vars => UNCHANGED <<queue, service, stopped, clobbered>>
  BY DEF HandlerCompletes, MarkIdentifierPendingDelete, RemoveNext, DeletionBegins,
     DeletionRenames, DeletionEnds, UpdateIdentifier, Propagate, UpdateRenames,
     UpdateSettles, UpdateThrows, UpdateNext, Disconnect, vars, history
<1>12. QED
  BY <1>1, <1>2, <1>3, <1>4, <1>5, <1>6, <1>7, <1>8, <1>9, <1>10, <1>11 DEF Next, Create, Delete

\* While the agent is online, nothing pending is left for its next start.
LEMMA PendingIsUnderWayStep ==
  ASSUME Types, CallsKnow, PendingIsUnderWay, [Next]_vars
  PROVE  PendingIsUnderWay'
<1>1. DeletionIsUnderWay'
  BY DeletionIsUnderWayStep
<1>2. CreationIsUnderWay'
  <2> SUFFICES ASSUME online', NEW n \in queue'
               PROVE  BeingMade(n)'
    BY DEF CreationIsUnderWay, BeingMade
  <2>1. CASE BecomeOnline
    BY <2>1 DEF BecomeOnline, BeingMade
  <2>2. CASE ~BecomeOnline
    <3>1. online
      BY <2>2 DEF vars, Next, Create, Delete, Propagate, CreateReadsQueue, CreateNext,
         CreateQueues, CreateIncepts, CreateThrows, CreateSaves, CreateSavesOperation,
         CreateUnqueues, HandlerCompletes, MarkIdentifierPendingDelete, RemoveNext,
         DeletionBegins, DeletionUnqueues, DeletionRenames, DeletionEnds, DeletionThrows,
         UpdateIdentifier, UpdateNext, UpdateRenames, UpdateSettles, UpdateThrows, Disconnect,
         Crash
    <3>2. n \in queue => BeingMade(n)
      BY <3>1 DEF PendingIsUnderWay, CreationIsUnderWay, BeingMade
    <3>3. QED BY <2>2, <3>2, CreationGoesOn
  <2>3. QED BY <2>1, <2>2
<1>3. QED BY <1>1, <1>2 DEF PendingIsUnderWay

-----------------------------------------------------------------------------
\* A wallet without identifiers satisfies the invariant.
LEMMA InitInvariant == Init => IInv
<1> SUFFICES ASSUME Init
             PROVE  IInv
  OBVIOUS
<1> USE DEF Init
<1>1. Types
  <2>1. /\ create \in [Callers -> CreateCalls] /\ update \in [Callers -> UpdateCalls]
        /\ deletion \in [Ids -> DeletionCalls]
    BY DEF CreateCalls, DeletionCalls, UpdateCalls
  <2>2. /\ record \in [Ids -> Records \union {Absent}]
        /\ keria \in [Ids -> KeriaNames] /\ origin \in [Ids -> Names \union {NoName}]
    BY DEF KeriaNames
  <2>3. faults \in 0..MaxFaults /\ renames \in 0..MaxUpdates
    BY MaxFaultsAssumption, MaxUpdatesAssumption
  <2>4. QED BY <2>1, <2>2, <2>3 DEF Types
<1>2. Made = {} /\ Stored = {}
  BY DEF Made, Stored
<1>3. MadeInOrder
  <2>1. Made = 1..0
    BY <1>2
  <2>2. QED BY <2>1, MaxIdsAssumption DEF MadeInOrder
<1>4. OnlyPromised /\ NamesHaveOrigin /\ CallsKnow
  BY <1>2 DEF OnlyPromised, NamesHaveOrigin, CallsKnow, Idle
<1>5. Renamed
  BY <1>2 DEF Renamed, DeletedStaysDeleted, NamesAgree, Idle
<1>6. FreedTooSoon /\ QueuedUntilMade /\ PendingIsUnderWay
  BY <1>2 DEF FreedTooSoon, OneIdentifierPerName, QueuedUntilMade, PendingIsUnderWay,
     DeletionIsUnderWay, CreationIsUnderWay, Deleting
<1>7. QED BY <1>1, <1>3, <1>4, <1>5, <1>6 DEF IInv

\* The invariant is inductive: every step keeps each of its parts.
THEOREM Inductive == Spec => []IInv
<1>1. IInv /\ [Next]_vars => IInv'
  <2> SUFFICES ASSUME IInv, [Next]_vars
               PROVE  IInv'
    OBVIOUS
  <2> USE DEF IInv
  <2>1. Lasting
    BY LastingStep
  <2>2. Types'
    BY TypesStep
  <2>3. CallsKnow'
    BY <2>1, <2>2, CallsKnowStep
  <2>4. MadeInOrder' /\ OnlyPromised' /\ NamesHaveOrigin'
    BY <2>1, MadeInOrderStep, OnlyPromisedStep, NamesHaveOriginStep
  <2>5. Renamed'
    BY <2>1, <2>2, <2>3, RenamedStep
  <2>6. FreedTooSoon' /\ QueuedUntilMade' /\ PendingIsUnderWay'
    BY <2>1, FreedTooSoonStep, QueuedUntilMadeStep, PendingIsUnderWayStep
  <2>7. QED BY <2>2, <2>3, <2>4, <2>5, <2>6
<1>2. QED BY <1>1, InitInvariant, PTL DEF Spec

\* Every variable keeps its type, and what is stored is known to KERIA.
THEOREM TypeCorrect == Spec => []TypeOK
<1>1. IInv => TypeOK
  <2> SUFFICES ASSUME IInv
               PROVE  TypeOK
    OBVIOUS
  <2>1. \A i \in Stored : record[i] \in Records /\ keria[i] # NoName /\ origin[i] \in Names
    BY RecordShape DEF IInv, NamesHaveOrigin, Made, Stored, Types
  <2>2. removals \subseteq Stored /\ witness \subseteq Stored
    BY DEF IInv, CallsKnow, Types, Removed
  <2>3. QED BY <2>1, <2>2 DEF IInv, OnlyPromised, Types, TypeOK, Records, KeriaNames,
              PendingUpdates, AllNames
<1>2. QED BY <1>1, Inductive, PTL

\* A queued name is not lost: it is in the queue until its identifier has a
\* record and something to complete it.
THEOREM QueuedNamesAreMade == Spec => []QueuedUntilMade
<1>1. IInv => QueuedUntilMade
  BY DEF IInv
<1>2. QED BY <1>1, Inductive, PTL

\* Retries of createIdentifier make no second identifier for a name.
THEOREM RetriesMakeOne == Spec => []OneIdentifierPerName
<1>1. IInv => OneIdentifierPerName
  BY DEF IInv, FreedTooSoon
<1>2. QED BY <1>1, Inductive, PTL

\* What deleteIdentifier deleted, KERIA has by the name of the deleted.
THEOREM DeletionReachesKeria == Spec => []DeletedStaysDeleted
<1>1. IInv => DeletedStaysDeleted
  BY DEF IInv, Renamed
<1>2. QED BY <1>1, Inductive, PTL

\* Once no update is pending, KERIA has the name that the wallet shows.
THEOREM RenamesReachKeria == Spec => []NamesAgree
<1>1. IInv => NamesAgree
  BY DEF IInv, Renamed
<1>2. QED BY <1>1, Inductive, PTL

\* While the agent is online its tasks hold all that is pending.
THEOREM PendingIsTakenUp == Spec => []PendingIsUnderWay
<1>1. IInv => PendingIsUnderWay
  BY DEF IInv
<1>2. QED BY <1>1, Inductive, PTL
=============================================================================
