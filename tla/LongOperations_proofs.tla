------------------------- MODULE LongOperations_proofs -------------------------
(***************************************************************************)
(* Proofs about LongOperations, for every set of operations and every      *)
(* bound.                                                                  *)
(*                                                                         *)
(* The argument: until two uses of one record overlap, the array holds one *)
(* object of each stored operation.  Then a listener's findIndex and the   *)
(* loop's indexOf can only meet the object of the record that was deleted: *)
(* the object under way is in the array as long as its record is stored,   *)
(* and its record leaves storage under the loop only when its identifier is*)
(* deleted, after which nobody saves the operation again.                  *)
(***************************************************************************)
EXTENDS LongOperations, SequenceTheorems, FiniteSetTheorems, WellFoundedInduction, TLAPS

\* Nothing is being saved or removed before the loop has its records.
ServicesWait == pc = "load" => saving = {} /\ removing = {} /\ live = <<>>

\* The loop has an object under way, whose operation is done when it is
\* handled, and was handled when its record is deleted.
UnderWay == pc \in {"get", "connect", "handle", "lookup", "delete"}

CurrentIsKnown ==
  /\ UnderWay => current \in Objects
  /\ pc \in {"handle", "lookup", "delete"} => current.id \in done
  /\ UnderWay /\ ~raced =>
       /\ current.id \in stored \union abandoned
       /\ current.id \in stored => \E i \in DOMAIN live : live[i] = current
       /\ pc \in {"lookup", "delete"} => current.id \in handled

IInv ==
  /\ TypeOK
  /\ IsFiniteSet(stored)
  /\ ServicesWait
  /\ LiveMirrorsStored
  /\ CurrentIsKnown

-----------------------------------------------------------------------------
(* Arrays of record objects.                                               *)

Ids(l)      == {l[i].id : i \in DOMAIN l}
Distinct(l) == \A i, j \in DOMAIN l : l[i].id = l[j].id => i = j

\* A set of positions has a first one.
LEMMA FirstExists ==
  ASSUME NEW T \in SUBSET Nat, T # {}
  PROVE  \E i \in T : \A j \in T : i <= j
<1>1. PICK i \in T : \A j \in T : <<j, i>> \notin OpToRel(<, Nat)
  BY NatLessThanWellFounded, WFMin
<1>2. \A j \in T : ~(j < i)
  BY <1>1 DEF OpToRel
<1>3. QED BY <1>2

\* What taking an element out of a sequence leaves.
LEMMA RemoveAtFacts ==
  ASSUME NEW S, NEW s \in Seq(S), NEW i \in 1..Len(s)
  PROVE  /\ RemoveAt(s, i) \in Seq(S)
         /\ Len(RemoveAt(s, i)) = Len(s) - 1
         /\ \A j \in 1..Len(s) - 1 : RemoveAt(s, i)[j] = s[IF j < i THEN j ELSE j + 1]
<1> DEFINE a == SubSeq(s, 1, i - 1)
           b == SubSeq(s, i + 1, Len(s))
<1>1. Len(s) \in Nat /\ i \in Nat
  BY LenProperties
<1>2. /\ a \in Seq(S) /\ Len(a) = i - 1 /\ \A j \in 1..i - 1 : a[j] = s[j]
  BY <1>1, SubSeqProperties
<1>3. b \in Seq(S) /\ Len(b) = Len(s) - i /\ \A j \in 1..Len(s) - i : b[j] = s[i + j]
  <2>1. CASE i < Len(s)
    BY <1>1, <2>1, SubSeqProperties
  <2>2. CASE i = Len(s)
    BY <1>1, <2>2, SubSeqProperties
  <2>3. QED BY <1>1, <2>1, <2>2
<1>4. RemoveAt(s, i) = a \o b
  BY DEF RemoveAt
<1> HIDE DEF a, b
<1>5. /\ a \o b \in Seq(S) /\ Len(a \o b) = Len(a) + Len(b)
      /\ \A j \in 1..Len(a) + Len(b) : (a \o b)[j] = IF j <= Len(a) THEN a[j] ELSE b[j - Len(a)]
  BY <1>2, <1>3, ConcatProperties
<1>6. \A j \in 1..Len(s) - 1 : (a \o b)[j] = s[IF j < i THEN j ELSE j + 1]
  <2> SUFFICES ASSUME NEW j \in 1..Len(s) - 1
               PROVE  (a \o b)[j] = s[IF j < i THEN j ELSE j + 1]
    OBVIOUS
  <2>1. (a \o b)[j] = IF j <= Len(a) THEN a[j] ELSE b[j - Len(a)]
    BY <1>1, <1>2, <1>3, <1>5
  <2>2. CASE j < i
    <3>1. j \in 1..i - 1 /\ j <= Len(a)
      BY <1>1, <1>2, <2>2
    <3>2. a[j] = s[j]
      BY <1>2, <3>1
    <3>3. QED BY <2>1, <2>2, <3>1, <3>2
  <2>3. CASE ~(j < i)
    <3>1. j - (i - 1) \in 1..Len(s) - i /\ i + (j - (i - 1)) = j + 1
      BY <1>1, <2>3
    <3>2. b[j - (i - 1)] = s[j + 1]
      BY <1>3, <3>1
    <3>3. QED BY <1>1, <1>2, <2>1, <2>3, <3>2
  <2>4. QED BY <2>2, <2>3
<1>7. QED BY <1>1, <1>2, <1>3, <1>4, <1>5, <1>6

\* The objects left are those at the other positions.
LEMMA RemovesOne ==
  ASSUME NEW l \in Seq(Objects), Distinct(l), NEW i \in DOMAIN l
  PROVE  /\ Ids(RemoveAt(l, i)) = Ids(l) \ {l[i].id}
         /\ Distinct(RemoveAt(l, i))
         /\ \A j \in DOMAIN l : j # i =>
              \E k \in DOMAIN RemoveAt(l, i) : RemoveAt(l, i)[k] = l[j]
<1> DEFINE m == RemoveAt(l, i)
           Old(k) == IF k < i THEN k ELSE k + 1
<1>1. Len(l) \in Nat /\ DOMAIN l = 1..Len(l) /\ i \in 1..Len(l)
  BY LenProperties
<1>2. m \in Seq(Objects) /\ Len(m) = Len(l) - 1 /\ \A k \in 1..Len(l) - 1 : m[k] = l[Old(k)]
  BY <1>1, RemoveAtFacts
<1>3. DOMAIN m = 1..Len(l) - 1
  BY <1>2, LenProperties
<1> HIDE DEF m
<1>4. \A k \in DOMAIN m : Old(k) \in DOMAIN l /\ Old(k) # i /\ m[k] = l[Old(k)]
  BY <1>1, <1>2, <1>3
<1>5. \A j \in DOMAIN l : j # i => \E k \in DOMAIN m : m[k] = l[j]
  <2> SUFFICES ASSUME NEW j \in DOMAIN l, j # i
               PROVE  \E k \in DOMAIN m : m[k] = l[j]
    OBVIOUS
  <2>1. CASE j < i
    <3>1. j \in DOMAIN m /\ Old(j) = j
      BY <1>1, <1>3, <2>1
    <3>2. QED BY <1>4, <3>1
  <2>2. CASE j > i
    <3>1. j - 1 \in DOMAIN m /\ Old(j - 1) = j
      BY <1>1, <1>3, <2>2
    <3>2. QED BY <1>4, <3>1
  <2>3. QED BY <1>1, <2>1, <2>2
<1>6. Distinct(m)
  <2> SUFFICES ASSUME NEW j \in DOMAIN m, NEW k \in DOMAIN m, m[j].id = m[k].id
               PROVE  j = k
    BY DEF Distinct
  <2>1. Old(j) = Old(k)
    BY <1>4 DEF Distinct
  <2>2. QED BY <1>1, <1>3, <2>1
<1>7. Ids(m) = Ids(l) \ {l[i].id}
  <2>1. Ids(m) \subseteq Ids(l) \ {l[i].id}
    BY <1>4 DEF Ids, Distinct
  <2>2. Ids(l) \ {l[i].id} \subseteq Ids(m)
    BY <1>5 DEF Ids
  <2>3. QED BY <2>1, <2>2
<1>8. QED BY <1>5, <1>6, <1>7 DEF m

\* An object of a new id is added at the end.
LEMMA AppendsOne ==
  ASSUME NEW l \in Seq(Objects), NEW r \in Objects, Distinct(l), r.id \notin Ids(l)
  PROVE  /\ Ids(Append(l, r)) = Ids(l) \union {r.id}
         /\ Distinct(Append(l, r))
         /\ \A j \in DOMAIN l : \E k \in DOMAIN Append(l, r) : Append(l, r)[k] = l[j]
<1> DEFINE m == Append(l, r)
<1>1. Len(l) \in Nat /\ DOMAIN l = 1..Len(l)
  BY LenProperties
<1>2. /\ m \in Seq(Objects) /\ Len(m) = Len(l) + 1
      /\ \A k \in 1..Len(l) : m[k] = l[k]
      /\ m[Len(l) + 1] = r
  BY AppendProperties
<1>3. DOMAIN m = 1..Len(l) + 1
  BY <1>2, LenProperties
<1> HIDE DEF m
<1>4. \A k \in DOMAIN m : (k \in DOMAIN l /\ m[k] = l[k]) \/ (k = Len(l) + 1 /\ m[k] = r)
  BY <1>1, <1>2, <1>3
<1>5. DOMAIN l \subseteq DOMAIN m /\ Len(l) + 1 \in DOMAIN m
  BY <1>1, <1>3
<1>6. Distinct(m)
  <2>1. \A k \in DOMAIN l : l[k].id # r.id
    BY DEF Ids
  <2>2. QED BY <1>4, <2>1 DEF Distinct
<1>7. Ids(m) = Ids(l) \union {r.id}
  <2>1. Ids(m) \subseteq Ids(l) \union {r.id}
    BY <1>4 DEF Ids
  <2>2. Ids(l) \union {r.id} \subseteq Ids(m)
    BY <1>1, <1>2, <1>5 DEF Ids
  <2>3. QED BY <2>1, <2>2
<1>8. QED BY <1>1, <1>2, <1>5, <1>6, <1>7 DEF m

\* findIndex: the first position of an id, when there is one.
LEMMA FirstIndex ==
  ASSUME NEW o, live \in Seq(Objects), IndicesOf(o) # {}
  PROVE  LET i == CHOOSE i \in IndicesOf(o) : \A j \in IndicesOf(o) : i <= j
         IN  i \in DOMAIN live /\ live[i].id = o
<1>1. IndicesOf(o) \subseteq DOMAIN live /\ DOMAIN live \subseteq Nat
  BY LenProperties DEF IndicesOf
<1>2. \E i \in IndicesOf(o) : \A j \in IndicesOf(o) : i <= j
  BY <1>1, FirstExists
<1>3. QED BY <1>2 DEF IndicesOf

\* getAll gives every record, each of them once.
LEMMA LoadMirrors ==
  ASSUME NEW S, IsFiniteSet(S), NEW order \in [1..Cardinality(S) -> S], IsInjective(order)
  PROVE  \A o \in S : \E i \in DOMAIN order : order[i] = o
<1>1. Cardinality(S) \in Nat
  BY FS_CardinalityType
<1>2. IsFiniteSet(1..Cardinality(S)) /\ Cardinality(1..Cardinality(S)) = Cardinality(S)
  BY <1>1, FS_Interval
<1>3. order \in Injection(1..Cardinality(S), S)
  BY DEF Injection, IsInjective
<1>4. order \in Surjection(1..Cardinality(S), S)
  BY <1>2, <1>3, FS_Injection
<1>5. QED BY <1>4 DEF Surjection

-----------------------------------------------------------------------------
(* Which steps write what.                                                 *)

\* What the loop writes.
LEMMA PollWrites ==
  ASSUME Poll
  PROVE  /\ UNCHANGED <<saving, removing, done, saves, faults, abandoned>>
         /\ UNCHANGED <<stored, raced>> \/ DeleteWrites
         /\ UNCHANGED live \/ Load \/ DeleteWrites
         /\ UNCHANGED handled \/ \E o \in Ops : HandlerReturns(o)
         /\ UNCHANGED current \/ Visit \/ PassDone
         /\ UNCHANGED ready \/ Reconnect
<1>1. CASE Load \/ StartPass \/ Visit \/ PassDone
  BY <1>1 DEF Load, StartPass, Visit, PassDone, records, service, loop, history
<1>2. CASE GetOperation \/ Reconnect \/ DeleteLooksUp \/ DeleteWrites
  BY <1>2 DEF GetOperation, Reconnect, DeleteLooksUp, DeleteWrites, records, service, loop, history
<1>3. CASE \E o \in Ops : HandlerReturns(o) \/ HandlerThrows(o)
  BY <1>3 DEF HandlerReturns, HandlerThrows, records, service, loop, history
<1>4. QED BY <1>1, <1>2, <1>3 DEF Poll

\* What the services write.
LEMMA ServicesWrite ==
  ASSUME Services
  PROVE  /\ UNCHANGED <<done, ready, pc, index, current, faults>>
         /\ UNCHANGED <<stored, live, raced, handled>>
            \/ (\E r \in Objects : SaveWrites(r)) \/ (\E o \in Ops : RemovalWrites(o))
         /\ UNCHANGED <<saving, saves>> \/ (\E o \in Ops : SaveLooksUp(o))
            \/ \E r \in Objects : SaveWrites(r)
         /\ UNCHANGED <<removing, abandoned>>
            \/ (\E o \in Ops : RemovalLooksUp(o)) \/ (\E o \in Ops : RemovalWrites(o))
<1>1. CASE \E r \in Objects : SaveWrites(r)
  BY <1>1 DEF SaveWrites, records, service, loop, history
<1>2. CASE \E o \in Ops : SaveLooksUp(o)
  BY <1>2 DEF SaveLooksUp, records, service, loop, history
<1>3. CASE \E o \in Ops : RemovalLooksUp(o)
  BY <1>3 DEF RemovalLooksUp, records, service, loop, history
<1>4. CASE \E o \in Ops : RemovalWrites(o)
  BY <1>4 DEF RemovalWrites, records, service, loop, history
<1>5. QED BY <1>1, <1>2, <1>3, <1>4 DEF Services

\* KERIA, the connection and the failures of the loop.
Elsewhere ==
  \/ \E o \in Ops : Complete(o)
  \/ BecomeUnready \/ BecomeReady \/ GetMeetsNetworkError \/ GetThrows

\* What they write.
LEMMA ElsewhereWrites ==
  ASSUME Elsewhere
  PROVE  /\ UNCHANGED <<stored, live, saving, removing, index, current, saves>>
         /\ UNCHANGED <<handled, abandoned, raced>>
         /\ UNCHANGED done \/ \E o \in Ops : Complete(o)
         /\ UNCHANGED pc \/ (pc = "get" /\ pc' \in {"connect", "next"})
         /\ UNCHANGED ready \/ ready' \in BOOLEAN
         /\ UNCHANGED faults \/ Fault
BY DEF Elsewhere, Complete, BecomeUnready, BecomeReady, GetMeetsNetworkError, GetThrows, records,
   service, loop, history

\* Every step is one of these.
LEMMA NextCases ==
  ASSUME [Next]_vars
  PROVE  UNCHANGED vars \/ Services \/ Poll \/ Elsewhere \/ Crash
BY DEF Next, Elsewhere

\* Which steps write each variable.
LEMMA Writers ==
  ASSUME [Next]_vars
  PROVE  /\ \/ UNCHANGED <<stored, raced>> \/ DeleteWrites
            \/ (\E r \in Objects : SaveWrites(r)) \/ (\E o \in Ops : RemovalWrites(o))
         /\ \/ UNCHANGED live \/ DeleteWrites \/ Load \/ Crash
            \/ (\E r \in Objects : SaveWrites(r)) \/ (\E o \in Ops : RemovalWrites(o))
         /\ \/ UNCHANGED saving \/ Crash
            \/ (\E o \in Ops : SaveLooksUp(o)) \/ (\E r \in Objects : SaveWrites(r))
         /\ UNCHANGED saves \/ \E o \in Ops : SaveLooksUp(o)
         /\ \/ UNCHANGED removing \/ Crash
            \/ (\E o \in Ops : RemovalLooksUp(o)) \/ (\E o \in Ops : RemovalWrites(o))
         /\ UNCHANGED abandoned \/ \E o \in Ops : RemovalLooksUp(o)
         /\ \/ UNCHANGED handled
            \/ (\E o \in Ops : HandlerReturns(o)) \/ (\E r \in Objects : SaveWrites(r))
         /\ UNCHANGED done \/ \E o \in Ops : Complete(o)
         /\ UNCHANGED current \/ Visit \/ PassDone \/ Crash
         /\ UNCHANGED faults \/ Fault
         /\ UNCHANGED ready \/ ready' \in BOOLEAN
<1>1. CASE UNCHANGED vars
  BY <1>1 DEF vars, records, service, loop, history
<1>2. CASE Services
  <2>1. \A r \in Objects : SaveWrites(r) => UNCHANGED <<saves, removing, abandoned>>
    BY DEF SaveWrites
  <2>2. \A o \in Ops : RemovalWrites(o) => UNCHANGED <<saving, saves, handled, abandoned>>
    BY DEF RemovalWrites
  <2>3. QED BY <1>2, <2>1, <2>2, ServicesWrite
<1>3. CASE Poll
  <2>1. Reconnect => ready' \in BOOLEAN
    BY DEF Reconnect
  <2>2. QED BY <1>3, <2>1, PollWrites
<1>4. CASE Elsewhere
  BY <1>4, ElsewhereWrites
<1>5. CASE Crash
  BY <1>5 DEF Crash, history
<1>6. QED BY <1>1, <1>2, <1>3, <1>4, <1>5, NextCases

\* Where the loop can be after a step, and whose operation it has.
LEMMA LoopSteps ==
  ASSUME [Next]_vars
  PROVE  \/ UNCHANGED <<pc, current, index>>
         \/ Crash /\ pc' = "load" /\ current' = NoObject /\ index' = 1
         \/ Load /\ pc' = "gate" /\ UNCHANGED <<current, index>>
         \/ StartPass /\ pc' = "next" /\ current' = current /\ index' = 1
         \/ /\ Visit /\ pc' = "get" /\ index <= Len(live) /\ current' = live[index]
            /\ index' = index + 1 /\ UNCHANGED <<live, stored, raced, abandoned>>
         \/ PassDone /\ pc' = "gate" /\ current' = NoObject /\ index' = 1
         \/ /\ UNCHANGED <<current, index>>
            /\ \/ pc' = "next" /\ pc # "load"
               \/ pc = "get" /\ pc' = "connect"
               \/ pc = "get" /\ pc' = "handle" /\ current.id \in done /\ done' = done
               \/ /\ pc = "handle" /\ pc' = "lookup" /\ handled' = handled \union {current.id}
                  /\ UNCHANGED <<done, stored>>
               \/ /\ pc = "lookup" /\ pc' = "delete"
                  /\ UNCHANGED <<done, handled, stored>>
<1>1. CASE UNCHANGED vars
  BY <1>1 DEF vars, loop
<1>2. CASE Services
  BY <1>2, ServicesWrite
<1>3. CASE Elsewhere
  BY <1>3, ElsewhereWrites
<1>4. CASE Crash
  BY <1>4 DEF Crash
<1>5. CASE Load \/ StartPass \/ Visit \/ PassDone
  BY <1>5 DEF Load, StartPass, Visit, PassDone, records, history
<1>6. CASE GetOperation \/ Reconnect \/ DeleteLooksUp \/ DeleteWrites
  BY <1>6 DEF GetOperation, Reconnect, DeleteLooksUp, DeleteWrites, records, history
<1>7. CASE \E o \in Ops : HandlerReturns(o) \/ HandlerThrows(o)
  BY <1>7 DEF HandlerReturns, HandlerThrows, records
<1>8. QED BY <1>1, <1>2, <1>3, <1>4, <1>5, <1>6, <1>7, NextCases DEF Poll

-----------------------------------------------------------------------------
(* Types.                                                                  *)

\* Faults and objects are counted within their bounds.
LEMMA CountersHold ==
  ASSUME TypeOK, [Next]_vars
  PROVE  faults' \in 0..MaxFaults /\ saves' \in 0..MaxSaves
<1>1. Fault => faults' \in 0..MaxFaults
  BY MaxFaultsAssumption DEF Fault, TypeOK
<1>2. \A o \in Ops : SaveLooksUp(o) => saves' \in 0..MaxSaves
  BY MaxSavesAssumption DEF SaveLooksUp, TypeOK
<1>3. QED BY <1>1, <1>2, Writers DEF TypeOK

\* The array stays an array of objects.
LEMMA LiveType ==
  ASSUME TypeOK, IsFiniteSet(stored), [Next]_vars
  PROVE  live' \in Seq(Objects)
<1>1. live \in Seq(Objects)
  BY DEF TypeOK
<1>2. ASSUME NEW r \in Objects, SaveWrites(r)
      PROVE  live' \in Seq(Objects)
  BY <1>1, <1>2, AppendProperties DEF SaveWrites
<1>3. ASSUME NEW o \in Ops, RemovalWrites(o)
      PROVE  live' \in Seq(Objects)
  <2> DEFINE i == CHOOSE i \in IndicesOf(o) : \A j \in IndicesOf(o) : i <= j
  <2>1. live' = IF IndicesOf(o) = {} THEN live ELSE RemoveAt(live, i)
    BY <1>3 DEF RemovalWrites
  <2>2. IndicesOf(o) # {} => i \in DOMAIN live
    BY <1>1, FirstIndex
  <2> HIDE DEF i
  <2>3. IndicesOf(o) # {} => RemoveAt(live, i) \in Seq(Objects)
    BY <1>1, <2>2, RemoveAtFacts, LenProperties
  <2>4. QED BY <1>1, <2>1, <2>3
<1>4. ASSUME DeleteWrites
      PROVE  live' \in Seq(Objects)
  <2> DEFINE i == CHOOSE i \in DOMAIN live : live[i] = current
  <2>1. CASE live = <<>>
    BY <1>1, <1>4, <2>1 DEF DeleteWrites, Spliced
  <2>2. CASE live # <<>> /\ \E j \in DOMAIN live : live[j] = current
    <3>1. i \in DOMAIN live
      BY <2>2
    <3>2. live' = RemoveAt(live, i)
      BY <1>4, <2>2 DEF DeleteWrites, Spliced
    <3> HIDE DEF i
    <3>3. QED BY <1>1, <3>1, <3>2, RemoveAtFacts, LenProperties
  <2>3. CASE live # <<>> /\ ~\E j \in DOMAIN live : live[j] = current
    <3>1. live' = SubSeq(live, 1, Len(live) - 1)
      BY <1>4, <2>3 DEF DeleteWrites, Spliced, Front
    <3>2. Len(live) \in Nat /\ \A k \in 1..Len(live) - 1 : live[k] \in Objects
      BY <1>1, LenProperties, ElementOfSeq
    <3>3. QED BY <3>1, <3>2, SubSeqProperties
  <2>4. QED BY <2>1, <2>2, <2>3
<1>5. ASSUME Load
      PROVE  live' \in Seq(Objects)
  <2>1. PICK order \in [1..Cardinality(stored) -> stored] :
          live' = [i \in DOMAIN order |-> Object(order[i], Loaded)]
    BY <1>5 DEF Load
  <2> DEFINE Entry(i) == Object(order[i], Loaded)
  <2>2. \A i \in 1..Cardinality(stored) : Entry(i) \in Objects
    BY MaxSavesAssumption DEF Object, Objects, Loaded, TypeOK
  <2>3. live' = [i \in 1..Cardinality(stored) |-> Entry(i)]
    BY <2>1
  <2>4. Cardinality(stored) \in Nat
    BY FS_CardinalityType
  <2> HIDE DEF Entry
  <2>5. live' \in [1..Cardinality(stored) -> Objects]
    BY <2>2, <2>3
  <2>6. QED BY <2>4, <2>5, SeqDef
<1>6. Crash => live' = <<>>
  BY DEF Crash
<1>7. QED BY <1>1, <1>2, <1>3, <1>4, <1>5, <1>6, EmptySeq, Writers

\* Storage stays finite, with records of known operations.
LEMMA StoredType ==
  ASSUME TypeOK, CurrentIsKnown, IsFiniteSet(stored), [Next]_vars
  PROVE  stored' \subseteq Ops /\ IsFiniteSet(stored')
<1>1. stored \subseteq Ops
  BY DEF TypeOK
<1>2. ASSUME NEW r \in Objects, SaveWrites(r)
      PROVE  stored' \subseteq Ops /\ IsFiniteSet(stored')
  <2>1. r.id \in Ops /\ stored' = stored \union {r.id}
    BY <1>2 DEF SaveWrites, Objects
  <2>2. QED BY <1>1, <2>1, FS_AddElement
<1>3. (DeleteWrites \/ \E o \in Ops : RemovalWrites(o)) => stored' \subseteq stored
  BY DEF DeleteWrites, RemovalWrites
<1>4. QED BY <1>1, <1>2, <1>3, FS_Subset, Writers

\* The sets of objects and operations keep their types.
LEMMA SetTypes ==
  ASSUME TypeOK, CurrentIsKnown, [Next]_vars
  PROVE  /\ saving' \subseteq Objects /\ removing' \subseteq abandoned'
         /\ done' \subseteq Ops /\ ready' \in BOOLEAN
         /\ handled' \subseteq done' /\ abandoned' \subseteq Ops /\ raced' \in BOOLEAN
<1>1. saving' \subseteq Objects
  <2>1. \A o \in Ops : SaveLooksUp(o) => saving' \subseteq Objects
    <3> SUFFICES ASSUME NEW o \in Ops, SaveLooksUp(o)
                 PROVE  saving' \subseteq Objects
      OBVIOUS
    <3>1. saves' \in 0..MaxSaves
      BY CountersHold
    <3>2. Object(o, saves') \in Objects
      BY <3>1 DEF Object, Objects
    <3>3. QED BY <3>2 DEF SaveLooksUp, TypeOK
  <2>2. \A r \in Objects : SaveWrites(r) => saving' \subseteq saving
    BY DEF SaveWrites
  <2>3. Crash => saving' = {}
    BY DEF Crash
  <2>4. QED BY <2>1, <2>2, <2>3, Writers DEF TypeOK
<1>2. abandoned \subseteq abandoned' /\ abandoned' \subseteq Ops
  BY Writers DEF RemovalLooksUp, TypeOK
<1>3. removing' \subseteq abandoned'
  <2>1. \A o \in Ops : RemovalLooksUp(o) => removing' \subseteq abandoned'
    BY DEF RemovalLooksUp, TypeOK
  <2>2. \A o \in Ops : RemovalWrites(o) => removing' \subseteq removing
    BY DEF RemovalWrites
  <2>3. Crash => removing' = {}
    BY DEF Crash
  <2>4. QED BY <1>2, <2>1, <2>2, <2>3, Writers DEF TypeOK
<1>4. done \subseteq done' /\ done' \subseteq Ops
  BY Writers DEF Complete, TypeOK
<1>5. handled' \subseteq done'
  <2>1. \A o \in Ops : HandlerReturns(o) => handled' = handled \union {o} /\ o \in done
    BY DEF HandlerReturns, CurrentIsKnown
  <2>2. \A r \in Objects : SaveWrites(r) => handled' \subseteq handled
    BY DEF SaveWrites
  <2>3. QED BY <1>4, <2>1, <2>2, Writers DEF TypeOK
<1>6. raced' \in BOOLEAN
  BY Writers DEF DeleteWrites, SaveWrites, RemovalWrites, TypeOK
<1>7. ready' \in BOOLEAN
  BY Writers DEF TypeOK
<1>8. QED BY <1>1, <1>2, <1>3, <1>4, <1>5, <1>6, <1>7

\* The loop's place keeps its type.
LEMMA LoopTypes ==
  ASSUME TypeOK, [Next]_vars
  PROVE  pc' \in Points /\ index' \in Nat \ {0} /\ current' \in Objects \union {NoObject}
<1>1. pc \in Points /\ index \in Nat \ {0} /\ current \in Objects \union {NoObject}
  BY DEF TypeOK
<1>2. index <= Len(live) => live[index] \in Objects
  BY <1>1, ElementOfSeq, LenProperties DEF TypeOK
<1>3. QED BY <1>1, <1>2, LoopSteps DEF Points

\* Every step keeps the types.
LEMMA TypesHold ==
  ASSUME TypeOK, CurrentIsKnown, IsFiniteSet(stored), [Next]_vars
  PROVE  TypeOK'
BY CountersHold, LiveType, StoredType, SetTypes, LoopTypes DEF TypeOK

-----------------------------------------------------------------------------
(* The array and the storage.                                              *)

\* After a save that overlapped nothing, the array holds one more object.
LEMMA SaveMirrors ==
  ASSUME TypeOK, ServicesWait, LiveMirrorsStored, NEW r \in Objects, SaveWrites(r), ~raced'
  PROVE  /\ r.id \notin stored \union abandoned /\ ~raced
         /\ Ids(live') = stored' /\ Distinct(live')
         /\ \A j \in DOMAIN live : \E k \in DOMAIN live' : live'[k] = live[j]
<1>1. r.id \notin stored \union abandoned /\ ~raced /\ pc # "load"
  BY DEF SaveWrites, ServicesWait
<1>2. Ids(live) = stored /\ Distinct(live)
  BY <1>1 DEF LiveMirrorsStored, Ids, Distinct
<1>3. live' = Append(live, r) /\ stored' = stored \union {r.id}
  BY DEF SaveWrites
<1>4. QED BY <1>1, <1>2, <1>3, AppendsOne DEF TypeOK

\* After a removal that overlapped nothing, the array has lost its object.
LEMMA RemovalMirrors ==
  ASSUME TypeOK, ServicesWait, LiveMirrorsStored, NEW o \in Ops, RemovalWrites(o), ~raced'
  PROVE  /\ o \in stored \intersect abandoned /\ ~raced /\ stored' = stored \ {o}
         /\ Ids(live') = stored' /\ Distinct(live')
         /\ \A j \in DOMAIN live :
              live[j].id # o => \E k \in DOMAIN live' : live'[k] = live[j]
<1>1. /\ o \in stored /\ o \in removing /\ ~raced /\ pc # "load"
      /\ stored' = stored \ {o} /\ removing \subseteq abandoned
  BY DEF RemovalWrites, ServicesWait, TypeOK
<1>2. Ids(live) = stored /\ Distinct(live) /\ live \in Seq(Objects)
  BY <1>1 DEF LiveMirrorsStored, Ids, Distinct, TypeOK
<1>3. IndicesOf(o) # {}
  BY <1>1, <1>2 DEF Ids, IndicesOf
<1> DEFINE i == CHOOSE i \in IndicesOf(o) : \A j \in IndicesOf(o) : i <= j
<1>4. i \in DOMAIN live /\ live[i].id = o
  BY <1>2, <1>3, FirstIndex
<1>5. live' = RemoveAt(live, i)
  BY <1>3 DEF RemovalWrites
<1> HIDE DEF i
<1>6. QED BY <1>1, <1>2, <1>4, <1>5, RemovesOne

\* The loop's delete, when it overlapped nothing, takes out its own object.
LEMMA DeleteMirrors ==
  ASSUME TypeOK, LiveMirrorsStored, CurrentIsKnown, DeleteWrites, ~raced'
  PROVE  Ids(live') = stored' /\ Distinct(live')
<1>1. current.id \in stored /\ ~raced /\ pc = "delete" /\ stored' = stored \ {current.id}
  BY DEF DeleteWrites
<1>2. Ids(live) = stored /\ Distinct(live) /\ live \in Seq(Objects)
  BY <1>1 DEF LiveMirrorsStored, Ids, Distinct, TypeOK
<1>3. \E i \in DOMAIN live : live[i] = current
  BY <1>1 DEF CurrentIsKnown, UnderWay
<1>4. live # <<>>
  BY <1>3
<1> DEFINE i == CHOOSE i \in DOMAIN live : live[i] = current
<1>5. i \in DOMAIN live /\ live[i] = current
  BY <1>3
<1>6. live' = RemoveAt(live, i)
  BY <1>3, <1>4 DEF DeleteWrites, Spliced
<1> HIDE DEF i
<1>7. QED BY <1>1, <1>2, <1>5, <1>6, RemovesOne

\* The loop starts with one object of every record.
LEMMA LoadedMirrors ==
  ASSUME IsFiniteSet(stored), Load
  PROVE  Ids(live') = stored' /\ Distinct(live')
<1>1. PICK order \in [1..Cardinality(stored) -> stored] :
        IsInjective(order) /\ live' = [i \in DOMAIN order |-> Object(order[i], Loaded)]
  BY DEF Load
<1>2. stored' = stored
  BY DEF Load
<1>3. \A o \in stored : \E i \in DOMAIN order : order[i] = o
  BY <1>1, LoadMirrors
<1>4. DOMAIN live' = DOMAIN order /\ \A i \in DOMAIN order : live'[i].id = order[i]
  BY <1>1 DEF Object
<1>5. \A i \in DOMAIN order : order[i] \in stored
  OBVIOUS
<1>6. Distinct(live')
  BY <1>1, <1>4 DEF Distinct, IsInjective
<1>7. Ids(live') = stored
  BY <1>3, <1>4, <1>5 DEF Ids
<1>8. QED BY <1>2, <1>6, <1>7

\* The array and the storage change together.
LEMMA MirrorHolds ==
  ASSUME TypeOK, IsFiniteSet(stored), ServicesWait, LiveMirrorsStored, CurrentIsKnown, [Next]_vars
  PROVE  LiveMirrorsStored'
<1> SUFFICES ASSUME pc' # "load", ~raced'
             PROVE  Ids(live') = stored' /\ Distinct(live')
  BY DEF LiveMirrorsStored, Ids, Distinct
<1>1. CASE UNCHANGED <<live, stored, raced>> /\ ~Load
  <2>1. pc # "load"
    BY <1>1, LoopSteps DEF StartPass, Visit, PassDone
  <2>2. QED BY <1>1, <2>1 DEF LiveMirrorsStored, Ids, Distinct
<1>2. CASE Load
  BY <1>2, LoadedMirrors
<1>3. ~Crash
  BY DEF Crash
<1>4. QED BY <1>1, <1>2, <1>3, SaveMirrors, RemovalMirrors, DeleteMirrors, Writers

-----------------------------------------------------------------------------
(* The loop's object.                                                      *)

\* Nothing is begun before the loop has its records.
LEMMA WaitHolds ==
  ASSUME TypeOK, ServicesWait, [Next]_vars
  PROVE  ServicesWait'
<1> SUFFICES ASSUME pc' = "load"
             PROVE  saving' = {} /\ removing' = {} /\ live' = <<>>
  BY DEF ServicesWait
<1>1. CASE Crash
  BY <1>1 DEF Crash
<1>2. CASE ~Crash
  <2>1. pc = "load" /\ ~Load
    BY <1>2, LoopSteps DEF Load
  <2>2. saving = {} /\ removing = {} /\ live = <<>>
    BY <2>1 DEF ServicesWait
  <2>3. \A r \in Objects : ~SaveWrites(r)
    BY <2>2 DEF SaveWrites
  <2>4. \A o \in Ops : ~SaveLooksUp(o) /\ ~RemovalLooksUp(o) /\ ~RemovalWrites(o)
    BY <2>1, <2>2 DEF SaveLooksUp, RemovalLooksUp, RemovalWrites
  <2>5. ~DeleteWrites
    BY <2>1 DEF DeleteWrites
  <2>6. QED BY <1>2, <2>1, <2>2, <2>3, <2>4, <2>5, Writers
<1>3. QED BY <1>1, <1>2

\* While the loop has an object under way, its record leaves storage only with
\* its identifier, and the object leaves the array only with its record.
LEMMA ObjectStays ==
  ASSUME TypeOK, ServicesWait, LiveMirrorsStored, CurrentIsKnown, [Next]_vars,
         UnderWay, UnderWay', ~raced'
  PROVE  /\ ~raced
         /\ current.id \in stored' \union abandoned'
         /\ current.id \in stored' => \E i \in DOMAIN live' : live'[i] = current
         /\ current.id \in handled => current.id \in handled'
<1>1. abandoned \subseteq abandoned'
  BY Writers DEF RemovalLooksUp
<1>2. ~raced
  BY Writers DEF SaveWrites, RemovalWrites, DeleteWrites
<1>3. /\ current.id \in stored \union abandoned
      /\ current.id \in stored => \E i \in DOMAIN live : live[i] = current
  BY <1>2 DEF CurrentIsKnown
<1>4. ASSUME NEW r \in Objects, SaveWrites(r)
      PROVE  /\ current.id \in stored' \union abandoned'
             /\ current.id \in stored' => \E i \in DOMAIN live' : live'[i] = current
             /\ current.id \in handled => current.id \in handled'
  <2>1. /\ r.id \notin stored \union abandoned
        /\ \A j \in DOMAIN live : \E k \in DOMAIN live' : live'[k] = live[j]
    BY <1>4, SaveMirrors
  <2>2. stored' = stored \union {r.id} /\ handled' = handled \ {r.id}
    BY <1>4 DEF SaveWrites
  <2>3. QED BY <1>1, <1>3, <2>1, <2>2
<1>5. ASSUME NEW o \in Ops, RemovalWrites(o)
      PROVE  /\ current.id \in stored' \union abandoned'
             /\ current.id \in stored' => \E i \in DOMAIN live' : live'[i] = current
             /\ current.id \in handled => current.id \in handled'
  <2>1. /\ o \in abandoned /\ stored' = stored \ {o}
        /\ \A j \in DOMAIN live :
             live[j].id # o => \E k \in DOMAIN live' : live'[k] = live[j]
    BY <1>5, RemovalMirrors
  <2>2. handled' = handled
    BY <1>5 DEF RemovalWrites
  <2>3. QED BY <1>1, <1>3, <2>1, <2>2
<1>6. ~DeleteWrites /\ ~Load /\ ~Crash
  BY DEF DeleteWrites, Load, Crash, UnderWay
<1>7. \A o \in Ops : HandlerReturns(o) => handled \subseteq handled'
  BY DEF HandlerReturns
<1>8. QED BY <1>1, <1>2, <1>3, <1>4, <1>5, <1>6, <1>7, Writers

\* The loop knows its object.
LEMMA CurrentHolds ==
  ASSUME TypeOK, ServicesWait, LiveMirrorsStored, CurrentIsKnown, [Next]_vars
  PROVE  CurrentIsKnown'
<1> SUFFICES ASSUME UnderWay'
             PROVE  CurrentIsKnown'
  BY DEF CurrentIsKnown, UnderWay
<1>1. done \subseteq done'
  BY Writers DEF Complete
<1>2. CASE Visit /\ pc' = "get" /\ index <= Len(live) /\ current' = live[index]
           /\ UNCHANGED <<live, stored, raced, abandoned>>
  <2>1. index \in DOMAIN live /\ live[index] \in Objects /\ pc # "load"
    BY <1>2, LenProperties, ElementOfSeq DEF TypeOK, Visit
  <2>2. ~raced => live[index].id \in stored
    BY <2>1 DEF LiveMirrorsStored
  <2>3. QED BY <1>2, <2>1, <2>2 DEF CurrentIsKnown, UnderWay
<1>3. CASE UnderWay /\ current' = current
  <2>1. current' \in Objects
    BY <1>3 DEF CurrentIsKnown
  <2>2. pc' \in {"handle", "lookup", "delete"} => current'.id \in done'
    BY <1>1, <1>3, LoopSteps DEF CurrentIsKnown
  <2>3. ASSUME ~raced'
        PROVE  /\ current'.id \in stored' \union abandoned'
               /\ current'.id \in stored' => \E i \in DOMAIN live' : live'[i] = current'
    BY <1>3, <2>3, ObjectStays
  <2>4. ASSUME ~raced', pc' \in {"lookup", "delete"}
        PROVE  current'.id \in handled'
    <3>1. CASE current.id \in handled
      BY <1>3, <2>4, <3>1, ObjectStays
    <3>2. CASE pc \notin {"lookup", "delete"}
      BY <1>3, <2>4, <3>2, LoopSteps
    <3>3. QED BY <1>3, <2>4, <3>1, <3>2, ObjectStays DEF CurrentIsKnown
  <2>5. QED BY <2>1, <2>2, <2>3, <2>4 DEF CurrentIsKnown
<1>4. QED BY <1>2, <1>3, LoopSteps DEF UnderWay

-----------------------------------------------------------------------------
(* The theorems.                                                           *)

\* The invariant holds when the application is opened for the first time.
LEMMA InitHolds == Init => IInv
<1> SUFFICES ASSUME Init
             PROVE  IInv
  OBVIOUS
<1>1. TypeOK
  <2>1. live \in Seq(Objects)
    BY EmptySeq DEF Init
  <2>2. current \in Objects \union {NoObject}
    BY DEF Init
  <2>3. saves \in 0..MaxSaves /\ faults \in 0..MaxFaults
    BY MaxSavesAssumption, MaxFaultsAssumption DEF Init
  <2>4. /\ stored \subseteq Ops /\ saving \subseteq Objects /\ removing \subseteq abandoned
        /\ done \subseteq Ops /\ handled \subseteq done /\ abandoned \subseteq Ops
    BY DEF Init
  <2>5. ready \in BOOLEAN /\ raced \in BOOLEAN
    BY DEF Init
  <2>6. pc \in Points /\ index \in Nat \ {0}
    BY DEF Init, Points
  <2>7. QED BY <2>1, <2>2, <2>3, <2>4, <2>5, <2>6 DEF TypeOK
<1>2. IsFiniteSet(stored)
  BY FS_EmptySet DEF Init
<1>3. ServicesWait /\ LiveMirrorsStored /\ CurrentIsKnown
  BY DEF Init, ServicesWait, LiveMirrorsStored, CurrentIsKnown, UnderWay
<1>4. QED BY <1>1, <1>2, <1>3 DEF IInv

\* Every step keeps the invariant.
LEMMA StepHolds == IInv /\ [Next]_vars => IInv'
BY TypesHold, StoredType, WaitHolds, MirrorHolds, CurrentHolds DEF IInv

\* The inductive invariant: the array mirrors the storage, and the loop's
\* object is in the array as long as its record is stored.
THEOREM Inductive == Spec => []IInv
BY InitHolds, StepHolds, PTL DEF Spec

\* The variables stay in their types, and only operations that are done were
\* handled.
THEOREM TypeCorrect == Spec => []TypeOK
<1>1. IInv => TypeOK
  BY DEF IInv
<1>2. QED BY <1>1, Inductive, PTL

\* The array that pollLongOperations walks holds each stored operation once
\* and nothing else, although listeners push to it and splice it meanwhile,
\* until two uses of one record overlap.
THEOREM ArrayMirrorsStorage == Spec => []LiveMirrorsStored
<1>1. IInv => LiveMirrorsStored
  BY DEF IInv
<1>2. QED BY <1>1, Inductive, PTL

\* processOperation deletes a record only after its handler has returned.
THEOREM OnlyHandledAreDeleted == Spec => OnlyHandledLeave
<1>1. IInv /\ [Next]_vars =>
        [~raced' => \A o \in stored \ stored' : o \in handled \union removing]_vars
  <2> SUFFICES ASSUME IInv, [Next]_vars, ~raced', NEW o \in stored \ stored'
               PROVE  o \in handled \union removing
    OBVIOUS
  <2>1. CASE DeleteWrites
    <3>1. o = current.id /\ pc = "delete" /\ ~raced
      BY <2>1 DEF DeleteWrites
    <3>2. QED BY <3>1 DEF IInv, CurrentIsKnown, UnderWay
  <2>2. \A p \in Ops : RemovalWrites(p) => (o = p /\ p \in removing)
    BY DEF RemovalWrites
  <2>3. \A r \in Objects : ~SaveWrites(r)
    BY DEF SaveWrites
  <2>4. QED BY <2>1, <2>2, <2>3, Writers
<1>2. QED BY <1>1, Inductive, PTL DEF Spec, OnlyHandledLeave
=============================================================================
