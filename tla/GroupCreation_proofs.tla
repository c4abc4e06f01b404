------------------------- MODULE GroupCreation_proofs -------------------------
(***************************************************************************)
(* Proofs about GroupCreation, for every set of members, names and         *)
(* thresholds and every bound.                                             *)
(*                                                                         *)
(* A call that takes an entry out of the queue has its group on KERIA, then*)
(* in a record, then in an operation, and none of these is undone          *)
(* (CallsKnow).  It takes out the first entry of a name: another group of  *)
(* that name makes the wallet one of Disputed, for whatever is queued or   *)
(* called was promised (OnlyPromised).                                     *)
(***************************************************************************)
EXTENDS GroupCreation, SequenceTheorems, WellFoundedInduction, TLAPS

CallRecords ==
  {Idle}
    \union [step : {"incept", "send", "save", "operation"}, entry : Entries]
    \union [step : {"write", "unqueue"}, entry : Entries, read : Seq(Entries)]

Types ==
  /\ queue \in [Members -> Seq(Entries)]
  /\ record \in [Members -> [Groups -> {NoRecord, "pending", "complete"}]]
  /\ operation \in [Members -> SUBSET Groups]
  /\ notes \in [Members -> SUBSET Notes]
  /\ keria \in [Members -> SUBSET Groups]
  /\ inbox \in [Members -> SUBSET Notes]
  /\ online \in [Members -> BOOLEAN]
  /\ call \in [Members -> [Callers -> CallRecords]]
  /\ tasks \in [Members -> Seq(Entries)]
  /\ asks \in 0..MaxAsks
  /\ faults \in 0..MaxFaults
  /\ promised \in [Members -> SUBSET Groups]
  /\ clobbered \subseteq Members

\* Every entry of the queue is of a group that was promised.
AllPromised(m, q) == \A i \in DOMAIN q : q[i].group \in promised[m]

\* The queue has an entry of the group.
HasEntry(q, g) == \E i \in DOMAIN q : q[i].group = g

\* What is queued, read from the queue or called for was promised.
OnlyPromised ==
  \A m \in Members :
    /\ AllPromised(m, queue[m])
    /\ \A c \in Callers :
         /\ call[m][c].step \in {"write", "unqueue"} => AllPromised(m, call[m][c].read)
         /\ call[m][c].step \in {"incept", "send", "save", "operation", "unqueue"}
              => call[m][c].entry.group \in promised[m]

\* KERIA has one group of a name.
OneOfAName ==
  \A m \in Members : \A g, h \in keria[m] : g.name = h.name => g = h

\* Only what KERIA holds is recorded, and has an operation.
RecordsFollow ==
  \A m \in Members : operation[m] \subseteq Recorded(m) /\ Recorded(m) \subseteq keria[m]

\* What a call relies on from its earlier steps.
CallsKnow ==
  \A m \in Members : \A c \in Callers :
    /\ call[m][c].step = "save" => call[m][c].entry.group \in keria[m]
    /\ call[m][c].step \in {"operation", "unqueue"} => call[m][c].entry.group \in Recorded(m)
    /\ call[m][c].step = "unqueue" => Tracked(m, call[m][c].entry.group)

IInv ==
  /\ Types
  /\ OnlyPromised
  /\ OneOfAName
  /\ RecordsFollow
  /\ CallsKnow
  /\ QueuedUntilTracked

-----------------------------------------------------------------------------
(* The queue as a sequence.                                                *)

\* The first of the positions of a name is one of them, and no later.
LEMMA FirstPosition ==
  ASSUME NEW q \in Seq(Entries), NEW name, Positions(q, name) # {}
  PROVE  /\ First(q, name) \in Positions(q, name)
         /\ \A j \in Positions(q, name) : First(q, name) <= j
<1> DEFINE P == Positions(q, name)
           R == OpToRel(<, Nat)
<1>1. P \subseteq Nat /\ P # {}
  BY LenProperties DEF Positions
<1>2. IsWellFoundedOn(R, Nat)
  BY NatLessThanWellFounded
<1>3. \E i \in P : \A j \in P : <<j, i>> \notin R
  <2> HIDE DEF P, R
  <2>1. QED BY <1>1, <1>2, WFMin
<1>4. \A i, j \in Nat : j < i => <<j, i>> \in R
  BY DEF OpToRel
<1>5. \E i \in P : \A j \in P : i <= j
  <2> HIDE DEF P, R
  <2>1. PICK i \in P : \A j \in P : <<j, i>> \notin R
    BY <1>3
  <2>2. ASSUME NEW j \in P
        PROVE  i <= j
    <3>1. i \in Nat /\ j \in Nat /\ <<j, i>> \notin R
      BY <1>1, <2>1
    <3>2. ~(j < i)
      BY <1>4, <3>1
    <3>3. QED BY <3>1, <3>2
  <2>3. QED BY <2>1, <2>2
<1>6. QED BY <1>5 DEF First

\* Every entry of a queue without the first of a name was in the queue, and
\* every entry of the queue is still there, but for that one.
LEMMA WithoutFirst ==
  ASSUME NEW q \in Seq(Entries), NEW name
  PROVE  /\ Without(q, name) \in Seq(Entries)
         /\ \A j \in DOMAIN Without(q, name) :
              \E i \in DOMAIN q : Without(q, name)[j] = q[i]
         /\ \A i \in DOMAIN q :
              q[i].group.name # name =>
                \E j \in DOMAIN Without(q, name) : Without(q, name)[j] = q[i]
<1>1. CASE Positions(q, name) = {}
  BY <1>1 DEF Without
<1>2. CASE Positions(q, name) # {}
  <2>1. PICK f \in Positions(q, name) : f = First(q, name)
    BY <1>2, FirstPosition
  <2>2. /\ DOMAIN q = 1..Len(q) /\ Len(q) \in Nat
        /\ f \in 1..Len(q) /\ q[f].group.name = name
    BY <2>1, LenProperties DEF Positions
  <2> DEFINE a == SubSeq(q, 1, f - 1)
             b == SubSeq(q, f + 1, Len(q))
  <2>3. /\ a \in Seq(Entries) /\ Len(a) = f - 1
        /\ \A i \in 1..(f - 1) : a[i] = q[i]
    <3>1. \A i \in 1..(f - 1) : q[i] \in Entries
      BY <2>2, ElementOfSeq
    <3>2. /\ a \in Seq(Entries)
          /\ Len(a) = IF 1 <= f - 1 THEN f - 1 - 1 + 1 ELSE 0
          /\ \A i \in 1..(f - 1 - 1 + 1) : a[i] = q[1 + i - 1]
      BY <2>2, <3>1, SubSeqProperties
    <3> HIDE DEF a
    <3>3. QED BY <2>2, <3>2
  <2>4. /\ b \in Seq(Entries) /\ Len(b) = Len(q) - f
        /\ \A i \in 1..(Len(q) - f) : b[i] = q[f + i]
    <3>1. \A i \in (f + 1)..Len(q) : q[i] \in Entries
      BY <2>2, ElementOfSeq
    <3>2. /\ b \in Seq(Entries)
          /\ Len(b) = IF f + 1 <= Len(q) THEN Len(q) - (f + 1) + 1 ELSE 0
          /\ \A i \in 1..(Len(q) - (f + 1) + 1) : b[i] = q[f + 1 + i - 1]
      BY <2>2, <3>1, SubSeqProperties
    <3> HIDE DEF b
    <3>3. Len(b) = Len(q) - f
      <4>1. Len(b) = IF f + 1 <= Len(q) THEN Len(q) - (f + 1) + 1 ELSE 0
        BY <3>2
      <4>2. f \in Nat /\ Len(q) \in Nat /\ f <= Len(q)
        BY <2>2
      <4>3. QED BY <4>1, <4>2
    <3>4. ASSUME NEW i \in 1..(Len(q) - f)
          PROVE  b[i] = q[f + i]
      <4>1. i \in 1..(Len(q) - (f + 1) + 1) /\ f + 1 + i - 1 = f + i
        BY <2>2
      <4>2. QED BY <3>2, <4>1
    <3>5. QED BY <3>2, <3>3, <3>4
  <2>5. Without(q, name) = a \o b
    BY <1>2, <2>1 DEF Without
  <2> HIDE DEF a, b
  <2> DEFINE w == a \o b
  <2>6. /\ w \in Seq(Entries) /\ Len(w) = Len(q) - 1 /\ DOMAIN w = 1..(Len(q) - 1)
        /\ \A i \in 1..(Len(q) - 1) : w[i] = IF i <= f - 1 THEN a[i] ELSE b[i - (f - 1)]
    <3>1. /\ w \in Seq(Entries) /\ Len(w) = Len(a) + Len(b)
          /\ \A i \in 1..(Len(a) + Len(b)) :
               w[i] = IF i <= Len(a) THEN a[i] ELSE b[i - Len(a)]
      BY <2>3, <2>4, ConcatProperties
    <3>2. DOMAIN w = 1..Len(w)
      BY <3>1, LenProperties
    <3>3. Len(a) + Len(b) = Len(q) - 1
      BY <2>2, <2>3, <2>4
    <3> HIDE DEF w
    <3>4. QED BY <2>3, <3>1, <3>2, <3>3
  <2> HIDE DEF w
  <2>7. \A i \in 1..(Len(q) - 1) : w[i] = IF i < f THEN q[i] ELSE q[i + 1]
    <3> SUFFICES ASSUME NEW i \in 1..(Len(q) - 1)
                 PROVE  w[i] = IF i < f THEN q[i] ELSE q[i + 1]
      OBVIOUS
    <3>1. CASE i < f
      BY <2>2, <2>3, <2>6, <3>1
    <3>2. CASE ~(i < f)
      <4>1. w[i] = b[i - (f - 1)]
        BY <2>2, <2>6, <3>2
      <4>2. i - (f - 1) \in 1..(Len(q) - f) /\ f + (i - (f - 1)) = i + 1
        BY <2>2, <3>2
      <4>3. QED BY <2>4, <3>2, <4>1, <4>2
    <3>3. QED BY <3>1, <3>2
  <2>8. ASSUME NEW j \in DOMAIN w
        PROVE  \E i \in DOMAIN q : w[j] = q[i]
    <3>1. j \in 1..(Len(q) - 1) /\ j \in DOMAIN q /\ j + 1 \in DOMAIN q
      BY <2>2, <2>6
    <3>2. w[j] = q[j] \/ w[j] = q[j + 1]
      BY <2>7, <3>1
    <3>3. QED BY <3>1, <3>2
  <2>9. ASSUME NEW i \in DOMAIN q, q[i].group.name # name
        PROVE  \E j \in DOMAIN w : w[j] = q[i]
    <3>1. i # f /\ i \in 1..Len(q)
      BY <2>2, <2>9
    <3>2. CASE i < f
      BY <2>2, <2>6, <2>7, <3>1, <3>2
    <3>3. CASE i > f
      <4>1. i - 1 \in 1..(Len(q) - 1) /\ ~(i - 1 < f) /\ i - 1 + 1 = i
        BY <2>2, <3>1, <3>3
      <4>2. w[i - 1] = q[i]
        BY <2>7, <4>1
      <4>3. QED BY <2>6, <4>1, <4>2
    <3>4. QED BY <2>2, <3>1, <3>2, <3>3
  <2>10. QED BY <2>5, <2>6, <2>8, <2>9 DEF w
<1>3. QED BY <1>1, <1>2

\* What an entry added to the queue leaves there.
LEMMA WithEntry ==
  ASSUME NEW q \in Seq(Entries), NEW e \in Entries
  PROVE  /\ Append(q, e) \in Seq(Entries)
         /\ \A i \in DOMAIN q : i \in DOMAIN Append(q, e) /\ Append(q, e)[i] = q[i]
         /\ \A i \in DOMAIN Append(q, e) : i \in DOMAIN q \/ Append(q, e)[i] = e
         /\ \E i \in DOMAIN Append(q, e) : Append(q, e)[i] = e
<1> DEFINE w == Append(q, e)
<1>1. /\ w \in Seq(Entries) /\ Len(w) = Len(q) + 1
      /\ \A i \in 1..Len(q) : w[i] = q[i]
      /\ w[Len(q) + 1] = e
  BY AppendProperties
<1>2. DOMAIN q = 1..Len(q) /\ Len(q) \in Nat
  BY LenProperties
<1> HIDE DEF w
<1>3. DOMAIN w = 1..Len(w)
  BY <1>1, LenProperties
<1>4. QED BY <1>1, <1>2, <1>3 DEF w

-----------------------------------------------------------------------------
(* The steps of a call.                                                    *)

\* At each of its steps a call knows its entry, or the queue that it read.
LEMMA CallShape ==
  ASSUME Types, NEW m \in Members, NEW c \in Callers
  PROVE  /\ call[m][c] \in CallRecords
         /\ call[m][c].step \in {"idle", "write", "incept", "send", "save", "operation",
                                 "unqueue"}
         /\ call[m][c].step = "idle" <=> call[m][c] = Idle
         /\ call[m][c].step # "idle" => call[m][c].entry \in Entries
         /\ call[m][c].step \in {"write", "unqueue"} => call[m][c].read \in Seq(Entries)
<1>1. call[m][c] \in CallRecords
  BY DEF Types
<1>2. QED BY <1>1 DEF CallRecords, Idle

\* A call that is written, and the other calls.
LEMMA CallWritten ==
  ASSUME Types, NEW m \in Members, NEW c \in Callers, NEW r \in CallRecords,
         call' = [call EXCEPT ![m][c] = r]
  PROVE  /\ call' \in [Members -> [Callers -> CallRecords]]
         /\ call'[m][c] = r
         /\ \A o \in Members : \A d \in Callers :
              ~(o = m /\ d = c) => call'[o][d] = call[o][d]
BY DEF Types

\* A call that keeps its entry goes to its next step.
LEMMA CallGoes ==
  ASSUME Types, NEW m \in Members, NEW c \in Callers,
         call[m][c].step \in {"incept", "send", "save", "operation"},
         NEW to \in {"incept", "send", "save", "operation"}, GoTo(m, c, to)
  PROVE  \E r \in CallRecords : /\ call' = [call EXCEPT ![m][c] = r]
                                /\ r.step = to /\ r.entry = call[m][c].entry
<1> DEFINE r == [call[m][c] EXCEPT !.step = to]
<1>1. call[m][c] \in [step : {"incept", "send", "save", "operation"}, entry : Entries]
  BY CallShape DEF CallRecords, Idle
<1>2. r \in CallRecords /\ r.step = to /\ r.entry = call[m][c].entry
  BY <1>1 DEF CallRecords
<1>3. call' = [call EXCEPT ![m][c] = r]
  BY DEF GoTo, Types
<1> HIDE DEF r
<1>4. QED BY <1>2, <1>3

\* A call ends, or takes its next step.
Advances(m, c, r) ==
  \/ r = Idle
  \/ /\ r.step = "write" /\ r.read = queue[m]
     /\ UNCHANGED <<queue, promised>>
  \/ /\ CallQueues(m) /\ c = "user"
     /\ r.step = "incept" /\ r.entry = call[m][c].entry
  \/ /\ CallIncepts(m, c)
     /\ r.step = "send" /\ r.entry = call[m][c].entry
  \/ /\ CallSends(m, c) /\ r.entry.group \in keria[m]
     /\ r.step = "save" /\ r.entry = call[m][c].entry
  \/ /\ CallSaves(m, c)
     /\ r.step = "operation" /\ r.entry = call[m][c].entry
  \/ /\ CallSavesOperation(m, c)
     /\ r.step = "unqueue" /\ r.entry = call[m][c].entry /\ r.read = queue[m]
  \/ /\ TaskNext(m) /\ r.step = "incept"
     /\ \E i \in DOMAIN queue[m] : r.entry.group = queue[m][i].group

\* One call of one wallet is written.
Calls(m, c) ==
  \E r \in CallRecords : call' = [call EXCEPT ![m][c] = r] /\ Advances(m, c, r)

\* A user's call begins with what it reads of the queue.
LEMMA BeginCalls ==
  ASSUME Types, NEW m \in Members, NEW e \in Entries, Begin(m, e)
  PROVE  Calls(m, "user")
<1> DEFINE r == [step |-> "write", entry |-> e, read |-> queue[m]]
<1>1. r \in CallRecords /\ r.step = "write" /\ r.read = queue[m]
  BY DEF CallRecords, Types
<1>2. call' = [call EXCEPT ![m]["user"] = r] /\ UNCHANGED <<queue, promised>>
  BY DEF Begin, storage, history
<1> HIDE DEF r
<1>3. QED BY <1>1, <1>2 DEF Calls, Advances

\* A call of the user queues its entry.
LEMMA QueueCalls ==
  ASSUME Types, NEW m \in Members, CallQueues(m)
  PROVE  Calls(m, "user")
<1> DEFINE r == [step |-> "incept", entry |-> call[m]["user"].entry]
<1>1. call[m]["user"].entry \in Entries
  BY CallShape DEF CallQueues, At, Callers
<1>2. r \in CallRecords /\ r.step = "incept" /\ r.entry = call[m]["user"].entry
  BY <1>1 DEF CallRecords
<1>3. call' = [call EXCEPT ![m]["user"] = r]
  BY DEF CallQueues
<1> HIDE DEF r
<1>4. QED BY <1>2, <1>3 DEF Calls, Advances

\* What createGroup and joinGroup have in common.
LEMMA ProceedCalls ==
  ASSUME Types, NEW m \in Members, NEW c \in Callers, Proceed(m, c)
  PROVE  Calls(m, c)
<1>1. Idle \in CallRecords
  BY DEF CallRecords
<1>2. CASE Stop(m, c)
  BY <1>1, <1>2 DEF Stop, Calls, Advances
<1>3. CASE CallIncepts(m, c)
  <2>1. PICK r \in CallRecords : /\ call' = [call EXCEPT ![m][c] = r]
                                 /\ r.step = "send" /\ r.entry = call[m][c].entry
    BY <1>3, CallGoes DEF CallIncepts, At
  <2>2. QED BY <1>3, <2>1 DEF Calls, Advances
<1>4. CASE CallSends(m, c) /\ ~Stop(m, c)
  <2>1. call[m][c].entry.group \in keria[m] /\ GoTo(m, c, "save")
    BY <1>4 DEF CallSends
  <2>2. PICK r \in CallRecords : /\ call' = [call EXCEPT ![m][c] = r]
                                 /\ r.step = "save" /\ r.entry = call[m][c].entry
    BY <1>4, <2>1, CallGoes DEF CallSends, At
  <2>3. QED BY <1>4, <2>1, <2>2 DEF Calls, Advances
<1>5. CASE CallSaves(m, c)
  <2>1. PICK r \in CallRecords : /\ call' = [call EXCEPT ![m][c] = r]
                                 /\ r.step = "operation" /\ r.entry = call[m][c].entry
    BY <1>5, CallGoes DEF CallSaves, At
  <2>2. QED BY <1>5, <2>1 DEF Calls, Advances
<1>6. CASE CallSavesOperation(m, c) /\ ~Stop(m, c)
  <2> DEFINE r == [step |-> "unqueue", entry |-> call[m][c].entry, read |-> queue[m]]
  <2>1. call[m][c].entry \in Entries /\ queue[m] \in Seq(Entries)
    BY <1>6, CallShape DEF CallSavesOperation, At, Types
  <2>2. /\ r \in CallRecords /\ r.step = "unqueue" /\ r.read = queue[m]
        /\ r.entry = call[m][c].entry
    BY <2>1 DEF CallRecords
  <2>3. call' = [call EXCEPT ![m][c] = r]
    BY <1>6 DEF CallSavesOperation, CallClearsNote
  <2> HIDE DEF r
  <2>4. QED BY <1>6, <2>2, <2>3 DEF Calls, Advances
<1>7. CASE CallUnqueues(m, c)
  BY <1>1, <1>7 DEF CallUnqueues, Calls, Advances
<1>8. CASE CallThrows(m, c)
  BY <1>2, <1>8 DEF CallThrows
<1>9. QED BY <1>2, <1>3, <1>4, <1>5, <1>6, <1>7, <1>8 DEF Proceed

\* The task takes up an entry that is in the queue, or gives up.
LEMMA TaskCalls ==
  ASSUME Types, NEW m \in Members, TaskNext(m)
  PROVE  UNCHANGED call \/ Calls(m, "task")
<1> DEFINE e == Head(tasks[m])
           f == First(queue[m], e.group.name)
           r == [step |-> "incept", entry |-> [e EXCEPT !.group = queue[m][f].group]]
<1>1. CASE Positions(queue[m], e.group.name) = {}
  BY <1>1 DEF TaskNext
<1>2. CASE Positions(queue[m], e.group.name) # {}
  <2>1. queue[m] \in Seq(Entries) /\ tasks[m] \in Seq(Entries) /\ tasks[m] # <<>>
    BY DEF Types, TaskNext
  <2>2. e \in Entries
    BY <2>1, HeadTailProperties
  <2>3. f \in DOMAIN queue[m]
    BY <1>2, <2>1, FirstPosition DEF Positions
  <2>4. queue[m][f] \in Entries
    BY <2>1, <2>3, ElementOfSeq, LenProperties
  <2>5. call' = [call EXCEPT ![m]["task"] = r]
    BY <1>2 DEF TaskNext
  <2> HIDE DEF e, f
  <2>6. r \in CallRecords /\ r.step = "incept" /\ r.entry.group = queue[m][f].group
    BY <2>2, <2>4 DEF CallRecords, Entries
  <2> HIDE DEF r
  <2>7. QED BY <2>3, <2>5, <2>6 DEF Calls, Advances
<1>3. QED BY <1>1, <1>2

\* Calls change only as a call advances, or with a crash.
LEMMA CallWriters ==
  ASSUME Types, [Next]_vars
  PROVE  \/ UNCHANGED call
         \/ \E m \in Members : \E c \in Callers : Calls(m, c)
         \/ \E m \in Members : Crash(m)
<1>1. "user" \in Callers /\ "task" \in Callers
  BY DEF Callers
<1>2. ASSUME NEW m \in Members, NEW g \in Groups, CreateGroup(m, g)
      PROVE  Calls(m, "user")
  BY <1>2, BeginCalls DEF CreateGroup, Entries
<1>3. ASSUME NEW m \in Members, NEW n \in Notes, JoinGroup(m, n)
      PROVE  Calls(m, "user")
  BY <1>3, BeginCalls DEF JoinGroup, Entries, Notes
<1>4. QED
  BY <1>1, <1>2, <1>3, QueueCalls, ProceedCalls, TaskCalls
  DEF Next, OperationDone, Decline, PollInception, ComeOnline, Reopen, Disconnect, vars,
      service

-----------------------------------------------------------------------------
(* What writes which variable.                                             *)

\* A step of a wallet that no call takes.
OthersActed(m) ==
  \/ \E g \in Groups : OperationDone(m, g)
  \/ \E n \in Notes : Decline(m, n) \/ PollInception(m, n)
  \/ TaskNext(m) \/ ComeOnline(m) \/ Reopen(m) \/ Disconnect(m) \/ Crash(m)

\* Only a call that queues its entry promises a group, and only it and one
\* that takes its entry out write the queue.
LEMMA QueueWriters ==
  ASSUME [Next]_vars
  PROVE  \/ UNCHANGED <<queue, promised, clobbered>>
         \/ \E m \in Members : CallQueues(m)
         \/ \E m \in Members : \E c \in Callers : CallUnqueues(m, c)
<1>1. ASSUME NEW m \in Members, NEW c \in Callers, Proceed(m, c), ~CallUnqueues(m, c)
      PROVE  UNCHANGED <<queue, promised, clobbered>>
  <2>1. \/ CallIncepts(m, c) \/ CallSends(m, c) \/ CallSaves(m, c)
        \/ CallSavesOperation(m, c) \/ CallThrows(m, c)
    BY <1>1 DEF Proceed
  <2>2. UNCHANGED queue
    BY <2>1 DEF CallIncepts, CallSends, CallSaves, CallSavesOperation, CallThrows, storage
  <2>3. UNCHANGED history
    BY <2>1 DEF CallIncepts, CallSends, CallSaves, CallSavesOperation, CallThrows
  <2>4. QED BY <2>2, <2>3 DEF history
<1>2. ASSUME NEW m \in Members, NEW e, Begin(m, e)
      PROVE  UNCHANGED <<queue, promised, clobbered>>
  BY <1>2 DEF Begin, storage, history
<1>3. ASSUME NEW m \in Members, OthersActed(m)
      PROVE  UNCHANGED <<queue, promised, clobbered>>
  BY <1>3 DEF OthersActed, OperationDone, Decline, PollInception, TaskNext, ComeOnline, Reopen,
     Disconnect, Crash, storage, history
<1>4. QED
  BY <1>1, <1>2, <1>3 DEF Next, OthersActed, CreateGroup, JoinGroup, vars, storage, history

\* Only a call that incepts its group adds to what KERIA holds.
LEMMA KeriaWriters ==
  ASSUME [Next]_vars
  PROVE  \/ UNCHANGED keria
         \/ \E m \in Members : \E c \in Callers : CallIncepts(m, c)
<1>1. ASSUME NEW m \in Members, NEW c \in Callers, Proceed(m, c), ~CallIncepts(m, c)
      PROVE  UNCHANGED keria
  BY <1>1 DEF Proceed, CallSends, CallSaves, CallSavesOperation, CallUnqueues, CallThrows,
     cloud
<1>2. ASSUME NEW m \in Members, NEW e, Begin(m, e)
      PROVE  UNCHANGED keria
  BY <1>2 DEF Begin, cloud
<1>3. QED
  BY <1>1, <1>2 DEF Next, CreateGroup, JoinGroup, OperationDone, Decline, PollInception,
     CallQueues, TaskNext, ComeOnline, Reopen, Disconnect, Crash, vars, cloud

\* What writes a record or an operation.
LEMMA RecordWriters ==
  ASSUME [Next]_vars
  PROVE  \/ UNCHANGED <<record, operation>>
         \/ \E m \in Members : \E c \in Callers : CallSaves(m, c) \/ CallSavesOperation(m, c)
         \/ \E m \in Members : \E g \in Groups : OperationDone(m, g)
<1>1. ASSUME NEW m \in Members, NEW c \in Callers, Proceed(m, c),
             ~CallSaves(m, c), ~CallSavesOperation(m, c)
      PROVE  UNCHANGED <<record, operation>>
  BY <1>1 DEF Proceed, CallIncepts, CallSends, CallUnqueues, CallThrows, storage
<1>2. ASSUME NEW m \in Members, NEW e, Begin(m, e)
      PROVE  UNCHANGED <<record, operation>>
  BY <1>2 DEF Begin, storage
<1>3. QED
  BY <1>1, <1>2 DEF Next, CreateGroup, JoinGroup, Decline, PollInception, CallQueues,
     TaskNext, ComeOnline, Reopen, Disconnect, Crash, vars, storage

\* What writes the rest of a task.
LEMMA TasksWriters ==
  ASSUME [Next]_vars
  PROVE  \/ UNCHANGED tasks
         \/ \E m \in Members : TaskNext(m) \/ ComeOnline(m) \/ Reopen(m) \/ Crash(m)
         \/ \E m \in Members : \E c \in Callers :
              CallSends(m, c) \/ CallSavesOperation(m, c) \/ CallThrows(m, c)
<1>1. ASSUME NEW m \in Members, NEW c \in Callers, Proceed(m, c),
             ~CallSends(m, c),
             ~CallSavesOperation(m, c),
             ~CallThrows(m, c)
      PROVE  UNCHANGED tasks
  BY <1>1 DEF Proceed, CallIncepts, CallSaves, CallUnqueues, service
<1>2. ASSUME NEW m \in Members, NEW e, Begin(m, e)
      PROVE  UNCHANGED tasks
  BY <1>2 DEF Begin, service
<1>3. QED
  BY <1>1, <1>2 DEF Next, CreateGroup, JoinGroup, OperationDone, Decline, PollInception,
     CallQueues, Disconnect, vars, service

\* What writes the messages of a member.
LEMMA InboxWriters ==
  ASSUME [Next]_vars
  PROVE  \/ UNCHANGED inbox
         \/ \E m \in Members : \E c \in Callers : CallSends(m, c)
         \/ \E m \in Members : \E n \in Notes : PollInception(m, n)
<1>1. ASSUME NEW m \in Members, NEW c \in Callers, Proceed(m, c),
             ~CallSends(m, c)
      PROVE  UNCHANGED inbox
  BY <1>1 DEF Proceed, CallIncepts, CallSaves, CallSavesOperation, CallUnqueues, CallThrows,
     cloud
<1>2. ASSUME NEW m \in Members, NEW e, Begin(m, e)
      PROVE  UNCHANGED inbox
  BY <1>2 DEF Begin, cloud
<1>3. QED
  BY <1>1, <1>2 DEF Next, CreateGroup, JoinGroup, OperationDone, Decline, CallQueues,
     TaskNext, ComeOnline, Reopen, Disconnect, Crash, vars, cloud

\* What writes the requests of a member.
LEMMA NotesWriters ==
  ASSUME [Next]_vars
  PROVE  \/ UNCHANGED notes
         \/ \E m \in Members : \E c \in Callers : CallSavesOperation(m, c)
         \/ \E m \in Members : \E n \in Notes : Decline(m, n) \/ PollInception(m, n)
<1>1. ASSUME NEW m \in Members, NEW c \in Callers, Proceed(m, c),
             ~CallSavesOperation(m, c)
      PROVE  UNCHANGED notes
  BY <1>1 DEF Proceed, CallIncepts, CallSends, CallSaves, CallUnqueues, CallThrows, storage
<1>2. ASSUME NEW m \in Members, NEW e, Begin(m, e)
      PROVE  UNCHANGED notes
  BY <1>2 DEF Begin, storage
<1>3. QED
  BY <1>1, <1>2 DEF Next, CreateGroup, JoinGroup, OperationDone, CallQueues, TaskNext,
     ComeOnline, Reopen, Disconnect, Crash, vars, storage

\* What marks an agent online or offline.
LEMMA OnlineWriters ==
  ASSUME [Next]_vars
  PROVE  \/ UNCHANGED online
         \/ \E m \in Members : ComeOnline(m) \/ Disconnect(m) \/ Crash(m)
<1>1. ASSUME NEW m \in Members, NEW c \in Callers, Proceed(m, c)
      PROVE  UNCHANGED online
  BY <1>1 DEF Proceed, CallIncepts, CallSends, CallSaves, CallSavesOperation, CallUnqueues,
     CallThrows
<1>2. ASSUME NEW m \in Members, NEW e, Begin(m, e)
      PROVE  UNCHANGED online
  BY <1>2 DEF Begin
<1>3. QED
  BY <1>1, <1>2 DEF Next, CreateGroup, JoinGroup, OperationDone, Decline, PollInception,
     CallQueues, TaskNext, Reopen, vars

\* Only the users ask for a group.
LEMMA AsksWriters ==
  ASSUME [Next]_vars
  PROVE  \/ UNCHANGED asks
         \/ \E m \in Members : \E g \in Groups : CreateGroup(m, g)
         \/ \E m \in Members : \E n \in Notes : JoinGroup(m, n)
<1>1. ASSUME NEW m \in Members, NEW c \in Callers, Proceed(m, c)
      PROVE  UNCHANGED asks
  BY <1>1 DEF Proceed, CallIncepts, CallSends, CallSaves, CallSavesOperation, CallUnqueues,
     CallThrows, bounds
<1>2. QED
  BY <1>1 DEF Next, OperationDone, Decline, PollInception, CallQueues, TaskNext, ComeOnline,
     Reopen, Disconnect, Crash, vars, bounds

\* What a fault can befall.
LEMMA FaultWriters ==
  ASSUME [Next]_vars
  PROVE  \/ UNCHANGED faults
         \/ \E m \in Members : Disconnect(m) \/ Crash(m)
         \/ \E m \in Members : \E g \in Groups : OperationDone(m, g)
         \/ \E m \in Members : \E c \in Callers : CallSavesOperation(m, c) \/ CallThrows(m, c)
<1>1. ASSUME NEW m \in Members, NEW c \in Callers, Proceed(m, c),
             ~CallSavesOperation(m, c),
             ~CallThrows(m, c)
      PROVE  UNCHANGED faults
  BY <1>1 DEF Proceed, CallIncepts, CallSends, CallSaves, CallUnqueues, bounds
<1>2. ASSUME NEW m \in Members, NEW e, Begin(m, e)
      PROVE  UNCHANGED faults
  BY <1>2 DEF Begin, bounds
<1>3. QED
  BY <1>1, <1>2 DEF Next, CreateGroup, JoinGroup, Decline, PollInception, CallQueues,
     TaskNext, ComeOnline, Reopen, vars, bounds

-----------------------------------------------------------------------------
(* The types.                                                              *)

\* Every step keeps the types of the calls.
LEMMA CallTypes ==
  ASSUME Types, [Next]_vars
  PROVE  call' \in [Members -> [Callers -> CallRecords]]
<1>1. CASE UNCHANGED call
  BY <1>1 DEF Types
<1>2. ASSUME NEW m \in Members, NEW c \in Callers, Calls(m, c)
      PROVE  call' \in [Members -> [Callers -> CallRecords]]
  BY <1>2, CallWritten DEF Calls
<1>3. ASSUME NEW m \in Members, Crash(m)
      PROVE  call' \in [Members -> [Callers -> CallRecords]]
  BY <1>3 DEF Crash, Types, CallRecords
<1>4. QED BY <1>1, <1>2, <1>3, CallWriters

\* Every step keeps the queues sequences of entries.
LEMMA QueueTypes ==
  ASSUME Types, [Next]_vars
  PROVE  queue' \in [Members -> Seq(Entries)]
<1>1. ASSUME NEW m \in Members, CallQueues(m)
      PROVE  queue' \in [Members -> Seq(Entries)]
  <2> DEFINE u == call[m]["user"]
  <2>1. u.read \in Seq(Entries) /\ u.entry \in Entries
    BY <1>1, CallShape DEF CallQueues, At, Callers
  <2>2. queue' = [queue EXCEPT ![m] = Append(u.read, u.entry)]
    BY <1>1 DEF CallQueues, WriteQueue
  <2>3. Append(u.read, u.entry) \in Seq(Entries)
    BY <2>1, WithEntry
  <2> HIDE DEF u
  <2>4. QED BY <2>2, <2>3 DEF Types
<1>2. ASSUME NEW m \in Members, NEW c \in Callers, CallUnqueues(m, c)
      PROVE  queue' \in [Members -> Seq(Entries)]
  <2>1. call[m][c].read \in Seq(Entries)
    BY <1>2, CallShape DEF CallUnqueues, At
  <2>2. PICK q \in Seq(Entries) : q = Without(call[m][c].read, call[m][c].entry.group.name)
    BY <2>1, WithoutFirst
  <2>3. queue' = [queue EXCEPT ![m] = q]
    BY <1>2, <2>2 DEF CallUnqueues, WriteQueue
  <2>4. QED BY <2>3 DEF Types
<1>3. CASE UNCHANGED queue
  BY <1>3 DEF Types
<1>4. QED BY <1>1, <1>2, <1>3, QueueWriters

\* Every step keeps the tasks sequences of entries.
LEMMA TaskTypes ==
  ASSUME Types, [Next]_vars
  PROVE  tasks' \in [Members -> Seq(Entries)]
<1>1. << >> \in Seq(Entries)
  BY EmptySeq
<1>2. ASSUME NEW m \in Members, TaskNext(m)
      PROVE  tasks' \in [Members -> Seq(Entries)]
  <2>1. tasks[m] \in Seq(Entries) /\ Tail(tasks[m]) \in Seq(Entries)
    BY <1>2, HeadTailProperties DEF Types, TaskNext
  <2>2. QED BY <1>1, <1>2, <2>1 DEF TaskNext, Types
<1>3. ASSUME NEW m \in Members, ComeOnline(m) \/ Reopen(m)
      PROVE  tasks' \in [Members -> Seq(Entries)]
  BY <1>3 DEF ComeOnline, Reopen, Types
<1>4. ASSUME NEW m \in Members, NEW c \in Callers, CallSends(m, c) \/ CallSavesOperation(m, c)
      PROVE  UNCHANGED tasks \/ tasks' = [tasks EXCEPT ![m] = <<>>]
  BY <1>4 DEF CallSends, CallSavesOperation, CallClearsNote, Stop
<1>5. ASSUME NEW m \in Members, NEW c \in Callers, CallThrows(m, c)
      PROVE  UNCHANGED tasks \/ tasks' = [tasks EXCEPT ![m] = <<>>]
  BY <1>5 DEF CallThrows, Stop
<1>6. ASSUME NEW m \in Members, Crash(m)
      PROVE  tasks' = [tasks EXCEPT ![m] = <<>>]
  BY <1>6 DEF Crash
<1>7. ASSUME NEW m \in Members, tasks' = [tasks EXCEPT ![m] = <<>>]
      PROVE  tasks' \in [Members -> Seq(Entries)]
  BY <1>1, <1>7 DEF Types
<1>8. CASE UNCHANGED tasks
  BY <1>8 DEF Types
<1>9. QED BY <1>2, <1>3, <1>4, <1>5, <1>6, <1>7, <1>8, TasksWriters

\* Every step keeps the types of records and operations.
LEMMA StorageTypes ==
  ASSUME Types, [Next]_vars
  PROVE  /\ record' \in [Members -> [Groups -> {NoRecord, "pending", "complete"}]]
         /\ operation' \in [Members -> SUBSET Groups]
<1>1. ASSUME NEW m \in Members, NEW c \in Callers, CallSaves(m, c)
      PROVE  /\ record' \in [Members -> [Groups -> {NoRecord, "pending", "complete"}]]
             /\ operation' = operation
  BY <1>1 DEF CallSaves, Types
<1>2. ASSUME NEW m \in Members, NEW c \in Callers, CallSavesOperation(m, c)
      PROVE  record' = record /\ operation' \in [Members -> SUBSET Groups]
  <2>1. call[m][c].entry.group \in Groups
    BY <1>2, CallShape DEF CallSavesOperation, At, Entries
  <2>2. QED BY <1>2, <2>1 DEF CallSavesOperation, Types
<1>3. ASSUME NEW m \in Members, NEW g \in Groups, OperationDone(m, g)
      PROVE  /\ record' \in [Members -> [Groups -> {NoRecord, "pending", "complete"}]]
             /\ operation' \in [Members -> SUBSET Groups]
  <2>1. record' = record \/ record' = [record EXCEPT ![m][g] = "complete"]
    BY <1>3 DEF OperationDone
  <2>2. operation' = operation \/ operation' = [operation EXCEPT ![m] = @ \ {g}]
    BY <1>3 DEF OperationDone
  <2>3. record' \in [Members -> [Groups -> {NoRecord, "pending", "complete"}]]
    <3> DEFINE Kinds == [Groups -> {NoRecord, "pending", "complete"}]
    <3>1. record \in [Members -> Kinds]
      BY DEF Types
    <3>2. [record[m] EXCEPT ![g] = "complete"] \in Kinds
      BY <3>1
    <3> HIDE DEF Kinds
    <3>3. record' = record \/ record' = [record EXCEPT ![m] = [record[m] EXCEPT ![g] = "complete"]]
      BY <2>1
    <3>4. record' \in [Members -> Kinds]
      BY <3>1, <3>2, <3>3
    <3>5. QED BY <3>4 DEF Kinds
  <2>4. operation' \in [Members -> SUBSET Groups]
    BY <2>2 DEF Types
  <2>5. QED BY <2>3, <2>4
<1>4. CASE UNCHANGED <<record, operation>>
  BY <1>4 DEF Types
<1>5. QED BY <1>1, <1>2, <1>3, <1>4, RecordWriters DEF Types

\* Every step keeps the types of what KERIA holds.
LEMMA CloudTypes ==
  ASSUME Types, [Next]_vars
  PROVE  /\ keria' \in [Members -> SUBSET Groups]
         /\ inbox' \in [Members -> SUBSET Notes]
         /\ notes' \in [Members -> SUBSET Notes]
<1>1. ASSUME NEW m \in Members, NEW c \in Callers, CallIncepts(m, c)
      PROVE  keria' \in [Members -> SUBSET Groups] /\ UNCHANGED <<inbox, notes>>
  <2>1. call[m][c].entry.group \in Groups
    BY <1>1, CallShape DEF CallIncepts, At, Entries
  <2>2. QED BY <1>1, <2>1 DEF CallIncepts, Types, storage
<1>2. ASSUME NEW m \in Members, NEW c \in Callers, CallSends(m, c)
      PROVE  inbox' \in [Members -> SUBSET Notes] /\ UNCHANGED <<keria, notes>>
  <2> DEFINE n == [group |-> call[m][c].entry.group, from |-> m]
  <2>1. n \in Notes
    BY <1>2, CallShape DEF CallSends, At, Entries, Notes
  <2>2. inbox' = [o \in Members |-> IF o = m THEN inbox[o] ELSE inbox[o] \union {n}]
    BY <1>2 DEF CallSends
  <2> HIDE DEF n
  <2>3. QED BY <1>2, <2>1, <2>2 DEF CallSends, Types, storage
<1>3. ASSUME NEW m \in Members, NEW c \in Callers, CallSavesOperation(m, c)
      PROVE  notes' \in [Members -> SUBSET Notes] /\ UNCHANGED <<keria, inbox>>
  <2>1. /\ \/ notes' = [notes EXCEPT ![m] = @ \ call[m][c].entry.joins]
           \/ notes' = notes
        /\ UNCHANGED <<keria, inbox>>
    BY <1>3 DEF CallSavesOperation, CallClearsNote, cloud
  <2>2. QED BY <2>1 DEF Types
<1>4. ASSUME NEW m \in Members, NEW n \in Notes, Decline(m, n)
      PROVE  notes' \in [Members -> SUBSET Notes] /\ UNCHANGED <<keria, inbox>>
  <2>1. notes' = [notes EXCEPT ![m] = @ \ {n}] /\ UNCHANGED <<keria, inbox>>
    BY <1>4 DEF Decline, cloud
  <2>2. QED BY <2>1 DEF Types
<1>5. ASSUME NEW m \in Members, NEW n \in Notes, PollInception(m, n)
      PROVE  /\ keria' = keria
             /\ inbox' \in [Members -> SUBSET Notes]
             /\ notes' \in [Members -> SUBSET Notes]
  <2>1. inbox' = [inbox EXCEPT ![m] = @ \ {n}] /\ keria' = keria
    BY <1>5 DEF PollInception
  <2>2. notes' = notes \/ notes' = [notes EXCEPT ![m] = @ \union {n}]
    BY <1>5 DEF PollInception
  <2>3. inbox' \in [Members -> SUBSET Notes]
    BY <2>1 DEF Types
  <2>4. notes' \in [Members -> SUBSET Notes]
    <3>1. notes \in [Members -> SUBSET Notes]
      BY DEF Types
    <3>2. notes[m] \union {n} \in SUBSET Notes
      BY <3>1
    <3>3. QED BY <2>2, <3>1, <3>2
  <2>5. QED BY <2>1, <2>3, <2>4
<1>6. keria' \in [Members -> SUBSET Groups]
  BY <1>1, KeriaWriters DEF Types
<1>7. inbox' \in [Members -> SUBSET Notes]
  BY <1>2, <1>5, InboxWriters DEF Types
<1>8. notes' \in [Members -> SUBSET Notes]
  BY <1>3, <1>4, <1>5, NotesWriters DEF Types
<1>9. QED BY <1>6, <1>7, <1>8

\* Faults stay within their bound.
LEMMA FaultTypes ==
  ASSUME Types
  PROVE  Fault => faults' \in 0..MaxFaults
<1>1. faults \in 0..MaxFaults
  BY DEF Types
<1>2. QED BY <1>1, MaxFaultsAssumption DEF Fault

\* Every step keeps the types of the agents, the bounds and the histories.
LEMMA HistoryTypes ==
  ASSUME Types, [Next]_vars
  PROVE  /\ online' \in [Members -> BOOLEAN]
         /\ asks' \in 0..MaxAsks
         /\ faults' \in 0..MaxFaults
         /\ promised' \in [Members -> SUBSET Groups]
         /\ clobbered' \subseteq Members
<1>1. online' \in [Members -> BOOLEAN]
  <2>1. ASSUME NEW m \in Members, ComeOnline(m) \/ Disconnect(m) \/ Crash(m)
        PROVE  online' \in [Members -> BOOLEAN]
    BY <2>1 DEF ComeOnline, Disconnect, Crash, Types
  <2>2. CASE UNCHANGED online
    BY <2>2 DEF Types
  <2>3. QED BY <2>1, <2>2, OnlineWriters
<1>2. asks' \in 0..MaxAsks
  <2>1. asks \in 0..MaxAsks /\ MaxAsks \in Nat
    BY MaxAsksAssumption DEF Types
  <2>2. ASSUME NEW m \in Members, NEW e, Begin(m, e)
        PROVE  asks' \in 0..MaxAsks
    BY <2>1, <2>2 DEF Begin
  <2>3. CASE UNCHANGED asks
    BY <2>1, <2>3
  <2>4. QED BY <2>2, <2>3, AsksWriters DEF CreateGroup, JoinGroup
<1>3. faults' \in 0..MaxFaults
  <2>1. CASE UNCHANGED faults
    BY <2>1 DEF Types
  <2>2. CASE Fault
    BY <2>2, FaultTypes
  <2>3. ASSUME NEW m \in Members, NEW c \in Callers, CallThrows(m, c) \/ CallSavesOperation(m, c)
        PROVE  UNCHANGED faults \/ Fault
    BY <2>3 DEF CallThrows, CallSavesOperation, CallClearsNote, CallFails
  <2>4. ASSUME NEW m \in Members, NEW g \in Groups, OperationDone(m, g)
        PROVE  UNCHANGED faults \/ Fault
    BY <2>4 DEF OperationDone
  <2>5. ASSUME NEW m \in Members, Disconnect(m) \/ Crash(m)
        PROVE  Fault
    BY <2>5 DEF Disconnect, Crash
  <2>6. QED BY <2>1, <2>2, <2>3, <2>4, <2>5, FaultWriters
<1>4. promised' \in [Members -> SUBSET Groups] /\ clobbered' \subseteq Members
  <2>1. ASSUME NEW m \in Members, CallQueues(m)
        PROVE  promised' \in [Members -> SUBSET Groups] /\ clobbered' \subseteq Members
    <3>1. call[m]["user"].entry.group \in Groups
      BY <2>1, CallShape DEF CallQueues, At, Callers, Entries
    <3>2. QED BY <2>1, <3>1 DEF CallQueues, WriteQueue, Types
  <2>2. ASSUME NEW m \in Members, NEW c \in Callers, CallUnqueues(m, c)
        PROVE  promised' = promised /\ clobbered' \subseteq Members
    BY <2>2 DEF CallUnqueues, WriteQueue, Types
  <2>3. CASE UNCHANGED <<queue, promised, clobbered>>
    BY <2>3 DEF Types
  <2>4. QED BY <2>1, <2>2, <2>3, QueueWriters DEF Types
<1>5. QED BY <1>1, <1>2, <1>3, <1>4

\* Every step keeps the types.
LEMMA TypesHold ==
  ASSUME Types, [Next]_vars
  PROVE  Types'
BY CallTypes, QueueTypes, TaskTypes, StorageTypes, CloudTypes, HistoryTypes DEF Types

-----------------------------------------------------------------------------
(* What lasts.                                                             *)

\* A save leaves its group a record, and keeps the other ones.
LEMMA SaveRecords ==
  ASSUME Types, NEW m \in Members, NEW c \in Callers, CallSaves(m, c)
  PROVE  /\ operation' = operation
         /\ call[m][c].entry.group \in Groups
         /\ record'[m][call[m][c].entry.group] # NoRecord
         /\ \A o \in Members : \A g \in Groups :
              record[o][g] # NoRecord => record'[o][g] = record[o][g]
         /\ \A o \in Members : \A g \in Groups :
              record'[o][g] # NoRecord =>
                record[o][g] # NoRecord \/ (o = m /\ g = call[m][c].entry.group)
<1> DEFINE x == call[m][c].entry.group
<1>1. x \in Groups
  BY CallShape DEF CallSaves, At, Entries
<1>2. /\ operation' = operation
      /\ record' = IF x \in Recorded(m) THEN record ELSE [record EXCEPT ![m][x] = "pending"]
  BY DEF CallSaves
<1> HIDE DEF x
<1>3. record'[m][x] # NoRecord
  BY <1>1, <1>2 DEF Recorded, Types, NoRecord
<1>4. ASSUME NEW o \in Members, NEW g \in Groups
      PROVE  /\ record[o][g] # NoRecord => record'[o][g] = record[o][g]
             /\ record'[o][g] # NoRecord => record[o][g] # NoRecord \/ (o = m /\ g = x)
  BY <1>1, <1>2 DEF Recorded, Types
<1>5. QED BY <1>1, <1>2, <1>3, <1>4 DEF x

\* A saved operation is of the call's group.
LEMMA SaveOperations ==
  ASSUME Types, NEW m \in Members, NEW c \in Callers, CallSavesOperation(m, c)
  PROVE  /\ record' = record
         /\ call[m][c].entry.group \in Groups
         /\ operation'[m] = operation[m] \union {call[m][c].entry.group}
         /\ \A o \in Members : o # m => operation'[o] = operation[o]
<1>1. call[m][c].entry.group \in Groups
  BY CallShape DEF CallSavesOperation, At, Entries
<1>2. QED BY <1>1 DEF CallSavesOperation, Types

\* An operation that is done leaves its group's record complete.
LEMMA DoneRecords ==
  ASSUME Types, RecordsFollow, NEW m \in Members, NEW g \in Groups, OperationDone(m, g)
  PROVE  /\ g \in Recorded(m) /\ record'[m][g] = "complete"
         /\ \A o \in Members : \A h \in Groups :
              ~(o = m /\ h = g) => record'[o][h] = record[o][h]
         /\ \A o \in Members : operation'[o] \subseteq operation[o]
         /\ \A o \in Members : \A h \in Groups :
              ~(o = m /\ h = g) /\ h \in operation[o] => h \in operation'[o]
<1>1. g \in operation[m] /\ g \in Recorded(m)
  BY DEF OperationDone, RecordsFollow
<1>2. /\ record' = [record EXCEPT ![m][g] = "complete"]
      /\ operation' = [operation EXCEPT ![m] = @ \ {g}] \/ UNCHANGED operation
  BY <1>1 DEF OperationDone
<1>3. QED BY <1>1, <1>2 DEF Types

\* Nothing that was promised, incepted, recorded or tracked is undone.
LEMMA Lasting ==
  ASSUME Types, RecordsFollow, [Next]_vars, NEW m \in Members
  PROVE  /\ promised[m] \subseteq promised'[m]
         /\ keria[m] \subseteq keria'[m]
         /\ \A g \in Groups : record[m][g] # NoRecord => record'[m][g] # NoRecord
         /\ \A g \in Groups : Tracked(m, g) => Tracked(m, g)'
         /\ m \in clobbered => m \in clobbered'
         /\ m \in Disputed => m \in Disputed'
<1>1. promised[m] \subseteq promised'[m] /\ (m \in clobbered => m \in clobbered')
  BY QueueWriters DEF CallQueues, CallUnqueues, WriteQueue, Types
<1>2. keria[m] \subseteq keria'[m]
  <2>1. ASSUME NEW o \in Members, NEW c \in Callers, CallIncepts(o, c)
        PROVE  keria[m] \subseteq keria'[m]
    <3>1. \/ keria' = keria
          \/ keria' = [keria EXCEPT ![o] = @ \union {call[o][c].entry.group}]
      BY <2>1 DEF CallIncepts
    <3>2. QED BY <3>1 DEF Types
  <2>2. QED BY <2>1, KeriaWriters
<1>3. ASSUME NEW g \in Groups
      PROVE  /\ record[m][g] # NoRecord => record'[m][g] # NoRecord
             /\ Tracked(m, g) => Tracked(m, g)'
  <2>1. CASE UNCHANGED <<record, operation>>
    BY <2>1 DEF Tracked
  <2>2. ASSUME NEW o \in Members, NEW c \in Callers, CallSaves(o, c)
        PROVE  /\ record[m][g] # NoRecord => record'[m][g] # NoRecord
               /\ Tracked(m, g) => Tracked(m, g)'
    BY <2>2, SaveRecords DEF Tracked, NoRecord
  <2>3. ASSUME NEW o \in Members, NEW c \in Callers, CallSavesOperation(o, c)
        PROVE  /\ record[m][g] # NoRecord => record'[m][g] # NoRecord
               /\ Tracked(m, g) => Tracked(m, g)'
    BY <2>3, SaveOperations DEF Tracked
  <2>4. ASSUME NEW o \in Members, NEW h \in Groups, OperationDone(o, h)
        PROVE  /\ record[m][g] # NoRecord => record'[m][g] # NoRecord
               /\ Tracked(m, g) => Tracked(m, g)'
    BY <2>4, DoneRecords DEF Tracked, NoRecord
  <2>5. QED BY <2>1, <2>2, <2>3, <2>4, RecordWriters
<1>4. m \in Disputed => m \in Disputed'
  BY <1>1 DEF Disputed
<1>5. QED BY <1>1, <1>2, <1>3, <1>4

-----------------------------------------------------------------------------
(* Each part of the invariant is kept.                                     *)

\* KERIA ignores the inception of another group of a name that it has.
LEMMA OneOfANameHolds ==
  ASSUME Types, OneOfAName, [Next]_vars
  PROVE  OneOfAName'
<1>1. ASSUME NEW m \in Members, NEW c \in Callers, CallIncepts(m, c)
      PROVE  OneOfAName'
  <2> DEFINE x == call[m][c].entry.group
  <2>1. keria' = IF \E h \in keria[m] : h.name = x.name THEN keria
                 ELSE [keria EXCEPT ![m] = @ \union {x}]
    BY <1>1 DEF CallIncepts
  <2> HIDE DEF x
  <2>2. CASE \E h \in keria[m] : h.name = x.name
    BY <2>1, <2>2 DEF OneOfAName
  <2>3. CASE ~\E h \in keria[m] : h.name = x.name
    <3>1. keria'[m] = keria[m] \union {x} /\ \A o \in Members : o # m => keria'[o] = keria[o]
      BY <2>1, <2>3 DEF Types
    <3>2. QED BY <2>3, <3>1 DEF OneOfAName
  <2>4. QED BY <2>2, <2>3
<1>2. CASE UNCHANGED keria
  BY <1>2 DEF OneOfAName
<1>3. QED BY <1>1, <1>2, KeriaWriters

\* A record is saved of a group that was read from KERIA, and an operation
\* of a group that has a record.
LEMMA RecordsFollowHolds ==
  ASSUME Types, RecordsFollow, CallsKnow, [Next]_vars
  PROVE  RecordsFollow'
<1> SUFFICES ASSUME NEW o \in Members
             PROVE  /\ \A g \in operation'[o] : record'[o][g] # NoRecord
                    /\ \A g \in Groups : record'[o][g] # NoRecord => g \in keria'[o]
  <2>1. operation' \in [Members -> SUBSET Groups]
    BY StorageTypes
  <2>2. QED BY <2>1 DEF RecordsFollow, Recorded
<1>1. /\ \A g \in Groups : record[o][g] # NoRecord => record'[o][g] # NoRecord
      /\ keria[o] \subseteq keria'[o]
  BY Lasting
<1>2. /\ \A g \in operation[o] : g \in Groups /\ record[o][g] # NoRecord
      /\ \A g \in Groups : record[o][g] # NoRecord => g \in keria[o]
  BY DEF RecordsFollow, Recorded
<1>3. CASE UNCHANGED <<record, operation>>
  BY <1>1, <1>2, <1>3
<1>4. ASSUME NEW m \in Members, NEW c \in Callers, CallSaves(m, c)
      PROVE  /\ \A g \in operation'[o] : record'[o][g] # NoRecord
             /\ \A g \in Groups : record'[o][g] # NoRecord => g \in keria'[o]
  <2>1. call[m][c].entry.group \in keria[m]
    BY <1>4 DEF CallSaves, At, CallsKnow
  <2>2. \A g \in Groups : record'[o][g] # NoRecord =>
          record[o][g] # NoRecord \/ (o = m /\ g = call[m][c].entry.group)
    BY <1>4, SaveRecords
  <2>3. operation' = operation
    BY <1>4, SaveRecords
  <2>4. QED BY <1>1, <1>2, <2>1, <2>2, <2>3
<1>5. ASSUME NEW m \in Members, NEW c \in Callers, CallSavesOperation(m, c)
      PROVE  /\ \A g \in operation'[o] : record'[o][g] # NoRecord
             /\ \A g \in Groups : record'[o][g] # NoRecord => g \in keria'[o]
  <2>1. record[m][call[m][c].entry.group] # NoRecord
    BY <1>5 DEF CallSavesOperation, At, CallsKnow, Recorded
  <2>2. record' = record
    BY <1>5, SaveOperations
  <2>3. \A g \in operation'[o] :
          g \in operation[o] \/ (o = m /\ g = call[m][c].entry.group)
    BY <1>5, SaveOperations
  <2>4. QED BY <1>1, <1>2, <2>1, <2>2, <2>3
<1>6. ASSUME NEW m \in Members, NEW h \in Groups, OperationDone(m, h)
      PROVE  /\ \A g \in operation'[o] : record'[o][g] # NoRecord
             /\ \A g \in Groups : record'[o][g] # NoRecord => g \in keria'[o]
  <2>1. h \in Recorded(m) /\ operation'[o] \subseteq operation[o]
    BY <1>6, DoneRecords
  <2>2. \A g \in Groups : record'[o][g] # NoRecord =>
          record[o][g] # NoRecord \/ (o = m /\ g = h)
    BY <1>6, DoneRecords
  <2>3. \A g \in Groups : record'[o][g] # NoRecord => record[o][g] # NoRecord
    BY <2>1, <2>2 DEF Recorded
  <2>4. QED BY <1>1, <1>2, <2>1, <2>3
<1>7. QED BY <1>3, <1>4, <1>5, <1>6, RecordWriters

\* What a call relies on stays true while it waits, and its next step
\* establishes what the one after that relies on.
LEMMA CallsKnowHolds ==
  ASSUME Types, RecordsFollow, CallsKnow, [Next]_vars
  PROVE  CallsKnow'
<1> DEFINE Knows(o, r) ==
             /\ r.step = "save" => r.entry.group \in keria[o]
             /\ r.step \in {"operation", "unqueue"} => record[o][r.entry.group] # NoRecord
             /\ r.step = "unqueue" => Tracked(o, r.entry.group)
           KnowsNext(o, r) ==
             /\ r.step = "save" => r.entry.group \in keria'[o]
             /\ r.step \in {"operation", "unqueue"} => record'[o][r.entry.group] # NoRecord
             /\ r.step = "unqueue" => \/ r.entry.group \in operation'[o]
                                      \/ record'[o][r.entry.group] = "complete"
<1>0. call' \in [Members -> [Callers -> CallRecords]]
  BY CallTypes
<1>1. SUFFICES ASSUME NEW o \in Members, NEW d \in Callers
               PROVE  KnowsNext(o, call'[o][d])
  <2>1. ASSUME NEW o \in Members, NEW d \in Callers
        PROVE  call'[o][d].step \in {"operation", "unqueue"} =>
                 call'[o][d].entry.group \in Groups
    BY <1>0 DEF CallRecords, Idle, Entries
  <2>2. QED BY <1>1, <2>1 DEF CallsKnow, Recorded, Tracked
<1>2. /\ \A g \in keria[o] : g \in keria'[o]
      /\ \A g \in Groups : record[o][g] # NoRecord => record'[o][g] # NoRecord
      /\ \A g \in Groups : Tracked(o, g) => (g \in operation'[o] \/ record'[o][g] = "complete")
  BY Lasting DEF Tracked
<1>3. ASSUME NEW r \in CallRecords, Knows(o, r)
      PROVE  KnowsNext(o, r)
  <2>1. r.step \in {"operation", "unqueue"} => r.entry.group \in Groups
    BY DEF CallRecords, Idle, Entries
  <2>2. QED BY <1>2, <1>3, <2>1
<1>4. call[o][d] \in CallRecords /\ Knows(o, call[o][d])
  BY CallShape DEF CallsKnow, Recorded
<1>5. CASE call'[o][d] = call[o][d]
  BY <1>3, <1>4, <1>5
<1>6. CASE call'[o][d] = Idle
  BY <1>6 DEF Idle
<1>7. ASSUME Calls(o, d)
      PROVE  KnowsNext(o, call'[o][d])
  <2>1. PICK r \in CallRecords : call' = [call EXCEPT ![o][d] = r] /\ Advances(o, d, r)
    BY <1>7 DEF Calls
  <2>2. call'[o][d] = r
    BY <2>1, CallWritten
  <2>3. CASE r.step \notin {"save", "operation", "unqueue"}
    BY <2>2, <2>3
  <2>4. CASE r.step = "save"
    <3>1. r.entry.group \in keria[o]
      BY <2>1, <2>4 DEF Advances, Idle
    <3>2. QED BY <1>2, <2>2, <2>4, <3>1
  <2>5. CASE r.step = "operation"
    <3>1. CallSaves(o, d) /\ r.entry = call[o][d].entry
      BY <2>1, <2>5 DEF Advances, Idle
    <3>2. QED BY <2>2, <2>5, <3>1, SaveRecords
  <2>6. CASE r.step = "unqueue"
    <3>1. CallSavesOperation(o, d) /\ r.entry = call[o][d].entry
      BY <2>1, <2>6 DEF Advances, Idle
    <3>2. call[o][d].step = "operation"
      BY <3>1 DEF CallSavesOperation, At
    <3>3. record'[o][r.entry.group] # NoRecord /\ r.entry.group \in operation'[o]
      BY <1>4, <3>1, <3>2, SaveOperations
    <3>4. QED BY <2>2, <2>6, <3>3
  <2>7. QED BY <2>2, <2>3, <2>4, <2>5, <2>6
<1>8. ASSUME NEW m \in Members, NEW c \in Callers, Calls(m, c), ~(o = m /\ d = c)
      PROVE  call'[o][d] = call[o][d]
  BY <1>8, CallWritten DEF Calls
<1>9. ASSUME NEW m \in Members, Crash(m)
      PROVE  call'[o][d] = call[o][d] \/ call'[o][d] = Idle
  BY <1>9 DEF Crash, Types
<1> HIDE DEF KnowsNext
<1>10. QED BY <1>5, <1>6, <1>7, <1>8, <1>9, CallWriters

\* What is in the queue was promised: a call writes what it read there, and
\* its own entry once that is promised.
LEMMA QueuePromised ==
  ASSUME Types, RecordsFollow, OnlyPromised, [Next]_vars, NEW o \in Members,
         NEW j \in DOMAIN queue'[o]
  PROVE  queue'[o][j].group \in promised'[o]
<1>1. \A i \in DOMAIN queue[o] : queue[o][i].group \in promised'[o]
  BY Lasting DEF OnlyPromised, AllPromised
<1>2. CASE queue'[o] = queue[o]
  BY <1>1, <1>2
<1>3. CASE CallQueues(o)
  <2> DEFINE u == call[o]["user"]
  <2>1. /\ u.step = "write" /\ u.read \in Seq(Entries) /\ u.entry \in Entries
        /\ \A i \in DOMAIN u.read : u.read[i].group \in promised[o]
    BY <1>3, CallShape DEF CallQueues, At, Callers, OnlyPromised, AllPromised
  <2>2. /\ queue'[o] = Append(u.read, u.entry)
        /\ promised'[o] = promised[o] \union {u.entry.group}
    BY <1>3 DEF CallQueues, WriteQueue, Types
  <2> HIDE DEF u
  <2>3. j \in DOMAIN u.read \/ queue'[o][j] = u.entry
    BY <2>1, <2>2, WithEntry
  <2>4. j \in DOMAIN u.read => queue'[o][j] = u.read[j]
    BY <2>1, <2>2, WithEntry
  <2>5. QED BY <2>1, <2>2, <2>3, <2>4
<1>4. ASSUME NEW c \in Callers, CallUnqueues(o, c)
      PROVE  queue'[o][j].group \in promised'[o]
  <2> DEFINE u == call[o][c]
  <2>1. /\ u.step = "unqueue" /\ u.read \in Seq(Entries)
        /\ \A i \in DOMAIN u.read : u.read[i].group \in promised[o]
    BY <1>4, CallShape DEF CallUnqueues, At, OnlyPromised, AllPromised
  <2>2. queue'[o] = Without(u.read, u.entry.group.name) /\ promised'[o] = promised[o]
    BY <1>4 DEF CallUnqueues, WriteQueue, Types
  <2> HIDE DEF u
  <2>3. \E i \in DOMAIN u.read : queue'[o][j] = u.read[i]
    BY <2>1, <2>2, WithoutFirst
  <2>4. QED BY <2>1, <2>2, <2>3
<1>5. ASSUME NEW m \in Members, m # o,
             CallQueues(m) \/ \E c \in Callers : CallUnqueues(m, c)
      PROVE  queue'[o] = queue[o]
  BY <1>5 DEF CallQueues, CallUnqueues, WriteQueue, Types
<1>6. QED BY <1>2, <1>3, <1>4, <1>5, QueueWriters

\* What a call is for, and what it read of the queue, was promised.
LEMMA CallPromised ==
  ASSUME Types, RecordsFollow, OnlyPromised, [Next]_vars, NEW o \in Members, NEW d \in Callers
  PROVE  /\ call'[o][d].step \in {"write", "unqueue"} =>
              \A i \in DOMAIN call'[o][d].read : call'[o][d].read[i].group \in promised'[o]
         /\ call'[o][d].step \in {"incept", "send", "save", "operation", "unqueue"} =>
              call'[o][d].entry.group \in promised'[o]
<1> DEFINE Good(r) ==
             /\ r.step \in {"write", "unqueue"} =>
                  \A i \in DOMAIN r.read : r.read[i].group \in promised'[o]
             /\ r.step \in {"incept", "send", "save", "operation", "unqueue"} =>
                  r.entry.group \in promised'[o]
<1> SUFFICES Good(call'[o][d])
  OBVIOUS
<1>1. /\ \A g \in promised[o] : g \in promised'[o]
      /\ \A i \in DOMAIN queue[o] : queue[o][i].group \in promised[o]
  BY Lasting DEF OnlyPromised, AllPromised
<1>2. CASE call'[o][d] = call[o][d]
  BY <1>1, <1>2 DEF OnlyPromised, AllPromised
<1>3. CASE call'[o][d] = Idle
  BY <1>3 DEF Idle
<1>4. ASSUME Calls(o, d)
      PROVE  Good(call'[o][d])
  <2>1. PICK r \in CallRecords : call' = [call EXCEPT ![o][d] = r] /\ Advances(o, d, r)
    BY <1>4 DEF Calls
  <2>2. call'[o][d] = r
    BY <2>1, CallWritten
  <2> SUFFICES Good(r)
    BY <2>2
  <2>3. CASE r = Idle
    BY <2>3 DEF Idle
  <2>4. CASE r.step = "write" /\ r.read = queue[o]
    BY <1>1, <2>4
  <2>5. CASE CallQueues(o) /\ d = "user" /\ r.step = "incept" /\ r.entry = call[o][d].entry
    <3>1. r.entry.group \in promised'[o]
      BY <2>5 DEF CallQueues, Types
    <3>2. QED BY <2>5, <3>1
  <2>6. CASE /\ call[o][d].step \in {"incept", "send", "save", "operation"}
             /\ r.entry = call[o][d].entry
             /\ r.step \in {"send", "save", "operation"} \/ r.read = queue[o]
             /\ r.step # "write"
    <3>1. r.entry.group \in promised[o]
      BY <2>6 DEF OnlyPromised
    <3>2. QED BY <1>1, <2>6, <3>1
  <2>7. CASE r.step = "incept" /\ \E i \in DOMAIN queue[o] : r.entry.group = queue[o][i].group
    BY <1>1, <2>7
  <2> HIDE DEF Good
  <2>8. QED
    BY <2>1, <2>3, <2>4, <2>5, <2>6, <2>7
    DEF Advances, CallIncepts, CallSends, CallSaves, CallSavesOperation, At
<1>5. ASSUME NEW m \in Members, NEW c \in Callers, Calls(m, c), ~(o = m /\ d = c)
      PROVE  call'[o][d] = call[o][d]
  BY <1>5, CallWritten DEF Calls
<1>6. ASSUME NEW m \in Members, Crash(m)
      PROVE  call'[o][d] = call[o][d] \/ call'[o][d] = Idle
  BY <1>6 DEF Crash, Types
<1> HIDE DEF Good
<1>7. QED BY <1>2, <1>3, <1>4, <1>5, <1>6, CallWriters

\* What is queued, read or called for was promised.
LEMMA OnlyPromisedHolds ==
  ASSUME Types, RecordsFollow, OnlyPromised, [Next]_vars
  PROVE  OnlyPromised'
BY QueuePromised, CallPromised DEF OnlyPromised, AllPromised

\* A call takes an entry out of the queue when its group is tracked: an entry
\* of the same name and of another group makes the wallet one of Disputed.
LEMMA QueuedUntilTrackedHolds ==
  ASSUME Types, RecordsFollow, OnlyPromised, CallsKnow, QueuedUntilTracked, [Next]_vars
  PROVE  QueuedUntilTracked'
<1> SUFFICES ASSUME NEW m \in Members, NEW g \in promised'[m],
                    m \notin clobbered', m \notin Disputed', ~Tracked(m, g)'
             PROVE  HasEntry(queue'[m], g)
  BY DEF QueuedUntilTracked, HasEntry
<1>1. g \in Groups /\ m \notin clobbered /\ m \notin Disputed /\ ~Tracked(m, g)
  BY Lasting, HistoryTypes
<1>2. g \in promised[m] => HasEntry(queue[m], g)
  BY <1>1 DEF QueuedUntilTracked, HasEntry
<1>3. CASE queue'[m] = queue[m] /\ promised'[m] = promised[m]
  BY <1>2, <1>3
<1>4. CASE CallQueues(m)
  <2> DEFINE u == call[m]["user"]
  <2>1. u.read \in Seq(Entries) /\ u.entry \in Entries
    BY <1>4, CallShape DEF CallQueues, At, Callers
  <2>2. /\ queue'[m] = Append(u.read, u.entry)
        /\ promised'[m] = promised[m] \union {u.entry.group}
        /\ queue[m] = u.read
    BY <1>4 DEF CallQueues, WriteQueue, Types
  <2> HIDE DEF u
  <2>3. CASE g = u.entry.group
    BY <2>1, <2>2, <2>3, WithEntry DEF HasEntry
  <2>4. CASE g \in promised[m]
    <3>1. PICK i \in DOMAIN queue[m] : queue[m][i].group = g
      BY <1>2, <2>4 DEF HasEntry
    <3>2. i \in DOMAIN queue'[m] /\ queue'[m][i] = queue[m][i]
      BY <2>1, <2>2, <3>1, WithEntry
    <3>3. QED BY <3>1, <3>2 DEF HasEntry
  <2>5. QED BY <2>2, <2>3, <2>4
<1>5. ASSUME NEW c \in Callers, CallUnqueues(m, c)
      PROVE  HasEntry(queue'[m], g)
  <2> DEFINE u == call[m][c]
  <2>1. /\ u.read \in Seq(Entries) /\ u.entry.group \in promised[m]
        /\ Tracked(m, u.entry.group)
    BY <1>5, CallShape DEF CallUnqueues, At, OnlyPromised, CallsKnow
  <2>2. /\ queue'[m] = Without(u.read, u.entry.group.name)
        /\ promised'[m] = promised[m]
        /\ queue[m] = u.read
    BY <1>5 DEF CallUnqueues, WriteQueue, Types
  <2> HIDE DEF u
  <2>3. PICK i \in DOMAIN queue[m] : queue[m][i].group = g
    BY <1>2, <2>2 DEF HasEntry
  <2>4. g.name # u.entry.group.name
    <3>1. g # u.entry.group /\ g \in promised[m]
      BY <1>1, <2>1, <2>2
    <3>2. QED BY <1>1, <2>1, <3>1 DEF Disputed
  <2>5. \E j \in DOMAIN queue'[m] : queue'[m][j] = queue[m][i]
    BY <2>1, <2>2, <2>3, <2>4, WithoutFirst
  <2>6. QED BY <2>3, <2>5 DEF HasEntry
<1>6. ASSUME NEW o \in Members, m # o,
             CallQueues(o) \/ \E c \in Callers : CallUnqueues(o, c)
      PROVE  queue'[m] = queue[m] /\ promised'[m] = promised[m]
  BY <1>6 DEF CallQueues, CallUnqueues, WriteQueue, Types
<1>7. QED BY <1>3, <1>4, <1>5, <1>6, QueueWriters

-----------------------------------------------------------------------------
(* The theorems.                                                           *)

\* The invariant holds at the start.
LEMMA InitHolds == Init => IInv
<1> SUFFICES ASSUME Init
             PROVE  IInv
  OBVIOUS
<1>1. Types
  <2>1. << >> \in Seq(Entries)
    BY EmptySeq
  <2>2. 0 \in 0..MaxAsks /\ 0 \in 0..MaxFaults
    BY MaxAsksAssumption, MaxFaultsAssumption
  <2>3. QED BY <2>1, <2>2 DEF Init, Types, CallRecords
<1>2. \A m \in Members : DOMAIN queue[m] = {}
  <2>1. DOMAIN << >> = {}
    BY EmptySeq, LenProperties
  <2>2. QED BY <2>1 DEF Init
<1>3. OnlyPromised
  BY <1>2 DEF Init, OnlyPromised, AllPromised, Idle
<1>4. OneOfAName /\ RecordsFollow /\ CallsKnow /\ QueuedUntilTracked
  BY DEF Init, OneOfAName, RecordsFollow, Recorded, CallsKnow, QueuedUntilTracked, Idle
<1>5. QED BY <1>1, <1>3, <1>4 DEF IInv

\* Every step keeps the invariant.
LEMMA StepHolds == IInv /\ [Next]_vars => IInv'
BY TypesHold, OnlyPromisedHolds, OneOfANameHolds, RecordsFollowHolds, CallsKnowHolds,
   QueuedUntilTrackedHolds DEF IInv

\* The inductive invariant.
THEOREM Inductive == Spec => []IInv
BY InitHolds, StepHolds, PTL DEF Spec

\* The types; and of what KERIA and the records hold: only a group that KERIA
\* holds is recorded, only a recorded one has an operation, and KERIA has one
\* group of a name, whatever the calls of createGroup, joinGroup and
\* processGroupsPendingCreation interleave to.
THEOREM TypeCorrect == Spec => []TypeOK
<1>1. ASSUME IInv
      PROVE  TypeOK
  <2>1. Types /\ OneOfAName /\ RecordsFollow
    BY <1>1 DEF IInv
  <2>2. ASSUME NEW m \in Members
        PROVE  /\ \A i \in DOMAIN queue[m] : queue[m][i] \in Entries
               /\ \A i \in DOMAIN tasks[m] : tasks[m][i] \in Entries
    BY <2>1, ElementOfSeq, LenProperties DEF Types
  <2>3. ASSUME NEW m \in Members, NEW c \in Running(m)
        PROVE  /\ call[m][c].step \in {"write", "incept", "send", "save", "operation",
                                       "unqueue"}
               /\ call[m][c].entry \in Entries
    BY <2>1, CallShape DEF Running
  <2>4. QED BY <2>1, <2>2, <2>3 DEF TypeOK, Types, OneOfAName, RecordsFollow
<1>2. QED BY <1>1, Inductive, PTL

\* A group that a wallet queued stays in the queue until its record and its
\* operation are saved: no crash, failed call or later call between the steps
\* of createGroup and joinGroup loses it, but for two overlapping uses of the
\* queue or two groups of one name.
THEOREM QueuedAreTracked == Spec => []QueuedUntilTracked
<1>1. IInv => QueuedUntilTracked
  BY DEF IInv
<1>2. QED BY <1>1, Inductive, PTL
=============================================================================
