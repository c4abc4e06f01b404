------------------------ MODULE AgentConnection_proofs ------------------------
(***************************************************************************)
(* Proofs about AgentConnection, for every set of pollers and calls and    *)
(* every number of faults.                                                 *)
(*                                                                         *)
(* Two arguments.  The status of a recovery is saved before the URLs, and  *)
(* cleared only when every part has been counted past (RecoveryRecorded).  *)
(* And whatever marks the agent online was either started by an agent that *)
(* was online already, or is the flow's own connect, which asks for it only*)
(* once it has repeated itself (OnlineHasACause).                          *)
(***************************************************************************)
EXTENDS AgentConnection, TLAPS

\* What the flow has stored by the time it is at each of its steps.
RecoveryRecorded ==
  /\ flow.at = "url" => recovery = "syncing"
  /\ flow.at = "sync" => copied >= flow.part - 1
  /\ RecoveryIsResumed

\* Everyone who may mark the agent online has a reason to.
OnlineHasACause ==
  /\ OnlineOnceLoaded
  /\ running # {} => loaded \/ repeated
  /\ \A o \in Owners \ {"flow"} : loop[o] # NoLoop => loaded \/ repeated
  /\ loop["flow"] # NoLoop => repeated \/ ~loop["flow"].update

IInv ==
  /\ TypeOK
  /\ RecoveryRecorded
  /\ OnlineHasACause

-----------------------------------------------------------------------------
\* The flow is a caller of connect, apart from the pollers and the calls.
LEMMA FlowIsAnOwner ==
  /\ "flow" \in Owners
  /\ Pollers \subseteq Owners \ {"flow"}
  /\ Calls \subseteq Owners \ {"flow"}
BY OwnersAssumption DEF Owners

\* The flow waits for its connect exactly when that connect is under way.
FlowWaits == loop["flow"] # NoLoop <=> flow.at = "connect"

\* The flow moves on from a step other than its connect to another such step.
LEMMA FlowMoves ==
  ASSUME TypeOK, NEW step \in FlowPoints, NEW part \in 1..Parts + 1,
         step # "connect", flow.at # "connect",
         flow' = [at |-> step, part |-> part], UNCHANGED loop
  PROVE  flow' \in Flows /\ FlowWaits'
<1>1. flow' \in Flows
  BY DEF Flows
<1>2. flow'.at = step
  OBVIOUS
<1>3. QED BY <1>1, <1>2 DEF TypeOK, FlowWaits

\* Whoever begins to connect has a loop afterwards, and the others as before.
LEMMA ConnectBegins ==
  ASSUME TypeOK, NEW o \in Owners, NEW update \in BOOLEAN, Connect(o, update)
  PROVE  /\ online' = FALSE
         /\ loop' \in [Owners -> Loops]
         /\ loop'[o].at = "call" /\ loop'[o].update = update
         /\ \A r \in Owners \ {o} : loop'[r] = loop[r]
<1>1. [at |-> "call", update |-> update] \in Loops
  BY DEF Loops
<1>2. QED BY <1>1 DEF TypeOK, Connect

\* A connect of the flow that begins anew.
LEMMA FlowReconnectsType ==
  ASSUME TypeOK, FlowReconnects
  PROVE  flow' \in Flows /\ loop' \in [Owners -> Loops] /\ online' = FALSE /\ FlowWaits'
<1>1. flow' = [at |-> "connect", part |-> 1]
  BY DEF FlowReconnects, FlowGoes
<1>2. flow' \in Flows /\ flow'.at = "connect"
  BY <1>1 DEF Flows, FlowPoints, Parts
<1>3. /\ online' = FALSE
      /\ loop' \in [Owners -> Loops]
      /\ loop'["flow"].at = "call"
  BY FlowIsAnOwner, ConnectBegins DEF FlowReconnects
<1>4. loop'["flow"] # NoLoop
  BY <1>3 DEF NoLoop
<1>5. QED BY <1>2, <1>3, <1>4 DEF FlowWaits

\* Type correctness is inductive by itself.
LEMMA TypeStep == TypeOK /\ [Next]_vars => TypeOK'
<1> SUFFICES ASSUME TypeOK, [Next]_vars
             PROVE  TypeOK'
  OBVIOUS
<1> DEFINE Plain == /\ network \in BOOLEAN /\ url \in BOOLEAN
                    /\ recovery \in {"none", "syncing", "synced"}
                    /\ copied \in 0..Parts
                    /\ online \in BOOLEAN /\ loaded \in BOOLEAN
                    /\ running \subseteq Calls
                    /\ faults \in 0..MaxFaults
                    /\ repeated \in BOOLEAN
<1>a. Plain /\ flow \in Flows /\ loop \in [Owners -> Loops] /\ FlowWaits
  BY DEF TypeOK, FlowWaits
<1>b. Plain' /\ flow' \in Flows /\ loop' \in [Owners -> Loops] /\ FlowWaits' => TypeOK'
  BY DEF TypeOK, FlowWaits
<1>c. Fault \/ UNCHANGED faults => faults' \in 0..MaxFaults
  BY <1>a, MaxFaultsAssumption DEF Fault
<1>1. ASSUME NEW o \in Owners, ConnectSucceeds(o)
      PROVE  TypeOK'
  <2>1. Plain'
    BY <1>a, <1>1 DEF ConnectSucceeds, storage, Loops
  <2>2. /\ loop' \in [Owners -> Loops]
        /\ loop'[o] = NoLoop /\ loop[o] # NoLoop
        /\ \A r \in Owners \ {o} : loop'[r] = loop[r]
    BY <1>a, <1>1 DEF ConnectSucceeds, NoLoop, Loops
  <2>3. CASE o = "flow"
    <3>1. flow' \in Flows /\ flow'.at # "connect"
      BY <1>a, <1>1, <2>3 DEF ConnectSucceeds, FlowGoesOn, Flows, FlowPoints
    <3>2. QED BY <1>b, <2>1, <2>2, <2>3, <3>1 DEF FlowWaits
  <2>4. CASE o # "flow"
    <3>1. loop'["flow"] = loop["flow"] /\ UNCHANGED flow
      BY <1>1, <2>2, <2>4, FlowIsAnOwner DEF ConnectSucceeds, FlowGoesOn
    <3>2. QED BY <1>a, <1>b, <2>1, <2>2, <3>1 DEF FlowWaits
  <2>5. QED BY <2>3, <2>4
<1>2. ASSUME NEW o \in Owners, ConnectFails(o) \/ ConnectAgain(o)
      PROVE  TypeOK'
  <2>1. Plain' /\ UNCHANGED flow
    BY <1>a, <1>2 DEF ConnectFails, ConnectAgain, Connect, storage
  <2>2. loop[o].at # "none"
    BY <1>2 DEF ConnectFails, ConnectAgain
  <2>3. /\ loop' \in [Owners -> Loops]
        /\ loop'[o].at # "none"
        /\ \A r \in Owners \ {o} : loop'[r] = loop[r]
    <3>1. CASE ConnectFails(o)
      BY <1>a, <3>1 DEF ConnectFails, Loops
    <3>2. CASE ConnectAgain(o)
      BY <3>2, ConnectBegins DEF ConnectAgain
    <3>3. QED BY <1>2, <3>1, <3>2
  <2>4. loop[o] # NoLoop /\ loop'[o] # NoLoop
    BY <2>2, <2>3 DEF NoLoop
  <2>5. FlowWaits'
    <3>1. CASE o = "flow"
      BY <1>a, <2>1, <2>4, <3>1 DEF FlowWaits
    <3>2. CASE o # "flow"
      BY <1>a, <2>1, <2>3, <3>2, FlowIsAnOwner DEF FlowWaits
    <3>3. QED BY <3>1, <3>2
  <2>6. QED BY <1>a, <1>b, <2>1, <2>3, <2>5
<1>3. ASSUME NEW o \in Pollers \union Calls, PollerReconnects(o) \/ CallReconnects(o)
      PROVE  TypeOK'
  <2>1. o \in Owners \ {"flow"} /\ Connect(o, TRUE)
    BY <1>3, FlowIsAnOwner DEF PollerReconnects, CallReconnects
  <2>2. Plain' /\ UNCHANGED flow
    BY <1>a, <1>3 DEF PollerReconnects, CallReconnects, Connect, storage
  <2>3. loop' \in [Owners -> Loops] /\ loop'["flow"] = loop["flow"]
    BY <2>1, ConnectBegins, FlowIsAnOwner
  <2>4. QED BY <1>a, <1>b, <2>2, <2>3 DEF FlowWaits
<1>4. ASSUME NEW c \in Calls, CallBegins(c) \/ CallReturns(c)
      PROVE  TypeOK'
  <2>1. Plain' /\ UNCHANGED <<flow, loop>>
    BY <1>a, <1>4 DEF CallBegins, CallReturns, storage, agent
  <2>2. QED BY <1>a, <1>b, <2>1 DEF FlowWaits
<1>5. CASE StartAgent
  <2>1. CASE network /\ FlowGoes("check") /\ UNCHANGED agent
    <3>1. flow' \in Flows /\ FlowWaits'
      <4>1. "check" \in FlowPoints /\ 1 \in 1..Parts + 1
        BY DEF FlowPoints, Parts
      <4>2. flow.at # "connect"
        BY <1>5 DEF StartAgent, FlowIdle
      <4>3. QED BY <2>1, <4>1, <4>2, FlowMoves DEF FlowGoes, agent
    <3>2. Plain' /\ UNCHANGED loop
      BY <1>a, <1>5, <2>1 DEF StartAgent, storage, agent
    <3>3. QED BY <1>a, <1>b, <3>1, <3>2
  <2>2. CASE FlowReconnects
    <3>1. Plain'
      BY <1>a, <1>5, <2>2, FlowReconnectsType DEF StartAgent, storage
    <3>2. QED BY <1>b, <2>2, <3>1, FlowReconnectsType
  <2>3. QED BY <1>5, <2>1, <2>2 DEF StartAgent
<1>6. CASE RecoverKeriaAgent \/ SaveRecoveryStatus \/ SaveAgentUrls \/ CheckRecovery
           \/ SyncEnds \/ SyncThrows \/ LoadDb
  <2>1. PICK step \in FlowPoints \ {"connect"} : FlowGoes(step)
    BY <1>6 DEF RecoverKeriaAgent, SaveRecoveryStatus, SaveAgentUrls, CheckRecovery,
      SyncEnds, SyncThrows, LoadDb, FlowPoints
  <2>2. flow.at # "connect" /\ UNCHANGED loop
    BY <1>6 DEF RecoverKeriaAgent, SaveRecoveryStatus, SaveAgentUrls, CheckRecovery,
      SyncEnds, SyncThrows, LoadDb, FlowIdle, agent
  <2>3. flow' \in Flows /\ FlowWaits'
    <3>1. 1 \in 1..Parts + 1
      BY DEF Parts
    <3>2. QED BY <2>1, <2>2, <3>1, FlowMoves DEF FlowGoes
  <2>4. Plain'
    BY <1>a, <1>c, <1>6
    DEF RecoverKeriaAgent, SaveRecoveryStatus, SaveAgentUrls, CheckRecovery, SyncEnds,
        SyncThrows, LoadDb, storage, agent
  <2>5. QED BY <1>a, <1>b, <2>2, <2>3, <2>4
<1>7. CASE SyncPart
  <2>1. flow.part \in 1..Parts /\ flow.part + 1 \in 1..Parts + 1
    BY <1>a, <1>7 DEF SyncPart, Flows, Parts
  <2>2. flow' = [at |-> "sync", part |-> flow.part + 1]
    BY <1>a, <1>7 DEF SyncPart, Flows
  <2>3. flow' \in Flows /\ FlowWaits'
    <3>1. "sync" \in FlowPoints /\ flow.at # "connect" /\ UNCHANGED loop
      BY <1>7 DEF SyncPart, FlowPoints, agent
    <3>2. QED BY <2>1, <2>2, <3>1, FlowMoves
  <2>4. Plain' /\ UNCHANGED loop
    BY <1>a, <1>7, <2>1 DEF SyncPart, agent, Parts
  <2>5. QED BY <1>a, <1>b, <2>3, <2>4
<1>8. CASE SyncLosesNetwork
  <2>1. Plain'
    BY <1>a, <1>8, FlowReconnectsType DEF SyncLosesNetwork, storage
  <2>2. QED BY <1>b, <1>8, <2>1, FlowReconnectsType DEF SyncLosesNetwork
<1>9. CASE LoseNetwork \/ NetworkReturns \/ UNCHANGED vars
  <2>1. Plain' /\ UNCHANGED <<flow, loop>>
    BY <1>a, <1>c, <1>9 DEF LoseNetwork, NetworkReturns, storage, agent, vars
  <2>2. QED BY <1>a, <1>b, <2>1 DEF FlowWaits
<1>10. CASE Crash
  <2>1. Plain'
    BY <1>a, <1>c, <1>10 DEF Crash, storage
  <2>2. loop' \in [Owners -> Loops] /\ loop'["flow"] = NoLoop
    BY <1>10, FlowIsAnOwner DEF Crash, NoLoop, Loops
  <2>3. flow' \in Flows /\ flow'.at # "connect"
    BY <1>10 DEF Crash, FlowIdle, Flows, FlowPoints, Parts
  <2>4. QED BY <1>b, <2>1, <2>2, <2>3 DEF FlowWaits
<1>11. QED
  BY <1>1, <1>2, <1>3, <1>4, <1>5, <1>6, <1>7, <1>8, <1>9, <1>10
  DEF Next, Reconnect, Flow

\* Only the flow writes what a recovery has stored, and it is a flow at "url"
\* that saves the URLs and one past the last part that clears the status.
LEMMA RecoveryStep == TypeOK /\ RecoveryRecorded /\ [Next]_vars => RecoveryRecorded'
<1> SUFFICES ASSUME TypeOK, RecoveryRecorded, [Next]_vars
             PROVE  RecoveryRecorded'
  OBVIOUS
<1> USE DEF TypeOK, Flows, RecoveryRecorded, RecoveryIsResumed, Parts
<1>1. ASSUME NEW o \in Owners, Reconnect(o)
      PROVE  RecoveryRecorded'
  <2>1. flow' = flow \/ flow'.at = "check"
    BY <1>1 DEF Reconnect, ConnectSucceeds, ConnectFails, ConnectAgain, FlowGoesOn
  <2>2. UNCHANGED storage
    BY <1>1 DEF Reconnect, ConnectSucceeds, ConnectFails, ConnectAgain
  <2>3. QED BY <2>1, <2>2 DEF storage
<1>2. ASSUME NEW o \in Pollers \union Calls,
             \/ PollerReconnects(o)
             \/ CallBegins(o) \/ CallReturns(o) \/ CallReconnects(o)
      PROVE  RecoveryRecorded'
  <2>1. UNCHANGED <<storage, flow>>
    BY <1>2 DEF PollerReconnects, CallBegins, CallReturns, CallReconnects
  <2>2. QED BY <2>1 DEF storage
<1>3. CASE RecoverKeriaAgent \/ StartAgent
  <2>1. UNCHANGED storage
    BY <1>3 DEF RecoverKeriaAgent, StartAgent
  <2>2. FlowGoes("status") \/ FlowGoes("check") \/ FlowGoes("connect")
    BY <1>3 DEF RecoverKeriaAgent, StartAgent, FlowReconnects
  <2>3. flow'.at \notin {"url", "sync"}
    BY <2>2 DEF FlowGoes
  <2>4. QED BY <2>1, <2>3 DEF storage
<1>4. CASE SaveRecoveryStatus
  BY <1>4 DEF SaveRecoveryStatus, FlowGoes
<1>5. CASE SaveAgentUrls
  BY <1>5 DEF SaveAgentUrls, FlowGoes
<1>6. CASE CheckRecovery
  BY <1>6 DEF CheckRecovery, FlowGoes, storage
<1>7. CASE SyncPart
  <2>1. flow'.at = "sync" /\ flow'.part = flow.part + 1
    BY <1>7 DEF SyncPart
  <2>2. copied' >= flow.part /\ copied' >= copied
    BY <1>7 DEF SyncPart
  <2>3. QED BY <1>7, <2>1, <2>2 DEF SyncPart
<1>8. CASE SyncEnds
  <2>1. copied >= Parts
    BY <1>8 DEF SyncEnds
  <2>2. QED BY <1>8, <2>1 DEF SyncEnds, FlowGoes
<1>9. CASE SyncLosesNetwork \/ SyncThrows \/ LoadDb
  <2>1. UNCHANGED storage
    BY <1>9 DEF SyncLosesNetwork, SyncThrows, LoadDb
  <2>2. FlowGoes("connect") \/ FlowGoes("stopped") \/ FlowGoes("done")
    BY <1>9 DEF SyncLosesNetwork, SyncThrows, LoadDb, FlowReconnects
  <2>3. flow'.at \notin {"url", "sync"}
    BY <2>2 DEF FlowGoes
  <2>4. QED BY <2>1, <2>3 DEF storage
<1>10. CASE LoseNetwork \/ NetworkReturns \/ Crash \/ UNCHANGED vars
  BY <1>10 DEF LoseNetwork, NetworkReturns, Crash, FlowIdle, storage, vars
<1>11. QED
  BY <1>1, <1>2, <1>3, <1>4, <1>5, <1>6, <1>7, <1>8, <1>9, <1>10 DEF Next, Flow

\* Pollers and calls reconnect only an agent that was online, and the flow's
\* connect leaves the agent offline unless it repeats itself.
LEMMA OnlineStep == TypeOK /\ OnlineHasACause /\ [Next]_vars => OnlineHasACause'
<1> SUFFICES ASSUME TypeOK, OnlineHasACause, [Next]_vars
             PROVE  OnlineHasACause'
  OBVIOUS
<1> USE FlowIsAnOwner DEF TypeOK, Loops, OnlineHasACause, OnlineOnceLoaded, NoLoop
<1>1. ASSUME NEW o \in Owners, ConnectSucceeds(o)
      PROVE  OnlineHasACause'
  <2>1. online' => loaded \/ repeated
    <3>1. CASE o = "flow"
      BY <1>1, <3>1 DEF ConnectSucceeds
    <3>2. CASE o # "flow"
      BY <1>1, <3>2 DEF ConnectSucceeds
    <3>3. QED BY <3>1, <3>2
  <2>2. \A r \in Owners : loop'[r] # NoLoop => loop'[r] = loop[r]
    BY <1>1 DEF ConnectSucceeds
  <2>3. UNCHANGED <<running, loaded, repeated>>
    BY <1>1 DEF ConnectSucceeds
  <2>4. QED BY <2>1, <2>2, <2>3
<1>2. ASSUME NEW o \in Owners, ConnectFails(o)
      PROVE  OnlineHasACause'
  <2>1. loop[o] # NoLoop /\ loop'[o].update = loop[o].update
    BY <1>2 DEF ConnectFails
  <2>2. \A r \in Owners \ {o} : loop'[r] = loop[r]
    BY <1>2 DEF ConnectFails
  <2>3. UNCHANGED <<online, running, loaded, repeated>>
    BY <1>2 DEF ConnectFails
  <2>4. QED BY <2>1, <2>2, <2>3
<1>3. ASSUME NEW o \in Owners, ConnectAgain(o)
      PROVE  OnlineHasACause'
  <2>1. loop[o] # NoLoop /\ ~online'
    BY <1>3 DEF ConnectAgain, Connect
  <2>2. \A r \in Owners \ {o} : loop'[r] = loop[r]
    BY <1>3 DEF ConnectAgain, Connect
  <2>3. (repeated \/ o = "flow" => repeated') /\ UNCHANGED <<running, loaded>>
    BY <1>3 DEF ConnectAgain
  <2>4. QED BY <2>1, <2>2, <2>3
<1>4. ASSUME NEW o \in Pollers \union Calls, PollerReconnects(o) \/ CallReconnects(o)
      PROVE  OnlineHasACause'
  <2>1. loaded \/ repeated
    BY <1>4 DEF PollerReconnects, CallReconnects
  <2>2. loop'["flow"] = loop["flow"] /\ UNCHANGED <<loaded, repeated>>
    BY <1>4 DEF PollerReconnects, CallReconnects, Connect
  <2>3. QED BY <2>1, <2>2
<1>5. ASSUME NEW c \in Calls, CallBegins(c) \/ CallReturns(c)
      PROVE  OnlineHasACause'
  BY <1>5 DEF CallBegins, CallReturns, agent
<1>6. CASE StartAgent \/ SyncLosesNetwork
  <2>1. CASE UNCHANGED agent
    BY <1>6, <2>1 DEF StartAgent, SyncLosesNetwork, agent
  <2>2. CASE FlowReconnects
    <3>1. ~online' /\ ~loop'["flow"].update
      BY <2>2 DEF FlowReconnects, Connect
    <3>2. \A r \in Owners \ {"flow"} : loop'[r] = loop[r]
      BY <2>2 DEF FlowReconnects, Connect
    <3>3. UNCHANGED <<loaded, running, repeated>>
      BY <1>6 DEF StartAgent, SyncLosesNetwork
    <3>4. QED BY <3>1, <3>2, <3>3
  <2>3. QED BY <1>6, <2>1, <2>2 DEF StartAgent, SyncLosesNetwork
<1>7. CASE RecoverKeriaAgent \/ SaveRecoveryStatus \/ SaveAgentUrls \/ CheckRecovery
           \/ SyncPart \/ SyncEnds \/ SyncThrows \/ LoseNetwork \/ NetworkReturns
           \/ UNCHANGED vars
  <2>1. UNCHANGED <<agent, loaded, running, repeated>>
    BY <1>7 DEF RecoverKeriaAgent, SaveRecoveryStatus, SaveAgentUrls, CheckRecovery,
      SyncPart, SyncEnds, SyncThrows, LoseNetwork, NetworkReturns, vars
  <2>2. QED BY <2>1 DEF agent
<1>8. CASE LoadDb
  BY <1>8 DEF LoadDb
<1>9. CASE Crash
  BY <1>9 DEF Crash
<1>10. QED
  BY <1>1, <1>2, <1>3, <1>4, <1>5, <1>6, <1>7, <1>8, <1>9 DEF Next, Reconnect, Flow

\* The invariant holds at the start and is kept by every step.
THEOREM Inductive == Spec => []IInv
<1>1. ASSUME Init
      PROVE  IInv
  <2>1. loop \in [Owners -> Loops] /\ loop["flow"] = NoLoop
    BY <1>1, FlowIsAnOwner DEF Init, Loops, NoLoop
  <2>2. flow \in Flows /\ flow.at = "idle"
    BY <1>1 DEF Init, FlowIdle, Flows, FlowPoints, Parts
  <2>3. copied \in 0..Parts /\ (url => copied = Parts) /\ faults \in 0..MaxFaults
    BY <1>1, MaxFaultsAssumption DEF Init, Parts
  <2>4. TypeOK
    BY <1>1, <2>1, <2>2, <2>3 DEF Init, TypeOK
  <2>5. RecoveryRecorded
    BY <2>2, <2>3 DEF RecoveryRecorded, RecoveryIsResumed, Parts
  <2>6. OnlineHasACause
    BY <1>1, <2>1 DEF Init, OnlineHasACause, OnlineOnceLoaded
  <2>7. QED BY <2>4, <2>5, <2>6 DEF IInv
<1>2. IInv /\ [Next]_vars => IInv'
  BY TypeStep, RecoveryStep, OnlineStep DEF IInv
<1>3. QED BY <1>1, <1>2, PTL DEF Spec

\* The variables of the connection keep their types, and the flow waits for
\* its connect exactly when that connect is under way.
THEOREM TypeCorrect == Spec => []TypeOK
<1>1. IInv => TypeOK
  BY DEF IInv
<1>2. QED BY <1>1, Inductive, PTL

\* Killed at whatever await, a wallet with URLs that lacks a part of what
\* KERIA keeps has the status from which the next login resumes.
THEOREM RecoveryStatusSurvives == Spec => []RecoveryIsResumed
<1>1. IInv => RecoveryIsResumed
  BY DEF IInv, RecoveryRecorded
<1>2. QED BY <1>1, Inductive, PTL

\* No overlap of reconnections marks the agent online before the pages are
\* loaded, but the repetition of the flow's own connect.
THEOREM OnlyRepetitionIsEarly == Spec => []OnlineOnceLoaded
<1>1. IInv => OnlineOnceLoaded
  BY DEF IInv, OnlineHasACause
<1>2. QED BY <1>1, Inductive, PTL
=============================================================================
