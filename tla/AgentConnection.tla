--------------------------- MODULE AgentConnection ---------------------------
(***************************************************************************)
(* How the wallet comes online, is recovered on a new device, and goes      *)
(* through the loss of its connection to KERIA.  One flow of the pages, of  *)
(* CreateSSIAgent in a recovery or of AppWrapper at the login, connects the *)
(* agent, copies what KERIA keeps and loads it; next to it every poller and *)
(* every OnlineOnly call that finds the network gone runs Agent.connect.    *)
(*                                                                         *)
(* What KERIA keeps is copied in three parts, the identifiers, the contacts *)
(* and the credentials; the tasks that start when the agent comes online    *)
(* are in Connections and Identifiers.                                      *)
(***************************************************************************)
EXTENDS Integers

CONSTANTS
  Pollers,      \* loops that stop polling while they reconnect
  Calls,        \* bound: OnlineOnly calls in flight or reconnecting
  MaxFaults     \* bound: losses of the network, errors of KERIA, crashes

ASSUME OwnersAssumption    == Pollers \intersect Calls = {} /\ "flow" \notin Pollers \union Calls
ASSUME MaxFaultsAssumption == MaxFaults \in Nat

VARIABLES
  network,      \* KERIA can be reached
  url,          \* storage: KERIA_CONNECT_URL is saved
  recovery,     \* storage: CLOUD_RECOVERY_STATUS
  copied,       \* storage: the number of parts copied from KERIA
  online,       \* Agent.isOnline
  loaded,       \* the store of the pages holds what the storage does
  flow,         \* where the flow of the pages is
  loop,         \* Agent.connect of each of its callers
  running,      \* OnlineOnly calls in flight
  faults,       \* faults so far
  repeated      \* history: since its start, connect of the flow repeated itself

storage == <<url, recovery, copied>>
agent   == <<online, loop>>
vars    == <<network, storage, agent, loaded, flow, running, faults, repeated>>

Parts  == 3
Owners == Pollers \union Calls \union {"flow"}
NoLoop == [at |-> "none", update |-> TRUE]

Fault ==
  /\ faults < MaxFaults
  /\ faults' = faults + 1

-----------------------------------------------------------------------------
(* Agent.connect.                                                          *)

\* It begins, or begins again, with the agent offline.
Connect(o, update) ==
  /\ online' = FALSE
  /\ loop' = [loop EXCEPT ![o] = [at |-> "call", update |-> update]]

\* The flow goes on after its own connect.
FlowGoesOn(o) ==
  flow' = IF o = "flow" THEN [flow EXCEPT !.at = "check"] ELSE flow

\* Mutant: the second argument is not looked at.
ConnectSucceedsOnline(o) ==
  /\ loop[o].at = "call"
  /\ network
  /\ loop' = [loop EXCEPT ![o] = NoLoop]
  /\ online' = TRUE
  /\ FlowGoesOn(o)
  /\ UNCHANGED <<network, storage, loaded, running, faults, repeated>>

ConnectSucceeds(o) ==
  /\ loop[o].at = "call"
  /\ network
  /\ loop' = [loop EXCEPT ![o] = NoLoop]
  /\ online' = (online \/ loop[o].update)
  /\ FlowGoesOn(o)
  /\ UNCHANGED <<network, storage, loaded, running, faults, repeated>>

ConnectFails(o) ==
  /\ loop[o].at = "call"
  /\ ~network
  /\ loop' = [loop EXCEPT ![o].at = "wait"]
  /\ UNCHANGED <<network, storage, online, loaded, flow, running, faults, repeated>>

\* After the interval it calls itself, without its second argument.
ConnectAgain(o) ==
  /\ loop[o].at = "wait"
  /\ Connect(o, TRUE)
  /\ repeated' = (repeated \/ o = "flow")
  /\ UNCHANGED <<network, storage, loaded, flow, running, faults>>

-----------------------------------------------------------------------------
(* The pollers and the OnlineOnly calls.                                   *)

\* A poller begins to reconnect only if the agent is not offline already.
PollerReconnects(p) ==
  /\ online
  /\ loop[p] = NoLoop
  /\ ~network
  /\ Connect(p, TRUE)
  /\ UNCHANGED <<network, storage, loaded, flow, running, faults, repeated>>

CallBegins(c) ==
  /\ online
  /\ c \notin running
  /\ loop[c] = NoLoop
  /\ running' = running \union {c}
  /\ UNCHANGED <<network, storage, agent, loaded, flow, faults, repeated>>

CallReturns(c) ==
  /\ c \in running
  /\ running' = running \ {c}
  /\ UNCHANGED <<network, storage, agent, loaded, flow, faults, repeated>>

\* Mutant: the agent is marked offline, and nothing reconnects it.
CallGivesUp(c) ==
  /\ c \in running
  /\ ~network
  /\ running' = running \ {c}
  /\ online' = FALSE
  /\ UNCHANGED <<network, storage, loop, loaded, flow, faults, repeated>>

\* A call reconnects in any case.
CallReconnects(c) ==
  /\ c \in running
  /\ ~network
  /\ running' = running \ {c}
  /\ Connect(c, TRUE)
  /\ UNCHANGED <<network, storage, loaded, flow, faults, repeated>>

-----------------------------------------------------------------------------
(* The flow of the pages.                                                  *)

FlowIdle == [at |-> "idle", part |-> 1]

FlowGoes(step) == flow' = [at |-> step, part |-> 1]

\* Mutant: the connection is not waited for.
FlowDoesNotWait ==
  /\ FlowGoes("check")
  /\ Connect("flow", FALSE)

\* A network error of the flow: it waits for a connection first.
FlowReconnects ==
  /\ FlowGoes("connect")
  /\ Connect("flow", FALSE)

\* CreateSSIAgent: recoverKeriaAgent connects to the agent of the seed phrase.
RecoverKeriaAgent ==
  /\ flow = FlowIdle
  /\ ~url
  /\ network
  /\ FlowGoes("status")
  /\ UNCHANGED <<network, storage, agent, loaded, running, faults, repeated>>

SaveRecoveryStatus ==
  /\ flow.at = "status"
  /\ recovery' = "syncing"
  /\ FlowGoes("url")
  /\ UNCHANGED <<network, url, copied, agent, loaded, running, faults, repeated>>

\* The seed phrase is verified, the bran and the URLs are saved.
SaveAgentUrls ==
  /\ flow.at = "url"
  /\ url' = TRUE
  /\ FlowGoes("sync")
  /\ UNCHANGED <<network, recovery, copied, agent, loaded, running, faults, repeated>>

\* AppWrapper: the login at the start of the application starts the agent.
StartAgent ==
  /\ flow = FlowIdle
  /\ url
  /\ \/ network /\ FlowGoes("check") /\ UNCHANGED agent
     \/ ~network /\ FlowReconnects
  /\ UNCHANGED <<network, storage, loaded, running, faults, repeated>>

CheckRecovery ==
  /\ flow.at = "check"
  /\ FlowGoes(IF recovery = "syncing" THEN "sync" ELSE "load")
  /\ UNCHANGED <<network, storage, agent, loaded, running, faults, repeated>>

\* syncWithKeria copies the parts in order, over what was copied before.
SyncPart ==
  /\ flow.at = "sync"
  /\ flow.part <= Parts
  /\ network
  /\ copied' = IF copied < flow.part THEN flow.part ELSE copied
  /\ flow' = [flow EXCEPT !.part = @ + 1]
  /\ UNCHANGED <<network, url, recovery, agent, loaded, running, faults, repeated>>

\* Mutant: the last part is not waited for.
SyncEndsEarly ==
  /\ flow.at = "sync"
  /\ flow.part >= Parts
  /\ recovery' = "synced"
  /\ FlowGoes("load")
  /\ UNCHANGED <<network, url, copied, agent, loaded, running, faults, repeated>>

SyncEnds ==
  /\ flow.at = "sync"
  /\ flow.part > Parts
  /\ recovery' = "synced"
  /\ FlowGoes("load")
  /\ UNCHANGED <<network, url, copied, agent, loaded, running, faults, repeated>>

SyncLosesNetwork ==
  /\ flow.at = "sync"
  /\ flow.part <= Parts
  /\ ~network
  /\ FlowReconnects
  /\ UNCHANGED <<network, storage, loaded, running, faults, repeated>>

\* Any other error ends the flow, until the application is started again.
SyncThrows ==
  /\ flow.at = "sync"
  /\ Fault
  /\ FlowGoes("stopped")
  /\ UNCHANGED <<network, storage, agent, loaded, running, repeated>>

\* loadDb.
LoadDb ==
  /\ flow.at = "load"
  /\ loaded' = TRUE
  /\ online' = TRUE
  /\ FlowGoes("done")
  /\ UNCHANGED <<network, storage, loop, running, faults, repeated>>

-----------------------------------------------------------------------------
LoseNetwork ==
  /\ network
  /\ Fault
  /\ network' = FALSE
  /\ UNCHANGED <<storage, agent, loaded, flow, running, repeated>>

NetworkReturns ==
  /\ ~network
  /\ network' = TRUE
  /\ UNCHANGED <<storage, agent, loaded, flow, running, faults, repeated>>

Crash ==
  /\ Fault
  /\ online' = FALSE
  /\ loaded' = FALSE
  /\ flow' = FlowIdle
  /\ loop' = [o \in Owners |-> NoLoop]
  /\ running' = {}
  /\ repeated' = FALSE
  /\ UNCHANGED <<network, storage>>

\* A wallet that is set up, or a new device on which one is recovered.
Init ==
  /\ network \in BOOLEAN
  /\ url \in BOOLEAN
  /\ copied = IF url THEN Parts ELSE 0
  /\ recovery = "none"
  /\ online = FALSE
  /\ loaded = FALSE
  /\ flow = FlowIdle
  /\ loop = [o \in Owners |-> NoLoop]
  /\ running = {}
  /\ faults = 0
  /\ repeated = FALSE

Reconnect(o) == ConnectSucceeds(o) \/ ConnectFails(o) \/ ConnectAgain(o)

Flow ==
  \/ SaveRecoveryStatus
  \/ SaveAgentUrls
  \/ CheckRecovery
  \/ SyncPart
  \/ SyncEnds
  \/ SyncLosesNetwork
  \/ LoadDb

Next ==
  \/ \E o \in Owners : Reconnect(o)
  \/ \E p \in Pollers : PollerReconnects(p)
  \/ \E c \in Calls : CallBegins(c) \/ CallReturns(c) \/ CallReconnects(c)
  \/ RecoverKeriaAgent
  \/ StartAgent
  \/ Flow
  \/ SyncThrows
  \/ LoseNetwork
  \/ NetworkReturns
  \/ Crash

\* Timers fire and promises settle; the network returns when it was lost.
Fairness ==
  /\ WF_vars(Flow)
  /\ \A o \in Owners : WF_vars(Reconnect(o))
  /\ WF_vars(NetworkReturns)

Spec == Init /\ [][Next]_vars /\ Fairness

-----------------------------------------------------------------------------
FlowPoints == {"idle", "status", "url", "check", "connect", "sync", "load", "done", "stopped"}
Flows      == [at : FlowPoints, part : 1..Parts + 1]
Loops      == [at : {"none", "call", "wait"}, update : BOOLEAN]

TypeOK ==
  /\ network \in BOOLEAN
  /\ url \in BOOLEAN
  /\ recovery \in {"none", "syncing", "synced"}
  /\ copied \in 0..Parts
  /\ online \in BOOLEAN
  /\ loaded \in BOOLEAN
  /\ flow \in Flows
  /\ loop \in [Owners -> Loops]
  /\ running \subseteq Calls
  /\ faults \in 0..MaxFaults
  /\ repeated \in BOOLEAN
  /\ loop["flow"] # NoLoop <=> flow.at = "connect"

\* Wherever the application is killed, a wallet that is set up and lacks
\* something that KERIA keeps knows that its recovery is not over.
RecoveryIsResumed == url /\ copied < Parts => recovery = "syncing"

\* The agent is not marked online before the pages have what it stores,
\* unless the flow's connect has repeated itself.
OnlineOnceLoaded == online => loaded \/ repeated

\* An application that is not killed again, and whose flow no error ends,
\* comes online and stays so, however its reconnections overlapped, with all
\* that KERIA keeps copied and shown.
ComesOnlineInTheEnd ==
  <>[](flow.at \notin {"idle", "stopped"})
    => <>[](online /\ loaded /\ copied = Parts /\ recovery # "syncing")
=============================================================================
