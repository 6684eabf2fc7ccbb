-------------------------- MODULE VpnSessionProofs --------------------------
(***************************************************************************)
(* The safety of session control, for any number of configurations,        *)
(* commands, handler threads and reports under way.                        *)
(***************************************************************************)
EXTENDS VpnSession, TLAPS

(***************************************************************************)
(* PendingIsWatched and IntentHolds speak of the moments when Main is      *)
(* idle.  Both follow once one also knows, for behaviours that have not    *)
(* raced, what the command under way on Main has established so far, and   *)
(* what a handler under way can no longer find, unless a switch of servers *)
(* has come between.                                                       *)
(***************************************************************************)
MainInv ==
  /\ Handling => mainPc = "idle"
  /\ mainPc \in {"launch", "armConnect"} => lastCommand = "CONNECT"
  /\ mainPc = "armConnect" => state = "CONNECTING"
  /\ mainPc \in {"flip", "stop"} => lastCommand = "DISCONNECT"
  /\ mainPc = "stop" => state \notin {"CONNECTED", "CONNECTING"} \/ switched

HandlerInv ==
  \A h \in Handlers :
    /\ pc[h] # "idle" => report[h] \in Report
    /\ pc[h] = "apply" /\ fresh =>
         /\ lastCommand = "DISCONNECT" => report[h] # "CONNECTED"
         /\ lastCommand = "CONNECT" => report[h] # "DISCONNECTED"
    /\ pc[h] \in AfterApply => state \notin Pending \/ switched
    /\ pc[h] \in {"recheck", "settle"} => lastCommand = NoCommand

SerialInv == MainInv /\ HandlerInv

IInv == /\ TypeOK
        /\ ~raced => SerialInv
        /\ PendingIsWatched
        /\ IntentHolds
        /\ NoEarlyTimeout


USE NoIdAssumption, MaxGenerationAssumption, MaxBroadcastsAssumption, MaxSwitchesAssumption

(***************************************************************************)
(* The initial states satisfy the invariant.                               *)
(***************************************************************************)
LEMMA InitIInv == Init => IInv
<1> SUFFICES ASSUME Init PROVE IInv OBVIOUS
<1> USE DEF Init, StateInit, CoordinatorInit, BridgeInit, ServiceInit
<1>1. TypeOK
  BY DEF TypeOK, StateTypeOK, CoordinatorTypeOK, BridgeTypeOK, ServiceTypeOK,
         Connection, Kind, NoCommand, MainPc, BridgePc, NoReport, TunnelPhase, ServiceReport
<1>2. SerialInv
  BY DEF SerialInv, MainInv, HandlerInv, Handling, AfterApply
<1>3. PendingIsWatched /\ IntentHolds /\ NoEarlyTimeout
  BY DEF PendingIsWatched, IntentHolds, NoEarlyTimeout
<1> QED BY <1>1, <1>2, <1>3 DEF IInv

(***************************************************************************)
(* Every command, statement, report and timer keeps the types.             *)
(***************************************************************************)
LEMMA TypeStep == TypeOK /\ [Next]_vars => TypeOK'
<1> SUFFICES ASSUME TypeOK, [Next]_vars PROVE TypeOK'
  OBVIOUS
<1> USE DEF TypeOK, StateTypeOK, CoordinatorTypeOK, BridgeTypeOK, ServiceTypeOK,
            stateVars, coordinatorVars, bridgeVars, serviceVars, historyVars,
            Connection, Kind, NoCommand, MainPc, BridgePc, Report, NoReport,
            TunnelPhase, ServiceReport,
            setDisconnecting, setConnecting, setConnected, setError, setDisconnected
<1>1. CASE OnMain
  <2>1. CASE Command
    <3>1. CASE onDisconnectRequested
      BY <1>1, <2>1, <3>1 DEF OnMain, Handling, Command, onDisconnectRequested,
                              NewIntent, WithoutJob
    <3>2. ASSUME NEW id \in Ids, onConnectRequested(id) PROVE TypeOK'
      BY <1>1, <2>1, <3>2 DEF OnMain, Handling, Command, onConnectRequested,
                              NewIntent, WithoutJob
    <3> QED BY <2>1, <3>1, <3>2 DEF Command
  <2>2. CASE MainStep
    BY <1>1, <2>2 DEF OnMain, Handling, MainStep, connectLaunch, StartCommand,
                      armDisconnectWatchdog, StopCommand, EndSession, armConnectWatchdog,
                      ArmWatchdog, WithoutJob, disconnectFlip, connectTimeout, disconnectGiveUp
  <2>3. CASE WatchdogStep
    BY <1>1, <2>3 DEF OnMain, Handling, WatchdogStep, watchdogFired
  <2> QED BY <1>1, <2>1, <2>2, <2>3 DEF OnMain
<1>2. ASSUME NEW h \in Handlers, OnHandler(h) PROVE TypeOK'
  <2>1. CASE handle(h)
    BY <1>2, <2>1 DEF OnHandler, handle, Take, handleRefused, handleAccepted, Goto
  <2>2. CASE HandlerStep(h)
    BY <1>2, <2>2 DEF OnHandler, HandlerStep, apply, cancelConnect, dropConnect,
                      cancelDisconnect, dropDisconnect, forget, recheck, settle,
                      CancelJob, DropField, WithoutJob, Goto, Finish
  <2> QED BY <1>2, <2>1, <2>2 DEF OnHandler
<1>3. CASE Stale
  <2>1. /\ fresh' = FALSE
        /\ UNCHANGED <<stateVars, bridgeVars, serviceVars, historyVars>>
        /\ UNCHANGED <<generation, lastCommand, watchdog, jobs, mainPc, mainId>>
    BY <1>3 DEF Stale, GrowStale
  <2>2. StateTypeOK' /\ CoordinatorTypeOK'
    BY <2>1
  <2>3. BridgeTypeOK' /\ ServiceTypeOK'
    BY <2>1
  <2>4. raced' \in BOOLEAN /\ switched' \in BOOLEAN
    BY <2>1
  <2> QED BY <2>2, <2>3, <2>4
<1>4. CASE Service
  <2>1. CASE shareExpired
    BY <1>4, <2>1 DEF Service, ServiceStep, shareExpired, LaunchSwitch
  <2>2. CASE Up \/ Warm \/ Break \/ Ended
    BY <1>4, <2>2 DEF Service, ServiceStep, Up, Warm, Break, EndSession, Ended, Send
  <2> QED BY <1>4, <2>1, <2>2 DEF Service, ServiceStep
<1>5. CASE Notification
  BY <1>5 DEF Notification, serverChosen, LaunchSwitch
<1>6. CASE Switch
  BY <1>6 DEF Switch, switchTunnel
<1>7. CASE UNCHANGED vars
  BY <1>7 DEF vars
<1> QED BY <1>1, <1>2, <1>3, <1>4, <1>5, <1>6, <1>7 DEF Next

(***************************************************************************)
(* The types of the session hold in every reachable state.                 *)
(***************************************************************************)
THEOREM TypeCorrect == Spec => []TypeOK
<1>1. Init => TypeOK BY InitIInv DEF IInv
<1> QED BY <1>1, TypeStep, PTL DEF Spec

(***************************************************************************)
(* A watchdog only gives up on a command that is no longer fresh.          *)
(***************************************************************************)
LEMMA TimeoutStep == TypeOK /\ NoEarlyTimeout /\ [Next]_vars => NoEarlyTimeout'
<1> SUFFICES ASSUME TypeOK, NoEarlyTimeout, [Next]_vars PROVE NoEarlyTimeout'
  OBVIOUS
<1> USE DEF TypeOK, CoordinatorTypeOK, NoEarlyTimeout, coordinatorVars
<1>1. CASE OnMain
  BY <1>1 DEF OnMain, Command, onDisconnectRequested, onConnectRequested, NewIntent,
              MainStep, connectLaunch, armDisconnectWatchdog, armConnectWatchdog,
              disconnectFlip, connectTimeout, disconnectGiveUp, WatchdogStep, watchdogFired
<1>2. ASSUME NEW h \in Handlers, OnHandler(h) PROVE UNCHANGED <<mainPc, fresh>>
  BY <1>2 DEF OnHandler, handle, handleRefused, handleAccepted, HandlerStep, apply,
              cancelConnect, dropConnect, cancelDisconnect, dropDisconnect, forget,
              recheck, settle, CancelJob, DropField
<1>3. CASE Stale
  BY <1>3 DEF Stale, GrowStale
<1>4. CASE Service \/ Notification \/ Switch
  BY <1>4 DEF Service, Notification, Switch
<1>5. CASE UNCHANGED vars
  BY <1>5 DEF vars
<1> QED BY <1>1, <1>2, <1>3, <1>4, <1>5 DEF Next

(***************************************************************************)
(* As long as the behaviour has not raced, every statement on Main and     *)
(* every statement of a handler keeps SerialInv, PendingIsWatched and      *)
(* IntentHolds.                                                            *)
(***************************************************************************)
Serial == SerialInv /\ PendingIsWatched /\ IntentHolds

LEMMA MainStepSerial ==
  ASSUME TypeOK, NoEarlyTimeout, Serial, OnMain, ~raced'
  PROVE  Serial'
<1> USE DEF TypeOK, StateTypeOK, CoordinatorTypeOK, BridgeTypeOK, Connection, Kind, NoCommand,
            Pending, stateVars, coordinatorVars, bridgeVars, NoEarlyTimeout,
            setDisconnecting, setConnecting, setConnected, setError, setDisconnected
<1>1. /\ ~Handling /\ ~raced
      /\ switched' <=> switched /\ mainPc # "launch" /\ state' = state
  BY DEF OnMain
<1>2. \A h \in Handlers : pc[h] = "idle"
  BY <1>1 DEF Handling
<1>3. ~Handling' /\ HandlerInv'
  BY <1>2 DEF OnMain, Handling, HandlerInv, AfterApply
<1>4. MainInv' /\ PendingIsWatched' /\ IntentHolds'
  <2> USE <1>1, <1>3 DEF Serial, SerialInv, MainInv, PendingIsWatched, IntentHolds
  <2>1. CASE Command
    BY <2>1 DEF Command, onDisconnectRequested, onConnectRequested, NewIntent
  <2>2. CASE connectLaunch
    BY <2>2 DEF connectLaunch
  <2>3. CASE armConnectWatchdog
    BY <2>3 DEF armConnectWatchdog, ArmWatchdog
  <2>4. CASE disconnectFlip
    BY <2>4 DEF disconnectFlip
  <2>5. CASE armDisconnectWatchdog
    BY <2>5 DEF armDisconnectWatchdog, ArmWatchdog
  <2>6. CASE connectTimeout
    BY <2>6 DEF connectTimeout
  <2>7. CASE disconnectGiveUp
    BY <2>7 DEF disconnectGiveUp
  <2>8. ASSUME NEW k \in Kind, NEW g \in 1 .. MaxGeneration, watchdogFired(k, g)
        PROVE  MainInv' /\ PendingIsWatched' /\ IntentHolds'
    BY <2>8 DEF watchdogFired
  <2> QED BY <2>1, <2>2, <2>3, <2>4, <2>5, <2>6, <2>7, <2>8 DEF OnMain, MainStep, WatchdogStep
<1> QED BY <1>3, <1>4 DEF Serial, SerialInv

LEMMA HandlerStepSerial ==
  ASSUME TypeOK, Serial, NEW h \in Handlers, OnHandler(h), ~raced'
  PROVE  Serial'
<1> USE DEF TypeOK, StateTypeOK, CoordinatorTypeOK, BridgeTypeOK, Connection, Kind, NoCommand,
            Pending, Report, AfterApply, BridgePc, stateVars, coordinatorVars, bridgeVars,
            setDisconnecting, setConnecting, setConnected, setError, setDisconnected
<1>1. /\ mainPc = "idle" /\ ~raced
      /\ switched' <=> switched /\ state' = state
  BY DEF OnHandler
<1>2. mainPc' = "idle"
  BY <1>1 DEF OnHandler, handle, handleRefused, handleAccepted, HandlerStep, apply,
              cancelConnect, dropConnect, cancelDisconnect, dropDisconnect, forget,
              recheck, settle, CancelJob, DropField
<1>3. MainInv'
  BY <1>2 DEF MainInv
<1>4. HandlerInv' /\ PendingIsWatched' /\ IntentHolds'
  <2> USE <1>1, <1>2 DEF Serial, SerialInv, HandlerInv, PendingIsWatched, IntentHolds
  <2>1. ASSUME NEW r \in Report, handleRefused(h, r)
        PROVE  HandlerInv' /\ PendingIsWatched' /\ IntentHolds'
    BY <2>1 DEF handleRefused
  <2>2. ASSUME NEW r \in Report, handleAccepted(h, r)
        PROVE  HandlerInv' /\ PendingIsWatched' /\ IntentHolds'
    BY <2>2 DEF handleAccepted, acceptBroadcast, Goto
  <2>3. CASE apply(h)
    BY <2>3 DEF apply, Goto
  <2>4. CASE cancelConnect(h)
    BY <2>4 DEF cancelConnect, CancelJob, WithoutJob, Goto
  <2>5. CASE dropConnect(h)
    BY <2>5 DEF dropConnect, DropField, Goto
  <2>6. CASE cancelDisconnect(h)
    BY <2>6 DEF cancelDisconnect, CancelJob, WithoutJob, Goto
  <2>7. CASE dropDisconnect(h)
    BY <2>7 DEF dropDisconnect, DropField, Goto
  <2>8. CASE forget(h)
    BY <2>8 DEF forget, Goto, Finish
  <2>9. CASE recheck(h)
    BY <2>9 DEF recheck, Goto, Finish
  <2>10. CASE settle(h)
    BY <2>10 DEF settle, Goto, Finish
  <2> QED BY <2>1, <2>2, <2>3, <2>4, <2>5, <2>6, <2>7, <2>8, <2>9, <2>10
          DEF OnHandler, handle, HandlerStep
<1> QED BY <1>3, <1>4 DEF Serial, SerialInv

LEMMA SwitchSerial ==
  ASSUME TypeOK, Serial, Switch, ~raced'
  PROVE  Serial'
<1> USE DEF bridgeVars, coordinatorVars, stateVars
<1>1. /\ ~raced /\ switched' /\ state' = "CONNECTING"
      /\ UNCHANGED <<coordinatorVars, bridgeVars>>
  BY DEF Switch, switchTunnel, setConnecting
<1>2. MainInv' /\ HandlerInv'
  BY <1>1 DEF Serial, SerialInv, MainInv, HandlerInv, Handling
<1>3. PendingIsWatched' /\ IntentHolds'
  BY <1>1 DEF PendingIsWatched, IntentHolds
<1> QED BY <1>2, <1>3 DEF Serial, SerialInv

LEMMA NextIInv == IInv /\ [Next]_vars => IInv'
<1> SUFFICES ASSUME IInv, [Next]_vars PROVE IInv'
  OBVIOUS
<1>1. TypeOK' /\ NoEarlyTimeout'
  BY TypeStep, TimeoutStep DEF IInv
<1>2. ASSUME ~raced' PROVE Serial'
  <2>1. CASE OnMain
    BY <1>2, <2>1, MainStepSerial DEF IInv, Serial, OnMain
  <2>2. ASSUME NEW h \in Handlers, OnHandler(h) PROVE Serial'
    BY <1>2, <2>2, HandlerStepSerial DEF IInv, Serial, OnHandler
  <2>3. CASE Stale
    BY <1>2, <2>3 DEF IInv, Serial, SerialInv, MainInv, HandlerInv, Handling, PendingIsWatched,
                      IntentHolds, Stale, GrowStale, stateVars, bridgeVars, historyVars,
                      AfterApply, Pending
  <2>4. CASE Switch
    BY <1>2, <2>4, SwitchSerial DEF IInv, Serial, Switch
  <2>5. CASE UNCHANGED <<stateVars, coordinatorVars, bridgeVars, historyVars>>
    BY <1>2, <2>5 DEF IInv, Serial, SerialInv, MainInv, HandlerInv, Handling, PendingIsWatched,
                      IntentHolds, stateVars, coordinatorVars, bridgeVars, historyVars,
                      AfterApply, Pending
  <2>6. CASE Notification \/ Service
    BY <2>5, <2>6 DEF Notification, Service, ServiceStep
  <2> QED BY <2>1, <2>2, <2>3, <2>4, <2>5, <2>6 DEF Next, vars
<1>3. raced' => PendingIsWatched' /\ IntentHolds'
  BY DEF PendingIsWatched, IntentHolds
<1> QED BY <1>1, <1>2, <1>3 DEF IInv, Serial

(***************************************************************************)
(* The inductive invariant holds in every reachable state.                 *)
(***************************************************************************)
THEOREM Invariance == Spec => []IInv
BY InitIInv, NextIInv, PTL DEF Spec

(***************************************************************************)
(* While a command makes the user wait in CONNECTING or DISCONNECTING its  *)
(* watchdog is armed, unless a report handler overlapped a command.  The   *)
(* CONNECTING that switchTunnel sets (GozarVpnService.kt:485) is left out: *)
(* it has no watchdog.                                                     *)
(***************************************************************************)
THEOREM PendingWatched == Spec => []PendingIsWatched
<1>1. IInv => PendingIsWatched BY DEF IInv
<1> QED BY <1>1, Invariance, PTL

(***************************************************************************)
(* Inside the window of acceptBroadcast the state agrees with the latest   *)
(* command, unless a report handler overlapped a command or the state is   *)
(* the one a switch of servers has set.                                    *)
(***************************************************************************)
THEOREM IntentWins == Spec => []IntentHolds
<1>1. IInv => IntentHolds BY DEF IInv
<1> QED BY <1>1, Invariance, PTL

(***************************************************************************)
(* No watchdog gives up on a fresh command, races or not.                  *)
(***************************************************************************)
THEOREM TimeoutsInTime == Spec => []NoEarlyTimeout
<1>1. IInv => NoEarlyTimeout BY DEF IInv
<1> QED BY <1>1, Invariance, PTL

=============================================================================
