----------------------------- MODULE VpnSession -----------------------------
(***************************************************************************)
(* The control of one VPN session: the user's commands and watchdogs on    *)
(* Main (VpnCommandCoordinator), the report handlers on other threads      *)
(* (VpnBridge), and the tunnel service they talk to (TunnelService).       *)
(*                                                                         *)
(* raced is a history variable: it becomes and stays TRUE when a statement *)
(* on Main runs while a handler is under way, or the other way round.  The *)
(* code has no lock between the two, so a behaviour may race at any time;  *)
(* the variable separates what the design guarantees from what it only     *)
(* guarantees as long as no handler overlaps a command.                    *)
(*                                                                         *)
(* switched is another: VpnState was last written by a switch of servers,  *)
(* which the service makes without the coordinator.                        *)
(***************************************************************************)
EXTENDS VpnBridge, TunnelService

VARIABLES raced, switched

historyVars == <<raced, switched>>
vars == <<stateVars, coordinatorVars, bridgeVars, serviceVars, historyVars>>

TypeOK == /\ StateTypeOK
          /\ CoordinatorTypeOK
          /\ BridgeTypeOK
          /\ ServiceTypeOK
          /\ raced \in BOOLEAN
          /\ switched \in BOOLEAN

Init == /\ StateInit
        /\ CoordinatorInit
        /\ BridgeInit
        /\ ServiceInit
        /\ raced = FALSE
        /\ switched = FALSE

(***************************************************************************)
(* Commands of the user.  MainActivity.disconnect and QuickConnect.stop    *)
(* send ACTION_STOP as the stop() of a disconnect, launch() starts the     *)
(* service.                                                                *)
(***************************************************************************)
Command == /\ onDisconnectRequested \/ \E id \in Ids : onConnectRequested(id)
           /\ UNCHANGED serviceVars

(***************************************************************************)
(* The remaining statements of what runs on Main.                          *)
(***************************************************************************)
MainStep == \/ connectLaunch /\ StartCommand
            \/ armDisconnectWatchdog /\ StopCommand
            \/ /\ \/ armConnectWatchdog
                  \/ disconnectFlip
                  \/ connectTimeout
                  \/ disconnectGiveUp
               /\ UNCHANGED serviceVars

WatchdogStep == /\ \E k \in Kind, g \in 1 .. MaxGeneration : watchdogFired(k, g)
                /\ UNCHANGED serviceVars

(***************************************************************************)
(* onStartCommand of the service, on Main like the commands.               *)
(***************************************************************************)
Notification == /\ mainPc = "idle"
                /\ \E id \in Ids : serverChosen(id)
                /\ UNCHANGED <<stateVars, coordinatorVars, bridgeVars, historyVars>>

(***************************************************************************)
(* A statement on Main; the one before a launch writes VpnState even when  *)
(* it stays the same.                                                      *)
(***************************************************************************)
OnMain == /\ Command \/ MainStep \/ WatchdogStep
          /\ raced' = (raced \/ Handling)
          /\ switched' = (switched /\ mainPc # "launch" /\ state' = state)
          /\ UNCHANGED bridgeVars

(***************************************************************************)
(* A handler takes a report, or goes on with the one it has.               *)
(***************************************************************************)
handle(h) == \E r \in Report : /\ Take(r)
                               /\ handleRefused(h, r) \/ handleAccepted(h, r)

HandlerStep(h) == /\ \/ apply(h)
                     \/ cancelConnect(h)
                     \/ dropConnect(h)
                     \/ cancelDisconnect(h)
                     \/ dropDisconnect(h)
                     \/ forget(h)
                     \/ recheck(h)
                     \/ settle(h)
                  /\ UNCHANGED serviceVars

OnHandler(h) == /\ handle(h) \/ HandlerStep(h)
                /\ raced' = (raced \/ mainPc # "idle")
                /\ switched' = (switched /\ state' = state)

(***************************************************************************)
(* A switch of servers writes VpnState on a thread of the service.         *)
(***************************************************************************)
Switch == /\ \E id \in Ids : switchTunnel(id)
          /\ switched' = TRUE
          /\ UNCHANGED <<coordinatorVars, bridgeVars, raced>>

Service == ServiceStep /\ UNCHANGED <<coordinatorVars, bridgeVars, historyVars>>

Stale == GrowStale /\ UNCHANGED <<bridgeVars, serviceVars, historyVars>>

Next == \/ OnMain
        \/ Notification
        \/ \E h \in Handlers : OnHandler(h)
        \/ Switch
        \/ Service
        \/ Stale

Spec == Init /\ [][Next]_vars

(***************************************************************************)
(* Threads keep running, timers run out, and a teardown that has begun     *)
(* ends.  Nothing is assumed of the user, nor that a tunnel ever comes up  *)
(* or fails: an engine may hang forever.                                   *)
(***************************************************************************)
OnMainFair == OnMain /\ (mainPc # "idle" \/ WatchdogStep)

Fairness == /\ WF_vars(OnMainFair)
            /\ WF_vars(Stale)
            /\ \A h \in Handlers : WF_vars(OnHandler(h))
            /\ WF_vars(Switch)
            /\ WF_vars(Service /\ Ended)

FairSpec == Spec /\ Fairness

-----------------------------------------------------------------------------
(***************************************************************************)
(* While a command makes the user wait, its watchdog is waiting too, so    *)
(* the wait has an end: this is what armConnectWatchdog and                *)
(* armDisconnectWatchdog are for.  It holds as long as no handler          *)
(* overlapped a command, and not for the wait of a switch of servers.      *)
(***************************************************************************)
PendingIsWatched ==
  ~raced /\ ~switched /\ mainPc = "idle" =>
    /\ state = "CONNECTING" => <<"CONNECT", generation>> \in jobs
    /\ state = "DISCONNECTING" => <<"DISCONNECT", generation>> \in jobs

(***************************************************************************)
(* Inside the window of acceptBroadcast no report turns the state against  *)
(* the latest command, however many older reports are still under way and  *)
(* in whatever order they are handled, as long as no handler overlapped a  *)
(* command.  A switch of servers that passed its check before a disconnect *)
(* does turn the state, until the next report.                             *)
(***************************************************************************)
IntentHolds ==
  ~raced /\ ~switched /\ fresh /\ mainPc = "idle" =>
    /\ lastCommand = "DISCONNECT" => state \notin {"CONNECTED", "CONNECTING"}
    /\ lastCommand = "CONNECT" => state \notin {"DISCONNECTED", "DISCONNECTING"}

(***************************************************************************)
(* A watchdog never gives up on a command that was given less than         *)
(* STALE_MS ago: not even one whose job escaped cancellation because a     *)
(* handler cleared the field between arming and cancelling, the case the   *)
(* generation check in the watchdogs is there for.                         *)
(***************************************************************************)
NoEarlyTimeout == mainPc \in {"timeout", "giveUp"} => ~fresh

(***************************************************************************)
(* The wait of a command never lasts forever, even when the engine never   *)
(* answers, as long as no handler overlaps a command: it ends, or a switch *)
(* of servers begins a wait of its own, which nothing ends.                *)
(***************************************************************************)
WaitEnds == \/ <>raced
            \/ state \in Pending /\ ~switched ~> state \notin Pending \/ switched

(***************************************************************************)
(* What the comment on acceptBroadcast says without restriction: inside    *)
(* the window a delayed "connected" of a cancelled attempt cannot fake the *)
(* state.                                                                  *)
(***************************************************************************)
NoFakeConnected ==
  fresh /\ mainPc = "idle" /\ lastCommand = "DISCONNECT" => state # "CONNECTED"

=============================================================================
