----------------------------- MODULE IkeSession -----------------------------
(***************************************************************************)
(* A session over IKEv2: the commands of the user, IkeController and       *)
(* VpnStateService on the main thread, the handler thread of               *)
(* CharonVpnService and the threads of charon.                             *)
(*                                                                         *)
(* Of VpnCommandCoordinator and of the Xray service, which are modelled    *)
(* elsewhere, this module keeps what they can still do to the state of an  *)
(* IKEv2 session: the watchdog of the latest command, and the report of an *)
(* Xray service that was told to stop, which is handled on a thread of its *)
(* own.                                                                    *)
(***************************************************************************)
EXTENDS IkeController

CONSTANT MaxCommands   \* bound: commands of the user

ASSUME CommandsAssumption == MaxCommands \in Nat

VARIABLES command,     \* the latest command, or NoCommand
          commands,    \* how many there were
          reconcile,   \* which watchdog of the coordinator is waiting
          xray,        \* what the Xray service has left to report
          disturbed    \* history, see Disturbs

userVars == <<command, commands, reconcile, xray, disturbed, prepared>>
engineVars == <<handlerVars, device, nativeVars>>
vars == <<stateVars, stateServiceVars, handlerVars, device, nativeVars, ikeVars, userVars>>

NoCommand == "none"
Kind == {"CONNECT", "DISCONNECT"}

UserTypeOK == /\ command \in Kind \cup {NoCommand}
              /\ commands \in Nat
              /\ reconcile \in Kind \cup {NoCommand}
              /\ xray \in {"idle", "stopping", "checked"}
              /\ disturbed \in BOOLEAN

TypeOK == /\ StateTypeOK
          /\ StateServiceTypeOK
          /\ CharonServiceTypeOK
          /\ NativeTypeOK
          /\ IkeTypeOK
          /\ UserTypeOK

Init == /\ StateInit
        /\ StateServiceInit
        /\ CharonServiceInit
        /\ NativeInit
        /\ IkeInit
        /\ command = NoCommand
        /\ commands = 0
        /\ reconcile = NoCommand
        /\ xray = "idle"
        /\ disturbed = FALSE

(***************************************************************************)
(* Nothing is on its way between the threads, nor from Android.            *)
(***************************************************************************)
Quiet == /\ posts = <<>> /\ intents = <<>> /\ ~revoked
         /\ handler = "wait" /\ ~mProfileUpdated
         /\ callback = "idle"
         /\ bound # "binding"

-----------------------------------------------------------------------------
(***************************************************************************)
(* The user.  disturbed becomes and stays TRUE when a command is given     *)
(* while messages are on their way or VpnBridge is between its check and   *)
(* its write, or is unfit by itself: a start from the tile, which leaves   *)
(* the watchdog of a disconnect waiting, or a disconnect of a session that *)
(* IkeController does not own any more.                                    *)
(***************************************************************************)
NewCommand(k, unfit) == /\ commands < MaxCommands
                        /\ commands' = commands + 1
                        /\ command' = k
                        /\ disturbed' = (disturbed \/ unfit \/ ~Quiet \/ xray = "checked")

(***************************************************************************)
(* QuickConnect.start, from the tile: the coordinator is not told.  Like   *)
(* the activity it asks VpnService.prepare before it connects.             *)
(***************************************************************************)
quickStart(id) ==
  /\ state \in {"DISCONNECTED", "ERROR"}
  /\ NewCommand("CONNECT", reconcile = "DISCONNECT")
  /\ prepared' = TRUE
  /\ claimAndConnect(id, "ERROR")
  /\ UNCHANGED <<engineVars, reconcile, xray>>

(***************************************************************************)
(* MainActivity.launchConnect, through the coordinator.  It always tells   *)
(* the Xray service to stop: the state it looks at is already CONNECTING.  *)
(* The activity has bound the service when it was created.                 *)
(***************************************************************************)
launchConnect(id) ==
  /\ bound # "no"
  /\ state \in {"DISCONNECTED", "ERROR"}
  /\ NewCommand("CONNECT", FALSE)
  /\ prepared' = TRUE
  /\ claimAndConnect(id, "DISCONNECTED")
  /\ reconcile' = "CONNECT"
  /\ xray' = "stopping"
  /\ UNCHANGED engineVars

(***************************************************************************)
(* MainActivity.disconnect and QuickConnect.stop.  Which engine is told    *)
(* depends on active.  The activity settles the state at once.             *)
(***************************************************************************)
requestDisconnect ==
  /\ state \in {"CONNECTED", "CONNECTING"}
  /\ NewCommand("DISCONNECT", ~active)
  /\ reconcile' = "DISCONNECT"
  /\ \/ /\ active
        /\ disconnect
        /\ setDisconnected \/ setDisconnecting
        /\ UNCHANGED xray
     \/ /\ ~active
        /\ xray' = "stopping"
        /\ setDisconnecting
        /\ UNCHANGED <<ikeVars, stateServiceVars>>
  /\ UNCHANGED <<engineVars, prepared>>

Command == \/ \E id \in Ids : quickStart(id) \/ launchConnect(id)
           \/ requestDisconnect

-----------------------------------------------------------------------------
(***************************************************************************)
(* The main thread.                                                        *)
(***************************************************************************)
mainPost == /\ runPost
            /\ IF Changed(Head(posts)) THEN stateChanged(mState', mError')
               ELSE UNCHANGED <<ikeVars, stateVars>>
            /\ UNCHANGED <<engineVars, userVars>>

retryTick == /\ \/ retryCounts /\ stateChanged(mState, mError)
                \/ (retryIgnored \/ retryConnects) /\ UNCHANGED <<ikeVars, stateVars>>
             /\ UNCHANGED <<engineVars, userVars>>

controllerStep == /\ onServiceConnected \/ claimTick
                  /\ UNCHANGED <<engineVars, userVars>>

(***************************************************************************)
(* 45 seconds, much longer than the looks of claim() last, and than start  *)
(* commands and the handler thread take: only reports of charon may still  *)
(* be waiting.                                                             *)
(***************************************************************************)
ikeTimeout == /\ claimTicks = 0
              /\ intents = <<>> /\ ~mProfileUpdated /\ handler = "wait"
              /\ \A i \in DOMAIN posts : posts[i].op \in {"CONNECTED", "CONNECTING", "ERROR"}
              /\ connectTimeout
              /\ UNCHANGED <<engineVars, userVars>>

(***************************************************************************)
(* MainActivity.onCreate.                                                  *)
(***************************************************************************)
activityBinds == /\ bound = "no"
                 /\ bind
                 /\ UNCHANGED <<active, claimedId, ikeState, watchdog, claimTicks, NATIVE_LOADED>>
                 /\ UNCHANGED <<stateVars, stateServiceVars, engineVars, userVars>>

startCommand == /\ onStartCommand
                /\ UNCHANGED <<stateVars, nativeVars, ikeVars, userVars>>

revoke == /\ interfaceRevoked \/ onRevoke
          /\ UNCHANGED <<command, commands, reconcile, xray, disturbed>>
          /\ UNCHANGED <<stateVars, nativeVars, ikeVars>>

(***************************************************************************)
(* The watchdogs of VpnCommandCoordinator.                                 *)
(***************************************************************************)
reconciles == /\ reconcile # NoCommand
              /\ reconcile' = NoCommand
              /\ IF reconcile = "DISCONNECT" THEN setDisconnected
                 ELSE IF state = "CONNECTING" THEN setError ELSE UNCHANGED stateVars
              /\ UNCHANGED <<command, commands, xray, disturbed, prepared>>
              /\ UNCHANGED <<stateServiceVars, engineVars, ikeVars>>

(***************************************************************************)
(* VpnBridge.handle of the report "disconnected": refused while a connect  *)
(* is recent, else active is read first and the state written after.       *)
(***************************************************************************)
xrayReport == /\ xray = "stopping"
              /\ \/ reconcile = "CONNECT" /\ xray' = "idle" /\ UNCHANGED <<reconcile, stateVars>>
                 \/ ~active /\ xray' = "checked" /\ UNCHANGED <<reconcile, stateVars>>
                 \/ /\ active /\ xray' = "idle" /\ reconcile' = NoCommand
                    /\ IF state = "DISCONNECTING" THEN setDisconnected ELSE UNCHANGED stateVars
              /\ UNCHANGED <<command, commands, disturbed, prepared>>
              /\ UNCHANGED <<stateServiceVars, engineVars, ikeVars>>

xrayDisconnected == /\ xray = "checked"
                    /\ xray' = "idle"
                    /\ reconcile' = NoCommand
                    /\ setDisconnected
                    /\ UNCHANGED <<command, commands, disturbed, prepared>>
                    /\ UNCHANGED <<stateServiceVars, engineVars, ikeVars>>

-----------------------------------------------------------------------------
(***************************************************************************)
(* The handler thread, with the native calls it makes.                     *)
(***************************************************************************)
handlerStep ==
  /\ \/ charonStopped /\ deinitializeCharon
     \/ initiated /\ initializeCharon
     \/ /\ \/ stopCurrentConnection
           \/ markDisconnecting
           \/ disabled
           \/ startNext
           \/ notInitialized
           \/ failedDisabled
        /\ UNCHANGED nativeVars
  /\ UNCHANGED <<mState, mError, mProfile, retryVars, intents, revoked>>
  /\ UNCHANGED <<stateVars, ikeVars, userVars>>

(***************************************************************************)
(* charon.  An error reported for a session that is being disconnected is  *)
(* the other way to be disturbed.                                          *)
(***************************************************************************)
ErrorPosted == /\ Len(posts') > Len(posts)
               /\ posts'[Len(posts')].op = "ERROR"

FinishCallback == /\ Callback
                  /\ UNCHANGED <<mState, mError, mProfile, retryVars, intents>>
                  /\ UNCHANGED <<stateVars, handlerVars, ikeVars, userVars>>

nativeEvent == /\ NativeEvent
               /\ disturbed' = (disturbed \/ (~active /\ ErrorPosted))
               /\ UNCHANGED <<command, commands, reconcile, xray, prepared>>
               /\ UNCHANGED <<mState, mError, mProfile, retryVars, intents>>
               /\ UNCHANGED <<stateVars, handlerVars, ikeVars>>

Next == \/ Command
        \/ mainPost \/ retryTick \/ controllerStep \/ ikeTimeout \/ activityBinds
        \/ startCommand \/ revoke
        \/ reconciles \/ xrayReport \/ xrayDisconnected
        \/ handlerStep
        \/ FinishCallback \/ nativeEvent

Spec == Init /\ [][Next]_vars

(***************************************************************************)
(* The looper runs what is posted, start commands are delivered, threads   *)
(* keep running and timers run out.  Nothing is assumed of the user, of    *)
(* charon's job that initiates, or of the peer.                            *)
(***************************************************************************)
Fairness == /\ WF_vars(mainPost)
            /\ WF_vars(retryTick)
            /\ WF_vars(controllerStep)
            /\ SF_vars(ikeTimeout)
            /\ WF_vars(startCommand)
            /\ WF_vars(reconciles)
            /\ WF_vars(xrayReport)
            /\ WF_vars(xrayDisconnected)
            /\ WF_vars(handlerStep)
            /\ WF_vars(FinishCallback)

FairSpec == Spec /\ Fairness

-----------------------------------------------------------------------------
(***************************************************************************)
(* When the handler thread has nothing to do and no profile is in use,     *)
(* nothing is left of a connection: no daemon, no descriptor, no tunnel    *)
(* that Android still routes to, however late charon's threads set one up. *)
(***************************************************************************)
NoOrphanTunnel ==
  handler = "wait" /\ mCurrentProfile = NoId => /\ ~charon
                                                /\ ~tunfd
                                                /\ device # "tunnel"

(***************************************************************************)
(* Once everything posted has run, VpnStateService tells the truth about   *)
(* the handler thread and charon, in whatever order their posts were       *)
(* interleaved: DISABLED exactly when no profile is in use, and CONNECTED  *)
(* only with a tunnel.                                                     *)
(***************************************************************************)
StateTells == Quiet => /\ mState = "DISABLED" <=> mCurrentProfile = NoId
                       /\ mState = "CONNECTED" => device = "tunnel"

(***************************************************************************)
(* While an IKE_SA is being initiated, also one that replaces another, the *)
(* hook that notices a failure is registered unless the failure of this    *)
(* very connection has been reported; charon's comments on                 *)
(* ike_reestablish_post and initiate say so.                               *)
(***************************************************************************)
FailureIsHeard == sa \in {"queued", "init"} /\ listener.on => listener.ike_updown

(***************************************************************************)
(* The user never waits for a connection without a watchdog.               *)
(***************************************************************************)
WaitIsWatched == NATIVE_LOADED /\ ~disturbed /\ state = "CONNECTING" => watchdog \/ reconcile = "CONNECT"

(***************************************************************************)
(* A disconnect in a quiet session of IkeController ends it: the tunnel is *)
(* closed, the daemon gone, and no countdown will connect again.           *)
(***************************************************************************)
DisconnectWins ==
  ~disturbed /\ Quiet /\ command = "DISCONNECT" => /\ device = "none"
                                                   /\ ~charon
                                                   /\ ~(retrying /\ retryMsgs > 0)

(***************************************************************************)
(* A wait for a connection ends.                                           *)
(***************************************************************************)
IkeWaitEnds == NATIVE_LOADED /\ state = "CONNECTING" ~> state # "CONNECTING"

(***************************************************************************)
(* The interface is handled as TunGuard promises.                          *)
(***************************************************************************)
Phase == IF handler \in {"mark", "deinit", "start"} /\ mNextProfile # NoId THEN "switching"
         ELSE IF mCurrentProfile # NoId THEN "running" ELSE "idle"

Guard == INSTANCE TunGuard WITH phase <- Phase

GuardSpec == Guard!Spec

(***************************************************************************)
(* What the comment in MainActivity.disconnect says without restriction:   *)
(* the latest intent wins, so after a disconnect, once every message has   *)
(* been handled, there is no tunnel.                                       *)
(***************************************************************************)
LatestIntentWins == Quiet /\ xray = "idle" /\ command = "DISCONNECT" => device # "tunnel"

=============================================================================
