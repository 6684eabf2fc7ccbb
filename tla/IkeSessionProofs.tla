-------------------------- MODULE IkeSessionProofs --------------------------
(***************************************************************************)
(* Proofs about IkeSession: its types, what is left of a connection that   *)
(* has ended, that failures are heard, and that it implements TunGuard.    *)
(***************************************************************************)
EXTENDS IkeSession, TLAPS

(***************************************************************************)
(* Where the handler thread is tells whether there is a profile, and only  *)
(* with a profile is there a daemon; without one there is no descriptor    *)
(* and no tunnel.  A listener method under way keeps the daemon alive:     *)
(* this is what deinitializeCharon() waits for.                            *)
(***************************************************************************)
HandlerInv == /\ handler \in {"mark", "deinit", "init", "failed"} => mCurrentProfile # NoId
              /\ handler = "start" => mCurrentProfile = NoId

DaemonInv == /\ charon => mCurrentProfile # NoId /\ handler \in {"wait", "mark", "deinit"}
             /\ callback # "idle" => charon
             /\ tunfd => charon
             /\ device = "tunnel" => charon

EngineInv == HandlerInv /\ DaemonInv

-----------------------------------------------------------------------------
(***************************************************************************)
(* What a post leaves in the queue of the looper.                          *)
(***************************************************************************)
LEMMA PostType ==
  ASSUME TypeOK, NEW op \in State \cup {"START", "ERROR", "NO_ERROR"}, NEW id \in Profile,
         Post(op, id)
  PROVE  posts' \in Seq(Posts)
<1>1. posts \in Seq(Posts)
  BY DEF TypeOK, StateServiceTypeOK
<1>2. [op |-> op, id |-> id] \in Posts
  BY DEF Posts
<1> QED
  BY <1>1, <1>2 DEF Post

LEMMA NoIdIsProfile == NoId \in Profile
BY DEF Profile

LEMMA StatusType ==
  ASSUME TypeOK, NEW s \in {"CHILD_UP", "CHILD_DOWN", "ERROR"}, updateStatus(s)
  PROVE  posts' \in Seq(Posts)
<1>1. ASSUME UNCHANGED posts PROVE posts' \in Seq(Posts)
  BY <1>1 DEF TypeOK, StateServiceTypeOK
<1>2. \/ Post("CONNECTED", NoId) \/ Post("CONNECTING", NoId) \/ Post("ERROR", NoId)
      \/ UNCHANGED posts
  BY DEF updateStatus, NoPost
<1> QED
  BY <1>1, <1>2, PostType, NoIdIsProfile DEF State

-----------------------------------------------------------------------------
(***************************************************************************)
(* Each part of the type invariant, step by step.                          *)
(***************************************************************************)
LEMMA StateServiceType ==
  ASSUME TypeOK, Next
  PROVE  StateServiceTypeOK'
<1> USE NoIdIsProfile
<1>0. StateServiceTypeOK
  BY DEF TypeOK
<1>1. ASSUME UNCHANGED stateServiceVars PROVE StateServiceTypeOK'
  BY <1>0, <1>1 DEF StateServiceTypeOK, stateServiceVars, retryVars
<1>2. ASSUME UNCHANGED <<mState, mError, mProfile, retryVars, intents>>, posts' \in Seq(Posts)
      PROVE  StateServiceTypeOK'
  BY <1>0, <1>2 DEF StateServiceTypeOK, retryVars
<1>3. ASSUME NEW id \in Ids, NEW f, claimAndConnect(id, f) PROVE StateServiceTypeOK'
  BY <1>0, <1>3 DEF StateServiceTypeOK, claimAndConnect, connectStarted, connectFailed, retryVars, Profile
<1>4. ASSUME disconnect PROVE StateServiceTypeOK'
  <2>1. CASE bound = "yes"
    <3>1. posts' \in Seq(Posts)
      BY <1>4, <2>1, PostType DEF disconnect
    <3>2. intents' \in Seq(Profile)
      BY <1>0, <1>4, <2>1 DEF disconnect, StateServiceTypeOK
    <3>3. mRetryIn' = 0 /\ retrying' = FALSE /\ UNCHANGED <<mState, mError, mProfile, retryMsgs>>
      BY <1>4, <2>1 DEF disconnect, resetRetryTimer
    <3> QED
      BY <1>0, <3>1, <3>2, <3>3 DEF StateServiceTypeOK
  <2>2. CASE bound # "yes"
    BY <1>0, <1>4, <2>2 DEF disconnect, StateServiceTypeOK, retryVars
  <2> QED
    BY <2>1, <2>2
<1>5. CASE Command
  <2>1. CASE \E id \in Ids : quickStart(id) \/ launchConnect(id)
    BY <1>3, <2>1 DEF quickStart, launchConnect
  <2>2. CASE requestDisconnect
    BY <1>1, <1>4, <2>2 DEF requestDisconnect
  <2> QED
    BY <1>5, <2>1, <2>2 DEF Command
<1>6. CASE mainPost
  <2> DEFINE p == Head(posts)
  <2>1. /\ p \in Posts
        /\ posts' \in Seq(Posts)
    BY <1>0, <1>6 DEF mainPost, runPost, StateServiceTypeOK
  <2>2. p.op \in State \cup {"START", "ERROR", "NO_ERROR"} /\ p.id \in Profile
    BY <2>1 DEF Posts
  <2> HIDE DEF p
  <2>3. CASE startConnection(p.id)
    BY <1>0, <1>6, <2>1, <2>2, <2>3
    DEF mainPost, runPost, startConnection, resetRetryTimer, StateServiceTypeOK, State
  <2>4. CASE p.op \in State /\ setState(p.op)
    BY <1>0, <1>6, <2>1, <2>2, <2>4 DEF mainPost, runPost, setState, retryVars, StateServiceTypeOK
  <2>5. CASE setErrorState(p.op = "ERROR")
    <3>1. mError' \in BOOLEAN
      BY <2>5 DEF setErrorState
    <3>2. retrying' \in BOOLEAN /\ mRetryIn' \in Nat /\ retryMsgs' \in Nat
      <4>1. UNCHANGED retryVars \/ setRetryTimer \/ resetRetryTimer
        BY <2>5 DEF setErrorState
      <4>2. CASE UNCHANGED retryVars
        BY <1>0, <4>2 DEF retryVars, StateServiceTypeOK
      <4>3. CASE setRetryTimer
        BY <1>0, <4>3, PostsAssumption DEF setRetryTimer, StateServiceTypeOK
      <4>4. CASE resetRetryTimer
        BY <1>0, <4>4 DEF resetRetryTimer, StateServiceTypeOK
      <4> QED
        BY <4>1, <4>2, <4>3, <4>4
    <3> QED
      BY <1>0, <1>6, <2>1, <2>5, <3>1, <3>2 DEF mainPost, runPost, setErrorState, StateServiceTypeOK
  <2> QED
    BY <1>6, <2>3, <2>4, <2>5 DEF mainPost, runPost, p
<1>7. CASE retryTick
  <2>1. CASE retryIgnored
    BY <1>0, <2>1 DEF retryIgnored, StateServiceTypeOK
  <2>2. CASE retryCounts
    BY <1>0, <2>2 DEF retryCounts, StateServiceTypeOK
  <2>3. CASE retryConnects
    <3>1. intents' \in Seq(Profile) /\ mRetryIn' \in Nat /\ retryMsgs' \in Nat
      BY <1>0, <2>3 DEF retryConnects, StateServiceTypeOK
    <3> QED
      BY <1>0, <2>3, <3>1 DEF retryConnects, StateServiceTypeOK
  <2> QED
    BY <1>7, <2>1, <2>2, <2>3 DEF retryTick
<1>8. CASE controllerStep
  BY <1>1, <1>8 DEF controllerStep, onServiceConnected, claimTick
<1>9. CASE ikeTimeout
  BY <1>1, <1>4, <1>9 DEF ikeTimeout, connectTimeout
<1>10. CASE startCommand
  BY <1>0, <1>10 DEF startCommand, onStartCommand, retryVars, StateServiceTypeOK
<1>11. CASE handlerStep
  <2>1. posts' \in Seq(Posts)
    <3>1. CASE UNCHANGED posts
      BY <1>0, <3>1 DEF StateServiceTypeOK
    <3>2. CASE \/ Post("DISCONNECTING", NoId) \/ Post("DISABLED", NoId) \/ Post("ERROR", NoId)
      BY <3>2, PostType DEF State
    <3>3. CASE startNext
      <4>1. mNextProfile \in Profile
        BY DEF TypeOK, CharonServiceTypeOK
      <4> QED
        BY <3>3, <4>1, PostType DEF startNext
    <3> QED
      BY <1>11, <3>1, <3>2, <3>3
      DEF handlerStep, charonStopped, initiated, stopCurrentConnection, markDisconnecting,
          disabled, notInitialized, failedDisabled, NoPost
  <2> QED
    BY <1>2, <1>11, <2>1 DEF handlerStep
<1>12. CASE FinishCallback \/ nativeEvent
  <2>1. \/ UNCHANGED posts
        \/ updateStatus("CHILD_UP") \/ updateStatus("CHILD_DOWN") \/ updateStatus("ERROR")
    BY <1>12
    DEF FinishCallback, nativeEvent, Callback, NativeEvent, setup_tun_device,
        setup_tun_device_without_dns, ike_reestablish_post, initiate, ikeDown, alert, childUp,
        childDown, ike_reestablish_pre, GiveUp, NoPost
  <2>2. posts' \in Seq(Posts)
    BY <1>0, <2>1, StatusType DEF StateServiceTypeOK
  <2> QED
    BY <1>2, <1>12, <2>2 DEF FinishCallback, nativeEvent
<1>13. CASE activityBinds \/ revoke \/ reconciles \/ xrayReport \/ xrayDisconnected
  BY <1>1, <1>13 DEF activityBinds, revoke, interfaceRevoked, onRevoke, reconciles, xrayReport,
                     xrayDisconnected
<1> QED
  BY <1>5, <1>6, <1>7, <1>8, <1>9, <1>10, <1>11, <1>12, <1>13 DEF Next

(***************************************************************************)
(* What runs beside the engine.                                            *)
(***************************************************************************)
OnMain == \/ Command \/ mainPost \/ retryTick \/ controllerStep \/ ikeTimeout
          \/ activityBinds \/ reconciles \/ xrayReport \/ xrayDisconnected

LEMMA OnMainLeavesEngine ==
  ASSUME OnMain
  PROVE  UNCHANGED engineVars
BY DEF OnMain, Command, quickStart, launchConnect, requestDisconnect, mainPost, retryTick,
       controllerStep, ikeTimeout, activityBinds, reconciles, xrayReport, xrayDisconnected

LEMMA CharonServiceType ==
  ASSUME TypeOK, Next
  PROVE  CharonServiceTypeOK'
<1> USE NoIdIsProfile
<1>0. CharonServiceTypeOK /\ intents \in Seq(Profile)
  BY DEF TypeOK, StateServiceTypeOK
<1>9. prepared' \in BOOLEAN
  <2>1. prepared \in BOOLEAN
    BY <1>0 DEF CharonServiceTypeOK
  <2>2. CASE Command \/ revoke
    BY <2>1, <2>2 DEF Command, quickStart, launchConnect, requestDisconnect, revoke, interfaceRevoked, onRevoke
  <2>3. CASE \/ mainPost \/ retryTick \/ controllerStep \/ ikeTimeout \/ activityBinds
             \/ startCommand \/ reconciles \/ xrayReport \/ xrayDisconnected
             \/ handlerStep \/ FinishCallback \/ nativeEvent
    BY <2>1, <2>3 DEF mainPost, retryTick, controllerStep, ikeTimeout, activityBinds, startCommand,
       reconciles, xrayReport, xrayDisconnected, handlerStep, FinishCallback, nativeEvent, userVars
  <2> QED
    BY <2>2, <2>3 DEF Next
<1>1. ASSUME UNCHANGED <<handlerVars, device>> PROVE CharonServiceTypeOK'
  BY <1>0, <1>9, <1>1 DEF CharonServiceTypeOK, handlerVars
<1>2. CASE startCommand
  BY <1>0, <1>9, <1>2 DEF startCommand, onStartCommand, setNextProfile, CharonServiceTypeOK
<1>3. CASE revoke
  BY <1>0, <1>9, <1>3 DEF revoke, interfaceRevoked, onRevoke, setNextProfile, CharonServiceTypeOK, Device
<1>4. CASE handlerStep
  <2>0. UNCHANGED revoked
    BY <1>4 DEF handlerStep
  <2>1. CASE stopCurrentConnection
    BY <1>0, <1>9, <2>0, <2>1
    DEF stopCurrentConnection, establishBlocking, Refused, CharonServiceTypeOK, HandlerPc, Device
  <2>2. CASE markDisconnecting
    BY <1>0, <1>9, <2>0, <2>2 DEF markDisconnecting, CharonServiceTypeOK, HandlerPc
  <2>3. CASE charonStopped
    <3>1. device' \in Device
      BY <1>0, <1>9, <2>0, <2>3 DEF charonStopped, WithoutTunnel, WithoutBlocking, CharonServiceTypeOK, Device
    <3> QED
      BY <1>0, <1>9, <2>0, <2>3, <3>1 DEF charonStopped, CharonServiceTypeOK, HandlerPc
  <2>4. CASE disabled \/ initiated \/ notInitialized
    BY <1>0, <1>9, <2>0, <2>4 DEF disabled, initiated, notInitialized, CharonServiceTypeOK, HandlerPc
  <2>5. CASE startNext \/ failedDisabled
    BY <1>0, <1>9, <2>0, <2>5 DEF startNext, failedDisabled, CharonServiceTypeOK, HandlerPc
  <2> QED
    BY <1>4, <2>1, <2>2, <2>3, <2>4, <2>5 DEF handlerStep
<1>5. CASE nativeEvent
  <2>1. device' \in Device
    BY <1>0, <1>9, <1>5
    DEF nativeEvent, NativeEvent, initiate, ikeDown, alert, childUp, childDown, ike_reestablish_pre,
        establish, Refused, CharonServiceTypeOK, Device
  <2> QED
    BY <1>0, <1>9, <1>5, <2>1 DEF nativeEvent, handlerVars, CharonServiceTypeOK
<1>6. CASE FinishCallback
  BY <1>1, <1>6 DEF FinishCallback, Callback, setup_tun_device, setup_tun_device_without_dns,
                    ike_reestablish_post
<1>7. CASE OnMain
  BY <1>1, <1>7, OnMainLeavesEngine DEF engineVars
<1> QED
  BY <1>2, <1>3, <1>4, <1>5, <1>6, <1>7 DEF Next, OnMain

LEMMA NativeType ==
  ASSUME TypeOK, Next
  PROVE  NativeTypeOK'
<1>0. NativeTypeOK
  BY DEF TypeOK
<1>1. ASSUME UNCHANGED nativeVars PROVE NativeTypeOK'
  BY <1>0, <1>1 DEF NativeTypeOK, nativeVars
<1>2. Off \in Listener
  BY DEF Off, Listener
<1>3. CASE handlerStep
  <2>1. CASE initializeCharon
    BY <1>0, <2>1 DEF initializeCharon, NativeTypeOK, Listener, SaPhase
  <2>2. CASE deinitializeCharon
    BY <1>0, <1>2, <2>2 DEF deinitializeCharon, NativeTypeOK, SaPhase
  <2> QED
    BY <1>1, <1>3, <2>1, <2>2 DEF handlerStep
<1>4. CASE FinishCallback
  <2>1. CASE setup_tun_device \/ setup_tun_device_without_dns
    BY <1>0, <2>1 DEF setup_tun_device, setup_tun_device_without_dns, NativeTypeOK, CallbackPc
  <2>2. CASE ike_reestablish_post
    BY <1>0, <2>2 DEF ike_reestablish_post, NativeTypeOK, Listener, SaPhase, CallbackPc
  <2> QED
    BY <1>4, <2>1, <2>2 DEF FinishCallback, Callback
<1>5. CASE nativeEvent
  <2>1. CASE initiate \/ childDown
    BY <1>0, <2>1 DEF initiate, childDown, NativeTypeOK, SaPhase
  <2>2. CASE ikeDown \/ alert
    <3>1. listener' \in {Off, listener} /\ sa' = "gone" /\ UNCHANGED <<charon, tunfd, callback>>
      BY <2>2 DEF ikeDown, alert, GiveUp
    <3> QED
      BY <1>0, <1>2, <3>1 DEF NativeTypeOK, SaPhase
  <2>3. CASE childUp
    <3>1. [on |-> TRUE, ike_updown |-> FALSE, ike_reestablish |-> TRUE] \in Listener
      BY DEF Listener
    <3>2. listener' \in Listener /\ callback' \in {"swap", callback}
      BY <1>2, <2>3, <3>1 DEF childUp, GiveUp
    <3> QED
      BY <1>0, <2>3, <3>2 DEF childUp, NativeTypeOK, SaPhase, CallbackPc
  <2>4. CASE ike_reestablish_pre
    BY <1>0, <2>4 DEF ike_reestablish_pre, NativeTypeOK, CallbackPc
  <2> QED
    BY <1>5, <2>1, <2>2, <2>3, <2>4 DEF nativeEvent, NativeEvent
<1>6. CASE startCommand \/ revoke
  BY <1>1, <1>6 DEF startCommand, revoke
<1>7. CASE OnMain
  BY <1>1, <1>7, OnMainLeavesEngine DEF engineVars
<1> QED
  BY <1>3, <1>4, <1>5, <1>6, <1>7 DEF Next, OnMain

LEMMA IkeType ==
  ASSUME TypeOK, Next
  PROVE  IkeTypeOK' /\ StateTypeOK'
<1> USE NoIdIsProfile
<1>0. IkeTypeOK /\ StateTypeOK /\ mState \in State
  BY DEF TypeOK, StateServiceTypeOK
<1>1. ASSUME UNCHANGED <<ikeVars, stateVars>> PROVE IkeTypeOK' /\ StateTypeOK'
  BY <1>0, <1>1 DEF IkeTypeOK, StateTypeOK, ikeVars, stateVars
<1>2. ASSUME UNCHANGED ikeVars, setDisconnected \/ setDisconnecting \/ setError
      PROVE  IkeTypeOK' /\ StateTypeOK'
  BY <1>0, <1>2 DEF IkeTypeOK, StateTypeOK, ikeVars, setDisconnected, setDisconnecting, setError, Connection
<1>3. ASSUME NEW s \in State, NEW e, pushState(s, e), bound' \in {"no", "binding", "yes"}
      PROVE  IkeTypeOK' /\ StateTypeOK'
  <2>1. StateTypeOK'
    BY <1>0, <1>3 DEF pushState, setConnected, setError, setDisconnected, StateTypeOK, stateVars, Connection
  <2>2. IkeTypeOK'
    BY <1>0, <1>3 DEF pushState, IkeTypeOK
  <2> QED
    BY <2>1, <2>2
<1>4. ASSUME NEW s \in State, NEW e, stateChanged(s, e) PROVE IkeTypeOK' /\ StateTypeOK'
  <2>1. CASE bound = "yes"
    BY <1>0, <1>3, <1>4, <2>1 DEF stateChanged, IkeTypeOK
  <2>2. CASE bound # "yes"
    BY <1>1, <1>4, <2>2 DEF stateChanged, ikeVars
  <2> QED
    BY <2>1, <2>2
<1>5. ASSUME NEW id \in Ids, NEW f \in {"ERROR", "DISCONNECTED"}, claimAndConnect(id, f)
      PROVE  IkeTypeOK' /\ StateTypeOK'
  <2>1. StateTypeOK'
    BY <1>0, <1>5 DEF claimAndConnect, connectStarted, setConnecting, StateTypeOK, Connection
  <2>2. active' \in BOOLEAN /\ watchdog' \in BOOLEAN /\ bound' \in {"no", "binding", "yes"}
    BY <1>0, <1>5 DEF claimAndConnect, connectStarted, connectFailed, bind, IkeTypeOK
  <2> QED
    BY <1>0, <1>5, <2>1, <2>2, ClaimAssumption DEF claimAndConnect, IkeTypeOK, Profile
<1>6. ASSUME disconnect PROVE IkeTypeOK'
  BY <1>0, <1>6 DEF disconnect, IkeTypeOK, State
<1>7. ASSUME setDisconnected \/ setDisconnecting \/ setError PROVE StateTypeOK'
  BY <1>0, <1>7 DEF StateTypeOK, setDisconnected, setDisconnecting, setError, Connection
<1>8. CASE Command
  <2>1. CASE \E id \in Ids : quickStart(id) \/ launchConnect(id)
    BY <1>5, <2>1 DEF quickStart, launchConnect
  <2>2. CASE requestDisconnect
    BY <1>2, <1>6, <1>7, <2>2 DEF requestDisconnect
  <2> QED
    BY <1>8, <2>1, <2>2 DEF Command
<1>9. CASE mainPost
  <2>1. mState' \in State
    BY StateServiceType DEF StateServiceTypeOK
  <2> QED
    BY <1>1, <1>4, <1>9, <2>1 DEF mainPost
<1>10. CASE retryTick
  BY <1>0, <1>1, <1>4, <1>10 DEF retryTick
<1>11. CASE controllerStep
  <2>1. CASE onServiceConnected
    BY <1>0, <1>3, <2>1 DEF onServiceConnected
  <2>2. CASE claimTick
    <3>1. StateTypeOK'
      BY <1>0, <2>2 DEF claimTick, setConnecting, StateTypeOK, IkeTypeOK, stateVars, Connection, Profile
    <3>2. claimTicks' \in Nat
      BY <1>0, <2>2 DEF claimTick, IkeTypeOK
    <3> QED
      BY <1>0, <2>2, <3>1, <3>2 DEF claimTick, IkeTypeOK
  <2> QED
    BY <1>11, <2>1, <2>2 DEF controllerStep
<1>12. CASE ikeTimeout
  <2>1. CASE disconnect /\ setError
    BY <1>6, <1>7, <2>1
  <2>2. CASE watchdog' = FALSE /\ UNCHANGED <<active, claimedId, ikeState, bound, claimTicks,
                                              NATIVE_LOADED, stateVars, stateServiceVars>>
    BY <1>0, <2>2 DEF IkeTypeOK, StateTypeOK, stateVars
  <2> QED
    BY <1>12, <2>1, <2>2 DEF ikeTimeout, connectTimeout
<1>13. CASE activityBinds
  BY <1>0, <1>13 DEF activityBinds, bind, IkeTypeOK, StateTypeOK, stateVars
<1>14. CASE reconciles \/ xrayReport \/ xrayDisconnected
  BY <1>1, <1>2, <1>14 DEF reconciles, xrayReport, xrayDisconnected
<1>15. CASE startCommand \/ revoke \/ handlerStep \/ FinishCallback \/ nativeEvent
  BY <1>1, <1>15 DEF startCommand, revoke, handlerStep, FinishCallback, nativeEvent
<1> QED
  BY <1>8, <1>9, <1>10, <1>11, <1>12, <1>13, <1>14, <1>15 DEF Next

LEMMA UserType ==
  ASSUME TypeOK, Next
  PROVE  UserTypeOK'
<1>0. UserTypeOK
  BY DEF TypeOK
<1>1. ASSUME UNCHANGED userVars PROVE UserTypeOK'
  BY <1>0, <1>1 DEF UserTypeOK, userVars
<1>2. ASSUME NEW k \in Kind, NEW u, NewCommand(k, u),
             reconcile' \in Kind \cup {NoCommand}, xray' \in {"idle", "stopping", "checked"}
      PROVE  UserTypeOK'
  BY <1>0, <1>2 DEF NewCommand, UserTypeOK
<1>3. CASE Command
  BY <1>0, <1>2, <1>3 DEF Command, quickStart, launchConnect, requestDisconnect, UserTypeOK, Kind
<1>4. CASE reconciles \/ xrayReport \/ xrayDisconnected
  BY <1>0, <1>4 DEF reconciles, xrayReport, xrayDisconnected, UserTypeOK
<1>5. CASE nativeEvent
  BY <1>0, <1>5 DEF nativeEvent, UserTypeOK
<1>6. CASE \/ mainPost \/ retryTick \/ controllerStep \/ ikeTimeout \/ activityBinds
           \/ startCommand \/ revoke \/ handlerStep \/ FinishCallback
  BY <1>0, <1>1, <1>6 DEF mainPost, retryTick, controllerStep, ikeTimeout, activityBinds, startCommand,
                    revoke, UserTypeOK, userVars, handlerStep, FinishCallback
<1> QED
  BY <1>3, <1>4, <1>5, <1>6 DEF Next

-----------------------------------------------------------------------------
(***************************************************************************)
(* The type invariant of the whole session.                                *)
(***************************************************************************)
LEMMA TypeInit == Init => TypeOK
<1> SUFFICES ASSUME Init PROVE TypeOK
  OBVIOUS
<1> USE NoIdIsProfile
<1>1. StateTypeOK /\ UserTypeOK
  BY DEF Init, StateInit, StateTypeOK, UserTypeOK, Connection, Kind, NoCommand
<1>2. StateServiceTypeOK
  <2>1. posts \in Seq(Posts) /\ intents \in Seq(Profile)
    BY DEF Init, StateServiceInit
  <2> QED
    BY <2>1 DEF Init, StateServiceInit, StateServiceTypeOK, State
<1>3. CharonServiceTypeOK
  BY DEF Init, CharonServiceInit, CharonServiceTypeOK, HandlerPc, Device
<1>4. NativeTypeOK
  BY DEF Init, NativeInit, NativeTypeOK, Listener, Off, SaPhase, CallbackPc
<1>5. IkeTypeOK
  BY DEF Init, IkeInit, IkeTypeOK, State
<1> QED
  BY <1>1, <1>2, <1>3, <1>4, <1>5 DEF TypeOK

LEMMA TypeStep == TypeOK /\ [Next]_vars => TypeOK'
<1> SUFFICES ASSUME TypeOK, [Next]_vars PROVE TypeOK'
  OBVIOUS
<1>1. CASE Next
  BY <1>1, StateServiceType, CharonServiceType, NativeType, IkeType, UserType DEF TypeOK
<1>2. CASE UNCHANGED vars
  BY <1>2 DEF TypeOK, vars, StateTypeOK, StateServiceTypeOK, CharonServiceTypeOK, NativeTypeOK,
              IkeTypeOK, UserTypeOK, stateVars, stateServiceVars, retryVars, handlerVars, nativeVars,
              ikeVars, userVars
<1> QED
  BY <1>1, <1>2

(***************************************************************************)
(* Every variable of an IKEv2 session keeps its type, whatever the looper, *)
(* the handler thread and charon's threads do.                             *)
(***************************************************************************)
THEOREM TypeCorrect == Spec => []TypeOK
BY TypeInit, TypeStep, PTL DEF Spec

-----------------------------------------------------------------------------
(***************************************************************************)
(* The invariant of the engine.                                            *)
(***************************************************************************)
LEMMA EngineInit == Init => EngineInv
BY DEF Init, EngineInv, HandlerInv, DaemonInv, CharonServiceInit, NativeInit

LEMMA EngineStep == TypeOK /\ EngineInv /\ [Next]_vars => EngineInv'
<1> SUFFICES ASSUME TypeOK, EngineInv, [Next]_vars PROVE EngineInv'
  OBVIOUS
<1> USE DEF EngineInv, HandlerInv, DaemonInv
<1>1. ASSUME UNCHANGED engineVars PROVE EngineInv'
  BY <1>1 DEF engineVars, handlerVars, nativeVars
<1>2. CASE startCommand
  BY <1>2 DEF startCommand, onStartCommand, setNextProfile, nativeVars
<1>3. CASE revoke
  BY <1>3 DEF revoke, interfaceRevoked, onRevoke, setNextProfile, nativeVars
<1>4. CASE handlerStep
  <2>1. CASE stopCurrentConnection /\ UNCHANGED nativeVars
    BY <2>1 DEF stopCurrentConnection, establishBlocking, Refused, nativeVars
  <2>2. CASE markDisconnecting /\ UNCHANGED nativeVars
    BY <2>2 DEF markDisconnecting, nativeVars
  <2>3. CASE charonStopped /\ deinitializeCharon
    BY <2>3 DEF charonStopped, deinitializeCharon, WithoutTunnel, WithoutBlocking
  <2>4. CASE disabled /\ UNCHANGED nativeVars
    BY <2>4 DEF disabled, nativeVars
  <2>5. CASE startNext /\ UNCHANGED nativeVars
    BY <2>5 DEF startNext, nativeVars
  <2>6. CASE initiated /\ initializeCharon
    BY <2>6 DEF initiated, initializeCharon
  <2>7. CASE notInitialized /\ UNCHANGED nativeVars
    BY <2>7 DEF notInitialized, nativeVars
  <2>8. CASE failedDisabled /\ UNCHANGED nativeVars
    BY <2>8 DEF failedDisabled, nativeVars
  <2> QED
    BY <1>4, <2>1, <2>2, <2>3, <2>4, <2>5, <2>6, <2>7, <2>8 DEF handlerStep
<1>5. CASE FinishCallback
  BY <1>5 DEF FinishCallback, Callback, setup_tun_device, setup_tun_device_without_dns,
              ike_reestablish_post, handlerVars
<1>6. CASE nativeEvent
  <2>1. UNCHANGED handlerVars
    BY <1>6 DEF nativeEvent
  <2>2. charon /\ UNCHANGED charon
    BY <1>6 DEF nativeEvent, NativeEvent, Event, initiate, ikeDown, alert, childUp, childDown,
                ike_reestablish_pre
  <2> QED
    BY <2>1, <2>2 DEF handlerVars
<1>7. CASE OnMain
  BY <1>1, <1>7, OnMainLeavesEngine
<1>8. CASE UNCHANGED vars
  BY <1>1, <1>8 DEF vars, engineVars
<1> QED
  BY <1>2, <1>3, <1>4, <1>5, <1>6, <1>7, <1>8 DEF Next, OnMain

LEMMA EngineCorrect == Spec => []EngineInv
BY EngineInit, EngineStep, TypeCorrect, PTL DEF Spec

(***************************************************************************)
(* When CharonVpnService's handler thread is at rest without a profile,    *)
(* the daemon, its descriptor and the tunnel are gone.                     *)
(***************************************************************************)
THEOREM NothingIsLeft == Spec => []NoOrphanTunnel
<1>1. EngineInv => NoOrphanTunnel
  BY DEF EngineInv, DaemonInv, NoOrphanTunnel
<1> QED
  BY <1>1, EngineCorrect, PTL

-----------------------------------------------------------------------------
LEMMA HeardStep == TypeOK /\ FailureIsHeard /\ [Next]_vars => FailureIsHeard'
<1> SUFFICES ASSUME TypeOK, FailureIsHeard, [Next]_vars PROVE FailureIsHeard'
  OBVIOUS
<1> USE DEF FailureIsHeard
<1>0. listener \in Listener
  BY DEF TypeOK, NativeTypeOK
<1>1. ASSUME UNCHANGED nativeVars PROVE FailureIsHeard'
  BY <1>1 DEF nativeVars
<1>2. CASE handlerStep
  <2>1. CASE initializeCharon
    BY <2>1 DEF initializeCharon
  <2>2. CASE deinitializeCharon
    BY <2>2 DEF deinitializeCharon
  <2> QED
    BY <1>1, <1>2, <2>1, <2>2 DEF handlerStep
<1>3. CASE FinishCallback
  <2>1. CASE setup_tun_device \/ setup_tun_device_without_dns
    BY <2>1 DEF setup_tun_device, setup_tun_device_without_dns
  <2>2. CASE ike_reestablish_post
    BY <1>0, <2>2 DEF ike_reestablish_post, Listener
  <2> QED
    BY <1>3, <2>1, <2>2 DEF FinishCallback, Callback
<1>4. CASE nativeEvent
  <2>1. CASE initiate
    BY <2>1 DEF initiate
  <2>2. CASE ikeDown \/ alert \/ childUp \/ childDown
    <3>1. sa' \in {"gone", "up", "down"}
      BY <2>2 DEF ikeDown, alert, childUp, childDown
    <3> QED
      BY <3>1
  <2>3. CASE ike_reestablish_pre
    BY <2>3 DEF ike_reestablish_pre
  <2> QED
    BY <1>4, <2>1, <2>2, <2>3 DEF nativeEvent, NativeEvent
<1>5. CASE startCommand \/ revoke
  BY <1>1, <1>5 DEF startCommand, revoke
<1>6. CASE OnMain
  BY <1>1, <1>6, OnMainLeavesEngine DEF engineVars
<1>7. CASE UNCHANGED vars
  BY <1>1, <1>7 DEF vars
<1> QED
  BY <1>2, <1>3, <1>4, <1>5, <1>6, <1>7 DEF Next, OnMain

(***************************************************************************)
(* The hook of android_service.c that notices the failure of an IKE_SA     *)
(* being initiated is registered as long as the listener is.               *)
(***************************************************************************)
THEOREM FailuresAreHeard == Spec => []FailureIsHeard
<1>1. Init => FailureIsHeard
  BY DEF Init, NativeInit, FailureIsHeard
<1> QED
  BY <1>1, HeardStep, TypeCorrect, PTL DEF Spec

-----------------------------------------------------------------------------
(***************************************************************************)
(* A step of the session is a step of TunGuard or leaves it alone.         *)
(***************************************************************************)
LEMMA GuardStep == TypeOK /\ EngineInv /\ [Next]_vars => [Guard!Next]_(Guard!vars)
<1> SUFFICES ASSUME TypeOK, EngineInv, [Next]_vars PROVE [Guard!Next]_(Guard!vars)
  OBVIOUS
<1> USE DEF Phase, Guard!vars
<1>0. device \in Device /\ HandlerInv /\ DaemonInv
  BY DEF TypeOK, CharonServiceTypeOK, EngineInv
<1>1. ASSUME UNCHANGED <<handlerVars, device>> PROVE UNCHANGED Guard!vars
  BY <1>1 DEF handlerVars
<1>2. CASE startCommand
  BY <1>2 DEF startCommand, onStartCommand, setNextProfile
<1>3. CASE revoke
  BY <1>3 DEF revoke, interfaceRevoked, onRevoke, setNextProfile, Guard!Next, Guard!Revoke, Guard!Heard
<1>4. CASE handlerStep
  <2>0. UNCHANGED revoked
    BY <1>4 DEF handlerStep
  <2>1. CASE stopCurrentConnection
    BY <2>0, <2>1 DEF stopCurrentConnection, establishBlocking, Refused, Guard!Next, Guard!Engine, Guard!Switch
  <2>2. CASE markDisconnecting
    BY <2>0, <2>2 DEF markDisconnecting
  <2>3. CASE charonStopped
    <3>1. CASE mNextProfile = NoId
      BY <1>0, <2>0, <2>3, <3>1
      DEF charonStopped, WithoutTunnel, WithoutBlocking, Device, HandlerInv, Guard!Next, Guard!Engine,
          Guard!Release
    <3>2. CASE mNextProfile # NoId
      BY <2>0, <2>3, <3>2 DEF charonStopped, WithoutTunnel, Guard!Next, Guard!Engine, Guard!Drop
    <3> QED
      BY <3>1, <3>2
  <2>4. CASE disabled
    BY <2>0, <2>4 DEF disabled
  <2>5. CASE startNext
    BY <2>0, <2>5 DEF startNext, Guard!Next, Guard!Engine, Guard!Started
  <2>6. CASE initiated \/ notInitialized
    BY <2>0, <2>6 DEF initiated, notInitialized
  <2>7. CASE failedDisabled
    BY <1>0, <2>0, <2>7 DEF failedDisabled, HandlerInv, Guard!Next, Guard!Engine, Guard!Abandon
  <2> QED
    BY <1>4, <2>1, <2>2, <2>3, <2>4, <2>5, <2>6, <2>7 DEF handlerStep
<1>5. CASE FinishCallback
  BY <1>1, <1>5 DEF FinishCallback, Callback, setup_tun_device, setup_tun_device_without_dns,
                    ike_reestablish_post
<1>6. CASE nativeEvent
  <2>1. charon /\ UNCHANGED handlerVars
    BY <1>6 DEF nativeEvent, NativeEvent, Event, initiate, ikeDown, alert, childUp, childDown,
                ike_reestablish_pre
  <2>2. device' \in {device, "tunnel"}
    BY <1>6 DEF nativeEvent, NativeEvent, initiate, ikeDown, alert, childUp, childDown,
                ike_reestablish_pre, establish, Refused
  <2>3. Phase \in {"switching", "running"} /\ UNCHANGED Phase
    BY <1>0, <2>1 DEF DaemonInv, handlerVars
  <2> QED
    BY <2>1, <2>2, <2>3 DEF handlerVars, Guard!Next, Guard!Engine, Guard!Tunnel
<1>7. CASE OnMain
  BY <1>1, <1>7, OnMainLeavesEngine DEF engineVars
<1>8. CASE UNCHANGED vars
  BY <1>1, <1>8 DEF vars
<1> QED
  BY <1>2, <1>3, <1>4, <1>5, <1>6, <1>7, <1>8 DEF Next, OnMain

(***************************************************************************)
(* The IKEv2 engine implements TunGuard: from the start of a switch until  *)
(* the next connection is started, CharonVpnService gives the interface    *)
(* that blocks traffic up for nothing but a tunnel.  Android may take it   *)
(* away meanwhile, once before onRevoke has run.                           *)
(***************************************************************************)
THEOREM ImplementsTunGuard == Spec => GuardSpec
<1>1. Init => Guard!Init
  BY DEF Init, CharonServiceInit, Guard!Init, Phase
<1> QED
  BY <1>1, GuardStep, TypeCorrect, EngineCorrect, PTL DEF Spec, GuardSpec, Guard!Spec

=============================================================================
