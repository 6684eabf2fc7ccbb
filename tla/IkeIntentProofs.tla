-------------------------- MODULE IkeIntentProofs --------------------------
(***************************************************************************)
(* More proofs about IkeSession: that VpnStateService tells the truth once *)
(* its posts have run, that the user never waits unwatched, and that a     *)
(* disconnect wins.                                                        *)
(***************************************************************************)
EXTENDS IkeSessionProofs

(***************************************************************************)
(* The states the looper will have set, in order: now, and by each post.   *)
(* NotLast(w) says that the state will not be left at w.                   *)
(***************************************************************************)
Says(op) == IF op = "START" THEN "CONNECTING" ELSE op

Word(k) == IF k = 0 THEN mState ELSE Says(posts[k].op)

NotLast(w) == \A k \in 0..Len(posts) :
                Word(k) = w => \E m \in k + 1..Len(posts) : Word(m) \in State \ {w}

(***************************************************************************)
(* What the last word is, by where the handler thread is.                  *)
(***************************************************************************)
TellsInv ==
  /\ mCurrentProfile # NoId => NotLast("DISABLED")
  /\ handler = "wait" /\ mCurrentProfile = NoId => \A w \in State \ {"DISABLED"} : NotLast(w)
  /\ handler = "wait" /\ ~mProfileUpdated /\ ~revoked /\ device # "tunnel" => NotLast("CONNECTED")
  /\ handler \in {"init", "failed"} => NotLast("CONNECTED")
  /\ callback = "swap" /\ handler = "wait" /\ ~mProfileUpdated /\ ~revoked => device = "tunnel"

(***************************************************************************)
(* All posts, or some post, have an op in O.                               *)
(***************************************************************************)
Only(O) == \A k \in DOMAIN posts : posts[k].op \in O
Some(O) == \E k \in DOMAIN posts : posts[k].op \in O

Ops == State \cup {"START", "ERROR", "NO_ERROR"}
Upward == {"START", "CONNECTING", "CONNECTED", "DISCONNECTING"}
Downward == {"START", "DISCONNECTING", "DISABLED"}

(***************************************************************************)
(* A countdown has a profile to connect: the post that starts it follows   *)
(* the one that sets the profile.                                          *)
(***************************************************************************)
StartBefore(k) == \E m \in 1..k - 1 : posts[m].op = "START"

ProfileInv == /\ retrying => mProfile # NoId
              /\ \A k \in DOMAIN posts : posts[k].op = "START" => posts[k].id # NoId
              /\ \A k \in DOMAIN posts : posts[k].op = "ERROR" => mProfile # NoId \/ StartBefore(k)
              /\ mCurrentProfile # NoId => mProfile # NoId \/ Some({"START"})

(***************************************************************************)
(* mNextProfile is only set between a command and the start it asks for.   *)
(***************************************************************************)
NextProfileInv ==
  handler \in {"init", "failed"} \/ (handler = "wait" /\ ~mProfileUpdated) => mNextProfile = NoId

(***************************************************************************)
(* Without the library, or before the service is bound, nothing is ever    *)
(* started.                                                                *)
(***************************************************************************)
Untouched == bound = "no" \/ ~NATIVE_LOADED

NothingStarted == /\ mCurrentProfile = NoId /\ mNextProfile = NoId /\ device = "none"
                  /\ handler \in {"wait", "start"}
                  /\ ~retrying
                  /\ intents \in Seq({NoId})
                  /\ Only({"DISABLED", "NO_ERROR"})

UntouchedInv == Untouched => NothingStarted

(***************************************************************************)
(* A session that IkeController owns while the state is DISABLED is about  *)
(* to be started, or nothing is left of it.  If the interface was taken    *)
(* away, and onRevoke may still cancel the start, only a start that the    *)
(* handler thread has taken up sets up another.                            *)
(***************************************************************************)
Coming == intents # <<>> \/ mNextProfile # NoId \/ Some(Upward)

TakenUp == Some(Upward) \/ (mNextProfile # NoId /\ handler \in {"mark", "deinit", "start"})

OwnedOK == /\ intents \in Seq(Ids)
           /\ bound = "yes" /\ mState = "DISABLED" => Coming \/ device = "none"
           /\ bound = "yes" /\ mState = "DISABLED" /\ revoked => TakenUp \/ device = "none"

OwnedInv == ~disturbed /\ NATIVE_LOADED /\ active => OwnedOK

(***************************************************************************)
(* After a disconnect nothing is on its way that would connect again, and  *)
(* as long as there is a profile a command to stop it is.                  *)
(***************************************************************************)
DisconnectOK == /\ ~active /\ ~watchdog /\ ~retrying
                /\ Only(Ops \ {"ERROR"})
                /\ intents \in Seq({NoId})
                /\ mNextProfile = NoId
                /\ handler \notin {"init", "failed"}
                /\ mCurrentProfile = NoId => device = "none"
                /\ mCurrentProfile # NoId => \/ intents # <<>> \/ mProfileUpdated
                                            \/ handler \in {"mark", "deinit"}

DisconnectInv == ~disturbed /\ command = "DISCONNECT" => DisconnectOK

IntentInv == OwnedInv /\ DisconnectInv

(***************************************************************************)
(* What IkeController has seen is the state, or what disconnect() set.     *)
(***************************************************************************)
SeenInv == /\ ikeState \in {mState, "DISABLED"}
           /\ bound # "yes" => ikeState = "DISABLED"

CommandInv == ~disturbed => /\ reconcile = "DISCONNECT" => command = "DISCONNECT"
                            /\ xray = "checked" => ~active

(***************************************************************************)
(* While the user waits the session is owned and watched.  What is known   *)
(* of an earlier connection does not stop the watchdog: its end, Busy, is  *)
(* still to come.                                                          *)
(***************************************************************************)
Busy == \/ intents # <<>> \/ mProfileUpdated
        \/ handler \in {"mark", "deinit", "start"}
        \/ Some(Downward)

WatchOK == /\ active => state \in {"CONNECTING", "CONNECTED", "ERROR"}
           /\ state = "CONNECTING" => active /\ watchdog
           /\ state = "CONNECTING" /\ ikeState = "CONNECTED" => Busy

WatchInv == ~disturbed /\ NATIVE_LOADED => WatchOK

-----------------------------------------------------------------------------
(***************************************************************************)
(* What posts and the looper do to the last word.                          *)
(***************************************************************************)
LEMMA NotLastNow ==
  ASSUME NEW w \in State, NotLast(w), posts = <<>>
  PROVE  mState # w
BY DEF NotLast, Word

LEMMA NotLastSame ==
  ASSUME NEW w \in State, NotLast(w), UNCHANGED <<mState, posts>>
  PROVE  NotLast(w)'
BY DEF NotLast, Word

LEMMA PostAppends ==
  ASSUME TypeOK, NEW op, NEW id, Post(op, id)
  PROVE  /\ Len(posts) \in Nat /\ Len(posts') = Len(posts) + 1
         /\ \A k \in 1..Len(posts) : posts'[k] = posts[k]
         /\ posts'[Len(posts) + 1] = [op |-> op, id |-> id]
<1>1. posts \in Seq(Posts)
  BY DEF TypeOK, StateServiceTypeOK
<1> QED
  BY <1>1 DEF Post

LEMMA NotLastPost ==
  ASSUME TypeOK, NEW w \in State, NEW op, NEW id, Post(op, id), UNCHANGED mState,
         Says(op) \in State \ {w}
  PROVE  NotLast(w)'
<1>0. /\ Len(posts) \in Nat /\ Len(posts') = Len(posts) + 1
      /\ \A k \in 1..Len(posts) : posts'[k] = posts[k]
      /\ posts'[Len(posts) + 1] = [op |-> op, id |-> id]
  BY PostAppends, Zenon
<1>n. PICK n \in Nat : n = Len(posts) + 1
  BY <1>0
<1>1. Word(n)' \in State \ {w}
  BY <1>0, <1>n DEF Word
<1>2. ASSUME NEW k \in 0..Len(posts'), Word(k)' = w
      PROVE  \E m \in k + 1..Len(posts') : Word(m)' \in State \ {w}
  <2>1. k # n
    BY <1>1, <1>2
  <2>2. n \in k + 1..Len(posts')
    BY <1>0, <1>n, <2>1
  <2> QED
    BY <1>1, <2>2
<1> QED
  BY <1>2 DEF NotLast

LEMMA NotLastError ==
  ASSUME TypeOK, NEW w \in State, NotLast(w), NEW op \in {"ERROR", "NO_ERROR"}, NEW id,
         Post(op, id), UNCHANGED mState
  PROVE  NotLast(w)'
<1>0. /\ Len(posts) \in Nat /\ Len(posts') = Len(posts) + 1
      /\ \A k \in 1..Len(posts) : posts'[k] = posts[k]
      /\ posts'[Len(posts) + 1] = [op |-> op, id |-> id]
  BY PostAppends, Zenon
<1>n. PICK n \in Nat : n = Len(posts) + 1
  BY <1>0
<1>1. \A k \in 0..Len(posts) : Word(k)' = Word(k)
  BY <1>0 DEF Word
<1>2. Word(n)' \notin State
  BY <1>0, <1>n DEF Word, Says, State
<1>3. ASSUME NEW k \in 0..Len(posts'), Word(k)' = w
      PROVE  \E m \in k + 1..Len(posts') : Word(m)' \in State \ {w}
  <2>1. k \in 0..Len(posts)
    BY <1>0, <1>n, <1>2, <1>3
  <2>2. PICK m \in k + 1..Len(posts) : Word(m) \in State \ {w}
    BY <1>1, <1>3, <2>1 DEF NotLast
  <2>3. m \in k + 1..Len(posts') /\ m \in 0..Len(posts)
    BY <1>0, <2>1
  <2> QED
    BY <1>1, <2>2, <2>3
<1> QED
  BY <1>3 DEF NotLast

LEMMA RunTakesHead ==
  ASSUME TypeOK, runPost
  PROVE  /\ posts # <<>> /\ Len(posts) \in Nat \ {0} /\ Len(posts') = Len(posts) - 1
         /\ \A k \in 1..Len(posts') : posts'[k] = posts[k + 1]
         /\ Head(posts) = posts[1] /\ posts[1] \in Posts
<1>1. posts \in Seq(Posts) /\ posts # <<>> /\ posts' = Tail(posts)
  BY DEF TypeOK, StateServiceTypeOK, runPost
<1> QED
  BY <1>1

LEMMA RunSets ==
  ASSUME TypeOK, runPost
  PROVE  mState' = IF Word(1) \in State THEN Word(1) ELSE mState
<1>1. posts[1].op \in State \cup {"START", "ERROR", "NO_ERROR"}
  BY RunTakesHead DEF Posts
<1>2. Word(1) = Says(posts[1].op)
  BY DEF Word
<1> QED
  BY <1>1, <1>2, RunTakesHead DEF runPost, startConnection, setState, setErrorState, Says, State

LEMMA NotLastRun ==
  ASSUME TypeOK, NEW w \in State, NotLast(w), runPost
  PROVE  NotLast(w)'
<1>1. \A k \in 1..Len(posts') : Word(k)' = Word(k + 1)
  BY RunTakesHead DEF Word
<1>2. ASSUME NEW k \in 0..Len(posts'), Word(k)' = w
      PROVE  \E m \in k + 1..Len(posts') : Word(m)' \in State \ {w}
  <2>1. \E m \in k + 2..Len(posts) : Word(m) \in State \ {w}
    <3>1. CASE k # 0
      BY <1>1, <1>2, <3>1, RunTakesHead DEF NotLast
    <3>2. CASE k = 0 /\ Word(1) \in State
      <4>1. Word(1) = w
        BY <1>2, <3>2, RunSets DEF Word
      <4> QED
        BY <3>2, <4>1, RunTakesHead DEF NotLast
    <3>3. CASE k = 0 /\ Word(1) \notin State
      <4>1. Word(0) = w
        BY <1>2, <3>3, RunSets DEF Word
      <4>2. PICK m \in 0 + 1..Len(posts) : Word(m) \in State \ {w}
        BY <4>1, RunTakesHead DEF NotLast
      <4>3. m # 1
        BY <3>3, <4>2
      <4> QED
        BY <3>3, <4>2, <4>3
    <3> QED
      BY <3>1, <3>2, <3>3
  <2>2. PICK m \in k + 2..Len(posts) : Word(m) \in State \ {w}
    BY <2>1
  <2>3. m - 1 \in k + 1..Len(posts') /\ m - 1 \in 1..Len(posts') /\ (m - 1) + 1 = m
    BY RunTakesHead
  <2> QED
    BY <1>1, <2>2, <2>3
<1> QED
  BY <1>2 DEF NotLast

-----------------------------------------------------------------------------
(***************************************************************************)
(* Who posts what.                                                         *)
(***************************************************************************)
LEMMA OnMainPosts ==
  ASSUME OnMain
  PROVE  \/ runPost
         \/ /\ UNCHANGED <<mState, mError, mProfile>> /\ (retrying' => retrying)
            /\ UNCHANGED posts \/ Post("NO_ERROR", NoId)
<1> DEFINE Goal == /\ UNCHANGED <<mState, mError, mProfile>> /\ (retrying' => retrying)
                   /\ UNCHANGED posts \/ Post("NO_ERROR", NoId)
<1>0. ASSUME UNCHANGED stateServiceVars PROVE Goal
  BY <1>0 DEF stateServiceVars, retryVars
<1>1. ASSUME disconnect PROVE Goal
  BY <1>1 DEF disconnect, resetRetryTimer, retryVars
<1>2. CASE Command
  <2>1. ASSUME NEW id, NEW f, claimAndConnect(id, f) PROVE Goal
    BY <2>1 DEF claimAndConnect, retryVars
  <2> HIDE DEF Goal
  <2>2. Goal
    BY <1>0, <1>1, <1>2, <2>1 DEF Command, quickStart, launchConnect, requestDisconnect
  <2> QED
    BY <2>2 DEF Goal
<1>3. CASE mainPost
  BY <1>3 DEF mainPost
<1>4. CASE retryTick
  BY <1>4 DEF retryTick, retryCounts, retryIgnored, retryConnects
<1>5. CASE controllerStep
  BY <1>0, <1>5 DEF controllerStep, onServiceConnected, claimTick
<1>6. CASE ikeTimeout
  BY <1>0, <1>1, <1>6 DEF ikeTimeout, connectTimeout
<1>7. CASE activityBinds \/ reconciles \/ xrayReport \/ xrayDisconnected
  BY <1>0, <1>7 DEF activityBinds, reconciles, xrayReport, xrayDisconnected
<1> QED
  BY <1>2, <1>3, <1>4, <1>5, <1>6, <1>7 DEF OnMain

LEMMA StatusPosts ==
  ASSUME NEW s \in {"CHILD_UP", "CHILD_DOWN", "ERROR"}, updateStatus(s)
  PROVE  \/ s # "CHILD_UP" /\ UNCHANGED posts
         \/ s = "CHILD_UP" /\ Post("CONNECTED", NoId)
         \/ s = "CHILD_DOWN" /\ Post("CONNECTING", NoId)
         \/ s = "ERROR" /\ Post("ERROR", NoId)
BY DEF updateStatus, NoPost

LEMMA NativePosts ==
  ASSUME FinishCallback \/ nativeEvent
  PROVE  /\ UNCHANGED <<mState, mError, mProfile, retryVars, intents>>
         /\ UNCHANGED <<stateVars, handlerVars, ikeVars>>
         /\ \/ UNCHANGED posts
            \/ Post("CONNECTING", NoId)
            \/ Post("ERROR", NoId) /\ nativeEvent
            \/ setup_tun_device /\ Post("CONNECTED", NoId)
<1>1. CASE nativeEvent
  <2>1. \/ UNCHANGED posts \/ updateStatus("CHILD_DOWN") \/ updateStatus("ERROR")
    BY <1>1
    DEF nativeEvent, NativeEvent, initiate, ikeDown, alert, childUp, childDown,
        ike_reestablish_pre, GiveUp, NoPost
  <2> QED
    BY <1>1, <2>1, StatusPosts DEF nativeEvent
<1>2. CASE FinishCallback
  <2>1. \/ UNCHANGED posts \/ updateStatus("CHILD_DOWN")
        \/ setup_tun_device /\ updateStatus("CHILD_UP")
    BY <1>2
    DEF FinishCallback, Callback, setup_tun_device, setup_tun_device_without_dns,
        ike_reestablish_post, NoPost
  <2> QED
    BY <1>2, <2>1, StatusPosts DEF FinishCallback
<1> QED
  BY <1>1, <1>2

LEMMA NativeNeedsProfile ==
  ASSUME EngineInv, FinishCallback \/ nativeEvent
  PROVE  charon /\ mCurrentProfile # NoId /\ handler \in {"wait", "mark", "deinit"}
<1>1. charon
  BY DEF FinishCallback, Callback, setup_tun_device, setup_tun_device_without_dns,
         ike_reestablish_post, nativeEvent, NativeEvent, Event, initiate, ikeDown, alert, childUp,
         childDown, ike_reestablish_pre, EngineInv, DaemonInv
<1> QED
  BY <1>1 DEF EngineInv, DaemonInv

-----------------------------------------------------------------------------
(***************************************************************************)
(* The last word is right.                                                 *)
(***************************************************************************)
LEMMA TellsInit == Init => TellsInv
<1> SUFFICES ASSUME Init PROVE TellsInv
  OBVIOUS
<1>1. posts = <<>> /\ mState = "DISABLED"
  BY DEF Init, StateServiceInit
<1>2. \A w \in State \ {"DISABLED"} : NotLast(w)
  BY <1>1 DEF NotLast, Word
<1> QED
  BY <1>2 DEF Init, CharonServiceInit, NativeInit, TellsInv, State

LEMMA TellsMain ==
  ASSUME TypeOK, TellsInv, OnMain
  PROVE  TellsInv'
<1>1. UNCHANGED <<handlerVars, device, nativeVars>>
  BY OnMainLeavesEngine DEF engineVars
<1>2. ASSUME NEW w \in State, NotLast(w) PROVE NotLast(w)'
  BY <1>2, OnMainPosts, NotLastRun, NotLastSame, NotLastError
<1> QED
  BY <1>1, <1>2 DEF TellsInv, handlerVars, nativeVars, State

LEMMA TellsCommand ==
  ASSUME TypeOK, TellsInv, startCommand \/ revoke
  PROVE  TellsInv'
<1>1. /\ UNCHANGED <<mState, posts, mCurrentProfile, handler, callback>>
      /\ mProfileUpdated' \/ revoked'
      /\ handler = "wait" => handler' = "wait"
  BY DEF startCommand, onStartCommand, revoke, interfaceRevoked, onRevoke, setNextProfile,
         stateServiceVars, nativeVars
<1>2. ASSUME NEW w \in State, NotLast(w) PROVE NotLast(w)'
  BY <1>1, <1>2, NotLastSame
<1> QED
  BY <1>1, <1>2 DEF TellsInv, State

LEMMA TellsHandler ==
  ASSUME TypeOK, EngineInv, TellsInv, handlerStep
  PROVE  TellsInv'
<1>0. UNCHANGED mState /\ HandlerInv /\ DaemonInv /\ NoId \in Profile
  BY DEF handlerStep, EngineInv, Profile
<1>1. ASSUME NEW w \in State, NotLast(w), UNCHANGED posts PROVE NotLast(w)'
  BY <1>0, <1>1, NotLastSame
<1>2. CASE stopCurrentConnection /\ UNCHANGED nativeVars
  <2>1. CASE mCurrentProfile = NoId
    BY <1>2, <2>1 DEF stopCurrentConnection, TellsInv
  <2>2. CASE mCurrentProfile # NoId
    <3>1. Post("DISCONNECTING", NoId) /\ handler' = "mark"
      BY <1>2, <2>2 DEF stopCurrentConnection
    <3>2. NotLast("DISABLED")'
      BY <1>0, <3>1, NotLastPost DEF Says, State
    <3> QED
      BY <3>1, <3>2 DEF TellsInv
  <2> QED
    BY <2>1, <2>2
<1>3. CASE markDisconnecting /\ UNCHANGED nativeVars
  BY <1>1, <1>3 DEF markDisconnecting, NoPost, TellsInv, State
<1>4. CASE charonStopped /\ deinitializeCharon
  BY <1>4 DEF charonStopped, TellsInv
<1>5. CASE disabled /\ UNCHANGED nativeVars
  <2>1. Post("DISABLED", NoId) /\ mCurrentProfile' = NoId /\ callback' = "idle" /\ handler' = "wait"
    BY <1>0, <1>5 DEF disabled, nativeVars, HandlerInv, DaemonInv
  <2>2. \A w \in State \ {"DISABLED"} : NotLast(w)'
    BY <1>0, <2>1, NotLastPost DEF Says, State
  <2> QED
    BY <2>1, <2>2 DEF TellsInv, State
<1>6. CASE startNext /\ UNCHANGED nativeVars
  <2>1. Post("START", mNextProfile) /\ handler' = "init"
    BY <1>6 DEF startNext
  <2>2. NotLast("DISABLED")' /\ NotLast("CONNECTED")'
    <3> DEFINE id == mNextProfile
    <3>1. Post("START", id)
      BY <2>1
    <3> QED
      BY <1>0, <2>1, NotLastPost DEF Says, State
  <2> QED
    BY <2>1, <2>2 DEF TellsInv
<1>7. CASE initiated /\ initializeCharon
  <2>1. callback' = "idle" /\ handler' = "wait" /\ mCurrentProfile' # NoId /\ UNCHANGED posts
    BY <1>0, <1>7 DEF initiated, initializeCharon, NoPost, HandlerInv, DaemonInv
  <2>2. NotLast("CONNECTED")' /\ NotLast("DISABLED")'
    BY <1>0, <1>1, <1>7, <2>1 DEF initiated, TellsInv, HandlerInv, State
  <2> QED
    BY <2>1, <2>2 DEF TellsInv
<1>8. CASE notInitialized /\ UNCHANGED nativeVars
  <2>1. Post("ERROR", NoId) /\ handler = "init" /\ handler' = "failed" /\ mCurrentProfile # NoId
    BY <1>0, <1>8 DEF notInitialized, HandlerInv
  <2>2. NotLast("CONNECTED")' /\ NotLast("DISABLED")'
    BY <1>0, <2>1, NotLastError DEF TellsInv, State
  <2> QED
    BY <2>1, <2>2 DEF TellsInv
<1>9. CASE failedDisabled /\ UNCHANGED nativeVars
  <2>1. Post("DISABLED", NoId) /\ mCurrentProfile' = NoId /\ callback' = "idle" /\ handler' = "wait"
    BY <1>0, <1>9 DEF failedDisabled, nativeVars, DaemonInv
  <2>2. \A w \in State \ {"DISABLED"} : NotLast(w)'
    BY <1>0, <2>1, NotLastPost DEF Says, State
  <2> QED
    BY <2>1, <2>2 DEF TellsInv, State
<1> QED
  BY <1>2, <1>3, <1>4, <1>5, <1>6, <1>7, <1>8, <1>9 DEF handlerStep

LEMMA TellsNative ==
  ASSUME TypeOK, EngineInv, TellsInv, FinishCallback \/ nativeEvent
  PROVE  TellsInv'
<1>1. /\ mCurrentProfile' = mCurrentProfile /\ mCurrentProfile # NoId
      /\ handler' = handler /\ handler \in {"wait", "mark", "deinit"}
      /\ mProfileUpdated' = mProfileUpdated /\ mState' = mState /\ (revoked' <=> revoked)
  BY NativePosts, NativeNeedsProfile DEF handlerVars
<1>2. device' \in {device, "tunnel"} /\ (callback' = "swap" => callback = "swap" \/ device' = "tunnel")
      /\ (setup_tun_device => device' = device /\ callback = "swap")
  BY DEF FinishCallback, Callback, setup_tun_device, setup_tun_device_without_dns,
         ike_reestablish_post, nativeEvent, NativeEvent, initiate, ikeDown, alert, childUp,
         childDown, ike_reestablish_pre, establish, Refused
<1>3. NotLast("DISABLED")'
  <2>1. NotLast("DISABLED")
    BY <1>1 DEF TellsInv
  <2> QED
    BY <1>1, <2>1, NativePosts, NotLastPost, NotLastError, NotLastSame DEF Says, State
<1>4. ASSUME handler = "wait", ~mProfileUpdated, ~revoked, device' # "tunnel"
      PROVE  NotLast("CONNECTED")'
  <2>1. NotLast("CONNECTED") /\ callback # "swap"
    BY <1>2, <1>4 DEF TellsInv
  <2>2. ~setup_tun_device
    BY <1>2, <2>1
  <2> QED
    BY <1>1, <2>1, <2>2, NativePosts, NotLastPost, NotLastError, NotLastSame DEF Says, State
<1>5. callback' = "swap" /\ handler = "wait" /\ ~mProfileUpdated /\ ~revoked => device' = "tunnel"
  BY <1>2 DEF TellsInv
<1> QED
  BY <1>1, <1>3, <1>4, <1>5 DEF TellsInv

LEMMA TellsStep == TypeOK /\ EngineInv /\ TellsInv /\ [Next]_vars => TellsInv'
<1> SUFFICES ASSUME TypeOK, EngineInv, TellsInv, [Next]_vars PROVE TellsInv'
  OBVIOUS
<1>1. CASE UNCHANGED vars
  <2>1. UNCHANGED <<mState, posts>> /\ UNCHANGED <<handlerVars, device, nativeVars>>
    BY <1>1 DEF vars, stateServiceVars
  <2>2. ASSUME NEW w \in State, NotLast(w) PROVE NotLast(w)'
    BY <2>1, <2>2, NotLastSame
  <2> QED
    BY <2>1, <2>2 DEF TellsInv, handlerVars, nativeVars, State
<1> QED
  BY <1>1, TellsMain, TellsCommand, TellsHandler, TellsNative DEF Next, OnMain

LEMMA TellsCorrect == Spec => []TellsInv
BY TellsInit, TellsStep, TypeCorrect, EngineCorrect, PTL DEF Spec

LEMMA TellsImplies == TypeOK /\ TellsInv => StateTells
<1> SUFFICES ASSUME TypeOK, TellsInv, Quiet PROVE /\ mState = "DISABLED" <=> mCurrentProfile = NoId
                                                  /\ mState = "CONNECTED" => device = "tunnel"
  BY DEF StateTells
<1>1. handler = "wait" /\ ~mProfileUpdated /\ ~revoked /\ posts = <<>> /\ mState \in State
  BY DEF Quiet, TypeOK, StateServiceTypeOK
<1>2. CASE mCurrentProfile = NoId
  BY <1>1, <1>2, NotLastNow DEF TellsInv, State
<1>3. CASE mCurrentProfile # NoId
  BY <1>1, <1>3, NotLastNow DEF TellsInv, State
<1> QED
  BY <1>2, <1>3

(***************************************************************************)
(* However the posts of CharonVpnService's handler thread and of charon's  *)
(* threads are interleaved, VpnStateService ends up DISABLED exactly when  *)
(* no profile is in use, and CONNECTED only with a tunnel.                 *)
(***************************************************************************)
THEOREM StateIsTold == Spec => []StateTells
BY TellsCorrect, TellsImplies, TypeCorrect, PTL

-----------------------------------------------------------------------------
(***************************************************************************)
(* Posts and the looper, once more, for Only and Some.                     *)
(***************************************************************************)
LEMMA QueueSame ==
  ASSUME NEW O, UNCHANGED posts
  PROVE  (Only(O) => Only(O)') /\ (Some(O) => Some(O)')
BY DEF Only, Some

LEMMA QueuePost ==
  ASSUME TypeOK, NEW O, NEW op, NEW id, Post(op, id)
  PROVE  /\ Only(O) /\ op \in O => Only(O)'
         /\ Some(O) \/ op \in O => Some(O)'
<1>1. posts \in Seq(Posts)
  BY DEF TypeOK, StateServiceTypeOK
<1>2. posts' = Append(posts, [op |-> op, id |-> id])
  BY DEF Post
<1>3. /\ Len(posts) \in Nat /\ DOMAIN posts = 1..Len(posts) /\ DOMAIN posts' = 1..Len(posts) + 1
      /\ \A k \in 1..Len(posts) : posts'[k] = posts[k]
      /\ posts'[Len(posts) + 1].op = op
  BY <1>1, <1>2
<1> QED
  BY <1>3 DEF Only, Some

LEMMA QueueRun ==
  ASSUME TypeOK, NEW O, runPost
  PROVE  /\ Only(O) => Only(O)' /\ Head(posts).op \in O
         /\ Some(O) /\ Head(posts).op \notin O => Some(O)'
<1>1. posts \in Seq(Posts) /\ posts # <<>> /\ posts' = Tail(posts)
  BY DEF TypeOK, StateServiceTypeOK, runPost
<1>2. /\ Len(posts) \in Nat \ {0} /\ DOMAIN posts = 1..Len(posts) /\ DOMAIN posts' = 1..Len(posts) - 1
      /\ \A k \in 1..Len(posts) - 1 : posts'[k] = posts[k + 1]
      /\ Head(posts) = posts[1]
  BY <1>1
<1>3. Only(O) => Only(O)' /\ Head(posts).op \in O
  BY <1>2 DEF Only
<1>4. ASSUME Some(O), Head(posts).op \notin O PROVE Some(O)'
  <2>1. PICK k \in 1..Len(posts) : posts[k].op \in O
    BY <1>2, <1>4 DEF Some
  <2>2. k - 1 \in 1..Len(posts) - 1 /\ (k - 1) + 1 = k
    BY <1>2, <1>4, <2>1
  <2> QED
    BY <1>2, <2>1, <2>2 DEF Some
<1> QED
  BY <1>3, <1>4

LEMMA QueueEmpty == ASSUME NEW O, posts = <<>> PROVE Only(O) /\ ~Some(O)
BY DEF Only, Some

-----------------------------------------------------------------------------
(***************************************************************************)
(* The profile of a countdown.                                             *)
(***************************************************************************)
LEMMA ProfileSame ==
  ASSUME ProfileInv, UNCHANGED <<posts, mProfile>>, retrying' => retrying,
         mCurrentProfile' # NoId => mCurrentProfile # NoId
  PROVE  ProfileInv'
BY DEF ProfileInv, Some, StartBefore

LEMMA ProfilePost ==
  ASSUME TypeOK, ProfileInv, NEW op, NEW id, Post(op, id), UNCHANGED mProfile,
         retrying' => retrying,
         op = "START" => id # NoId, op = "ERROR" => mCurrentProfile # NoId,
         mCurrentProfile' # NoId => mCurrentProfile # NoId \/ op = "START"
  PROVE  ProfileInv'
<1>1. posts \in Seq(Posts) /\ posts' = Append(posts, [op |-> op, id |-> id])
  BY DEF TypeOK, StateServiceTypeOK, Post
<1>2. /\ Len(posts) \in Nat /\ DOMAIN posts = 1..Len(posts) /\ DOMAIN posts' = 1..Len(posts) + 1
      /\ \A k \in 1..Len(posts) : posts'[k] = posts[k]
      /\ posts'[Len(posts) + 1].op = op /\ posts'[Len(posts) + 1].id = id
  BY <1>1
<1>3. ASSUME NEW k \in DOMAIN posts', posts'[k].op = "START" PROVE posts'[k].id # NoId
  BY <1>2, <1>3 DEF ProfileInv
<1>4. ASSUME NEW k \in DOMAIN posts', posts'[k].op = "ERROR" PROVE mProfile' # NoId \/ StartBefore(k)'
  <2>1. CASE k = Len(posts) + 1
    <3>1. mProfile # NoId \/ Some({"START"})
      BY <1>2, <1>4, <2>1 DEF ProfileInv
    <3> QED
      BY <1>2, <2>1, <3>1 DEF Some, StartBefore
  <2>2. CASE k \in 1..Len(posts)
    <3>1. mProfile # NoId \/ StartBefore(k)
      BY <1>2, <1>4, <2>2 DEF ProfileInv
    <3> QED
      BY <1>2, <2>2, <3>1 DEF StartBefore
  <2> QED
    BY <1>2, <2>1, <2>2
<1>5. mCurrentProfile' # NoId => mProfile' # NoId \/ Some({"START"})'
  BY QueuePost DEF ProfileInv
<1> QED
  BY <1>3, <1>4, <1>5 DEF ProfileInv

LEMMA ProfileRun ==
  ASSUME TypeOK, ProfileInv, runPost, UNCHANGED mCurrentProfile
  PROVE  ProfileInv'
<1> DEFINE p == Head(posts)
<1>1. posts \in Seq(Posts) /\ posts # <<>> /\ posts' = Tail(posts)
  BY DEF TypeOK, StateServiceTypeOK, runPost
<1>2. /\ Len(posts) \in Nat \ {0} /\ DOMAIN posts = 1..Len(posts) /\ DOMAIN posts' = 1..Len(posts) - 1
      /\ \A k \in 1..Len(posts) - 1 : posts'[k] = posts[k + 1]
      /\ p = posts[1]
  BY <1>1
<1> HIDE DEF p
<1>3. ASSUME NEW k \in DOMAIN posts', posts'[k].op = "START" PROVE posts'[k].id # NoId
  BY <1>2, <1>3 DEF ProfileInv
<1>4. CASE p.op = "START"
  <2>1. mProfile' = p.id /\ p.id # NoId
    BY <1>2, <1>4 DEF runPost, startConnection, p, ProfileInv, State
  <2> QED
    BY <1>3, <2>1 DEF ProfileInv
<1>5. CASE p.op # "START"
  <2>1. UNCHANGED mProfile
    BY <1>5 DEF runPost, setState, setErrorState, p
  <2>2. retrying' => mProfile # NoId
    <3>1. CASE retrying' = retrying \/ ~retrying'
      BY <3>1 DEF ProfileInv
    <3>2. CASE p.op = "ERROR"
      <4>1. mProfile # NoId \/ StartBefore(1)
        BY <1>2, <3>2 DEF ProfileInv
      <4> QED
        BY <4>1 DEF StartBefore
    <3>3. p.op # "ERROR" => retrying' = retrying \/ ~retrying'
      BY <1>5 DEF runPost, setState, setErrorState, setRetryTimer, resetRetryTimer, retryVars, p
    <3> QED
      BY <3>1, <3>2, <3>3
  <2>3. ASSUME NEW k \in DOMAIN posts', posts'[k].op = "ERROR"
        PROVE  mProfile' # NoId \/ StartBefore(k)'
    <3>1. k + 1 \in DOMAIN posts /\ posts[k + 1].op = "ERROR" /\ k \in Nat \ {0}
      BY <1>2, <2>3
    <3>2. CASE StartBefore(k + 1)
      <4>1. PICK m \in 1..(k + 1) - 1 : posts[m].op = "START"
        BY <3>2 DEF StartBefore
      <4>2. m - 1 \in 1..k - 1 /\ (m - 1) + 1 = m /\ m - 1 \in 1..Len(posts) - 1
        BY <1>2, <1>5, <3>1, <4>1
      <4> QED
        BY <1>2, <4>1, <4>2 DEF StartBefore
    <3> QED
      BY <2>1, <3>1, <3>2 DEF ProfileInv
  <2>4. mCurrentProfile' # NoId => mProfile' # NoId \/ Some({"START"})'
    BY <1>5, <2>1, QueueRun DEF ProfileInv, p
  <2> QED
    BY <1>3, <2>1, <2>2, <2>3, <2>4 DEF ProfileInv
<1> QED
  BY <1>4, <1>5

LEMMA ProfileMain ==
  ASSUME TypeOK, ProfileInv, OnMain
  PROVE  ProfileInv'
<1>1. UNCHANGED mCurrentProfile
  BY OnMainLeavesEngine DEF engineVars, handlerVars
<1> QED
  BY <1>1, OnMainPosts, ProfileRun, ProfileSame, ProfilePost

LEMMA ProfileHandler ==
  ASSUME TypeOK, EngineInv, ProfileInv, handlerStep
  PROVE  ProfileInv'
<1>0. UNCHANGED <<mProfile, retrying>> /\ HandlerInv
  BY DEF handlerStep, retryVars, EngineInv
<1>1. CASE stopCurrentConnection
  BY <1>0, <1>1, ProfileSame, ProfilePost DEF stopCurrentConnection, NoPost
<1>2. CASE markDisconnecting \/ charonStopped \/ initiated
  BY <1>0, <1>2, ProfileSame DEF markDisconnecting, charonStopped, initiated, NoPost
<1>3. CASE disabled \/ failedDisabled
  BY <1>0, <1>3, ProfilePost DEF disabled, failedDisabled
<1>4. CASE startNext
  <2> DEFINE id == mNextProfile
  <2>1. Post("START", id) /\ id # NoId
    BY <1>4 DEF startNext
  <2> HIDE DEF id
  <2> QED
    BY <1>0, <2>1, ProfilePost
<1>5. CASE notInitialized
  BY <1>0, <1>5, ProfilePost DEF notInitialized, HandlerInv
<1> QED
  BY <1>1, <1>2, <1>3, <1>4, <1>5 DEF handlerStep

LEMMA ProfileStep == TypeOK /\ EngineInv /\ ProfileInv /\ [Next]_vars => ProfileInv'
<1> SUFFICES ASSUME TypeOK, EngineInv, ProfileInv, [Next]_vars PROVE ProfileInv'
  OBVIOUS
<1>1. CASE FinishCallback \/ nativeEvent
  <2>1. UNCHANGED <<mProfile, retrying, mCurrentProfile>> /\ mCurrentProfile # NoId
    BY <1>1, NativePosts, NativeNeedsProfile DEF retryVars, handlerVars
  <2> QED
    BY <1>1, <2>1, NativePosts, ProfileSame, ProfilePost
<1>2. CASE startCommand \/ revoke
  BY <1>2, ProfileSame DEF startCommand, onStartCommand, revoke, interfaceRevoked, onRevoke, setNextProfile,
                           stateServiceVars, retryVars
<1>3. CASE UNCHANGED vars
  BY <1>3, ProfileSame DEF vars, stateServiceVars, retryVars, handlerVars
<1> QED
  BY <1>1, <1>2, <1>3, ProfileMain, ProfileHandler DEF Next, OnMain

LEMMA NextProfileStep == NextProfileInv /\ [Next]_vars => NextProfileInv'
<1> SUFFICES ASSUME NextProfileInv, [Next]_vars PROVE NextProfileInv'
  OBVIOUS
<1> USE DEF NextProfileInv
<1>1. ASSUME UNCHANGED handlerVars PROVE NextProfileInv'
  BY <1>1 DEF handlerVars
<1>2. CASE handlerStep
  BY <1>2 DEF handlerStep, stopCurrentConnection, markDisconnecting, charonStopped, disabled,
              startNext, initiated, notInitialized, failedDisabled
<1>3. CASE startCommand \/ revoke
  BY <1>3 DEF startCommand, onStartCommand, revoke, interfaceRevoked, onRevoke, setNextProfile
<1>4. CASE FinishCallback \/ nativeEvent
  BY <1>1, <1>4, NativePosts
<1>5. CASE OnMain
  BY <1>1, <1>5, OnMainLeavesEngine DEF engineVars
<1>6. CASE UNCHANGED vars
  BY <1>1, <1>6 DEF vars
<1> QED
  BY <1>2, <1>3, <1>4, <1>5, <1>6 DEF Next, OnMain

-----------------------------------------------------------------------------
(***************************************************************************)
(* What is posted, and by whom, while nothing was ever started.            *)
(***************************************************************************)
LEMMA StaysUntouched ==
  ASSUME [Next]_vars, Untouched'
  PROVE  Untouched
<1> USE DEF Untouched
<1>1. ASSUME UNCHANGED ikeVars PROVE Untouched
  BY <1>1 DEF ikeVars
<1>2. ASSUME NEW s, NEW e, pushState(s, e), bound' # "no" PROVE Untouched
  BY <1>2 DEF pushState
<1>3. ASSUME NEW s, NEW e, stateChanged(s, e) PROVE Untouched
  BY <1>3 DEF stateChanged, pushState
<1>4. ASSUME disconnect PROVE Untouched
  BY <1>4 DEF disconnect
<1>5. CASE Command
  BY <1>1, <1>4, <1>5 DEF Command, quickStart, launchConnect, requestDisconnect, claimAndConnect,
                          connectStarted, connectFailed, bind
<1>6. CASE mainPost
  BY <1>1, <1>3, <1>6 DEF mainPost
<1>7. CASE retryTick
  BY <1>1, <1>3, <1>7 DEF retryTick
<1>8. CASE controllerStep
  BY <1>2, <1>8 DEF controllerStep, onServiceConnected, claimTick
<1>9. CASE ikeTimeout
  BY <1>4, <1>9 DEF ikeTimeout, connectTimeout
<1>10. CASE activityBinds \/ reconciles \/ xrayReport \/ xrayDisconnected
  BY <1>1, <1>10 DEF activityBinds, bind, reconciles, xrayReport, xrayDisconnected
<1>11. CASE startCommand \/ revoke \/ handlerStep \/ FinishCallback \/ nativeEvent
  BY <1>1, <1>11 DEF startCommand, revoke, handlerStep, FinishCallback, nativeEvent
<1>12. CASE UNCHANGED vars
  BY <1>1, <1>12 DEF vars
<1> QED
  BY <1>5, <1>6, <1>7, <1>8, <1>9, <1>10, <1>11, <1>12 DEF Next

LEMMA DisconnectIntents ==
  ASSUME disconnect
  PROVE  /\ intents \in Seq({NoId}) => intents' \in Seq({NoId})
         /\ intents \in Seq(Profile) => intents' # <<>>
<1>1. CASE bound = "yes"
  <2>1. intents' = intents \o <<NoId, NoId>>
    BY <1>1 DEF disconnect
  <2>2. <<NoId, NoId>> \in Seq({NoId}) /\ <<NoId, NoId>> \in Seq(Profile)
    BY DEF Profile
  <2>3. intents \in Seq({NoId}) => intents' \in Seq({NoId})
    BY <2>1, <2>2
  <2>4. intents \in Seq(Profile) => intents' # <<>>
    BY <2>1, <2>2
  <2> QED
    BY <2>3, <2>4
<1>2. CASE bound # "yes"
  <2>1. intents' = Append(intents, NoId)
    BY <1>2 DEF disconnect
  <2> QED
    BY <2>1
<1> QED
  BY <1>1, <1>2

LEMMA OnlyMain ==
  ASSUME TypeOK, OnMain, NEW O, Only(O), "NO_ERROR" \in O
  PROVE  Only(O)'
BY OnMainPosts, QueueRun, QueuePost, QueueSame

LEMMA UntouchedMain ==
  ASSUME TypeOK, Untouched, Untouched', NothingStarted, OnMain
  PROVE  NothingStarted'
<1>1. UNCHANGED <<mCurrentProfile, mNextProfile, device, handler>>
  BY OnMainLeavesEngine DEF engineVars, handlerVars
<1>2. Only({"DISABLED", "NO_ERROR"})'
  BY OnlyMain DEF NothingStarted
<1>3. CASE mainPost
  <2>1. Head(posts).op \in {"DISABLED", "NO_ERROR"}
    BY <1>3, QueueRun DEF mainPost, NothingStarted
  <2>2. ~retrying' /\ intents' = intents
    BY <1>3, <2>1 DEF mainPost, runPost, setState, setErrorState, resetRetryTimer, retryVars,
                      NothingStarted
  <2> QED
    BY <1>1, <1>2, <2>2 DEF NothingStarted
<1>4. CASE ~mainPost
  <2>1. ASSUME disconnect PROVE ~retrying' /\ intents' \in Seq({NoId})
    BY <2>1, DisconnectIntents DEF disconnect, resetRetryTimer, retryVars, NothingStarted
  <2>2. ASSUME NEW id, NEW f, claimAndConnect(id, f) PROVE ~retrying' /\ intents' = intents
    BY <2>2 DEF claimAndConnect, connectStarted, connectFailed, bind, retryVars, NothingStarted,
                Untouched
  <2>3. ASSUME UNCHANGED stateServiceVars PROVE ~retrying' /\ intents' = intents
    BY <2>3 DEF stateServiceVars, retryVars, NothingStarted
  <2>4. ~retrying' /\ intents' \in Seq({NoId})
    <3>1. CASE Command
      BY <2>1, <2>2, <2>3, <3>1 DEF Command, quickStart, launchConnect, requestDisconnect,
                                    NothingStarted
    <3>2. CASE retryTick
      BY <3>2 DEF retryTick, retryCounts, retryIgnored, retryConnects, NothingStarted
    <3>3. CASE controllerStep
      BY <2>3, <3>3 DEF controllerStep, onServiceConnected, claimTick, NothingStarted
    <3>4. CASE ikeTimeout
      BY <2>1, <2>3, <3>4 DEF ikeTimeout, connectTimeout, NothingStarted
    <3>5. CASE activityBinds \/ reconciles \/ xrayReport \/ xrayDisconnected
      BY <2>3, <3>5 DEF activityBinds, reconciles, xrayReport, xrayDisconnected, NothingStarted
    <3> QED
      BY <1>4, <3>1, <3>2, <3>3, <3>4, <3>5 DEF OnMain
  <2> QED
    BY <1>1, <1>2, <2>4 DEF NothingStarted
<1> QED
  BY <1>3, <1>4

LEMMA UntouchedStep == TypeOK /\ EngineInv /\ UntouchedInv /\ [Next]_vars => UntouchedInv'
<1> SUFFICES ASSUME TypeOK, EngineInv, UntouchedInv, [Next]_vars, Untouched'
             PROVE  NothingStarted'
  BY DEF UntouchedInv
<1>0. Untouched /\ NothingStarted
  BY StaysUntouched DEF UntouchedInv
<1>1. CASE OnMain
  BY <1>0, <1>1, UntouchedMain
<1>2. CASE startCommand
  <2>1. Head(intents) = NoId /\ intents' \in Seq({NoId})
    BY <1>0, <1>2 DEF startCommand, onStartCommand, NothingStarted
  <2>2. Only({"DISABLED", "NO_ERROR"})'
    BY <1>0, <1>2, QueueSame DEF startCommand, onStartCommand, NothingStarted
  <2> QED
    BY <1>0, <1>2, <2>1, <2>2 DEF startCommand, onStartCommand, setNextProfile, retryVars,
                                  NothingStarted
<1>3. CASE revoke
  <2>1. UNCHANGED <<retrying, intents, posts, mCurrentProfile, handler>> /\ mNextProfile' \in {mNextProfile, NoId}
    BY <1>3 DEF revoke, interfaceRevoked, onRevoke, setNextProfile, stateServiceVars, retryVars
  <2>2. device' \in {device, "none"}
    BY <1>3 DEF revoke, interfaceRevoked, onRevoke
  <2>3. Only({"DISABLED", "NO_ERROR"})'
    BY <1>0, <2>1, QueueSame DEF NothingStarted
  <2> QED
    BY <1>0, <2>1, <2>2, <2>3 DEF NothingStarted
<1>4. CASE handlerStep
  <2>1. UNCHANGED <<retrying, intents>>
    BY <1>4 DEF handlerStep, retryVars
  <2>2. stopCurrentConnection \/ disabled
    BY <1>0, <1>4
    DEF handlerStep, charonStopped, initiated, markDisconnecting, startNext, notInitialized,
        failedDisabled, NothingStarted
  <2>3. CASE stopCurrentConnection
    <3>1. Only({"DISABLED", "NO_ERROR"})'
      BY <1>0, <2>3, QueueSame DEF stopCurrentConnection, NoPost, NothingStarted
    <3> QED
      BY <1>0, <2>1, <2>3, <3>1 DEF stopCurrentConnection, NothingStarted
  <2>4. CASE disabled
    <3>1. Only({"DISABLED", "NO_ERROR"})'
      BY <1>0, <2>4, QueuePost DEF disabled, NothingStarted
    <3> QED
      BY <1>0, <2>1, <2>4, <3>1 DEF disabled, NothingStarted
  <2> QED
    BY <2>2, <2>3, <2>4
<1>5. CASE FinishCallback \/ nativeEvent
  BY <1>0, <1>5, NativeNeedsProfile DEF NothingStarted
<1>6. CASE UNCHANGED vars
  <2>1. Only({"DISABLED", "NO_ERROR"})'
    BY <1>0, <1>6, QueueSame DEF vars, stateServiceVars, NothingStarted
  <2> QED
    BY <1>0, <1>6, <2>1 DEF vars, stateServiceVars, retryVars, handlerVars, NothingStarted
<1> QED
  BY <1>1, <1>2, <1>3, <1>4, <1>5, <1>6 DEF Next, OnMain

(***************************************************************************)
(* What holds whatever the user does.                                      *)
(***************************************************************************)
BaseInv == /\ TypeOK /\ EngineInv /\ TellsInv
           /\ ProfileInv /\ NextProfileInv /\ UntouchedInv

LEMMA BaseCorrect == Spec => []BaseInv
<1>1. Init => ProfileInv /\ NextProfileInv /\ UntouchedInv
  <2> SUFFICES ASSUME Init PROVE ProfileInv /\ NextProfileInv /\ UntouchedInv
    OBVIOUS
  <2>1. posts = <<>> /\ intents = <<>> /\ ~retrying /\ mCurrentProfile = NoId
        /\ mNextProfile = NoId /\ device = "none" /\ handler = "wait"
    BY DEF Init, StateServiceInit, CharonServiceInit
  <2>2. Only({"DISABLED", "NO_ERROR"}) /\ intents \in Seq({NoId})
    BY <2>1, QueueEmpty
  <2> QED
    BY <2>1, <2>2 DEF ProfileInv, NextProfileInv, UntouchedInv, NothingStarted
<1> QED
  BY <1>1, TypeCorrect, EngineCorrect, TellsCorrect, ProfileStep, NextProfileStep, UntouchedStep,
     PTL DEF Spec, BaseInv

-----------------------------------------------------------------------------
(***************************************************************************)
(* The session IkeController owns, and the one it has given up.            *)
(***************************************************************************)
LEMMA PushKeeps ==
  ASSUME TypeOK, NEW s \in State, NEW e, pushState(s, e)
  PROVE  /\ active' => active
         /\ watchdog' => watchdog
         /\ s = "DISABLED" => ~active'
         /\ UNCHANGED NATIVE_LOADED
BY DEF pushState, State

LEMMA ChangedKeeps ==
  ASSUME TypeOK, NEW s \in State, NEW e, stateChanged(s, e)
  PROVE  /\ active' => active
         /\ watchdog' => watchdog
         /\ bound = "yes" /\ s = "DISABLED" => ~active'
         /\ UNCHANGED <<NATIVE_LOADED, bound>>
BY PushKeeps DEF stateChanged

LEMMA QuietCommand ==
  ASSUME NEW k, NEW unfit, NewCommand(k, unfit), ~disturbed'
  PROVE  ~disturbed /\ ~unfit /\ Quiet /\ xray # "checked"
BY DEF NewCommand

LEMMA IntentConnect ==
  ASSUME BaseInv, IntentInv, NEW id \in Ids, quickStart(id) \/ launchConnect(id)
  PROVE  IntentInv'
<1>1. command' = "CONNECT"
  BY DEF quickStart, launchConnect, NewCommand
<1>2. ASSUME ~disturbed', NATIVE_LOADED', active' PROVE OwnedOK'
  <2>1. intents = <<>>
    BY <1>2, QuietCommand DEF quickStart, launchConnect, Quiet
  <2>2. intents' = Append(intents, id)
    BY <1>2 DEF quickStart, launchConnect, claimAndConnect, connectStarted, connectFailed
  <2>3. intents' = <<id>>
    BY <2>1, <2>2
  <2>4. ~revoked
    BY <1>2, QuietCommand DEF quickStart, launchConnect, Quiet
  <2>5. ~revoked'
    BY <2>4 DEF quickStart, launchConnect, engineVars, handlerVars
  <2> QED
    BY <2>3, <2>5 DEF OwnedOK, Coming
<1> QED
  BY <1>1, <1>2 DEF IntentInv, OwnedInv, DisconnectInv

LEMMA IntentDisconnect ==
  ASSUME BaseInv, IntentInv, requestDisconnect
  PROVE  IntentInv'
<1> SUFFICES ASSUME ~disturbed' PROVE IntentInv'
  BY DEF IntentInv, OwnedInv, DisconnectInv
<1>1. ~disturbed /\ Quiet /\ active /\ disconnect
  BY DEF requestDisconnect, NewCommand
<1>2. ~active' /\ ~watchdog' /\ UNCHANGED <<handlerVars, device>>
  BY <1>1 DEF disconnect, requestDisconnect, engineVars
<1>3. posts = <<>> /\ intents = <<>> /\ handler = "wait" /\ ~mProfileUpdated /\ bound # "binding"
  BY <1>1 DEF Quiet
<1>4. mNextProfile = NoId
  BY <1>3 DEF BaseInv, NextProfileInv
<1>5. intents' \in Seq({NoId}) /\ intents' # <<>>
  <2>1. intents \in Seq({NoId}) /\ intents \in Seq(Profile)
    BY <1>3
  <2> QED
    BY <1>1, <2>1, DisconnectIntents
<1>6. Only(Ops \ {"ERROR"})'
  <2>1. TypeOK /\ Only(Ops \ {"ERROR"})
    BY <1>3, QueueEmpty DEF BaseInv
  <2>2. UNCHANGED posts \/ Post("NO_ERROR", NoId)
    BY <1>1 DEF disconnect
  <2>3. "NO_ERROR" \in Ops \ {"ERROR"}
    BY DEF Ops
  <2> QED
    BY <2>1, <2>2, <2>3, QueueSame, QueuePost
<1>7. bound \in {"no", "yes"}
  BY <1>3 DEF BaseInv, TypeOK, IkeTypeOK
<1>8. ~retrying'
  BY <1>1, <1>7 DEF disconnect, resetRetryTimer, retryVars, BaseInv, UntouchedInv, Untouched,
                    NothingStarted
<1>9. mCurrentProfile = NoId => device = "none"
  <2> SUFFICES ASSUME mCurrentProfile = NoId, ~Untouched PROVE device = "none"
    BY DEF BaseInv, UntouchedInv, NothingStarted
  <2>1. mState = "DISABLED"
    BY <1>1, TellsImplies DEF BaseInv, StateTells
  <2>2. ~Coming
    BY <1>3, <1>4, QueueEmpty DEF Coming
  <2> QED
    BY <1>1, <1>7, <2>1, <2>2 DEF IntentInv, OwnedInv, OwnedOK, Untouched
<1>10. DisconnectOK'
  BY <1>2, <1>3, <1>4, <1>5, <1>6, <1>8, <1>9 DEF DisconnectOK, handlerVars
<1> QED
  BY <1>2, <1>10 DEF IntentInv, OwnedInv, DisconnectInv

(***************************************************************************)
(* Steps of the main thread that give no command.                          *)
(***************************************************************************)
LEMMA IntentSame ==
  ASSUME IntentInv, UNCHANGED <<NATIVE_LOADED, disturbed, command, intents, posts, mState>>,
         UNCHANGED <<handlerVars, device>>,
         active' => active, watchdog' => watchdog, retrying' => retrying,
         bound' = "yes" /\ mState = "DISABLED" /\ active' => bound = "yes"
  PROVE  IntentInv'
<1>1. ASSUME NEW O PROVE (Only(O) => Only(O)') /\ (Some(O) => Some(O)')
  BY QueueSame
<1>2. OwnedInv'
  BY <1>1 DEF IntentInv, OwnedInv, OwnedOK, Coming, TakenUp, handlerVars
<1>3. DisconnectInv'
  BY <1>1 DEF IntentInv, DisconnectInv, DisconnectOK, handlerVars
<1> QED
  BY <1>2, <1>3 DEF IntentInv

LEMMA IntentPost ==
  ASSUME BaseInv, IntentInv, mainPost
  PROVE  IntentInv'
<1> DEFINE p == Head(posts)
<1>0. TypeOK /\ runPost /\ UNCHANGED <<command, disturbed, intents, handlerVars, device>>
  BY DEF BaseInv, mainPost, runPost, userVars, engineVars
<1>1. p.op \in Ops
  BY <1>0, RunTakesHead DEF Posts, Ops
<1>2. mState' \in State
  BY StateServiceType DEF BaseInv, Next, StateServiceTypeOK
<1>3. /\ active' => active
      /\ watchdog' => watchdog
      /\ UNCHANGED <<NATIVE_LOADED, bound>>
  BY <1>0, <1>2, ChangedKeeps DEF mainPost, ikeVars
<1>4. ASSUME ~disturbed', NATIVE_LOADED', active' PROVE OwnedOK'
  <2>1. OwnedOK
    BY <1>0, <1>3, <1>4 DEF IntentInv, OwnedInv
  <2>2. ASSUME bound' = "yes", mState' = "DISABLED", device' # "none" PROVE Coming' /\ (revoked => TakenUp')
    <3>1. p.op \notin Upward /\ mState = "DISABLED"
      <4>1. p.op \notin Upward
        BY <1>0, <2>2 DEF runPost, startConnection, setState, setErrorState, Upward, State
      <4>2. CASE mState # "DISABLED"
        <5>1. p.op = "DISABLED"
          BY <1>0, <1>1, <2>2, <4>1, <4>2 DEF runPost, setErrorState, Ops, Upward, State
        <5>2. Changed(p)
          BY <4>2, <5>1 DEF Changed
        <5>3. stateChanged(mState', mError')
          BY <5>2 DEF mainPost
        <5> QED
          BY <1>0, <1>2, <1>3, <1>4, <2>2, <5>3, ChangedKeeps
      <4> QED
        BY <4>1, <4>2
    <3>2. Coming
      BY <1>0, <1>3, <2>1, <2>2, <3>1 DEF OwnedOK
    <3>3. Some(Upward) => Some(Upward)'
      BY <1>0, <3>1, QueueRun
    <3>4. revoked => TakenUp'
      BY <1>0, <1>3, <2>1, <2>2, <3>1, <3>3 DEF OwnedOK, TakenUp, handlerVars
    <3> QED
      BY <1>0, <3>2, <3>3, <3>4 DEF Coming, handlerVars
  <2> QED
    BY <1>0, <2>1, <2>2 DEF OwnedOK, handlerVars
<1>5. ASSUME ~disturbed', command' = "DISCONNECT" PROVE DisconnectOK'
  <2>1. DisconnectOK
    BY <1>0, <1>5 DEF IntentInv, DisconnectInv
  <2>2. Only(Ops \ {"ERROR"})' /\ p.op # "ERROR"
    BY <1>0, <2>1, QueueRun DEF DisconnectOK
  <2>3. ~retrying'
    BY <1>0, <2>1, <2>2 DEF runPost, startConnection, setState, setErrorState, resetRetryTimer,
                            retryVars, DisconnectOK
  <2> QED
    BY <1>0, <1>3, <2>1, <2>2, <2>3 DEF DisconnectOK, handlerVars
<1> QED
  BY <1>4, <1>5 DEF IntentInv, OwnedInv, DisconnectInv

LEMMA IntentRetry ==
  ASSUME BaseInv, IntentInv, retryTick
  PROVE  IntentInv'
<1>0. /\ UNCHANGED <<mState, posts, retrying>> /\ UNCHANGED <<handlerVars, device>>
      /\ UNCHANGED <<command, disturbed>> /\ TypeOK /\ mState \in State
  BY DEF retryTick, retryCounts, retryIgnored, retryConnects, userVars, engineVars, BaseInv,
         TypeOK, StateServiceTypeOK
<1>1. CASE retryIgnored \/ retryCounts
  <2>1. UNCHANGED intents
    BY <1>1 DEF retryIgnored, retryCounts
  <2>2. (active' => active) /\ (watchdog' => watchdog) /\ UNCHANGED <<NATIVE_LOADED, bound>>
    BY <1>0, ChangedKeeps DEF retryTick, ikeVars
  <2> QED
    BY <1>0, <2>1, <2>2, IntentSame
<1>2. CASE retryConnects
  <2>1. retrying /\ UNCHANGED ikeVars /\ intents' = Append(intents, mProfile)
    BY <1>2 DEF retryTick, retryConnects, retryCounts
  <2>2. mProfile \in Ids
    BY <2>1 DEF BaseInv, ProfileInv, TypeOK, StateServiceTypeOK, Profile
  <2>3. intents \in Seq(Ids) => intents' \in Seq(Ids) /\ intents' # <<>>
    BY <2>1, <2>2
  <2>6. Some(Upward) => Some(Upward)'
    BY <1>0, QueueSame
  <2>4. OwnedInv'
    BY <1>0, <2>1, <2>3, <2>6 DEF IntentInv, OwnedInv, OwnedOK, Coming, TakenUp, ikeVars, handlerVars
  <2>5. DisconnectInv'
    BY <1>0, <2>1 DEF IntentInv, DisconnectInv, DisconnectOK
  <2> QED
    BY <2>4, <2>5 DEF IntentInv
<1> QED
  BY <1>1, <1>2 DEF retryTick

LEMMA IntentMain ==
  ASSUME BaseInv, IntentInv, OnMain
  PROVE  IntentInv'
<1>0. UNCHANGED <<handlerVars, device>> /\ TypeOK /\ mState \in State
  BY OnMainLeavesEngine DEF engineVars, BaseInv, TypeOK, StateServiceTypeOK
<1>1. CASE Command
  BY <1>1, IntentConnect, IntentDisconnect DEF Command
<1>2. CASE controllerStep
  <2>1. UNCHANGED <<disturbed, command, intents, posts, mState, retrying>>
    BY <1>2 DEF controllerStep, onServiceConnected, claimTick, userVars, stateServiceVars, retryVars
  <2>2. CASE onServiceConnected
    BY <1>0, <2>1, <2>2, PushKeeps, IntentSame DEF onServiceConnected
  <2>3. CASE claimTick
    BY <1>0, <2>1, <2>3, IntentSame DEF claimTick
  <2> QED
    BY <1>2, <2>2, <2>3 DEF controllerStep
<1>3. CASE ikeTimeout
  <2>1. UNCHANGED <<disturbed, command>> /\ watchdog
    BY <1>3 DEF ikeTimeout, connectTimeout, userVars
  <2>2. CASE disconnect
    <3>1. ~active'
      BY <2>2 DEF disconnect
    <3>2. DisconnectInv'
      BY <2>1 DEF IntentInv, DisconnectInv, DisconnectOK
    <3> QED
      BY <3>1, <3>2 DEF IntentInv, OwnedInv
  <2>3. CASE ~disconnect
    BY <1>0, <1>3, <2>1, <2>3, IntentSame DEF ikeTimeout, connectTimeout, stateServiceVars, retryVars
  <2> QED
    BY <2>2, <2>3
<1>4. CASE activityBinds
  <2>1. bound' = "binding"
    BY <1>4 DEF activityBinds, bind
  <2> QED
    BY <1>0, <1>4, <2>1, IntentSame DEF activityBinds, userVars, stateServiceVars, retryVars
<1>5. CASE reconciles \/ xrayReport \/ xrayDisconnected
  BY <1>0, <1>5, IntentSame DEF reconciles, xrayReport, xrayDisconnected, stateServiceVars,
                                retryVars, ikeVars
<1> QED
  BY <1>1, <1>2, <1>3, <1>4, <1>5, IntentPost, IntentRetry DEF OnMain

LEMMA IntentCommand ==
  ASSUME BaseInv, IntentInv, startCommand \/ revoke
  PROVE  IntentInv'
<1>0. /\ UNCHANGED <<active, watchdog, NATIVE_LOADED, bound, disturbed, command>>
      /\ UNCHANGED <<mState, posts, retrying, handler, mCurrentProfile>>
  BY DEF startCommand, onStartCommand, revoke, interfaceRevoked, onRevoke, setNextProfile,
         stateServiceVars, retryVars, ikeVars, userVars
<1>1. ASSUME NEW O PROVE (Only(O) => Only(O)') /\ (Some(O) => Some(O)')
  BY <1>0, QueueSame
<1>2. CASE startCommand
  <2>1. /\ intents # <<>> /\ intents' = Tail(intents)
        /\ mNextProfile' = Head(intents) /\ UNCHANGED <<device, revoked>>
        /\ handler = "wait" /\ mProfileUpdated'
    BY <1>2 DEF startCommand, onStartCommand, setNextProfile
  <2>2. intents \in Seq(Ids) => intents' \in Seq(Ids) /\ mNextProfile' # NoId
    BY <2>1, NoIdAssumption
  <2>3. intents \in Seq({NoId}) => intents' \in Seq({NoId}) /\ mNextProfile' = NoId
    BY <2>1
  <2>4. OwnedInv'
    BY <1>0, <1>1, <2>1, <2>2 DEF IntentInv, OwnedInv, OwnedOK, Coming, TakenUp
  <2>5. DisconnectInv'
    BY <1>0, <1>1, <2>1, <2>3 DEF IntentInv, DisconnectInv, DisconnectOK
  <2> QED
    BY <2>4, <2>5 DEF IntentInv
<1>3. CASE interfaceRevoked
  <2>1. device' = "none" /\ UNCHANGED <<intents, mNextProfile, mProfileUpdated>>
    BY <1>3 DEF interfaceRevoked, stateServiceVars
  <2>2. OwnedInv'
    BY <1>0, <2>1 DEF IntentInv, OwnedInv, OwnedOK
  <2>3. DisconnectInv'
    BY <1>0, <1>1, <2>1 DEF IntentInv, DisconnectInv, DisconnectOK
  <2> QED
    BY <2>2, <2>3 DEF IntentInv
<1>4. CASE onRevoke
  <2>1. /\ handler = "wait" /\ revoked /\ ~revoked' /\ mProfileUpdated'
        /\ mNextProfile' = NoId /\ UNCHANGED <<intents, device>>
    BY <1>4 DEF onRevoke, setNextProfile, stateServiceVars
  <2>2. OwnedInv'
    BY <1>0, <1>1, <2>1 DEF IntentInv, OwnedInv, OwnedOK, Coming, TakenUp
  <2>3. DisconnectInv'
    BY <1>0, <1>1, <2>1 DEF IntentInv, DisconnectInv, DisconnectOK
  <2> QED
    BY <2>2, <2>3 DEF IntentInv
<1> QED
  BY <1>2, <1>3, <1>4 DEF revoke

LEMMA IntentHandler ==
  ASSUME BaseInv, IntentInv, handlerStep
  PROVE  IntentInv'
<1>0. /\ UNCHANGED <<active, watchdog, NATIVE_LOADED, bound, disturbed, command>>
      /\ UNCHANGED <<mState, intents, retrying, revoked>>
      /\ TypeOK /\ HandlerInv /\ device \in Device
  BY DEF handlerStep, retryVars, ikeVars, userVars, BaseInv, EngineInv, TypeOK, CharonServiceTypeOK
<1>1. ASSUME Coming => Coming' \/ device' = "none", ~Coming => device' \in {device, "none"},
             TakenUp => TakenUp' \/ device' = "none", ~TakenUp => TakenUp' \/ device' \in {device, "none"}
      PROVE  OwnedInv'
  BY <1>0, <1>1 DEF IntentInv, OwnedInv, OwnedOK
<1>2. ASSUME NEW op, NEW id, Post(op, id)
      PROVE  /\ Some(Upward) \/ op \in Upward => Some(Upward)'
             /\ Only(Ops \ {"ERROR"}) /\ op \in Ops \ {"ERROR"} => Only(Ops \ {"ERROR"})'
  BY <1>0, <1>2, QueuePost
<1>3. ASSUME UNCHANGED posts
      PROVE  /\ Some(Upward) => Some(Upward)'
             /\ Only(Ops \ {"ERROR"}) => Only(Ops \ {"ERROR"})'
  BY <1>3, QueueSame
<1>4. CASE stopCurrentConnection
  <2>1. /\ UNCHANGED <<mNextProfile, mCurrentProfile>>
        /\ mNextProfile = NoId => device' = device
        /\ mCurrentProfile = NoId => handler' = "start"
        /\ mCurrentProfile # NoId => handler' = "mark"
        /\ handler = "wait"
    BY <1>4 DEF stopCurrentConnection
  <2>2. UNCHANGED posts \/ Post("DISCONNECTING", NoId)
    BY <1>4 DEF stopCurrentConnection, NoPost
  <2>3. OwnedInv'
    BY <1>0, <1>1, <1>2, <1>3, <2>1, <2>2 DEF Coming, TakenUp
  <2>4. Only(Ops \ {"ERROR"}) => Only(Ops \ {"ERROR"})'
    BY <1>2, <1>3, <2>2 DEF Ops, State
  <2>5. DisconnectInv'
    BY <1>0, <2>1, <2>4 DEF IntentInv, DisconnectInv, DisconnectOK
  <2> QED
    BY <2>3, <2>5 DEF IntentInv
<1>5. CASE markDisconnecting
  <2>1. /\ UNCHANGED <<posts, mNextProfile, mCurrentProfile, device, mProfileUpdated>>
        /\ handler' = "deinit"
        /\ handler = "mark"
    BY <1>5 DEF markDisconnecting, NoPost
  <2>2. OwnedInv'
    BY <1>0, <1>1, <1>3, <2>1 DEF Coming, TakenUp
  <2>3. DisconnectInv'
    BY <1>0, <1>3, <2>1 DEF IntentInv, DisconnectInv, DisconnectOK
  <2> QED
    BY <2>2, <2>3 DEF IntentInv
<1>6. CASE charonStopped
  <2>1. /\ UNCHANGED <<posts, mNextProfile, mProfileUpdated>>
        /\ handler = "deinit" /\ handler' = "start" /\ mCurrentProfile' = NoId
    BY <1>6 DEF charonStopped, NoPost
  <2>2. device' \in {device, "none"} /\ (mNextProfile = NoId => device' = "none")
    BY <1>0, <1>6 DEF charonStopped, WithoutTunnel, WithoutBlocking, Device
  <2>3. OwnedInv'
    BY <1>0, <1>1, <1>3, <2>1, <2>2 DEF Coming, TakenUp
  <2>4. DisconnectInv'
    BY <1>0, <1>3, <2>1, <2>2 DEF IntentInv, DisconnectInv, DisconnectOK
  <2> QED
    BY <2>3, <2>4 DEF IntentInv
<1>7. CASE disabled
  <2>1. /\ Post("DISABLED", NoId)
        /\ handler = "start" /\ handler' = "wait" /\ mNextProfile = NoId
        /\ UNCHANGED <<mNextProfile, mCurrentProfile, device>>
    BY <1>7 DEF disabled
  <2>2. OwnedInv'
    BY <1>0, <1>1, <1>2, <2>1 DEF Coming, TakenUp
  <2>3. Only(Ops \ {"ERROR"}) => Only(Ops \ {"ERROR"})'
    BY <1>2, <2>1 DEF Ops, State
  <2>4. mCurrentProfile' = NoId
    BY <1>0, <2>1 DEF HandlerInv
  <2>5. DisconnectInv'
    BY <1>0, <2>1, <2>3, <2>4 DEF IntentInv, DisconnectInv, DisconnectOK
  <2> QED
    BY <2>2, <2>5 DEF IntentInv
<1>8. CASE startNext
  <2>1. PICK id \in Profile : Post("START", id)
    BY <1>0, <1>8 DEF startNext, TypeOK, CharonServiceTypeOK
  <2>2. Coming' /\ TakenUp'
    BY <1>2, <2>1 DEF Coming, TakenUp, Upward
  <2>3. ~(mNextProfile = NoId) /\ UNCHANGED device
    BY <1>8 DEF startNext
  <2>4. OwnedInv'
    BY <1>1, <2>2, <2>3
  <2>5. DisconnectInv'
    BY <1>0, <2>3 DEF IntentInv, DisconnectInv, DisconnectOK
  <2> QED
    BY <2>4, <2>5 DEF IntentInv
<1>9. CASE initiated \/ notInitialized \/ failedDisabled
  <2>1. handler \in {"init", "failed"} /\ UNCHANGED <<mNextProfile, device>>
    BY <1>9 DEF initiated, notInitialized, failedDisabled
  <2>2. \E op, id : UNCHANGED posts \/ Post(op, id)
    BY <1>9 DEF initiated, notInitialized, failedDisabled, NoPost
  <2>3. OwnedInv'
    BY <1>0, <1>1, <1>2, <1>3, <2>1, <2>2 DEF Coming, TakenUp
  <2>4. DisconnectInv'
    BY <1>0, <2>1 DEF IntentInv, DisconnectInv, DisconnectOK
  <2> QED
    BY <2>3, <2>4 DEF IntentInv
<1> QED
  BY <1>4, <1>5, <1>6, <1>7, <1>8, <1>9 DEF handlerStep

(***************************************************************************)
(* charon posts for a profile that is in use, so that the state will not   *)
(* stay DISABLED; an error posted for a session that was given up is what  *)
(* Disturbed excludes.                                                     *)
(***************************************************************************)
LEMMA IntentNative ==
  ASSUME BaseInv, IntentInv, FinishCallback \/ nativeEvent
  PROVE  IntentInv'
<1>0. /\ UNCHANGED <<active, watchdog, NATIVE_LOADED, bound, command>>
      /\ UNCHANGED <<mState, intents, retrying, handlerVars>>
      /\ disturbed => disturbed'
      /\ TypeOK /\ mCurrentProfile # NoId
  BY NativePosts, NativeNeedsProfile
  DEF FinishCallback, nativeEvent, retryVars, ikeVars, userVars, BaseInv, TypeOK, UserTypeOK
<1>1. ASSUME mState = "DISABLED" PROVE Some(Upward)
  <2>1. NotLast("DISABLED") /\ posts \in Seq(Posts)
    BY <1>0 DEF BaseInv, TellsInv, TypeOK, StateServiceTypeOK
  <2>2. PICK m \in 0 + 1..Len(posts) : Word(m) \in State \ {"DISABLED"}
    <3>1. 0 \in 0..Len(posts) /\ Word(0) = "DISABLED"
      BY <1>1, <2>1 DEF Word
    <3> QED
      BY <2>1, <3>1 DEF NotLast
  <2>3. m \in DOMAIN posts /\ posts[m].op \in Upward
    BY <2>1, <2>2 DEF Word, Says, State, Upward
  <2> QED
    BY <2>3 DEF Some
<1>2. Some(Upward) => Some(Upward)'
  BY <1>0, NativePosts, QueueSame, QueuePost
<1>3. OwnedInv'
  BY <1>0, <1>1, <1>2 DEF IntentInv, OwnedInv, OwnedOK, Coming, TakenUp
<1>4. ASSUME ~disturbed', command' = "DISCONNECT" PROVE DisconnectOK'
  <2>1. DisconnectOK
    BY <1>0, <1>4 DEF IntentInv, DisconnectInv
  <2>2. ~(Post("ERROR", NoId) /\ nativeEvent)
    <3> SUFFICES ASSUME Post("ERROR", NoId), nativeEvent PROVE FALSE
      OBVIOUS
    <3>1. ErrorPosted
      <4>1. posts \in Seq(Posts) /\ posts' = Append(posts, [op |-> "ERROR", id |-> NoId])
        BY <1>0 DEF TypeOK, StateServiceTypeOK, Post
      <4> QED
        BY <4>1 DEF ErrorPosted
    <3> QED
      BY <1>4, <2>1, <3>1 DEF nativeEvent, DisconnectOK
  <2>3. Only(Ops \ {"ERROR"})'
    <3>1. {"CONNECTED", "CONNECTING"} \subseteq Ops \ {"ERROR"}
      BY DEF Ops, State
    <3> QED
      BY <1>0, <2>1, <2>2, <3>1, NativePosts, QueueSame, QueuePost DEF DisconnectOK
  <2> QED
    BY <1>0, <2>1, <2>3 DEF DisconnectOK, handlerVars
<1> QED
  BY <1>3, <1>4 DEF IntentInv, DisconnectInv

LEMMA IntentStep == BaseInv /\ IntentInv /\ [Next]_vars => IntentInv'
<1> SUFFICES ASSUME BaseInv, IntentInv, [Next]_vars PROVE IntentInv'
  OBVIOUS
<1>1. CASE UNCHANGED vars
  BY <1>1, IntentSame DEF vars, stateServiceVars, retryVars, ikeVars, userVars
<1> QED
  BY <1>1, IntentMain, IntentCommand, IntentHandler, IntentNative DEF Next, OnMain

LEMMA IntentCorrect == Spec => []IntentInv
<1>1. Init => IntentInv
  BY DEF Init, IkeInit, IntentInv, OwnedInv, DisconnectInv, NoCommand
<1> QED
  BY <1>1, IntentStep, BaseCorrect, PTL DEF Spec

(***************************************************************************)
(* A disconnect given to IkeController in a quiet session ends it: when    *)
(* every message has been handled, CharonVpnService has closed the         *)
(* interface, charon is gone and no countdown will connect again.          *)
(***************************************************************************)
THEOREM DisconnectsWin == Spec => []DisconnectWins
<1>1. BaseInv /\ IntentInv => DisconnectWins
  <2> SUFFICES ASSUME BaseInv, IntentInv, ~disturbed, Quiet, command = "DISCONNECT"
               PROVE  device = "none" /\ ~charon /\ ~(retrying /\ retryMsgs > 0)
    BY DEF DisconnectWins
  <2>1. DisconnectOK
    BY DEF IntentInv, DisconnectInv
  <2>2. mCurrentProfile = NoId
    BY <2>1 DEF DisconnectOK, Quiet
  <2> QED
    BY <2>1, <2>2 DEF DisconnectOK, BaseInv, EngineInv, DaemonInv
<1> QED
  BY <1>1, BaseCorrect, IntentCorrect, PTL

-----------------------------------------------------------------------------
(***************************************************************************)
(* What IkeController knows of the state.                                  *)
(***************************************************************************)
LEMMA RunChanges ==
  ASSUME TypeOK, runPost, ~Changed(Head(posts))
  PROVE  UNCHANGED mState
<1>1. Head(posts).op \in Ops
  BY RunTakesHead DEF Posts, Ops
<1> QED
  BY <1>1 DEF runPost, startConnection, setState, setErrorState, Changed, Ops, State

LEMMA SeenStep == TypeOK /\ SeenInv /\ [Next]_vars => SeenInv'
<1> SUFFICES ASSUME TypeOK, SeenInv, [Next]_vars PROVE SeenInv'
  OBVIOUS
<1> USE DEF SeenInv
<1>1. ASSUME UNCHANGED <<ikeState, mState>>, bound' = bound \/ bound # "yes" PROVE SeenInv'
  BY <1>1
<1>2. ASSUME NEW s, NEW e, pushState(s, e), s = mState', bound' = "yes" PROVE SeenInv'
  BY <1>2 DEF pushState
<1>3. ASSUME NEW s, NEW e, stateChanged(s, e), s = mState' PROVE SeenInv'
  <2>1. CASE bound = "yes"
    BY <1>2, <1>3, <2>1 DEF stateChanged
  <2>2. CASE bound # "yes"
    BY <1>3, <2>2 DEF stateChanged
  <2> QED
    BY <2>1, <2>2
<1>4. ASSUME disconnect PROVE SeenInv'
  BY <1>4 DEF disconnect
<1>5. CASE Command
  <2>1. ASSUME NEW id, NEW f, claimAndConnect(id, f) PROVE SeenInv'
    BY <2>1 DEF claimAndConnect, connectStarted, connectFailed, bind
  <2> QED
    BY <1>1, <1>4, <1>5, <2>1 DEF Command, quickStart, launchConnect, requestDisconnect, ikeVars,
                                  stateServiceVars
<1>6. CASE mainPost
  <2>1. CASE Changed(Head(posts))
    BY <1>3, <1>6, <2>1 DEF mainPost
  <2>2. CASE ~Changed(Head(posts))
    BY <1>1, <1>6, <2>2, RunChanges DEF mainPost, ikeVars
  <2> QED
    BY <2>1, <2>2
<1>7. CASE retryTick
  <2>1. UNCHANGED mState
    BY <1>7 DEF retryTick, retryCounts, retryIgnored, retryConnects
  <2> QED
    BY <1>1, <1>3, <1>7, <2>1 DEF retryTick, ikeVars
<1>8. CASE controllerStep
  <2>1. UNCHANGED mState
    BY <1>8 DEF controllerStep, onServiceConnected, claimTick, stateServiceVars
  <2> QED
    BY <1>1, <1>2, <1>8, <2>1 DEF controllerStep, onServiceConnected, claimTick
<1>9. CASE ikeTimeout
  BY <1>1, <1>4, <1>9 DEF ikeTimeout, connectTimeout, stateServiceVars
<1>10. CASE activityBinds
  BY <1>1, <1>10 DEF activityBinds, stateServiceVars
<1>11. CASE \/ reconciles \/ xrayReport \/ xrayDisconnected \/ startCommand \/ revoke \/ handlerStep
            \/ FinishCallback \/ nativeEvent
  BY <1>1, <1>11 DEF reconciles, xrayReport, xrayDisconnected, startCommand, onStartCommand, revoke,
                     interfaceRevoked, onRevoke, handlerStep, FinishCallback, nativeEvent, ikeVars,
                     stateServiceVars
<1>12. CASE UNCHANGED vars
  BY <1>1, <1>12 DEF vars, ikeVars, stateServiceVars
<1> QED
  BY <1>5, <1>6, <1>7, <1>8, <1>9, <1>10, <1>11, <1>12 DEF Next

LEMMA NotActivated ==
  ASSUME TypeOK, [Next]_vars, active', ~active
  PROVE  \E id \in Ids : quickStart(id) \/ launchConnect(id)
<1>0. mState \in State
  BY DEF TypeOK, StateServiceTypeOK
<1>1. ASSUME disconnect PROVE FALSE
  BY <1>1 DEF disconnect
<1>2. CASE Command
  BY <1>1, <1>2 DEF Command, requestDisconnect, ikeVars
<1>3. CASE mainPost
  <2>1. mState' \in State
    BY <1>3, StateServiceType DEF Next, StateServiceTypeOK
  <2> QED
    BY <1>3, <2>1, ChangedKeeps DEF mainPost, ikeVars
<1>4. CASE retryTick
  BY <1>0, <1>4, ChangedKeeps DEF retryTick, ikeVars
<1>5. CASE controllerStep
  BY <1>0, <1>5, PushKeeps DEF controllerStep, onServiceConnected, claimTick
<1>6. CASE ikeTimeout
  BY <1>1, <1>6 DEF ikeTimeout, connectTimeout
<1>7. CASE activityBinds \/ reconciles \/ xrayReport \/ xrayDisconnected
  BY <1>7 DEF activityBinds, reconciles, xrayReport, xrayDisconnected, ikeVars
<1>8. CASE startCommand \/ revoke \/ handlerStep \/ FinishCallback \/ nativeEvent \/ UNCHANGED vars
  BY <1>8 DEF startCommand, revoke, handlerStep, FinishCallback, nativeEvent, vars, ikeVars
<1> QED
  BY <1>2, <1>3, <1>4, <1>5, <1>6, <1>7, <1>8 DEF Next

LEMMA CommandStep == TypeOK /\ CommandInv /\ [Next]_vars => CommandInv'
<1> SUFFICES ASSUME TypeOK, CommandInv, [Next]_vars, ~disturbed'
             PROVE  /\ reconcile' = "DISCONNECT" => command' = "DISCONNECT"
                    /\ xray' = "checked" => ~active'
  BY DEF CommandInv
<1>1. CASE \E id \in Ids : quickStart(id) \/ launchConnect(id)
  <2>1. reconcile' # "DISCONNECT"
    BY <1>1 DEF quickStart, launchConnect, NewCommand
  <2>2. xray' # "checked"
    BY <1>1 DEF quickStart, launchConnect, NewCommand
  <2> QED
    BY <2>1, <2>2
<1>2. CASE ~\E id \in Ids : quickStart(id) \/ launchConnect(id)
  <2>1. active' => active
    BY <1>2, NotActivated
  <2>2. CASE requestDisconnect
    BY <2>1, <2>2 DEF requestDisconnect, NewCommand, disconnect
  <2>3. CASE ~requestDisconnect
    <3>1. ~disturbed
      BY <1>2, <2>3
      DEF Next, Command, mainPost, retryTick, controllerStep, ikeTimeout, activityBinds, reconciles,
          xrayReport, xrayDisconnected, startCommand, revoke, handlerStep, FinishCallback,
          nativeEvent, vars, userVars
    <3>2. UNCHANGED command /\ (reconcile' = reconcile \/ reconcile' = NoCommand)
          /\ (xray' = "checked" => xray = "checked" \/ ~active')
      BY <1>2, <2>3
      DEF Next, Command, mainPost, retryTick, controllerStep, ikeTimeout, activityBinds, reconciles,
          xrayReport, xrayDisconnected, startCommand, revoke, handlerStep, FinishCallback,
          nativeEvent, vars, userVars, ikeVars
    <3> QED
      BY <2>1, <3>1, <3>2 DEF CommandInv, NoCommand
  <2> QED
    BY <2>2, <2>3
<1> QED
  BY <1>1, <1>2

-----------------------------------------------------------------------------
(***************************************************************************)
(* The user never waits unwatched.                                         *)
(***************************************************************************)
LEMMA BusySame ==
  ASSUME UNCHANGED <<intents, handlerVars, posts>>
  PROVE  Busy => Busy'
BY QueueSame DEF Busy, handlerVars

LEMMA WatchSame ==
  ASSUME WatchOK, UNCHANGED <<active, watchdog, state, ikeState>>, Busy => Busy'
  PROVE  WatchOK'
BY DEF WatchOK

LEMMA WatchPush ==
  ASSUME WatchOK, NEW s \in State, NEW e, pushState(s, e),
         s # "CONNECTED", ikeState' # "CONNECTED"
  PROVE  WatchOK'
BY DEF WatchOK, pushState, setError, setDisconnected, stateVars, State

LEMMA WatchPushConnected ==
  ASSUME WatchOK, NEW e, pushState("CONNECTED", e)
  PROVE  WatchOK'
BY DEF WatchOK, pushState, setConnected

LEMMA WatchConnect ==
  ASSUME NEW id \in Ids, quickStart(id) \/ launchConnect(id), NATIVE_LOADED, TypeOK
  PROVE  WatchOK'
<1>1. CASE connectStarted(id)
  <2>1. intents' # <<>>
    BY <1>1 DEF connectStarted, TypeOK, StateServiceTypeOK
  <2> QED
    BY <1>1, <2>1 DEF connectStarted, setConnecting, WatchOK, Busy
<1>2. CASE connectFailed /\ state' \in {"ERROR", "DISCONNECTED"}
  BY <1>2 DEF connectFailed, WatchOK
<1> QED
  BY <1>1, <1>2 DEF quickStart, launchConnect, claimAndConnect

LEMMA WatchChanged ==
  ASSUME TypeOK, SeenInv, WatchOK, NEW s \in State, NEW e, stateChanged(s, e)
  PROVE  WatchOK'
<1>1. CASE bound = "yes"
  <2>1. pushState(s, e) /\ ikeState' = s
    BY <1>1 DEF stateChanged, pushState
  <2> QED
    BY <2>1, WatchPush, WatchPushConnected
<1>2. CASE bound # "yes"
  BY <1>2 DEF stateChanged, SeenInv, WatchOK, stateVars
<1> QED
  BY <1>1, <1>2

LEMMA WatchPost ==
  ASSUME TypeOK, SeenInv, WatchOK, mainPost
  PROVE  WatchOK'
<1>1. mState' \in State
  BY StateServiceType DEF Next, StateServiceTypeOK
<1>2. CASE Changed(Head(posts))
  BY <1>1, <1>2, WatchChanged DEF mainPost
<1>3. CASE ~Changed(Head(posts))
  <2>1. runPost /\ UNCHANGED <<active, watchdog, state, ikeState, intents, handlerVars>>
    BY <1>3 DEF mainPost, runPost, ikeVars, stateVars, engineVars
  <2>2. ASSUME ikeState = "CONNECTED", Busy PROVE Busy'
    <3>1. mState = "CONNECTED"
      BY <2>2 DEF SeenInv
    <3>2. Head(posts).op \notin Downward
      BY <1>3, <3>1 DEF Changed, Downward
    <3>3. Some(Downward) => Some(Downward)'
      BY <2>1, <3>2, QueueRun
    <3> QED
      BY <2>1, <2>2, <3>3 DEF Busy, handlerVars
  <2> QED
    BY <2>1, <2>2 DEF WatchOK
<1> QED
  BY <1>2, <1>3

LEMMA WatchRetry ==
  ASSUME TypeOK, SeenInv, WatchOK, retryTick
  PROVE  WatchOK'
<1>0. mState \in State /\ intents \in Seq(Profile) /\ mProfile \in Profile
  BY DEF TypeOK, StateServiceTypeOK
<1>1. CASE stateChanged(mState, mError)
  BY <1>0, <1>1, WatchChanged
<1>2. CASE UNCHANGED <<ikeVars, stateVars>>
  <2>1. UNCHANGED <<handlerVars, posts>> /\ (intents' = intents \/ intents' = Append(intents, mProfile))
    BY DEF retryTick, retryIgnored, retryConnects, retryCounts, engineVars
  <2>2. intents # <<>> => intents' # <<>>
    BY <1>0, <2>1
  <2>3. Busy => Busy'
    BY <2>1, <2>2, QueueSame DEF Busy, handlerVars
  <2> QED
    BY <1>2, <2>3, WatchSame DEF ikeVars, stateVars
<1> QED
  BY <1>1, <1>2 DEF retryTick

LEMMA WatchTimeout ==
  ASSUME TypeOK, WatchOK, ikeTimeout
  PROVE  WatchOK'
<1>1. CASE disconnect /\ setError
  BY <1>1 DEF disconnect, setError, WatchOK
<1>2. CASE ~(active /\ ikeState # "CONNECTED")
  <2>1. UNCHANGED <<active, state>>
    BY <1>2 DEF ikeTimeout, connectTimeout, stateVars
  <2>2. ~Busy
    BY DEF ikeTimeout, Busy, Some, Downward
  <2>3. state # "CONNECTING"
    BY <1>2, <2>2 DEF WatchOK
  <2> QED
    BY <2>1, <2>3 DEF WatchOK
<1> QED
  BY <1>1, <1>2 DEF ikeTimeout, connectTimeout

LEMMA WatchMain ==
  ASSUME BaseInv, IntentInv, SeenInv, CommandInv, WatchOK, OnMain,
         ~disturbed, NATIVE_LOADED, ~disturbed'
  PROVE  WatchOK'
<1>0. TypeOK /\ mState \in State /\ UNCHANGED handlerVars
  BY OnMainLeavesEngine DEF BaseInv, TypeOK, StateServiceTypeOK, engineVars
<1>1. CASE Command
  <2>1. CASE requestDisconnect
    BY <2>1 DEF requestDisconnect, NewCommand, disconnect, setDisconnected, setDisconnecting, WatchOK
  <2> QED
    BY <1>0, <1>1, <2>1, WatchConnect DEF Command
<1>2. CASE controllerStep
  <2>1. CASE onServiceConnected
    <3>1. pushState(mState, mError) /\ ikeState' = mState
      BY <2>1 DEF onServiceConnected, pushState
    <3> QED
      BY <1>0, <3>1, WatchPush, WatchPushConnected
  <2>2. CASE claimTick
    <3>1. UNCHANGED <<active, watchdog, ikeState, intents, posts>>
      BY <2>2 DEF claimTick, stateServiceVars
    <3>2. UNCHANGED state
      BY <2>2 DEF claimTick, WatchOK, stateVars
    <3> QED
      BY <1>0, <3>1, <3>2, BusySame, WatchSame
  <2> QED
    BY <1>2, <2>1, <2>2 DEF controllerStep
<1>3. CASE activityBinds
  BY <1>0, <1>3, BusySame, WatchSame DEF activityBinds, stateServiceVars, stateVars
<1>4. CASE reconciles \/ xrayReport \/ xrayDisconnected
  <2>0. UNCHANGED ikeVars /\ UNCHANGED stateServiceVars
    BY <1>4 DEF reconciles, xrayReport, xrayDisconnected
  <2>1. UNCHANGED <<active, watchdog, ikeState, intents, posts>>
    BY <2>0 DEF stateServiceVars, ikeVars
  <2>2. \/ UNCHANGED state
        \/ state' = "DISCONNECTED" /\ ~active
        \/ state' = "ERROR"
    <3>1. CASE reconciles
      <4>1. reconcile = "DISCONNECT" => ~active
        BY DEF CommandInv, IntentInv, DisconnectInv, DisconnectOK
      <4> QED
        BY <3>1, <4>1 DEF reconciles, setDisconnected, setError, stateVars
    <3>2. CASE xrayReport
      BY <3>2 DEF xrayReport, setDisconnected, stateVars, WatchOK
    <3>3. CASE xrayDisconnected
      BY <3>3 DEF xrayDisconnected, setDisconnected, CommandInv
    <3> QED
      BY <1>4, <3>1, <3>2, <3>3
  <2>3. Busy => Busy'
    BY <1>0, <2>1, BusySame
  <2> QED
    BY <2>1, <2>2, <2>3 DEF WatchOK
<1> QED
  BY <1>0, <1>1, <1>2, <1>3, <1>4, WatchPost, WatchRetry, WatchTimeout DEF OnMain

LEMMA BusyHandler ==
  ASSUME TypeOK, handlerStep, Busy
  PROVE  Busy'
<1>0. UNCHANGED intents
  BY DEF handlerStep
<1>1. CASE stopCurrentConnection \/ markDisconnecting \/ charonStopped
  BY <1>1 DEF stopCurrentConnection, markDisconnecting, charonStopped, Busy
<1>2. CASE disabled \/ failedDisabled
  <2>1. Some(Downward)'
    BY <1>2, QueuePost DEF disabled, failedDisabled, Downward
  <2> QED
    BY <2>1 DEF Busy
<1>3. CASE startNext
  <2>1. PICK id \in Profile : Post("START", id)
    BY <1>3 DEF startNext, TypeOK, CharonServiceTypeOK
  <2>2. Some(Downward)'
    BY <2>1, QueuePost DEF Downward
  <2> QED
    BY <2>2 DEF Busy
<1>4. CASE initiated \/ notInitialized
  <2>1. Some(Downward) => Some(Downward)'
    BY <1>4, QueueSame, QueuePost DEF initiated, notInitialized, NoPost
  <2> QED
    BY <1>0, <1>4, <2>1 DEF initiated, notInitialized, Busy
<1> QED
  BY <1>1, <1>2, <1>3, <1>4 DEF handlerStep

LEMMA WatchStep ==
  BaseInv /\ IntentInv /\ SeenInv /\ CommandInv /\ WatchInv /\ [Next]_vars => WatchInv'
<1> SUFFICES ASSUME BaseInv, IntentInv, SeenInv, CommandInv, WatchInv, [Next]_vars,
                    ~disturbed', NATIVE_LOADED'
             PROVE  WatchOK'
  BY DEF WatchInv
<1>0. TypeOK /\ mState \in State
  BY DEF BaseInv, TypeOK, StateServiceTypeOK
<1>1. ~disturbed
  BY DEF Next, Command, quickStart, launchConnect, requestDisconnect, NewCommand, mainPost, retryTick,
         controllerStep, ikeTimeout, activityBinds, reconciles, xrayReport, xrayDisconnected,
         startCommand, revoke, handlerStep, FinishCallback, nativeEvent, vars, userVars
<1>2. CASE OnMain
  <2>1. NATIVE_LOADED
    <3>1. ASSUME disconnect PROVE NATIVE_LOADED
      BY <3>1 DEF disconnect
    <3>2. ASSUME NEW s, NEW e, pushState(s, e) PROVE NATIVE_LOADED
      BY <3>2 DEF pushState
    <3>3. ASSUME UNCHANGED ikeVars PROVE NATIVE_LOADED
      BY <3>3 DEF ikeVars
    <3>4. CASE Command
      BY <3>1, <3>3, <3>4 DEF Command, quickStart, launchConnect, requestDisconnect, claimAndConnect
    <3>5. CASE mainPost \/ retryTick
      BY <3>2, <3>3, <3>5 DEF mainPost, retryTick, stateChanged
    <3>6. CASE controllerStep
      BY <3>2, <3>6 DEF controllerStep, onServiceConnected, claimTick
    <3>7. CASE ikeTimeout
      BY <3>1, <3>7 DEF ikeTimeout, connectTimeout
    <3>8. CASE activityBinds
      BY <3>8 DEF activityBinds
    <3>9. CASE reconciles \/ xrayReport \/ xrayDisconnected
      BY <3>3, <3>9 DEF reconciles, xrayReport, xrayDisconnected
    <3> QED
      BY <1>2, <3>4, <3>5, <3>6, <3>7, <3>8, <3>9 DEF OnMain
  <2> QED
    BY <1>1, <1>2, <2>1, WatchMain DEF WatchInv
<1>3. CASE ~OnMain
  <2>1. UNCHANGED <<ikeVars, stateVars>>
    BY <1>3 DEF Next, OnMain, startCommand, revoke, handlerStep, FinishCallback, nativeEvent, vars
  <2>2. WatchOK
    BY <1>1, <2>1 DEF WatchInv, ikeVars
  <2>3. Busy => Busy'
    <3>1. CASE startCommand \/ revoke
      <4>1. CASE startCommand \/ onRevoke
        BY <4>1 DEF startCommand, onStartCommand, onRevoke, setNextProfile, Busy
      <4>2. CASE interfaceRevoked
        BY <4>2, QueueSame DEF interfaceRevoked, stateServiceVars, Busy
      <4> QED
        BY <3>1, <4>1, <4>2 DEF revoke
    <3>2. CASE FinishCallback \/ nativeEvent
      <4>1. Some(Downward) => Some(Downward)'
        BY <1>0, <3>2, NativePosts, QueueSame, QueuePost
      <4> QED
        BY <3>2, <4>1, NativePosts DEF Busy, handlerVars
    <3>3. CASE UNCHANGED vars
      BY <3>3, BusySame DEF vars, stateServiceVars
    <3> QED
      BY <1>0, <1>3, <3>1, <3>2, <3>3, BusyHandler DEF Next, OnMain
  <2> QED
    BY <2>1, <2>2, <2>3, WatchSame DEF ikeVars, stateVars
<1> QED
  BY <1>2, <1>3

(***************************************************************************)
(* While the state shows CONNECTING, the watchdog of IkeController or that *)
(* of VpnCommandCoordinator is running, as long as no command came in      *)
(* between messages that were on their way.                                *)
(***************************************************************************)
THEOREM WaitsAreWatched == Spec => []WaitIsWatched
<1>1. Init => SeenInv /\ CommandInv /\ WatchInv
  BY DEF Init, StateInit, StateServiceInit, IkeInit, SeenInv, CommandInv, WatchInv, WatchOK, NoCommand
<1>2. WatchInv => WaitIsWatched
  BY DEF WatchInv, WatchOK, WaitIsWatched
<1>3. BaseInv => TypeOK
  BY DEF BaseInv
<1> QED
  BY <1>1, <1>2, <1>3, BaseCorrect, IntentCorrect, SeenStep, CommandStep, WatchStep, PTL DEF Spec

=============================================================================
