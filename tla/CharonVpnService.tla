-------------------------- MODULE CharonVpnService --------------------------
(***************************************************************************)
(* CharonVpnService.java: the Android service of the IKEv2 engine.  Start  *)
(* commands only set mNextProfile; a handler thread takes it, stops the    *)
(* connection there is and starts the next one.  The thread holds the      *)
(* monitor of the service from the moment it stops waiting until it waits  *)
(* again, so commands wait for it; charon's own threads do not.            *)
(*                                                                         *)
(* device is the interface Android routes the traffic of the device to:    *)
(* the one established last, as long as its descriptor is open.            *)
(***************************************************************************)
EXTENDS VpnStateService

CONSTANT Faults   \* what may go wrong: see FaultsAssumption

(***************************************************************************)
(* Android refuses an interface or takes it away, charon does not          *)
(* initialise, a service cannot be started, the native library is missing  *)
(* or no profile can be stored.                                            *)
(***************************************************************************)
ASSUME FaultsAssumption ==
  Faults \subseteq {"REFUSED", "REVOKED", "FAILED", "NO_SERVICE", "NO_LIBRARY", "NO_PROFILE"}

VARIABLES mNextProfile, mCurrentProfile, mProfileUpdated, mIsDisconnecting,
          handler,   \* where the handler thread is
          device,    \* the interface in use
          revoked,   \* has Android taken it away without onRevoke having run yet?
          prepared   \* may the app set up interfaces?

handlerVars == <<mNextProfile, mCurrentProfile, mProfileUpdated, mIsDisconnecting, handler, revoked>>

HandlerPc == {"wait", "mark", "deinit", "start", "init", "failed"}
Device == {"none", "blocking", "tunnel"}

CharonServiceTypeOK == /\ mNextProfile \in Profile
                       /\ mCurrentProfile \in Profile
                       /\ mProfileUpdated \in BOOLEAN
                       /\ mIsDisconnecting \in BOOLEAN
                       /\ handler \in HandlerPc
                       /\ device \in Device
                       /\ revoked \in BOOLEAN /\ prepared \in BOOLEAN

CharonServiceInit == /\ mNextProfile = NoId
                     /\ mCurrentProfile = NoId
                     /\ mProfileUpdated = FALSE
                     /\ mIsDisconnecting = FALSE
                     /\ handler = "wait"
                     /\ device = "none"
                     /\ revoked = FALSE /\ prepared = TRUE

NoPost == UNCHANGED posts

(***************************************************************************)
(* What is left of an interface when a descriptor is closed.               *)
(***************************************************************************)
WithoutTunnel(d) == IF d = "tunnel" THEN "none" ELSE d
WithoutBlocking(d) == IF d = "blocking" THEN "none" ELSE d

-----------------------------------------------------------------------------
(***************************************************************************)
(* Commands.  They need the monitor.                                       *)
(***************************************************************************)
setNextProfile(id) == /\ handler = "wait"
                      /\ mNextProfile' = id
                      /\ mProfileUpdated' = TRUE
                      /\ UNCHANGED <<mCurrentProfile, mIsDisconnecting, handler>>

onStartCommand == /\ intents # <<>>
                  /\ setNextProfile(Head(intents))
                  /\ intents' = Tail(intents)
                  /\ UNCHANGED <<mState, mError, mProfile, retryVars, posts, device, revoked>>

(***************************************************************************)
(* Another VPN takes over.  Android takes the interface away first, at any *)
(* moment, and calls onRevoke then, which has to get the monitor.  Until   *)
(* the app prepares itself again it gets no interface.  Bound: no other    *)
(* revocation before onRevoke has run.                                     *)
(***************************************************************************)
interfaceRevoked == /\ "REVOKED" \in Faults
                    /\ device # "none" /\ ~revoked
                    /\ device' = "none"
                    /\ revoked' = TRUE /\ prepared' = FALSE
                    /\ UNCHANGED <<mNextProfile, mCurrentProfile, mProfileUpdated, mIsDisconnecting, handler>>
                    /\ UNCHANGED stateServiceVars

(***************************************************************************)
(* Mutant: the service does not listen.                                    *)
(***************************************************************************)
onRevokeIgnored == /\ revoked
                   /\ handler = "wait"
                   /\ revoked' = FALSE
                   /\ UNCHANGED <<mNextProfile, mCurrentProfile, mProfileUpdated, mIsDisconnecting, handler>>
                   /\ UNCHANGED <<stateServiceVars, device, prepared>>

onRevoke == /\ revoked
            /\ setNextProfile(NoId)
            /\ revoked' = FALSE
            /\ UNCHANGED <<stateServiceVars, device, prepared>>

-----------------------------------------------------------------------------
(***************************************************************************)
(* BuilderAdapter.  A new interface replaces the one in use; if Android    *)
(* refuses it, as it does after a revocation, the old one stays.           *)
(***************************************************************************)
Refused == ("REFUSED" \in Faults \/ ~prepared) /\ UNCHANGED device

establishBlocking == \/ prepared /\ device' = "blocking"
                     \/ Refused

establish == prepared /\ device' = "tunnel"

(***************************************************************************)
(* The handler thread: run() and stopCurrentConnection().                  *)
(***************************************************************************)
stopCurrentConnection ==
  /\ handler = "wait" /\ mProfileUpdated
  /\ mProfileUpdated' = FALSE
  /\ IF mNextProfile = NoId THEN UNCHANGED device ELSE establishBlocking
  /\ IF mCurrentProfile = NoId THEN NoPost /\ handler' = "start"
     ELSE Post("DISCONNECTING", NoId) /\ handler' = "mark"
  /\ UNCHANGED <<mNextProfile, mCurrentProfile, mIsDisconnecting>>

markDisconnecting == /\ handler = "mark"
                     /\ mIsDisconnecting' = TRUE
                     /\ handler' = "deinit"
                     /\ NoPost
                     /\ UNCHANGED <<mNextProfile, mCurrentProfile, mProfileUpdated, device>>

(***************************************************************************)
(* Mutant: the blocking interface is closed whatever comes next.           *)
(***************************************************************************)
charonStoppedAlways ==
  /\ handler = "deinit"
  /\ mCurrentProfile' = NoId
  /\ device' = WithoutBlocking(WithoutTunnel(device))
  /\ handler' = "start"
  /\ NoPost
  /\ UNCHANGED <<mNextProfile, mProfileUpdated, mIsDisconnecting>>

(***************************************************************************)
(* deinitializeCharon() has closed the tunnel.                             *)
(***************************************************************************)
charonStopped ==
  /\ handler = "deinit"
  /\ mCurrentProfile' = NoId
  /\ IF mNextProfile = NoId
     THEN device' = WithoutBlocking(WithoutTunnel(device))
     ELSE device' = WithoutTunnel(device)
  /\ handler' = "start"
  /\ NoPost
  /\ UNCHANGED <<mNextProfile, mProfileUpdated, mIsDisconnecting>>

disabled == /\ handler = "start" /\ mNextProfile = NoId
            /\ Post("DISABLED", NoId)
            /\ handler' = "wait"
            /\ UNCHANGED <<mNextProfile, mCurrentProfile, mProfileUpdated, mIsDisconnecting, device>>

startNext == /\ handler = "start" /\ mNextProfile # NoId
             /\ mCurrentProfile' = mNextProfile
             /\ mNextProfile' = NoId
             /\ Post("START", mNextProfile)
             /\ mIsDisconnecting' = FALSE
             /\ handler' = "init"
             /\ UNCHANGED <<mProfileUpdated, device>>

initiated == /\ handler = "init"
             /\ handler' = "wait"
             /\ NoPost
             /\ UNCHANGED <<mNextProfile, mCurrentProfile, mProfileUpdated, mIsDisconnecting, device>>

notInitialized == /\ handler = "init"
                  /\ "FAILED" \in Faults
                  /\ Post("ERROR", NoId)
                  /\ handler' = "failed"
                  /\ UNCHANGED <<mNextProfile, mCurrentProfile, mProfileUpdated, mIsDisconnecting, device>>

(***************************************************************************)
(* Mutant: the handler gives up without telling the state.                 *)
(***************************************************************************)
failedQuietly == /\ handler = "failed"
                 /\ NoPost
                 /\ mCurrentProfile' = NoId
                 /\ handler' = "wait"
                 /\ UNCHANGED <<mNextProfile, mProfileUpdated, mIsDisconnecting, device>>

failedDisabled == /\ handler = "failed"
                  /\ Post("DISABLED", NoId)
                  /\ mCurrentProfile' = NoId
                  /\ handler' = "wait"
                  /\ UNCHANGED <<mNextProfile, mProfileUpdated, mIsDisconnecting, device>>

-----------------------------------------------------------------------------
(***************************************************************************)
(* Mutant: the status is posted as charon names it.                        *)
(***************************************************************************)
updateStatusRaw(s) == IF mIsDisconnecting /\ s # "CHILD_UP" THEN NoPost ELSE Post(s, NoId)

(***************************************************************************)
(* updateStatus(), called by charon's threads.  Only a new connection is   *)
(* reported while the handler is disconnecting.                            *)
(***************************************************************************)
updateStatus(s) ==
  \/ s = "CHILD_UP" /\ Post("CONNECTED", NoId)
  \/ s = "CHILD_DOWN" /\ ~mIsDisconnecting /\ Post("CONNECTING", NoId)
  \/ s = "ERROR" /\ ~mIsDisconnecting /\ Post("ERROR", NoId)
  \/ s # "CHILD_UP" /\ mIsDisconnecting /\ NoPost

=============================================================================
