--------------------------- MODULE IkeController ---------------------------
(***************************************************************************)
(* IkeController.kt: drives the strongSwan service for the app, and        *)
(* VpnState from what it reports.  Everything here runs on the main        *)
(* thread.                                                                 *)
(***************************************************************************)
EXTENDS AndroidService

CONSTANT ClaimTicks   \* how often claim() looks after the state

ASSUME ClaimAssumption == ClaimTicks \in Nat

VARIABLES active, claimedId,
          ikeState,    \* _state: the state of VpnStateService last seen
          bound,       \* is VpnStateService bound?
          watchdog,    \* is the watchdog of connect() waiting?
          claimTicks,  \* looks claim() has left
          NATIVE_LOADED   \* could the native library be loaded?

ikeVars == <<active, claimedId, ikeState, bound, watchdog, claimTicks, NATIVE_LOADED>>

IkeTypeOK == /\ active \in BOOLEAN
             /\ claimedId \in Profile
             /\ ikeState \in State
             /\ bound \in {"no", "binding", "yes"}
             /\ watchdog \in BOOLEAN
             /\ claimTicks \in Nat
             /\ NATIVE_LOADED \in BOOLEAN

IkeInit == /\ active = FALSE
           /\ claimedId = NoId
           /\ ikeState = "DISABLED"
           /\ bound = "no"
           /\ watchdog = FALSE
           /\ claimTicks = 0
           /\ NATIVE_LOADED \in IF "NO_LIBRARY" \in Faults THEN BOOLEAN ELSE {TRUE}

bind == bound' = IF bound = "no" THEN "binding" ELSE bound

(***************************************************************************)
(* pushState(), for the state s and the error e of VpnStateService.        *)
(***************************************************************************)
pushState(s, e) ==
  /\ ikeState' = s
  /\ \/ /\ s = "CONNECTED"
        /\ watchdog' = FALSE
        /\ setConnected
        /\ UNCHANGED active
     \/ /\ s = "DISABLED" /\ active
        /\ active' = FALSE
        /\ watchdog' = FALSE
        /\ IF e THEN setError ELSE setDisconnected
     \/ /\ s \in {"CONNECTING", "DISCONNECTING"} \/ (s = "DISABLED" /\ ~active)
        /\ UNCHANGED <<active, watchdog, stateVars>>
  /\ UNCHANGED <<claimedId, claimTicks, NATIVE_LOADED>>

(***************************************************************************)
(* A listener is only called once the service is bound.                    *)
(***************************************************************************)
stateChanged(s, e) == /\ IF bound = "yes" THEN pushState(s, e)
                         ELSE UNCHANGED <<active, claimedId, ikeState, watchdog, claimTicks, NATIVE_LOADED, stateVars>>
                      /\ UNCHANGED bound

onServiceConnected == /\ bound = "binding"
                      /\ bound' = "yes"
                      /\ pushState(mState, mError)
                      /\ UNCHANGED <<stateServiceVars>>

-----------------------------------------------------------------------------
(***************************************************************************)
(* Mutant: no watchdog.                                                    *)
(***************************************************************************)
connectUnwatched(id) ==
  /\ NATIVE_LOADED
  /\ active' = TRUE
  /\ setConnecting(id)
  /\ intents' = Append(intents, id)
  /\ bind
  /\ UNCHANGED watchdog

(***************************************************************************)
(* connect().  When it fails without the native library, active stays set. *)
(***************************************************************************)
connectStarted(id) ==
  /\ NATIVE_LOADED
  /\ active' = TRUE
  /\ watchdog' = TRUE
  /\ setConnecting(id)
  /\ intents' = Append(intents, id)
  /\ bind

connectFailed ==
  /\ \/ ~NATIVE_LOADED /\ active' = TRUE /\ UNCHANGED watchdog
     \/ NATIVE_LOADED /\ "NO_PROFILE" \in Faults /\ active' = FALSE /\ UNCHANGED watchdog
     \/ NATIVE_LOADED /\ "NO_SERVICE" \in Faults /\ active' = FALSE /\ watchdog' = TRUE
  /\ UNCHANGED <<intents, bound>>

(***************************************************************************)
(* claim() followed by connect().  failed says how the caller shows that   *)
(* it did not work.                                                        *)
(***************************************************************************)
claimAndConnect(id, failed) ==
  /\ claimedId' = id
  /\ claimTicks' = ClaimTicks
  /\ \/ connectStarted(id)
     \/ connectFailed /\ state' = failed /\ activeId' = (IF failed = "ERROR" THEN id ELSE NoId)
  /\ UNCHANGED <<ikeState, NATIVE_LOADED, mState, mError, mProfile, retryVars, posts>>

(***************************************************************************)
(* The coroutine of claim(): a late end of the Xray session is overwritten *)
(* again.                                                                  *)
(***************************************************************************)
claimTick ==
  /\ claimTicks > 0
  /\ IF active /\ ikeState # "CONNECTED"
     THEN /\ claimTicks' = claimTicks - 1
          /\ IF state = "DISCONNECTED" THEN setConnecting(claimedId) ELSE UNCHANGED stateVars
     ELSE claimTicks' = 0 /\ UNCHANGED stateVars
  /\ UNCHANGED <<active, claimedId, ikeState, bound, watchdog, NATIVE_LOADED, stateServiceVars>>

(***************************************************************************)
(* Mutant: only the service is told to stop; the countdown goes on.        *)
(***************************************************************************)
disconnectServiceOnly ==
  /\ active' = FALSE
  /\ claimedId' = NoId
  /\ watchdog' = FALSE
  /\ ikeState' = "DISABLED"
  /\ intents' = Append(intents, NoId)
  /\ UNCHANGED <<bound, claimTicks, NATIVE_LOADED, mState, mError, mProfile, retryVars, posts>>

(***************************************************************************)
(* disconnect(): DISCONNECT_ACTION, and once more from VpnStateService,    *)
(* which also ends a countdown.                                            *)
(***************************************************************************)
disconnect ==
  /\ active' = FALSE
  /\ claimedId' = NoId
  /\ watchdog' = FALSE
  /\ ikeState' = "DISABLED"
  /\ IF bound = "yes"
     THEN /\ intents' = intents \o <<NoId, NoId>>
          /\ resetRetryTimer
          /\ Post("NO_ERROR", NoId)
     ELSE /\ intents' = Append(intents, NoId)
          /\ UNCHANGED <<retryVars, posts>>
  /\ UNCHANGED <<bound, claimTicks, NATIVE_LOADED, mState, mError, mProfile>>

(***************************************************************************)
(* Mutant: the watchdog leaves it to strongSwan to report the end.         *)
(***************************************************************************)
connectTimeoutSilent ==
  /\ watchdog
  /\ IF active /\ ikeState # "CONNECTED" THEN disconnect /\ UNCHANGED stateVars
     ELSE watchdog' = FALSE /\ UNCHANGED <<active, claimedId, ikeState, bound, claimTicks,
                                           NATIVE_LOADED, stateVars, stateServiceVars>>

(***************************************************************************)
(* The watchdog of connect().                                              *)
(***************************************************************************)
connectTimeout ==
  /\ watchdog
  /\ IF active /\ ikeState # "CONNECTED" THEN disconnect /\ setError
     ELSE watchdog' = FALSE /\ UNCHANGED <<active, claimedId, ikeState, bound, claimTicks,
                                           NATIVE_LOADED, stateVars, stateServiceVars>>

=============================================================================
