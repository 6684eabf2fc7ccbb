--------------------------- MODULE AndroidService ---------------------------
(***************************************************************************)
(* android_service.c and charonservice.c of libandroidbridge: the native   *)
(* half of the IKEv2 engine.  charon's threads report what happens to the  *)
(* IKE_SA through a listener on charon's bus, which calls one listener     *)
(* method at a time; the listener sets up the tunnel and tells Java.       *)
(*                                                                         *)
(* libcharon and the gateway are external: sa is the phase of the IKE_SA   *)
(* the listener follows, which changes as the daemon and the peer please.  *)
(* Every listener method ignores the events of other IKE_SAs, and nothing  *)
(* is heard any more once the listener is off the bus.                     *)
(***************************************************************************)
EXTENDS CharonVpnService

VARIABLES charon,         \* is the daemon running?
          listener,       \* the listener and its optional hooks
          sa,             \* phase of the IKE_SA followed
          tunfd,          \* does the service hold the descriptor of a tunnel?
          callback        \* where the listener method under way is

nativeVars == <<charon, listener, sa, tunfd, callback>>

(***************************************************************************)
(* queued: the job that creates the IKE_SA waits; init: being negotiated;  *)
(* up and down: the CHILD_SA; lost: its replacement could not be started.  *)
(***************************************************************************)
SaPhase == {"none", "queued", "init", "up", "down", "lost", "gone"}
CallbackPc == {"idle", "swap", "swapNoDns", "replace"}

Listener == [on : BOOLEAN, ike_updown : BOOLEAN, ike_reestablish : BOOLEAN]
Off == [on |-> FALSE, ike_updown |-> FALSE, ike_reestablish |-> FALSE]

NativeTypeOK == /\ charon \in BOOLEAN
                /\ listener \in Listener
                /\ sa \in SaPhase
                /\ tunfd \in BOOLEAN
                /\ callback \in CallbackPc

NativeInit == /\ charon = FALSE
              /\ listener = Off
              /\ sa = "none"
              /\ tunfd = FALSE
              /\ callback = "idle"

-----------------------------------------------------------------------------
(***************************************************************************)
(* initializeCharon() and the initiate() that follows: the listener is on  *)
(* the bus before the job that initiates runs.                             *)
(***************************************************************************)
initializeCharon == /\ charon' = TRUE
                    /\ listener' = [on |-> TRUE, ike_updown |-> TRUE, ike_reestablish |-> FALSE]
                    /\ sa' = "queued"
                    /\ tunfd' = FALSE
                    /\ UNCHANGED callback

(***************************************************************************)
(* Mutant: charon's threads are not waited for.                            *)
(***************************************************************************)
deinitializeAtOnce == /\ charon' = FALSE
                      /\ listener' = Off
                      /\ sa' = "none"
                      /\ tunfd' = FALSE
                      /\ UNCHANGED callback

(***************************************************************************)
(* deinitializeCharon(): charon's threads are waited for, the listener     *)
(* leaves the bus and the tunnel is closed.                                *)
(***************************************************************************)
deinitializeCharon == /\ callback = "idle"
                      /\ charon' = FALSE
                      /\ listener' = Off
                      /\ sa' = "none"
                      /\ tunfd' = FALSE
                      /\ UNCHANGED callback

-----------------------------------------------------------------------------
(***************************************************************************)
(* A listener method that returns FALSE is not called again.               *)
(***************************************************************************)
GiveUp == /\ updateStatus("ERROR")
          /\ listener' = Off

Event == charon /\ listener.on /\ callback = "idle"

(***************************************************************************)
(* The job that creates the IKE_SA and initiates it.                       *)
(***************************************************************************)
initiate ==
  /\ charon /\ callback = "idle" /\ sa = "queued"
  /\ \/ sa' = "none" /\ updateStatus("ERROR")
     \/ sa' \in {"init", "gone"} /\ NoPost
  /\ UNCHANGED <<charon, listener, tunfd, callback, device>>

(***************************************************************************)
(* The IKE_SA goes down.  While it is being initiated the hook ike_updown  *)
(* takes that for an authentication error; later only the end of the       *)
(* CHILD_SA is noticed.                                                    *)
(***************************************************************************)
ikeDown ==
  /\ Event /\ sa \in {"init", "up", "down", "lost"}
  /\ sa' = "gone"
  /\ IF listener.ike_updown THEN GiveUp
     ELSE /\ IF sa \in {"up", "lost"} THEN updateStatus("CHILD_DOWN") ELSE NoPost
          /\ UNCHANGED listener
  /\ UNCHANGED <<charon, tunfd, callback, device>>

(***************************************************************************)
(* alert(): the name cannot be resolved, the peer does not authenticate or *)
(* does not answer.  With one keying try an unanswered IKE_SA is given up, *)
(* with a tunnel or without.                                               *)
(***************************************************************************)
alert ==
  /\ Event /\ sa = "init"
  /\ sa' = "gone"
  /\ GiveUp
  /\ UNCHANGED <<charon, tunfd, callback, device>>

(***************************************************************************)
(* child_updown().  The hooks change before the tunnel is set up; the      *)
(* descriptor is stored, and the old one closed, in a step of its own.     *)
(***************************************************************************)
childUp ==
  /\ Event /\ sa \in {"init", "down"}
  /\ sa' = "up"
  /\ \/ /\ establish
        /\ listener' = [on |-> TRUE, ike_updown |-> FALSE, ike_reestablish |-> TRUE]
        /\ callback' = "swap"
        /\ NoPost
     \/ /\ Refused
        /\ GiveUp
        /\ UNCHANGED callback
  /\ UNCHANGED <<charon, tunfd>>

setup_tun_device ==
  /\ callback = "swap"
  /\ tunfd' = TRUE
  /\ updateStatus("CHILD_UP")
  /\ callback' = "idle"
  /\ UNCHANGED <<charon, listener, sa, device>>

childDown ==
  /\ Event /\ sa = "up"
  /\ sa' = "down"
  /\ updateStatus("CHILD_DOWN")
  /\ UNCHANGED <<charon, listener, tunfd, callback, device>>

(***************************************************************************)
(* The IKE_SA is replaced: by a reauthentication, after the peer was lost, *)
(* or by reestablish() when a CHILD_SA could not be rekeyed.  Until the    *)
(* new one is up the tunnel has no DNS servers.                            *)
(***************************************************************************)
ike_reestablish_pre ==
  /\ Event /\ sa \in {"up", "down"} /\ listener.ike_reestablish
  /\ \/ establish /\ NoPost /\ callback' = "swapNoDns"
     \/ /\ Refused
        /\ updateStatus("ERROR")
        /\ callback' = "replace"
  /\ UNCHANGED <<charon, listener, sa, tunfd>>

setup_tun_device_without_dns ==
  /\ callback = "swapNoDns"
  /\ tunfd' = TRUE
  /\ callback' = "replace"
  /\ NoPost
  /\ UNCHANGED <<charon, listener, sa, device>>

(***************************************************************************)
(* Mutant: the hook for failures stays off.                                *)
(***************************************************************************)
ike_reestablish_postSilent ==
  /\ callback = "replace"
  /\ \/ /\ sa' = "init"
        /\ updateStatus("CHILD_DOWN")
        /\ UNCHANGED listener
     \/ sa' = "lost" /\ NoPost /\ UNCHANGED listener
  /\ callback' = "idle"
  /\ UNCHANGED <<charon, tunfd, device>>

ike_reestablish_post ==
  /\ callback = "replace"
  /\ \/ /\ sa' = "init"
        /\ listener' = [listener EXCEPT !.ike_updown = TRUE]
        /\ updateStatus("CHILD_DOWN")
     \/ sa' = "lost" /\ NoPost /\ UNCHANGED listener
  /\ callback' = "idle"
  /\ UNCHANGED <<charon, tunfd, device>>

Callback == setup_tun_device \/ setup_tun_device_without_dns \/ ike_reestablish_post

NativeEvent == initiate \/ ikeDown \/ alert \/ childUp \/ childDown \/ ike_reestablish_pre

=============================================================================
