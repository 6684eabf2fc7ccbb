------------------------------ MODULE TunGuard ------------------------------
(***************************************************************************)
(* What the IKEv2 engine promises about the interface that Android routes  *)
(* the traffic of the device to.  From the moment a new connection is      *)
(* taken up until the engine has stopped the old one, the engine gives up  *)
(* an interface that blocks traffic for nothing but a tunnel: plain        *)
(* traffic does not leak between two connections.                          *)
(*                                                                         *)
(* The promise has three limits, all of them in the code.  Android may     *)
(* refuse the blocking interface; another VPN may take the interface away, *)
(* in the middle of a switch too, and the engine hears of it only when it  *)
(* is not switching; and a tunnel the old connection set up late, over the *)
(* blocking interface, is closed with that connection.                     *)
(***************************************************************************)
VARIABLES device, phase,
          revoked    \* was the interface taken away, unheard by the engine?

vars == <<device, phase, revoked>>

Init == /\ device = "none"
        /\ phase = "idle"
        /\ revoked = FALSE

-----------------------------------------------------------------------------
(***************************************************************************)
(* What the engine does.                                                   *)
(***************************************************************************)
Switch == /\ phase \in {"idle", "running"}
          /\ phase' = "switching"
          /\ device' \in {"blocking", device}

Started == /\ phase = "switching"
           /\ phase' = "running"
           /\ UNCHANGED device

Tunnel == /\ phase \in {"switching", "running"}
          /\ device' = "tunnel"
          /\ UNCHANGED phase

Drop == /\ phase = "switching"
        /\ device = "tunnel"
        /\ device' = "none"
        /\ UNCHANGED phase

Release == /\ phase = "running"
           /\ phase' = "idle"
           /\ device' = "none"

(***************************************************************************)
(* The engine did not initialise: what blocks traffic stays.               *)
(***************************************************************************)
Abandon == /\ phase = "running"
           /\ phase' = "idle"
           /\ UNCHANGED device

Engine == Switch \/ Started \/ Tunnel \/ Drop \/ Release \/ Abandon

-----------------------------------------------------------------------------
(***************************************************************************)
(* What Android does, whatever the engine is at, and when the engine hears *)
(* of it.                                                                  *)
(***************************************************************************)
Revoke == /\ ~revoked
          /\ revoked' = TRUE
          /\ device' = "none"
          /\ UNCHANGED phase

Heard == /\ revoked /\ phase \in {"idle", "running"}
         /\ revoked' = FALSE
         /\ UNCHANGED <<device, phase>>

Next == \/ Engine /\ UNCHANGED revoked
        \/ Revoke
        \/ Heard

Spec == Init /\ [][Next]_vars

=============================================================================
