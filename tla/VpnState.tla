------------------------------ MODULE VpnState ------------------------------
(***************************************************************************)
(* The connection state every other part of the app reads and writes:      *)
(* object VpnState of VpnState.kt.  Of its flows the model keeps the two   *)
(* that decisions are taken on, state and activeId.  The error text, the   *)
(* picking flag, the display name and the connection time are shown to the *)
(* user and read by no decision modelled here.                             *)
(*                                                                         *)
(* Each setter is one step.  The setters write activeId before state, and  *)
(* state is what every guard in the code looks at.                         *)
(***************************************************************************)

CONSTANTS Ids,   \* the ids of the configurations a user can connect to
          NoId   \* null

ASSUME NoIdAssumption == NoId \notin Ids

VARIABLES state,     \* VpnState.state
          activeId   \* VpnState.activeId

stateVars == <<state, activeId>>

Connection == {"DISCONNECTED", "CONNECTING", "CONNECTED", "DISCONNECTING", "ERROR"}

(***************************************************************************)
(* The two states the user is made to wait in.                             *)
(***************************************************************************)
Pending == {"CONNECTING", "DISCONNECTING"}

StateTypeOK == /\ state \in Connection
               /\ activeId \in Ids \cup {NoId}

StateInit == /\ state = "DISCONNECTED"
             /\ activeId = NoId

setDisconnecting == /\ state' = "DISCONNECTING"
                    /\ UNCHANGED activeId

setConnecting(id) == /\ activeId' = id
                     /\ state' = "CONNECTING"

setConnected == /\ state' = "CONNECTED"
                /\ UNCHANGED activeId

setError == /\ state' = "ERROR"
            /\ UNCHANGED activeId

setDisconnected == /\ activeId' = NoId
                   /\ state' = "DISCONNECTED"

=============================================================================
