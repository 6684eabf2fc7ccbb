--------------------------- MODULE TunnelService ---------------------------
(***************************************************************************)
(* What the app relies on from the tunnel service, whatever it does inside *)
(* (GozarVpnService.kt): there is at most one tunnel, which starts and     *)
(* comes up; service instances whose session is over tear it down and      *)
(* report the end, possibly while the next tunnel is already starting.  A  *)
(* session that is up moves to another server, or closes an expired share, *)
(* by itself: a coroutine stops the engines, writes VpnState and starts    *)
(* them again.                                                             *)
(*                                                                         *)
(* broadcasts is the bag of reports sent but not yet taken by a handler:   *)
(* delivery order is not kept.                                             *)
(***************************************************************************)
EXTENDS Naturals, VpnState

CONSTANTS MaxBroadcasts,   \* bound: equal reports under way at the same time
          MaxSwitches      \* bound: switches of servers

ASSUME MaxBroadcastsAssumption == MaxBroadcasts \in Nat \ {0}
ASSUME MaxSwitchesAssumption == MaxSwitches \in Nat

VARIABLES tunnel,      \* phase of the current session
          ending,      \* how many ended sessions have not reported yet
          switches,    \* servers with a switchTunnel coroutine under way
          launched,    \* switches launched so far
          broadcasts   \* reports under way, by kind

serviceVars == <<tunnel, ending, switches, launched, broadcasts>>

(***************************************************************************)
(* While a session restarts on another server enginesReady stays set: it   *)
(* takes and answers intents as one that is up.                            *)
(***************************************************************************)
TunnelPhase == {"down", "starting", "up", "restarting"}
EnginesReady == tunnel \in {"up", "restarting"}
ServiceReport == {"CONNECTED", "DISCONNECTED", "ERROR"}

ServiceTypeOK == /\ tunnel \in TunnelPhase
                 /\ ending \in Nat
                 /\ switches \in SUBSET Ids
                 /\ launched \in Nat
                 /\ broadcasts \in [ServiceReport -> Nat]

ServiceInit == /\ tunnel = "down"
               /\ ending = 0
               /\ switches = {}
               /\ launched = 0
               /\ broadcasts = [r \in ServiceReport |-> 0]

Send(r) == /\ broadcasts[r] < MaxBroadcasts
           /\ broadcasts' = [broadcasts EXCEPT ![r] = @ + 1]

Take(r) == /\ broadcasts[r] > 0
           /\ broadcasts' = [broadcasts EXCEPT ![r] = @ - 1]
           /\ UNCHANGED <<tunnel, ending, switches, launched>>

(***************************************************************************)
(* A start command.  It is ignored while a tunnel is starting or up; one   *)
(* that arrives during a teardown may be ignored as well.                  *)
(***************************************************************************)
StartCommand ==
  /\ \/ tunnel = "down" /\ tunnel' = "starting"
     \/ (tunnel # "down" \/ ending > 0) /\ UNCHANGED tunnel
  /\ UNCHANGED <<ending, switches, launched, broadcasts>>

(***************************************************************************)
(* A session ends.  A switch that has looked at tearingDown before goes on *)
(* all the same, the others do not.                                        *)
(***************************************************************************)
EndSession == /\ tunnel' = "down"
              /\ ending' = ending + 1
              /\ switches' \in SUBSET switches
              /\ UNCHANGED <<launched, broadcasts>>

(***************************************************************************)
(* A stop command ends the session there is.  With nothing running it      *)
(* creates an instance that only reports its end; an instance already      *)
(* tearing down ignores it.                                                *)
(***************************************************************************)
StopCommand ==
  \/ (tunnel # "down" \/ ending = 0) /\ EndSession
  \/ tunnel = "down" /\ ending > 0 /\ UNCHANGED serviceVars

Up == /\ tunnel \in {"starting", "restarting"}
      /\ tunnel' = "up"
      /\ Send("CONNECTED")
      /\ UNCHANGED <<ending, switches, launched>>

(***************************************************************************)
(* A warm command makes a running service repeat its report.               *)
(***************************************************************************)
Warm == /\ EnginesReady
        /\ Send("CONNECTED")
        /\ UNCHANGED <<tunnel, ending, switches, launched>>

(***************************************************************************)
(* An engine does not start, or dies during the session.                   *)
(***************************************************************************)
Break == /\ tunnel # "down"
         /\ EndSession

(***************************************************************************)
(* Mutant: an end is reported whether or not a session ended.              *)
(***************************************************************************)
EndedTwice == /\ ending' = ending - 1
              /\ Send("DISCONNECTED") \/ Send("ERROR")
              /\ UNCHANGED <<tunnel, switches, launched>>

Ended == /\ ending > 0
         /\ ending' = ending - 1
         /\ Send("DISCONNECTED") \/ Send("ERROR")
         /\ UNCHANGED <<tunnel, switches, launched>>

LaunchSwitch(id) == /\ launched < MaxSwitches
                    /\ launched' = launched + 1
                    /\ switches' = switches \cup {id}
                    /\ UNCHANGED <<tunnel, ending, broadcasts>>

(***************************************************************************)
(* "Reconnect" and "next server" of the notification: a switch to the      *)
(* active server or to another one is launched.                            *)
(***************************************************************************)
serverChosen(id) == /\ EnginesReady
                    /\ state = "CONNECTED"
                    /\ LaunchSwitch(id)

(***************************************************************************)
(* The polling loop finds that the share has expired.                      *)
(***************************************************************************)
shareExpired == /\ tunnel = "up"
                /\ activeId # NoId
                /\ LaunchSwitch(activeId)

(***************************************************************************)
(* switchTunnel(): the engines are stopped, VpnState is set and the start  *)
(* job launched, whatever was commanded meanwhile.  What it starts in a    *)
(* session that has ended comes to nothing, goes down again with its       *)
(* instance or, behind a kill switch, stays.                               *)
(***************************************************************************)
switchTunnel(id) == /\ id \in switches
                    /\ switches' = switches \ {id}
                    /\ setConnecting(id)
                    /\ \/ tunnel = "up" /\ tunnel' = "restarting"
                       \/ tunnel \in {"starting", "restarting"} /\ UNCHANGED tunnel
                       \/ tunnel = "down" /\ tunnel' \in {"down", "starting"}
                    /\ UNCHANGED <<ending, launched, broadcasts>>

ServiceStep == (Up \/ Warm \/ Break \/ Ended \/ shareExpired) /\ UNCHANGED stateVars

=============================================================================
