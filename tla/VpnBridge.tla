----------------------------- MODULE VpnBridge -----------------------------
(***************************************************************************)
(* Vpnbridge.kt: how a report of the tunnel service reaches VpnState.      *)
(*                                                                         *)
(* The receiver hands every broadcast to a coroutine on the Default        *)
(* dispatcher.  These coroutines run on several threads: they overtake     *)
(* each other, and they interleave with the commands on Main statement by  *)
(* statement.  Handlers is the set of threads; pc[h] is the next statement *)
(* of the handle() call on thread h and report[h] what it reports.         *)
(*                                                                         *)
(* The traffic counters and the sessions that IkeController owns are not   *)
(* part of this module: IkeController.active is false throughout.          *)
(***************************************************************************)
EXTENDS VpnCommandCoordinator

CONSTANT Handlers   \* threads that run handle()

VARIABLES pc, report

bridgeVars == <<pc, report>>

Report == {"CONNECTED", "DISCONNECTED", "ERROR"}
NoReport == "none"

BridgePc == {"idle", "apply", "cancelConnect", "dropConnect", "cancelDisconnect",
             "dropDisconnect", "forget", "recheck", "settle"}

(***************************************************************************)
(* The statements after the one that writes VpnState.                      *)
(***************************************************************************)
AfterApply == BridgePc \ {"idle", "apply"}

BridgeTypeOK == /\ pc \in [Handlers -> BridgePc]
                /\ report \in [Handlers -> Report \cup {NoReport}]

BridgeInit == /\ pc = [h \in Handlers |-> "idle"]
              /\ report = [h \in Handlers |-> NoReport]

Handling == \E h \in Handlers : pc[h] # "idle"

Goto(h, from, to) == /\ pc[h] = from
                     /\ pc' = [pc EXCEPT ![h] = to]

Finish(h, from) == /\ Goto(h, from, "idle")
                   /\ report' = [report EXCEPT ![h] = NoReport]

(***************************************************************************)
(* handle() begins: a report the coordinator's filter refuses is dropped,  *)
(* the others are acted upon in later steps.                               *)
(***************************************************************************)
handleRefused(h, r) ==
  /\ pc[h] = "idle"
  /\ ~acceptBroadcast(r)
  /\ UNCHANGED <<bridgeVars, coordinatorVars, stateVars>>

handleAccepted(h, r) ==
  /\ acceptBroadcast(r)
  /\ Goto(h, "idle", "apply")
  /\ report' = [report EXCEPT ![h] = r]
  /\ UNCHANGED <<coordinatorVars, stateVars>>

apply(h) ==
  /\ Goto(h, "apply", "cancelConnect")
  /\ \/ report[h] = "CONNECTED" /\ setConnected
     \/ report[h] = "ERROR" /\ setError
     \/ report[h] = "DISCONNECTED" /\ setDisconnected
  /\ UNCHANGED <<report, coordinatorVars>>

(***************************************************************************)
(* The bodies of onTunnelConfirmed, onTunnelFailed and onTunnelTeardown,   *)
(* run on the handler's thread.  All cancel the connect watchdog; the last *)
(* two the disconnect watchdog as well.  Cancelling a job and clearing the *)
(* field that refers to it are two statements.                             *)
(***************************************************************************)
CancelJob(h, kind, from, to) ==
  /\ Goto(h, from, to)
  /\ jobs' = WithoutJob(kind)
  /\ UNCHANGED <<report, generation, lastCommand, fresh, watchdog, mainPc, mainId, stateVars>>

DropField(h, kind, from, to) ==
  /\ Goto(h, from, to)
  /\ watchdog' = [watchdog EXCEPT ![kind] = 0]
  /\ UNCHANGED <<report, generation, lastCommand, fresh, jobs, mainPc, mainId, stateVars>>

cancelConnect(h) == CancelJob(h, "CONNECT", "cancelConnect", "dropConnect")

dropConnect(h) ==
  DropField(h, "CONNECT", "dropConnect",
            IF report[h] = "CONNECTED" THEN "forget" ELSE "cancelDisconnect")

cancelDisconnect(h) == CancelJob(h, "DISCONNECT", "cancelDisconnect", "dropDisconnect")

dropDisconnect(h) == DropField(h, "DISCONNECT", "dropDisconnect", "forget")

forget(h) ==
  /\ IF report[h] = "DISCONNECTED" THEN Goto(h, "forget", "recheck") /\ UNCHANGED report
                                   ELSE Finish(h, "forget")
  /\ lastCommand' = NoCommand
  /\ UNCHANGED <<generation, fresh, watchdog, jobs, mainPc, mainId, stateVars>>

(***************************************************************************)
(* onTunnelTeardown ends by reading the state once more and settling a     *)
(* disconnect that is still pending.                                       *)
(***************************************************************************)
recheck(h) ==
  /\ IF state = "DISCONNECTING" THEN Goto(h, "recheck", "settle") /\ UNCHANGED report
                                ELSE Finish(h, "recheck")
  /\ UNCHANGED <<coordinatorVars, stateVars>>

settle(h) ==
  /\ Finish(h, "settle")
  /\ setDisconnected
  /\ UNCHANGED coordinatorVars

=============================================================================
