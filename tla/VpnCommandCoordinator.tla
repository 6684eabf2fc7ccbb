----------------------- MODULE VpnCommandCoordinator -----------------------
(***************************************************************************)
(* VpnCommandCoordinator.kt: user intents, their watchdogs and the filter  *)
(* for reports of the tunnel service.                                      *)
(*                                                                         *)
(* Commands and watchdogs are coroutines on the Main dispatcher whose      *)
(* bodies never suspend after they start, so at most one of them is under  *)
(* way: mainPc says which statement of it comes next.  The service reports *)
(* are handled on other threads (VpnBridge), between any two of these      *)
(* statements.                                                             *)
(*                                                                         *)
(* A watchdog is a coroutine of its own.  jobs holds the ones still        *)
(* waiting, as <<kind, generation>>; watchdog[k] is the field that refers  *)
(* to the last one armed.  Cancelling goes through the field, so a job     *)
(* whose field was overwritten can no longer be cancelled.                 *)
(***************************************************************************)
EXTENDS Naturals, VpnState

CONSTANT MaxGeneration   \* bound: how many commands the user gives

ASSUME MaxGenerationAssumption == MaxGeneration \in Nat

VARIABLES generation,    \* number of the latest command
          lastCommand,   \* kind of the command still in flight, or NoCommand
          fresh,         \* lastCommandAt is at most STALE_MS ago
          watchdog,      \* connectWatchdog and disconnectWatchdog; 0 is null
          jobs,          \* watchdog coroutines that are waiting
          mainPc,        \* next statement of the body running on Main
          mainId         \* its configId argument

coordinatorVars == <<generation, lastCommand, fresh, watchdog, jobs, mainPc, mainId>>

Kind == {"CONNECT", "DISCONNECT"}
NoCommand == "none"

MainPc == {"idle", "launch", "armConnect", "flip", "stop", "timeout", "giveUp"}

CoordinatorTypeOK == /\ generation \in Nat
                     /\ lastCommand \in Kind \cup {NoCommand}
                     /\ fresh \in BOOLEAN
                     /\ watchdog \in [Kind -> Nat]
                     /\ jobs \in SUBSET (Kind \X Nat)
                     /\ mainPc \in MainPc
                     /\ mainId \in Ids \cup {NoId}

CoordinatorInit == /\ generation = 0
                   /\ lastCommand = NoCommand
                   /\ fresh = FALSE
                   /\ watchdog = [k \in Kind |-> 0]
                   /\ jobs = {}
                   /\ mainPc = "idle"
                   /\ mainId = NoId

(***************************************************************************)
(* watchdog?.cancel(): the job the field refers to stops waiting.          *)
(***************************************************************************)
WithoutJob(k) == jobs \ {<<k, watchdog[k]>>}

(***************************************************************************)
(* The part both commands start with: a new generation, the intent and its *)
(* time, and the opposite command's watchdog cancelled and forgotten.      *)
(***************************************************************************)
NewIntent(kind, opposite) ==
  /\ mainPc = "idle"
  /\ generation < MaxGeneration
  /\ generation' = generation + 1
  /\ lastCommand' = kind
  /\ fresh' = TRUE
  /\ jobs' = WithoutJob(opposite)
  /\ watchdog' = [watchdog EXCEPT ![opposite] = 0]

(***************************************************************************)
(* Mutant: the field is assigned first, so the job it cancels is the new   *)
(* one.                                                                    *)
(***************************************************************************)
ArmThenCancel(kind) ==
  /\ jobs' = jobs \ {<<kind, generation>>}
  /\ watchdog' = [watchdog EXCEPT ![kind] = generation]

ArmWatchdog(kind) ==
  /\ jobs' = WithoutJob(kind) \cup {<<kind, generation>>}
  /\ watchdog' = [watchdog EXCEPT ![kind] = generation]

onConnectRequested(id) ==
  /\ NewIntent("CONNECT", "DISCONNECT")
  /\ mainPc' = "launch"
  /\ mainId' = id
  /\ UNCHANGED stateVars

(***************************************************************************)
(* setConnecting followed by the caller's launch().  What launch() does to *)
(* the service is conjoined by the module that composes the two.           *)
(***************************************************************************)
connectLaunch ==
  /\ mainPc = "launch"
  /\ setConnecting(mainId)
  /\ mainPc' = "armConnect"
  /\ UNCHANGED <<generation, lastCommand, fresh, watchdog, jobs, mainId>>

armConnectWatchdog ==
  /\ mainPc = "armConnect"
  /\ ArmWatchdog("CONNECT")
  /\ mainPc' = "idle"
  /\ mainId' = NoId
  /\ UNCHANGED <<generation, lastCommand, fresh, stateVars>>

(***************************************************************************)
(* The state is read here and written one statement later.                 *)
(***************************************************************************)
onDisconnectRequested ==
  /\ NewIntent("DISCONNECT", "CONNECT")
  /\ mainPc' = IF state \in {"CONNECTED", "CONNECTING"} THEN "flip" ELSE "stop"
  /\ UNCHANGED <<mainId, stateVars>>

disconnectFlip ==
  /\ mainPc = "flip"
  /\ setDisconnecting
  /\ mainPc' = "stop"
  /\ UNCHANGED <<generation, lastCommand, fresh, watchdog, jobs, mainId>>

(***************************************************************************)
(* The caller's stop(), which may throw without consequence, and the       *)
(* watchdog.  Again the effect on the service is conjoined elsewhere.      *)
(***************************************************************************)
armDisconnectWatchdog ==
  /\ mainPc = "stop"
  /\ ArmWatchdog("DISCONNECT")
  /\ mainPc' = "idle"
  /\ UNCHANGED <<generation, lastCommand, fresh, mainId, stateVars>>

(***************************************************************************)
(* Mutant: the generation is not compared.                                 *)
(***************************************************************************)
watchdogFiredBlindly(k, g) ==
  /\ mainPc = "idle"
  /\ <<k, g>> \in jobs
  /\ g = generation => ~fresh
  /\ jobs' = jobs \ {<<k, g>>}
  /\ mainPc' = IF k = "DISCONNECT" THEN "giveUp"
               ELSE IF state = "CONNECTING" THEN "timeout" ELSE "idle"
  /\ UNCHANGED <<generation, lastCommand, fresh, watchdog, mainId, stateVars>>

(***************************************************************************)
(* The delay of a watchdog is over.  Both timeouts are longer than         *)
(* STALE_MS, so the latest command is not fresh any more when its own      *)
(* watchdog fires; an older one may fire at any time.  A superseded job    *)
(* ends without effect; the others act one statement later on what they    *)
(* have just read.                                                         *)
(***************************************************************************)
watchdogFired(k, g) ==
  /\ mainPc = "idle"
  /\ <<k, g>> \in jobs
  /\ g = generation => ~fresh
  /\ jobs' = jobs \ {<<k, g>>}
  /\ LET late == g = generation
         timeout == late /\ k = "CONNECT" /\ state = "CONNECTING"
     IN  /\ mainPc' = IF timeout THEN "timeout"
                      ELSE IF late /\ k = "DISCONNECT" THEN "giveUp" ELSE "idle"
         /\ lastCommand' = IF late /\ k = "CONNECT" /\ ~timeout
                           THEN NoCommand ELSE lastCommand
  /\ UNCHANGED <<generation, fresh, watchdog, mainId, stateVars>>

(***************************************************************************)
(* Mutant: the timeout forgets the command and leaves the state alone.     *)
(***************************************************************************)
connectTimeoutSilent ==
  /\ mainPc = "timeout"
  /\ lastCommand' = NoCommand
  /\ mainPc' = "idle"
  /\ UNCHANGED <<generation, fresh, watchdog, jobs, mainId, stateVars>>

connectTimeout ==
  /\ mainPc = "timeout"
  /\ setError
  /\ lastCommand' = NoCommand
  /\ mainPc' = "idle"
  /\ UNCHANGED <<generation, fresh, watchdog, jobs, mainId>>

disconnectGiveUp ==
  /\ mainPc = "giveUp"
  /\ setDisconnected
  /\ lastCommand' = NoCommand
  /\ mainPc' = "idle"
  /\ UNCHANGED <<generation, fresh, watchdog, jobs, mainId>>

(***************************************************************************)
(* More than STALE_MS pass since the latest command.                       *)
(***************************************************************************)
GrowStale ==
  /\ fresh
  /\ fresh' = FALSE
  /\ UNCHANGED <<generation, lastCommand, watchdog, jobs, mainPc, mainId, stateVars>>

(***************************************************************************)
(* Mutant: only a disconnect is protected from older reports.              *)
(***************************************************************************)
acceptOnConnect(report) ==
  \/ lastCommand \in {NoCommand, "CONNECT"}
  \/ ~fresh
  \/ report # "CONNECTED"

(***************************************************************************)
(* The filter VpnBridge asks before it acts on a report.                   *)
(***************************************************************************)
acceptBroadcast(report) ==
  \/ lastCommand = NoCommand
  \/ ~fresh
  \/ lastCommand = "DISCONNECT" /\ report # "CONNECTED"
  \/ lastCommand = "CONNECT" /\ report # "DISCONNECTED"

=============================================================================
