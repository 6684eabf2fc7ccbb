-------------------------- MODULE GozarVpnService --------------------------
(***************************************************************************)
(* GozarVpnService.kt: the service that owns the tun and the engines.      *)
(*                                                                         *)
(* Android delivers intents and onDestroy to the current instance on the   *)
(* main thread; the real work is done by coroutines of that instance on    *)
(* other threads.  Instances succeed each other in one process and share   *)
(* the engines and engineLock; a new instance is created while coroutines  *)
(* of its predecessors are still running.                                  *)
(*                                                                         *)
(* task[t] is the coroutine in slot t; a slot is reused when it has ended. *)
(* A coroutine that waits for engineLock has pc "queued", and pc           *)
(* "begin" when it does not need the lock.                                 *)
(***************************************************************************)
EXTENDS Gozarcore

CONSTANTS MaxInstance,   \* bound: service instances Android creates
          MaxTask,       \* bound: coroutines at the same time
          MaxFd,         \* bound: descriptors Android hands out
          MaxIntents,    \* bound: intents delivered, shares expired, networks changed
          KillSwitch,    \* the values the setting killSwitch may have
          Modes,         \* the kinds of configuration in use
          Events         \* what may happen to the service

ASSUME BoundsAssumption == /\ MaxInstance \in Nat
                           /\ MaxTask \in Nat
                           /\ MaxFd \in Nat
                           /\ MaxIntents \in Nat
ASSUME KillSwitchAssumption == KillSwitch \subseteq BOOLEAN

(***************************************************************************)
(* A tun for Xray, only a local proxy, or a tun that zeptun forwards to    *)
(* the local proxy.                                                        *)
(***************************************************************************)
ASSUME ModesAssumption == Modes \subseteq {"xray", "proxy", "zeptun"}

(***************************************************************************)
(* Intents and callbacks of Android, and what goes wrong in the engines: a *)
(* tun refused, an engine that does not start, a port found busy, an       *)
(* engine lost in the session, a share that expires, another network in    *)
(* a session that uses sing-box.                                           *)
(***************************************************************************)
ASSUME EventsAssumption ==
  Events \subseteq {"START", "EMPTY", "STOP", "WARM", "SWITCH", "REVOKE",
                    "REFUSED", "FAILED", "BUSY", "LOST", "EXPIRED", "NETWORK"}

Instances == 1 .. MaxInstance
Tasks == 1 .. MaxTask

VARIABLES current,     \* instance that receives intents; 0 when there is none
          svc,         \* the fields of every instance
          task,        \* the coroutines
          engineLock,  \* slot that holds the companion's mutex, or NoTask
          side,        \* instance that runs a proxy engine (Aether, Psiphon, sing-box), or 0
          zeptun,      \* descriptor ZeptunEngine reads; NoFd when it is not running
          nextFd,      \* next descriptor Android hands out
          announced,   \* the last report broadcast
          unseen,      \* has VpnState not followed it yet?
          shown,       \* VpnState.state as far as the service reads it
          command,     \* the last start or stop delivered
          intents,     \* intents delivered so far
          orphaned     \* history: was sing-box restarted for a destroyed instance?

NoTask == 0

proxyVars == <<side, zeptun, nextFd>>
inputVars == <<current, command, intents, orphaned>>
reportVars == <<announced, unseen, shown>>
vars == <<coreVars, proxyVars, svc, task, engineLock, inputVars, reportVars>>

Reports == {"none", "CONNECTED", "DISCONNECTED", "ERROR"}

(***************************************************************************)
(* A ParcelFileDescriptor: null, one that closes its descriptor, or one    *)
(* that has given it away with detachFd.                                   *)
(***************************************************************************)
Pfd == [fd : Nat, own : BOOLEAN]
Null == [fd |-> NoFd, own |-> FALSE]

Closes(pfd) == IF pfd.own THEN {pfd.fd} ELSE {}

Fields == [status : {"none", "live", "doomed", "destroyed"},
           tunFd : Pfd, blockFd : Nat, proxyOnly : BOOLEAN, zeptunOwnsTun : BOOLEAN,
           enginesReady : BOOLEAN, tearingDown : BOOLEAN, endError : BOOLEAN, tracking : BOOLEAN,
           startJob : Nat, polling : BOOLEAN, scopeActive : BOOLEAN]

Created == [status |-> "live", tunFd |-> Null, blockFd |-> NoFd, proxyOnly |-> FALSE, zeptunOwnsTun |-> FALSE,
            enginesReady |-> FALSE, tearingDown |-> FALSE, endError |-> FALSE, tracking |-> FALSE,
            startJob |-> NoTask, polling |-> FALSE, scopeActive |-> TRUE]

StartPc == {"queued", "establish", "engines", "core", "zeptun", "zeptunRun", "detach", "xray", "tor", "publish"}
DiePc == {"queued", "teardown", "end"}
DestroyPc == {"queued", "teardown", "report"}
SwitchPc == {"begin", "stop", "close", "restart"}
ReconnectPc == {"begin", "restart"}

Coroutine == [kind : {"none", "start", "die", "destroy", "switch", "reconnect"}, inst : Nat,
              pc : StartPc \cup DiePc \cup DestroyPc \cup SwitchPc \cup ReconnectPc,
              cancelled : BOOLEAN, error : BOOLEAN, fd : Nat, tries : Nat]

Ended == [kind |-> "none", inst |-> 0, pc |-> "queued", cancelled |-> FALSE,
          error |-> FALSE, fd |-> NoFd, tries |-> 0]

Coroutines(k, i, e) == [Ended EXCEPT !.kind = k, !.inst = i, !.error = e,
                                     !.pc = IF k \in {"switch", "reconnect"} THEN "begin" ELSE "queued"]

TypeOK == /\ CoreTypeOK
          /\ current \in Instances \cup {0}
          /\ svc \in [Instances -> Fields]
          /\ task \in [Tasks -> Coroutine]
          /\ engineLock \in Tasks \cup {NoTask}
          /\ side \in Instances \cup {0}
          /\ zeptun \in Nat
          /\ nextFd \in Nat
          /\ announced \in Reports
          /\ unseen \in BOOLEAN
          /\ shown \in Reports \cup {"CONNECTING"}
          /\ command \in {"none", "START", "STOP"}
          /\ intents \in Nat
          /\ orphaned \in BOOLEAN

Init == /\ CoreInit
        /\ current = 0
        /\ svc = [i \in Instances |-> [Created EXCEPT !.status = "none"]]
        /\ task = [t \in Tasks |-> Ended]
        /\ engineLock = NoTask
        /\ side = 0
        /\ zeptun = NoFd
        /\ nextFd = 1
        /\ announced = "none"
        /\ unseen = FALSE
        /\ shown = "none"
        /\ command = "none"
        /\ intents = 0
        /\ orphaned = FALSE

-----------------------------------------------------------------------------
(***************************************************************************)
(* Coroutines.  S and T stand for values of svc and task in the middle of  *)
(* a step.                                                                 *)
(***************************************************************************)
FreeSlots(T) == {t \in Tasks : T[t].kind = "none"}

Slot(T) == CHOOSE t \in FreeSlots(T) : TRUE

(***************************************************************************)
(* scope.launch: a cancelled scope starts nothing.                         *)
(***************************************************************************)
Launch(S, T, i, c) == IF S[i].scopeActive THEN [T EXCEPT ![Slot(T)] = c] ELSE T

CancelStart(S, T, i) == [t \in Tasks |-> IF t = S[i].startJob
                                         THEN [T[t] EXCEPT !.cancelled = TRUE] ELSE T[t]]

(***************************************************************************)
(* A coroutine ends.  A startJob that has ended is neither active nor can  *)
(* it be cancelled: the field may as well be null.                         *)
(***************************************************************************)
EndTask(t) == [task EXCEPT ![t] = Ended]

AfterJob(t) == LET i == task[t].inst
               IN  IF svc[i].startJob = t THEN [svc EXCEPT ![i].startJob = NoTask] ELSE svc

At(t, k, l) == task[t].kind = k /\ task[t].pc = l

GotoTask(t, l) == task' = [task EXCEPT ![t].pc = l]

Broadcast(r) == /\ announced' = r
                /\ unseen' = TRUE
                /\ UNCHANGED shown

Silent == UNCHANGED reportVars

(***************************************************************************)
(* if (zeptunOwnsTun) { ZeptunEngine.stop() ... }                          *)
(***************************************************************************)
StopZeptun(i) == zeptun' = IF svc[i].zeptunOwnsTun THEN NoFd ELSE zeptun

(***************************************************************************)
(* Mutant: without a tun there is nothing to stop.                         *)
(***************************************************************************)
dieIfTun(S, T, i, error) ==
  IF S[i].tearingDown \/ S[i].tunFd = Null THEN svc' = S /\ task' = T
  ELSE /\ FreeSlots(T) # {}
       /\ svc' = [S EXCEPT ![i].tearingDown = TRUE, ![i].enginesReady = FALSE,
                           ![i].tracking = FALSE]
       /\ task' = Launch(S, CancelStart(S, T, i), i, Coroutines("die", i, error))

(***************************************************************************)
(* die(), called on any thread.  The teardown itself is a coroutine.       *)
(***************************************************************************)
die(S, T, i, error) ==
  IF S[i].tearingDown THEN svc' = S /\ task' = T
  ELSE /\ FreeSlots(T) # {}
       /\ svc' = [S EXCEPT ![i].tearingDown = TRUE, ![i].enginesReady = FALSE,
                           ![i].tracking = FALSE]
       /\ task' = Launch(S, CancelStart(S, T, i), i, Coroutines("die", i, error))

(***************************************************************************)
(* startTunnel(): the start job is launched unless there is a tun.         *)
(***************************************************************************)
startTunnel(S, T, i) ==
  IF S[i].tunFd # Null THEN svc' = S /\ task' = T
  ELSE /\ FreeSlots(T) # {}
       /\ task' = Launch(S, T, i, Coroutines("start", i, FALSE))
       /\ svc' = [S EXCEPT ![i].tearingDown = FALSE,
                           ![i].startJob = IF S[i].scopeActive THEN Slot(T) ELSE NoTask]

-----------------------------------------------------------------------------
(***************************************************************************)
(* What Android does to the service on the main thread.  Intents that were *)
(* under way when an instance called stopSelf still reach it.              *)
(***************************************************************************)
onCreate ==
  /\ current = 0
  /\ intents < MaxIntents
  /\ \E i \in Instances :
       /\ svc[i].status = "none"
       /\ \A j \in Instances : j < i => svc[j].status # "none"
       /\ current' = i
       /\ svc' = [svc EXCEPT ![i] = Created]
  /\ UNCHANGED <<coreVars, proxyVars, task, engineLock, reportVars, command, intents, orphaned>>

Intent(i, e) == /\ e \in Events
                /\ current = i
                /\ intents < MaxIntents
                /\ intents' = intents + 1
                /\ UNCHANGED <<current, orphaned, proxyVars, engineLock>>

Active(i) == svc[i].startJob # NoTask /\ ~task[svc[i].startJob].cancelled

(***************************************************************************)
(* A start: ignored while there is a start job, a session or a tun.  A     *)
(* start without a configuration is what a sticky restart delivers.        *)
(***************************************************************************)
Ignored(i) == Active(i) \/ svc[i].enginesReady \/ svc[i].tunFd # Null

onStart(i) ==
  /\ Intent(i, "START")
  /\ command' = "START"
  /\ IF Ignored(i) THEN UNCHANGED <<svc, task>> ELSE startTunnel(svc, task, i)
  /\ UNCHANGED <<coreVars, reportVars>>

onEmptyStart(i) ==
  /\ Intent(i, "EMPTY")
  /\ command' = "START"
  /\ IF Ignored(i) THEN UNCHANGED <<svc, task>> ELSE die(svc, task, i, TRUE)
  /\ UNCHANGED <<coreVars, reportVars>>

onStop(i) ==
  /\ Intent(i, "STOP")
  /\ command' = "STOP"
  /\ die([svc EXCEPT ![i].blockFd = NoFd], task, i, FALSE)
  /\ openFds' = openFds \ {svc[i].blockFd}
  /\ UNCHANGED <<core, coreFd, reportVars>>

(***************************************************************************)
(* Mutant: the service answers that it is connected whenever it is asked.  *)
(***************************************************************************)
onWarmAlways(i) ==
  /\ Intent(i, "WARM")
  /\ Broadcast("CONNECTED")
  /\ UNCHANGED <<coreVars, svc, task, command>>

onWarm(i) ==
  /\ Intent(i, "WARM")
  /\ IF svc[i].enginesReady /\ ~svc[i].tearingDown THEN Broadcast("CONNECTED") ELSE Silent
  /\ UNCHANGED <<coreVars, svc, task, command>>

(***************************************************************************)
(* "Reconnect" and "next server" of the notification.                      *)
(***************************************************************************)
onReconnect(i) ==
  /\ Intent(i, "SWITCH")
  /\ svc[i].enginesReady /\ ~svc[i].tearingDown /\ shown = "CONNECTED"
  /\ FreeSlots(task) # {}
  /\ task' = Launch(svc, task, i, Coroutines("switch", i, FALSE))
  /\ UNCHANGED <<coreVars, svc, reportVars, command>>

(***************************************************************************)
(* Another VPN app takes over: VpnService.onRevoke calls stopSelf.         *)
(***************************************************************************)
onRevoke(i) ==
  /\ "REVOKE" \in Events
  /\ current = i
  /\ svc[i].status = "live"
  /\ svc[i].tunFd # Null \/ svc[i].blockFd # NoFd
  /\ svc' = [svc EXCEPT ![i].status = "doomed"]
  /\ UNCHANGED <<coreVars, proxyVars, current, task, engineLock, reportVars, command, intents, orphaned>>

(***************************************************************************)
(* Mutant: onDestroy relies on die() having reset the flags.               *)
(***************************************************************************)
onDestroyAfterDie(i) ==
  /\ current = i
  /\ svc[i].status = "doomed"
  /\ FreeSlots(task) # {}
  /\ current' = 0
  /\ svc' = [svc EXCEPT ![i].status = "destroyed", ![i].polling = FALSE, ![i].zeptunOwnsTun = FALSE]
  /\ StopZeptun(i)
  /\ task' = Launch(svc, CancelStart(svc, task, i), i, Coroutines("destroy", i, FALSE))
  /\ UNCHANGED <<coreVars, engineLock, side, nextFd, reportVars, command, intents, orphaned>>

onDestroy(i) ==
  /\ current = i
  /\ svc[i].status = "doomed"
  /\ FreeSlots(task) # {}
  /\ current' = 0
  /\ svc' = [svc EXCEPT ![i].status = "destroyed", ![i].tearingDown = TRUE,
                        ![i].enginesReady = FALSE, ![i].polling = FALSE,
                        ![i].tracking = FALSE, ![i].zeptunOwnsTun = FALSE]
  /\ StopZeptun(i)
  /\ task' = Launch(svc, CancelStart(svc, task, i), i, Coroutines("destroy", i, FALSE))
  /\ UNCHANGED <<coreVars, engineLock, side, nextFd, reportVars, command, intents, orphaned>>

-----------------------------------------------------------------------------
(***************************************************************************)
(* Mutant: onDestroy does not wait for the lock.                           *)
(***************************************************************************)
lockUnlessDestroyed(t) ==
  /\ task[t].kind # "none" /\ task[t].pc = "queued"
  /\ engineLock = NoTask \/ task[t].kind = "destroy"
  /\ ~task[t].cancelled
  /\ engineLock' = t
  /\ GotoTask(t, IF task[t].kind = "start" THEN "establish" ELSE "teardown")
  /\ UNCHANGED <<coreVars, proxyVars, svc, inputVars, reportVars>>

(***************************************************************************)
(* engineLock.withLock.  Waiting for the lock is cancellable.              *)
(***************************************************************************)
lock(t) ==
  /\ task[t].kind # "none" /\ task[t].pc = "queued"
  /\ engineLock = NoTask
  /\ ~task[t].cancelled
  /\ engineLock' = t
  /\ GotoTask(t, IF task[t].kind = "start" THEN "establish" ELSE "teardown")
  /\ UNCHANGED <<coreVars, proxyVars, svc, inputVars, reportVars>>

cancelledInQueue(t) ==
  /\ task[t].kind # "none" /\ task[t].pc = "queued"
  /\ task[t].cancelled
  /\ task' = EndTask(t)
  /\ svc' = AfterJob(t)
  /\ UNCHANGED <<coreVars, proxyVars, engineLock, inputVars, reportVars>>

-----------------------------------------------------------------------------
(***************************************************************************)
(* Mutant: the lock is not released on the way out.                        *)
(***************************************************************************)
LeaveLocked(t) == /\ task' = EndTask(t)
                  /\ svc' = AfterJob(t)
                  /\ UNCHANGED engineLock

(***************************************************************************)
(* The start job.  Leave releases the lock and ends it; a failure calls    *)
(* die on the way out.                                                     *)
(***************************************************************************)
Leave(t) == /\ task' = EndTask(t)
            /\ svc' = AfterJob(t)
            /\ engineLock' = NoTask

Fail(t) == /\ die(AfterJob(t), EndTask(t), task[t].inst, TRUE)
           /\ engineLock' = NoTask

Proceed(t, l) == /\ GotoTask(t, l)
                 /\ UNCHANGED <<svc, engineLock>>

(***************************************************************************)
(* The tun.  Android grants it or refuses; without it Xray cannot go on,   *)
(* and zeptun's configuration goes on as a plain proxy.  task[t].fd is     *)
(* the local pfd.                                                          *)
(***************************************************************************)
Granted(t, mode) ==
  LET i == task[t].inst IN
  /\ mode \in {"xray", "zeptun"} \cap Modes
  /\ nextFd <= MaxFd
  /\ nextFd' = nextFd + 1
  /\ openFds' = (openFds \cup {nextFd}) \ {svc[i].blockFd}
  /\ svc' = [svc EXCEPT ![i].tunFd = [fd |-> nextFd, own |-> TRUE], ![i].blockFd = NoFd,
                        ![i].tracking = TRUE, ![i].proxyOnly = (mode = "zeptun"), ![i].zeptunOwnsTun = (mode = "zeptun")]
  /\ task' = [task EXCEPT ![t].pc = "engines", ![t].fd = nextFd]
  /\ UNCHANGED engineLock

NoTun(t) ==
  LET i == task[t].inst IN
  /\ "proxy" \in Modes \/ ("zeptun" \in Modes /\ "REFUSED" \in Events)
  /\ svc' = [svc EXCEPT ![i].tunFd = Null, ![i].proxyOnly = TRUE, ![i].zeptunOwnsTun = FALSE]
  /\ GotoTask(t, "engines")
  /\ UNCHANGED <<engineLock, nextFd, openFds>>

Refused(t) ==
  /\ "xray" \in Modes /\ "REFUSED" \in Events
  /\ die([AfterJob(t) EXCEPT ![task[t].inst].proxyOnly = FALSE], EndTask(t), task[t].inst, TRUE)
  /\ engineLock' = NoTask
  /\ UNCHANGED <<nextFd, openFds>>

establish(t) ==
  /\ At(t, "start", "establish")
  /\ \/ task[t].cancelled /\ Leave(t) /\ UNCHANGED <<nextFd, openFds>>
     \/ ~task[t].cancelled /\ \E mode \in Modes : Granted(t, mode)
     \/ ~task[t].cancelled /\ NoTun(t)
     \/ ~task[t].cancelled /\ Refused(t)
  /\ UNCHANGED <<core, coreFd, side, zeptun, inputVars, reportVars>>

(***************************************************************************)
(* Aether, Psiphon or sing-box, if the configuration uses one; without a   *)
(* tun of Xray's it does.  The call is interrupted when the job is         *)
(* cancelled, with or without an engine left running.                      *)
(***************************************************************************)
engines(t) ==
  LET i == task[t].inst IN
  /\ At(t, "start", "engines")
  /\ \/ ~svc[i].proxyOnly /\ UNCHANGED side /\ Proceed(t, "core")
     \/ ~task[t].cancelled /\ side' = i /\ Proceed(t, "core")
     \/ ~task[t].cancelled /\ "FAILED" \in Events /\ side' = 0 /\ Fail(t)
     \/ task[t].cancelled /\ side' \in {side, i} /\ Leave(t)
  /\ UNCHANGED <<coreVars, zeptun, nextFd, inputVars, reportVars>>

(***************************************************************************)
(* Whatever ran before is stopped.                                         *)
(***************************************************************************)
core_stop(t) ==
  /\ At(t, "start", "core")
  /\ CoreStop({})
  /\ IF task[t].cancelled THEN Leave(t)
     ELSE Proceed(t, IF task[t].fd = NoFd THEN "tor" ELSE "zeptun")
  /\ UNCHANGED <<proxyVars, inputVars, reportVars>>

(***************************************************************************)
(* zeptun on the tun, whose descriptor stays with the service: the flag is *)
(* read, the engine started a few statements later.                        *)
(***************************************************************************)
zeptunChosen(t) ==
  /\ At(t, "start", "zeptun")
  /\ Proceed(t, IF svc[task[t].inst].zeptunOwnsTun THEN "zeptunRun" ELSE "detach")
  /\ UNCHANGED <<coreVars, proxyVars, inputVars, reportVars>>

zeptunStart(t) ==
  LET own == svc[task[t].inst].tunFd.own IN
  /\ At(t, "start", "zeptunRun")
  /\ \/ /\ zeptun = NoFd /\ own
        /\ zeptun' = task[t].fd
        /\ Proceed(t, "detach")
     \/ /\ zeptun # NoFd \/ ~own \/ "FAILED" \in Events
        /\ Fail(t)
        /\ UNCHANGED zeptun
  /\ UNCHANGED <<coreVars, side, nextFd, inputVars, reportVars>>

(***************************************************************************)
(* Mutant: Xray gets the descriptor and the service keeps it too.          *)
(***************************************************************************)
detachShared(t) ==
  LET i == task[t].inst IN
  /\ At(t, "start", "detach")
  /\ \/ svc[i].zeptunOwnsTun /\ Proceed(t, "tor")
     \/ ~svc[i].zeptunOwnsTun /\ svc[i].tunFd.own /\ Proceed(t, "xray")
     \/ ~svc[i].zeptunOwnsTun /\ ~svc[i].tunFd.own /\ Fail(t)
  /\ UNCHANGED <<coreVars, proxyVars, inputVars, reportVars>>

(***************************************************************************)
(* Xray on the tun, whose descriptor it gets for good.  A ParcelFile-      *)
(* Descriptor that was closed meanwhile throws.                            *)
(***************************************************************************)
detach(t) ==
  LET i == task[t].inst IN
  /\ At(t, "start", "detach")
  /\ \/ svc[i].zeptunOwnsTun /\ Proceed(t, "tor")
     \/ /\ ~svc[i].zeptunOwnsTun /\ svc[i].tunFd.own
        /\ svc' = [svc EXCEPT ![i].tunFd.own = FALSE]
        /\ GotoTask(t, "xray")
        /\ UNCHANGED engineLock
     \/ ~svc[i].zeptunOwnsTun /\ ~svc[i].tunFd.own /\ Fail(t)
  /\ UNCHANGED <<coreVars, proxyVars, inputVars, reportVars>>

(***************************************************************************)
(* A start that finds the port busy is repeated at most twice, after a     *)
(* stop.                                                                   *)
(***************************************************************************)
MaxBindRetries == 2

xrayStart(t) ==
  /\ At(t, "start", "xray")
  /\ \/ CoreStart(task[t].fd, TRUE) /\ Proceed(t, "tor")
     \/ "FAILED" \in Events /\ CoreStart(task[t].fd, FALSE) /\ Fail(t)
  /\ UNCHANGED <<proxyVars, inputVars, reportVars>>

xrayRetry(t) ==
  /\ At(t, "start", "xray")
  /\ "BUSY" \in Events /\ task[t].tries < MaxBindRetries
  /\ CoreRestart(task[t].fd)
  /\ IF task[t].cancelled THEN Leave(t)
     ELSE task' = [task EXCEPT ![t].tries = @ + 1] /\ UNCHANGED <<svc, engineLock>>
  /\ UNCHANGED <<proxyVars, inputVars, reportVars>>

(***************************************************************************)
(* Tor, if the configuration uses it, and the last check for cancellation. *)
(***************************************************************************)
tor(t) ==
  /\ At(t, "start", "tor")
  /\ \/ ~task[t].cancelled /\ Proceed(t, "publish")
     \/ ~task[t].cancelled /\ "FAILED" \in Events /\ Fail(t)
     \/ task[t].cancelled /\ Leave(t)
  /\ UNCHANGED <<coreVars, proxyVars, inputVars, reportVars>>

(***************************************************************************)
(* Mutant: the start is reported as still under way.                       *)
(***************************************************************************)
publishConnecting(t) ==
  LET i == task[t].inst IN
  /\ At(t, "start", "publish")
  /\ task' = EndTask(t)
  /\ svc' = [AfterJob(t) EXCEPT ![i].enginesReady = TRUE, ![i].polling = svc[i].scopeActive]
  /\ engineLock' = NoTask
  /\ Broadcast("CONNECTING")
  /\ UNCHANGED <<coreVars, proxyVars, inputVars>>

publish(t) ==
  LET i == task[t].inst IN
  /\ At(t, "start", "publish")
  /\ task' = EndTask(t)
  /\ svc' = [AfterJob(t) EXCEPT ![i].enginesReady = TRUE, ![i].polling = svc[i].scopeActive]
  /\ engineLock' = NoTask
  /\ Broadcast("CONNECTED")
  /\ UNCHANGED <<coreVars, proxyVars, inputVars>>

-----------------------------------------------------------------------------
(***************************************************************************)
(* The coroutine of die(): engines, then the tun, then either the kill     *)
(* switch or the end of the service.                                       *)
(***************************************************************************)
teardown(t) ==
  LET i == task[t].inst IN
  /\ At(t, "die", "teardown")
  /\ StopZeptun(i)
  /\ CoreStop(Closes(svc[i].tunFd))
  /\ svc' = [svc EXCEPT ![i].tunFd = Null, ![i].polling = FALSE, ![i].zeptunOwnsTun = FALSE]
  /\ side' = 0
  /\ GotoTask(t, "end")
  /\ UNCHANGED <<engineLock, nextFd, inputVars, reportVars>>

(***************************************************************************)
(* The kill switch blocks the device with a tun nobody reads; Android may  *)
(* refuse it.                                                              *)
(***************************************************************************)
enterKillSwitch(t) ==
  LET i == task[t].inst
      Block(granted) ==
        /\ openFds' = (openFds \ ({coreFd} \cup Closes(svc[i].tunFd)))
                         \cup (IF granted THEN {nextFd} ELSE {})
        /\ nextFd' = IF granted THEN nextFd + 1 ELSE nextFd
        /\ svc' = [svc EXCEPT ![i].tunFd = Null, ![i].polling = FALSE,
                              ![i].zeptunOwnsTun = FALSE, ![i].tearingDown = FALSE,
                              ![i].blockFd = IF granted THEN nextFd ELSE NoFd]
  IN  /\ At(t, "die", "end")
      /\ task[t].error /\ TRUE \in KillSwitch /\ ~svc[i].proxyOnly
      /\ StopZeptun(i)
      /\ core' = FALSE /\ coreFd' = NoFd
      /\ \/ nextFd <= MaxFd /\ Block(TRUE)
         \/ "REFUSED" \in Events /\ Block(FALSE)
      /\ task' = EndTask(t)
      /\ engineLock' = NoTask
      /\ Broadcast("ERROR")
      /\ UNCHANGED <<side, inputVars>>

stopSelf(t) ==
  LET i == task[t].inst IN
  /\ At(t, "die", "end")
  /\ ~task[t].error \/ FALSE \in KillSwitch \/ svc[i].proxyOnly
  /\ svc' = [svc EXCEPT ![i].endError = task[t].error,
                        ![i].status = IF @ = "live" THEN "doomed" ELSE @]
  /\ task' = EndTask(t)
  /\ engineLock' = NoTask
  /\ UNCHANGED <<coreVars, proxyVars, inputVars, reportVars>>

(***************************************************************************)
(* The coroutine of onDestroy().  It reports after releasing the lock and  *)
(* then cancels everything the instance still has running.                 *)
(***************************************************************************)
destroyTeardown(t) ==
  LET i == task[t].inst IN
  /\ At(t, "destroy", "teardown")
  /\ CoreStop(Closes(svc[i].tunFd) \cup {svc[i].blockFd})
  /\ svc' = [svc EXCEPT ![i].tunFd = Null, ![i].blockFd = NoFd]
  /\ side' = 0
  /\ GotoTask(t, "report")
  /\ engineLock' = NoTask
  /\ UNCHANGED <<zeptun, nextFd, inputVars, reportVars>>

(***************************************************************************)
(* Mutant: only an end with an error is reported.                          *)
(***************************************************************************)
destroyReportErrors(t) ==
  LET i == task[t].inst IN
  /\ At(t, "destroy", "report")
  /\ IF svc[i].endError THEN Broadcast("ERROR") ELSE Silent
  /\ svc' = [svc EXCEPT ![i].scopeActive = FALSE, ![i].polling = FALSE]
  /\ task' = [u \in Tasks |-> IF u = t THEN Ended
                              ELSE IF task[u].inst = i THEN [task[u] EXCEPT !.cancelled = TRUE]
                              ELSE task[u]]
  /\ UNCHANGED <<coreVars, proxyVars, engineLock, inputVars>>

destroyReport(t) ==
  LET i == task[t].inst IN
  /\ At(t, "destroy", "report")
  /\ Broadcast(IF svc[i].endError THEN "ERROR" ELSE "DISCONNECTED")
  /\ svc' = [svc EXCEPT ![i].scopeActive = FALSE, ![i].polling = FALSE]
  /\ task' = [u \in Tasks |-> IF u = t THEN Ended
                              ELSE IF task[u].inst = i THEN [task[u] EXCEPT !.cancelled = TRUE]
                              ELSE task[u]]
  /\ UNCHANGED <<coreVars, proxyVars, engineLock, inputVars>>

-----------------------------------------------------------------------------
(***************************************************************************)
(* switchTunnel(): it takes no lock until the start job it launches does.  *)
(***************************************************************************)
switchBegin(t) ==
  /\ At(t, "switch", "begin")
  /\ IF svc[task[t].inst].tearingDown \/ task[t].cancelled
     THEN task' = EndTask(t) ELSE GotoTask(t, "stop")
  /\ UNCHANGED <<coreVars, proxyVars, svc, engineLock, inputVars, reportVars>>

switchStop(t) ==
  LET i == task[t].inst IN
  /\ At(t, "switch", "stop")
  /\ StopZeptun(i)
  /\ CoreStop({})
  /\ side' = 0
  /\ svc' = [svc EXCEPT ![i].polling = FALSE, ![i].zeptunOwnsTun = FALSE]
  /\ GotoTask(t, "close")
  /\ UNCHANGED <<engineLock, nextFd, inputVars, reportVars>>

switchClose(t) ==
  LET i == task[t].inst IN
  /\ At(t, "switch", "close")
  /\ openFds' = openFds \ Closes(svc[i].tunFd)
  /\ svc' = [svc EXCEPT ![i].tunFd = Null]
  /\ GotoTask(t, "restart")
  /\ UNCHANGED <<core, coreFd, proxyVars, engineLock, inputVars, reportVars>>

switchRestart(t) ==
  /\ At(t, "switch", "restart")
  /\ startTunnel(svc, EndTask(t), task[t].inst)
  /\ shown' = "CONNECTING"
  /\ UNCHANGED <<coreVars, proxyVars, engineLock, inputVars, announced, unseen>>

-----------------------------------------------------------------------------
(***************************************************************************)
(* The network changes under a tun whose traffic sing-box carries: the     *)
(* listener looks at the flags on a thread of Android's and launches a     *)
(* coroutine that restarts sing-box, without the lock and without looking  *)
(* again.  The process is counted for the instance that restarts it, the   *)
(* last one if there are several.                                          *)
(***************************************************************************)
Reconnecting(i) == \E t \in Tasks : task[t].kind = "reconnect" /\ task[t].inst = i

networkChanged(i) ==
  /\ "NETWORK" \in Events
  /\ svc[i].tracking /\ svc[i].enginesReady /\ ~svc[i].tearingDown
  /\ side = i \/ Reconnecting(i)
  /\ FreeSlots(task) # {}
  /\ intents < MaxIntents
  /\ intents' = intents + 1
  /\ task' = Launch(svc, task, i, Coroutines("reconnect", i, FALSE))
  /\ UNCHANGED <<coreVars, proxyVars, svc, engineLock, current, command, orphaned, reportVars>>

(***************************************************************************)
(* SingBoxRunner.start first stops what runs and only then clears the flag *)
(* by which another stop() would make it give up; a coroutine cancelled    *)
(* before it was dispatched does neither.                                  *)
(***************************************************************************)
reconnectStop(t) ==
  /\ At(t, "reconnect", "begin")
  /\ IF task[t].cancelled THEN task' = EndTask(t) /\ UNCHANGED side
     ELSE GotoTask(t, "restart") /\ side' = 0
  /\ UNCHANGED <<coreVars, zeptun, nextFd, svc, engineLock, inputVars, reportVars>>

(***************************************************************************)
(* The process is up or it is not; a failure ends the session unless that  *)
(* is ending.  A call that was cancelled may have started it all the same, *)
(* and its outcome is lost.                                                *)
(***************************************************************************)
reconnectStart(t) ==
  LET i == task[t].inst IN
  /\ At(t, "reconnect", "restart")
  /\ \/ ~task[t].cancelled /\ side' = i /\ task' = EndTask(t) /\ UNCHANGED svc
     \/ /\ ~task[t].cancelled /\ "FAILED" \in Events
        /\ side' = 0
        /\ die(svc, EndTask(t), i, TRUE)
     \/ task[t].cancelled /\ side' \in {0, i} /\ task' = EndTask(t) /\ UNCHANGED svc
  /\ orphaned' = (orphaned \/ (side' = i /\ svc[i].status = "destroyed"))
  /\ UNCHANGED <<coreVars, zeptun, nextFd, engineLock, current, command, intents, reportVars>>

-----------------------------------------------------------------------------
(***************************************************************************)
(* What else happens to a session from outside: sing-box exits or the GSB2 *)
(* quota of the polling loop runs out; the polling loop also ends a share  *)
(* that expired.                                                           *)
(***************************************************************************)
engineLost(i) ==
  /\ "LOST" \in Events
  /\ side = i \/ svc[i].polling
  /\ ~svc[i].tearingDown
  /\ die(svc, task, i, TRUE)
  /\ UNCHANGED <<coreVars, proxyVars, engineLock, inputVars, reportVars>>

shareExpired(i) ==
  /\ "EXPIRED" \in Events
  /\ svc[i].polling /\ ~svc[i].tearingDown
  /\ FreeSlots(task) # {}
  /\ svc' = [svc EXCEPT ![i].polling = FALSE]
  /\ task' = Launch(svc, task, i, Coroutines("switch", i, FALSE))
  /\ intents < MaxIntents
  /\ intents' = intents + 1
  /\ UNCHANGED <<coreVars, proxyVars, engineLock, current, command, orphaned, reportVars>>

(***************************************************************************)
(* VpnBridge handles the last report.                                      *)
(***************************************************************************)
follow == /\ unseen
          /\ shown' = announced
          /\ unseen' = FALSE
          /\ UNCHANGED <<coreVars, proxyVars, svc, task, engineLock, inputVars, announced>>

Main(i) == \/ onStart(i) \/ onEmptyStart(i) \/ onStop(i) \/ onWarm(i) \/ onReconnect(i)
           \/ onRevoke(i) \/ onDestroy(i)

Run(t) == \/ lock(t) \/ cancelledInQueue(t)
          \/ establish(t) \/ engines(t) \/ core_stop(t) \/ zeptunChosen(t) \/ zeptunStart(t)
          \/ detach(t) \/ xrayStart(t) \/ xrayRetry(t) \/ tor(t) \/ publish(t)
          \/ teardown(t) \/ enterKillSwitch(t) \/ stopSelf(t)
          \/ destroyTeardown(t) \/ destroyReport(t)
          \/ switchBegin(t) \/ switchStop(t) \/ switchClose(t) \/ switchRestart(t)
          \/ reconnectStop(t) \/ reconnectStart(t)

Next == \/ onCreate
        \/ \E i \in Instances : Main(i) \/ networkChanged(i) \/ engineLost(i) \/ shareExpired(i)
        \/ \E t \in Tasks : Run(t)
        \/ follow

Spec == Init /\ [][Next]_vars

(***************************************************************************)
(* Threads keep running and Android destroys a service that has called     *)
(* stopSelf.  An engine's start returns, with an engine or without: every  *)
(* controller gives up after a time of its own.  Nothing is assumed of     *)
(* intents or of engines failing.                                          *)
(***************************************************************************)
Fairness == /\ \A t \in Tasks : WF_vars(Run(t))
            /\ \A i \in Instances : WF_vars(onDestroy(i))

FairSpec == Spec /\ Fairness

-----------------------------------------------------------------------------
(***************************************************************************)
(* No coroutine is under way and none is about to be launched by           *)
(* onDestroy.                                                              *)
(***************************************************************************)
Quiet == /\ \A t \in Tasks : task[t].kind = "none"
         /\ \A i \in Instances : svc[i].status # "doomed"

(***************************************************************************)
(* What an instance tells whoever asks with ACTION_WARM.                   *)
(***************************************************************************)
LooksConnected(i) == svc[i].enginesReady /\ ~svc[i].tearingDown

(***************************************************************************)
(* The comment on engineLock: while a start job is at the engines nobody,  *)
(* of its instance or of an earlier one, starts or stops Xray.  It holds   *)
(* without a switch of servers, which stops the engines and does not take  *)
(* the lock.                                                               *)
(***************************************************************************)
Starting(t) == task[t].kind = "start" /\ task[t].pc \notin {"queued", "establish"}

StartIsAlone ==
  [][\A t \in Tasks : Starting(t) /\ task'[t] \in {task[t], [task[t] EXCEPT !.cancelled = TRUE]}
                      => UNCHANGED <<core, coreFd>>]_vars

(***************************************************************************)
(* Xray is only ever started on, and only ever reads, a tun that is open,  *)
(* although its descriptor is closed in five places (die, enterKillSwitch, *)
(* onDestroy, switchTunnel, Gozarcore) of which switchTunnel does not take *)
(* the lock.  It holds as long as no port is found busy.                   *)
(***************************************************************************)
XrayHasOpenTun == /\ \A t \in Tasks : At(t, "start", "xray") => task[t].fd \in openFds
                  /\ core => coreFd \in openFds

(***************************************************************************)
(* The last word of the user is ACTION_STOP: once everything has come to   *)
(* rest no engine runs and no interface is left, whichever start, failure, *)
(* revocation, reconnect or teardown the stop overtook or was overtaken    *)
(* by.  The one thing that may be left is sing-box, restarted by a         *)
(* reconnect that comes after onDestroy (:723-729), whatever "Report       *)
(* completion only after native teardown" (:773) says.  It holds without a *)
(* kill switch, a switch of servers or zeptun.                             *)
(***************************************************************************)
StopWins == Quiet /\ command = "STOP" =>
  /\ ~core /\ zeptun = NoFd /\ openFds = {}
  /\ side = 0 \/ orphaned

(***************************************************************************)
(* An instance that looks connected has an engine: die() and onDestroy()   *)
(* leave nothing behind that still looks like a session.  It holds without *)
(* a switch of servers and without a kill switch, which resets             *)
(* tearingDown.                                                            *)
(***************************************************************************)
ConnectedIsReal == Quiet => \A i \in Instances : LooksConnected(i) => core \/ side = i

(***************************************************************************)
(* When everything has come to rest, the last broadcast says CONNECTED if  *)
(* and only if an instance looks connected: no report of a session that    *)
(* ended is sent after the end was reported, and no end goes unreported.   *)
(* It holds without a kill switch or a switch of servers, for one          *)
(* instance.                                                               *)
(***************************************************************************)
ReportIsTrue == Quiet => (announced = "CONNECTED" <=> \E i \in Instances : LooksConnected(i))

(***************************************************************************)
(* The half of it that holds for any number of instances, late teardowns   *)
(* included: CONNECTED is never the last broadcast of a session that is    *)
(* over, for onDestroy reports the end after everything else.              *)
(***************************************************************************)
EndsAreTold == Quiet /\ announced = "CONNECTED" => \E i \in Instances : LooksConnected(i)

(***************************************************************************)
(* A service that called stopSelf reports the end of its session and       *)
(* cancels its scope: its last coroutine is neither cancelled nor left     *)
(* waiting for engineLock.                                                 *)
(***************************************************************************)
EndIsReported == \A i \in Instances : svc[i].status = "doomed" ~> ~svc[i].scopeActive

===========================================================================
