# Ghajar VPN: a TLA+ model of the tunnel's control

Ghajar VPN is an Android VPN client.  This directory models the part of it that
decides whether there is a tunnel, who owns it and what the user is told: the
command coordinator, the report bridge, the VPN service with its engines, the Go
library that embeds Xray, and the IKEv2 engine from the app down to the native
listener of charon.  It also models the download queue of the browser.  File
names without a path are under `src/app/src/main/java/net/gozar/app/`, those of
the downloads under `src/browser/src/main/java/com/ghajarvpn/browser/download/`
and those of the IKEv2 engine under `src/strongswan/src/frontends/android/app/`.

## Inventory

| Component | State | Operations | What is hard about it | What makes it correct |
|---|---|---|---|---|
| `VpnState` (VpnState.kt) | `state`, `activeId` | five setters | written from Main, from a thread pool and from the service without a lock | only via the two components below |
| `VpnCommandCoordinator` | latest command, its number and time, two watchdogs | connect, disconnect, two timeouts, report filter | commands on Main race with reports on other threads; jobs cancelled through fields that others overwrite | the latest intent wins; no wait is forever |
| `VpnBridge` (Vpnbridge.kt) | none | one handler per broadcast, on the Default dispatcher | check then act; reports overtake each other | a stale report changes nothing |
| `GozarVpnService` | tun, blocking tun, flags, start job, polling job; shared by all instances: `engineLock` | intents, start job, `die`, kill switch, `onDestroy`, `switchTunnel`, polling | instances overlap; flags written without the lock; cancellation; several owners of one descriptor | a stop wins; reports are true; one owner per descriptor |
| `Gozarcore` (src/gozarcore.go) | the Xray instance, the tun descriptor | `Start`, `Stop` | it closes a descriptor the caller handed over | Xray reads an open tun |
| `ZeptunEngine` | running flag | `start`, `stop` | reads a descriptor it does not own | never on the same tun as Xray |
| Connect flow (MainActivity, QuickConnect, VpnLauncher, NetworkAutoConnect) | pending launches | connect, disconnect, relaunch | some paths go around the coordinator; launches are deferred behind permissions and downloads | a deferred launch respects newer commands |
| `IkeController` | `active`, watchdog, claim timer | claim, connect, disconnect, callbacks | a second owner of `VpnState`; bound to a service that reports late | one owner at a time; a wait ends |
| `VpnStateService`, `CharonVpnService` (Java) | state, error, retry countdown; current and next profile, handler thread, blocking interface | start commands, posts, retries, revocation | three kinds of threads post to one looper; countdowns connect by themselves | the state told is true; no tunnel outlives its connection; no leak between connections |
| `android_service.c`, `charonservice.c` | daemon, listener and its hooks, tun descriptor | initiate, up, down, reestablish, alert | hooks switched on and off by the listener itself; the descriptor replaced while in use | failures are heard |
| `GhajarOpenVpnBridge` | owner flag | callbacks | a third owner of `VpnState` | one owner at a time |
| Proxy engines (Aether, Psiphon, Tor, sing-box) | processes, ports | start, stop, watch | subprocess exit callbacks | a stopped engine stays stopped |
| Downloads (GhajarDownloadService, DownloadEngine, DownloadPlanner, DownloadStorage) | the list on disk, part and finished files, jobs, `activeCount` | enqueue, pause, resume, retry, cancel, jobs with a thread per segment | jobs and the main thread share the list and the count without a lock; the process dies | completed files are there and whole; no download is forgotten |
| Browser route (src/browser) | Xray in proxy mode | start/stop route | uses `Gozarcore` without `engineLock` | does not disturb the VPN |
| `UsageStore`, GSB2 shares, checkout, updates, parsing, UI, backend | see PROJECT.json | | | |

The flow of control: a screen calls the coordinator; the coordinator, on Main,
changes `VpnState`, starts or stops the service and arms a watchdog; the service
does its work in coroutines and broadcasts CONNECTED, DISCONNECTED or ERROR; the
bridge handles every broadcast in a coroutine on another thread, asks the
coordinator's filter and changes `VpnState`.

PROJECT.json lists every component with its status, the hazards at their lines,
and the lines each definition models.

## Modules

| Module | Models |
|---|---|
| `VpnState` | `state`, `activeId` and their setters |
| `VpnCommandCoordinator` | commands and watchdogs, statement by statement on Main; the filter |
| `VpnBridge` | the handlers of reports, one per thread, statement by statement |
| `TunnelService` | what the app relies on from the service, abstractly: a tunnel that starts, comes up, breaks, is torn down, moves to another server by itself, and the reports under way (a bag: order is not kept) |
| `VpnSession` | the four composed, with the properties of session control |
| `Gozarcore` | the Go library: is Xray running, which descriptor it owns, which are open |
| `GozarVpnService` | the service: instances, coroutines, lock, descriptors, engines, kill switch, switching, revocation, reconnects after a change of network |
| `VpnStateService` | the looper's queue of closures, state, error, retry countdown, start commands under way |
| `CharonVpnService` | commands, the handler thread, the interface in use |
| `AndroidService` | the native half: daemon, listener, hooks, descriptor; charon and the peer as they please |
| `IkeController` | the app's side of an IKEv2 session |
| `IkeSession` | the four composed with `VpnState`, the commands and what the Xray side can still do; properties |
| `TunGuard` | abstract specification: what the engine promises about the interface Android routes to |
| `DownloadPlanner` | states of a download, the division into segments |
| `GhajarDownloadService` | the queue: intents, jobs, segments, list and files, deaths of the process |
| `MCVpnSession`, `MCGozarVpnService`, `MCIkeSession`, `MCGhajarDownloadService` | instances for TLC |
| `VpnSessionProofs` | theorems about the session |
| `GozarVpnServiceProofs`, `ServiceRestProofs` | theorems about the service: lock and descriptors; what is left, shown and reported at rest |
| `IkeSessionProofs`, `IkeIntentProofs` | theorems about IKEv2: what is left and the refinement; what is told and what the user wants |
| `GhajarDownloadServiceProofs`, `DownloadBooksProofs`, `DownloadBytesProofs` | theorems about the downloads: types, plans and files; list, map and count; bytes |

### Session control

`mainPc` is the next statement of the coroutine running on Main.  The bodies do
not suspend once they have the coordinator's mutex, so at most one of them is
under way.  `jobs` are the watchdogs still waiting, `watchdog[k]` the field that
refers to the last one armed; cancelling goes through the field.  `fresh` says
that the latest command is at most `STALE_MS` old; both timeouts are longer, so a
watchdog of the latest command fires only when `fresh` is false.  Nothing else
about time is assumed.

`pc[h]` and `report[h]` are a handler's next statement and its report.  The
handler's accesses to `VpnState`, to the watchdog jobs, to the watchdog fields
and to `lastCommand` are separate steps, and each may be interleaved with Main.

`raced` is a history variable: it becomes TRUE when a statement on Main runs
while a handler is under way or the reverse, and stays so.  The code has no lock
between the two.  What it guarantees without such an overlap is stated with
`~raced`; what its comments promise without that restriction is stated separately
and refuted (below).  `NoEarlyTimeout` needs no restriction.

A session that is up moves to another server without the coordinator: "reconnect"
and "next server" of the notification (GozarVpnService.kt:130-144) and a share that
expires (:560-575) launch `switchTunnel()`, which writes CONNECTING itself (:485) and
launches a start job.  `switches` are the coroutines launched, `switchTunnel` in
`TunnelService` is that write, made at any later time and without looking at anything
again, as in the code.  `switched` is the second history variable: TRUE from such a
write until a statement on Main or a handler sets `VpnState` again.  The wait
it begins has no watchdog, against the coordinator's comment (see the other
disagreements below), so `PendingIsWatched`, `IntentHolds` and `WaitEnds` speak of the
states that commands, reports and watchdogs have set.

`IkeController.active` is false throughout: sessions owned by strongSwan are in
`IkeSession`.  The caller's `launch()` sends the start at once; deferred
launches belong to the connect flow.

### The service

`svc[i]` are the fields of instance i, `task[t]` the coroutine in slot t, with its
kind (start, die, destroy, switch), its next statement and whether it has been
cancelled.  Android delivers intents, one at a time, to the instance `current`;
`status` goes from "live" to "doomed" (stopSelf was called or the VPN revoked) to
"destroyed", after which a new instance can be created while coroutines of the
old one still wait for `engineLock`.  A cancelled coroutine leaves where the code
suspends or calls `ensureActive`, and goes on until then.

A `ParcelFileDescriptor` is a descriptor and whether it still owns it (`detachFd` gives
it away).  `openFds` is the set of open descriptors whoever holds them, and descriptors
are numbered without reuse, so that a descriptor used after it was closed is visible as
such.  `side` stands for Aether, Psiphon and sing-box together, and is the instance it
was last started for; Tor has no state of its own, it only starts or fails.  `tracking`
says that the listener for networks is registered.  `networkChanged` is its look at the
flags on a thread of Android's; the coroutine it launches restarts sing-box in two steps
(`reconnectStop`, `reconnectStart`) without the lock and without looking again.
`orphaned` is a history variable: such a restart came after the `onDestroy` of its
instance.  If two starts of sing-box overlap, the process of the first is lost to the
code; the model counts one.  Modes "xray", "proxy" and "zeptun" are a tun for Xray, no
tun, and a tun for zeptun. `CoreStart(fd, FALSE)` is a start of Xray that fails: the
library keeps the descriptor all the same.  `announced` is the last broadcast, `shown`
is `VpnState` as the service reads it.

Steps coarser than the code: `die()` tests and sets `tearingDown`, clears
`enginesReady`, cancels the start job and launches the teardown in one step; the
stops of the engines in a teardown, all under the lock, are one step; `publish`
is the three statements from `enginesReady = true`, after which the job does not
look at anything again.  `establish` includes the settings read for the tun.

### IKEv2

Four threads: Main runs the commands, the closures that others posted (`posts`), the
retry countdown, `IkeController` and the start commands (`intents`); the handler thread
(`handler`) stops the old connection and starts the next; charon's threads call the
listener, one method at a time (`callback` is where it is inside one); and the end of an
Xray session is handled on a thread pool (`xray`).  The handler thread holds the
service's monitor except while it waits, which is why commands wait for it.  `device` is
the interface Android routes to: the last one established, as long as its descriptor is
open; a refused interface leaves the old one.  Android takes it away when another VPN is
prepared, at any moment (`interfaceRevoked`); `revoked` is TRUE until `onRevoke`, which
needs the monitor, has run.  From then on it refuses every interface until the app asks
`VpnService.prepare` again (`prepared`), which it does before each connect of the user
(QuickConnect.kt:54, MainActivity.kt:1162) and not before those of the countdown.  `sa`
is what the IKE_SA the listener follows is doing; libcharon and the gateway choose it
freely.  `listener` has the two hooks that the code switches at run time, since whether
a failure is noticed depends on them.

Of the coordinator only the watchdog of the latest command is kept (`reconcile`),
of the bridge only the report of an Xray service told to stop.  `claim()` called
twice within two seconds has two timers in the code and one counter in the model;
each only repeats `setConnecting` under the same conditions.

`disturbed` is a history variable as `raced` is: it tells commands that were given
while messages were under way, or to a session that `IkeController` no longer
owned, from the others.  `WaitIsWatched` and `DisconnectWins` speak of undisturbed
behaviours; `LatestIntentWins`, which does not, is refuted.

`TunGuard` is the abstract specification.  From the moment a new connection is
taken up until the old one has been stopped, an interface that blocks traffic is
given up by the engine for a tunnel only.  The exceptions are explicit actions: Android
may refuse the blocking interface (`Switch`), and may take the interface away in any
phase, in the middle of a switch too (`Revoke`), which the engine hears only when it is
not switching (`Heard`); traffic is unguarded from such a moment on.  A
tunnel that the old connection set up late, in place of the blocking interface, is
closed with it (`Drop`), and if charon does not initialise the interface stays
(`Abandon`).  `phase` maps to the handler thread's position and profiles
(`Phase`).

### Downloads

Thread 0 is Main, thread j the job j; a thread is at `pc`, between two accesses to
what is shared: `persist` is a load and a save, `startJob` and `onTerminal` read
and write `activeCount` in two steps, the move is a deletion and a rename.
`item.segments` counts the bytes fetched per segment; the files are sets of bytes
with a length, so that a file of full length with a hole can be told from a whole
one.  Bytes are fetched one at a time; a byte stands for a buffer.

A dead process loses everything but files; the intents delivered since the service
was last idle come again (`START_REDELIVER_INTENT`).  An error in the thread of a
segment is such a death, since nothing catches it.

`disturbed` becomes TRUE when two threads are at the books (the list, the map,
the count) at once, or two jobs work for one download.  Nothing in the code prevents
either, and after it only `TypeOK` and `PlansTile` are claimed; what
the code does promise is stated for the behaviours in which it does not happen.
So the lost update of `persist`, the lost count, the second job and the stale entry of
the map do happen in the code and in the model (see the other disagreements below), and
no property of the downloads but these two says anything once they have.
The run follows behaviours until they are disturbed (constraint `Undisturbed`); the
theorems cover the rest too.

`spoiled` is a history variable as well: the downloads that met a 416, whose thread
leaves as if its segment were finished, and those whose cancel a death of the process
cut short (`Cancelling`).  `CompletedIsWhole` leaves them out.

Three simplifications of servers and files.  `acceptRanges` (the HEAD answer) is taken
for the server honouring Range; a server that advertises ranges and answers 200 would
get several segments in the code, which matters for downloads in `NoRanges` only.  A
server that does not tell the length (`Unsized`) never tells it; in the code a
download paused while its length was unknown keeps its one empty segment when a later
HEAD tells the length (DownloadEngine.kt:56-61), and would complete with nothing
fetched.  The failure of `setLength` (:71), which ends the job as any other error
does, is left to the other errors.

## What the runs show

Passing runs (about two million states for the largest):

| Run | Instance | Result |
|---|---|---|
| `session` | 2 commands, 2 handlers, 1 switch of servers, 1 report of each kind under way | `PendingIsWatched`: a pending state has its watchdog waiting. `IntentHolds`: inside the window no report turns the state against the latest command. Both as long as no handler overlapped a command, and not for a state that a switch has set. `NoEarlyTimeout`: never, races included, does a watchdog give up on a fresh command. |
| `session_live` | 2 commands, 1 handler, 1 switch | `WaitEnds`: the wait of a command ends, or a switch begins its own, even if the engine never answers. |
| `service_stop` | 2 instances, 3 coroutines at a time, 3 intents; Xray and proxy modes; all failures, changes of network | `StopWins`: after a last ACTION_STOP, at rest, no engine runs and nothing is open, but for a sing-box restarted after `onDestroy`. `EndsAreTold`: CONNECTED is not the last broadcast of a session that is over. `StartIsAlone`: while a start job is at the engines nobody else starts or stops Xray. |
| `service_reports` | 1 instance, 4 intents, all failures, changes of network | `ConnectedIsReal`, `ReportIsTrue`: at rest what the service shows and last broadcast is true; `EndIsReported`: an instance that called stopSelf reports its end. |
| `service_tun` | 2 instances, kill switch on and off, switches, share expiry, Xray and zeptun | `XrayHasOpenTun`: Xray is started on, and reads, an open descriptor. |
| `ike` | 1 profile, 2 commands, 3 posts; every failure but refused and revoked interfaces | `NoOrphanTunnel`: no daemon, descriptor or tunnel outlives the connection. `StateTells`: when nothing is under way the state told is true. `FailureIsHeard`: the hook for failures is on during every initiation. `WaitIsWatched`: a wait has a watchdog. `DisconnectWins`: a disconnect ends the session and the countdown. |
| `ike_live` | 1 command, 2 posts; charon's failures, a revocation at any moment | `IkeWaitEnds`: a wait ends though charon and the peer may be silent. `GuardSpec`: the refinement of `TunGuard`. `StateTells`, with a service that hears of the loss late. |
| `downloads` | 2 downloads, one of unknown length, 3 bytes, 3 jobs, 1 at a time, 3 commands besides the requests, 1 death | `CompletedHasFile`, `CompletedIsWhole`: what is listed as COMPLETED has its file and all its bytes. `BooksAreRight`: the count is right and each job can be reached. `NothingStranded`: none RUNNING or QUEUED is forgotten while the process lives. `PlansTile`: for lengths up to 40 units each byte is in one segment. |

Runs that refute what a comment or a text says (the finding in PROJECT.json
quotes it):

| Run | What happens |
|---|---|
| `no_fake_connected` | CONNECTED is accepted, the user disconnects, CONNECTED is applied. |
| `busy_port` | The retry after "address already in use" passes Xray the descriptor that `Gozarcore.stop()` has just closed. |
| `ike_latest_intent` | A connect from the tile; binding the state service pushes its old DISABLED, which clears `active`; the tunnel comes up without an owner and the disconnect goes to the Xray service. |
| `downloads_recover` | The process dies; ENQUEUE delivered again makes a second entry and the first stays RUNNING without a job. |

Other disagreements the models show, which have no run of their own:

* A handler that accepted a report before a connect can cancel the watchdog of the
  connect (VpnCommandCoordinator.kt:105), after which CONNECTING has no end; the
  comment at :15-16 promises otherwise.  This is why `PendingIsWatched` and
  `WaitEnds` are about behaviours that have not raced.
* A switch from the notification sets CONNECTING without a command
  (GozarVpnService.kt:485).  If the engines hang, nothing ends the wait, while the
  coordinator's comment (:15-16) says that the app "can never stay stuck in
  CONNECTING/DISCONNECTING"; TLC refutes `state \in Pending ~> state \notin Pending`.
* The connect timeout only sets ERROR (:147-150) and the service goes on starting;
  the comments at :16-17 and :138-139 say that it is stopped.
* A stop that arrives between a failure and its teardown is dropped by `die()`
  (GozarVpnService.kt:655) and the kill switch engages after it.
* A new instance's start job can get `engineLock` before the teardown of the old
  one (:775), which then stops the new session's engines.
* The reconnect after a change of network is launched without the lock and looks at
  nothing again (GozarVpnService.kt:723); its `start()` also clears the flag a `stop()`
  has set (engine/SingBoxController.kt:82-84).  The network changes, the user stops, the
  teardown ends and DISCONNECTED is sent, and then sing-box is started again and runs
  until a next session.  The comment at :773-774 says "Report completion only after
  native teardown".  This is the exception `StopWins` makes (`orphaned`).
* `switchTunnel` stops the engines without the lock (:462-467).  Of two switches one
  after the other the second stops the Xray that the start job of the first has just
  started, while :349 says that `engineLock` serializes it: with a switch TLC refutes
  `StartIsAlone`.  `onDestroy` stops zeptun without it as well (:772).
* `onDestroy` clears `zeptunOwnsTun` between the two looks of the start job (:312,
  :339), and both engines run on one tun.
* `cancel()` deletes the part file (GhajarDownloadService.kt:99) before it saves the
  record (:100).  If the process dies in between, the list still shows a paused or
  queued download with its segments; an intent delivered again can resume it before
  CANCEL comes again, and it completes with a hole.  The proof of `FilesAreWhole`
  came upon it, outside the bounds of the run; TLC then showed it with 3 downloads,
  4 jobs and 3 commands.  This is why `processDeath` changes `spoiled`.
* `persist` of the downloads loads the list (GhajarDownloadService.kt:127) and saves it
  (:131) with no lock over both.  A job saves COMPLETED between the load and the save of
  a new download's `persist`: the list says RUNNING again, with no job, while :19-20
  says that the service "persists state after every transition".
* `onTerminal` removes the entry of the download from the map (:118).  A paused job that
  ends after the download was resumed removes the entry of the new job, which pause
  and cancel (:40, :96) do not find any more; :19 promises those actions.
* A server that ignores Range ruins a resumed file (DownloadEngine.kt:139): with a
  download in `NoRanges`, TLC refutes `CompletedIsWhole`.

### Bounds

`MaxGeneration` (commands), `MaxBroadcasts` (equal reports under way), `MaxSwitches`,
`MaxInstance`, `MaxTask`, `MaxFd` and `MaxIntents` bound what would grow forever. Two
commands are needed for a command that meets the watchdog and the reports of the one
before, and one switch between them; two handlers for reports that overtake each other;
two instances for an overlap of old and new; three coroutines for a start, a teardown
and a destroy competing for the lock; two descriptors for a session and its successor or
a blocking tun.  The liveness runs use smaller instances because no symmetry may be used
with them.  The runs say `CHECK_DEADLOCK FALSE`: with no user and no failure the app
rests, and so does a model whose bounds are used up.

IKEv2: two commands for a disconnect and for a switch of connections (a connect
while the old one is still being stopped, and one by the countdown); three posts so
that reports of the old and the new connection are queued together; countdown and
claim timer of one tick, since every tick is a point at which others may act.  With
one profile a switch is one to the same profile, which the code does not treat
differently.  The bound on posts delays the poster as a slow thread would.
Revocations multiply the instance by forty: `ike_live`, with one command, has them.
One command is enough for a switch, since a countdown connects again by itself, and
leaves one revocation, since only a command prepares the app again.  Interfaces that
Android refuses to a prepared app ("REFUSED") make both too big; they and several
revocations are covered by the theorems.  A revocation waits until `onRevoke` has run
for the one before.

Downloads: two downloads compete for one job slot; three jobs allow a restart, a
retry or the start of a waiting download by an ending job; three commands allow a
pause, a resume and a cancel of one download.  Three bytes with `Unit` 1 are fetched in
two segments.  `MAX_CONCURRENT` is 1 (3 in the code) so that the limit is met.

The service runs differ in what they leave out, because there the properties
do not hold: `service_stop` and `service_reports` are without a kill switch,
without switching and without zeptun, and `service_tun` is without busy ports
(`busy_port`) and without changes of network, which do not touch the tun.  So no run has
a change of network and a switch together, and none with a switch checks `StartIsAlone`,
which does not hold there.  With a kill switch `StopWins` fails as described above, and so
does `ConnectedIsReal`: an engine lost between `ensureActive` and
`enginesReady = true` calls `die()` too early to clear the flag, the kill switch
resets `tearingDown`, and the instance looks connected with no engine.
`ConnectedIsReal` and `ReportIsTrue` are checked with one instance: with two, a
teardown that comes late stops the engines of the next session, or reports an end
after it was announced.  The half of `ReportIsTrue` that survives two instances is
`EndsAreTold`.

### Fairness

Session: the coroutine on Main goes on, timers run out, handlers and launched switches
go on, and a teardown that began ends (`Ended`).  Nothing is assumed of the user, nor of
the tunnel coming up or failing.  Service: each coroutine goes on (weak fairness per
slot) and Android destroys a service that called stopSelf.  The start of an engine
returns, since every controller has a timeout of its own.  Weak fairness is enough for a
mutex here since in a finite instance the lock is released and requested finitely often;
Kotlin's `Mutex` is fair in the first place.

IKEv2: the looper, start commands, the handler thread, a listener method that
began and timers go on; nothing is assumed of charon's job that initiates, of the
peer or of the user.  The watchdog needs strong fairness (`SF`): its guard says
that 45 seconds are longer than what the app itself has under way, and a countdown
may put new start commands under way again and again.  Downloads: no liveness is
stated, since a server may take forever.

## What is proved

TLAPS proves, for every value of the constants:

* `VpnSessionProofs`: `TypeCorrect`, `PendingWatched`, `IntentWins`, `TimeoutsInTime`.
  The two properties that speak of an idle Main are not inductive: the inductive
  invariant `IInv` adds, for behaviours that have not raced and states that no switch of
  servers has set, what the command under way has established (`MainInv`: its kind is
  `lastCommand`, the state it has set is still there) and what a handler under way can
  no longer meet (`HandlerInv`: an accepted report does not contradict a fresh command,
  and after it was applied no wait is pending, so cancelling watchdogs is harmless).
* `GozarVpnServiceProofs`: `TypeCorrect` and `OpenTun`.  `LockInv`
  says that `engineLock` names the one coroutine inside a locked section.
  `FdInv` is the ownership of descriptors: each open tun belongs to Xray, to the
  `ParcelFileDescriptor` of one instance, or to a start job between `detachFd` and
  the start of Xray, and to one of them only; the blocking tun is none of these.
  `switchTunnel` closes without the lock, and what saves it is that it closes only
  what its instance owns; that is why ownership and not the lock is the core of
  the argument.  `OpenTun` assumes that no port is found busy (`Calm`): with busy
  ports the run `busy_port` refutes it.
* `ServiceRestProofs`: `StopIsFinal`, `NoEndUnreported`, `ConnectedHasEngine`,
  `ReportsAreTrue`, `OneInstanceIsTrue` and `StartAlone`.  All but the last speak of the
  moments when no coroutine is under way; the invariants say, at every moment, what the
  coroutines under way will still do.
  * `StartAlone` follows from `LockInv`: whoever starts or stops Xray without a switch
    of servers holds the lock, and the start job at the engines holds it itself.  Every
    action that changes `core` is one of a coroutine in its section (`CoreSteps`,
    `OutsideSteps`).
  * `Struct` is the life of an instance: at most one receives intents, a start job that
    is not the last one was cancelled, an instance that is tearing down has the
    coroutine of `die()`, the coroutine of `onDestroy` is never cancelled.
  * `KeptInv`: whatever runs or is open has a `Keeper`, an instance that will still stop
    it.  `TunInv`: no tun is forgotten, since a start job that is not cancelled finds
    none to overwrite; every open descriptor is Xray's, an instance's or a start job's.
  * A reconnect after a change of network may run at any time and touches `side` alone:
    in `KeptInv` sing-box has a keeper, or was restarted for a destroyed instance
    (`orphaned`), which is all that `StopIsFinal` leaves.
  * `StopInv`: after a stop no live instance has a start or a session that nobody tears
    down.  At rest keepers are connected instances, and after a stop there are none.
  * `VouchInv`: a broadcast CONNECTED has an instance that answers for it, because it
    looks connected or will report the end.
  * `RealInv`: an instance that is not torn down has the engine it started and has said
    so.  This one needs `Serial`: no instance is created while coroutines of an
    earlier one are under way.  Without it the property is false (see the other
    disagreements above), so `Serial` is a hypothesis on the behaviour,
    `Spec /\ []Serial => []ConnectedIsReal`; with one instance, as in the run, it always
    holds (`OneInstanceIsTrue`).

  Nearly all steps are `Steady`: they keep keepers and vouchers and let no instance
  recover from a stop.  The lemmas about `die()`, the launch and the end of a coroutine
  and the exit of a start job show this once, for all the actions that use them.
  Before the proof TLC checked the invariants with 2 instances and 4 intents (5.9
  million states; 1.3 million under `Serial`), without changes of network.
* `IkeSessionProofs`: `TypeCorrect`, `NothingIsLeft`, `FailuresAreHeard` and
  `ImplementsTunGuard`, the safety of the refinement.  The inductive invariant
  `EngineInv` has two parts.  `HandlerInv` says what the handler thread's position
  implies about the profile in use; `DaemonInv` says that a daemon, and with it a
  listener method under way, a descriptor and a tunnel, exists only while a profile is
  in use and the handler thread is not between two connections. `FailureIsHeard` is
  inductive as it stands.  The refinement goes action by action: each step of
  `IkeSession` is a step of `TunGuard` or leaves `device`, `phase` and `revoked` alone.
* `GhajarDownloadServiceProofs`: `TypeCorrect`, `PlansAreRight` and
  `FilesAreThere`.  `Inv` says that wherever a thread has a copy of a record its
  segments fit its length, which is what keeps positions inside the file.
  `PlansAreRight` is arithmetic: the division with remainder is cut into its three
  counts.  `FilesAreThere` rests on `CalmInv`: a behaviour that overlaps is
  disturbed, and otherwise the list about to be saved is the one on disk, a record
  that says COMPLETED has its file, a job in transfer is not listed as COMPLETED,
  and a part file about to be moved is complete or gone.

* `IkeIntentProofs`: `StateIsTold`, `DisconnectsWin` and `WaitsAreWatched`.  All three
  are about a queue of posts of any length.
  * `StateIsTold` is an argument about the last word.  `NotLast(w)` says that the looper
    will not be left at state w: wherever w is, now or in a post, a post with another
    state follows.  It is kept by every post of another state and by every run of a
    post.  `TellsInv` says which states are not the last word at each position of the
    handler thread; with an empty queue the last word is the state told.
  * `DisconnectsWin` rests on `DisconnectInv`: after a disconnect no start, error or
    countdown is on its way, and as long as there is a profile a command to stop it is.
    That a disconnect finds the session to end at all is `OwnedInv`: a session that
    `IkeController` owns while the state is still DISABLED is about to be started, or
    nothing is left of it.  `BaseInv` collects what both need: that the library is
    loaded and bound before anything starts (`UntouchedInv`), that a countdown has a
    profile (`ProfileInv`), that `mNextProfile` is consumed (`NextProfileInv`).
  * `WaitsAreWatched` rests on `WatchInv`.  The watchdog is stopped by a CONNECTED that
    `IkeController` has seen, which may be that of the previous connection; `Busy` says
    that then the end of that connection is still to come, which asks for a watchdog
    again.
* `DownloadBooksProofs`: `NothingIsStranded`, and `BooksRight` on the way, both of
  behaviours that are not disturbed.  `BooksAreRight` looks only
  at moments when nobody is at the books; `BooksInv` says what each thread in the middle
  has read and what it still has to write (`BookOK`), how a job's position tells what
  the list shows (`JobListed`), and that `activeCount` is the cardinality of the jobs
  whose start it has heard of (`CountOK`).  `QueueInv` adds that a download that is
  RUNNING has a job that will end it, and that for one that is QUEUED without a job the
  limit is reached, or it is about to be started, or a thread is about to fill the last
  free place.
* `DownloadBytesProofs`: `FilesAreWhole` and `RangedFilesAreWhole`.  `BytesInv` says that
  every byte a record claims as fetched is in the part file (`Covers`), wherever there
  is a copy of the record: in the list, in a job, in the hands of the main thread; that
  the thread of a segment leaves early only in a job that was paused or cancelled; and
  that a part file on its way to the target is complete.  From there to the whole file
  it takes `PlansAreRight`: when each segment is finished, no byte is left.
  `FilesAreWhole` assumes that every server honours Range (`NoRanges = {}`), as the run
  does; without it the property is false (see the other disagreements above).
  `RangedFilesAreWhole` has no such assumption and speaks of the downloads that are
  not in `NoRanges`.  The invariant was checked by TLC on two instances beyond the run
  (2.5 and 1.3 million states) before the proof.

The constants are assumed to be what their declarations say (bounds are natural
numbers, `NoId` is not an id, events and modes are among those listed).  Hypotheses
of single theorems are `Calm` for `OpenTun`, `NoRanges = {}` for `FilesAreWhole`, and
for `ServiceRestProofs` `Plain`: no kill switch, no switch of servers, no share that
expires and no zeptun, as in the runs.  Busy ports are allowed.  With any one of
the four TLC refutes `StopWins` on one instance with four intents.  The three
properties of what is shown and reported are refuted by a switch and by an expired
share; a kill switch refutes `ConnectedIsReal` and `ReportIsTrue`, but not
`EndsAreTold`, and zeptun none of the three on that instance, so there the theorems
ask for more than may be needed.

Only model-checked: liveness (`WaitEnds`, `EndIsReported`, `IkeWaitEnds`), which is
out of the prover's reach.  Every safety property of a passing run has a theorem.

## Not modelled

Traffic counters, notifications, pings, the Aether e-mail code, per-app rules, the text
of configurations and of errors.  `startAutoSelect` is never called.  Of the IKEv2
engine: packet forwarding, credentials, the kinds of errors and the contents of an
interface.  Of the downloads: names and duplicates, the boot receiver, `recoverPending`,
the deletions of the list screen.  Others who set CONNECTING without the coordinator,
besides the switch of servers above: `VpnLauncher.relaunch` (:79) and
`GhajarOpenVpnBridge`; and `QuickConnect.start` launches the coordinator's coroutine and
starts the service itself, so that the two may come in either order.  OpenVPN, the
browser route, the engine controllers, shares, the shop and the user interface: see
PROJECT.json.

Nearly all of the repository's lines of C, C++ and Rust are vendored (OpenSSL,
mbedTLS, OpenVPN, libstrongswan and libcharon, Xray's and Tor's dependencies); the
program's own logic is Kotlin, Java, a Go file and the Android bridge of
strongSwan, and the modules follow it.

## Plan

1. Connect flow: `launchConnect` with its deferred launches, `QuickConnect`,
   `VpnLauncher.relaunch` and `NetworkAutoConnect`, composed with the coordinator
   and `TunnelService`; a deferred launch after a newer disconnect is the question.
2. `GozarVpnService` implements `TunnelService`: a refinement, with the phase of
   the current instance as `tunnel` and queued teardowns as `ending`.
3. The browser route on `Gozarcore`, without the lock.
4. `GhajarOpenVpnBridge` as a third owner of `VpnState`.
5. Engine controllers (sing-box with its exit callback and reconnect), and `die()`
   split into its statements.
6. `UsageStore`, GSB2 quotas.
7. Proofs that what is shown and reported at rest is true with zeptun as well.
