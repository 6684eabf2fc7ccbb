----------------------- MODULE GozarVpnServiceProofs -----------------------
(***************************************************************************)
(* Type correctness, the mutual exclusion of engineLock and the ownership  *)
(* of the tun, for any number of instances, coroutines, intents and        *)
(* descriptors.                                                            *)
(***************************************************************************)
EXTENDS GozarVpnService, TLAPS

Services == [Instances -> Fields]
Coros == [Tasks -> Coroutine]

(***************************************************************************)
(* What die and startTunnel do to the coroutines and the fields: at most   *)
(* one new coroutine appears in a free slot, in the queue for the lock,    *)
(* and the others are at most cancelled; no descriptor changes hands.      *)
(***************************************************************************)
Keeps(c, d) == c.kind = d.kind /\ c.pc = d.pc /\ c.inst = d.inst /\ c.fd = d.fd

Fresh(c, k, i) == c.kind = k /\ c.pc = "queued" /\ c.inst = i /\ c.fd = NoFd

KeepsFds(S, R) == \A i \in Instances : S[i].tunFd = R[i].tunFd /\ S[i].blockFd = R[i].blockFd

Extends(T, R, k, i) == \A t \in Tasks : Keeps(T[t], R[t]) \/ (R[t].kind = "none" /\ Fresh(T[t], k, i))

LEMMA SlotIsFree == ASSUME NEW T, FreeSlots(T) # {} PROVE Slot(T) \in FreeSlots(T)
BY DEF Slot

LEMMA CoroutinesType ==
  ASSUME NEW k \in {"start", "die", "destroy"}, NEW i \in Instances, NEW e \in BOOLEAN
  PROVE  Coroutines(k, i, e) \in Coroutine /\ Fresh(Coroutines(k, i, e), k, i)
<1> DEFINE c == [Ended EXCEPT !.kind = k, !.inst = i, !.error = e, !.pc = "queued"]
<1>1. Coroutines(k, i, e) = c
  BY DEF Coroutines
<1>2. i \in Nat
  BY DEF Instances
<1>3. c \in Coroutine
  BY <1>2 DEF Ended, Coroutine, DiePc, NoFd
<1>4. Fresh(c, k, i)
  BY DEF Ended, Fresh
<1> QED BY <1>1, <1>3, <1>4

LEMMA SwitchType ==
  ASSUME NEW k \in {"switch", "reconnect"}, NEW i \in Instances
  PROVE  /\ Coroutines(k, i, FALSE) \in Coroutine
         /\ Coroutines(k, i, FALSE).kind = k
         /\ Coroutines(k, i, FALSE).pc = "begin"
         /\ Coroutines(k, i, FALSE).inst = i
         /\ Coroutines(k, i, FALSE).fd = NoFd
<1> DEFINE c == [Ended EXCEPT !.kind = k, !.inst = i, !.error = FALSE, !.pc = "begin"]
<1>1. Coroutines(k, i, FALSE) = c
  BY DEF Coroutines
<1>2. i \in Nat
  BY DEF Instances
<1>3. c \in Coroutine
  BY <1>2 DEF Ended, Coroutine, SwitchPc, NoFd
<1>4. c.kind = k /\ c.pc = "begin" /\ c.inst = i /\ c.fd = NoFd
  BY DEF Ended
<1> QED BY <1>1, <1>3, <1>4

LEMMA CancelStartType ==
  ASSUME NEW S \in Services, NEW T \in Coros, NEW i \in Instances
  PROVE  /\ CancelStart(S, T, i) \in Coros
         /\ \A t \in Tasks : Keeps(CancelStart(S, T, i)[t], T[t])
         /\ FreeSlots(CancelStart(S, T, i)) = FreeSlots(T)
<1> DEFINE C == CancelStart(S, T, i)
<1>1. \A t \in Tasks : C[t] \in Coroutine /\ Keeps(C[t], T[t])
  BY DEF CancelStart, Coros, Coroutine, Keeps
<1>2. C \in Coros
  BY <1>1 DEF CancelStart, Coros
<1>3. FreeSlots(C) = FreeSlots(T)
  BY <1>1 DEF FreeSlots, Keeps
<1> QED BY <1>1, <1>2, <1>3

LEMMA LaunchType ==
  ASSUME NEW S \in Services, NEW T \in Coros, NEW i \in Instances, FreeSlots(T) # {},
         NEW c \in Coroutine
  PROVE  /\ Launch(S, T, i, c) \in Coros
         /\ \A t \in Tasks : \/ Launch(S, T, i, c)[t] = T[t]
                             \/ T[t].kind = "none" /\ Launch(S, T, i, c)[t] = c
<1>1. Slot(T) \in Tasks /\ T[Slot(T)].kind = "none"
  BY SlotIsFree DEF FreeSlots
<1> QED BY <1>1 DEF Launch, Coros

LEMMA DieFrame ==
  ASSUME NEW S \in Services, NEW T \in Coros, NEW i \in Instances, NEW e \in BOOLEAN,
         die(S, T, i, e)
  PROVE  svc' \in Services /\ task' \in Coros /\ KeepsFds(svc', S) /\ Extends(task', T, "die", i)
<1>1. CASE S[i].tearingDown
  BY <1>1 DEF die, KeepsFds, Extends, Keeps
<1>2. CASE ~S[i].tearingDown
  <2> DEFINE C == CancelStart(S, T, i)
             c == Coroutines("die", i, e)
             x == [S[i] EXCEPT !.tearingDown = TRUE, !.enginesReady = FALSE, !.tracking = FALSE]
  <2>0. svc' = [S EXCEPT ![i] = x]
    BY <1>2 DEF die, Services
  <2>1. x \in Fields /\ x.tunFd = S[i].tunFd /\ x.blockFd = S[i].blockFd
    BY DEF Services, Fields
  <2> HIDE DEF x
  <2>a. svc' \in Services /\ svc'[i] = x /\ \A j \in Instances : j # i => svc'[j] = S[j]
    BY <2>0, <2>1 DEF Services
  <2>2. svc' \in Services /\ KeepsFds(svc', S)
    BY <2>a, <2>1 DEF KeepsFds
  <2>3. FreeSlots(C) # {} /\ task' = Launch(S, C, i, c)
    BY <1>2, CancelStartType DEF die
  <2>4. C \in Coros /\ \A t \in Tasks : Keeps(C[t], T[t])
    BY CancelStartType
  <2>5. c \in Coroutine /\ Fresh(c, "die", i)
    BY CoroutinesType
  <2> HIDE DEF C, c
  <2>6. task' \in Coros /\ \A t \in Tasks : task'[t] = C[t] \/ (C[t].kind = "none" /\ task'[t] = c)
    BY <2>3, <2>4, <2>5, LaunchType
  <2>7. Extends(task', T, "die", i)
    BY <2>4, <2>5, <2>6 DEF Extends, Keeps
  <2> QED BY <2>2, <2>6, <2>7
<1> QED BY <1>1, <1>2

LEMMA StartFrame ==
  ASSUME NEW S \in Services, NEW T \in Coros, NEW i \in Instances, startTunnel(S, T, i)
  PROVE  svc' \in Services /\ task' \in Coros /\ KeepsFds(svc', S) /\ Extends(task', T, "start", i)
<1>1. CASE S[i].tunFd # Null
  BY <1>1 DEF startTunnel, KeepsFds, Extends, Keeps
<1>2. CASE S[i].tunFd = Null
  <2> DEFINE c == Coroutines("start", i, FALSE)
             j == IF S[i].scopeActive THEN Slot(T) ELSE NoTask
             x == [S[i] EXCEPT !.tearingDown = FALSE, !.startJob = j]
  <2>1. /\ FreeSlots(T) # {} /\ task' = Launch(S, T, i, c)
        /\ svc' = [S EXCEPT ![i] = x]
    BY <1>2 DEF startTunnel, Services
  <2>2. j \in Nat
    BY <2>1, SlotIsFree DEF FreeSlots, Tasks, NoTask
  <2> HIDE DEF j
  <2>3a. x \in Fields /\ x.tunFd = S[i].tunFd /\ x.blockFd = S[i].blockFd
    BY <2>2 DEF Services, Fields
  <2> HIDE DEF x
  <2>b. svc' \in Services /\ svc'[i] = x /\ \A k \in Instances : k # i => svc'[k] = S[k]
    BY <2>1, <2>3a DEF Services
  <2>3. svc' \in Services /\ KeepsFds(svc', S)
    BY <2>b, <2>3a DEF KeepsFds
  <2>4. c \in Coroutine /\ Fresh(c, "start", i)
    BY CoroutinesType
  <2> HIDE DEF c
  <2>5. task' \in Coros /\ \A t \in Tasks : task'[t] = T[t] \/ (T[t].kind = "none" /\ task'[t] = c)
    BY <2>1, <2>4, LaunchType
  <2> QED BY <2>3, <2>4, <2>5 DEF Extends, Keeps
<1> QED BY <1>1, <1>2

-----------------------------------------------------------------------------
(***************************************************************************)
(* The inductive invariant.  A coroutine is well formed; the lock's holder *)
(* is the one coroutine inside a locked section; and, as long as no port   *)
(* is found busy, every descriptor has one owner: Xray, the ParcelFile-    *)
(* Descriptor of one instance, or the start job between detachFd and the   *)
(* start of Xray.  The owners close only what they own.                    *)
(***************************************************************************)
WellFormed(c) == /\ c.kind # "none" => c.inst \in Instances
                 /\ c.kind \in {"switch", "reconnect"} => c.pc \in SwitchPc

InSection(c) == \/ c.kind = "start" /\ c.pc # "queued"
                \/ c.kind = "die" /\ c.pc # "queued"
                \/ c.kind = "destroy" /\ c.pc = "teardown"

LockInv == \A t \in Tasks : /\ WellFormed(task[t])
                            /\ InSection(task[t]) <=> engineLock = t

Holds(c) == c.kind = "start" /\ c.pc = "xray"

Carries(c) == c.kind = "start" /\ c.pc \in {"engines", "core", "zeptun", "zeptunRun", "detach"}

Owns(i) == svc[i].tunFd.own

CoreInv == /\ \A f \in openFds : 0 < f /\ f < nextFd
           /\ coreFd = NoFd \/ coreFd \in openFds
           /\ core => coreFd # NoFd

BlockInv == \A i \in Instances : /\ svc[i].blockFd < nextFd
                                 /\ svc[i].blockFd = NoFd \/ svc[i].blockFd # coreFd

OwnInv == \A i \in Instances : Owns(i) =>
            /\ svc[i].tunFd.fd \in openFds
            /\ svc[i].tunFd.fd # coreFd
            /\ \A j \in Instances : /\ svc[i].tunFd.fd # svc[j].blockFd
                                    /\ i # j /\ Owns(j) => svc[i].tunFd.fd # svc[j].tunFd.fd

HoldInv == \A t \in Tasks : Holds(task[t]) =>
             /\ task[t].fd \in openFds
             /\ task[t].fd # coreFd
             /\ \A j \in Instances : /\ task[t].fd # svc[j].blockFd
                                     /\ Owns(j) => task[t].fd # svc[j].tunFd.fd

CarryInv == \A t \in Tasks : Carries(task[t]) /\ Owns(task[t].inst) =>
              svc[task[t].inst].tunFd.fd = task[t].fd

FdInv == CoreInv /\ BlockInv /\ OwnInv /\ HoldInv /\ CarryInv

Calm == "BUSY" \notin Events

IInv == TypeOK /\ LockInv /\ (Calm => FdInv)

-----------------------------------------------------------------------------
(***************************************************************************)
(* What a step does to the other coroutines: it leaves them where they     *)
(* are, or puts a new one outside the locked sections into a slot that was *)
(* not in use there.                                                       *)
(***************************************************************************)
Harmless(c) == WellFormed(c) /\ ~InSection(c)

Others(t) == \A u \in Tasks : u # t =>
               \/ Keeps(task'[u], task[u])
               \/ Harmless(task'[u]) /\ ~InSection(task[u])

LEMMA FreshIsHarmless ==
  ASSUME NEW c, NEW k \in {"start", "die", "destroy"}, NEW i \in Instances, Fresh(c, k, i)
  PROVE  Harmless(c)
BY DEF Fresh, Harmless, WellFormed, InSection

LEMMA FreeIsHarmless ==
  ASSUME NEW c, c.kind = "none" PROVE Harmless(c)
BY DEF Harmless, WellFormed, InSection

LEMMA LockStays ==
  ASSUME LockInv, NEW t, Others(t), engineLock' = engineLock,
         t \in Tasks => WellFormed(task'[t]) /\ (InSection(task'[t]) <=> InSection(task[t]))
  PROVE  LockInv'
BY DEF LockInv, Others, Harmless, WellFormed, InSection, Keeps

LEMMA LockReleased ==
  ASSUME LockInv, NEW t \in Tasks, Others(t), engineLock = t, engineLock' = NoTask,
         Harmless(task'[t])
  PROVE  LockInv'
BY DEF LockInv, Others, Harmless, WellFormed, InSection, Keeps, NoTask, Tasks

LEMMA AfterJobType ==
  ASSUME TypeOK, NEW t \in Tasks, task[t].inst \in Instances
  PROVE  AfterJob(t) \in Services /\ KeepsFds(AfterJob(t), svc)
<1> DEFINE i == task[t].inst
           x == [svc[i] EXCEPT !.startJob = NoTask]
<1>1. svc \in Services
  BY DEF TypeOK, Services
<1>2. AfterJob(t) = svc \/ AfterJob(t) = [svc EXCEPT ![i] = x]
  BY <1>1 DEF AfterJob, Services
<1>3. x \in Fields /\ x.tunFd = svc[i].tunFd /\ x.blockFd = svc[i].blockFd
  BY <1>1 DEF Services, Fields, NoTask
<1> HIDE DEF x
<1>4. \A R : R = svc \/ R = [svc EXCEPT ![i] = x] => R \in Services /\ KeepsFds(R, svc)
  BY <1>1, <1>3 DEF Services, KeepsFds
<1> QED BY <1>2, <1>4

LEMMA EndTaskType ==
  ASSUME TypeOK, NEW t \in Tasks
  PROVE  /\ EndTask(t) \in Coros
         /\ EndTask(t)[t].kind = "none"
         /\ \A u \in Tasks : u # t => EndTask(t)[u] = task[u]
<1>1. Ended \in Coroutine /\ Ended.kind = "none"
  BY DEF Ended, Coroutine, NoFd, DiePc
<1> QED BY <1>1 DEF EndTask, TypeOK, Coros

LEMMA LeaveFrame ==
  ASSUME TypeOK, LockInv, NEW t \in Tasks, task[t].kind # "none", Leave(t)
  PROVE  /\ svc' \in Services /\ KeepsFds(svc', svc)
         /\ task' \in Coros /\ Others(t) /\ Harmless(task'[t])
         /\ engineLock' = NoTask
<1>1. task[t].inst \in Instances
  BY DEF LockInv, WellFormed
<1>2. svc' \in Services /\ KeepsFds(svc', svc)
  BY <1>1, AfterJobType DEF Leave
<1>3. task' \in Coros /\ task'[t].kind = "none" /\ \A u \in Tasks : u # t => task'[u] = task[u]
  BY EndTaskType DEF Leave
<1>4. Others(t) /\ Harmless(task'[t])
  BY <1>3, FreeIsHarmless DEF Others, Keeps
<1> QED BY <1>2, <1>3, <1>4 DEF Leave

LEMMA ReplaceFrame ==
  ASSUME TypeOK, NEW t \in Tasks, NEW k \in {"start", "die", "destroy"}, NEW i \in Instances,
         Extends(task', EndTask(t), k, i)
  PROVE  Others(t) /\ Harmless(task'[t])
<1> DEFINE T == EndTask(t)
<1>1. T \in Coros /\ T[t].kind = "none" /\ \A u \in Tasks : u # t => T[u] = task[u]
  BY EndTaskType
<1>2. Extends(task', T, k, i)
  OBVIOUS
<1> HIDE DEF T
<1>3. \A u \in Tasks : Keeps(task'[u], T[u]) \/ (T[u].kind = "none" /\ Harmless(task'[u]))
  BY <1>2, FreshIsHarmless DEF Extends
<1>4. Others(t)
  BY <1>1, <1>3, FreeIsHarmless DEF Others, Harmless
<1>5. Harmless(task'[t])
  BY <1>1, <1>3, FreeIsHarmless DEF Keeps
<1> QED BY <1>4, <1>5

LEMMA DieOutFrame ==
  ASSUME TypeOK, LockInv, NEW t \in Tasks, task[t].kind # "none",
         NEW S \in Services, KeepsFds(S, svc), die(S, EndTask(t), task[t].inst, TRUE)
  PROVE  /\ svc' \in Services /\ KeepsFds(svc', svc)
         /\ task' \in Coros /\ Others(t) /\ Harmless(task'[t])
<1> DEFINE i == task[t].inst
           T == EndTask(t)
<1>1. i \in Instances /\ T \in Coros /\ die(S, T, i, TRUE)
  BY EndTaskType DEF LockInv, WellFormed
<1> HIDE DEF T, i
<1>2. svc' \in Services /\ task' \in Coros /\ KeepsFds(svc', S) /\ Extends(task', T, "die", i)
  BY <1>1, DieFrame
<1>3. KeepsFds(svc', svc)
  BY <1>2 DEF KeepsFds
<1>4. Others(t) /\ Harmless(task'[t])
  BY <1>1, <1>2, ReplaceFrame DEF T
<1> QED BY <1>2, <1>3, <1>4

LEMMA FailFrame ==
  ASSUME TypeOK, LockInv, NEW t \in Tasks, task[t].kind # "none", Fail(t)
  PROVE  /\ svc' \in Services /\ KeepsFds(svc', svc)
         /\ task' \in Coros /\ Others(t) /\ Harmless(task'[t])
         /\ engineLock' = NoTask
<1> DEFINE S == AfterJob(t)
<1>1. task[t].inst \in Instances
  BY DEF LockInv, WellFormed
<1>2. S \in Services /\ KeepsFds(S, svc)
  BY <1>1, AfterJobType
<1>3. die(S, EndTask(t), task[t].inst, TRUE) /\ engineLock' = NoTask
  BY DEF Fail
<1> HIDE DEF S
<1> QED BY <1>2, <1>3, DieOutFrame

(***************************************************************************)
(* Most steps hand out no descriptor: they only close some of those whose  *)
(* owner gives them up in the same step.                                   *)
(***************************************************************************)
NoNew == \A u \in Tasks :
           /\ Holds(task'[u]) => Holds(task[u]) /\ task'[u].fd = task[u].fd
           /\ Carries(task'[u]) => /\ Carries(task[u])
                                   /\ task'[u].fd = task[u].fd /\ task'[u].inst = task[u].inst

Shrinks == \A j \in Instances :
             /\ svc'[j].tunFd = svc[j].tunFd \/ ~svc'[j].tunFd.own
             /\ svc'[j].blockFd = svc[j].blockFd \/ svc'[j].blockFd = NoFd

LEMMA KeepsShrinks ==
  ASSUME KeepsFds(svc', svc) PROVE Shrinks
BY DEF KeepsFds, Shrinks

LEMMA OthersNoNew ==
  ASSUME NEW t, Others(t),
         t \in Tasks => Harmless(task'[t]) \/ (~Holds(task'[t]) /\ ~Carries(task'[t]))
  PROVE  NoNew
BY DEF Others, Harmless, InSection, Holds, Carries, NoNew, Keeps

LEMMA OthersCarry ==
  ASSUME NEW t \in Tasks, Others(t), Carries(task[t]), Carries(task'[t]),
         task'[t].fd = task[t].fd, task'[t].inst = task[t].inst
  PROVE  NoNew
BY DEF Others, Harmless, InSection, Holds, Carries, NoNew, Keeps

LEMMA FdGiveUp ==
  ASSUME TypeOK, FdInv, NoNew, Shrinks, LockInv', nextFd' = nextFd,
         NEW X, openFds' = openFds \ X,
         core' => core /\ coreFd' # NoFd,
         coreFd' = NoFd \/ (coreFd' = coreFd /\ coreFd \notin X),
         \A j \in Instances : Owns(j)' => svc[j].tunFd.fd \notin X,
         \A u \in Tasks : Holds(task'[u]) => task[u].fd \notin X
  PROVE  FdInv'
<1>1. nextFd \in Nat /\ openFds \subseteq Nat /\ \A j \in Instances : svc[j].blockFd \in Nat
  BY DEF TypeOK, CoreTypeOK, Fields
<1>2. \A j \in Instances : Owns(j)' => Owns(j) /\ svc'[j].tunFd = svc[j].tunFd
  BY DEF Shrinks, Owns
<1>3. CoreInv'
  BY <1>1 DEF FdInv, CoreInv
<1>4. BlockInv'
  <2> SUFFICES ASSUME NEW j \in Instances
               PROVE  svc'[j].blockFd < nextFd /\ (svc'[j].blockFd = NoFd \/ svc'[j].blockFd # coreFd')
    BY DEF BlockInv
  <2>1. CASE svc'[j].blockFd = svc[j].blockFd
    BY <2>1, <1>1 DEF FdInv, BlockInv, NoFd
  <2>2. CASE svc'[j].blockFd = NoFd
    BY <2>2, <1>1 DEF FdInv, BlockInv, NoFd
  <2> QED BY <2>1, <2>2 DEF Shrinks
<1>5. OwnInv'
  <2> SUFFICES ASSUME NEW k \in Instances, Owns(k)'
               PROVE  /\ svc'[k].tunFd.fd \in openFds' /\ svc'[k].tunFd.fd # coreFd'
                      /\ \A j \in Instances :
                           /\ svc'[k].tunFd.fd # svc'[j].blockFd
                           /\ k # j /\ Owns(j)' => svc'[k].tunFd.fd # svc'[j].tunFd.fd
    BY DEF OwnInv
  <2>1. Owns(k) /\ svc'[k].tunFd = svc[k].tunFd /\ svc[k].tunFd.fd \in openFds
        /\ svc[k].tunFd.fd # coreFd /\ svc[k].tunFd.fd # NoFd
    BY <1>1, <1>2 DEF FdInv, OwnInv, CoreInv, NoFd
  <2>2. svc'[k].tunFd.fd \in openFds' /\ svc'[k].tunFd.fd # coreFd'
    BY <2>1
  <2>3. ASSUME NEW j \in Instances PROVE svc'[k].tunFd.fd # svc'[j].blockFd
    BY <2>1 DEF Shrinks, FdInv, OwnInv
  <2>4. ASSUME NEW j \in Instances, k # j, Owns(j)' PROVE svc'[k].tunFd.fd # svc'[j].tunFd.fd
    BY <2>1, <2>4, <1>2 DEF FdInv, OwnInv
  <2> QED BY <2>2, <2>3, <2>4
<1>6. HoldInv'
  <2> SUFFICES ASSUME NEW u \in Tasks, Holds(task'[u])
               PROVE  /\ task'[u].fd \in openFds' /\ task'[u].fd # coreFd'
                      /\ \A j \in Instances : /\ task'[u].fd # svc'[j].blockFd
                                              /\ Owns(j)' => task'[u].fd # svc'[j].tunFd.fd
    BY DEF HoldInv
  <2>1. Holds(task[u]) /\ task'[u].fd = task[u].fd
    BY DEF NoNew
  <2>2. task[u].fd \in openFds /\ task[u].fd # coreFd /\ task[u].fd # NoFd
    BY <1>1, <2>1 DEF FdInv, HoldInv, CoreInv, NoFd
  <2>3. ASSUME NEW j \in Instances PROVE task'[u].fd # svc'[j].blockFd
    BY <2>1, <2>2 DEF Shrinks, FdInv, HoldInv
  <2>4. ASSUME NEW j \in Instances, Owns(j)' PROVE task'[u].fd # svc'[j].tunFd.fd
    BY <2>1, <2>4, <1>2 DEF FdInv, HoldInv
  <2> QED BY <2>1, <2>2, <2>3, <2>4
<1>7. CarryInv'
  <2> SUFFICES ASSUME NEW u \in Tasks, Carries(task'[u]), Owns(task[u].inst)',
                      task'[u].inst = task[u].inst, task[u].inst \in Instances
               PROVE  svc'[task[u].inst].tunFd.fd = task'[u].fd
    BY DEF CarryInv, NoNew, LockInv, WellFormed, Carries, Owns
  <2> QED BY <1>2 DEF NoNew, FdInv, CarryInv
<1> QED BY <1>3, <1>4, <1>5, <1>6, <1>7 DEF FdInv

(***************************************************************************)
(* Nothing happens to any descriptor, or Xray stops and closes its own.    *)
(***************************************************************************)
LEMMA FdSame ==
  ASSUME TypeOK, FdInv, NoNew, Shrinks, LockInv', UNCHANGED coreVars, nextFd' = nextFd
  PROVE  FdInv'
<1> DEFINE X == {}
<1>1. /\ openFds' = openFds \ X
      /\ core' => core /\ coreFd' # NoFd
      /\ coreFd' = NoFd \/ (coreFd' = coreFd /\ coreFd \notin X)
  BY DEF coreVars, FdInv, CoreInv
<1>2. /\ \A j \in Instances : Owns(j)' => svc[j].tunFd.fd \notin X
      /\ \A u \in Tasks : Holds(task'[u]) => task[u].fd \notin X
  OBVIOUS
<1> HIDE DEF X
<1> QED BY <1>1, <1>2, FdGiveUp

LEMMA FdClose ==
  ASSUME TypeOK, FdInv, NoNew, Shrinks, LockInv', nextFd' = nextFd,
         NEW i \in Instances, NEW X, openFds' = openFds \ X,
         \A f \in X : f = coreFd \/ f = svc[i].blockFd
                        \/ (svc[i].tunFd.own /\ f = svc[i].tunFd.fd /\ ~svc'[i].tunFd.own),
         core' => core /\ coreFd' # NoFd,
         coreFd' = NoFd \/ (coreFd' = coreFd /\ coreFd \notin X)
  PROVE  FdInv'
<1>1. ASSUME NEW j \in Instances, Owns(j)' PROVE svc[j].tunFd.fd \notin X
  <2>1. Owns(j) /\ (j = i => svc'[i].tunFd.own)
    BY <1>1 DEF Owns, Shrinks
  <2> QED BY <2>1 DEF Owns, FdInv, OwnInv
<1>2. ASSUME NEW u \in Tasks, Holds(task'[u]) PROVE task[u].fd \notin X
  BY <1>2 DEF NoNew, FdInv, HoldInv, Owns
<1> QED BY <1>1, <1>2, FdGiveUp

LEMMA FdCoreStop ==
  ASSUME TypeOK, FdInv, NoNew, Shrinks, LockInv', CoreStop({}), nextFd' = nextFd
  PROVE  FdInv'
<1> DEFINE X == {coreFd}
<1>1. openFds' = openFds \ X /\ core' = FALSE /\ coreFd' = NoFd
  BY DEF CoreStop
<1>2. \A j \in Instances : Owns(j)' => svc[j].tunFd.fd \notin X
  BY DEF Owns, Shrinks, FdInv, OwnInv
<1>3. \A u \in Tasks : Holds(task'[u]) => task[u].fd \notin X
  BY DEF NoNew, FdInv, HoldInv
<1> HIDE DEF X
<1> QED BY <1>1, <1>2, <1>3, FdGiveUp

-----------------------------------------------------------------------------
(***************************************************************************)
(* Coroutines go from one statement to the next.                           *)
(***************************************************************************)
Pcs == StartPc \cup DiePc \cup DestroyPc \cup SwitchPc \cup ReconnectPc

LEMMA GotoFrame ==
  ASSUME TypeOK, NEW t \in Tasks, NEW l \in Pcs, GotoTask(t, l)
  PROVE  /\ task' \in Coros /\ Others(t)
         /\ task'[t].kind = task[t].kind /\ task'[t].pc = l
         /\ task'[t].inst = task[t].inst /\ task'[t].fd = task[t].fd
<1> DEFINE c == [task[t] EXCEPT !.pc = l]
<1>1. task \in Coros
  BY DEF TypeOK, Coros
<1>2. task' = [task EXCEPT ![t] = c]
  BY <1>1 DEF GotoTask, Coros
<1>3. /\ c \in Coroutine /\ c.kind = task[t].kind /\ c.pc = l
      /\ c.inst = task[t].inst /\ c.fd = task[t].fd
  BY <1>1 DEF Coros, Coroutine, Pcs
<1> HIDE DEF c
<1>4. task' \in Coros /\ task'[t] = c /\ \A u \in Tasks : u # t => task'[u] = task[u]
  BY <1>1, <1>2, <1>3 DEF Coros
<1> QED BY <1>3, <1>4 DEF Others, Keeps

LEMMA EndFrame ==
  ASSUME TypeOK, NEW t \in Tasks, task' = EndTask(t)
  PROVE  task' \in Coros /\ Others(t) /\ Harmless(task'[t])
<1>1. task' \in Coros /\ task'[t].kind = "none" /\ \A u \in Tasks : u # t => task'[u] = task[u]
  BY EndTaskType
<1> QED BY <1>1, FreeIsHarmless DEF Others, Keeps

(***************************************************************************)
(* Everything of the type invariant but the coroutines and the fields.     *)
(***************************************************************************)
PlainType == /\ CoreTypeOK
             /\ current \in Instances \cup {0}
             /\ engineLock \in Tasks \cup {NoTask}
             /\ side \in Instances \cup {0}
             /\ zeptun \in Nat
             /\ nextFd \in Nat
             /\ announced \in Reports
             /\ unseen \in BOOLEAN
             /\ shown \in Reports \cup {"CONNECTING"}
             /\ command \in {"none", "START", "STOP"}
             /\ intents \in Nat
             /\ orphaned \in BOOLEAN

LEMMA TypeSplit == TypeOK <=> PlainType /\ svc \in Services /\ task \in Coros
BY DEF TypeOK, PlainType, Services, Coros

LEMMA TypeSplitNext == TypeOK' <=> PlainType' /\ svc' \in Services /\ task' \in Coros
BY DEF TypeOK, PlainType, Services, Coros

LEMMA CoreStopType ==
  ASSUME CoreTypeOK, NEW X, CoreStop(X) PROVE CoreTypeOK'
BY DEF CoreTypeOK, CoreStop, NoFd

LEMMA lockStep == ASSUME IInv, NEW t \in Tasks, lock(t) PROVE IInv'
<1> DEFINE l == IF task[t].kind = "start" THEN "establish" ELSE "teardown"
<1>0. TypeOK /\ LockInv /\ svc \in Services
  BY TypeSplit DEF IInv
<1>1. GotoTask(t, l) /\ l \in Pcs
  BY DEF lock, Pcs, StartPc, DiePc
<1>2. /\ task' \in Coros /\ Others(t)
      /\ task'[t].kind = task[t].kind /\ task'[t].pc = l
      /\ task'[t].inst = task[t].inst /\ task'[t].fd = task[t].fd
  BY <1>0, <1>1, GotoFrame
<1>3. PlainType'
  BY <1>0 DEF lock, TypeOK, PlainType, CoreTypeOK, coreVars, proxyVars, inputVars, reportVars
<1>4. TypeOK'
  BY <1>0, <1>2, <1>3, TypeSplitNext DEF lock
<1>5. task[t].kind \in {"start", "die", "destroy"} /\ task[t].inst \in Instances
  BY <1>0 DEF lock, LockInv, WellFormed, TypeOK, Coroutine, SwitchPc
<1>6. WellFormed(task'[t]) /\ InSection(task'[t]) /\ engineLock' = t /\ engineLock = NoTask
  BY <1>2, <1>5 DEF lock, WellFormed, InSection
<1>7. LockInv'
  BY <1>0, <1>2, <1>6 DEF LockInv, Others, Harmless, WellFormed, InSection, Keeps, NoTask, Tasks
<1>8. ~Holds(task'[t]) /\ ~Carries(task'[t])
  BY <1>2 DEF Holds, Carries
<1>9. NoNew /\ Shrinks
  BY <1>2, <1>8, OthersNoNew DEF lock, Shrinks
<1>10. Calm => FdInv'
  BY <1>0, <1>7, <1>9, FdSame DEF IInv, lock, coreVars, proxyVars
<1> QED BY <1>4, <1>7, <1>10 DEF IInv, Calm

LEMMA cancelledInQueueStep == ASSUME IInv, NEW t \in Tasks, cancelledInQueue(t) PROVE IInv'
<1>0. TypeOK /\ LockInv /\ task[t].inst \in Instances /\ ~InSection(task[t])
  BY DEF IInv, cancelledInQueue, LockInv, WellFormed, InSection
<1>1. svc' \in Services /\ KeepsFds(svc', svc)
  BY <1>0, AfterJobType DEF cancelledInQueue
<1>2. task' \in Coros /\ Others(t) /\ Harmless(task'[t])
  BY <1>0, EndFrame DEF cancelledInQueue
<1>3. PlainType'
  BY <1>0 DEF cancelledInQueue, TypeOK, PlainType, CoreTypeOK, coreVars, proxyVars, inputVars, reportVars
<1>4. TypeOK'
  BY <1>1, <1>2, <1>3, TypeSplitNext
<1>5. LockInv'
  BY <1>0, <1>2, LockStays DEF cancelledInQueue, Harmless
<1>6. NoNew /\ Shrinks
  BY <1>1, <1>2, OthersNoNew, KeepsShrinks
<1>7. Calm => FdInv'
  BY <1>0, <1>5, <1>6, FdSame DEF IInv, cancelledInQueue, coreVars, proxyVars
<1> QED BY <1>4, <1>5, <1>7 DEF IInv, Calm

(***************************************************************************)
(* The start job inside its section: it goes on, or it leaves.             *)
(***************************************************************************)
Running(t) == task[t].kind = "start" /\ task[t].pc # "queued"

LEMMA ProceedFrame ==
  ASSUME TypeOK, LockInv, NEW t \in Tasks, Running(t), NEW l \in StartPc, l # "queued", Proceed(t, l)
  PROVE  /\ svc' \in Services /\ KeepsFds(svc', svc) /\ task' \in Coros /\ Others(t) /\ LockInv'
         /\ task'[t].kind = "start" /\ task'[t].pc = l
         /\ task'[t].inst = task[t].inst /\ task'[t].fd = task[t].fd
         /\ engineLock' \in Tasks \cup {NoTask}
<1>1. /\ task' \in Coros /\ Others(t)
      /\ task'[t].kind = task[t].kind /\ task'[t].pc = l
      /\ task'[t].inst = task[t].inst /\ task'[t].fd = task[t].fd
  BY GotoFrame DEF Proceed, Pcs
<1>2. svc' \in Services /\ KeepsFds(svc', svc) /\ engineLock' = engineLock
  BY TypeSplit DEF Proceed, KeepsFds
<1>3. WellFormed(task'[t]) /\ (InSection(task'[t]) <=> InSection(task[t]))
  BY <1>1 DEF Running, LockInv, WellFormed, InSection
<1>4. LockInv'
  BY <1>1, <1>2, <1>3, LockStays
<1> QED BY <1>1, <1>2, <1>4 DEF Running, TypeOK

LEMMA ExitFrame ==
  ASSUME TypeOK, LockInv, NEW t \in Tasks, Running(t), Leave(t) \/ Fail(t)
  PROVE  /\ svc' \in Services /\ task' \in Coros /\ LockInv' /\ NoNew /\ Shrinks
         /\ engineLock' \in Tasks \cup {NoTask}
         /\ \A u \in Tasks : ~Holds(task'[u])
<1>1. /\ svc' \in Services /\ KeepsFds(svc', svc)
      /\ task' \in Coros /\ Others(t) /\ Harmless(task'[t])
      /\ engineLock' = NoTask
  BY LeaveFrame, FailFrame DEF Running
<1>2. engineLock = t
  BY DEF LockInv, Running, InSection
<1>3. LockInv'
  BY <1>1, <1>2, LockReleased
<1>4. NoNew /\ Shrinks
  BY <1>1, OthersNoNew, KeepsShrinks
<1>5. \A u \in Tasks : ~Holds(task'[u])
  BY <1>1, <1>3 DEF LockInv, Holds, InSection, NoTask, Tasks
<1> QED BY <1>1, <1>3, <1>4, <1>5

LEMMA enginesStep == ASSUME IInv, NEW t \in Tasks, engines(t) PROVE IInv'
<1>0. TypeOK /\ LockInv /\ Running(t) /\ task[t].inst \in Instances /\ Carries(task[t])
  BY DEF IInv, engines, At, Running, LockInv, WellFormed, Carries
<1>1. side' \in Instances \cup {0} /\ (Proceed(t, "core") \/ Leave(t) \/ Fail(t))
  BY <1>0 DEF engines, TypeOK
<1>2. /\ svc' \in Services /\ task' \in Coros /\ LockInv' /\ NoNew /\ Shrinks
      /\ engineLock' \in Tasks \cup {NoTask}
  <2>1. CASE Proceed(t, "core")
    <3>1. /\ svc' \in Services /\ KeepsFds(svc', svc) /\ task' \in Coros /\ Others(t) /\ LockInv'
          /\ task'[t].kind = "start" /\ task'[t].pc = "core"
          /\ task'[t].inst = task[t].inst /\ task'[t].fd = task[t].fd
          /\ engineLock' \in Tasks \cup {NoTask}
      BY <1>0, <2>1, ProceedFrame DEF StartPc
    <3>2. Carries(task'[t])
      BY <3>1 DEF Carries
    <3> QED BY <1>0, <3>1, <3>2, OthersCarry, KeepsShrinks
  <2> QED BY <1>0, <1>1, <2>1, ExitFrame
<1>3. PlainType'
  BY <1>0, <1>1, <1>2 DEF engines, TypeOK, PlainType, CoreTypeOK, coreVars, inputVars, reportVars
<1>4. TypeOK'
  BY <1>2, <1>3, TypeSplitNext
<1>5. Calm => FdInv'
  BY <1>0, <1>2, FdSame DEF IInv, engines
<1> QED BY <1>2, <1>4, <1>5 DEF IInv, Calm

LEMMA core_stopStep == ASSUME IInv, NEW t \in Tasks, core_stop(t) PROVE IInv'
<1> DEFINE l == IF task[t].fd = NoFd THEN "tor" ELSE "zeptun"
<1>0. TypeOK /\ LockInv /\ Running(t) /\ Carries(task[t])
  BY DEF IInv, core_stop, At, Running, Carries
<1>1. l \in StartPc /\ l # "queued" /\ (Proceed(t, l) \/ Leave(t))
  BY DEF core_stop, StartPc
<1>2. /\ svc' \in Services /\ task' \in Coros /\ LockInv' /\ NoNew /\ Shrinks
      /\ engineLock' \in Tasks \cup {NoTask}
  <2>1. CASE Proceed(t, l)
    <3>1. /\ svc' \in Services /\ KeepsFds(svc', svc) /\ task' \in Coros /\ Others(t) /\ LockInv'
          /\ task'[t].kind = "start" /\ task'[t].pc = l
          /\ task'[t].inst = task[t].inst /\ task'[t].fd = task[t].fd
          /\ engineLock' \in Tasks \cup {NoTask}
      BY <1>0, <1>1, <2>1, ProceedFrame
    <3>2. ~Holds(task'[t]) /\ (l = "tor" => ~Carries(task'[t])) /\ (l = "zeptun" => Carries(task'[t]))
      BY <3>1 DEF Carries, Holds
    <3>3. NoNew
      BY <1>0, <3>1, <3>2, OthersCarry, OthersNoNew
    <3> QED BY <3>1, <3>3, KeepsShrinks
  <2> QED BY <1>0, <1>1, <2>1, ExitFrame
<1>3. PlainType'
  BY <1>0, <1>2, CoreStopType DEF core_stop, TypeOK, PlainType, proxyVars, inputVars, reportVars
<1>4. TypeOK'
  BY <1>2, <1>3, TypeSplitNext
<1>5. Calm => FdInv'
  BY <1>0, <1>2, FdCoreStop DEF IInv, core_stop, proxyVars
<1> QED BY <1>2, <1>4, <1>5 DEF IInv, Calm

LEMMA zeptunChosenStep == ASSUME IInv, NEW t \in Tasks, zeptunChosen(t) PROVE IInv'
<1> DEFINE l == IF svc[task[t].inst].zeptunOwnsTun THEN "zeptunRun" ELSE "detach"
<1>0. TypeOK /\ LockInv /\ Running(t) /\ Carries(task[t])
  BY DEF IInv, zeptunChosen, At, Running, Carries
<1>1. l \in StartPc /\ l # "queued" /\ Proceed(t, l)
  BY DEF zeptunChosen, StartPc
<1>2. /\ svc' \in Services /\ KeepsFds(svc', svc) /\ task' \in Coros /\ Others(t) /\ LockInv'
      /\ task'[t].kind = "start" /\ task'[t].pc = l
      /\ task'[t].inst = task[t].inst /\ task'[t].fd = task[t].fd
      /\ engineLock' \in Tasks \cup {NoTask}
  BY <1>0, <1>1, ProceedFrame
<1>3. Carries(task'[t])
  BY <1>2 DEF Carries
<1>4. NoNew /\ Shrinks
  BY <1>0, <1>2, <1>3, OthersCarry, KeepsShrinks
<1>5. PlainType'
  BY <1>0, <1>2 DEF zeptunChosen, TypeOK, PlainType, CoreTypeOK, coreVars, proxyVars, inputVars, reportVars
<1>6. TypeOK'
  BY <1>2, <1>5, TypeSplitNext
<1>7. Calm => FdInv'
  BY <1>0, <1>2, <1>4, FdSame DEF IInv, zeptunChosen, proxyVars
<1> QED BY <1>2, <1>6, <1>7 DEF IInv, Calm

LEMMA zeptunStartStep == ASSUME IInv, NEW t \in Tasks, zeptunStart(t) PROVE IInv'
<1>0. TypeOK /\ LockInv /\ Running(t) /\ Carries(task[t])
  BY DEF IInv, zeptunStart, At, Running, Carries
<1>1. zeptun' \in Nat /\ (Proceed(t, "detach") \/ Fail(t))
  BY <1>0 DEF zeptunStart, TypeOK, Coroutine
<1>2. /\ svc' \in Services /\ task' \in Coros /\ LockInv' /\ NoNew /\ Shrinks
      /\ engineLock' \in Tasks \cup {NoTask}
  <2>1. CASE Proceed(t, "detach")
    <3>1. /\ svc' \in Services /\ KeepsFds(svc', svc) /\ task' \in Coros /\ Others(t) /\ LockInv'
          /\ task'[t].kind = "start" /\ task'[t].pc = "detach"
          /\ task'[t].inst = task[t].inst /\ task'[t].fd = task[t].fd
          /\ engineLock' \in Tasks \cup {NoTask}
      BY <1>0, <2>1, ProceedFrame DEF StartPc
    <3>2. Carries(task'[t])
      BY <3>1 DEF Carries
    <3> QED BY <1>0, <3>1, <3>2, OthersCarry, KeepsShrinks
  <2> QED BY <1>0, <1>1, <2>1, ExitFrame
<1>3. PlainType'
  BY <1>0, <1>1, <1>2 DEF zeptunStart, TypeOK, PlainType, CoreTypeOK, coreVars, inputVars, reportVars
<1>4. TypeOK'
  BY <1>2, <1>3, TypeSplitNext
<1>5. Calm => FdInv'
  BY <1>0, <1>2, FdSame DEF IInv, zeptunStart
<1> QED BY <1>2, <1>4, <1>5 DEF IInv, Calm

LEMMA torStep == ASSUME IInv, NEW t \in Tasks, tor(t) PROVE IInv'
<1>0. TypeOK /\ LockInv /\ Running(t)
  BY DEF IInv, tor, At, Running
<1>1. Proceed(t, "publish") \/ Leave(t) \/ Fail(t)
  BY DEF tor
<1>2. /\ svc' \in Services /\ task' \in Coros /\ LockInv' /\ NoNew /\ Shrinks
      /\ engineLock' \in Tasks \cup {NoTask}
  <2>1. CASE Proceed(t, "publish")
    <3>1. /\ svc' \in Services /\ KeepsFds(svc', svc) /\ task' \in Coros /\ Others(t) /\ LockInv'
          /\ task'[t].kind = "start" /\ task'[t].pc = "publish"
          /\ engineLock' \in Tasks \cup {NoTask}
      BY <1>0, <2>1, ProceedFrame DEF StartPc
    <3>2. ~Holds(task'[t]) /\ ~Carries(task'[t])
      BY <3>1 DEF Holds, Carries
    <3> QED BY <3>1, <3>2, OthersNoNew, KeepsShrinks
  <2> QED BY <1>0, <1>1, <2>1, ExitFrame
<1>3. PlainType'
  BY <1>0, <1>2 DEF tor, TypeOK, PlainType, CoreTypeOK, coreVars, proxyVars, inputVars, reportVars
<1>4. TypeOK'
  BY <1>2, <1>3, TypeSplitNext
<1>5. Calm => FdInv'
  BY <1>0, <1>2, FdSame DEF IInv, tor, proxyVars
<1> QED BY <1>2, <1>4, <1>5 DEF IInv, Calm

(***************************************************************************)
(* detachFd: the descriptor passes from the instance to the start job.     *)
(***************************************************************************)
LEMMA detachStep == ASSUME IInv, NEW t \in Tasks, detach(t) PROVE IInv'
<1> DEFINE i == task[t].inst
<1>0. TypeOK /\ LockInv /\ Running(t) /\ i \in Instances /\ Carries(task[t]) /\ engineLock = t
      /\ svc \in Services
  BY TypeSplit DEF IInv, detach, At, Running, LockInv, WellFormed, Carries, InSection
<1>p. ASSUME svc' \in Services, task' \in Coros, engineLock' \in Tasks \cup {NoTask} PROVE TypeOK'
  <2>1. PlainType'
    BY <1>0, <1>p DEF detach, TypeOK, PlainType, CoreTypeOK, coreVars, proxyVars, inputVars, reportVars
  <2> QED BY <1>p, <2>1, TypeSplitNext
<1>1. CASE Proceed(t, "tor")
  <2>1. /\ svc' \in Services /\ KeepsFds(svc', svc) /\ task' \in Coros /\ Others(t) /\ LockInv'
        /\ task'[t].kind = "start" /\ task'[t].pc = "tor"
        /\ engineLock' \in Tasks \cup {NoTask}
    BY <1>0, <1>1, ProceedFrame DEF StartPc
  <2>2. ~Holds(task'[t]) /\ ~Carries(task'[t])
    BY <2>1 DEF Holds, Carries
  <2>3. NoNew /\ Shrinks
    BY <2>1, <2>2, OthersNoNew, KeepsShrinks
  <2>4. Calm => FdInv'
    BY <1>0, <2>1, <2>3, FdSame DEF IInv, detach, proxyVars
  <2> QED BY <1>p, <2>1, <2>4 DEF IInv, Calm
<1>2. CASE Fail(t)
  <2>1. /\ svc' \in Services /\ task' \in Coros /\ LockInv' /\ NoNew /\ Shrinks
        /\ engineLock' \in Tasks \cup {NoTask}
    BY <1>0, <1>2, ExitFrame
  <2>2. Calm => FdInv'
    BY <1>0, <2>1, FdSame DEF IInv, detach, proxyVars
  <2> QED BY <1>p, <2>1, <2>2 DEF IInv, Calm
<1>3. CASE /\ ~svc[i].zeptunOwnsTun /\ svc[i].tunFd.own
           /\ svc' = [svc EXCEPT ![i].tunFd.own = FALSE]
           /\ GotoTask(t, "xray")
           /\ UNCHANGED engineLock
  <2> DEFINE p == [svc[i].tunFd EXCEPT !.own = FALSE]
             x == [svc[i] EXCEPT !.tunFd = p]
  <2>1. svc' = [svc EXCEPT ![i] = x]
    BY <1>0, <1>3 DEF Services
  <2>a. svc[i] \in Fields /\ svc[i].tunFd \in Pfd
    BY <1>0 DEF Services, Fields
  <2>b. p \in Pfd /\ p.own = FALSE
    BY <2>a DEF Pfd
  <2> HIDE DEF p
  <2>2. x \in Fields /\ ~x.tunFd.own /\ x.blockFd = svc[i].blockFd
    BY <2>a, <2>b DEF Fields
  <2> HIDE DEF x
  <2>3. svc' \in Services /\ svc'[i] = x /\ \A j \in Instances : j # i => svc'[j] = svc[j]
    BY <1>0, <2>1, <2>2 DEF Services
  <2>4. /\ task' \in Coros /\ Others(t)
        /\ task'[t].kind = "start" /\ task'[t].pc = "xray"
        /\ task'[t].inst = i /\ task'[t].fd = task[t].fd
    BY <1>0, <1>3, GotoFrame DEF Pcs, StartPc, Running
  <2>5. WellFormed(task'[t]) /\ (InSection(task'[t]) <=> InSection(task[t]))
    BY <1>0, <2>4 DEF Running, WellFormed, InSection
  <2>6. LockInv'
    BY <1>0, <1>3, <2>4, <2>5, LockStays
  <2>7. /\ \A u \in Tasks : Holds(task'[u]) => u = t
        /\ \A u \in Tasks : ~Carries(task'[u])
    BY <1>0, <1>3, <2>4, <2>6 DEF LockInv, Holds, Carries, InSection
  <2>8. \A j \in Instances : /\ svc'[j].blockFd = svc[j].blockFd
                             /\ Owns(j)' => j # i /\ Owns(j) /\ svc'[j].tunFd = svc[j].tunFd
    BY <2>2, <2>3 DEF Owns
  <2>9. ASSUME Calm PROVE FdInv'
    <3>1. FdInv /\ task[t].fd = svc[i].tunFd.fd /\ Owns(i)
      BY <1>0, <1>3, <2>9 DEF IInv, FdInv, CarryInv, Owns
    <3>2. UNCHANGED <<core, coreFd, openFds, nextFd>>
      BY DEF detach, coreVars, proxyVars
    <3>3. CoreInv' /\ BlockInv' /\ CarryInv'
      BY <2>7, <2>8, <3>1, <3>2 DEF FdInv, CoreInv, BlockInv, CarryInv
    <3>4. OwnInv'
      BY <2>8, <3>1, <3>2 DEF FdInv, OwnInv
    <3>5. HoldInv'
      BY <1>0, <2>4, <2>7, <2>8, <3>1, <3>2 DEF FdInv, OwnInv, HoldInv
    <3> QED BY <3>3, <3>4, <3>5 DEF FdInv
  <2> QED BY <1>0, <1>3, <1>p, <2>3, <2>4, <2>6, <2>9 DEF IInv, Calm, TypeOK
<1> QED BY <1>1, <1>2, <1>3 DEF detach

(***************************************************************************)
(* Xray takes the descriptor over, and closes the one it had before.       *)
(***************************************************************************)
LEMMA FdCoreStart ==
  ASSUME TypeOK, FdInv, Shrinks, LockInv', nextFd' = nextFd,
         NEW t \in Tasks, Holds(task[t]), NEW ok \in BOOLEAN, CoreStart(task[t].fd, ok),
         \A u \in Tasks : ~Holds(task'[u]) /\ ~Carries(task'[u])
  PROVE  FdInv'
<1> DEFINE f == task[t].fd
<1>1. /\ core' = ok /\ coreFd' = f /\ openFds' = openFds \ {coreFd}
      /\ nextFd \in Nat /\ openFds \subseteq Nat
  BY DEF CoreStart, TypeOK, CoreTypeOK
<1>2. /\ f \in openFds /\ f # coreFd
      /\ \A j \in Instances : f # svc[j].blockFd /\ (Owns(j) => f # svc[j].tunFd.fd)
  BY DEF FdInv, HoldInv
<1> HIDE DEF f
<1>3. \A j \in Instances : Owns(j)' => Owns(j) /\ svc'[j].tunFd = svc[j].tunFd
  BY DEF Shrinks, Owns
<1>4. CoreInv'
  BY <1>1, <1>2 DEF FdInv, CoreInv, NoFd
<1>5. BlockInv'
  BY <1>1, <1>2 DEF FdInv, BlockInv, Shrinks, NoFd, CoreInv
<1>6. OwnInv'
  <2> SUFFICES ASSUME NEW k \in Instances, Owns(k)'
               PROVE  /\ svc'[k].tunFd.fd \in openFds' /\ svc'[k].tunFd.fd # coreFd'
                      /\ \A j \in Instances :
                           /\ svc'[k].tunFd.fd # svc'[j].blockFd
                           /\ k # j /\ Owns(j)' => svc'[k].tunFd.fd # svc'[j].tunFd.fd
    BY DEF OwnInv
  <2>1. /\ Owns(k) /\ svc'[k].tunFd = svc[k].tunFd /\ svc[k].tunFd.fd \in openFds
        /\ svc[k].tunFd.fd # coreFd /\ svc[k].tunFd.fd # NoFd
    BY <1>1, <1>3 DEF FdInv, OwnInv, CoreInv, NoFd
  <2>2. svc'[k].tunFd.fd \in openFds' /\ svc'[k].tunFd.fd # coreFd'
    BY <1>1, <1>2, <2>1
  <2>3. ASSUME NEW j \in Instances PROVE svc'[k].tunFd.fd # svc'[j].blockFd
    BY <2>1 DEF Shrinks, FdInv, OwnInv
  <2>4. ASSUME NEW j \in Instances, k # j, Owns(j)' PROVE svc'[k].tunFd.fd # svc'[j].tunFd.fd
    BY <2>1, <2>4, <1>3 DEF FdInv, OwnInv
  <2> QED BY <2>2, <2>3, <2>4
<1>7. HoldInv' /\ CarryInv'
  BY DEF HoldInv, CarryInv
<1> QED BY <1>4, <1>5, <1>6, <1>7 DEF FdInv

LEMMA xrayStartStep == ASSUME IInv, NEW t \in Tasks, xrayStart(t) PROVE IInv'
<1>0. TypeOK /\ LockInv /\ Running(t) /\ Holds(task[t]) /\ engineLock = t
  BY DEF IInv, xrayStart, At, Running, Holds, LockInv, InSection
<1>1. PICK ok \in BOOLEAN : CoreStart(task[t].fd, ok) /\ (Proceed(t, "tor") \/ Fail(t))
  BY DEF xrayStart
<1>2. /\ svc' \in Services /\ task' \in Coros /\ LockInv' /\ Shrinks
      /\ engineLock' \in Tasks \cup {NoTask}
      /\ \A u \in Tasks : ~Holds(task'[u]) /\ ~Carries(task'[u])
  <2>1. CASE Proceed(t, "tor")
    <3>1. /\ svc' \in Services /\ KeepsFds(svc', svc) /\ task' \in Coros /\ Others(t) /\ LockInv'
          /\ task'[t].kind = "start" /\ task'[t].pc = "tor"
          /\ engineLock' \in Tasks \cup {NoTask}
      BY <1>0, <2>1, ProceedFrame DEF StartPc
    <3>2. engineLock' = t
      BY <1>0, <2>1 DEF Proceed
    <3>3. \A u \in Tasks : ~Holds(task'[u]) /\ ~Carries(task'[u])
      BY <3>1, <3>2 DEF LockInv, InSection, Holds, Carries
    <3> QED BY <3>1, <3>3, KeepsShrinks
  <2>2. CASE Fail(t)
    <3>1. /\ svc' \in Services /\ task' \in Coros /\ LockInv' /\ NoNew /\ Shrinks
          /\ engineLock' \in Tasks \cup {NoTask}
      BY <1>0, <2>2, ExitFrame
    <3>2. engineLock' = NoTask
      BY <2>2 DEF Fail
    <3>3. \A u \in Tasks : ~Holds(task'[u]) /\ ~Carries(task'[u])
      BY <3>1, <3>2 DEF LockInv, InSection, Holds, Carries, NoTask, Tasks
    <3> QED BY <3>1, <3>3
  <2> QED BY <1>1, <2>1, <2>2
<1>3. PlainType'
  BY <1>0, <1>1, <1>2 DEF xrayStart, CoreStart, TypeOK, CoreTypeOK, Coroutine, PlainType,
                          proxyVars, inputVars, reportVars
<1>4. TypeOK'
  BY <1>2, <1>3, TypeSplitNext
<1>5. Calm => FdInv'
  BY <1>0, <1>1, <1>2, FdCoreStart DEF IInv, xrayStart, proxyVars
<1> QED BY <1>2, <1>4, <1>5 DEF IInv, Calm

LEMMA xrayRetryStep == ASSUME IInv, NEW t \in Tasks, xrayRetry(t) PROVE IInv'
<1>0. TypeOK /\ LockInv /\ Running(t) /\ task \in Coros /\ svc \in Services
  BY TypeSplit DEF IInv, xrayRetry, At, Running
<1>1. ~Calm
  BY DEF xrayRetry, Calm
<1>2. /\ svc' \in Services /\ task' \in Coros /\ LockInv'
      /\ engineLock' \in Tasks \cup {NoTask}
  <2>1. CASE Leave(t)
    BY <1>0, <2>1, ExitFrame
  <2>2. CASE task' = [task EXCEPT ![t].tries = @ + 1] /\ UNCHANGED <<svc, engineLock>>
    <3> DEFINE c == [task[t] EXCEPT !.tries = task[t].tries + 1]
    <3>1. task' = [task EXCEPT ![t] = c]
      BY <1>0, <2>2 DEF Coros
    <3>2. c \in Coroutine /\ Keeps(c, task[t])
      BY <1>0 DEF Coros, Coroutine, Keeps
    <3> HIDE DEF c
    <3>3. task' \in Coros /\ task'[t] = c /\ \A u \in Tasks : u # t => task'[u] = task[u]
      BY <1>0, <3>1, <3>2 DEF Coros
    <3>4. Others(t) /\ WellFormed(task'[t]) /\ (InSection(task'[t]) <=> InSection(task[t]))
      BY <1>0, <3>2, <3>3 DEF Others, Keeps, WellFormed, InSection, LockInv
    <3>5. LockInv'
      BY <1>0, <2>2, <3>4, LockStays
    <3> QED BY <1>0, <2>2, <3>3, <3>5 DEF TypeOK
  <2> QED BY <2>1, <2>2 DEF xrayRetry
<1>3. PlainType'
  BY <1>0, <1>2, CoreStopType DEF xrayRetry, CoreRestart, TypeOK, PlainType, proxyVars, inputVars, reportVars
<1>4. TypeOK'
  BY <1>2, <1>3, TypeSplitNext
<1> QED BY <1>1, <1>2, <1>4 DEF IInv, Calm

LEMMA publishStep == ASSUME IInv, NEW t \in Tasks, publish(t) PROVE IInv'
<1> DEFINE i == task[t].inst
           S == AfterJob(t)
           b == svc[i].scopeActive
           x == [S[i] EXCEPT !.enginesReady = TRUE, !.polling = b]
<1>0. TypeOK /\ LockInv /\ i \in Instances /\ engineLock = t /\ svc \in Services
  BY TypeSplit DEF IInv, publish, At, LockInv, WellFormed, InSection
<1>1. S \in Services /\ KeepsFds(S, svc) /\ b \in BOOLEAN
  BY <1>0, AfterJobType DEF Services, Fields
<1>2. svc' = [S EXCEPT ![i].enginesReady = TRUE, ![i].polling = b]
  BY DEF publish
<1> HIDE DEF S, b
<1>3. svc' = [S EXCEPT ![i] = x]
  BY <1>0, <1>1, <1>2 DEF Services
<1>4. x \in Fields /\ x.tunFd = S[i].tunFd /\ x.blockFd = S[i].blockFd
  <2>1. S[i] \in Fields
    BY <1>0, <1>1 DEF Services
  <2>2. CASE b = TRUE
    BY <2>1, <2>2 DEF Fields
  <2>3. CASE b = FALSE
    BY <2>1, <2>3 DEF Fields
  <2> QED BY <1>1, <2>2, <2>3
<1> HIDE DEF x
<1>5. svc' \in Services /\ svc'[i] = x /\ \A j \in Instances : j # i => svc'[j] = S[j]
  BY <1>0, <1>1, <1>3, <1>4 DEF Services
<1>6. KeepsFds(svc', svc)
  BY <1>1, <1>4, <1>5 DEF KeepsFds
<1>7. task' \in Coros /\ Others(t) /\ Harmless(task'[t])
  BY <1>0, EndFrame DEF publish
<1>8. LockInv'
  BY <1>0, <1>7, LockReleased DEF publish
<1>9. NoNew /\ Shrinks
  BY <1>6, <1>7, OthersNoNew, KeepsShrinks
<1>10. PlainType'
  BY <1>0 DEF publish, Broadcast, TypeOK, PlainType, CoreTypeOK, Reports, coreVars, proxyVars, inputVars
<1>11. TypeOK'
  BY <1>5, <1>7, <1>10, TypeSplitNext
<1>12. Calm => FdInv'
  BY <1>0, <1>8, <1>9, FdSame DEF IInv, publish, proxyVars
<1> QED BY <1>8, <1>11, <1>12 DEF IInv, Calm

-----------------------------------------------------------------------------
(***************************************************************************)
(* The tun.                                                                *)
(***************************************************************************)
LEMMA GrantedStep ==
  ASSUME IInv, NEW t \in Tasks, At(t, "start", "establish"), NEW mode, Granted(t, mode),
         UNCHANGED <<core, coreFd, side, zeptun, inputVars, reportVars>>
  PROVE  IInv'
<1> DEFINE i == task[t].inst
           p == [fd |-> nextFd, own |-> TRUE]
           b == mode = "zeptun"
           x == [svc[i] EXCEPT !.tunFd = p, !.blockFd = NoFd, !.tracking = TRUE,
                               !.proxyOnly = b, !.zeptunOwnsTun = b]
           c == [task[t] EXCEPT !.pc = "engines", !.fd = nextFd]
<1>0. /\ TypeOK /\ LockInv /\ i \in Instances /\ engineLock = t
      /\ svc \in Services /\ task \in Coros /\ nextFd \in Nat /\ openFds \subseteq Nat
  BY TypeSplit DEF IInv, At, LockInv, WellFormed, InSection, TypeOK, CoreTypeOK
<1>1. svc' = [svc EXCEPT ![i] = x] /\ task' = [task EXCEPT ![t] = c]
  BY <1>0 DEF Granted, Services, Coros
<1>2. x \in Fields /\ x.tunFd = p /\ x.blockFd = NoFd
  <2>1. svc[i] \in Fields /\ p \in Pfd
    BY <1>0 DEF Services, Pfd
  <2> HIDE DEF p
  <2>2. CASE b = TRUE
    BY <2>1, <2>2 DEF Fields, NoFd
  <2>3. CASE b = FALSE
    BY <2>1, <2>3 DEF Fields, NoFd
  <2> QED BY <2>2, <2>3
<1>3. /\ c \in Coroutine /\ c.kind = "start" /\ c.pc = "engines"
      /\ c.inst = i /\ c.fd = nextFd
  BY <1>0 DEF Coros, Coroutine, At, StartPc
<1> HIDE DEF x, c
<1>4. svc' \in Services /\ svc'[i] = x /\ \A j \in Instances : j # i => svc'[j] = svc[j]
  BY <1>0, <1>1, <1>2 DEF Services
<1>5. task' \in Coros /\ task'[t] = c /\ \A u \in Tasks : u # t => task'[u] = task[u]
  BY <1>0, <1>1, <1>3 DEF Coros
<1>6. Others(t)
  BY <1>5 DEF Others, Keeps
<1>7. LockInv'
  BY <1>0, <1>3, <1>5, <1>6, LockStays DEF Granted, At, WellFormed, InSection
<1>8. nextFd' = nextFd + 1 /\ openFds' = (openFds \cup {nextFd}) \ {svc[i].blockFd}
  BY DEF Granted
<1>9. PlainType'
  BY <1>0, <1>8 DEF Granted, TypeOK, PlainType, CoreTypeOK, inputVars, reportVars
<1>10. TypeOK'
  BY <1>4, <1>5, <1>9, TypeSplitNext
<1>11. \A u \in Tasks : (Holds(task'[u]) \/ Carries(task'[u])) => u = t
  BY <1>0, <1>7, <1>8 DEF Granted, LockInv, Holds, Carries, InSection
<1>12. ASSUME Calm PROVE FdInv'
  <2>1. FdInv
    BY <1>12 DEF IInv
  <2>a. p.fd = nextFd /\ p.own = TRUE
    OBVIOUS
  <2> HIDE DEF p
  <2>2. svc'[i].tunFd.fd = nextFd /\ svc'[i].blockFd = NoFd /\ svc'[i].tunFd.own
    BY <1>2, <1>4, <2>a DEF Owns
  <2>3. \A j \in Instances : j # i => svc'[j] = svc[j] /\ (Owns(j)' <=> Owns(j))
    BY <1>4 DEF Owns
  <2>4. /\ \A f \in openFds : 0 < f /\ f < nextFd
        /\ svc[i].blockFd < nextFd /\ svc[i].blockFd \in Nat /\ nextFd # svc[i].blockFd
    BY <1>0, <2>1 DEF FdInv, CoreInv, BlockInv, Services, Fields
  <2>5. CoreInv'
    <3>1. \A f \in openFds' : 0 < f /\ f < nextFd'
      BY <1>0, <1>8, <2>4
    <3>2. coreFd = NoFd \/ (coreFd \in openFds /\ coreFd # svc[i].blockFd)
      BY <1>0, <2>1, <2>4 DEF FdInv, CoreInv, BlockInv, NoFd
    <3>3. core => coreFd # NoFd
      BY <2>1 DEF FdInv, CoreInv
    <3> QED BY <1>8, <3>1, <3>2, <3>3 DEF CoreInv
  <2>6. \A j \in Instances : svc'[j].blockFd = NoFd \/ svc'[j].blockFd = svc[j].blockFd
    BY <2>2, <2>3
  <2>7. BlockInv'
    <3>1. \A j \in Instances : svc[j].blockFd < nextFd /\ svc[j].blockFd \in Nat
      BY <1>0, <2>1 DEF FdInv, BlockInv, Services, Fields
    <3> QED BY <1>0, <1>8, <2>1, <2>6, <3>1 DEF FdInv, BlockInv, NoFd
  <2>8. nextFd \in openFds' /\ nextFd # coreFd /\ \A j \in Instances : nextFd # svc'[j].blockFd
    BY <1>0, <1>8, <2>1, <2>4, <2>6 DEF FdInv, CoreInv, BlockInv, NoFd
  <2>9. \A j \in Instances : j # i /\ Owns(j) => svc[j].tunFd.fd \in openFds' /\ svc[j].tunFd.fd # nextFd
    BY <1>0, <1>8, <2>1, <2>4 DEF FdInv, OwnInv
  <2>10. OwnInv'
    <3>1. ASSUME NEW k \in Instances, Owns(k)', k = i
          PROVE  /\ svc'[k].tunFd.fd \in openFds' /\ svc'[k].tunFd.fd # coreFd'
                 /\ \A j \in Instances :
                      /\ svc'[k].tunFd.fd # svc'[j].blockFd
                      /\ k # j /\ Owns(j)' => svc'[k].tunFd.fd # svc'[j].tunFd.fd
      BY <2>2, <2>3, <2>8, <2>9, <3>1
    <3>2. ASSUME NEW k \in Instances, Owns(k)', k # i
          PROVE  /\ svc'[k].tunFd.fd \in openFds' /\ svc'[k].tunFd.fd # coreFd'
                 /\ \A j \in Instances :
                      /\ svc'[k].tunFd.fd # svc'[j].blockFd
                      /\ k # j /\ Owns(j)' => svc'[k].tunFd.fd # svc'[j].tunFd.fd
      <4>1. Owns(k) /\ svc'[k] = svc[k] /\ svc[k].tunFd.fd \in openFds /\ svc[k].tunFd.fd # NoFd
        BY <2>1, <2>3, <2>4, <3>2 DEF FdInv, OwnInv, NoFd
      <4>2. \A j \in Instances : svc'[k].tunFd.fd # svc'[j].blockFd
        BY <2>1, <2>6, <4>1 DEF FdInv, OwnInv
      <4>3. \A j \in Instances : k # j /\ Owns(j)' => svc'[k].tunFd.fd # svc'[j].tunFd.fd
        BY <2>1, <2>2, <2>3, <2>9, <3>2, <4>1 DEF FdInv, OwnInv
      <4>4. svc'[k].tunFd.fd \in openFds' /\ svc'[k].tunFd.fd # coreFd'
        BY <2>1, <2>9, <3>2, <4>1 DEF FdInv, OwnInv
      <4> QED BY <4>2, <4>3, <4>4
    <3> QED BY <3>1, <3>2 DEF OwnInv
  <2>11. HoldInv' /\ CarryInv'
    <3>1. ~Holds(task'[t])
      BY <1>3, <1>5 DEF Holds
    <3>2. task'[t].inst = i /\ task'[t].fd = nextFd
      BY <1>3, <1>5
    <3> QED BY <1>11, <2>2, <3>1, <3>2 DEF HoldInv, CarryInv
  <2> QED BY <2>5, <2>7, <2>10, <2>11 DEF FdInv
<1> QED BY <1>7, <1>10, <1>12 DEF IInv, Calm

LEMMA NoTunStep ==
  ASSUME IInv, NEW t \in Tasks, At(t, "start", "establish"), NoTun(t),
         UNCHANGED <<core, coreFd, side, zeptun, inputVars, reportVars>>
  PROVE  IInv'
<1> DEFINE i == task[t].inst
           x == [svc[i] EXCEPT !.tunFd = Null, !.proxyOnly = TRUE, !.zeptunOwnsTun = FALSE]
<1>0. TypeOK /\ LockInv /\ i \in Instances /\ engineLock = t /\ svc \in Services
  BY TypeSplit DEF IInv, At, LockInv, WellFormed, InSection
<1>1. svc' = [svc EXCEPT ![i] = x]
  BY <1>0 DEF NoTun, Services
<1>2. x \in Fields /\ x.tunFd = Null /\ x.blockFd = svc[i].blockFd
  <2>1. svc[i] \in Fields /\ Null \in Pfd
    BY <1>0 DEF Services, Pfd, Null, NoFd
  <2> QED BY <2>1 DEF Fields
<1> HIDE DEF x
<1>3. svc' \in Services /\ svc'[i] = x /\ \A j \in Instances : j # i => svc'[j] = svc[j]
  BY <1>0, <1>1, <1>2 DEF Services
<1>4. Shrinks /\ ~svc'[i].tunFd.own
  <2>1. Null.own = FALSE
    BY DEF Null
  <2> QED BY <1>2, <1>3, <2>1 DEF Shrinks, Owns
<1>5. /\ task' \in Coros /\ Others(t)
      /\ task'[t].kind = "start" /\ task'[t].pc = "engines"
      /\ task'[t].inst = i /\ task'[t].fd = task[t].fd
  BY <1>0, GotoFrame DEF NoTun, Pcs, StartPc, At
<1>6. LockInv'
  BY <1>0, <1>5, LockStays DEF NoTun, At, WellFormed, InSection
<1>7. PlainType'
  BY <1>0 DEF NoTun, TypeOK, PlainType, CoreTypeOK, inputVars, reportVars
<1>8. TypeOK'
  BY <1>3, <1>5, <1>7, TypeSplitNext
<1>9. \A u \in Tasks : ~Holds(task'[u]) /\ (Carries(task'[u]) => u = t)
  BY <1>0, <1>5, <1>6 DEF NoTun, LockInv, Holds, Carries, InSection
<1>10. ASSUME Calm PROVE FdInv'
  <2>1. FdInv /\ UNCHANGED <<core, coreFd, openFds, nextFd>>
    BY <1>10 DEF IInv, NoTun
  <2>2. /\ \A j \in Instances : svc'[j].blockFd = svc[j].blockFd
        /\ \A j \in Instances : Owns(j)' => Owns(j) /\ svc'[j].tunFd = svc[j].tunFd
    BY <1>2, <1>3, <1>4 DEF Owns, Shrinks
  <2>3. CoreInv' /\ BlockInv'
    BY <2>1, <2>2 DEF FdInv, CoreInv, BlockInv
  <2>4. OwnInv'
    BY <2>1, <2>2 DEF FdInv, OwnInv
  <2>5. HoldInv' /\ CarryInv'
    BY <1>4, <1>5, <1>9 DEF HoldInv, CarryInv, Owns
  <2> QED BY <2>3, <2>4, <2>5 DEF FdInv
<1> QED BY <1>6, <1>8, <1>10 DEF IInv, Calm

LEMMA RefusedStep ==
  ASSUME IInv, NEW t \in Tasks, At(t, "start", "establish"), Refused(t),
         UNCHANGED <<core, coreFd, side, zeptun, inputVars, reportVars>>
  PROVE  IInv'
<1> DEFINE i == task[t].inst
           A == AfterJob(t)
           x == [A[i] EXCEPT !.proxyOnly = FALSE]
           S == [A EXCEPT ![i] = x]
<1>0. TypeOK /\ LockInv /\ i \in Instances /\ engineLock = t /\ task[t].kind # "none"
  BY DEF IInv, At, LockInv, WellFormed, InSection
<1>1. A \in Services /\ KeepsFds(A, svc)
  BY <1>0, AfterJobType
<1>2. die([A EXCEPT ![i].proxyOnly = FALSE], EndTask(t), i, TRUE) /\ engineLock' = NoTask
  BY DEF Refused
<1> HIDE DEF A
<1>3. [A EXCEPT ![i].proxyOnly = FALSE] = S
  BY <1>0, <1>1 DEF Services
<1>4. x \in Fields /\ x.tunFd = A[i].tunFd /\ x.blockFd = A[i].blockFd
  <2>1. A[i] \in Fields
    BY <1>0, <1>1 DEF Services
  <2> QED BY <2>1 DEF Fields
<1> HIDE DEF x
<1>5. S \in Services /\ KeepsFds(S, svc)
  BY <1>0, <1>1, <1>4 DEF Services, KeepsFds
<1>6. die(S, EndTask(t), task[t].inst, TRUE)
  BY <1>2, <1>3
<1> HIDE DEF S
<1>7. /\ svc' \in Services /\ KeepsFds(svc', svc)
      /\ task' \in Coros /\ Others(t) /\ Harmless(task'[t])
  BY <1>0, <1>5, <1>6, DieOutFrame
<1>8. LockInv'
  BY <1>0, <1>2, <1>7, LockReleased
<1>9. NoNew /\ Shrinks
  BY <1>7, OthersNoNew, KeepsShrinks
<1>10. PlainType'
  BY <1>0 DEF Refused, TypeOK, PlainType, CoreTypeOK, inputVars, reportVars
<1>11. TypeOK'
  BY <1>7, <1>10, TypeSplitNext
<1>12. Calm => FdInv'
  BY <1>0, <1>8, <1>9, FdSame DEF IInv, Refused, coreVars
<1> QED BY <1>8, <1>11, <1>12 DEF IInv, Calm

LEMMA establishStep == ASSUME IInv, NEW t \in Tasks, establish(t) PROVE IInv'
<1>0. TypeOK /\ LockInv /\ Running(t) /\ At(t, "start", "establish")
  BY DEF IInv, establish, At, Running
<1>1. UNCHANGED <<core, coreFd, side, zeptun, inputVars, reportVars>>
  BY DEF establish
<1>2. CASE Leave(t) /\ UNCHANGED <<nextFd, openFds>>
  <2>1. /\ svc' \in Services /\ task' \in Coros /\ LockInv' /\ NoNew /\ Shrinks
        /\ engineLock' \in Tasks \cup {NoTask}
    BY <1>0, <1>2, ExitFrame
  <2>2. PlainType'
    BY <1>0, <1>1, <1>2, <2>1 DEF TypeOK, PlainType, CoreTypeOK, inputVars, reportVars
  <2>3. TypeOK'
    BY <2>1, <2>2, TypeSplitNext
  <2>4. Calm => FdInv'
    BY <1>0, <1>1, <1>2, <2>1, FdSame DEF IInv, coreVars
  <2> QED BY <2>1, <2>3, <2>4 DEF IInv, Calm
<1>3. CASE \E mode \in Modes : Granted(t, mode)
  BY <1>0, <1>1, <1>3, GrantedStep
<1>4. CASE NoTun(t)
  BY <1>0, <1>1, <1>4, NoTunStep
<1>5. CASE Refused(t)
  BY <1>0, <1>1, <1>5, RefusedStep
<1> QED BY <1>2, <1>3, <1>4, <1>5 DEF establish

-----------------------------------------------------------------------------
(***************************************************************************)
(* The ends of a session.                                                  *)
(***************************************************************************)
LEMMA ClosesWhat == ASSUME NEW pfd, NEW f \in Closes(pfd) PROVE pfd.own /\ f = pfd.fd
BY DEF Closes

LEMMA NullType == Null \in Pfd /\ Null.own = FALSE
BY DEF Null, Pfd, NoFd

LEMMA teardownStep == ASSUME IInv, NEW t \in Tasks, teardown(t) PROVE IInv'
<1> DEFINE i == task[t].inst
           x == [svc[i] EXCEPT !.tunFd = Null, !.polling = FALSE, !.zeptunOwnsTun = FALSE]
           X == {coreFd} \cup Closes(svc[i].tunFd)
<1>0. /\ TypeOK /\ LockInv /\ i \in Instances /\ engineLock = t /\ svc \in Services
      /\ task[t].kind = "die"
  BY TypeSplit DEF IInv, teardown, At, LockInv, WellFormed, InSection
<1>1. svc' = [svc EXCEPT ![i] = x]
  BY <1>0 DEF teardown, Services
<1>2. x \in Fields /\ x.tunFd = Null /\ x.blockFd = svc[i].blockFd
  <2>1. svc[i] \in Fields /\ Null \in Pfd
    BY <1>0, NullType DEF Services
  <2> QED BY <2>1 DEF Fields
<1> HIDE DEF x
<1>3. svc' \in Services /\ svc'[i] = x /\ \A j \in Instances : j # i => svc'[j] = svc[j]
  BY <1>0, <1>1, <1>2 DEF Services
<1>4. Shrinks /\ ~svc'[i].tunFd.own
  BY <1>2, <1>3, NullType DEF Shrinks
<1>5. /\ task' \in Coros /\ Others(t)
      /\ task'[t].kind = "die" /\ task'[t].pc = "end"
      /\ task'[t].inst = i
  BY <1>0, GotoFrame DEF teardown, Pcs, DiePc
<1>6. LockInv'
  BY <1>0, <1>5, LockStays DEF teardown, At, WellFormed, InSection
<1>7. PlainType'
  <2>1. CoreTypeOK' /\ zeptun' \in Nat
    BY <1>0, CoreStopType DEF teardown, StopZeptun, TypeOK, NoFd
  <2> QED BY <1>0, <2>1 DEF teardown, TypeOK, PlainType, inputVars, reportVars
<1>8. TypeOK'
  BY <1>3, <1>5, <1>7, TypeSplitNext
<1>9. NoNew
  BY <1>5, OthersNoNew DEF Holds, Carries
<1>10. ASSUME Calm PROVE FdInv'
  <2>1. /\ openFds' = openFds \ X /\ core' = FALSE /\ coreFd' = NoFd /\ nextFd' = nextFd
        /\ FdInv
    BY <1>10 DEF teardown, CoreStop, IInv
  <2>2. \A f \in X : f = coreFd \/ f = svc[i].blockFd
                       \/ (svc[i].tunFd.own /\ f = svc[i].tunFd.fd /\ ~svc'[i].tunFd.own)
    BY <1>4, ClosesWhat
  <2> HIDE DEF X, i
  <2> QED BY <1>0, <1>4, <1>6, <1>9, <2>1, <2>2, FdClose
<1> QED BY <1>6, <1>8, <1>10 DEF IInv, Calm

LEMMA stopSelfStep == ASSUME IInv, NEW t \in Tasks, stopSelf(t) PROVE IInv'
<1> DEFINE i == task[t].inst
           e == task[t].error
           s == IF svc[i].status = "live" THEN "doomed" ELSE svc[i].status
           x == [svc[i] EXCEPT !.endError = e, !.status = s]
<1>0. /\ TypeOK /\ LockInv /\ i \in Instances /\ engineLock = t /\ svc \in Services
      /\ e \in BOOLEAN
  BY TypeSplit DEF IInv, stopSelf, At, LockInv, WellFormed, InSection, Coros, Coroutine
<1>1. svc' = [svc EXCEPT ![i] = x]
  BY <1>0 DEF stopSelf, Services
<1>2. x \in Fields /\ x.tunFd = svc[i].tunFd /\ x.blockFd = svc[i].blockFd
  <2>1. svc[i] \in Fields /\ s \in {"none", "live", "doomed", "destroyed"}
    BY <1>0 DEF Services, Fields
  <2> HIDE DEF s, e
  <2>2. CASE e = TRUE
    BY <2>1, <2>2 DEF Fields
  <2>3. CASE e = FALSE
    BY <2>1, <2>3 DEF Fields
  <2> QED BY <1>0, <2>2, <2>3
<1> HIDE DEF x
<1>3. svc' \in Services /\ KeepsFds(svc', svc)
  BY <1>0, <1>1, <1>2 DEF Services, KeepsFds
<1>4. task' \in Coros /\ Others(t) /\ Harmless(task'[t])
  BY <1>0, EndFrame DEF stopSelf
<1>5. LockInv'
  BY <1>0, <1>4, LockReleased DEF stopSelf
<1>6. NoNew /\ Shrinks
  BY <1>3, <1>4, OthersNoNew, KeepsShrinks
<1>7. PlainType'
  BY <1>0 DEF stopSelf, TypeOK, PlainType, CoreTypeOK, coreVars, proxyVars, inputVars, reportVars
<1>8. TypeOK'
  BY <1>3, <1>4, <1>7, TypeSplitNext
<1>9. Calm => FdInv'
  BY <1>0, <1>5, <1>6, FdSame DEF IInv, stopSelf, proxyVars
<1> QED BY <1>5, <1>8, <1>9 DEF IInv, Calm

LEMMA destroyTeardownStep == ASSUME IInv, NEW t \in Tasks, destroyTeardown(t) PROVE IInv'
<1> DEFINE i == task[t].inst
           x == [svc[i] EXCEPT !.tunFd = Null, !.blockFd = NoFd]
           X == {coreFd} \cup (Closes(svc[i].tunFd) \cup {svc[i].blockFd})
<1>0. /\ TypeOK /\ LockInv /\ i \in Instances /\ engineLock = t /\ svc \in Services
      /\ task[t].kind = "destroy"
  BY TypeSplit DEF IInv, destroyTeardown, At, LockInv, WellFormed, InSection
<1>1. svc' = [svc EXCEPT ![i] = x]
  BY <1>0 DEF destroyTeardown, Services
<1>2. x \in Fields /\ x.tunFd = Null /\ x.blockFd = NoFd
  <2>1. svc[i] \in Fields /\ Null \in Pfd
    BY <1>0, NullType DEF Services
  <2> QED BY <2>1 DEF Fields, NoFd
<1> HIDE DEF x
<1>3. svc' \in Services /\ svc'[i] = x /\ \A j \in Instances : j # i => svc'[j] = svc[j]
  BY <1>0, <1>1, <1>2 DEF Services
<1>4. Shrinks /\ ~svc'[i].tunFd.own
  BY <1>2, <1>3, NullType DEF Shrinks
<1>5. /\ task' \in Coros /\ Others(t)
      /\ task'[t].kind = "destroy" /\ task'[t].pc = "report"
      /\ task'[t].inst = i
  BY <1>0, GotoFrame DEF destroyTeardown, Pcs, DestroyPc
<1>6. LockInv' /\ NoNew
  <2>1. Harmless(task'[t])
    BY <1>0, <1>5 DEF Harmless, WellFormed, InSection
  <2> QED BY <1>0, <1>5, <2>1, LockReleased, OthersNoNew DEF destroyTeardown
<1>7. PlainType'
  <2>1. CoreTypeOK'
    BY <1>0, CoreStopType DEF destroyTeardown, TypeOK
  <2> QED BY <1>0, <2>1 DEF destroyTeardown, TypeOK, PlainType, inputVars, reportVars
<1>8. TypeOK'
  BY <1>3, <1>5, <1>7, TypeSplitNext
<1>10. ASSUME Calm PROVE FdInv'
  <2>1. /\ openFds' = openFds \ X /\ core' = FALSE /\ coreFd' = NoFd /\ nextFd' = nextFd
        /\ FdInv
    BY <1>10 DEF destroyTeardown, CoreStop, IInv
  <2>2. \A f \in X : f = coreFd \/ f = svc[i].blockFd
                       \/ (svc[i].tunFd.own /\ f = svc[i].tunFd.fd /\ ~svc'[i].tunFd.own)
    BY <1>4, ClosesWhat
  <2> HIDE DEF X, i
  <2> QED BY <1>0, <1>4, <1>6, <2>1, <2>2, FdClose
<1> QED BY <1>6, <1>8, <1>10 DEF IInv, Calm

LEMMA destroyReportStep == ASSUME IInv, NEW t \in Tasks, destroyReport(t) PROVE IInv'
<1> DEFINE i == task[t].inst
           x == [svc[i] EXCEPT !.scopeActive = FALSE, !.polling = FALSE]
<1>0. /\ TypeOK /\ LockInv /\ i \in Instances /\ ~InSection(task[t])
      /\ svc \in Services /\ task \in Coros
  BY TypeSplit DEF IInv, destroyReport, At, LockInv, WellFormed, InSection
<1>1. svc' = [svc EXCEPT ![i] = x]
  BY <1>0 DEF destroyReport, Services
<1>2. x \in Fields /\ x.tunFd = svc[i].tunFd /\ x.blockFd = svc[i].blockFd
  <2>1. svc[i] \in Fields
    BY <1>0 DEF Services
  <2> QED BY <2>1 DEF Fields
<1> HIDE DEF x
<1>3. svc' \in Services /\ KeepsFds(svc', svc)
  BY <1>0, <1>1, <1>2 DEF Services, KeepsFds
<1>4. \A u \in Tasks : /\ task'[u] \in Coroutine
                       /\ u # t => Keeps(task'[u], task[u])
                       /\ u = t => task'[u] = Ended
  <2>1. Ended \in Coroutine
    BY DEF Ended, Coroutine, NoFd, DiePc
  <2> QED BY <1>0, <2>1 DEF destroyReport, Coros, Coroutine, Keeps
<1>5. task' \in Coros /\ Others(t) /\ Harmless(task'[t])
  <2>1. Ended.kind = "none"
    BY DEF Ended
  <2>2. task' \in Coros
    BY <1>4 DEF destroyReport, Coros
  <2> QED BY <1>4, <2>1, <2>2, FreeIsHarmless DEF Others
<1>6. LockInv'
  BY <1>0, <1>5, LockStays DEF destroyReport, Harmless
<1>7. NoNew /\ Shrinks
  BY <1>3, <1>5, OthersNoNew, KeepsShrinks
<1>8. PlainType'
  BY <1>0 DEF destroyReport, Broadcast, TypeOK, PlainType, CoreTypeOK, Reports, coreVars, proxyVars, inputVars
<1>9. TypeOK'
  BY <1>3, <1>5, <1>8, TypeSplitNext
<1>10. Calm => FdInv'
  BY <1>0, <1>6, <1>7, FdSame DEF IInv, destroyReport, proxyVars
<1> QED BY <1>6, <1>9, <1>10 DEF IInv, Calm

(***************************************************************************)
(* The kill switch: a new descriptor replaces those that are closed.       *)
(***************************************************************************)
LEMMA enterKillSwitchStep == ASSUME IInv, NEW t \in Tasks, enterKillSwitch(t) PROVE IInv'
<1> DEFINE i == task[t].inst
           X == {coreFd} \cup Closes(svc[i].tunFd)
<1>0. /\ TypeOK /\ LockInv /\ i \in Instances /\ engineLock = t /\ svc \in Services
      /\ nextFd \in Nat /\ openFds \subseteq Nat
  BY TypeSplit DEF IInv, enterKillSwitch, At, LockInv, WellFormed, InSection, TypeOK, CoreTypeOK
<1>1. PICK granted \in BOOLEAN :
        /\ openFds' = (openFds \ X) \cup (IF granted THEN {nextFd} ELSE {})
        /\ nextFd' = IF granted THEN nextFd + 1 ELSE nextFd
        /\ svc' = [svc EXCEPT ![i].tunFd = Null, ![i].polling = FALSE,
                              ![i].zeptunOwnsTun = FALSE, ![i].tearingDown = FALSE,
                              ![i].blockFd = IF granted THEN nextFd ELSE NoFd]
  BY DEF enterKillSwitch
<1> DEFINE b == IF granted THEN nextFd ELSE NoFd
           x == [svc[i] EXCEPT !.tunFd = Null, !.polling = FALSE, !.zeptunOwnsTun = FALSE,
                               !.tearingDown = FALSE, !.blockFd = b]
<1>2. svc' = [svc EXCEPT ![i] = x]
  BY <1>0, <1>1 DEF Services
<1>3. x \in Fields /\ x.tunFd = Null /\ x.blockFd = b
  <2>1. svc[i] \in Fields /\ Null \in Pfd /\ b \in Nat
    BY <1>0, NullType DEF Services, NoFd
  <2> HIDE DEF b
  <2> QED BY <2>1 DEF Fields
<1> HIDE DEF x
<1>4. svc' \in Services /\ svc'[i] = x /\ \A j \in Instances : j # i => svc'[j] = svc[j]
  BY <1>0, <1>2, <1>3 DEF Services
<1>5. ~svc'[i].tunFd.own /\ svc'[i].blockFd = b
  BY <1>3, <1>4, NullType
<1>6. task' \in Coros /\ Others(t) /\ Harmless(task'[t])
  BY <1>0, EndFrame DEF enterKillSwitch
<1>7. LockInv' /\ NoNew
  BY <1>0, <1>6, LockReleased, OthersNoNew DEF enterKillSwitch
<1>8. core' = FALSE /\ coreFd' = NoFd /\ engineLock' = NoTask
  BY DEF enterKillSwitch
<1>9. PlainType'
  <2>1. CoreTypeOK' /\ zeptun' \in Nat /\ nextFd' \in Nat
    <3>1. zeptun' \in Nat
      BY <1>0 DEF enterKillSwitch, StopZeptun, TypeOK, NoFd
    <3> HIDE DEF X
    <3>2. nextFd' \in Nat /\ openFds' \subseteq Nat
      BY <1>0, <1>1
    <3> QED BY <1>8, <3>1, <3>2 DEF CoreTypeOK, NoFd
  <2> QED BY <1>0, <2>1 DEF enterKillSwitch, Broadcast, Reports, TypeOK, PlainType, inputVars
<1>10. TypeOK'
  BY <1>4, <1>6, <1>9, TypeSplitNext
<1>11. ASSUME Calm, ~granted PROVE FdInv'
  <2>1. openFds' = openFds \ X /\ nextFd' = nextFd /\ FdInv
    BY <1>1, <1>11 DEF IInv
  <2>2. Shrinks
    BY <1>4, <1>5, <1>11 DEF Shrinks
  <2>3. \A f \in X : f = coreFd \/ f = svc[i].blockFd
                       \/ (svc[i].tunFd.own /\ f = svc[i].tunFd.fd /\ ~svc'[i].tunFd.own)
    BY <1>5, ClosesWhat
  <2> HIDE DEF X, i
  <2> QED BY <1>0, <1>7, <1>8, <2>1, <2>2, <2>3, FdClose
<1>12. ASSUME Calm, granted PROVE FdInv'
  <2>1. FdInv /\ openFds' = (openFds \ X) \cup {nextFd} /\ nextFd' = nextFd + 1 /\ b = nextFd
    BY <1>1, <1>12 DEF IInv
  <2>2. /\ \A f \in openFds : 0 < f /\ f < nextFd
        /\ \A j \in Instances : svc[j].blockFd < nextFd /\ svc[j].blockFd \in Nat
        /\ 0 < nextFd
    BY <1>0, <2>1 DEF FdInv, CoreInv, BlockInv, Services, Fields
  <2>3. CoreInv'
    <3>1. nextFd \in Nat /\ openFds \subseteq Nat
      BY <1>0
    <3>2. ASSUME NEW f \in openFds' PROVE 0 < f /\ f < nextFd'
      <4>1. nextFd' = nextFd + 1 /\ (f \in openFds \/ f = nextFd)
        BY <2>1, <3>2
      <4>2. f \in openFds => 0 < f /\ f < nextFd
        BY <2>2
      <4>3. 0 < nextFd
        BY <2>2
      <4>4. f \in Nat /\ nextFd \in Nat
        BY <3>1, <4>1
      <4>5. CASE f = nextFd
        BY ONLY <4>1, <4>3, <4>4, <4>5
      <4>6. CASE f \in openFds
        <5>1. 0 < f /\ f < nextFd
          BY <4>2, <4>6
        <5>2. nextFd' = nextFd + 1
          BY <4>1
        <5> QED BY ONLY <4>4, <5>1, <5>2
      <4> QED BY <4>1, <4>5, <4>6
    <3> QED BY <1>8, <3>2 DEF CoreInv
  <2>4. \A j \in Instances : svc'[j].blockFd = nextFd \/ svc'[j].blockFd = svc[j].blockFd
    BY <1>4, <1>5, <2>1
  <2>5. BlockInv'
    BY <1>0, <1>8, <2>1, <2>2, <2>4 DEF BlockInv, NoFd
  <2>6. \A j \in Instances : Owns(j)' => j # i /\ Owns(j) /\ svc'[j].tunFd = svc[j].tunFd
    <3> HIDE DEF i
    <3> QED BY <1>4, <1>5 DEF Owns
  <2>7. \A j \in Instances : j # i /\ Owns(j) =>
          svc[j].tunFd.fd \in openFds' /\ svc[j].tunFd.fd < nextFd /\ svc[j].tunFd.fd # NoFd
    <3>1. ASSUME NEW j \in Instances, j # i, Owns(j) PROVE svc[j].tunFd.fd \notin X
      BY <1>0, <2>1, <3>1, ClosesWhat DEF FdInv, OwnInv, Owns
    <3>2. ASSUME NEW j \in Instances, Owns(j) PROVE svc[j].tunFd.fd \in openFds
      BY <2>1, <3>2 DEF FdInv, OwnInv
    <3> HIDE DEF X
    <3> QED BY <2>1, <2>2, <3>1, <3>2 DEF NoFd
  <2> HIDE DEF X, i, b
  <2>8. OwnInv'
    <3> SUFFICES ASSUME NEW k \in Instances, Owns(k)'
                 PROVE  /\ svc'[k].tunFd.fd \in openFds' /\ svc'[k].tunFd.fd # coreFd'
                        /\ \A j \in Instances :
                             /\ svc'[k].tunFd.fd # svc'[j].blockFd
                             /\ k # j /\ Owns(j)' => svc'[k].tunFd.fd # svc'[j].tunFd.fd
      BY DEF OwnInv
    <3>1. /\ Owns(k) /\ svc'[k].tunFd = svc[k].tunFd /\ svc[k].tunFd.fd \in openFds'
          /\ svc[k].tunFd.fd < nextFd /\ svc[k].tunFd.fd # NoFd
      BY <2>6, <2>7
    <3>2. ASSUME NEW j \in Instances PROVE svc'[k].tunFd.fd # svc'[j].blockFd
      <4>1. svc[k].tunFd.fd # svc[j].blockFd /\ svc[k].tunFd.fd # nextFd
        BY <1>0, <2>1, <3>1 DEF FdInv, OwnInv
      <4> QED BY <2>4, <3>1, <4>1
    <3>3. ASSUME NEW j \in Instances, k # j, Owns(j)' PROVE svc'[k].tunFd.fd # svc'[j].tunFd.fd
      BY <2>1, <2>6, <3>1, <3>3 DEF FdInv, OwnInv
    <3> QED BY <1>8, <3>1, <3>2, <3>3
  <2>9. \A u \in Tasks : ~Holds(task'[u]) /\ ~Carries(task'[u])
    <3>1. NoTask \notin Tasks
      BY DEF NoTask, Tasks
    <3>2. \A u \in Tasks : ~InSection(task'[u])
      BY <1>7, <1>8, <3>1 DEF LockInv
    <3> QED BY <3>2 DEF Holds, Carries, InSection
  <2>10. HoldInv' /\ CarryInv'
    BY <2>9 DEF HoldInv, CarryInv
  <2> QED BY <2>3, <2>5, <2>8, <2>10 DEF FdInv
<1> QED BY <1>7, <1>10, <1>11, <1>12 DEF IInv, Calm

-----------------------------------------------------------------------------
(***************************************************************************)
(* switchTunnel and the reconnect, which never hold the lock.              *)
(***************************************************************************)
Switching(t) == task[t].kind \in {"switch", "reconnect"}

LEMMA SwitchFrame ==
  ASSUME TypeOK, LockInv, NEW t \in Tasks, Switching(t), engineLock' = engineLock,
         NEW l \in SwitchPc, GotoTask(t, l) \/ task' = EndTask(t)
  PROVE  task' \in Coros /\ LockInv' /\ NoNew
<1>1. task[t].inst \in Instances /\ ~InSection(task[t])
  BY DEF LockInv, WellFormed, Switching, InSection
<1>2. CASE GotoTask(t, l)
  <2>1. /\ task' \in Coros /\ Others(t)
        /\ Switching(t)' /\ task'[t].pc = l
        /\ task'[t].inst = task[t].inst
    BY <1>2, GotoFrame DEF Pcs, Switching
  <2>2. Harmless(task'[t])
    BY <1>1, <2>1 DEF Harmless, WellFormed, InSection, Switching
  <2> QED BY <1>1, <2>1, <2>2, LockStays, OthersNoNew DEF Harmless
<1>3. CASE task' = EndTask(t)
  <2>1. task' \in Coros /\ Others(t) /\ Harmless(task'[t])
    BY <1>3, EndFrame
  <2> QED BY <1>1, <2>1, LockStays, OthersNoNew DEF Harmless
<1> QED BY <1>2, <1>3

LEMMA switchBeginStep == ASSUME IInv, NEW t \in Tasks, switchBegin(t) PROVE IInv'
<1>0. TypeOK /\ LockInv /\ Switching(t) /\ svc \in Services
  BY TypeSplit DEF IInv, switchBegin, At, Switching
<1>1. (GotoTask(t, "stop") \/ task' = EndTask(t)) /\ "stop" \in SwitchPc /\ engineLock' = engineLock
  BY DEF switchBegin, SwitchPc
<1>2. task' \in Coros /\ LockInv' /\ NoNew
  BY <1>0, <1>1, SwitchFrame
<1>3. svc' \in Services /\ Shrinks
  BY <1>0 DEF switchBegin, Shrinks
<1>4. PlainType'
  BY <1>0 DEF switchBegin, TypeOK, PlainType, CoreTypeOK, coreVars, proxyVars, inputVars, reportVars
<1>5. TypeOK'
  BY <1>2, <1>3, <1>4, TypeSplitNext
<1>6. Calm => FdInv'
  BY <1>0, <1>2, <1>3, FdSame DEF IInv, switchBegin, proxyVars
<1> QED BY <1>2, <1>5, <1>6 DEF IInv, Calm

LEMMA switchStopStep == ASSUME IInv, NEW t \in Tasks, switchStop(t) PROVE IInv'
<1> DEFINE i == task[t].inst
           x == [svc[i] EXCEPT !.polling = FALSE, !.zeptunOwnsTun = FALSE]
<1>0. TypeOK /\ LockInv /\ Switching(t) /\ svc \in Services /\ i \in Instances
  BY TypeSplit DEF IInv, switchStop, At, Switching, LockInv, WellFormed
<1>1. GotoTask(t, "close") /\ "close" \in SwitchPc /\ engineLock' = engineLock
  BY DEF switchStop, SwitchPc
<1>2. task' \in Coros /\ LockInv' /\ NoNew
  BY <1>0, <1>1, SwitchFrame
<1>3. svc' \in Services /\ KeepsFds(svc', svc)
  <2>1. svc' = [svc EXCEPT ![i] = x]
    BY <1>0 DEF switchStop, Services
  <2>2. svc[i] \in Fields
    BY <1>0 DEF Services
  <2>3. x \in Fields /\ x.tunFd = svc[i].tunFd /\ x.blockFd = svc[i].blockFd
    BY <2>2 DEF Fields
  <2> HIDE DEF x
  <2> QED BY <1>0, <2>1, <2>3 DEF Services, KeepsFds
<1>4. PlainType'
  <2>1. CoreTypeOK' /\ zeptun' \in Nat
    BY <1>0, CoreStopType DEF switchStop, StopZeptun, TypeOK, NoFd
  <2> QED BY <1>0, <2>1 DEF switchStop, TypeOK, PlainType, inputVars, reportVars
<1>5. TypeOK'
  BY <1>2, <1>3, <1>4, TypeSplitNext
<1>6. Calm => FdInv'
  BY <1>0, <1>2, <1>3, FdCoreStop, KeepsShrinks DEF IInv, switchStop
<1> QED BY <1>2, <1>5, <1>6 DEF IInv, Calm

LEMMA switchCloseStep == ASSUME IInv, NEW t \in Tasks, switchClose(t) PROVE IInv'
<1> DEFINE i == task[t].inst
           x == [svc[i] EXCEPT !.tunFd = Null]
           X == Closes(svc[i].tunFd)
<1>0. TypeOK /\ LockInv /\ Switching(t) /\ svc \in Services /\ i \in Instances
  BY TypeSplit DEF IInv, switchClose, At, Switching, LockInv, WellFormed
<1>1. GotoTask(t, "restart") /\ "restart" \in SwitchPc /\ engineLock' = engineLock
  BY DEF switchClose, SwitchPc
<1>2. task' \in Coros /\ LockInv' /\ NoNew
  BY <1>0, <1>1, SwitchFrame
<1>3. svc' \in Services /\ Shrinks /\ ~svc'[i].tunFd.own
  <2>1. svc' = [svc EXCEPT ![i] = x]
    BY <1>0 DEF switchClose, Services
  <2>2. svc[i] \in Fields /\ Null \in Pfd
    BY <1>0, NullType DEF Services
  <2>3. x \in Fields /\ x.tunFd = Null /\ x.blockFd = svc[i].blockFd
    BY <2>2 DEF Fields
  <2> HIDE DEF x
  <2>4. svc' \in Services /\ svc'[i] = x /\ \A j \in Instances : j # i => svc'[j] = svc[j]
    BY <1>0, <2>1, <2>3 DEF Services
  <2> QED BY <2>3, <2>4, NullType DEF Shrinks
<1>4. PlainType'
  BY <1>0 DEF switchClose, TypeOK, PlainType, CoreTypeOK, proxyVars, inputVars, reportVars
<1>5. TypeOK'
  BY <1>2, <1>3, <1>4, TypeSplitNext
<1>6. ASSUME Calm PROVE FdInv'
  <2>1. FdInv /\ openFds' = openFds \ X /\ UNCHANGED <<core, coreFd>> /\ nextFd' = nextFd
    BY <1>6 DEF IInv, switchClose, proxyVars
  <2>2. \A f \in X : svc[i].tunFd.own /\ f = svc[i].tunFd.fd
    BY ClosesWhat
  <2>3. coreFd \notin X /\ (core' => core /\ coreFd' # NoFd)
    BY <1>0, <2>1, <2>2 DEF FdInv, CoreInv, OwnInv, Owns
  <2> HIDE DEF X, i
  <2> QED BY <1>0, <1>2, <1>3, <2>1, <2>2, <2>3, FdClose
<1> QED BY <1>2, <1>5, <1>6 DEF IInv, Calm

LEMMA switchRestartStep == ASSUME IInv, NEW t \in Tasks, switchRestart(t) PROVE IInv'
<1> DEFINE i == task[t].inst
           T == EndTask(t)
<1>0. TypeOK /\ LockInv /\ ~InSection(task[t]) /\ svc \in Services /\ i \in Instances
  BY TypeSplit DEF IInv, switchRestart, At, LockInv, WellFormed, InSection
<1>1. T \in Coros /\ startTunnel(svc, T, i)
  BY <1>0, EndTaskType DEF switchRestart
<1> HIDE DEF T
<1>2. svc' \in Services /\ task' \in Coros /\ KeepsFds(svc', svc) /\ Extends(task', T, "start", i)
  BY <1>0, <1>1, StartFrame
<1>3. Others(t) /\ Harmless(task'[t])
  BY <1>0, <1>2, ReplaceFrame DEF T
<1>4. LockInv'
  BY <1>0, <1>3, LockStays DEF switchRestart, Harmless
<1>5. NoNew /\ Shrinks
  BY <1>2, <1>3, OthersNoNew, KeepsShrinks
<1>6. PlainType'
  BY <1>0 DEF switchRestart, TypeOK, PlainType, CoreTypeOK, coreVars, proxyVars, inputVars
<1>7. TypeOK'
  BY <1>2, <1>6, TypeSplitNext
<1>8. Calm => FdInv'
  BY <1>0, <1>4, <1>5, FdSame DEF IInv, switchRestart, proxyVars
<1> QED BY <1>4, <1>7, <1>8 DEF IInv, Calm

LEMMA reconnectStopStep == ASSUME IInv, NEW t \in Tasks, reconnectStop(t) PROVE IInv'
<1>0. TypeOK /\ LockInv /\ Switching(t) /\ svc \in Services
  BY TypeSplit DEF IInv, reconnectStop, At, Switching
<1>1. (GotoTask(t, "restart") \/ task' = EndTask(t)) /\ "restart" \in SwitchPc /\ engineLock' = engineLock
  BY DEF reconnectStop, SwitchPc
<1>2. task' \in Coros /\ LockInv' /\ NoNew
  BY <1>0, <1>1, SwitchFrame
<1>3. svc' \in Services /\ Shrinks
  BY <1>0 DEF reconnectStop, Shrinks
<1>4. PlainType'
  BY <1>0 DEF reconnectStop, TypeOK, PlainType, CoreTypeOK, coreVars, inputVars, reportVars
<1>5. TypeOK'
  BY <1>2, <1>3, <1>4, TypeSplitNext
<1>6. Calm => FdInv'
  BY <1>0, <1>2, <1>3, FdSame DEF IInv, reconnectStop
<1> QED BY <1>2, <1>5, <1>6 DEF IInv, Calm

LEMMA reconnectStartStep == ASSUME IInv, NEW t \in Tasks, reconnectStart(t) PROVE IInv'
<1>0. /\ TypeOK /\ LockInv /\ task[t].kind = "reconnect" /\ ~InSection(task[t])
      /\ svc \in Services /\ task[t].inst \in Instances
  BY TypeSplit DEF IInv, reconnectStart, At, LockInv, WellFormed, InSection
<1>1. /\ svc' \in Services /\ KeepsFds(svc', svc)
      /\ task' \in Coros /\ Others(t) /\ Harmless(task'[t])
  <2>1. CASE UNCHANGED svc /\ task' = EndTask(t)
    BY <1>0, <2>1, EndFrame DEF KeepsFds
  <2>2. CASE die(svc, EndTask(t), task[t].inst, TRUE)
    <3>1. task[t].kind # "none" /\ svc \in Services /\ KeepsFds(svc, svc)
      BY <1>0 DEF KeepsFds
    <3> QED BY <1>0, <2>2, <3>1, DieOutFrame
  <2> QED BY <2>1, <2>2 DEF reconnectStart
<1>2. LockInv'
  BY <1>0, <1>1, LockStays DEF reconnectStart, Harmless
<1>3. NoNew /\ Shrinks
  BY <1>1, OthersNoNew, KeepsShrinks
<1>4. PlainType'
  BY <1>0 DEF reconnectStart, TypeOK, PlainType, CoreTypeOK, coreVars, reportVars
<1>5. TypeOK'
  BY <1>1, <1>4, TypeSplitNext
<1>6. Calm => FdInv'
  BY <1>0, <1>2, <1>3, FdSame DEF IInv, reconnectStart
<1> QED BY <1>2, <1>5, <1>6 DEF IInv, Calm

-----------------------------------------------------------------------------
(***************************************************************************)
(* The main thread and the outside, which never touch the lock.            *)
(***************************************************************************)
Additions == \A u \in Tasks : Keeps(task'[u], task[u]) \/ (task[u].kind = "none" /\ Harmless(task'[u]))

LEMMA MainFrame ==
  ASSUME LockInv, engineLock' = engineLock, Additions
  PROVE  LockInv' /\ NoNew
<1>1. NoTask \notin Tasks
  BY DEF NoTask, Tasks
<1>2. Others(NoTask)
  BY FreeIsHarmless DEF Others, Additions, Harmless
<1> QED BY <1>1, <1>2, LockStays, OthersNoNew

LEMMA ExtendsAdds ==
  ASSUME NEW k \in {"start", "die", "destroy"}, NEW i \in Instances, Extends(task', task, k, i)
  PROVE  Additions
BY FreshIsHarmless DEF Extends, Additions

LEMMA SwitchAdds ==
  ASSUME TypeOK, NEW k \in {"switch", "reconnect"}, NEW i \in Instances, FreeSlots(task) # {},
         task' = Launch(svc, task, i, Coroutines(k, i, FALSE))
  PROVE  task' \in Coros /\ Additions
<1> DEFINE c == Coroutines(k, i, FALSE)
<1>1. c \in Coroutine /\ c.kind = k /\ c.pc = "begin" /\ c.inst = i
  BY SwitchType
<1>2. task' = Launch(svc, task, i, c) /\ svc \in Services /\ task \in Coros
  BY TypeSplit
<1> HIDE DEF c
<1>3. Harmless(c)
  BY <1>1 DEF Harmless, WellFormed, InSection, SwitchPc
<1>4. /\ Launch(svc, task, i, c) \in Coros
      /\ \A u \in Tasks : \/ Launch(svc, task, i, c)[u] = task[u]
                          \/ task[u].kind = "none" /\ Launch(svc, task, i, c)[u] = c
  BY ONLY <1>1, <1>2, LaunchType, FreeSlots(task) # {}, i \in Instances
<1> QED BY <1>2, <1>3, <1>4 DEF Additions, Keeps

(***************************************************************************)
(* A step that moves no descriptor at all.                                 *)
(***************************************************************************)
LEMMA QuietStep ==
  ASSUME IInv, UNCHANGED <<coreVars, proxyVars, engineLock>>, PlainType',
         svc' \in Services, KeepsFds(svc', svc), task' \in Coros, Additions
  PROVE  IInv'
<1>1. LockInv' /\ NoNew /\ Shrinks /\ TypeOK'
  BY MainFrame, KeepsShrinks, TypeSplitNext DEF IInv
<1>2. Calm => FdInv'
  BY <1>1, FdSame DEF IInv, proxyVars
<1> QED BY <1>1, <1>2 DEF IInv, Calm

LEMMA DieAdds ==
  ASSUME TypeOK, NEW i \in Instances, NEW e \in BOOLEAN, die(svc, task, i, e)
  PROVE  svc' \in Services /\ KeepsFds(svc', svc) /\ task' \in Coros /\ Additions
<1>1. svc \in Services /\ task \in Coros
  BY TypeSplit
<1>2. svc' \in Services /\ task' \in Coros /\ KeepsFds(svc', svc) /\ Extends(task', task, "die", i)
  BY <1>1, DieFrame
<1> QED BY <1>2, ExtendsAdds

LEMMA StartAdds ==
  ASSUME TypeOK, NEW i \in Instances, startTunnel(svc, task, i)
  PROVE  svc' \in Services /\ KeepsFds(svc', svc) /\ task' \in Coros /\ Additions
<1>1. svc \in Services /\ task \in Coros
  BY TypeSplit
<1>2. svc' \in Services /\ task' \in Coros /\ KeepsFds(svc', svc) /\ Extends(task', task, "start", i)
  BY <1>1, StartFrame
<1> QED BY <1>2, ExtendsAdds

LEMMA NoneAdds ==
  ASSUME TypeOK, UNCHANGED task PROVE task' \in Coros /\ Additions
BY TypeSplit DEF Additions, Keeps

LEMMA NoneKeeps ==
  ASSUME TypeOK, UNCHANGED svc PROVE svc' \in Services /\ KeepsFds(svc', svc)
BY TypeSplit DEF KeepsFds

LEMMA onStartStep == ASSUME IInv, NEW i \in Instances, onStart(i) PROVE IInv'
<1>0. TypeOK /\ UNCHANGED <<coreVars, proxyVars, engineLock>>
  BY DEF IInv, onStart, Intent
<1>1. PlainType'
  BY <1>0 DEF onStart, Intent, TypeOK, PlainType, CoreTypeOK, coreVars, proxyVars, reportVars
<1>2. svc' \in Services /\ KeepsFds(svc', svc) /\ task' \in Coros /\ Additions
  BY <1>0, StartAdds, NoneAdds, NoneKeeps DEF onStart
<1> QED BY <1>0, <1>1, <1>2, QuietStep

LEMMA onEmptyStartStep == ASSUME IInv, NEW i \in Instances, onEmptyStart(i) PROVE IInv'
<1>0. TypeOK /\ UNCHANGED <<coreVars, proxyVars, engineLock>>
  BY DEF IInv, onEmptyStart, Intent
<1>1. PlainType'
  BY <1>0 DEF onEmptyStart, Intent, TypeOK, PlainType, CoreTypeOK, coreVars, proxyVars, reportVars
<1>2. svc' \in Services /\ KeepsFds(svc', svc) /\ task' \in Coros /\ Additions
  BY <1>0, DieAdds, NoneAdds, NoneKeeps DEF onEmptyStart
<1> QED BY <1>0, <1>1, <1>2, QuietStep

LEMMA onWarmStep == ASSUME IInv, NEW i \in Instances, onWarm(i) PROVE IInv'
<1>0. TypeOK /\ UNCHANGED <<coreVars, proxyVars, engineLock>>
  BY DEF IInv, onWarm, Intent
<1>1. PlainType'
  <2>1. announced' \in Reports /\ unseen' \in BOOLEAN /\ shown' \in Reports \cup {"CONNECTING"}
    <3>1. Broadcast("CONNECTED") \/ Silent
      BY DEF onWarm
    <3> QED BY <1>0, <3>1 DEF Broadcast, Silent, Reports, TypeOK, reportVars
  <2> QED BY <1>0, <2>1 DEF onWarm, Intent, TypeOK, PlainType, CoreTypeOK, coreVars, proxyVars
<1>2. svc' \in Services /\ KeepsFds(svc', svc) /\ task' \in Coros /\ Additions
  BY <1>0, NoneAdds, NoneKeeps DEF onWarm
<1> QED BY <1>0, <1>1, <1>2, QuietStep

LEMMA onReconnectStep == ASSUME IInv, NEW i \in Instances, onReconnect(i) PROVE IInv'
<1>0. TypeOK /\ UNCHANGED <<coreVars, proxyVars, engineLock>>
  BY DEF IInv, onReconnect, Intent
<1>1. PlainType'
  BY <1>0 DEF onReconnect, Intent, TypeOK, PlainType, CoreTypeOK, coreVars, proxyVars, reportVars
<1>2. svc' \in Services /\ KeepsFds(svc', svc) /\ task' \in Coros /\ Additions
  BY <1>0, SwitchAdds, NoneKeeps DEF onReconnect
<1> QED BY <1>0, <1>1, <1>2, QuietStep

LEMMA onRevokeStep == ASSUME IInv, NEW i \in Instances, onRevoke(i) PROVE IInv'
<1> DEFINE x == [svc[i] EXCEPT !.status = "doomed"]
<1>0. TypeOK /\ UNCHANGED <<coreVars, proxyVars, engineLock>> /\ svc \in Services
  BY TypeSplit DEF IInv, onRevoke
<1>1. PlainType'
  BY <1>0 DEF onRevoke, TypeOK, PlainType, CoreTypeOK, coreVars, proxyVars, reportVars
<1>2. svc' = [svc EXCEPT ![i] = x] /\ svc[i] \in Fields
  BY <1>0 DEF onRevoke, Services
<1>3. x \in Fields /\ x.tunFd = svc[i].tunFd /\ x.blockFd = svc[i].blockFd
  BY <1>2 DEF Fields
<1> HIDE DEF x
<1>4. svc' \in Services /\ KeepsFds(svc', svc)
  BY <1>0, <1>2, <1>3 DEF Services, KeepsFds
<1>5. task' \in Coros /\ Additions
  BY <1>0, NoneAdds DEF onRevoke
<1> QED BY <1>0, <1>1, <1>4, <1>5, QuietStep

LEMMA engineLostStep == ASSUME IInv, NEW i \in Instances, engineLost(i) PROVE IInv'
<1>0. TypeOK /\ UNCHANGED <<coreVars, proxyVars, engineLock>>
  BY DEF IInv, engineLost
<1>1. PlainType'
  BY <1>0 DEF engineLost, TypeOK, PlainType, CoreTypeOK, coreVars, proxyVars, inputVars, reportVars
<1>2. svc' \in Services /\ KeepsFds(svc', svc) /\ task' \in Coros /\ Additions
  BY <1>0, DieAdds DEF engineLost
<1> QED BY <1>0, <1>1, <1>2, QuietStep

LEMMA networkChangedStep == ASSUME IInv, NEW i \in Instances, networkChanged(i) PROVE IInv'
<1>0. TypeOK /\ UNCHANGED <<coreVars, proxyVars, engineLock>>
  BY DEF IInv, networkChanged
<1>1. PlainType'
  BY <1>0 DEF networkChanged, TypeOK, PlainType, CoreTypeOK, coreVars, proxyVars, reportVars
<1>2. svc' \in Services /\ KeepsFds(svc', svc) /\ task' \in Coros /\ Additions
  BY <1>0, SwitchAdds, NoneKeeps DEF networkChanged
<1> QED BY <1>0, <1>1, <1>2, QuietStep

LEMMA shareExpiredStep == ASSUME IInv, NEW i \in Instances, shareExpired(i) PROVE IInv'
<1> DEFINE x == [svc[i] EXCEPT !.polling = FALSE]
<1>0. TypeOK /\ UNCHANGED <<coreVars, proxyVars, engineLock>> /\ svc \in Services
  BY TypeSplit DEF IInv, shareExpired
<1>1. PlainType'
  BY <1>0 DEF shareExpired, TypeOK, PlainType, CoreTypeOK, coreVars, proxyVars, reportVars
<1>2. svc' = [svc EXCEPT ![i] = x] /\ svc[i] \in Fields
  BY <1>0 DEF shareExpired, Services
<1>3. x \in Fields /\ x.tunFd = svc[i].tunFd /\ x.blockFd = svc[i].blockFd
  BY <1>2 DEF Fields
<1> HIDE DEF x
<1>4. svc' \in Services /\ KeepsFds(svc', svc)
  BY <1>0, <1>2, <1>3 DEF Services, KeepsFds
<1>5. task' \in Coros /\ Additions
  BY <1>0, SwitchAdds DEF shareExpired
<1> QED BY <1>0, <1>1, <1>4, <1>5, QuietStep

LEMMA followStep == ASSUME IInv, follow PROVE IInv'
<1>0. TypeOK /\ UNCHANGED <<coreVars, proxyVars, engineLock>>
  BY DEF IInv, follow
<1>1. PlainType'
  BY <1>0 DEF follow, TypeOK, PlainType, CoreTypeOK, coreVars, proxyVars, inputVars
<1>2. svc' \in Services /\ KeepsFds(svc', svc) /\ task' \in Coros /\ Additions
  BY <1>0, NoneAdds, NoneKeeps DEF follow
<1> QED BY <1>0, <1>1, <1>2, QuietStep

LEMMA StutterStep == ASSUME IInv, UNCHANGED vars PROVE IInv'
<1>0. TypeOK /\ UNCHANGED <<coreVars, proxyVars, engineLock>>
  BY DEF IInv, vars
<1>1. PlainType'
  BY <1>0 DEF vars, TypeOK, PlainType, CoreTypeOK, coreVars, proxyVars, inputVars, reportVars
<1>2. svc' \in Services /\ KeepsFds(svc', svc) /\ task' \in Coros /\ Additions
  BY <1>0, NoneAdds, NoneKeeps DEF vars
<1> QED BY <1>0, <1>1, <1>2, QuietStep

(***************************************************************************)
(* A new instance, ACTION_STOP, and the end of an instance.                *)
(***************************************************************************)
LEMMA onCreateStep == ASSUME IInv, onCreate PROVE IInv'
<1>0. TypeOK /\ LockInv /\ svc \in Services
  BY TypeSplit DEF IInv
<1>1. PICK i \in Instances : current' = i /\ svc' = [svc EXCEPT ![i] = Created]
  BY DEF onCreate
<1>2. Created \in Fields /\ Created.tunFd = Null /\ Created.blockFd = NoFd
  BY NullType DEF Created, Fields, NoFd, NoTask
<1>3. svc' \in Services /\ Shrinks
  BY <1>0, <1>1, <1>2, NullType DEF Services, Shrinks
<1>4. task' \in Coros /\ Additions
  BY <1>0, NoneAdds DEF onCreate
<1>5. LockInv' /\ NoNew
  BY <1>0, <1>4, MainFrame DEF onCreate
<1>6. PlainType'
  BY <1>0, <1>1 DEF onCreate, TypeOK, PlainType, CoreTypeOK, coreVars, proxyVars, reportVars
<1>7. TypeOK'
  BY <1>3, <1>4, <1>6, TypeSplitNext
<1>8. Calm => FdInv'
  BY <1>0, <1>3, <1>5, FdSame DEF IInv, onCreate, proxyVars
<1> QED BY <1>5, <1>7, <1>8 DEF IInv, Calm

LEMMA onStopStep == ASSUME IInv, NEW i \in Instances, onStop(i) PROVE IInv'
<1> DEFINE x == [svc[i] EXCEPT !.blockFd = NoFd]
           S == [svc EXCEPT ![i] = x]
           X == {svc[i].blockFd}
<1>0. TypeOK /\ LockInv /\ svc \in Services /\ task \in Coros /\ engineLock' = engineLock
  BY TypeSplit DEF IInv, onStop, Intent
<1>1. svc[i] \in Fields /\ [svc EXCEPT ![i].blockFd = NoFd] = S
  BY <1>0 DEF Services
<1>2. x \in Fields /\ x.tunFd = svc[i].tunFd /\ x.blockFd = NoFd
  BY <1>1 DEF Fields, NoFd
<1> HIDE DEF x
<1>3. /\ S \in Services
      /\ \A j \in Instances : /\ S[j].tunFd = svc[j].tunFd
                              /\ S[j].blockFd = svc[j].blockFd \/ S[j].blockFd = NoFd
  BY <1>0, <1>2 DEF Services
<1>4. die(S, task, i, FALSE)
  BY <1>1 DEF onStop
<1> HIDE DEF S
<1>5. svc' \in Services /\ task' \in Coros /\ KeepsFds(svc', S) /\ Extends(task', task, "die", i)
  BY <1>0, <1>3, <1>4, DieFrame
<1>6. Shrinks
  BY <1>3, <1>5 DEF Shrinks, KeepsFds
<1>7. LockInv' /\ NoNew
  BY <1>0, <1>5, ExtendsAdds, MainFrame
<1>8. PlainType'
  BY <1>0 DEF onStop, Intent, TypeOK, PlainType, CoreTypeOK, proxyVars, reportVars
<1>9. TypeOK'
  BY <1>5, <1>8, TypeSplitNext
<1>10. ASSUME Calm PROVE FdInv'
  <2>1. FdInv /\ openFds' = openFds \ X /\ UNCHANGED <<core, coreFd>> /\ nextFd' = nextFd
    BY <1>10 DEF IInv, onStop, Intent, proxyVars
  <2>2. \A f \in X : f = svc[i].blockFd
    OBVIOUS
  <2>3. /\ core' => core /\ coreFd' # NoFd
        /\ coreFd' = NoFd \/ (coreFd' = coreFd /\ coreFd \notin X)
    BY <2>1 DEF FdInv, CoreInv, BlockInv
  <2> HIDE DEF X
  <2> QED BY <1>0, <1>6, <1>7, <2>1, <2>2, <2>3, FdClose
<1> QED BY <1>7, <1>9, <1>10 DEF IInv, Calm

LEMMA onDestroyStep == ASSUME IInv, NEW i \in Instances, onDestroy(i) PROVE IInv'
<1> DEFINE x == [svc[i] EXCEPT !.status = "destroyed", !.tearingDown = TRUE, !.enginesReady = FALSE,
                               !.polling = FALSE, !.tracking = FALSE, !.zeptunOwnsTun = FALSE]
           C == CancelStart(svc, task, i)
           c == Coroutines("destroy", i, FALSE)
<1>0. TypeOK /\ LockInv /\ svc \in Services /\ task \in Coros
  BY TypeSplit DEF IInv
<1>1. svc' = [svc EXCEPT ![i] = x] /\ svc[i] \in Fields
  BY <1>0 DEF onDestroy, Services
<1>2. x \in Fields /\ x.tunFd = svc[i].tunFd /\ x.blockFd = svc[i].blockFd
  BY <1>1 DEF Fields
<1> HIDE DEF x
<1>3. svc' \in Services /\ KeepsFds(svc', svc)
  BY <1>0, <1>1, <1>2 DEF Services, KeepsFds
<1>4. C \in Coros /\ FreeSlots(C) # {} /\ \A u \in Tasks : Keeps(C[u], task[u])
  BY <1>0, CancelStartType DEF onDestroy
<1>5. c \in Coroutine /\ Harmless(c)
  BY CoroutinesType, FreshIsHarmless
<1>6. task' = Launch(svc, C, i, c)
  BY DEF onDestroy
<1> HIDE DEF C, c
<1>7. /\ task' \in Coros
      /\ \A u \in Tasks : task'[u] = C[u] \/ (C[u].kind = "none" /\ task'[u] = c)
  BY <1>0, <1>4, <1>5, <1>6, LaunchType
<1>8. Additions
  BY <1>4, <1>5, <1>7 DEF Additions, Keeps
<1>9. LockInv' /\ NoNew /\ Shrinks
  BY <1>0, <1>3, <1>8, MainFrame, KeepsShrinks DEF onDestroy
<1>10. PlainType'
  <2>1. zeptun' \in Nat
    BY <1>0 DEF onDestroy, StopZeptun, TypeOK, NoFd
  <2> QED BY <1>0, <2>1 DEF onDestroy, TypeOK, PlainType, CoreTypeOK, coreVars, reportVars
<1>11. TypeOK'
  BY <1>3, <1>7, <1>10, TypeSplitNext
<1>12. Calm => FdInv'
  BY <1>0, <1>9, FdSame DEF IInv, onDestroy
<1> QED BY <1>9, <1>11, <1>12 DEF IInv, Calm

-----------------------------------------------------------------------------
LEMMA Initially == Init => IInv
<1> SUFFICES ASSUME Init PROVE IInv
  OBVIOUS
<1> DEFINE x == [Created EXCEPT !.status = "none"]
<1>1. x \in Fields /\ x.tunFd = Null /\ x.blockFd = NoFd
  <2>1. Created \in Fields /\ Created.tunFd = Null /\ Created.blockFd = NoFd
    BY NullType DEF Created, Fields, NoFd, NoTask
  <2> QED BY <2>1 DEF Fields
<1>2. svc = [i \in Instances |-> x]
  BY DEF Init
<1> HIDE DEF x
<1>3. svc \in Services /\ \A i \in Instances : svc[i].tunFd = Null /\ svc[i].blockFd = NoFd
  BY <1>1, <1>2 DEF Services
<1>4. Ended \in Coroutine /\ Ended.kind = "none"
  BY DEF Ended, Coroutine, NoFd, DiePc
<1>5. task \in Coros /\ \A t \in Tasks : task[t].kind = "none"
  BY <1>4 DEF Init, Coros
<1>6. PlainType
  BY DEF Init, CoreInit, PlainType, CoreTypeOK, NoFd, Reports
<1>7. TypeOK
  BY <1>3, <1>5, <1>6, TypeSplit
<1>8. LockInv
  BY <1>5 DEF Init, LockInv, WellFormed, InSection, NoTask, Tasks
<1>9. CoreInv /\ HoldInv /\ CarryInv
  BY <1>5 DEF Init, CoreInit, CoreInv, HoldInv, CarryInv, Holds, Carries
<1>10. BlockInv /\ OwnInv
  BY <1>3, NullType DEF Init, BlockInv, OwnInv, Owns, NoFd
<1> QED BY <1>7, <1>8, <1>9, <1>10 DEF IInv, FdInv

LEMMA RunSteps == ASSUME IInv, NEW t \in Tasks, Run(t) PROVE IInv'
BY lockStep, cancelledInQueueStep, establishStep, enginesStep, core_stopStep, zeptunChosenStep,
   zeptunStartStep, detachStep, xrayStartStep, xrayRetryStep, torStep, publishStep, teardownStep,
   enterKillSwitchStep, stopSelfStep, destroyTeardownStep, destroyReportStep, switchBeginStep,
   switchStopStep, switchCloseStep, switchRestartStep, reconnectStopStep, reconnectStartStep DEF Run

LEMMA MainSteps == ASSUME IInv, NEW i \in Instances, Main(i) PROVE IInv'
BY onStartStep, onEmptyStartStep, onStopStep, onWarmStep, onReconnectStep, onRevokeStep,
   onDestroyStep DEF Main

LEMMA Inductive == IInv /\ [Next]_vars => IInv'
<1> SUFFICES ASSUME IInv, [Next]_vars PROVE IInv'
  OBVIOUS
<1> QED BY RunSteps, MainSteps, onCreateStep, networkChangedStep, engineLostStep, shareExpiredStep,
           followStep, StutterStep DEF Next

(***************************************************************************)
(* The inductive invariant holds in every reachable state.                 *)
(***************************************************************************)
THEOREM Invariance == Spec => []IInv
BY Initially, Inductive, PTL DEF Spec

(***************************************************************************)
(* The service's state has its type whatever instances, coroutines and     *)
(* intents there are.                                                      *)
(***************************************************************************)
THEOREM TypeCorrect == Spec => []TypeOK
<1>1. IInv => TypeOK
  BY DEF IInv
<1> QED BY <1>1, Invariance, PTL

(***************************************************************************)
(* As long as no port is found busy, Xray never starts on and never keeps  *)
(* a tun that somebody has closed.                                         *)
(***************************************************************************)
THEOREM OpenTun == ASSUME Calm PROVE Spec => []XrayHasOpenTun
<1>1. IInv => XrayHasOpenTun
  <2> SUFFICES ASSUME FdInv PROVE XrayHasOpenTun
    BY DEF IInv
  <2>1. \A t \in Tasks : At(t, "start", "xray") => task[t].fd \in openFds
    BY DEF FdInv, HoldInv, Holds, At
  <2>2. core => coreFd \in openFds
    BY DEF FdInv, CoreInv
  <2> QED BY <2>1, <2>2 DEF XrayHasOpenTun
<1> QED BY <1>1, Invariance, PTL

=============================================================================
