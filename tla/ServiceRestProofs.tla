------------------------- MODULE ServiceRestProofs -------------------------
(***************************************************************************)
(* Proofs about GozarVpnService at rest: that a stop leaves nothing behind *)
(* and that what the service shows and reports is true, for any number of  *)
(* instances, coroutines, intents and descriptors.                         *)
(***************************************************************************)
EXTENDS GozarVpnServiceProofs

(***************************************************************************)
(* What the service does without a kill switch, without a switch of        *)
(* servers and without zeptun.                                             *)
(***************************************************************************)
Plain == /\ TRUE \notin KillSwitch
         /\ "SWITCH" \notin Events /\ "EXPIRED" \notin Events
         /\ "zeptun" \notin Modes

PlainInv == /\ \A i \in Instances : /\ ~svc[i].zeptunOwnsTun /\ svc[i].blockFd = NoFd
                                    /\ svc[i].status = "none" => ~svc[i].polling /\ ~svc[i].enginesReady
            /\ \A t \in Tasks : /\ task[t].kind # "switch"
                                /\ task[t].kind = "start" => task[t].pc # "zeptunRun"
            /\ zeptun = NoFd /\ nextFd # NoFd /\ NoFd \notin openFds

-----------------------------------------------------------------------------
(***************************************************************************)
(* The life of an instance and its coroutines.  S and T stand for values   *)
(* of svc and task, cur for one of current.                                *)
(***************************************************************************)
Has(T, k, i) == \E t \in Tasks : T[t].kind = k /\ T[t].inst = i

Alive(S, i) == S[i].status \in {"live", "doomed"}

CurrentOK(S, cur) == \A i \in Instances : Alive(S, i) <=> i = cur

(***************************************************************************)
(* A start job that is not the last one, or whose instance is gone, was    *)
(* cancelled.  While the instance lives a start job is only cancelled by   *)
(* die, whose coroutine is never cancelled, and that of onDestroy is the   *)
(* only one.                                                               *)
(***************************************************************************)
StartOK(S, T, t) ==
  T[t].kind = "start" =>
    /\ t # S[T[t].inst].startJob \/ S[T[t].inst].status = "destroyed" => T[t].cancelled
    /\ T[t].cancelled /\ S[T[t].inst].status = "live" => Has(T, "die", T[t].inst)

DieOK(S, T, t) == T[t].kind = "die" /\ T[t].cancelled => S[T[t].inst].status = "destroyed"

DestroyOK(S, T, t) ==
  T[t].kind = "destroy" =>
    /\ S[T[t].inst].status = "destroyed" /\ ~T[t].cancelled
    /\ \A u \in Tasks : T[u].kind = "destroy" /\ T[u].inst = T[t].inst => u = t

(***************************************************************************)
(* A reconnect belongs to a session that is up or being torn down, until   *)
(* its instance is gone; only then can it have been cancelled.             *)
(***************************************************************************)
NetOK(S, T, t) ==
  T[t].kind = "reconnect" =>
    /\ T[t].cancelled => S[T[t].inst].status = "destroyed"
    /\ S[T[t].inst].status = "live" => S[T[t].inst].enginesReady \/ Has(T, "die", T[t].inst)

TasksOK(S, T) == \A t \in Tasks :
  /\ T[t].kind # "none" => T[t].inst \in Instances /\ S[T[t].inst].status # "none"
  /\ StartOK(S, T, t) /\ DieOK(S, T, t) /\ DestroyOK(S, T, t) /\ NetOK(S, T, t)

(***************************************************************************)
(* An instance that is tearing down has the coroutine of die to do it, and *)
(* one that is connected has no start job, unless it is being torn down.   *)
(***************************************************************************)
JobOK(S, T, i) == S[i].startJob # NoTask => /\ S[i].startJob \in Tasks
                                            /\ T[S[i].startJob].kind = "start"
                                            /\ T[S[i].startJob].inst = i

FieldsOK(S, T) == \A i \in Instances :
  /\ JobOK(S, T, i)
  /\ Alive(S, i) => S[i].scopeActive
  /\ S[i].status = "destroyed" => S[i].tearingDown
  /\ S[i].status = "live" /\ S[i].tearingDown => Has(T, "die", i)
  /\ S[i].status = "live" /\ S[i].enginesReady => Has(T, "die", i) \/ ~Has(T, "start", i)

Struct(S, T, cur) == CurrentOK(S, cur) /\ TasksOK(S, T) /\ FieldsOK(S, T)

-----------------------------------------------------------------------------
SameFields(r, s) == /\ r.status = s.status /\ r.tearingDown = s.tearingDown
                    /\ r.enginesReady = s.enginesReady /\ r.scopeActive = s.scopeActive

SameTask(c, d) == c.kind = d.kind /\ c.inst = d.inst /\ c.cancelled = d.cancelled

(***************************************************************************)
(* Steps that move coroutines on, and steps that end one.                  *)
(***************************************************************************)
LEMMA StructSame ==
  ASSUME NEW S, NEW T, NEW R, NEW U, NEW cur, Struct(S, T, cur),
         \A i \in Instances : SameFields(R[i], S[i]) /\ R[i].startJob = S[i].startJob,
         \A t \in Tasks : SameTask(U[t], T[t])
  PROVE  Struct(R, U, cur)
<1>1. \A k, i : Has(U, k, i) <=> Has(T, k, i)
  BY DEF Has, SameTask
<1>2. CurrentOK(R, cur)
  BY DEF Struct, CurrentOK, Alive, SameFields
<1>3. TasksOK(R, U)
  <2> SUFFICES ASSUME NEW t \in Tasks
               PROVE  /\ U[t].kind # "none" => U[t].inst \in Instances /\ R[U[t].inst].status # "none"
                      /\ StartOK(R, U, t) /\ DieOK(R, U, t) /\ DestroyOK(R, U, t) /\ NetOK(R, U, t)
    BY DEF TasksOK
  <2>1. /\ SameTask(U[t], T[t])
        /\ StartOK(S, T, t) /\ DieOK(S, T, t) /\ DestroyOK(S, T, t) /\ NetOK(S, T, t)
        /\ (T[t].kind # "none" => T[t].inst \in Instances /\ S[T[t].inst].status # "none")
    BY DEF Struct, TasksOK
  <2>2. U[t].kind # "none" => U[t].inst \in Instances /\ R[U[t].inst].status # "none"
    BY <2>1 DEF SameTask, SameFields
  <2>3. StartOK(R, U, t) /\ DieOK(R, U, t)
    BY <1>1, <2>1 DEF SameTask, SameFields, StartOK, DieOK
  <2>4. DestroyOK(R, U, t)
    BY <2>1 DEF SameTask, SameFields, DestroyOK
  <2>5. NetOK(R, U, t)
    BY <1>1, <2>1 DEF SameTask, SameFields, NetOK
  <2> QED BY <2>2, <2>3, <2>4, <2>5
<1>4. FieldsOK(R, U)
  BY <1>1 DEF Struct, FieldsOK, JobOK, Alive, SameFields, SameTask, NoTask, Tasks
<1> QED BY <1>2, <1>3, <1>4 DEF Struct

Forgets(R, S, t) == \A i \in Instances :
                      /\ SameFields(R[i], S[i])
                      /\ R[i].startJob = IF S[i].startJob = t THEN NoTask ELSE S[i].startJob

Drops(U, T, t) == U[t].kind = "none" /\ \A u \in Tasks : u # t => SameTask(U[u], T[u])

LEMMA StructDrops ==
  ASSUME NEW S, NEW T, NEW R, NEW U, NEW cur, Struct(S, T, cur), NEW t \in Tasks,
         Forgets(R, S, t), Drops(U, T, t),
         T[t].kind = "die" => S[T[t].inst].status # "live"
  PROVE  Struct(R, U, cur)
<1>1. \A k, i : k # "none" /\ Has(U, k, i) => Has(T, k, i)
  BY DEF Has, SameTask, Drops
<1>2. \A i \in Instances : S[i].status = "live" /\ Has(T, "die", i) => Has(U, "die", i)
  BY DEF Has, SameTask, Drops
<1>3. CurrentOK(R, cur)
  BY DEF Struct, CurrentOK, Alive, SameFields, Forgets
<1>4. TasksOK(R, U)
  <2> SUFFICES ASSUME NEW u \in Tasks, u # t
               PROVE  /\ U[u].kind # "none" => U[u].inst \in Instances /\ R[U[u].inst].status # "none"
                      /\ StartOK(R, U, u) /\ DieOK(R, U, u) /\ DestroyOK(R, U, u) /\ NetOK(R, U, u)
    BY DEF TasksOK, Drops, StartOK, DieOK, DestroyOK, NetOK
  <2>1. /\ SameTask(U[u], T[u])
        /\ StartOK(S, T, u) /\ DieOK(S, T, u) /\ DestroyOK(S, T, u) /\ NetOK(S, T, u)
        /\ (T[u].kind # "none" => T[u].inst \in Instances /\ S[T[u].inst].status # "none")
    BY DEF Struct, TasksOK, Drops
  <2>2. U[u].kind # "none" => U[u].inst \in Instances /\ R[U[u].inst].status # "none"
    BY <2>1 DEF SameTask, SameFields, Forgets
  <2>3. StartOK(R, U, u)
    <3> SUFFICES ASSUME U[u].kind = "start" PROVE StartOK(R, U, u)
      BY DEF StartOK
    <3>1. R[U[u].inst].status = S[T[u].inst].status /\ U[u].inst \in Instances
          /\ (u # R[U[u].inst].startJob => u # S[T[u].inst].startJob)
      BY <2>1, <2>2 DEF SameTask, SameFields, Forgets
    <3> QED BY <1>2, <2>1, <3>1 DEF SameTask, StartOK
  <2>4. DieOK(R, U, u)
    BY <2>1 DEF SameTask, SameFields, DieOK, Forgets
  <2>5. DestroyOK(R, U, u)
    BY <2>1 DEF SameTask, SameFields, DestroyOK, Forgets, Drops
  <2>6. NetOK(R, U, u)
    <3> SUFFICES ASSUME U[u].kind = "reconnect" PROVE NetOK(R, U, u)
      BY DEF NetOK
    <3>1. /\ U[u].inst = T[u].inst /\ U[u].inst \in Instances /\ (U[u].cancelled <=> T[u].cancelled)
          /\ SameFields(R[U[u].inst], S[U[u].inst])
      BY <2>1, <2>2 DEF SameTask, Forgets
    <3> QED BY <1>2, <2>1, <3>1 DEF SameTask, SameFields, NetOK
  <2> QED BY <2>2, <2>3, <2>4, <2>5, <2>6
<1>5. FieldsOK(R, U)
  <2> SUFFICES ASSUME NEW i \in Instances
               PROVE  /\ JobOK(R, U, i)
                      /\ Alive(R, i) => R[i].scopeActive
                      /\ R[i].status = "destroyed" => R[i].tearingDown
                      /\ R[i].status = "live" /\ R[i].tearingDown => Has(U, "die", i)
                      /\ R[i].status = "live" /\ R[i].enginesReady =>
                           Has(U, "die", i) \/ ~Has(U, "start", i)
    BY DEF FieldsOK
  <2>1. JobOK(R, U, i)
    BY DEF Struct, FieldsOK, JobOK, Forgets, Drops, SameTask
  <2> QED BY <1>1, <1>2, <2>1 DEF Struct, FieldsOK, Alive, SameFields, Forgets
<1> QED BY <1>3, <1>4, <1>5 DEF Struct

-----------------------------------------------------------------------------
(***************************************************************************)
(* What die does to an instance that still has its scope: nothing, if it   *)
(* is tearing down, or it marks it, cancels its start job and adds the     *)
(* coroutine.                                                              *)
(***************************************************************************)
SameRest(r, s) == /\ r.tunFd = s.tunFd /\ r.blockFd = s.blockFd
                  /\ r.zeptunOwnsTun = s.zeptunOwnsTun /\ r.polling = s.polling

SamePlace(c, d) == c.kind = d.kind /\ c.inst = d.inst /\ c.pc = d.pc /\ c.fd = d.fd

Condemns(R, S, i) == \A j \in Instances :
  /\ SameRest(R[j], S[j]) /\ R[j].startJob = S[j].startJob /\ R[j].proxyOnly = S[j].proxyOnly
  /\ R[j].status = S[j].status /\ R[j].scopeActive = S[j].scopeActive
  /\ j # i => SameFields(R[j], S[j])
  /\ j = i => R[j].tearingDown /\ ~R[j].enginesReady

IsNew(c, k, i) == c.kind = k /\ c.inst = i /\ c.pc = "queued" /\ c.fd = NoFd /\ ~c.cancelled

Cancels(U, T, s, j) == \A u \in Tasks : u # s =>
                         SamePlace(U[u], T[u]) /\ (U[u].cancelled <=> T[u].cancelled \/ u = j)

LEMMA NewCoroutine ==
  ASSUME NEW k \in {"start", "die", "destroy"}, NEW i \in Instances, NEW e \in BOOLEAN
  PROVE  Coroutines(k, i, e) \in Coroutine /\ IsNew(Coroutines(k, i, e), k, i)
<1> DEFINE c == [Ended EXCEPT !.kind = k, !.inst = i, !.error = e, !.pc = "queued"]
<1>1. Coroutines(k, i, e) = c
  BY DEF Coroutines
<1>2. IsNew(c, k, i)
  BY DEF Ended, IsNew, NoFd
<1> QED BY <1>1, <1>2, CoroutinesType

LEMMA CancelStartEffect ==
  ASSUME NEW S \in Services, NEW T \in Coros, NEW i \in Instances
  PROVE  \A u \in Tasks : /\ SamePlace(CancelStart(S, T, i)[u], T[u])
                          /\ CancelStart(S, T, i)[u].cancelled <=> T[u].cancelled \/ u = S[i].startJob
BY DEF CancelStart, Coros, Coroutine, SamePlace

LEMMA LaunchEffect ==
  ASSUME NEW S \in Services, NEW T \in Coros, NEW i \in Instances, S[i].scopeActive,
         FreeSlots(T) # {}, NEW c \in Coroutine
  PROVE  /\ Slot(T) \in Tasks /\ T[Slot(T)].kind = "none"
         /\ Launch(S, T, i, c)[Slot(T)] = c
         /\ \A u \in Tasks : u # Slot(T) => Launch(S, T, i, c)[u] = T[u]
<1>1. Slot(T) \in Tasks /\ T[Slot(T)].kind = "none"
  BY SlotIsFree DEF FreeSlots
<1> QED BY <1>1 DEF Launch, Coros

LEMMA DieEffect ==
  ASSUME NEW S \in Services, NEW T \in Coros, NEW i \in Instances, NEW e \in BOOLEAN,
         S[i].scopeActive, ~S[i].tearingDown, die(S, T, i, e)
  PROVE  /\ Condemns(svc', S, i)
         /\ \E s \in Tasks : /\ T[s].kind = "none" /\ IsNew(task'[s], "die", i)
                             /\ Cancels(task', T, s, S[i].startJob)
<1> DEFINE C == CancelStart(S, T, i)
           c == Coroutines("die", i, e)
           x == [S[i] EXCEPT !.tearingDown = TRUE, !.enginesReady = FALSE, !.tracking = FALSE]
<1>1. /\ FreeSlots(T) # {} /\ task' = Launch(S, C, i, c)
      /\ svc' = [S EXCEPT ![i] = x]
  BY DEF die, Services
<1>2. /\ SameRest(x, S[i]) /\ x.startJob = S[i].startJob /\ x.proxyOnly = S[i].proxyOnly
      /\ x.status = S[i].status /\ x.scopeActive = S[i].scopeActive
      /\ x.tearingDown /\ ~x.enginesReady
  BY DEF Services, Fields, SameRest
<1> HIDE DEF x
<1>3. Condemns(svc', S, i)
  BY <1>1, <1>2 DEF Condemns, Services, SameRest, SameFields
<1>4. C \in Coros /\ FreeSlots(C) # {}
  BY <1>1, CancelStartType
<1>5. \A u \in Tasks : SamePlace(C[u], T[u]) /\ (C[u].cancelled <=> T[u].cancelled \/ u = S[i].startJob)
  BY CancelStartEffect
<1>6. c \in Coroutine /\ IsNew(c, "die", i)
  BY NewCoroutine
<1> HIDE DEF C, c
<1>7. /\ Slot(C) \in Tasks /\ C[Slot(C)].kind = "none" /\ task'[Slot(C)] = c
      /\ \A u \in Tasks : u # Slot(C) => task'[u] = C[u]
  BY <1>1, <1>4, <1>6, LaunchEffect
<1>8. T[Slot(C)].kind = "none" /\ Cancels(task', T, Slot(C), S[i].startJob)
  BY <1>5, <1>7 DEF SamePlace, Cancels
<1> QED BY <1>3, <1>6, <1>7, <1>8

LEMMA StructDie ==
  ASSUME NEW S \in Services, NEW T \in Coros, NEW i \in Instances, NEW R, NEW U, NEW cur,
         Struct(S, T, cur), S[i].status # "none", ~S[i].tearingDown,
         Condemns(R, S, i), NEW s \in Tasks, T[s].kind = "none", IsNew(U[s], "die", i),
         Cancels(U, T, s, S[i].startJob)
  PROVE  Struct(R, U, cur) /\ Has(U, "die", i)
<1>1. /\ \A k, j : Has(T, k, j) /\ k # "none" => Has(U, k, j)
      /\ \A j : Has(U, "start", j) => Has(T, "start", j)
      /\ Has(U, "die", i)
  BY DEF Has, Cancels, SamePlace, IsNew
<1>2. CurrentOK(R, cur)
  BY DEF Struct, CurrentOK, Alive, Condemns
<1>3. TasksOK(R, U)
  <2> SUFFICES ASSUME NEW t \in Tasks
               PROVE  /\ U[t].kind # "none" => U[t].inst \in Instances /\ R[U[t].inst].status # "none"
                      /\ StartOK(R, U, t) /\ DieOK(R, U, t) /\ DestroyOK(R, U, t) /\ NetOK(R, U, t)
    BY DEF TasksOK
  <2>1. CASE t = s
    BY <2>1 DEF StartOK, DieOK, DestroyOK, NetOK, IsNew, Condemns
  <2>2. CASE t # s
    <3>1. /\ SamePlace(U[t], T[t]) /\ (U[t].cancelled <=> T[t].cancelled \/ t = S[i].startJob)
          /\ StartOK(S, T, t) /\ DieOK(S, T, t) /\ DestroyOK(S, T, t) /\ NetOK(S, T, t)
          /\ T[t].kind # "none" => T[t].inst \in Instances /\ S[T[t].inst].status # "none"
      BY <2>2 DEF Cancels, Struct, TasksOK
    <3>2. t = S[i].startJob => T[t].kind = "start" /\ T[t].inst = i
      BY DEF Struct, FieldsOK, JobOK, Tasks, NoTask
    <3>3. U[t].kind # "none" => U[t].inst \in Instances /\ R[U[t].inst].status # "none"
      BY <3>1 DEF SamePlace, Condemns
    <3>4. StartOK(R, U, t)
      BY <1>1, <3>1, <3>2, <3>3 DEF SamePlace, Condemns, StartOK
    <3>5. DieOK(R, U, t)
      BY <3>1, <3>2, <3>3 DEF SamePlace, Condemns, DieOK
    <3>6. DestroyOK(R, U, t)
      <4> SUFFICES ASSUME U[t].kind = "destroy" PROVE DestroyOK(R, U, t)
        BY DEF DestroyOK
      <4>1. R[U[t].inst].status = "destroyed" /\ ~U[t].cancelled
        BY <3>1, <3>2, <3>3 DEF SamePlace, Condemns, DestroyOK
      <4>2. ASSUME NEW u \in Tasks, U[u].kind = "destroy", U[u].inst = U[t].inst PROVE u = t
        BY <3>1, <4>2 DEF DestroyOK, Cancels, SamePlace, IsNew
      <4> QED BY <4>1, <4>2 DEF DestroyOK
    <3>7. NetOK(R, U, t)
      <4> SUFFICES ASSUME U[t].kind = "reconnect" PROVE NetOK(R, U, t)
        BY DEF NetOK
      <4>1. /\ T[t].kind = "reconnect" /\ U[t].inst = T[t].inst /\ T[t].inst \in Instances
            /\ (U[t].cancelled <=> T[t].cancelled)
        BY <3>1, <3>2, <3>3 DEF SamePlace
      <4>2. CASE T[t].inst = i
        BY <1>1, <3>1, <4>1, <4>2 DEF NetOK, Condemns
      <4>3. CASE T[t].inst # i
        BY <1>1, <3>1, <4>1, <4>3 DEF NetOK, Condemns, SameFields
      <4> QED BY <4>2, <4>3
    <3> QED BY <3>3, <3>4, <3>5, <3>6, <3>7
  <2> QED BY <2>1, <2>2
<1>4. FieldsOK(R, U)
  <2> SUFFICES ASSUME NEW j \in Instances
               PROVE  /\ JobOK(R, U, j)
                      /\ Alive(R, j) => R[j].scopeActive
                      /\ R[j].status = "destroyed" => R[j].tearingDown
                      /\ R[j].status = "live" /\ R[j].tearingDown => Has(U, "die", j)
                      /\ R[j].status = "live" /\ R[j].enginesReady =>
                           Has(U, "die", j) \/ ~Has(U, "start", j)
    BY DEF FieldsOK
  <2>1. JobOK(R, U, j)
    BY DEF Struct, FieldsOK, JobOK, Condemns, Cancels, SamePlace
  <2> QED BY <1>1, <2>1 DEF Struct, FieldsOK, Alive, SameFields, Condemns
<1> QED BY <1>1, <1>2, <1>3, <1>4 DEF Struct

-----------------------------------------------------------------------------
(***************************************************************************)
(* What startTunnel does: the instance has a new start job.                *)
(***************************************************************************)
Resets(R, S, i, s) == \A j \in Instances :
  /\ SameRest(R[j], S[j]) /\ R[j].proxyOnly = S[j].proxyOnly
  /\ R[j].status = S[j].status /\ R[j].scopeActive = S[j].scopeActive
  /\ R[j].enginesReady = S[j].enginesReady
  /\ j # i => R[j].tearingDown = S[j].tearingDown /\ R[j].startJob = S[j].startJob
  /\ j = i => ~R[j].tearingDown /\ R[j].startJob = s

Adds(U, T, s) == T[s].kind = "none" /\ \A u \in Tasks : u # s => U[u] = T[u]

LEMMA StartEffect ==
  ASSUME NEW S \in Services, NEW T \in Coros, NEW i \in Instances,
         S[i].scopeActive, S[i].tunFd = Null, startTunnel(S, T, i)
  PROVE  \E s \in Tasks : Resets(svc', S, i, s) /\ Adds(task', T, s) /\ IsNew(task'[s], "start", i)
<1> DEFINE c == Coroutines("start", i, FALSE)
           s == Slot(T)
           x == [S[i] EXCEPT !.tearingDown = FALSE, !.startJob = s]
<1>1. /\ FreeSlots(T) # {} /\ task' = Launch(S, T, i, c)
      /\ svc' = [S EXCEPT ![i] = x]
  BY DEF startTunnel, Services
<1>2. /\ SameRest(x, S[i]) /\ x.startJob = s /\ x.proxyOnly = S[i].proxyOnly
      /\ x.status = S[i].status /\ x.scopeActive = S[i].scopeActive
      /\ ~x.tearingDown /\ x.enginesReady = S[i].enginesReady
  BY DEF Services, Fields, SameRest
<1> HIDE DEF x
<1>3. Resets(svc', S, i, s)
  BY <1>1, <1>2 DEF Resets, Services, SameRest
<1>4. c \in Coroutine /\ IsNew(c, "start", i)
  BY NewCoroutine
<1> HIDE DEF c
<1>5. /\ s \in Tasks /\ T[s].kind = "none" /\ task'[s] = c
      /\ \A u \in Tasks : u # s => task'[u] = T[u]
  BY <1>1, <1>4, LaunchEffect
<1> HIDE DEF s
<1> QED BY <1>3, <1>4, <1>5 DEF Adds

LEMMA StructStart ==
  ASSUME NEW S, NEW T, NEW i \in Instances, NEW R, NEW U, NEW cur,
         Struct(S, T, cur), Alive(S, i), ~S[i].enginesReady,
         S[i].startJob = NoTask \/ T[S[i].startJob].cancelled,
         NEW s \in Tasks, Resets(R, S, i, s), Adds(U, T, s), IsNew(U[s], "start", i)
  PROVE  Struct(R, U, cur)
<1>1. /\ \A k, j : Has(T, k, j) /\ k # "none" => Has(U, k, j)
      /\ \A j : j # i /\ Has(U, "start", j) => Has(T, "start", j)
  BY DEF Has, Adds, IsNew
<1>2. CurrentOK(R, cur)
  BY DEF Struct, CurrentOK, Alive, Resets
<1>3. TasksOK(R, U)
  <2> SUFFICES ASSUME NEW t \in Tasks
               PROVE  /\ U[t].kind # "none" => U[t].inst \in Instances /\ R[U[t].inst].status # "none"
                      /\ StartOK(R, U, t) /\ DieOK(R, U, t) /\ DestroyOK(R, U, t) /\ NetOK(R, U, t)
    BY DEF TasksOK
  <2>1. CASE t = s
    BY <2>1 DEF StartOK, DieOK, DestroyOK, NetOK, IsNew, Resets, Alive
  <2>2. CASE t # s
    <3>1. /\ U[t] = T[t]
          /\ StartOK(S, T, t) /\ DieOK(S, T, t) /\ DestroyOK(S, T, t) /\ NetOK(S, T, t)
          /\ T[t].kind # "none" => T[t].inst \in Instances /\ S[T[t].inst].status # "none"
      BY <2>2 DEF Adds, Struct, TasksOK
    <3>2. U[t].kind # "none" => U[t].inst \in Instances /\ R[U[t].inst].status # "none"
      BY <3>1 DEF Resets
    <3>3. StartOK(R, U, t)
      <4> SUFFICES ASSUME U[t].kind = "start" PROVE StartOK(R, U, t)
        BY DEF StartOK
      <4>1. U[t].cancelled /\ R[U[t].inst].status = "live" => Has(U, "die", U[t].inst)
        BY <1>1, <3>1, <3>2 DEF Resets, StartOK
      <4>2. t # R[U[t].inst].startJob \/ R[U[t].inst].status = "destroyed" => U[t].cancelled
        <5>1. CASE T[t].inst = i
          <6>1. t # S[i].startJob => T[t].cancelled
            BY <3>1, <5>1 DEF StartOK
          <6>2. t # NoTask
            BY DEF Tasks, NoTask
          <6> QED BY <3>1, <6>1, <6>2
        <5>2. CASE T[t].inst # i
          BY <3>1, <3>2, <5>2 DEF Resets, StartOK
        <5> QED BY <5>1, <5>2
      <4> QED BY <4>1, <4>2 DEF StartOK
    <3>4. DieOK(R, U, t)
      BY <3>1, <3>2 DEF Resets, DieOK
    <3>5. DestroyOK(R, U, t)
      BY <3>1, <3>2 DEF Resets, DestroyOK, Adds, IsNew
    <3>6. NetOK(R, U, t)
      BY <1>1, <3>1, <3>2 DEF Resets, NetOK
    <3> QED BY <3>2, <3>3, <3>4, <3>5, <3>6
  <2> QED BY <2>1, <2>2
<1>4. FieldsOK(R, U)
  <2> SUFFICES ASSUME NEW j \in Instances
               PROVE  /\ JobOK(R, U, j)
                      /\ Alive(R, j) => R[j].scopeActive
                      /\ R[j].status = "destroyed" => R[j].tearingDown
                      /\ R[j].status = "live" /\ R[j].tearingDown => Has(U, "die", j)
                      /\ R[j].status = "live" /\ R[j].enginesReady =>
                           Has(U, "die", j) \/ ~Has(U, "start", j)
    BY DEF FieldsOK
  <2>1. JobOK(R, U, j)
    BY DEF Struct, FieldsOK, JobOK, Resets, Adds, IsNew
  <2> QED BY <1>1, <2>1 DEF Struct, FieldsOK, Alive, Resets
<1> QED BY <1>2, <1>3, <1>4 DEF Struct

-----------------------------------------------------------------------------
(***************************************************************************)
(* The coroutine in slot t goes on, or ends.                               *)
(***************************************************************************)
LEMMA GotoEffect ==
  ASSUME TypeOK, NEW t \in Tasks, NEW l \in Pcs, GotoTask(t, l)
  PROVE  /\ \A u \in Tasks : u # t => task'[u] = task[u]
         /\ task'[t].pc = l /\ task'[t].fd = task[t].fd
         /\ \A u \in Tasks : SameTask(task'[u], task[u])
<1> DEFINE c == [task[t] EXCEPT !.pc = l]
<1>1. task \in Coros
  BY DEF TypeOK, Coros
<1>2. task' = [task EXCEPT ![t] = c]
  BY <1>1 DEF GotoTask, Coros
<1>3. c.pc = l /\ c.fd = task[t].fd /\ SameTask(c, task[t])
  BY <1>1 DEF Coros, Coroutine, SameTask
<1> HIDE DEF c
<1> QED BY <1>1, <1>2, <1>3 DEF Coros, SameTask

LEMMA EndEffect ==
  ASSUME TypeOK, NEW t \in Tasks
  PROVE  /\ EndTask(t) \in Coros /\ Drops(EndTask(t), task, t)
         /\ \A u \in Tasks : u # t => EndTask(t)[u] = task[u]
BY EndTaskType DEF Drops, SameTask

LEMMA AfterJobEffect ==
  ASSUME TypeOK, Struct(svc, task, current), NEW t \in Tasks, task[t].kind # "none"
  PROVE  /\ AfterJob(t) \in Services /\ Forgets(AfterJob(t), svc, t)
         /\ \A i \in Instances : /\ SameRest(AfterJob(t)[i], svc[i])
                                 /\ AfterJob(t)[i].proxyOnly = svc[i].proxyOnly
<1> DEFINE i == task[t].inst
           x == [svc[i] EXCEPT !.startJob = NoTask]
<1>1. svc \in Services
  BY DEF TypeOK, Services
<1>2. i \in Instances /\ AfterJob(t) \in Services
  BY AfterJobType DEF Struct, TasksOK
<1>3. AfterJob(t) = IF svc[i].startJob = t THEN [svc EXCEPT ![i] = x] ELSE svc
  BY <1>1 DEF AfterJob, Services
<1>4. /\ SameRest(x, svc[i]) /\ x.startJob = NoTask /\ x.proxyOnly = svc[i].proxyOnly
      /\ SameFields(x, svc[i])
  BY <1>1, <1>2 DEF Services, Fields, SameRest, SameFields
<1> HIDE DEF x
<1>5. \A j \in Instances : svc[j].startJob = t => j = i
  BY DEF Struct, FieldsOK, JobOK, Tasks, NoTask
<1>6. CASE svc[i].startJob = t
  <2>1. AfterJob(t)[i] = x /\ \A j \in Instances : j # i => AfterJob(t)[j] = svc[j]
    BY <1>1, <1>2, <1>3, <1>6 DEF Services
  <2> QED BY <1>2, <1>4, <1>5, <1>6, <2>1 DEF Forgets, SameRest, SameFields
<1>7. CASE svc[i].startJob # t
  BY <1>2, <1>3, <1>5, <1>7 DEF Forgets, SameRest, SameFields
<1> QED BY <1>6, <1>7

-----------------------------------------------------------------------------
(***************************************************************************)
(* An instance keeps what runs if it will still stop it: a start of its    *)
(* own is under way or succeeded, it is being torn down, or its last       *)
(* teardown is still to come.                                              *)
(***************************************************************************)
Touched(S, T, i) == S[i].status = "doomed" \/ S[i].enginesReady \/ Has(T, "start", i) \/ Has(T, "die", i)

ToDestroy(c, i) == c.kind = "destroy" /\ c.inst = i /\ c.pc \in {"queued", "teardown"}

Keeper(S, T, i) == \/ Alive(S, i) /\ Touched(S, T, i)
                   \/ \E t \in Tasks : ToDestroy(T[t], i)

(***************************************************************************)
(* An instance answers for a broadcast CONNECTED: it looks connected, or   *)
(* will report the end.                                                    *)
(***************************************************************************)
Vouches(S, T, i) ==
  \/ S[i].status = "live" /\ ((S[i].enginesReady /\ ~S[i].tearingDown) \/ Has(T, "die", i))
  \/ S[i].status = "doomed" \/ Has(T, "destroy", i)

(***************************************************************************)
(* A live instance that is not being torn down has never been.             *)
(***************************************************************************)
Well(S, T, i) == S[i].status = "live" /\ ~Has(T, "die", i)

(***************************************************************************)
(* What nearly every step keeps: keepers go on, the user's stop is not     *)
(* forgotten, CONNECTED is answered for, and no instance recovers.         *)
(***************************************************************************)
KeepersStay(S, T, R, U) ==
  /\ \A i \in Instances : Keeper(S, T, i) => Keeper(R, U, i)
  /\ \A i \in Instances : S[i].status # "none" => R[i].status # "none"

StopsStay(S, T, R, U) == \A i \in Instances :
  Well(R, U, i) /\ Touched(R, U, i) => Well(S, T, i) /\ Touched(S, T, i)

VouchersStay(S, T, R, U) == \A i \in Instances : Vouches(S, T, i) => Vouches(R, U, i)

NoneRecovers(S, T, R, U) == \A i \in Instances :
  Well(R, U, i) => Well(S, T, i) /\ (R[i].enginesReady => S[i].enginesReady)

Steady(S, T, R, U) == /\ KeepersStay(S, T, R, U) /\ StopsStay(S, T, R, U)
                      /\ VouchersStay(S, T, R, U) /\ NoneRecovers(S, T, R, U)

LEMMA MostSame ==
  ASSUME NEW S, NEW T, NEW R, NEW U,
         \A i \in Instances : SameFields(R[i], S[i]), \A t \in Tasks : SameTask(U[t], T[t])
  PROVE  /\ StopsStay(S, T, R, U) /\ VouchersStay(S, T, R, U) /\ NoneRecovers(S, T, R, U)
         /\ \A i \in Instances : Alive(S, i) /\ Touched(S, T, i) => Alive(R, i) /\ Touched(R, U, i)
<1>1. \A k, i : Has(U, k, i) <=> Has(T, k, i)
  BY DEF Has, SameTask
<1>2. \A i \in Instances : /\ Touched(R, U, i) <=> Touched(S, T, i)
                           /\ Alive(R, i) <=> Alive(S, i)
                           /\ Well(R, U, i) <=> Well(S, T, i)
                           /\ Vouches(R, U, i) <=> Vouches(S, T, i)
                           /\ R[i].enginesReady <=> S[i].enginesReady
  BY <1>1 DEF Touched, Alive, Well, Vouches, SameFields
<1> QED BY <1>2 DEF StopsStay, VouchersStay, NoneRecovers

LEMMA SteadySame ==
  ASSUME NEW S, NEW T, NEW R, NEW U,
         \A i \in Instances : SameFields(R[i], S[i]),
         \A t \in Tasks : /\ SameTask(U[t], T[t])
                          /\ \A i \in Instances : ToDestroy(T[t], i) => ToDestroy(U[t], i)
  PROVE  Steady(S, T, R, U)
<1>1. /\ StopsStay(S, T, R, U) /\ VouchersStay(S, T, R, U) /\ NoneRecovers(S, T, R, U)
      /\ \A i \in Instances : Alive(S, i) /\ Touched(S, T, i) => Alive(R, i) /\ Touched(R, U, i)
  BY MostSame
<1> QED BY <1>1 DEF Steady, KeepersStay, Keeper, SameFields

LEMMA SteadyTrans ==
  ASSUME NEW S, NEW T, NEW Q, NEW V, NEW R, NEW U, Steady(S, T, Q, V), Steady(Q, V, R, U)
  PROVE  Steady(S, T, R, U)
BY DEF Steady, KeepersStay, StopsStay, VouchersStay, NoneRecovers

(***************************************************************************)
(* A coroutine ends: a start, a reconnect, or a die whose instance is      *)
(* gone.                                                                   *)
(***************************************************************************)
LEMMA MostDrops ==
  ASSUME NEW S, NEW T, NEW R, NEW U, NEW t \in Tasks,
         Forgets(R, S, t), \A u \in Tasks : u # t => U[u] = T[u], U[t].kind = "none",
         T[t].kind \in {"start", "reconnect"} \/ (T[t].kind = "die" /\ S[T[t].inst].status # "live")
  PROVE  StopsStay(S, T, R, U) /\ VouchersStay(S, T, R, U) /\ NoneRecovers(S, T, R, U)
<1>1. /\ \A k, i : k # "none" /\ Has(U, k, i) => Has(T, k, i)
      /\ \A i \in Instances : S[i].status = "live" /\ Has(T, "die", i) => Has(U, "die", i)
      /\ \A i \in Instances : Has(T, "destroy", i) => Has(U, "destroy", i)
  BY DEF Has
<1>3. \A i \in Instances : R[i].status = S[i].status /\ R[i].enginesReady = S[i].enginesReady
                           /\ R[i].tearingDown = S[i].tearingDown
  BY DEF Forgets, SameFields
<1>5. VouchersStay(S, T, R, U)
  BY <1>1, <1>3 DEF VouchersStay, Vouches
<1>6. StopsStay(S, T, R, U) /\ NoneRecovers(S, T, R, U)
  BY <1>1, <1>3 DEF StopsStay, NoneRecovers, Well, Touched
<1> QED BY <1>5, <1>6

(***************************************************************************)
(* Instances other than that of a start that ends keep what they have;     *)
(* that one keeps it too if the start was cancelled.                       *)
(***************************************************************************)
LEMMA OthersKeep ==
  ASSUME NEW S, NEW T, NEW R, NEW U, NEW t \in Tasks,
         Forgets(R, S, t), \A u \in Tasks : u # t => U[u] = T[u], U[t].kind = "none",
         T[t].kind \in {"start", "reconnect"} \/ (T[t].kind = "die" /\ S[T[t].inst].status # "live"),
         NEW i \in Instances, Keeper(S, T, i),
         i # T[t].inst \/ T[t].kind # "start" \/ S[i].status # "live" \/ Has(T, "die", i)
  PROVE  Keeper(R, U, i)
<1>1. /\ i # T[t].inst /\ Has(T, "start", i) => Has(U, "start", i)
      /\ S[i].status = "live" /\ Has(T, "die", i) => Has(U, "die", i)
      /\ (\E u \in Tasks : ToDestroy(T[u], i)) => \E u \in Tasks : ToDestroy(U[u], i)
  BY DEF Has, ToDestroy
<1>2. T[t].kind # "start" /\ Has(T, "start", i) => Has(U, "start", i)
  BY DEF Has
<1>3. R[i].status = S[i].status /\ R[i].enginesReady = S[i].enginesReady
  BY DEF Forgets, SameFields
<1> QED BY <1>1, <1>2, <1>3 DEF Keeper, Alive, Touched

LEMMA SteadyDrops ==
  ASSUME NEW S, NEW T, NEW R, NEW U, NEW cur, Struct(S, T, cur), NEW t \in Tasks,
         Forgets(R, S, t), \A u \in Tasks : u # t => U[u] = T[u], U[t].kind = "none",
         T[t].kind \in {"start", "reconnect"} \/ (T[t].kind = "die" /\ S[T[t].inst].status # "live"),
         T[t].kind = "start" => T[t].cancelled
  PROVE  Steady(S, T, R, U)
<1>1. ASSUME NEW i \in Instances, Keeper(S, T, i) PROVE Keeper(R, U, i)
  <2>1. i # T[t].inst \/ T[t].kind # "start" \/ S[i].status # "live" \/ Has(T, "die", i)
    BY DEF Struct, TasksOK, StartOK
  <2> QED BY <1>1, <2>1, OthersKeep
<1> QED BY <1>1, MostDrops DEF Steady, KeepersStay, Forgets, SameFields

LEMMA SteadyDie ==
  ASSUME NEW S, NEW T, NEW i \in Instances, NEW R, NEW U,
         Condemns(R, S, i), NEW s \in Tasks, T[s].kind = "none", IsNew(U[s], "die", i),
         Cancels(U, T, s, S[i].startJob)
  PROVE  Steady(S, T, R, U)
<1>1. /\ \A k, j : Has(T, k, j) /\ k # "none" => Has(U, k, j)
      /\ \A j : Has(U, "start", j) => Has(T, "start", j)
      /\ \A j : j # i /\ Has(U, "die", j) => Has(T, "die", j)
      /\ \A j \in Instances : (\E u \in Tasks : ToDestroy(T[u], j)) => \E u \in Tasks : ToDestroy(U[u], j)
      /\ Has(U, "die", i)
  BY DEF Has, Cancels, SamePlace, IsNew, ToDestroy
<1>2. \A j \in Instances : /\ R[j].status = S[j].status
                           /\ j # i => R[j].enginesReady = S[j].enginesReady /\ R[j].tearingDown = S[j].tearingDown
  BY DEF Condemns, SameFields
<1>3. KeepersStay(S, T, R, U)
  BY <1>1, <1>2 DEF KeepersStay, Keeper, Alive, Touched
<1>4. VouchersStay(S, T, R, U)
  BY <1>1, <1>2 DEF VouchersStay, Vouches
<1>5. StopsStay(S, T, R, U) /\ NoneRecovers(S, T, R, U)
  BY <1>1, <1>2 DEF StopsStay, NoneRecovers, Well, Touched
<1> QED BY <1>3, <1>4, <1>5 DEF Steady

-----------------------------------------------------------------------------
(***************************************************************************)
(* What runs or is open is kept by an instance that will stop it, except   *)
(* sing-box once it was restarted for an instance that is gone.            *)
(***************************************************************************)
Kept(i) == Keeper(svc, task, i)

SomeKeeper == \E i \in Instances : Kept(i)

KeptInv ==
  /\ \A i \in Instances : /\ Owns(i) \/ (side = i /\ ~orphaned) => Kept(i)
                          /\ side = i => svc[i].status # "none"
  /\ \A t \in Tasks : task[t].kind = "start" /\ task[t].pc # "queued" => Kept(task[t].inst)
  /\ core \/ coreFd # NoFd => SomeKeeper

(***************************************************************************)
(* No tun is forgotten: the start job that sets up a tun finds none, and   *)
(* every open descriptor is that of Xray, or of an instance, or that of a  *)
(* start job about to start Xray.                                          *)
(***************************************************************************)
Early(c) == c.kind = "start" /\ c.pc \in {"queued", "establish"}

NoTunYet == \A t \in Tasks : Early(task[t]) /\ ~task[t].cancelled => ~Owns(task[t].inst)

Held(f) == \/ f = coreFd
           \/ \E i \in Instances : Owns(i) /\ svc[i].tunFd.fd = f
           \/ \E t \in Tasks : Holds(task[t]) /\ task[t].fd = f

TunInv == NoTunYet /\ CarryInv /\ \A f \in openFds : Held(f)

(***************************************************************************)
(* A stop is remembered by the coroutine of die, and a report of a session *)
(* by whoever will report its end.                                         *)
(***************************************************************************)
StopInv == command = "STOP" => \A i \in Instances : ~(Well(svc, task, i) /\ Touched(svc, task, i))

VouchInv == announced = "CONNECTED" => \E i \in Instances : Vouches(svc, task, i)

StructInv == Struct(svc, task, current)

RestInv == StructInv /\ PlainInv /\ KeptInv /\ TunInv /\ StopInv /\ VouchInv

(***************************************************************************)
(* A live instance that is not being torn down has, once it has started    *)
(* its engines, an engine, or sing-box is being restarted for it, and once *)
(* it looks connected it has said so.                                      *)
(* This needs that no coroutine of an earlier instance is under way: it    *)
(* would stop the engines, or report its end.                              *)
(***************************************************************************)
Serial == current # 0 => \A t \in Tasks : task[t].kind # "none" => task[t].inst = current

Engine(i) == core \/ side = i \/ Has(task, "reconnect", i)

ProgressOK(t, i) ==
  task[t].kind = "start" /\ task[t].inst = i =>
    /\ task[t].pc = "engines" /\ task[t].fd = NoFd => svc[i].proxyOnly
    /\ task[t].pc = "core" /\ task[t].fd = NoFd => side = i
    /\ task[t].pc \in {"tor", "publish"} => core \/ side = i

Real(i) == /\ svc[i].enginesReady => Engine(i) /\ announced = "CONNECTED"
           /\ \A t \in Tasks : ProgressOK(t, i)

RealInv == \A i \in Instances : Well(svc, task, i) => Real(i)

(***************************************************************************)
(* A step keeps the invariants.                                            *)
(***************************************************************************)
Good == RestInv' /\ (Serial /\ RealInv => RealInv')

Steadily == Steady(svc, task, svc', task')

LEMMA KeptStays ==
  ASSUME KeptInv, KeepersStay(svc, task, svc', task'),
         \A i \in Instances : Owns(i)' => Owns(i) \/ Kept(i),
         orphaned => orphaned',
         \A i \in Instances : side' = i => side = i \/ (svc[i].status # "none" /\ (Kept(i) \/ orphaned')),
         \A t \in Tasks : task'[t].kind = "start" /\ task'[t].pc # "queued" =>
           \/ task'[t].inst \in Instances /\ Kept(task'[t].inst)
           \/ /\ task[t].kind = "start" /\ task[t].pc # "queued" /\ task'[t].inst = task[t].inst
              /\ task[t].inst \in Instances,
         core' \/ coreFd' # NoFd => core \/ coreFd # NoFd \/ SomeKeeper
  PROVE  KeptInv'
<1>1. \A i \in Instances : Kept(i) => Kept(i)'
  BY DEF KeepersStay, Kept
<1>2. SomeKeeper => SomeKeeper'
  BY <1>1 DEF SomeKeeper
<1>3. ASSUME NEW i \in Instances
      PROVE  /\ Owns(i)' \/ (side' = i /\ ~orphaned') => Kept(i)'
             /\ side' = i => svc'[i].status # "none"
  BY <1>1 DEF KeptInv, KeepersStay
<1>4. ASSUME NEW t \in Tasks, task'[t].kind = "start", task'[t].pc # "queued" PROVE Kept(task[t].inst)'
  BY <1>1, <1>4 DEF KeptInv
<1>5. core' \/ coreFd' # NoFd => SomeKeeper'
  BY <1>2 DEF KeptInv
<1> QED BY <1>3, <1>4, <1>5 DEF KeptInv

(***************************************************************************)
(* Steps that give no descriptor to an instance or a start job.            *)
(***************************************************************************)
GoesOn(c, d) == /\ d.kind = "start" /\ c.inst = d.inst /\ c.fd = d.fd
                /\ d.cancelled => c.cancelled
                /\ Early(c) => Early(d)
                /\ Carries(c) => Carries(d)

LEMMA TunStays ==
  ASSUME StructInv, TunInv, \A i \in Instances : svc'[i].tunFd = svc[i].tunFd,
         \A u \in Tasks : task'[u].kind = "start" =>
           \/ /\ task'[u].inst \in Instances /\ ~Owns(task'[u].inst)
              /\ IsNew(task'[u], "start", task'[u].inst)
           \/ GoesOn(task'[u], task[u]),
         \A u \in Tasks : Holds(task[u]) => \/ Holds(task'[u]) /\ task'[u].fd = task[u].fd
                                            \/ task[u].fd \notin openFds'
                                            \/ task[u].fd = coreFd',
         \A f \in openFds' : f \in openFds /\ (f = coreFd => f = coreFd')
  PROVE  TunInv'
<1>1. \A i \in Instances : Owns(i)' <=> Owns(i)
  BY DEF Owns
<1>2. \A u \in Tasks : task[u].kind = "start" => task[u].inst \in Instances
  BY DEF StructInv, Struct, TasksOK
<1>3. NoTunYet'
  BY <1>1, <1>2 DEF TunInv, NoTunYet, GoesOn, Early, Owns
<1>4. CarryInv'
  BY <1>1, <1>2 DEF TunInv, CarryInv, GoesOn, Carries, IsNew, Owns
<1>5. ASSUME NEW f \in openFds' PROVE Held(f)'
  <2>1. f \in openFds /\ (f = coreFd => f = coreFd') /\ Held(f)
    BY <1>5 DEF TunInv
  <2>2. CASE f = coreFd
    BY <2>1, <2>2 DEF Held
  <2>3. ASSUME NEW i \in Instances, Owns(i), svc[i].tunFd.fd = f PROVE Held(f)'
    BY <2>3, <1>1 DEF Held
  <2>4. ASSUME NEW t \in Tasks, Holds(task[t]), task[t].fd = f PROVE Held(f)'
    BY <2>4, <1>5 DEF Held
  <2> QED BY <2>1, <2>2, <2>3, <2>4 DEF Held
<1> QED BY <1>3, <1>4, <1>5 DEF TunInv

LEMMA StopStays ==
  ASSUME StopInv, StopsStay(svc, task, svc', task'), command' = "STOP" => command = "STOP"
  PROVE  StopInv'
BY DEF StopInv, StopsStay

LEMMA VouchStays ==
  ASSUME VouchInv, VouchersStay(svc, task, svc', task'),
         announced' = "CONNECTED" => announced = "CONNECTED" \/ \E i \in Instances : Vouches(svc, task, i)
  PROVE  VouchInv'
BY DEF VouchInv, VouchersStay

(***************************************************************************)
(* When the coroutines of one instance are all there are, a step of one    *)
(* leaves no instance well if not its own.                                 *)
(***************************************************************************)
LEMMA OnlyOne ==
  ASSUME StructInv, Serial, NEW t \in Tasks, task[t].kind # "none",
         NEW i \in Instances, Well(svc, task, i)
  PROVE  task[t].inst = i
<1>1. i = current
  BY DEF StructInv, Struct, CurrentOK, Alive, Well
<1>2. current # 0
  BY <1>1 DEF Instances
<1> QED BY <1>1, <1>2 DEF Serial

LEMMA RealVoid ==
  ASSUME StructInv, Serial, NEW t \in Tasks, task[t].kind # "none",
         NoneRecovers(svc, task, svc', task'), ~Well(svc', task', task[t].inst)
  PROVE  RealInv'
<1>1. \A i \in Instances : ~Well(svc', task', i)
  BY OnlyOne DEF NoneRecovers
<1> QED BY <1>1 DEF RealInv

(***************************************************************************)
(* Steps that leave engines, reports and start jobs alone.                 *)
(***************************************************************************)
LEMMA RealStays ==
  ASSUME RealInv, NoneRecovers(svc, task, svc', task'),
         UNCHANGED <<core, side>>, announced = "CONNECTED" => announced' = "CONNECTED",
         \A i \in Instances : svc'[i].proxyOnly = svc[i].proxyOnly,
         \A u \in Tasks : /\ task'[u].kind = "start" => \/ task'[u].pc \in {"queued", "establish"}
                                                         \/ SamePlace(task'[u], task[u])
                          /\ task[u].kind = "reconnect" => /\ task'[u].kind = "reconnect"
                                                           /\ task'[u].inst = task[u].inst
  PROVE  RealInv'
<1> SUFFICES ASSUME NEW i \in Instances, Well(svc', task', i) PROVE Real(i)'
  BY DEF RealInv
<1>1. Real(i) /\ (svc'[i].enginesReady => svc[i].enginesReady)
  BY DEF RealInv, NoneRecovers
<1>2. Engine(i) => Engine(i)'
  BY DEF Engine, Has
<1>3. ASSUME NEW t \in Tasks PROVE ProgressOK(t, i)'
  BY <1>1 DEF Real, ProgressOK, SamePlace
<1> QED BY <1>1, <1>2, <1>3 DEF Real

-----------------------------------------------------------------------------
(***************************************************************************)
(* A start job ends without success: it was cancelled, or it failed and    *)
(* die is called, which leaves its instance to be torn down.               *)
(***************************************************************************)
Survive(t) == \A u \in Tasks :
  /\ task'[u].kind # "switch"
  /\ task'[u].kind = "start" => /\ u # t /\ SamePlace(task'[u], task[u])
                                /\ task[u].cancelled => task'[u].cancelled
  /\ u # t /\ task[u].kind = "start" => SamePlace(task'[u], task[u])

Exits(t) == /\ StructInv' /\ Steadily /\ Survive(t)
            /\ \A i \in Instances : /\ SameRest(svc'[i], svc[i]) /\ svc'[i].status = svc[i].status
                                    /\ svc'[i].enginesReady => svc[i].enginesReady
            /\ ~Well(svc', task', task[t].inst)

LEMMA LeaveExits ==
  ASSUME TypeOK, StructInv, PlainInv, NEW t \in Tasks, task[t].kind = "start", task[t].cancelled,
         task' = EndTask(t), svc' = AfterJob(t), current' = current
  PROVE  Exits(t)
<1>1. /\ Drops(task', task, t)
      /\ \A u \in Tasks : u # t => task'[u] = task[u]
  BY EndEffect
<1>2. Forgets(svc', svc, t) /\ \A i \in Instances : SameRest(svc'[i], svc[i])
  BY AfterJobEffect DEF StructInv
<1>3. StructInv'
  BY <1>1, <1>2, StructDrops DEF StructInv
<1>4. Steadily
  BY <1>1, <1>2, SteadyDrops DEF StructInv, Drops, Steadily
<1>5. Survive(t)
  BY <1>1 DEF Survive, PlainInv, Drops, SamePlace
<1>6. ~Well(svc, task, task[t].inst)
  BY DEF StructInv, Struct, TasksOK, StartOK, Well
<1>7. ~Well(svc', task', task[t].inst)
  BY <1>4, <1>6 DEF Steadily, Steady, NoneRecovers, StructInv, Struct, TasksOK
<1> QED BY <1>2, <1>3, <1>4, <1>5, <1>7 DEF Exits, Forgets, SameFields

LEMMA FailExits ==
  ASSUME TypeOK, StructInv, PlainInv, NEW t \in Tasks, task[t].kind = "start", current' = current,
         NEW S \in Services, Forgets(S, svc, t), \A i \in Instances : SameRest(S[i], svc[i]),
         die(S, EndTask(t), task[t].inst, TRUE)
  PROVE  Exits(t)
<1> DEFINE T == EndTask(t)
           i == task[t].inst
<1>1. /\ T \in Coros /\ Drops(T, task, t)
      /\ \A u \in Tasks : u # t => T[u] = task[u]
  BY EndEffect
<1>2. i \in Instances /\ svc[i].status # "none"
  BY DEF StructInv, Struct, TasksOK
<1>3. die(S, T, i, TRUE)
  OBVIOUS
<1> HIDE DEF T, i
<1>4. Struct(S, T, current)
  BY <1>1, StructDrops DEF StructInv
<1>5. StopsStay(svc, task, S, T) /\ VouchersStay(svc, task, S, T) /\ NoneRecovers(svc, task, S, T)
  BY <1>1, MostDrops DEF Drops
<1>6. S[i].status = svc[i].status
  BY <1>2 DEF Forgets, SameFields
<1>7. \A u \in Tasks : /\ T[u].kind # "switch"
                       /\ T[u].kind = "start" => u # t /\ T[u] = task[u]
                       /\ u # t => T[u] = task[u]
  BY <1>1 DEF Drops, PlainInv
<1>8. ASSUME NEW j \in Instances, Keeper(svc, task, j), j # i PROVE Keeper(S, T, j)
  BY <1>1, <1>8, OthersKeep DEF Drops, i
<1>9. CASE S[i].tearingDown
  <2>1. svc' = S /\ task' = T
    BY <1>3, <1>9 DEF die
  <2>2. S[i].status = "live" => Has(T, "die", i)
    BY <1>2, <1>4, <1>9 DEF Struct, FieldsOK
  <2>3. Keeper(svc, task, i) => Keeper(S, T, i)
    <3>1. (\E u \in Tasks : ToDestroy(task[u], i)) => \E u \in Tasks : ToDestroy(T[u], i)
      BY <1>1 DEF ToDestroy
    <3> QED BY <1>6, <2>2, <3>1 DEF Keeper, Alive, Touched
  <2>4. Steadily
    BY <1>5, <1>8, <2>1, <2>3 DEF Steadily, Steady, KeepersStay, Forgets, SameFields
  <2>5. StructInv' /\ ~Well(svc', task', i)
    BY <1>4, <2>1, <2>2 DEF StructInv, Well
  <2>6. Survive(t)
    BY <1>7, <2>1 DEF Survive, SamePlace
  <2> QED BY <2>1, <2>4, <2>5, <2>6 DEF Exits, i, Forgets, SameFields
<1>10. CASE ~S[i].tearingDown
  <2>1. S[i].scopeActive
    BY <1>2, <1>4, <1>6, <1>10 DEF Struct, FieldsOK, Alive, Services, Fields
  <2>2. Condemns(svc', S, i) /\ \E s \in Tasks : /\ T[s].kind = "none" /\ IsNew(task'[s], "die", i)
                                                 /\ Cancels(task', T, s, S[i].startJob)
    BY <1>1, <1>2, <1>3, <1>10, <2>1, DieEffect
  <2>3. PICK s \in Tasks : /\ T[s].kind = "none" /\ IsNew(task'[s], "die", i)
                           /\ Cancels(task', T, s, S[i].startJob)
    BY <2>2
  <2>4. Struct(svc', task', current) /\ Has(task', "die", i)
    BY <1>1, <1>2, <1>4, <1>6, <1>10, <2>2, <2>3, StructDie
  <2>5. Steady(S, T, svc', task')
    BY <1>2, <2>2, <2>3, SteadyDie
  <2>6. Keeper(svc, task, i) => Keeper(svc', task', i)
    <3>1. (\E u \in Tasks : ToDestroy(task[u], i)) => \E u \in Tasks : ToDestroy(T[u], i)
      BY <1>1 DEF ToDestroy
    <3>2. (\E u \in Tasks : ToDestroy(T[u], i)) => \E u \in Tasks : ToDestroy(task'[u], i)
      BY <2>3 DEF Cancels, SamePlace, ToDestroy
    <3>3. svc'[i].status = svc[i].status
      BY <1>2, <1>6, <2>2 DEF Condemns
    <3> QED BY <2>4, <3>1, <3>2, <3>3 DEF Keeper, Alive, Touched
  <2>7. KeepersStay(svc, task, svc', task')
    BY <1>8, <2>5, <2>6 DEF Steady, KeepersStay, Forgets, SameFields
  <2>8. Steadily
    BY <1>5, <2>5, <2>7 DEF Steadily, Steady, StopsStay, VouchersStay, NoneRecovers
  <2>9. Survive(t)
    BY <1>7, <2>3 DEF Survive, SamePlace, Cancels, IsNew
  <2>10. \A j \in Instances : /\ SameRest(svc'[j], svc[j]) /\ svc'[j].status = svc[j].status
                              /\ svc'[j].enginesReady => svc[j].enginesReady
    BY <2>2 DEF Condemns, SameRest, Forgets, SameFields
  <2>11. ~Well(svc', task', i) /\ StructInv'
    BY <2>4 DEF Well, StructInv
  <2> QED BY <2>8, <2>9, <2>10, <2>11 DEF Exits, i
<1> QED BY <1>9, <1>10

(***************************************************************************)
(* What it does to the descriptors and to Xray on its way out.             *)
(***************************************************************************)
GivesUp(t) == /\ core' \/ coreFd' # NoFd => core \/ coreFd # NoFd \/ Kept(task[t].inst)
              /\ \A f \in openFds' : f \in openFds /\ (f = coreFd => f = coreFd')
              /\ Holds(task[t]) => task[t].fd \notin openFds' \/ task[t].fd = coreFd'

LEMMA ExitGood ==
  ASSUME IInv, RestInv, NEW t \in Tasks, task[t].kind = "start", Exits(t), GivesUp(t),
         side' \in {side, 0} \/ (side' = task[t].inst /\ task[t].pc # "queued"),
         UNCHANGED <<zeptun, nextFd, inputVars, reportVars>>
  PROVE  Good
<1>0. /\ task[t].inst \in Instances /\ svc[task[t].inst].status # "none"
      /\ \A u \in Tasks : task[u].kind # "none" => task[u].inst \in Instances
  BY DEF RestInv, StructInv, Struct, TasksOK
<1>1. StructInv' /\ Steadily /\ Survive(t) /\ \A i \in Instances : SameRest(svc'[i], svc[i])
  BY DEF Exits
<1>2. \A i \in Instances : Owns(i)' <=> Owns(i)
  BY <1>1 DEF Owns, SameRest
<1>3. PlainInv'
  <2>1. \A i \in Instances : /\ svc'[i].status = svc[i].status
                             /\ svc'[i].enginesReady => svc[i].enginesReady
    BY DEF Exits
  <2>2. NoFd \notin openFds'
    BY DEF GivesUp, RestInv, PlainInv
  <2>3. \A i \in Instances : /\ ~svc'[i].zeptunOwnsTun /\ svc'[i].blockFd = NoFd
                             /\ svc'[i].status = "none" => ~svc'[i].polling /\ ~svc'[i].enginesReady
    BY <1>1, <2>1 DEF RestInv, PlainInv, SameRest
  <2>4. \A u \in Tasks : /\ task'[u].kind # "switch"
                         /\ task'[u].kind = "start" => task'[u].pc # "zeptunRun"
    BY <1>1 DEF RestInv, PlainInv, Survive, SamePlace
  <2> QED BY <2>2, <2>3, <2>4 DEF RestInv, PlainInv
<1>4. KeptInv'
  <2>1. \A i \in Instances : side' = i => side = i \/ (svc[i].status # "none" /\ Kept(i))
    BY <1>0 DEF RestInv, KeptInv, Instances
  <2>2. \A u \in Tasks : task'[u].kind = "start" /\ task'[u].pc # "queued" =>
           /\ task[u].kind = "start" /\ task[u].pc # "queued" /\ task'[u].inst = task[u].inst
           /\ task[u].inst \in Instances
    BY <1>0, <1>1 DEF Survive, SamePlace
  <2>3. core' \/ coreFd' # NoFd => core \/ coreFd # NoFd \/ SomeKeeper
    BY <1>0 DEF GivesUp, SomeKeeper
  <2> QED BY <1>1, <1>2, <2>1, <2>2, <2>3, KeptStays DEF RestInv, Steadily, Steady, inputVars
<1>5. TunInv'
  <2>1. \A i \in Instances : svc'[i].tunFd = svc[i].tunFd
    BY <1>1 DEF SameRest
  <2>2. \A u \in Tasks : task'[u].kind = "start" => GoesOn(task'[u], task[u])
    BY <1>1 DEF Survive, SamePlace, GoesOn, Early, Carries
  <2>3. ASSUME NEW u \in Tasks, Holds(task[u]) PROVE task[u].fd \notin openFds' \/ task[u].fd = coreFd'
                                                     \/ (Holds(task'[u]) /\ task'[u].fd = task[u].fd)
    BY <1>1, <2>3 DEF GivesUp, Survive, SamePlace, Holds
  <2> QED BY <2>1, <2>2, <2>3, TunStays DEF RestInv, GivesUp
<1>6. StopInv' /\ VouchInv'
  BY <1>1, StopStays, VouchStays DEF RestInv, Steadily, Steady, inputVars, reportVars
<1>7. Serial => RealInv'
  BY <1>1, RealVoid DEF RestInv, Steadily, Steady, Exits
<1> QED BY <1>1, <1>3, <1>4, <1>5, <1>6, <1>7 DEF Good, RestInv

LEMMA SectionExits ==
  ASSUME IInv, RestInv, NEW t \in Tasks, task[t].kind = "start", current' = current,
         Fail(t) \/ (Leave(t) /\ task[t].cancelled)
  PROVE  Exits(t)
<1>1. TypeOK /\ StructInv /\ PlainInv
  BY DEF IInv, RestInv
<1>2. CASE Leave(t) /\ task[t].cancelled
  BY <1>1, <1>2, LeaveExits DEF Leave
<1>3. CASE Fail(t)
  <2> DEFINE S == AfterJob(t)
  <2>1. S \in Services /\ Forgets(S, svc, t) /\ \A i \in Instances : SameRest(S[i], svc[i])
    BY <1>1, AfterJobEffect DEF StructInv
  <2>2. die(S, EndTask(t), task[t].inst, TRUE)
    BY <1>3 DEF Fail
  <2> HIDE DEF S
  <2> QED BY <1>1, <2>1, <2>2, FailExits
<1> QED BY <1>2, <1>3

(***************************************************************************)
(* On its way out it leaves the descriptors alone, or stops Xray.          *)
(***************************************************************************)
LEMMA ExitAlone ==
  ASSUME IInv, RestInv, NEW t \in Tasks, task[t].kind = "start", task[t].pc \notin {"queued", "xray"},
         Fail(t) \/ (Leave(t) /\ task[t].cancelled),
         UNCHANGED coreVars \/ CoreStop({}), side' \in {side, 0, task[t].inst},
         UNCHANGED <<zeptun, nextFd, inputVars, reportVars>>
  PROVE  Good
<1>1. current' = current
  BY DEF inputVars
<1>2. GivesUp(t)
  BY DEF GivesUp, coreVars, CoreStop, Holds
<1> QED BY <1>1, <1>2, SectionExits, ExitGood

-----------------------------------------------------------------------------
(***************************************************************************)
(* A start job moves on inside its section.                                *)
(***************************************************************************)
Moved(t) ==
  /\ \A u \in Tasks : u # t => task'[u] = task[u]
  /\ SameTask(task'[t], task[t]) /\ task'[t].pc # "zeptunRun"
  /\ \A i \in Instances : /\ SameFields(svc'[i], svc[i]) /\ svc'[i].startJob = svc[i].startJob
                          /\ ~svc'[i].zeptunOwnsTun /\ svc'[i].blockFd = NoFd
                          /\ svc'[i].polling = svc[i].polling
                          /\ Owns(i)' => Owns(i) \/ i = task[t].inst
  /\ side' \in {side, 0, task[t].inst}
  /\ zeptun' = zeptun /\ nextFd' # NoFd /\ NoFd \notin openFds'
  /\ UNCHANGED <<inputVars, reportVars>>

LEMMA ProceedMoves ==
  ASSUME TypeOK, RestInv, NEW t \in Tasks, NEW l \in Pcs \ {"zeptunRun"}, Proceed(t, l),
         side' \in {side, 0, task[t].inst}, openFds' \subseteq openFds,
         UNCHANGED <<zeptun, nextFd, inputVars, reportVars>>
  PROVE  /\ Moved(t) /\ task'[t].pc = l /\ task'[t].fd = task[t].fd
         /\ svc' = svc
<1>1. GotoTask(t, l) /\ svc' = svc
  BY DEF Proceed
<1>2. /\ \A u \in Tasks : u # t => task'[u] = task[u]
      /\ task'[t].pc = l /\ task'[t].fd = task[t].fd /\ SameTask(task'[t], task[t])
  BY <1>1, GotoEffect
<1>3. \A i \in Instances : /\ SameFields(svc'[i], svc[i]) /\ svc'[i].startJob = svc[i].startJob
                           /\ ~svc'[i].zeptunOwnsTun /\ svc'[i].blockFd = NoFd
                           /\ svc'[i].polling = svc[i].polling
                           /\ Owns(i)' => Owns(i)
  BY <1>1 DEF RestInv, PlainInv, SameFields, Owns
<1>4. zeptun' = zeptun /\ nextFd' # NoFd /\ NoFd \notin openFds'
  BY DEF RestInv, PlainInv
<1> QED BY <1>1, <1>2, <1>3, <1>4 DEF Moved

LEMMA MovedRest ==
  ASSUME RestInv, NEW t \in Tasks, task[t].kind = "start", task[t].pc # "queued", Moved(t)
  PROVE  StructInv' /\ PlainInv' /\ KeptInv' /\ StopInv' /\ VouchInv' /\ Steadily
<1>1. /\ task[t].inst \in Instances /\ Kept(task[t].inst) /\ svc[task[t].inst].status # "none"
      /\ \A u \in Tasks : task[u].kind # "none" => task[u].inst \in Instances
  BY DEF RestInv, StructInv, Struct, TasksOK, KeptInv
<1>2. \A u \in Tasks : SameTask(task'[u], task[u])
  BY DEF Moved, SameTask
<1>3. \A i \in Instances : SameFields(svc'[i], svc[i]) /\ svc'[i].startJob = svc[i].startJob
  BY DEF Moved
<1>4. UNCHANGED <<current, command, orphaned, announced>>
  BY DEF Moved, inputVars, reportVars
<1>5. StructInv'
  BY <1>2, <1>3, <1>4, StructSame DEF RestInv, StructInv
<1>6. Steadily
  <2>1. \A u \in Tasks, i \in Instances : ToDestroy(task[u], i) => ToDestroy(task'[u], i)
    BY DEF Moved, ToDestroy
  <2> QED BY <1>2, <1>3, <2>1, SteadySame DEF Steadily
<1>7. PlainInv'
  <2>1. \A i \in Instances : /\ ~svc'[i].zeptunOwnsTun /\ svc'[i].blockFd = NoFd
                             /\ svc'[i].status = "none" => ~svc'[i].polling /\ ~svc'[i].enginesReady
    BY DEF RestInv, PlainInv, Moved, SameFields
  <2>2. \A u \in Tasks : /\ task'[u].kind # "switch"
                         /\ task'[u].kind = "start" => task'[u].pc # "zeptunRun"
    BY DEF RestInv, PlainInv, Moved, SameTask
  <2> QED BY <2>1, <2>2 DEF RestInv, PlainInv, Moved
<1>8. KeptInv'
  <2>1. \A i \in Instances : Owns(i)' => Owns(i) \/ Kept(i)
    BY <1>1 DEF Moved
  <2>2. \A i \in Instances : side' = i => side = i \/ (svc[i].status # "none" /\ Kept(i))
    BY <1>1 DEF Moved, Instances
  <2>3. \A u \in Tasks : task'[u].kind = "start" /\ task'[u].pc # "queued" =>
           \/ task'[u].inst \in Instances /\ Kept(task'[u].inst)
           \/ /\ task[u].kind = "start" /\ task[u].pc # "queued" /\ task'[u].inst = task[u].inst
              /\ task[u].inst \in Instances
    BY <1>1, <1>2 DEF Moved, SameTask
  <2>4. SomeKeeper
    BY <1>1 DEF SomeKeeper
  <2> QED BY <1>4, <1>6, <2>1, <2>2, <2>3, <2>4, KeptStays DEF RestInv, Steadily, Steady
<1>9. StopInv' /\ VouchInv'
  BY <1>4, <1>6, StopStays, VouchStays DEF RestInv, Steadily, Steady
<1> QED BY <1>5, <1>6, <1>7, <1>8, <1>9

LEMMA MovedReal ==
  ASSUME LockInv, RestInv, NEW t \in Tasks, task[t].kind = "start", task[t].pc # "queued", Moved(t),
         NEW j, j = task[t].inst, Serial, RealInv, ProgressOK(t, j) => ProgressOK(t, j)'
  PROVE  RealInv'
<1> SUFFICES ASSUME NEW i \in Instances, Well(svc', task', i) PROVE Real(i)'
  BY DEF RealInv
<1>1. Steadily
  BY MovedRest
<1>2. Well(svc, task, i) /\ (svc'[i].enginesReady => svc[i].enginesReady)
  BY <1>1 DEF Steadily, Steady, NoneRecovers
<1>3. task[t].inst = i /\ Real(i)
  BY <1>2, OnlyOne DEF RestInv, RealInv
<1>4. ~svc[i].enginesReady
  BY <1>2, <1>3 DEF RestInv, StructInv, Struct, FieldsOK, Well, Has
<1>5. ASSUME NEW u \in Tasks PROVE ProgressOK(u, i)'
  <2>1. CASE u = t
    <3>1. i = j /\ ProgressOK(t, i)
      BY <1>3 DEF Real
    <3> QED BY <2>1, <3>1
  <2>2. CASE u # t
    <3>1. InSection(task[t]) /\ (InSection(task[u]) => engineLock = u) /\ engineLock = t
      BY DEF LockInv, InSection
    <3>2. task'[u].kind = "start" => task'[u].pc = "queued"
      BY <2>2, <3>1 DEF Moved, InSection
    <3> QED BY <3>2 DEF ProgressOK
  <2> QED BY <2>1, <2>2
<1> QED BY <1>2, <1>4, <1>5 DEF Real

(***************************************************************************)
(* A move that gives no tun to an instance or a job.                       *)
(***************************************************************************)
LEMMA MovedGood ==
  ASSUME IInv, RestInv, NEW t \in Tasks, task[t].kind = "start", task[t].pc # "queued", Moved(t),
         NEW j, j = task[t].inst, TunInv', ProgressOK(t, j) => ProgressOK(t, j)'
  PROVE  Good
<1>1. StructInv' /\ PlainInv' /\ KeptInv' /\ StopInv' /\ VouchInv'
  BY MovedRest
<1>2. Serial /\ RealInv => RealInv'
  BY MovedReal DEF IInv
<1> QED BY <1>1, <1>2 DEF Good, RestInv

LEMMA MovedTun ==
  ASSUME RestInv, NEW t \in Tasks, task[t].kind = "start", Moved(t),
         \A i \in Instances : svc'[i].tunFd = svc[i].tunFd,
         task'[t].fd = task[t].fd, ~Holds(task[t]), ~Early(task'[t]),
         Carries(task'[t]) => Carries(task[t]),
         \A f \in openFds' : f \in openFds /\ (f = coreFd => f = coreFd')
  PROVE  TunInv'
<1>1. \A u \in Tasks : task'[u].kind = "start" => GoesOn(task'[u], task[u])
  BY DEF Moved, GoesOn, SameTask
<1>2. \A u \in Tasks : Holds(task[u]) => Holds(task'[u]) /\ task'[u].fd = task[u].fd
  BY DEF Moved
<1> QED BY <1>1, <1>2, TunStays DEF RestInv

-----------------------------------------------------------------------------
(***************************************************************************)
(* One lemma per action.                                                   *)
(***************************************************************************)
LEMMA enginesGood == ASSUME IInv, RestInv, NEW t \in Tasks, engines(t) PROVE Good
<1> SUFFICES ASSUME NEW i, i = task[t].inst PROVE Good
  OBVIOUS
<1>1. task[t].kind = "start" /\ task[t].pc = "engines"
  BY DEF engines, At
<1>2. TypeOK /\ UNCHANGED <<coreVars, zeptun, nextFd, inputVars, reportVars>>
  BY DEF engines, IInv
<1>3. ASSUME Proceed(t, "core"), side' = i \/ (~svc[i].proxyOnly /\ side' = side) PROVE Good
  <2>1. /\ Moved(t) /\ task'[t].pc = "core" /\ task'[t].fd = task[t].fd
        /\ svc' = svc
    BY <1>2, <1>3, ProceedMoves DEF Pcs, StartPc, coreVars
  <2>2. TunInv'
    BY <1>1, <1>2, <2>1, MovedTun DEF Holds, Early, Carries, coreVars
  <2>3. ProgressOK(t, i) => ProgressOK(t, i)'
    BY <1>1, <1>3, <2>1 DEF ProgressOK, Moved, SameTask
  <2> QED BY <1>1, <2>1, <2>2, <2>3, MovedGood
<1>4. ASSUME Fail(t) \/ (Leave(t) /\ task[t].cancelled), side' \in {side, 0, i} PROVE Good
  BY <1>1, <1>2, <1>4, ExitAlone
<1> QED BY <1>3, <1>4 DEF engines

LEMMA core_stopGood == ASSUME IInv, RestInv, NEW t \in Tasks, core_stop(t) PROVE Good
<1> SUFFICES ASSUME NEW i, i = task[t].inst PROVE Good
  OBVIOUS
<1> DEFINE l == IF task[t].fd = NoFd THEN "tor" ELSE "zeptun"
<1>1. task[t].kind = "start" /\ task[t].pc = "core"
  BY DEF core_stop, At
<1>2. TypeOK /\ CoreStop({}) /\ UNCHANGED <<side, zeptun, nextFd, inputVars, reportVars>>
  BY DEF core_stop, IInv, proxyVars
<1>3. CASE ~task[t].cancelled
  <2>0. Proceed(t, l)
    BY <1>3 DEF core_stop
  <2>1. /\ Moved(t) /\ task'[t].pc = l /\ task'[t].fd = task[t].fd
        /\ svc' = svc
    BY <1>2, <2>0, ProceedMoves DEF Pcs, StartPc, CoreStop
  <2>2. TunInv'
    BY <1>1, <1>2, <2>1, MovedTun DEF Holds, Early, Carries, CoreStop
  <2>3. ProgressOK(t, i) => ProgressOK(t, i)'
    BY <1>1, <1>2, <2>1 DEF ProgressOK, Moved, SameTask
  <2> QED BY <1>1, <2>1, <2>2, <2>3, MovedGood
<1>4. CASE task[t].cancelled
  BY <1>1, <1>2, <1>4, ExitAlone DEF core_stop
<1> QED BY <1>3, <1>4

LEMMA zeptunChosenGood == ASSUME IInv, RestInv, NEW t \in Tasks, zeptunChosen(t) PROVE Good
<1> SUFFICES ASSUME NEW i, i = task[t].inst PROVE Good
  OBVIOUS
<1>1. task[t].kind = "start" /\ task[t].pc = "zeptun" /\ i \in Instances
  BY DEF zeptunChosen, At, RestInv, StructInv, Struct, TasksOK
<1>2. TypeOK /\ UNCHANGED <<coreVars, side, zeptun, nextFd, inputVars, reportVars>>
  BY DEF zeptunChosen, IInv, proxyVars
<1>3. Proceed(t, "detach")
  BY <1>1 DEF zeptunChosen, RestInv, PlainInv
<1>4. /\ Moved(t) /\ task'[t].pc = "detach" /\ task'[t].fd = task[t].fd
      /\ svc' = svc
  BY <1>2, <1>3, ProceedMoves DEF Pcs, StartPc, coreVars
<1>5. TunInv'
  BY <1>1, <1>2, <1>4, MovedTun DEF Holds, Early, Carries, coreVars
<1>6. ProgressOK(t, i) => ProgressOK(t, i)'
  BY <1>4 DEF ProgressOK
<1> QED BY <1>1, <1>4, <1>5, <1>6, MovedGood

LEMMA torGood == ASSUME IInv, RestInv, NEW t \in Tasks, tor(t) PROVE Good
<1> SUFFICES ASSUME NEW i, i = task[t].inst PROVE Good
  OBVIOUS
<1>1. task[t].kind = "start" /\ task[t].pc = "tor"
  BY DEF tor, At
<1>2. TypeOK /\ UNCHANGED <<coreVars, side, zeptun, nextFd, inputVars, reportVars>>
  BY DEF tor, IInv, proxyVars
<1>3. CASE Proceed(t, "publish")
  <2>1. /\ Moved(t) /\ task'[t].pc = "publish" /\ task'[t].fd = task[t].fd
        /\ svc' = svc
    BY <1>2, <1>3, ProceedMoves DEF Pcs, StartPc, coreVars
  <2>2. TunInv'
    BY <1>1, <1>2, <2>1, MovedTun DEF Holds, Early, Carries, coreVars
  <2>3. ProgressOK(t, i) => ProgressOK(t, i)'
    BY <1>1, <1>2, <2>1 DEF ProgressOK, Moved, SameTask, coreVars
  <2> QED BY <1>1, <2>1, <2>2, <2>3, MovedGood
<1>4. CASE Fail(t) \/ (Leave(t) /\ task[t].cancelled)
  BY <1>1, <1>2, <1>4, ExitAlone
<1> QED BY <1>3, <1>4 DEF tor

LEMMA detachGood == ASSUME IInv, RestInv, NEW t \in Tasks, detach(t) PROVE Good
<1> SUFFICES ASSUME NEW i, i = task[t].inst PROVE Good
  OBVIOUS
<1>1. task[t].kind = "start" /\ task[t].pc = "detach" /\ i \in Instances
  BY DEF detach, At, RestInv, StructInv, Struct, TasksOK
<1>2. TypeOK /\ UNCHANGED <<coreVars, side, zeptun, nextFd, inputVars, reportVars>>
  BY DEF detach, IInv, proxyVars
<1>3. CASE Fail(t)
  BY <1>1, <1>2, <1>3, ExitAlone
<1>4. CASE /\ svc[i].tunFd.own
           /\ svc' = [svc EXCEPT ![i].tunFd.own = FALSE]
           /\ GotoTask(t, "xray")
  <2> DEFINE p == [svc[i].tunFd EXCEPT !.own = FALSE]
             x == [svc[i] EXCEPT !.tunFd = p]
  <2>a. svc \in Services /\ svc[i] \in Fields /\ svc[i].tunFd \in Pfd
    BY <1>1, <1>2 DEF TypeOK, Services, Fields
  <2>1. svc' = [svc EXCEPT ![i] = x]
    BY <1>4, <2>a DEF Services
  <2>b. p \in Pfd /\ p.own = FALSE
    BY <2>a DEF Pfd
  <2> HIDE DEF p
  <2>2. /\ ~x.tunFd.own /\ x.blockFd = svc[i].blockFd /\ SameFields(x, svc[i])
        /\ x.startJob = svc[i].startJob /\ x.polling = svc[i].polling
        /\ x.zeptunOwnsTun = svc[i].zeptunOwnsTun
    BY <2>a, <2>b DEF Fields, SameFields
  <2> HIDE DEF x
  <2>3. svc'[i] = x /\ \A j \in Instances : j # i => svc'[j] = svc[j]
    BY <1>1, <2>1, <2>a DEF Services
  <2>4. /\ \A u \in Tasks : u # t => task'[u] = task[u]
        /\ task'[t].pc = "xray" /\ task'[t].fd = task[t].fd /\ SameTask(task'[t], task[t])
    BY <1>2, <1>4, GotoEffect DEF Pcs, StartPc
  <2>5. Moved(t)
    <3>1. \A j \in Instances : /\ SameFields(svc'[j], svc[j]) /\ svc'[j].startJob = svc[j].startJob
                               /\ ~svc'[j].zeptunOwnsTun /\ svc'[j].blockFd = NoFd
                               /\ svc'[j].polling = svc[j].polling
                               /\ Owns(j)' => Owns(j)
      BY <1>4, <2>2, <2>3 DEF RestInv, PlainInv, SameFields, Owns
    <3>2. zeptun' = zeptun /\ nextFd' # NoFd /\ NoFd \notin openFds' /\ side' = side
      BY <1>2 DEF RestInv, PlainInv, coreVars
    <3> QED BY <1>2, <2>4, <3>1, <3>2 DEF Moved
  <2>6. TunInv'
    <3>1. \A j \in Instances : Owns(j)' => j # i /\ Owns(j) /\ svc'[j].tunFd = svc[j].tunFd
      BY <2>2, <2>3 DEF Owns
    <3>2. /\ \A u \in Tasks : u # t => task'[u] = task[u]
          /\ ~Early(task'[t]) /\ ~Carries(task'[t]) /\ Holds(task'[t])
          /\ \A u \in Tasks : task[u].kind # "none" => task[u].inst \in Instances
      BY <1>1, <2>4 DEF Early, Carries, Holds, SameTask, RestInv, StructInv, Struct, TasksOK
    <3>3. NoTunYet'
      BY <3>1, <3>2 DEF RestInv, TunInv, NoTunYet, Early
    <3>4. CarryInv'
      BY <3>1, <3>2 DEF RestInv, TunInv, CarryInv, Carries
    <3>5. ASSUME NEW f \in openFds' PROVE Held(f)'
      <4>1. Held(f)
        BY <1>2, <3>5 DEF RestInv, TunInv, coreVars
      <4>2. svc[i].tunFd.fd = task[t].fd
        BY <1>1, <1>4 DEF RestInv, TunInv, CarryInv, Carries, Owns
      <4>3. ASSUME NEW j \in Instances, Owns(j), svc[j].tunFd.fd = f PROVE Held(f)'
        <5>1. CASE j = i
          BY <2>4, <3>2, <4>2, <4>3, <5>1 DEF Held
        <5>2. CASE j # i
          <6>1. Owns(j)' /\ svc'[j].tunFd.fd = f
            BY <2>3, <4>3, <5>2 DEF Owns
          <6> QED BY <6>1 DEF Held
        <5> QED BY <5>1, <5>2
      <4>4. ASSUME NEW u \in Tasks, Holds(task[u]), task[u].fd = f PROVE Held(f)'
        <5>1. u # t
          BY <1>1, <4>4 DEF Holds
        <5> QED BY <3>2, <4>4, <5>1 DEF Held
      <4>5. CASE f = coreFd
        BY <1>2, <4>5 DEF Held, coreVars
      <4> QED BY <4>1, <4>3, <4>4, <4>5 DEF Held
    <3> QED BY <3>3, <3>4, <3>5 DEF TunInv
  <2>7. ProgressOK(t, i) => ProgressOK(t, i)'
    BY <2>4 DEF ProgressOK
  <2> QED BY <1>1, <2>5, <2>6, <2>7, MovedGood
<1>5. ~svc[i].zeptunOwnsTun
  BY <1>1 DEF RestInv, PlainInv
<1> QED BY <1>3, <1>4, <1>5 DEF detach

LEMMA zeptunStartGood == ASSUME IInv, RestInv, NEW t \in Tasks, zeptunStart(t) PROVE Good
BY DEF zeptunStart, At, RestInv, PlainInv

LEMMA xrayStartGood == ASSUME IInv, RestInv, NEW t \in Tasks, xrayStart(t) PROVE Good
<1> SUFFICES ASSUME NEW i, i = task[t].inst PROVE Good
  OBVIOUS
<1>1. task[t].kind = "start" /\ task[t].pc = "xray" /\ i \in Instances /\ Kept(i)
  BY DEF xrayStart, At, RestInv, StructInv, Struct, TasksOK, KeptInv
<1>2. TypeOK /\ UNCHANGED <<side, zeptun, nextFd, inputVars, reportVars>>
  BY DEF xrayStart, IInv, proxyVars
<1>3. CASE CoreStart(task[t].fd, TRUE) /\ Proceed(t, "tor")
  <2>1. /\ Moved(t) /\ task'[t].pc = "tor" /\ task'[t].fd = task[t].fd
        /\ svc' = svc
    BY <1>2, <1>3, ProceedMoves DEF Pcs, StartPc, CoreStart
  <2>2. TunInv'
    <3>1. \A u \in Tasks : task'[u].kind = "start" => GoesOn(task'[u], task[u])
      BY <2>1 DEF Moved, GoesOn, SameTask, Early, Carries
    <3>2. /\ \A u \in Tasks : u # t => task'[u] = task[u]
          /\ task[t].fd = coreFd'
      BY <1>3, <2>1 DEF Moved, CoreStart
    <3> QED BY <1>3, <2>1, <3>1, <3>2, TunStays DEF RestInv, CoreStart
  <2>3. ProgressOK(t, i) => ProgressOK(t, i)'
    BY <1>3, <2>1 DEF ProgressOK, CoreStart
  <2> QED BY <1>1, <2>1, <2>2, <2>3, MovedGood
<1>4. CASE CoreStart(task[t].fd, FALSE) /\ Fail(t)
  <2>1. current' = current
    BY <1>2 DEF inputVars
  <2>2. GivesUp(t)
    BY <1>1, <1>4 DEF GivesUp, CoreStart
  <2> QED BY <1>1, <1>2, <1>4, <2>1, <2>2, SectionExits, ExitGood
<1> QED BY <1>3, <1>4 DEF xrayStart

LEMMA xrayRetryGood == ASSUME IInv, RestInv, NEW t \in Tasks, xrayRetry(t) PROVE Good
<1> SUFFICES ASSUME NEW i, i = task[t].inst PROVE Good
  OBVIOUS
<1>1. task[t].kind = "start" /\ task[t].pc = "xray" /\ i \in Instances
  BY DEF xrayRetry, At, RestInv, StructInv, Struct, TasksOK
<1>2. /\ TypeOK /\ UNCHANGED <<side, zeptun, nextFd, inputVars, reportVars>>
      /\ core' = FALSE /\ coreFd' = NoFd /\ openFds' = openFds \ ({coreFd} \cup {task[t].fd})
  BY DEF xrayRetry, IInv, proxyVars, CoreRestart, CoreStop
<1>3. CASE task[t].cancelled
  <2>1. current' = current
    BY <1>2 DEF inputVars
  <2>2. GivesUp(t)
    BY <1>2 DEF GivesUp
  <2>3. Leave(t)
    BY <1>3 DEF xrayRetry
  <2> QED BY <1>1, <1>2, <1>3, <2>1, <2>2, <2>3, SectionExits, ExitGood
<1>4. CASE ~task[t].cancelled
  <2> DEFINE c == [task[t] EXCEPT !.tries = @ + 1]
  <2>1. task \in Coros /\ svc' = svc /\ task' = [task EXCEPT ![t] = c]
    BY <1>2, <1>4 DEF xrayRetry, TypeOK, Coros
  <2>2. SameTask(c, task[t]) /\ c.pc = "xray" /\ c.fd = task[t].fd
    BY <1>1, <2>1 DEF Coros, Coroutine, SameTask
  <2> HIDE DEF c
  <2>3. task'[t] = c /\ \A u \in Tasks : u # t => task'[u] = task[u]
    BY <2>1 DEF Coros
  <2>4. Moved(t)
    <3>1. \A j \in Instances : /\ SameFields(svc'[j], svc[j]) /\ svc'[j].startJob = svc[j].startJob
                               /\ ~svc'[j].zeptunOwnsTun /\ svc'[j].blockFd = NoFd
                               /\ svc'[j].polling = svc[j].polling
                               /\ Owns(j)' => Owns(j)
      BY <2>1 DEF RestInv, PlainInv, SameFields, Owns
    <3>2. zeptun' = zeptun /\ nextFd' # NoFd /\ NoFd \notin openFds' /\ side' = side
      BY <1>2 DEF RestInv, PlainInv
    <3> QED BY <1>2, <2>2, <2>3, <3>1, <3>2 DEF Moved
  <2>5. TunInv'
    <3>1. \A u \in Tasks : task'[u].kind = "start" => GoesOn(task'[u], task[u])
      BY <2>2, <2>3 DEF GoesOn, SameTask, Early, Carries
    <3> QED BY <1>2, <2>1, <2>3, <3>1, TunStays DEF RestInv
  <2>6. ProgressOK(t, i) => ProgressOK(t, i)'
    BY <2>2, <2>3 DEF ProgressOK
  <2> QED BY <1>1, <2>4, <2>5, <2>6, MovedGood
<1> QED BY <1>3, <1>4

(***************************************************************************)
(* The tun is set up: no other start job of the instance is left that was  *)
(* not cancelled.                                                          *)
(***************************************************************************)
LEMMA OneStart ==
  ASSUME StructInv, NEW t \in Tasks, task[t].kind = "start", ~task[t].cancelled,
         NEW u \in Tasks, task[u].kind = "start", ~task[u].cancelled, task[u].inst = task[t].inst
  PROVE  u = t
BY DEF StructInv, Struct, TasksOK, StartOK

LEMMA GrantedGood ==
  ASSUME Plain, IInv, RestInv, NEW t \in Tasks, At(t, "start", "establish"), ~task[t].cancelled,
         NEW mode \in Modes, Granted(t, mode),
         UNCHANGED <<core, coreFd, side, zeptun, inputVars, reportVars>>
  PROVE  Good
<1> SUFFICES ASSUME NEW i, i = task[t].inst PROVE Good
  OBVIOUS
<1>1. task[t].kind = "start" /\ task[t].pc = "establish" /\ i \in Instances /\ ~Owns(i)
  BY DEF At, RestInv, StructInv, Struct, TasksOK, TunInv, NoTunYet, Early
<1>2. /\ TypeOK /\ svc \in Services /\ task \in Coros /\ nextFd \in Nat
      /\ nextFd # NoFd /\ NoFd \notin openFds
  BY DEF IInv, TypeOK, Services, Coros, RestInv, PlainInv
<1>3. nextFd' = nextFd + 1 /\ openFds' \subseteq openFds \cup {nextFd}
  BY DEF Granted
<1> DEFINE p == [fd |-> nextFd, own |-> TRUE]
           x == [svc[i] EXCEPT !.tunFd = p, !.blockFd = NoFd, !.tracking = TRUE, !.proxyOnly = FALSE,
                               !.zeptunOwnsTun = FALSE]
           c == [task[t] EXCEPT !.pc = "engines", !.fd = nextFd]
<1>4. svc' = [svc EXCEPT ![i] = x] /\ task' = [task EXCEPT ![t] = c]
  <2>1. (mode = "zeptun") = FALSE
    BY DEF Plain
  <2> QED BY <1>2, <2>1 DEF Granted, Services, Coros
<1>5. /\ p.own /\ p.fd = nextFd /\ x.tunFd = p /\ x.blockFd = NoFd /\ SameFields(x, svc[i])
      /\ x.startJob = svc[i].startJob /\ x.polling = svc[i].polling
      /\ ~x.zeptunOwnsTun
  BY <1>1, <1>2 DEF Services, Fields, SameFields
<1>6. c.pc = "engines" /\ c.fd = nextFd /\ SameTask(c, task[t])
  BY <1>2 DEF Coros, Coroutine, SameTask
<1> HIDE DEF p, x, c
<1>7. svc'[i] = x /\ \A j \in Instances : j # i => svc'[j] = svc[j]
  BY <1>1, <1>2, <1>4 DEF Services
<1>8. task'[t] = c /\ \A u \in Tasks : u # t => task'[u] = task[u]
  BY <1>2, <1>4 DEF Coros
<1>9. Moved(t)
  <2>1. \A j \in Instances : /\ SameFields(svc'[j], svc[j]) /\ svc'[j].startJob = svc[j].startJob
                             /\ ~svc'[j].zeptunOwnsTun /\ svc'[j].blockFd = NoFd
                             /\ svc'[j].polling = svc[j].polling
                             /\ Owns(j)' => Owns(j) \/ j = i
    BY <1>5, <1>7 DEF RestInv, PlainInv, SameFields, Owns
  <2>2. nextFd' # NoFd /\ NoFd \notin openFds'
    BY <1>2, <1>3 DEF NoFd
  <2> QED BY <1>6, <1>8, <2>1, <2>2 DEF Moved
<1>10. TunInv'
  <2>1. \A j \in Instances : j # i => Owns(j)' = Owns(j) /\ svc'[j].tunFd = svc[j].tunFd
    BY <1>7 DEF Owns
  <2>2. Owns(i)' /\ svc'[i].tunFd.fd = nextFd
    BY <1>5, <1>7 DEF Owns
  <2>3. /\ task'[t].kind = "start" /\ task'[t].inst = i /\ task'[t].fd = nextFd
        /\ ~Early(task'[t]) /\ ~Holds(task[t])
        /\ \A u \in Tasks : task[u].kind # "none" => task[u].inst \in Instances
    BY <1>1, <1>6, <1>8 DEF Early, Holds, SameTask, RestInv, StructInv, Struct, TasksOK
  <2>4. NoTunYet'
    <3> SUFFICES ASSUME NEW u \in Tasks, Early(task'[u]), ~task'[u].cancelled PROVE ~svc'[task'[u].inst].tunFd.own
      BY DEF NoTunYet, Owns
    <3>1. u # t /\ task'[u] = task[u]
      BY <1>8, <2>3
    <3>2. task[u].kind = "start" /\ Early(task[u]) /\ ~task[u].cancelled
      BY <3>1 DEF Early
    <3>3. task[u].inst # i
      BY <1>1, <3>1, <3>2, OneStart DEF RestInv
    <3>4. ~Owns(task[u].inst) /\ task[u].inst \in Instances
      BY <2>3, <3>2 DEF RestInv, TunInv, NoTunYet
    <3> QED BY <2>1, <3>1, <3>3, <3>4 DEF Owns
  <2>5. CarryInv'
    <3> SUFFICES ASSUME NEW u \in Tasks, Carries(task'[u]), u # t PROVE FALSE
      BY <2>2, <2>3 DEF CarryInv
    <3>1. InSection(task[u]) /\ InSection(task[t])
      BY <1>1, <1>8 DEF Carries, InSection
    <3> QED BY <3>1 DEF IInv, LockInv
  <2>6. ASSUME NEW f \in openFds' PROVE Held(f)'
    <3>1. CASE f = nextFd
      BY <1>1, <2>2, <3>1 DEF Held
    <3>2. CASE f # nextFd
      <4>1. Held(f)
        BY <1>3, <2>6, <3>2 DEF RestInv, TunInv
      <4>2. ASSUME NEW j \in Instances, Owns(j), svc[j].tunFd.fd = f PROVE Held(f)'
        <5>1. Owns(j)' /\ svc'[j].tunFd.fd = f
          BY <1>1, <2>1, <4>2
        <5> QED BY <5>1 DEF Held
      <4>3. ASSUME NEW u \in Tasks, Holds(task[u]), task[u].fd = f PROVE Held(f)'
        <5>1. task'[u] = task[u]
          BY <1>8, <2>3, <4>3
        <5> QED BY <4>3, <5>1 DEF Held
      <4>4. CASE f = coreFd
        BY <4>4 DEF Held
      <4> QED BY <4>1, <4>2, <4>3, <4>4 DEF Held
    <3> QED BY <3>1, <3>2
  <2> QED BY <2>4, <2>5, <2>6 DEF TunInv
<1>11. ProgressOK(t, i)'
  BY <1>2, <1>6, <1>8 DEF ProgressOK
<1> QED BY <1>1, <1>9, <1>10, <1>11, MovedGood

LEMMA NoTunGood ==
  ASSUME IInv, RestInv, NEW t \in Tasks, At(t, "start", "establish"), ~task[t].cancelled, NoTun(t),
         UNCHANGED <<core, coreFd, side, zeptun, inputVars, reportVars>>
  PROVE  Good
<1> SUFFICES ASSUME NEW i, i = task[t].inst PROVE Good
  OBVIOUS
<1>1. task[t].kind = "start" /\ task[t].pc = "establish" /\ i \in Instances /\ ~Owns(i)
  BY DEF At, RestInv, StructInv, Struct, TasksOK, TunInv, NoTunYet, Early
<1>2. /\ TypeOK /\ svc \in Services /\ GotoTask(t, "engines")
      /\ UNCHANGED <<nextFd, openFds>> /\ Null.own = FALSE
  BY DEF IInv, TypeOK, Services, NoTun, Null
<1> DEFINE x == [svc[i] EXCEPT !.tunFd = Null, !.proxyOnly = TRUE, !.zeptunOwnsTun = FALSE]
<1>3. svc' = [svc EXCEPT ![i] = x]
  BY <1>2 DEF NoTun, Services
<1>4. /\ x.tunFd = Null /\ x.blockFd = svc[i].blockFd /\ SameFields(x, svc[i])
      /\ x.startJob = svc[i].startJob /\ x.polling = svc[i].polling
      /\ ~x.zeptunOwnsTun /\ x.proxyOnly
  BY <1>1, <1>2 DEF Services, Fields, SameFields
<1> HIDE DEF x
<1>5. svc'[i] = x /\ \A j \in Instances : j # i => svc'[j] = svc[j]
  BY <1>1, <1>2, <1>3 DEF Services
<1>6. /\ \A u \in Tasks : u # t => task'[u] = task[u]
      /\ task'[t].pc = "engines" /\ task'[t].fd = task[t].fd /\ SameTask(task'[t], task[t])
  BY <1>2, GotoEffect DEF Pcs, StartPc
<1>7. \A j \in Instances : /\ svc'[j].tunFd.own <=> svc[j].tunFd.own
                           /\ j # i => svc'[j].tunFd = svc[j].tunFd
  <2>1. ~svc[i].tunFd.own /\ ~svc'[i].tunFd.own
    BY <1>1, <1>2, <1>4, <1>5 DEF Owns
  <2> QED BY <1>5, <2>1
<1>8. Moved(t)
  <2>1. \A j \in Instances : /\ SameFields(svc'[j], svc[j]) /\ svc'[j].startJob = svc[j].startJob
                             /\ ~svc'[j].zeptunOwnsTun /\ svc'[j].blockFd = NoFd
                             /\ svc'[j].polling = svc[j].polling
    BY <1>4, <1>5 DEF RestInv, PlainInv, SameFields
  <2>2. nextFd' # NoFd /\ NoFd \notin openFds'
    BY <1>2 DEF RestInv, PlainInv
  <2> QED BY <1>6, <1>7, <2>1, <2>2 DEF Moved, Owns
<1>9. TunInv'
  <2>1. /\ task'[t].kind = "start" /\ task'[t].inst = i
        /\ ~Early(task'[t]) /\ ~Holds(task[t])
        /\ \A u \in Tasks : task[u].kind # "none" => task[u].inst \in Instances
    BY <1>1, <1>6 DEF Early, Holds, SameTask, RestInv, StructInv, Struct, TasksOK
  <2>2. NoTunYet'
    BY <1>6, <1>7, <2>1 DEF RestInv, TunInv, NoTunYet, Early, Owns
  <2>3. CarryInv'
    <3> SUFFICES ASSUME NEW u \in Tasks, Carries(task'[u]), svc'[task'[u].inst].tunFd.own
                 PROVE  svc'[task'[u].inst].tunFd.fd = task'[u].fd
      BY DEF CarryInv, Owns
    <3>1. u # t /\ task'[u] = task[u] /\ task[u].inst \in Instances
      BY <1>1, <1>6, <1>7, <2>1 DEF Carries, Owns
    <3>2. Owns(task[u].inst) /\ task[u].inst # i
      BY <1>1, <1>7, <3>1 DEF Owns
    <3> QED BY <1>7, <3>1, <3>2 DEF RestInv, TunInv, CarryInv
  <2>4. ASSUME NEW f \in openFds' PROVE Held(f)'
    <3>1. Held(f)
      BY <1>2, <2>4 DEF RestInv, TunInv
    <3>2. ASSUME NEW j \in Instances, Owns(j), svc[j].tunFd.fd = f PROVE Held(f)'
      <4>1. Owns(j)' /\ svc'[j].tunFd.fd = f
        BY <1>1, <1>7, <3>2 DEF Owns
      <4> QED BY <4>1 DEF Held
    <3>3. ASSUME NEW u \in Tasks, Holds(task[u]), task[u].fd = f PROVE Held(f)'
      <4>1. task'[u] = task[u]
        BY <1>6, <2>1, <3>3
      <4> QED BY <3>3, <4>1 DEF Held
    <3>4. CASE f = coreFd
      BY <3>4 DEF Held
    <3> QED BY <3>1, <3>2, <3>3, <3>4 DEF Held
  <2> QED BY <2>2, <2>3, <2>4 DEF TunInv
<1>10. ProgressOK(t, i)'
  BY <1>4, <1>5, <1>6 DEF ProgressOK
<1> QED BY <1>1, <1>8, <1>9, <1>10, MovedGood

LEMMA RefusedGood ==
  ASSUME IInv, RestInv, NEW t \in Tasks, At(t, "start", "establish"), Refused(t),
         UNCHANGED <<core, coreFd, side, zeptun, inputVars, reportVars>>
  PROVE  Good
<1> DEFINE i == task[t].inst
           A == AfterJob(t)
           x == [A[i] EXCEPT !.proxyOnly = FALSE]
           S == [A EXCEPT ![i] = x]
<1>0. /\ TypeOK /\ StructInv /\ PlainInv /\ i \in Instances
      /\ task[t].kind = "start" /\ task[t].pc = "establish"
  BY DEF IInv, At, RestInv, StructInv, Struct, TasksOK
<1>1. A \in Services /\ Forgets(A, svc, t) /\ \A j \in Instances : SameRest(A[j], svc[j])
  BY <1>0, AfterJobEffect DEF StructInv
<1>2. die([A EXCEPT ![i].proxyOnly = FALSE], EndTask(t), i, TRUE)
  BY DEF Refused
<1> HIDE DEF A
<1>3. [A EXCEPT ![i].proxyOnly = FALSE] = S
  BY <1>0, <1>1 DEF Services
<1>4. x \in Fields /\ SameRest(x, A[i]) /\ SameFields(x, A[i]) /\ x.startJob = A[i].startJob
  <2>1. A[i] \in Fields
    BY <1>0, <1>1 DEF Services
  <2> QED BY <2>1 DEF Fields, SameRest, SameFields
<1> HIDE DEF x
<1>5. S \in Services /\ S[i] = x /\ \A j \in Instances : j # i => S[j] = A[j]
  BY <1>0, <1>1, <1>4 DEF Services
<1>6. die(S, EndTask(t), task[t].inst, TRUE)
  BY <1>2, <1>3
<1> HIDE DEF S
<1>7. Forgets(S, svc, t) /\ \A j \in Instances : SameRest(S[j], svc[j])
  BY <1>1, <1>4, <1>5 DEF Forgets, SameRest, SameFields
<1>8. Exits(t)
  BY <1>0, <1>5, <1>6, <1>7, FailExits DEF inputVars
<1>9. GivesUp(t)
  BY <1>0 DEF GivesUp, Refused, Holds
<1> QED BY <1>0, <1>8, <1>9, ExitGood DEF Refused

LEMMA establishGood == ASSUME Plain, IInv, RestInv, NEW t \in Tasks, establish(t) PROVE Good
<1>1. /\ At(t, "start", "establish") /\ task[t].kind = "start" /\ task[t].pc = "establish"
      /\ UNCHANGED <<core, coreFd, side, zeptun, inputVars, reportVars>>
  BY DEF establish, At
<1>2. CASE task[t].cancelled /\ Leave(t) /\ UNCHANGED <<nextFd, openFds>>
  BY <1>1, <1>2, ExitAlone DEF coreVars
<1>3. CASE ~task[t].cancelled /\ \E mode \in Modes : Granted(t, mode)
  BY <1>1, <1>3, GrantedGood
<1>4. CASE ~task[t].cancelled /\ NoTun(t)
  BY <1>1, <1>4, NoTunGood
<1>5. CASE Refused(t)
  BY <1>1, <1>5, RefusedGood
<1> QED BY <1>2, <1>3, <1>4, <1>5 DEF establish

-----------------------------------------------------------------------------
(***************************************************************************)
(* Steps that leave engines, descriptors and start jobs where they are.    *)
(***************************************************************************)
LEMMA RestKeeps ==
  ASSUME RestInv, StructInv', Steadily, UNCHANGED <<coreVars, zeptun, nextFd>>, orphaned => orphaned',
         \A i \in Instances : side' = i => side = i \/ (svc[i].status # "none" /\ (Kept(i) \/ orphaned')),
         \A i \in Instances : /\ svc'[i].tunFd = svc[i].tunFd
                              /\ ~svc'[i].zeptunOwnsTun /\ svc'[i].blockFd = NoFd
                              /\ svc'[i].status = "none" => ~svc'[i].polling /\ ~svc'[i].enginesReady,
         \A u \in Tasks : /\ task'[u].kind # "switch"
                          /\ task'[u].kind = "start" => /\ SamePlace(task'[u], task[u])
                                                        /\ task[u].cancelled => task'[u].cancelled
                          /\ task[u].kind = "start" => SamePlace(task'[u], task[u]),
         StopInv', announced' = announced
                   \/ (announced' = "CONNECTED" /\ \E i \in Instances : Vouches(svc, task, i)),
         Serial /\ RealInv => RealInv'
  PROVE  Good
<1>0. \A u \in Tasks : task[u].kind # "none" => task[u].inst \in Instances
  BY DEF RestInv, StructInv, Struct, TasksOK
<1>1. PlainInv'
  BY DEF RestInv, PlainInv, SamePlace, coreVars
<1>2. KeptInv'
  <2>1. \A u \in Tasks : task'[u].kind = "start" /\ task'[u].pc # "queued" =>
           /\ task[u].kind = "start" /\ task[u].pc # "queued" /\ task'[u].inst = task[u].inst
           /\ task[u].inst \in Instances
    BY <1>0 DEF SamePlace
  <2>2. \A i \in Instances : Owns(i)' => Owns(i)
    BY DEF Owns
  <2> QED BY <2>1, <2>2, KeptStays DEF RestInv, Steadily, Steady, coreVars
<1>3. TunInv'
  <2>1. \A u \in Tasks : task'[u].kind = "start" => GoesOn(task'[u], task[u])
    BY DEF SamePlace, GoesOn, Early, Carries
  <2>2. \A u \in Tasks : Holds(task[u]) => Holds(task'[u]) /\ task'[u].fd = task[u].fd
    BY DEF SamePlace, Holds
  <2> QED BY <2>1, <2>2, TunStays DEF RestInv, coreVars
<1>4. VouchInv'
  BY VouchStays DEF RestInv, Steadily, Steady
<1> QED BY <1>1, <1>2, <1>3, <1>4 DEF Good, RestInv

LEMMA RestStays ==
  ASSUME RestInv, StructInv', Steadily, UNCHANGED <<coreVars, proxyVars, orphaned>>,
         \A i \in Instances : /\ svc'[i].tunFd = svc[i].tunFd /\ svc'[i].proxyOnly = svc[i].proxyOnly
                              /\ ~svc'[i].zeptunOwnsTun /\ svc'[i].blockFd = NoFd
                              /\ svc'[i].status = "none" => ~svc'[i].polling /\ ~svc'[i].enginesReady,
         \A u \in Tasks : /\ task'[u].kind # "switch"
                          /\ task'[u].kind = "start" => /\ SamePlace(task'[u], task[u])
                                                        /\ task[u].cancelled => task'[u].cancelled
                          /\ task[u].kind \in {"start", "reconnect"} => SamePlace(task'[u], task[u]),
         StopInv', announced' = announced
                   \/ (announced' = "CONNECTED" /\ \E i \in Instances : Vouches(svc, task, i))
  PROVE  Good
<1>1. RealInv => RealInv'
  BY RealStays DEF Steadily, Steady, SamePlace, coreVars, proxyVars
<1> QED BY <1>1, RestKeeps DEF proxyVars

LEMMA lockGood == ASSUME IInv, RestInv, NEW t \in Tasks, lock(t) PROVE Good
<1> DEFINE l == IF task[t].kind = "start" THEN "establish" ELSE "teardown"
<1>1. /\ TypeOK /\ GotoTask(t, l) /\ task[t].pc = "queued" /\ ~task[t].cancelled /\ task[t].kind # "none"
      /\ UNCHANGED <<coreVars, proxyVars, svc, inputVars, reportVars>>
  BY DEF lock, IInv
<1>2. /\ \A u \in Tasks : u # t => task'[u] = task[u]
      /\ task'[t].pc = l /\ task'[t].fd = task[t].fd
      /\ \A u \in Tasks : SameTask(task'[u], task[u])
  BY <1>1, GotoEffect DEF Pcs, StartPc, DiePc
<1>3. \A i \in Instances : SameFields(svc'[i], svc[i]) /\ svc'[i].startJob = svc[i].startJob
  BY <1>1 DEF SameFields
<1>4. StructInv'
  BY <1>1, <1>2, <1>3, StructSame DEF RestInv, StructInv, inputVars
<1>5. Steadily
  <2>1. \A u \in Tasks, i \in Instances : ToDestroy(task[u], i) => ToDestroy(task'[u], i)
    BY <1>2 DEF ToDestroy, SameTask
  <2> QED BY <1>2, <1>3, <2>1, SteadySame DEF Steadily
<1>6. PlainInv'
  <2>1. \A u \in Tasks : /\ task'[u].kind # "switch"
                         /\ task'[u].kind = "start" => task'[u].pc # "zeptunRun"
    BY <1>2 DEF RestInv, PlainInv, SameTask
  <2> QED BY <1>1, <2>1 DEF RestInv, PlainInv, coreVars, proxyVars
<1>7. KeptInv'
  <2>1. ASSUME NEW u \in Tasks, task'[u].kind = "start", task'[u].pc # "queued", u = t
        PROVE  task'[u].inst \in Instances /\ Kept(task'[u].inst)
    <3>1. task[t].kind = "start" /\ task'[t].inst = task[t].inst
      BY <1>2, <2>1 DEF SameTask
    <3>2. task[t].inst \in Instances /\ svc[task[t].inst].status \notin {"none", "destroyed"}
      BY <1>1, <3>1 DEF RestInv, StructInv, Struct, TasksOK, StartOK
    <3>3. svc[task[t].inst].status \in {"none", "live", "doomed", "destroyed"}
      BY <1>1, <3>2 DEF TypeOK, Fields
    <3> QED BY <2>1, <3>1, <3>2, <3>3 DEF Kept, Keeper, Alive, Touched, Has
  <2>2. \A u \in Tasks : task[u].kind = "start" => task[u].inst \in Instances
    BY DEF RestInv, StructInv, Struct, TasksOK
  <2>3. \A u \in Tasks : task'[u].kind = "start" /\ task'[u].pc # "queued" =>
           \/ task'[u].inst \in Instances /\ Kept(task'[u].inst)
           \/ /\ task[u].kind = "start" /\ task[u].pc # "queued" /\ task'[u].inst = task[u].inst
              /\ task[u].inst \in Instances
    BY <1>2, <2>1, <2>2
  <2> QED BY <1>1, <1>5, <2>3, KeptStays DEF RestInv, Steadily, Steady, coreVars, proxyVars, inputVars, Owns
<1>8. TunInv'
  <2>1. \A u \in Tasks : task'[u].kind = "start" => GoesOn(task'[u], task[u])
    BY <1>1, <1>2 DEF SameTask, GoesOn, Early, Carries
  <2>2. \A u \in Tasks : Holds(task[u]) => Holds(task'[u]) /\ task'[u].fd = task[u].fd
    BY <1>1, <1>2 DEF Holds
  <2> QED BY <1>1, <2>1, <2>2, TunStays DEF RestInv, coreVars
<1>9. StopInv' /\ VouchInv'
  BY <1>1, <1>5, StopStays, VouchStays DEF RestInv, Steadily, Steady, inputVars, reportVars
<1>10. RealInv => RealInv'
  <2>1. \A u \in Tasks : /\ task'[u].kind = "start" => \/ task'[u].pc \in {"queued", "establish"}
                                                        \/ SamePlace(task'[u], task[u])
                         /\ task[u].kind = "reconnect" => /\ task'[u].kind = "reconnect"
                                                          /\ task'[u].inst = task[u].inst
    BY <1>2 DEF SamePlace, SameTask
  <2> QED BY <1>1, <1>5, <2>1, RealStays DEF Steadily, Steady, coreVars, proxyVars, reportVars
<1> QED BY <1>4, <1>6, <1>7, <1>8, <1>9, <1>10 DEF Good, RestInv

LEMMA cancelledInQueueGood == ASSUME IInv, RestInv, NEW t \in Tasks, cancelledInQueue(t) PROVE Good
<1>1. /\ TypeOK /\ task[t].pc = "queued" /\ task[t].cancelled /\ task[t].kind # "none"
      /\ task' = EndTask(t) /\ svc' = AfterJob(t)
      /\ UNCHANGED <<coreVars, proxyVars, inputVars, reportVars>>
      /\ task \in Coros
  BY DEF cancelledInQueue, IInv, TypeOK, Coros
<1>2. CASE task[t].kind = "start"
  <2>1. Exits(t)
    BY <1>1, <1>2, LeaveExits DEF RestInv, inputVars
  <2>2. GivesUp(t)
    BY <1>1 DEF GivesUp, Holds, coreVars
  <2> QED BY <1>1, <1>2, <2>1, <2>2, ExitGood DEF proxyVars
<1>3. CASE task[t].kind = "die"
  <2>1. svc[task[t].inst].status = "destroyed"
    BY <1>1, <1>3 DEF RestInv, StructInv, Struct, TasksOK, DieOK
  <2>2. Drops(task', task, t) /\ \A u \in Tasks : u # t => task'[u] = task[u]
    BY <1>1, EndEffect
  <2>3. /\ Forgets(svc', svc, t)
        /\ \A i \in Instances : SameRest(svc'[i], svc[i]) /\ svc'[i].proxyOnly = svc[i].proxyOnly
    BY <1>1, AfterJobEffect DEF RestInv, StructInv
  <2>4. StructInv'
    BY <1>1, <1>3, <2>1, <2>2, <2>3, StructDrops DEF RestInv, StructInv, inputVars
  <2>5. Steadily
    BY <1>3, <2>1, <2>2, <2>3, SteadyDrops DEF RestInv, StructInv, Drops, Steadily
  <2>6. \A i \in Instances : /\ svc'[i].tunFd = svc[i].tunFd /\ svc'[i].proxyOnly = svc[i].proxyOnly
                             /\ ~svc'[i].zeptunOwnsTun /\ svc'[i].blockFd = NoFd
                             /\ svc'[i].status = "none" => ~svc'[i].polling /\ ~svc'[i].enginesReady
    BY <2>3 DEF RestInv, PlainInv, SameRest, SameFields, Forgets
  <2>7. \A u \in Tasks : /\ task'[u].kind # "switch"
                         /\ task'[u].kind = "start" => task'[u] = task[u]
                         /\ task[u].kind = "start" => task'[u] = task[u]
    BY <1>3, <2>2 DEF RestInv, PlainInv, Drops
  <2>8. StopInv'
    BY <1>1, <2>5, StopStays DEF RestInv, Steadily, Steady, inputVars
  <2>9. \A u \in Tasks : task[u].kind = "reconnect" => task'[u] = task[u]
    BY <1>3, <2>2
  <2> QED BY <1>1, <2>4, <2>5, <2>6, <2>7, <2>8, <2>9, RestStays DEF SamePlace, inputVars, reportVars
<1>4. CASE task[t].kind = "destroy"
  BY <1>1, <1>4 DEF RestInv, StructInv, Struct, TasksOK, DestroyOK
<1>5. task[t].kind \in {"none", "start", "die", "destroy", "switch", "reconnect"}
  BY <1>1 DEF Coros, Coroutine
<1>6. task[t].kind # "reconnect"
  BY <1>1 DEF IInv, LockInv, WellFormed, SwitchPc
<1> QED BY <1>1, <1>2, <1>3, <1>4, <1>5, <1>6 DEF RestInv, PlainInv

(***************************************************************************)
(* A start that succeeds is the last start of its instance, unless that    *)
(* one is being torn down.                                                 *)
(***************************************************************************)
LEMMA LastStart ==
  ASSUME StructInv, NEW t \in Tasks, task[t].kind = "start", Well(svc, task, task[t].inst),
         NEW u \in Tasks, task[u].kind = "start", task[u].inst = task[t].inst
  PROVE  u = t
<1>1. ~task[t].cancelled /\ ~task[u].cancelled
  BY DEF StructInv, Struct, TasksOK, StartOK, Well
<1> QED BY <1>1, OneStart

LEMMA publishGood == ASSUME IInv, RestInv, NEW t \in Tasks, publish(t) PROVE Good
<1> SUFFICES ASSUME NEW i, i = task[t].inst PROVE Good
  OBVIOUS
<1> DEFINE A == AfterJob(t)
           b == svc[i].scopeActive
           x == [A[i] EXCEPT !.enginesReady = TRUE, !.polling = b]
<1>1. /\ TypeOK /\ StructInv /\ svc \in Services
      /\ task[t].kind = "start" /\ task[t].pc = "publish"
      /\ i \in Instances /\ svc[i].status # "none" /\ Kept(i)
  BY DEF publish, At, IInv, TypeOK, Services, RestInv, StructInv, Struct, TasksOK, KeptInv
<1>2. /\ task' = EndTask(t) /\ announced' = "CONNECTED"
      /\ UNCHANGED <<coreVars, proxyVars, inputVars>>
  BY DEF publish, Broadcast
<1>3. /\ A \in Services /\ Forgets(A, svc, t)
      /\ \A j \in Instances : SameRest(A[j], svc[j]) /\ A[j].proxyOnly = svc[j].proxyOnly
  BY <1>1, AfterJobEffect DEF StructInv
<1>4. Drops(task', task, t) /\ \A u \in Tasks : u # t => task'[u] = task[u]
  BY <1>1, <1>2, EndEffect
<1>5. svc' = [A EXCEPT ![i].enginesReady = TRUE, ![i].polling = svc[i].scopeActive]
  BY DEF publish
<1> HIDE DEF A
<1>6. svc' = [A EXCEPT ![i] = x] /\ A[i] \in Fields
  BY <1>1, <1>3, <1>5 DEF Services
<1>7. /\ x.enginesReady /\ x.status = A[i].status /\ x.tearingDown = A[i].tearingDown
      /\ x.scopeActive = A[i].scopeActive /\ x.startJob = A[i].startJob
      /\ x.tunFd = A[i].tunFd /\ x.blockFd = A[i].blockFd
      /\ x.zeptunOwnsTun = A[i].zeptunOwnsTun
  BY <1>6 DEF Fields
<1> HIDE DEF x
<1>8. svc'[i] = x /\ \A j \in Instances : j # i => svc'[j] = A[j]
  BY <1>1, <1>3, <1>6 DEF Services
<1>9. Struct(A, task', current)
  BY <1>1, <1>3, <1>4, StructDrops DEF StructInv
<1>10. /\ StopsStay(svc, task, A, task') /\ VouchersStay(svc, task, A, task')
       /\ NoneRecovers(svc, task, A, task')
  BY <1>1, <1>3, <1>4, MostDrops DEF Drops
<1>11. \A j \in Instances : /\ svc'[j].status = A[j].status /\ svc'[j].tearingDown = A[j].tearingDown
                            /\ svc'[j].scopeActive = A[j].scopeActive /\ svc'[j].startJob = A[j].startJob
                            /\ j # i => svc'[j].enginesReady = A[j].enginesReady
  BY <1>7, <1>8
<1>12. svc'[i].enginesReady /\ svc'[i].status = svc[i].status
  BY <1>1, <1>3, <1>7, <1>8 DEF Forgets, SameFields
<1>13. ASSUME NEW j \in Instances, Well(svc', task', j) PROVE Well(svc, task, j)
  <2>1. Well(A, task', j)
    BY <1>11, <1>13 DEF Well
  <2> QED BY <1>10, <2>1 DEF NoneRecovers
<1>14. StructInv'
  <2>1. CurrentOK(svc', current)
    BY <1>9, <1>11 DEF Struct, CurrentOK, Alive
  <2>2. TasksOK(svc', task')
    <3>1. ASSUME NEW u \in Tasks PROVE NetOK(svc', task', u)
      <4>1. NetOK(A, task', u) /\ (task'[u].kind # "none" => task'[u].inst \in Instances)
        BY <1>9 DEF Struct, TasksOK
      <4> QED BY <1>11, <1>12, <4>1 DEF NetOK
    <3> QED BY <1>9, <1>11, <3>1 DEF Struct, TasksOK, StartOK, DieOK, DestroyOK
  <2>3. FieldsOK(svc', task')
    <3>1. Well(svc', task', i) => ~Has(task', "start", i)
      <4> SUFFICES ASSUME Well(svc', task', i), NEW u \in Tasks, task'[u].kind = "start", task'[u].inst = i
                   PROVE  FALSE
        BY DEF Has
      <4>1. u # t /\ task[u] = task'[u]
        BY <1>4 DEF Drops
      <4> QED BY <1>1, <1>13, <4>1, LastStart
    <3> SUFFICES ASSUME NEW j \in Instances
                 PROVE  /\ JobOK(svc', task', j)
                        /\ Alive(svc', j) => svc'[j].scopeActive
                        /\ svc'[j].status = "destroyed" => svc'[j].tearingDown
                        /\ svc'[j].status = "live" /\ svc'[j].tearingDown => Has(task', "die", j)
                        /\ svc'[j].status = "live" /\ svc'[j].enginesReady =>
                             Has(task', "die", j) \/ ~Has(task', "start", j)
      BY DEF FieldsOK
    <3>2. JobOK(svc', task', j)
      BY <1>9, <1>11 DEF Struct, FieldsOK, JobOK
    <3> QED BY <1>9, <1>11, <3>1, <3>2 DEF Struct, FieldsOK, Alive, Well
  <2> QED BY <1>2, <2>1, <2>2, <2>3 DEF StructInv, Struct, inputVars
<1>15. KeepersStay(svc, task, svc', task')
  <2>0. \A j \in Instances : svc'[j].status = svc[j].status
    BY <1>3, <1>11 DEF Forgets, SameFields
  <2> SUFFICES ASSUME NEW j \in Instances, Keeper(svc, task, j) PROVE Keeper(svc', task', j)
    BY <2>0 DEF KeepersStay
  <2>1. CASE j # i
    <3>1. Keeper(A, task', j)
      BY <1>1, <1>3, <1>4, <2>1, OthersKeep DEF Drops
    <3> QED BY <1>11, <2>1, <3>1 DEF Keeper, Alive, Touched
  <2>2. CASE j = i
    <3>1. (\E u \in Tasks : ToDestroy(task[u], i)) => \E u \in Tasks : ToDestroy(task'[u], i)
      BY <1>1, <1>4 DEF ToDestroy
    <3> QED BY <1>12, <2>2, <3>1 DEF Keeper, Alive, Touched
  <2> QED BY <2>1, <2>2
<1>16. StopsStay(svc, task, svc', task')
  <2> SUFFICES ASSUME NEW j \in Instances, Well(svc', task', j), Touched(svc', task', j)
               PROVE  Well(svc, task, j) /\ Touched(svc, task, j)
    BY DEF StopsStay
  <2>1. CASE j = i
    BY <1>1, <1>13, <2>1 DEF Touched, Has
  <2>2. CASE j # i
    <3>1. Well(A, task', j) /\ Touched(A, task', j)
      BY <1>11, <2>2 DEF Well, Touched
    <3> QED BY <1>10, <3>1 DEF StopsStay
  <2> QED BY <2>1, <2>2
<1>17. PlainInv'
  <2>1. \A j \in Instances : /\ ~svc'[j].zeptunOwnsTun /\ svc'[j].blockFd = NoFd
                             /\ svc'[j].status = "none" => ~svc'[j].polling /\ ~svc'[j].enginesReady
    <3> SUFFICES ASSUME NEW j \in Instances
                 PROVE  /\ ~svc'[j].zeptunOwnsTun /\ svc'[j].blockFd = NoFd
                        /\ svc'[j].status = "none" => ~svc'[j].polling /\ ~svc'[j].enginesReady
      OBVIOUS
    <3>1. CASE j = i
      BY <1>1, <1>3, <1>7, <1>8, <1>12, <3>1 DEF RestInv, PlainInv, SameRest
    <3>2. CASE j # i
      BY <1>3, <1>8, <3>2 DEF RestInv, PlainInv, SameRest, Forgets, SameFields
    <3> QED BY <3>1, <3>2
  <2>2. \A u \in Tasks : /\ task'[u].kind # "switch"
                         /\ task'[u].kind = "start" => task'[u].pc # "zeptunRun"
    BY <1>4 DEF RestInv, PlainInv, Drops
  <2> QED BY <1>2, <2>1, <2>2 DEF RestInv, PlainInv, coreVars, proxyVars
<1>18. \A j \in Instances : svc'[j].tunFd = svc[j].tunFd
  BY <1>3, <1>7, <1>8 DEF SameRest
<1>19. KeptInv'
  <2>1. \A u \in Tasks : task'[u].kind = "start" => task'[u] = task[u] /\ task[u].inst \in Instances
    BY <1>1, <1>4 DEF Drops, StructInv, Struct, TasksOK
  <2> QED BY <1>2, <1>15, <1>18, <2>1, KeptStays DEF RestInv, Owns, coreVars, proxyVars, inputVars
<1>20. TunInv'
  <2>1. \A u \in Tasks : task'[u].kind = "start" => GoesOn(task'[u], task[u])
    BY <1>4 DEF Drops, GoesOn, Early, Carries
  <2>2. \A u \in Tasks : Holds(task[u]) => Holds(task'[u]) /\ task'[u].fd = task[u].fd
    BY <1>1, <1>4 DEF Holds
  <2> QED BY <1>2, <1>18, <2>1, <2>2, TunStays DEF RestInv, coreVars
<1>21. StopInv'
  BY <1>2, <1>16, StopStays DEF RestInv, inputVars
<1>22. VouchInv'
  <2>1. CASE svc[i].status = "live"
    <3>1. svc'[i].tearingDown => Has(task', "die", i)
      BY <1>1, <1>12, <1>14, <2>1 DEF StructInv, Struct, FieldsOK
    <3> QED BY <1>1, <1>12, <2>1, <3>1 DEF VouchInv, Vouches
  <2>2. CASE svc[i].status # "live"
    <3>1. Kept(i) => Kept(i)'
      BY <1>1, <1>15 DEF KeepersStay, Kept
    <3>2. svc'[i].status = "doomed" \/ Has(task', "destroy", i)
      BY <1>1, <1>12, <2>2, <3>1 DEF Kept, Keeper, Alive, Has, ToDestroy
    <3> QED BY <1>1, <3>2 DEF VouchInv, Vouches
  <2> QED BY <2>1, <2>2
<1>23. Serial /\ RealInv => RealInv'
  <2> SUFFICES ASSUME Serial, RealInv, NEW j \in Instances, Well(svc', task', j) PROVE Real(j)'
    BY DEF RealInv
  <2>1. Well(svc, task, j) /\ j = i /\ Real(j)
    BY <1>1, <1>13, OnlyOne DEF RealInv
  <2>2. Engine(j)'
    BY <1>1, <1>2, <2>1 DEF Real, ProgressOK, Engine, coreVars, proxyVars
  <2>3. ASSUME NEW u \in Tasks PROVE ProgressOK(u, j)'
    <3>1. CASE u = t
      BY <1>4, <3>1 DEF ProgressOK, Drops
    <3>2. CASE u # t
      <4>1. InSection(task[t]) /\ (InSection(task[u]) => engineLock = u) /\ engineLock = t
        BY <1>1 DEF IInv, LockInv, InSection
      <4>2. task'[u].kind = "start" => task'[u].pc = "queued"
        BY <1>4, <3>2, <4>1 DEF InSection
      <4> QED BY <4>2 DEF ProgressOK
    <3> QED BY <3>1, <3>2
  <2> QED BY <1>2, <2>2, <2>3 DEF Real
<1> QED BY <1>14, <1>17, <1>19, <1>20, <1>21, <1>22, <1>23 DEF Good, RestInv

-----------------------------------------------------------------------------
(***************************************************************************)
(* A teardown stops Xray and the engine and closes the tun of its          *)
(* instance; no start is in its section meanwhile.                         *)
(***************************************************************************)
LEMMA CloseTun ==
  ASSUME LockInv, RestInv, NEW t \in Tasks, engineLock = t, task[t].kind # "start",
         task'[t].kind # "start", \A u \in Tasks : u # t => task'[u] = task[u],
         NEW i \in Instances, ~svc'[i].tunFd.own,
         \A j \in Instances : j # i => svc'[j].tunFd = svc[j].tunFd,
         openFds' \subseteq openFds \ ({coreFd} \cup Closes(svc[i].tunFd))
  PROVE  TunInv' /\ \A u \in Tasks : task'[u].kind = "start" => task'[u].pc = "queued"
<1>1. \A u \in Tasks : task[u].kind = "start" => task[u].pc = "queued"
  BY DEF LockInv, InSection
<1>2. \A u \in Tasks : task'[u].kind = "start" => task'[u] = task[u] /\ task'[u].pc = "queued"
  BY <1>1
<1>3. \A u \in Tasks : task[u].kind # "none" => task[u].inst \in Instances
  BY DEF RestInv, StructInv, Struct, TasksOK
<1>4. NoTunYet'
  BY <1>2, <1>3 DEF RestInv, TunInv, NoTunYet, Early, Owns
<1>5. CarryInv'
  BY <1>2 DEF CarryInv, Carries
<1>6. ASSUME NEW f \in openFds' PROVE Held(f)'
  <2>1. Held(f) /\ f # coreFd /\ f \notin Closes(svc[i].tunFd)
    BY <1>6 DEF RestInv, TunInv
  <2>2. \A u \in Tasks : ~Holds(task[u])
    BY <1>1 DEF Holds
  <2>3. PICK j \in Instances : Owns(j) /\ svc[j].tunFd.fd = f
    BY <2>1, <2>2 DEF Held
  <2>4. j # i
    BY <2>1, <2>3 DEF Closes, Owns
  <2>5. svc'[j].tunFd = svc[j].tunFd
    BY <2>4
  <2> QED BY <2>3, <2>5 DEF Held, Owns
<1> QED BY <1>2, <1>4, <1>5, <1>6 DEF TunInv

LEMMA teardownGood == ASSUME IInv, RestInv, NEW t \in Tasks, teardown(t) PROVE Good
<1> DEFINE i == task[t].inst
           x == [svc[i] EXCEPT !.tunFd = Null, !.polling = FALSE, !.zeptunOwnsTun = FALSE]
<1>1. /\ TypeOK /\ LockInv /\ svc \in Services /\ i \in Instances /\ engineLock = t
      /\ task[t].kind = "die" /\ GotoTask(t, "end")
  BY TypeSplit DEF IInv, teardown, At, LockInv, WellFormed, InSection
<1>2. /\ core' = FALSE /\ coreFd' = NoFd /\ side' = 0
      /\ openFds' = openFds \ ({coreFd} \cup Closes(svc[i].tunFd))
      /\ zeptun' = zeptun
      /\ UNCHANGED <<nextFd, inputVars, reportVars>>
  BY <1>1 DEF teardown, CoreStop, StopZeptun, RestInv, PlainInv
<1>3. svc' = [svc EXCEPT ![i] = x]
  BY <1>1 DEF teardown, Services
<1>4. /\ ~x.tunFd.own /\ x.blockFd = svc[i].blockFd /\ SameFields(x, svc[i])
      /\ x.startJob = svc[i].startJob /\ ~x.polling
      /\ ~x.zeptunOwnsTun
  BY <1>1, NullType DEF Services, Fields, SameFields
<1> HIDE DEF x
<1>5. svc'[i] = x /\ \A j \in Instances : j # i => svc'[j] = svc[j]
  BY <1>1, <1>3 DEF Services
<1>6. /\ \A u \in Tasks : u # t => task'[u] = task[u]
      /\ \A u \in Tasks : SameTask(task'[u], task[u])
  BY <1>1, GotoEffect DEF Pcs, DiePc
<1>7. \A j \in Instances : /\ SameFields(svc'[j], svc[j]) /\ svc'[j].startJob = svc[j].startJob
                           /\ ~svc'[j].zeptunOwnsTun /\ svc'[j].blockFd = NoFd
                           /\ svc'[j].status = "none" => ~svc'[j].polling /\ ~svc'[j].enginesReady
                           /\ svc'[j].tunFd.own => svc[j].tunFd.own
  BY <1>4, <1>5 DEF RestInv, PlainInv, SameFields
<1>8. StructInv'
  BY <1>2, <1>6, <1>7, StructSame DEF RestInv, StructInv, inputVars
<1>9. Steadily
  <2>1. \A u \in Tasks, j \in Instances : ToDestroy(task[u], j) => ToDestroy(task'[u], j)
    BY <1>1, <1>6 DEF ToDestroy
  <2> QED BY <1>6, <1>7, <2>1, SteadySame DEF Steadily
<1>10. TunInv' /\ \A u \in Tasks : task'[u].kind = "start" => task'[u].pc = "queued"
  <2>1. ~svc'[i].tunFd.own /\ \A j \in Instances : j # i => svc'[j].tunFd = svc[j].tunFd
    BY <1>4, <1>5
  <2>2. task'[t].kind # "start"
    BY <1>1, <1>6 DEF SameTask
  <2> HIDE DEF i
  <2> QED BY <1>1, <1>2, <1>6, <2>1, <2>2, CloseTun
<1>11. PlainInv'
  <2>1. \A u \in Tasks : task'[u].kind # "switch"
    BY <1>6 DEF RestInv, PlainInv, SameTask
  <2>2. NoFd \notin openFds'
    BY <1>2 DEF RestInv, PlainInv
  <2> QED BY <1>2, <1>7, <1>10, <2>1, <2>2 DEF RestInv, PlainInv
<1>12. KeptInv'
  <2>1. \A j \in Instances : side' # j
    BY <1>2 DEF Instances
  <2> QED BY <1>2, <1>7, <1>9, <1>10, <2>1, KeptStays DEF RestInv, Steadily, Steady, Owns, inputVars
<1>13. StopInv' /\ VouchInv'
  BY <1>2, <1>9, StopStays, VouchStays DEF RestInv, Steadily, Steady, inputVars, reportVars
<1>14. Serial => RealInv'
  <2>1. ~Well(svc', task', i)
    BY <1>1, <1>6 DEF Well, Has, SameTask
  <2> QED BY <1>1, <1>9, <2>1, RealVoid DEF RestInv, Steadily, Steady
<1> QED BY <1>8, <1>10, <1>11, <1>12, <1>13, <1>14 DEF Good, RestInv

LEMMA enterKillSwitchGood == ASSUME Plain, NEW t \in Tasks, enterKillSwitch(t) PROVE Good
BY DEF enterKillSwitch, Plain

(***************************************************************************)
(* An instance calls stopSelf.                                             *)
(***************************************************************************)
Dooms(R, S, i) == \A j \in Instances :
  /\ SameRest(R[j], S[j]) /\ R[j].startJob = S[j].startJob /\ R[j].proxyOnly = S[j].proxyOnly
  /\ R[j].tearingDown = S[j].tearingDown /\ R[j].enginesReady = S[j].enginesReady
  /\ R[j].scopeActive = S[j].scopeActive
  /\ j # i => R[j].status = S[j].status
  /\ j = i => R[j].status = IF S[j].status = "live" THEN "doomed" ELSE S[j].status

LEMMA StructDooms ==
  ASSUME NEW S, NEW T, NEW R, NEW cur, Struct(S, T, cur), NEW i \in Instances, Dooms(R, S, i)
  PROVE  Struct(R, T, cur) /\ Steady(S, T, R, T)
<1>1. \A j \in Instances : /\ R[j].status = "none" <=> S[j].status = "none"
                           /\ R[j].status = "destroyed" <=> S[j].status = "destroyed"
                           /\ R[j].status = "live" => S[j].status = "live"
                           /\ Alive(R, j) <=> Alive(S, j)
  BY DEF Dooms, Alive
<1>2. CurrentOK(R, cur)
  BY <1>1 DEF Struct, CurrentOK
<1>3. TasksOK(R, T)
  <2> SUFFICES ASSUME NEW t \in Tasks
               PROVE  /\ T[t].kind # "none" => T[t].inst \in Instances /\ R[T[t].inst].status # "none"
                      /\ StartOK(R, T, t) /\ DieOK(R, T, t) /\ DestroyOK(R, T, t) /\ NetOK(R, T, t)
    BY DEF TasksOK
  <2>1. /\ T[t].kind # "none" => T[t].inst \in Instances /\ S[T[t].inst].status # "none"
        /\ StartOK(S, T, t) /\ DieOK(S, T, t) /\ DestroyOK(S, T, t) /\ NetOK(S, T, t)
    BY DEF Struct, TasksOK
  <2>2. T[t].kind # "none" => T[t].inst \in Instances /\ R[T[t].inst].status # "none"
    BY <1>1, <2>1
  <2>3. StartOK(R, T, t)
    BY <1>1, <2>1 DEF StartOK, Dooms
  <2>4. DieOK(R, T, t) /\ DestroyOK(R, T, t)
    BY <1>1, <2>1 DEF DieOK, DestroyOK
  <2>5. NetOK(R, T, t)
    BY <1>1, <2>1 DEF NetOK, Dooms
  <2> QED BY <2>2, <2>3, <2>4, <2>5
<1>4. FieldsOK(R, T)
  BY <1>1 DEF Struct, FieldsOK, JobOK, Dooms
<1>5. \A j \in Instances : Touched(S, T, j) => Touched(R, T, j)
  BY DEF Touched, Dooms
<1>6. KeepersStay(S, T, R, T)
  BY <1>1, <1>5 DEF KeepersStay, Keeper
<1>7. StopsStay(S, T, R, T) /\ NoneRecovers(S, T, R, T)
  BY <1>1 DEF StopsStay, NoneRecovers, Well, Touched, Dooms
<1>8. VouchersStay(S, T, R, T)
  BY DEF VouchersStay, Vouches, Dooms
<1> QED BY <1>2, <1>3, <1>4, <1>6, <1>7, <1>8 DEF Struct, Steady

LEMMA stopSelfGood == ASSUME IInv, RestInv, NEW t \in Tasks, stopSelf(t) PROVE Good
<1> DEFINE i == task[t].inst
           e == task[t].error
           s == IF svc[i].status = "live" THEN "doomed" ELSE svc[i].status
           x == [svc[i] EXCEPT !.endError = e, !.status = s]
<1>1. /\ TypeOK /\ LockInv /\ svc \in Services /\ i \in Instances
      /\ task[t].kind = "die" /\ task' = EndTask(t)
      /\ UNCHANGED <<coreVars, proxyVars, inputVars, reportVars>>
  BY TypeSplit DEF IInv, stopSelf, At, LockInv, WellFormed
<1>2. svc' = [svc EXCEPT ![i] = x]
  BY <1>1 DEF stopSelf, Services
<1>3. /\ SameRest(x, svc[i]) /\ x.startJob = svc[i].startJob /\ x.proxyOnly = svc[i].proxyOnly
      /\ x.tearingDown = svc[i].tearingDown /\ x.enginesReady = svc[i].enginesReady
      /\ x.scopeActive = svc[i].scopeActive /\ x.status = s
  BY <1>1 DEF Services, Fields, SameRest
<1> HIDE DEF x
<1>4. Dooms(svc', svc, i)
  BY <1>1, <1>2, <1>3 DEF Dooms, Services, SameRest
<1>5. Struct(svc', task, current) /\ Steady(svc, task, svc', task)
  BY <1>1, <1>4, StructDooms DEF RestInv, StructInv
<1>6. Drops(task', task, t) /\ \A u \in Tasks : u # t => task'[u] = task[u]
  BY <1>1, EndEffect
<1>7. svc'[i].status # "live"
  BY <1>1, <1>4 DEF Dooms
<1>8. Forgets(svc', svc', t)
  <2>1. \A j \in Instances : svc'[j].startJob # t
    BY <1>1, <1>5 DEF Struct, FieldsOK, JobOK, Tasks, NoTask
  <2> QED BY <2>1 DEF Forgets, SameFields
<1>9. StructInv'
  BY <1>1, <1>5, <1>6, <1>7, <1>8, StructDrops DEF StructInv, inputVars
<1>10. Steadily
  <2>1. Steady(svc', task, svc', task')
    BY <1>1, <1>5, <1>6, <1>7, <1>8, SteadyDrops DEF Drops
  <2> QED BY <1>5, <2>1, SteadyTrans DEF Steadily
<1>11. \A j \in Instances : /\ svc'[j].tunFd = svc[j].tunFd /\ svc'[j].proxyOnly = svc[j].proxyOnly
                            /\ ~svc'[j].zeptunOwnsTun /\ svc'[j].blockFd = NoFd
                            /\ svc'[j].status = "none" => ~svc'[j].polling /\ ~svc'[j].enginesReady
  BY <1>4 DEF RestInv, PlainInv, SameRest, Dooms
<1>12. \A u \in Tasks : /\ task'[u].kind # "switch"
                        /\ task'[u].kind = "start" => task'[u] = task[u]
                        /\ task[u].kind \in {"start", "reconnect"} => task'[u] = task[u]
  BY <1>1, <1>6 DEF RestInv, PlainInv, Drops
<1>13. StopInv'
  BY <1>1, <1>10, StopStays DEF RestInv, Steadily, Steady, inputVars
<1> QED BY <1>1, <1>9, <1>10, <1>11, <1>12, <1>13, RestStays DEF SamePlace, inputVars, reportVars

LEMMA destroyTeardownGood == ASSUME IInv, RestInv, NEW t \in Tasks, destroyTeardown(t) PROVE Good
<1> DEFINE i == task[t].inst
           x == [svc[i] EXCEPT !.tunFd = Null, !.blockFd = NoFd]
<1>1. /\ TypeOK /\ LockInv /\ svc \in Services /\ i \in Instances /\ engineLock = t
      /\ task[t].kind = "destroy" /\ GotoTask(t, "report")
  BY TypeSplit DEF IInv, destroyTeardown, At, LockInv, WellFormed, InSection
<1>2. /\ core' = FALSE /\ coreFd' = NoFd /\ side' = 0 /\ openFds' \subseteq openFds
      /\ openFds' \subseteq openFds \ ({coreFd} \cup Closes(svc[i].tunFd))
      /\ UNCHANGED <<zeptun, nextFd, inputVars, reportVars>>
  BY DEF destroyTeardown, CoreStop
<1>3. svc' = [svc EXCEPT ![i] = x]
  BY <1>1 DEF destroyTeardown, Services
<1>4. /\ ~x.tunFd.own /\ x.blockFd = NoFd /\ SameFields(x, svc[i])
      /\ x.startJob = svc[i].startJob /\ x.polling = svc[i].polling
      /\ x.zeptunOwnsTun = svc[i].zeptunOwnsTun
  BY <1>1, NullType DEF Services, Fields, SameFields
<1> HIDE DEF x
<1>5. svc'[i] = x /\ \A j \in Instances : j # i => svc'[j] = svc[j]
  BY <1>1, <1>3 DEF Services
<1>6. /\ \A u \in Tasks : u # t => task'[u] = task[u]
      /\ \A u \in Tasks : SameTask(task'[u], task[u])
  BY <1>1, GotoEffect DEF Pcs, DestroyPc
<1>7. \A j \in Instances : /\ SameFields(svc'[j], svc[j]) /\ svc'[j].startJob = svc[j].startJob
                           /\ ~svc'[j].zeptunOwnsTun /\ svc'[j].blockFd = NoFd
                           /\ svc'[j].status = "none" => ~svc'[j].polling /\ ~svc'[j].enginesReady
                           /\ svc'[j].tunFd.own => j # i /\ svc[j].tunFd.own
  BY <1>4, <1>5 DEF RestInv, PlainInv, SameFields
<1>8. StructInv'
  BY <1>2, <1>6, <1>7, StructSame DEF RestInv, StructInv, inputVars
<1>9. /\ StopsStay(svc, task, svc', task') /\ VouchersStay(svc, task, svc', task')
      /\ NoneRecovers(svc, task, svc', task')
      /\ \A j \in Instances : Alive(svc, j) /\ Touched(svc, task, j) =>
                                Alive(svc', j) /\ Touched(svc', task', j)
  BY <1>6, <1>7, MostSame
<1>10. TunInv' /\ \A u \in Tasks : task'[u].kind = "start" => task'[u].pc = "queued"
  <2>1. ~svc'[i].tunFd.own /\ \A j \in Instances : j # i => svc'[j].tunFd = svc[j].tunFd
    BY <1>4, <1>5
  <2>2. task'[t].kind # "start"
    BY <1>1, <1>6 DEF SameTask
  <2> HIDE DEF i
  <2> QED BY <1>1, <1>2, <1>6, <2>1, <2>2, CloseTun
<1>11. PlainInv'
  <2>1. \A u \in Tasks : task'[u].kind # "switch"
    BY <1>6 DEF RestInv, PlainInv, SameTask
  <2>2. NoFd \notin openFds'
    BY <1>2 DEF RestInv, PlainInv
  <2> QED BY <1>2, <1>7, <1>10, <2>1, <2>2 DEF RestInv, PlainInv
<1>12. KeptInv'
  <2> SUFFICES ASSUME NEW j \in Instances, Owns(j)' PROVE Kept(j)'
    BY <1>2, <1>10 DEF KeptInv, Instances
  <2>1. j # i /\ Keeper(svc, task, j)
    BY <1>7 DEF Owns, RestInv, KeptInv, Kept
  <2>2. CASE Alive(svc, j) /\ Touched(svc, task, j)
    BY <1>9, <2>2 DEF Kept, Keeper
  <2>3. ASSUME NEW u \in Tasks, ToDestroy(task[u], j) PROVE Kept(j)'
    <3>1. u # t
      BY <2>1, <2>3 DEF ToDestroy
    <3> QED BY <1>6, <2>3, <3>1 DEF Kept, Keeper
  <2> QED BY <2>1, <2>2, <2>3 DEF Keeper
<1>13. StopInv' /\ VouchInv'
  BY <1>2, <1>9, StopStays, VouchStays DEF RestInv, inputVars, reportVars
<1>14. Serial => RealInv'
  <2>1. ~Well(svc', task', i)
    BY <1>1, <1>7 DEF Well, SameFields, RestInv, StructInv, Struct, TasksOK, DestroyOK
  <2> QED BY <1>1, <1>9, <2>1, RealVoid DEF RestInv
<1> QED BY <1>8, <1>10, <1>11, <1>12, <1>13, <1>14 DEF Good, RestInv

LEMMA destroyReportGood == ASSUME IInv, RestInv, NEW t \in Tasks, destroyReport(t) PROVE Good
<1> DEFINE i == task[t].inst
           x == [svc[i] EXCEPT !.scopeActive = FALSE, !.polling = FALSE]
<1>1. /\ TypeOK /\ LockInv /\ svc \in Services /\ task \in Coros /\ i \in Instances
      /\ task[t].kind = "destroy" /\ task[t].pc = "report"
      /\ svc[i].status = "destroyed"
      /\ UNCHANGED <<coreVars, proxyVars, inputVars>>
  BY TypeSplit DEF IInv, destroyReport, At, LockInv, WellFormed, RestInv, StructInv, Struct, TasksOK, DestroyOK
<1>2. announced' # "CONNECTED"
  BY DEF destroyReport, Broadcast
<1>3. svc' = [svc EXCEPT ![i] = x]
  BY <1>1 DEF destroyReport, Services
<1>4. /\ x.startJob = svc[i].startJob
      /\ x.proxyOnly = svc[i].proxyOnly /\ x.tunFd = svc[i].tunFd /\ x.blockFd = svc[i].blockFd
      /\ x.zeptunOwnsTun = svc[i].zeptunOwnsTun
      /\ x.status = svc[i].status /\ x.tearingDown = svc[i].tearingDown
      /\ x.enginesReady = svc[i].enginesReady
  BY <1>1 DEF Services, Fields, SameRest
<1> HIDE DEF x
<1>5. svc'[i] = x /\ \A j \in Instances : j # i => svc'[j] = svc[j]
  BY <1>1, <1>3 DEF Services
<1>6. \A u \in Tasks : /\ u = t => task'[u].kind = "none"
                       /\ u # t => /\ SamePlace(task'[u], task[u])
                                   /\ task[u].cancelled => task'[u].cancelled
                                   /\ task'[u].cancelled => task[u].cancelled \/ task[u].inst = i
  BY <1>1 DEF destroyReport, Coros, Coroutine, SamePlace, Ended
<1>7. \A j \in Instances : /\ svc'[j].status = svc[j].status /\ svc'[j].tearingDown = svc[j].tearingDown
                           /\ svc'[j].enginesReady = svc[j].enginesReady
                           /\ svc'[j].startJob = svc[j].startJob /\ svc'[j].proxyOnly = svc[j].proxyOnly
                           /\ svc'[j].tunFd = svc[j].tunFd
                           /\ ~svc'[j].zeptunOwnsTun /\ svc'[j].blockFd = NoFd
                           /\ j # i => svc'[j].scopeActive = svc[j].scopeActive
                           /\ svc'[j].status = "none" => svc'[j] = svc[j]
  BY <1>1, <1>4, <1>5 DEF RestInv, PlainInv
<1>8. /\ \A k, j : k \in {"start", "die"} => (Has(task', k, j) <=> Has(task, k, j))
      /\ \A j : j # i => (Has(task', "destroy", j) <=> Has(task, "destroy", j))
      /\ \A j : (\E u \in Tasks : ToDestroy(task[u], j)) => \E u \in Tasks : ToDestroy(task'[u], j)
  BY <1>1, <1>6 DEF Has, ToDestroy, SamePlace
<1>9. StructInv'
  <2>1. CurrentOK(svc', current)
    BY <1>7 DEF RestInv, StructInv, Struct, CurrentOK, Alive
  <2>2. TasksOK(svc', task')
    <3> SUFFICES ASSUME NEW u \in Tasks, u # t
                 PROVE  /\ task'[u].kind # "none" => task'[u].inst \in Instances /\ svc'[task'[u].inst].status # "none"
                        /\ StartOK(svc', task', u) /\ DieOK(svc', task', u) /\ DestroyOK(svc', task', u)
                        /\ NetOK(svc', task', u)
      BY <1>6 DEF TasksOK, StartOK, DieOK, DestroyOK, NetOK
    <3>1. /\ SamePlace(task'[u], task[u])
          /\ task[u].cancelled => task'[u].cancelled
          /\ task'[u].cancelled => task[u].cancelled \/ task[u].inst = i
          /\ StartOK(svc, task, u) /\ DieOK(svc, task, u) /\ DestroyOK(svc, task, u)
          /\ NetOK(svc, task, u)
          /\ task[u].kind # "none" => task[u].inst \in Instances /\ svc[task[u].inst].status # "none"
      BY <1>6 DEF RestInv, StructInv, Struct, TasksOK
    <3>2. task'[u].kind # "none" => task'[u].inst \in Instances /\ svc'[task'[u].inst].status # "none"
      BY <1>7, <3>1 DEF SamePlace
    <3>3. StartOK(svc', task', u)
      <4> SUFFICES ASSUME task'[u].kind = "start" PROVE StartOK(svc', task', u)
        BY DEF StartOK
      <4>1. task[u].kind = "start" /\ task'[u].inst = task[u].inst /\ task[u].inst \in Instances
        BY <3>1 DEF SamePlace
      <4>2. task'[u].cancelled /\ svc[task[u].inst].status = "live" => Has(task, "die", task[u].inst)
        BY <1>1, <1>6, <3>1, <4>1 DEF StartOK
      <4>3. u # svc[task[u].inst].startJob \/ svc[task[u].inst].status = "destroyed" => task'[u].cancelled
        BY <1>6, <3>1, <4>1 DEF StartOK
      <4> QED BY <1>7, <1>8, <4>1, <4>2, <4>3 DEF StartOK
    <3>4. DieOK(svc', task', u)
      <4> SUFFICES ASSUME task'[u].kind = "die", task'[u].cancelled PROVE svc'[task'[u].inst].status = "destroyed"
        BY DEF DieOK
      <4>1. task[u].kind = "die" /\ task'[u].inst = task[u].inst /\ task[u].inst \in Instances
        BY <3>1 DEF SamePlace
      <4>2. task[u].cancelled \/ task[u].inst = i
        BY <1>6
      <4> QED BY <1>1, <1>7, <3>1, <4>1, <4>2 DEF DieOK
    <3>5. DestroyOK(svc', task', u)
      <4> SUFFICES ASSUME task'[u].kind = "destroy" PROVE DestroyOK(svc', task', u)
        BY DEF DestroyOK
      <4>1. task[u].kind = "destroy" /\ task'[u].inst = task[u].inst /\ task[u].inst \in Instances
        BY <3>1 DEF SamePlace
      <4>2. \A v \in Tasks : task[v].kind = "destroy" /\ task[v].inst = task[u].inst => v = u
        BY <3>1, <4>1 DEF DestroyOK
      <4>3. task[u].inst # i
        BY <1>1, <4>2
      <4>4. ~task'[u].cancelled
        BY <1>6, <3>1, <4>1, <4>3 DEF DestroyOK
      <4>5. \A v \in Tasks : task'[v].kind = "destroy" /\ task'[v].inst = task'[u].inst => v = u
        BY <1>6, <4>1, <4>2 DEF SamePlace
      <4> QED BY <1>7, <3>1, <4>1, <4>4, <4>5 DEF DestroyOK
    <3>6. NetOK(svc', task', u)
      <4> SUFFICES ASSUME task'[u].kind = "reconnect" PROVE NetOK(svc', task', u)
        BY DEF NetOK
      <4>1. task[u].kind = "reconnect" /\ task'[u].inst = task[u].inst /\ task[u].inst \in Instances
        BY <3>1 DEF SamePlace
      <4> QED BY <1>1, <1>7, <1>8, <3>1, <4>1 DEF NetOK
    <3> QED BY <3>2, <3>3, <3>4, <3>5, <3>6
  <2>3. FieldsOK(svc', task')
    <3> SUFFICES ASSUME NEW j \in Instances
                 PROVE  /\ JobOK(svc', task', j)
                        /\ Alive(svc', j) => svc'[j].scopeActive
                        /\ svc'[j].status = "destroyed" => svc'[j].tearingDown
                        /\ svc'[j].status = "live" /\ svc'[j].tearingDown => Has(task', "die", j)
                        /\ svc'[j].status = "live" /\ svc'[j].enginesReady =>
                             Has(task', "die", j) \/ ~Has(task', "start", j)
      BY DEF FieldsOK
    <3>1. JobOK(svc', task', j)
      BY <1>1, <1>6, <1>7 DEF RestInv, StructInv, Struct, FieldsOK, JobOK, SamePlace
    <3> QED BY <1>1, <1>7, <1>8, <3>1 DEF RestInv, StructInv, Struct, FieldsOK, Alive
  <2> QED BY <1>1, <2>1, <2>2, <2>3 DEF StructInv, Struct, inputVars
<1>10. /\ KeepersStay(svc, task, svc', task') /\ StopsStay(svc, task, svc', task')
       /\ NoneRecovers(svc, task, svc', task')
  <2>1. \A j \in Instances : /\ Touched(svc', task', j) <=> Touched(svc, task, j)
                             /\ Alive(svc', j) <=> Alive(svc, j)
                             /\ Well(svc', task', j) <=> Well(svc, task, j)
    BY <1>7, <1>8 DEF Touched, Alive, Well
  <2> QED BY <1>7, <1>8, <2>1 DEF KeepersStay, Keeper, StopsStay, NoneRecovers
<1>11. PlainInv'
  <2>1. \A u \in Tasks : /\ task'[u].kind # "switch"
                         /\ task'[u].kind = "start" => task'[u].pc # "zeptunRun"
    BY <1>6 DEF RestInv, PlainInv, SamePlace
  <2> QED BY <1>1, <1>7, <2>1 DEF RestInv, PlainInv, coreVars, proxyVars
<1>12. KeptInv'
  <2>1. \A u \in Tasks : task'[u].kind = "start" /\ task'[u].pc # "queued" =>
           /\ task[u].kind = "start" /\ task[u].pc # "queued" /\ task'[u].inst = task[u].inst
           /\ task[u].inst \in Instances
    BY <1>6 DEF SamePlace, RestInv, StructInv, Struct, TasksOK
  <2> QED BY <1>1, <1>7, <1>10, <2>1, KeptStays DEF RestInv, Owns, coreVars, proxyVars, inputVars
<1>13. TunInv'
  <2>1. \A u \in Tasks : task'[u].kind = "start" => GoesOn(task'[u], task[u])
    BY <1>6 DEF SamePlace, GoesOn, Early, Carries
  <2>2. \A u \in Tasks : Holds(task[u]) => Holds(task'[u]) /\ task'[u].fd = task[u].fd
    BY <1>1, <1>6 DEF SamePlace, Holds
  <2> QED BY <1>1, <1>7, <2>1, <2>2, TunStays DEF RestInv, coreVars
<1>14. StopInv' /\ VouchInv'
  BY <1>1, <1>2, <1>10, StopStays DEF RestInv, VouchInv, inputVars
<1>15. Serial => RealInv'
  <2>1. ~Well(svc', task', i)
    BY <1>1, <1>7 DEF Well
  <2> QED BY <1>1, <1>10, <2>1, RealVoid DEF RestInv
<1> QED BY <1>9, <1>11, <1>12, <1>13, <1>14, <1>15 DEF Good, RestInv

LEMMA switchGood ==
  ASSUME RestInv, NEW t \in Tasks,
         switchBegin(t) \/ switchStop(t) \/ switchClose(t) \/ switchRestart(t)
  PROVE  Good
BY DEF switchBegin, switchStop, switchClose, switchRestart, At, RestInv, PlainInv

-----------------------------------------------------------------------------
(***************************************************************************)
(* A reconnect.  As long as its instance is not being torn down, no start  *)
(* job of that instance is left.                                           *)
(***************************************************************************)
LEMMA NoStartLeft ==
  ASSUME StructInv, NEW t \in Tasks, task[t].kind = "reconnect",
         NEW i \in Instances, i = task[t].inst, Well(svc, task, i)
  PROVE  ~task[t].cancelled /\ svc[i].enginesReady /\ ~Has(task, "start", i)
<1>1. NetOK(svc, task, t)
  BY DEF StructInv, Struct, TasksOK
<1>2. ~task[t].cancelled /\ svc[i].enginesReady
  BY <1>1 DEF NetOK, Well
<1> QED BY <1>2 DEF StructInv, Struct, FieldsOK, Well

LEMMA ReconnectReal ==
  ASSUME StructInv, Serial, RealInv, NEW t \in Tasks, task[t].kind = "reconnect",
         NoneRecovers(svc, task, svc', task'), announced' = announced,
         \A u \in Tasks : task'[u].kind = "start" => /\ task[u].kind = "start"
                                                    /\ task'[u].inst = task[u].inst,
         NEW j, j = task[t].inst, Well(svc', task', j) => side' = j \/ Has(task', "reconnect", j)
  PROVE  RealInv'
<1> SUFFICES ASSUME NEW i \in Instances, Well(svc', task', i) PROVE Real(i)'
  BY DEF RealInv
<1>1. Well(svc, task, i) /\ (svc'[i].enginesReady => svc[i].enginesReady)
  BY DEF NoneRecovers
<1>2. task[t].inst = i /\ Real(i)
  BY <1>1, OnlyOne DEF RealInv
<1>3. ~Has(task, "start", i)
  BY <1>1, <1>2, NoStartLeft
<1>4. \A u \in Tasks : ProgressOK(u, i)'
  BY <1>3 DEF ProgressOK, Has
<1>5. Engine(i)'
  BY <1>2 DEF Engine
<1>6. svc'[i].enginesReady => announced' = "CONNECTED"
  BY <1>1, <1>2 DEF Real
<1> QED BY <1>4, <1>5, <1>6 DEF Real

(***************************************************************************)
(* It ends, with sing-box restarted or not.                                *)
(***************************************************************************)
LEMMA ReconnectEnds ==
  ASSUME IInv, RestInv, NEW t \in Tasks, task[t].kind = "reconnect",
         task' = EndTask(t), UNCHANGED <<svc, coreVars, zeptun, nextFd, current, command, announced>>,
         NEW j, j = task[t].inst, side' \in {side, 0, j}, task[t].cancelled \/ side' = j,
         orphaned => orphaned', side' = side \/ svc[j].status # "destroyed" \/ side' # j \/ orphaned'
  PROVE  Good
<1>1. TypeOK /\ StructInv /\ j \in Instances /\ svc[j].status # "none"
  BY DEF IInv, RestInv, StructInv, Struct, TasksOK
<1>2. Drops(task', task, t) /\ \A u \in Tasks : u # t => task'[u] = task[u]
  BY <1>1, EndEffect
<1>3. Forgets(svc', svc, t)
  <2>1. \A i \in Instances : svc[i].startJob # t
    BY <1>1 DEF StructInv, Struct, FieldsOK, JobOK, Tasks, NoTask
  <2> QED BY <2>1 DEF Forgets, SameFields
<1>4. StructInv'
  BY <1>1, <1>2, <1>3, StructDrops DEF StructInv
<1>5. Steadily
  BY <1>1, <1>2, <1>3, SteadyDrops DEF StructInv, Drops, Steadily
<1>6. \A i \in Instances : /\ svc'[i].tunFd = svc[i].tunFd
                           /\ ~svc'[i].zeptunOwnsTun /\ svc'[i].blockFd = NoFd
                           /\ svc'[i].status = "none" => ~svc'[i].polling /\ ~svc'[i].enginesReady
  BY DEF RestInv, PlainInv
<1>7. \A u \in Tasks : /\ task'[u].kind # "switch"
                       /\ task'[u].kind = "start" => task'[u] = task[u]
                       /\ task[u].kind = "start" => task'[u] = task[u]
  BY <1>2 DEF RestInv, PlainInv, Drops
<1>8. StopInv'
  BY <1>5, StopStays DEF RestInv, Steadily, Steady
<1>9. svc[j].status # "destroyed" => Kept(j)
  <2>1. svc[j].status \in {"none", "live", "doomed", "destroyed"}
    BY <1>1, TypeSplit DEF Services, Fields
  <2>2. NetOK(svc, task, t)
    BY <1>1 DEF StructInv, Struct, TasksOK
  <2> QED BY <1>1, <2>1, <2>2 DEF NetOK, Kept, Keeper, Alive, Touched
<1>10. ASSUME NEW i \in Instances, side' = i
       PROVE  side = i \/ (svc[i].status # "none" /\ (Kept(i) \/ orphaned'))
  <2>1. side = i \/ (side' # side /\ i = j)
    BY <1>10 DEF Instances
  <2> QED BY <1>1, <1>9, <1>10, <2>1
<1>11. Serial /\ RealInv => RealInv'
  <2> SUFFICES ASSUME Serial, RealInv PROVE RealInv'
    OBVIOUS
  <2>1. Well(svc', task', j) => side' = j
    <3>1. Well(svc', task', j) => Well(svc, task, j)
      BY <1>1, <1>5 DEF Steadily, Steady, NoneRecovers
    <3> QED BY <1>1, <3>1, NoStartLeft
  <2> QED BY <1>1, <1>5, <1>7, <2>1, ReconnectReal DEF Steadily, Steady
<1> QED BY <1>4, <1>5, <1>6, <1>7, <1>8, <1>10, <1>11, RestKeeps DEF SamePlace

LEMMA reconnectStopGood == ASSUME IInv, RestInv, NEW t \in Tasks, reconnectStop(t) PROVE Good
<1>1. /\ task[t].kind = "reconnect"
      /\ UNCHANGED <<svc, coreVars, zeptun, nextFd, current, command, orphaned, announced>>
  BY DEF reconnectStop, At, inputVars, reportVars
<1>2. CASE task[t].cancelled
  <2>1. task' = EndTask(t) /\ side' = side
    BY <1>2 DEF reconnectStop
  <2> QED BY <1>1, <1>2, <2>1, ReconnectEnds
<1>3. CASE ~task[t].cancelled
  <2>1. GotoTask(t, "restart") /\ side' = 0 /\ TypeOK /\ StructInv
    BY <1>3 DEF reconnectStop, IInv, RestInv
  <2>2. /\ \A u \in Tasks : u # t => task'[u] = task[u]
        /\ \A u \in Tasks : SameTask(task'[u], task[u])
    BY <2>1, GotoEffect DEF Pcs, SwitchPc
  <2>3. \A i \in Instances : SameFields(svc'[i], svc[i]) /\ svc'[i].startJob = svc[i].startJob
    BY <1>1 DEF SameFields
  <2>4. StructInv'
    BY <1>1, <2>1, <2>2, <2>3, StructSame DEF StructInv
  <2>5. Steadily
    <3>1. \A u \in Tasks, i \in Instances : ToDestroy(task[u], i) => ToDestroy(task'[u], i)
      BY <1>1, <2>2 DEF ToDestroy
    <3> QED BY <2>2, <2>3, <3>1, SteadySame DEF Steadily
  <2>6. \A i \in Instances : /\ svc'[i].tunFd = svc[i].tunFd
                             /\ ~svc'[i].zeptunOwnsTun /\ svc'[i].blockFd = NoFd
                             /\ svc'[i].status = "none" => ~svc'[i].polling /\ ~svc'[i].enginesReady
    BY <1>1 DEF RestInv, PlainInv
  <2>7. \A u \in Tasks : /\ task'[u].kind # "switch"
                         /\ task'[u].kind = "start" => task'[u] = task[u]
                         /\ task[u].kind = "start" => task'[u] = task[u]
    BY <1>1, <2>2 DEF RestInv, PlainInv, SameTask
  <2>8. StopInv'
    BY <1>1, <2>5, StopStays DEF RestInv, Steadily, Steady
  <2>9. \A i \in Instances : side' # i
    BY <2>1 DEF Instances
  <2>10. Serial /\ RealInv => RealInv'
    <3>1. Has(task', "reconnect", task[t].inst)
      BY <1>1, <2>2 DEF Has, SameTask
    <3> QED BY <1>1, <2>1, <2>5, <2>7, <3>1, ReconnectReal DEF Steadily, Steady
  <2> QED BY <1>1, <2>4, <2>5, <2>6, <2>7, <2>8, <2>9, <2>10, RestKeeps DEF SamePlace
<1> QED BY <1>2, <1>3

(***************************************************************************)
(* It fails and ends the session.                                          *)
(***************************************************************************)
LEMMA ReconnectFails ==
  ASSUME IInv, RestInv, NEW t \in Tasks, task[t].kind = "reconnect",
         die(svc, EndTask(t), task[t].inst, TRUE), side' = 0,
         UNCHANGED <<coreVars, zeptun, nextFd, current, command, orphaned, announced>>
  PROVE  Good
<1> DEFINE T == EndTask(t)
           i == task[t].inst
<1>1. TypeOK /\ StructInv /\ svc \in Services /\ i \in Instances /\ svc[i].status # "none"
  BY TypeSplit DEF IInv, RestInv, StructInv, Struct, TasksOK
<1>2. T \in Coros /\ Drops(T, task, t) /\ \A u \in Tasks : u # t => T[u] = task[u]
  BY <1>1, EndEffect
<1>3. die(svc, T, i, TRUE)
  OBVIOUS
<1> HIDE DEF T
<1>4. Forgets(svc, svc, t)
  <2>1. \A j \in Instances : svc[j].startJob # t
    BY <1>1 DEF StructInv, Struct, FieldsOK, JobOK, Tasks, NoTask
  <2> QED BY <2>1 DEF Forgets, SameFields
<1>5. Struct(svc, T, current)
  BY <1>1, <1>2, <1>4, StructDrops DEF StructInv
<1>6. Steady(svc, task, svc, T)
  <2>1. ASSUME NEW j \in Instances, Keeper(svc, task, j) PROVE Keeper(svc, T, j)
    BY <1>2, <1>4, <2>1, OthersKeep DEF Drops
  <2> QED BY <1>2, <1>4, <2>1, MostDrops DEF Drops, Steady, KeepersStay
<1>7. /\ StructInv' /\ Steadily
      /\ svc[i].status = "live" => Has(task', "die", i)
      /\ \A j \in Instances : /\ SameRest(svc'[j], svc[j]) /\ svc'[j].status = svc[j].status
                              /\ svc'[j].enginesReady => svc[j].enginesReady
      /\ \A u \in Tasks : /\ task'[u].kind = "start" => /\ u # t /\ SamePlace(task'[u], task[u])
                                                        /\ task[u].cancelled => task'[u].cancelled
                          /\ task[u].kind = "start" => SamePlace(task'[u], task[u])
                          /\ task'[u].kind # "switch"
  <2>1. CASE svc[i].tearingDown
    <3>1. svc' = svc /\ task' = T
      BY <1>3, <2>1 DEF die
    <3>2. svc[i].status = "live" => Has(T, "die", i)
      BY <1>1, <1>5, <2>1 DEF Struct, FieldsOK
    <3>3. \A u \in Tasks : /\ T[u].kind # "switch" /\ (T[u].kind = "start" => u # t /\ T[u] = task[u])
                           /\ task[u].kind = "start" => T[u] = task[u]
      BY <1>2 DEF Drops, RestInv, PlainInv
    <3> QED BY <1>5, <1>6, <3>1, <3>2, <3>3 DEF StructInv, Steadily, SameRest, SamePlace
  <2>2. CASE ~svc[i].tearingDown
    <3>1. svc[i].scopeActive
      <4>1. svc[i].status \in {"none", "live", "doomed", "destroyed"}
        BY <1>1 DEF Services, Fields
      <4> QED BY <1>1, <1>5, <2>2, <4>1 DEF Struct, FieldsOK, Alive
    <3>2. Condemns(svc', svc, i) /\ \E s \in Tasks : /\ T[s].kind = "none" /\ IsNew(task'[s], "die", i)
                                                     /\ Cancels(task', T, s, svc[i].startJob)
      BY <1>1, <1>2, <1>3, <2>2, <3>1, DieEffect
    <3>3. PICK s \in Tasks : /\ T[s].kind = "none" /\ IsNew(task'[s], "die", i)
                             /\ Cancels(task', T, s, svc[i].startJob)
      BY <3>2
    <3>4. Struct(svc', task', current) /\ Has(task', "die", i)
      BY <1>1, <1>2, <1>5, <2>2, <3>2, <3>3, StructDie
    <3>5. Steady(svc, T, svc', task')
      BY <1>1, <3>2, <3>3, SteadyDie
    <3>6. Steadily
      BY <1>6, <3>5, SteadyTrans DEF Steadily
    <3>7. \A u \in Tasks : u # s => /\ SamePlace(task'[u], T[u])
                                    /\ T[u].cancelled => task'[u].cancelled
      BY <3>3 DEF Cancels
    <3>8. \A u \in Tasks : /\ task'[u].kind = "start" => /\ u # t /\ SamePlace(task'[u], task[u])
                                                         /\ task[u].cancelled => task'[u].cancelled
                           /\ task[u].kind = "start" => SamePlace(task'[u], task[u])
                           /\ task'[u].kind # "switch"
      BY <1>2, <3>3, <3>7 DEF Drops, SamePlace, IsNew, RestInv, PlainInv
    <3>9. \A j \in Instances : /\ SameRest(svc'[j], svc[j]) /\ svc'[j].status = svc[j].status
                               /\ svc'[j].enginesReady => svc[j].enginesReady
      BY <3>2 DEF Condemns, SameFields
    <3> QED BY <1>1, <3>4, <3>6, <3>8, <3>9 DEF StructInv
  <2> QED BY <2>1, <2>2
<1>8. \A j \in Instances : /\ svc'[j].tunFd = svc[j].tunFd
                           /\ ~svc'[j].zeptunOwnsTun /\ svc'[j].blockFd = NoFd
                           /\ svc'[j].status = "none" => ~svc'[j].polling /\ ~svc'[j].enginesReady
  BY <1>7 DEF RestInv, PlainInv, SameRest
<1>9. StopInv'
  BY <1>7, StopStays DEF RestInv, Steadily, Steady
<1>10. \A j \in Instances : side' # j
  BY DEF Instances
<1>11. Serial => RealInv'
  <2>1. ~Well(svc', task', i)
    BY <1>1, <1>7 DEF Well
  <2> QED BY <1>1, <1>7, <2>1, RealVoid DEF Steadily, Steady
<1>12. /\ UNCHANGED <<coreVars, zeptun, nextFd>> /\ (orphaned => orphaned')
       /\ announced' = announced
  OBVIOUS
<1>13. \A u \in Tasks : /\ task'[u].kind # "switch"
                        /\ task'[u].kind = "start" => /\ SamePlace(task'[u], task[u])
                                                      /\ task[u].cancelled => task'[u].cancelled
                        /\ task[u].kind = "start" => SamePlace(task'[u], task[u])
  BY <1>7
<1> QED BY <1>7, <1>8, <1>9, <1>10, <1>11, <1>12, <1>13, RestKeeps

LEMMA reconnectStartGood == ASSUME IInv, RestInv, NEW t \in Tasks, reconnectStart(t) PROVE Good
<1> SUFFICES ASSUME NEW i, i = task[t].inst PROVE Good
  OBVIOUS
<1>1. /\ task[t].kind = "reconnect" /\ i \in Instances
      /\ UNCHANGED <<coreVars, zeptun, nextFd, current, command, announced>>
      /\ orphaned' = (orphaned \/ (side' = i /\ svc[i].status = "destroyed"))
  BY DEF reconnectStart, At, reportVars, RestInv, StructInv, Struct, TasksOK
<1>2. CASE task' = EndTask(t) /\ UNCHANGED svc /\ side' \in {0, i} /\ (task[t].cancelled \/ side' = i)
  <2>1. (orphaned => orphaned') /\ (svc[i].status # "destroyed" \/ side' # i \/ orphaned')
    BY <1>1
  <2> QED BY <1>1, <1>2, <2>1, ReconnectEnds
<1>3. CASE die(svc, EndTask(t), i, TRUE) /\ side' = 0
  <2>1. orphaned' = orphaned
    BY <1>1, <1>3 DEF Instances, IInv, TypeOK
  <2> QED BY <1>1, <1>3, <2>1, ReconnectFails
<1> QED BY <1>2, <1>3 DEF reconnectStart

(***************************************************************************)
(* A change of the network launches it.                                    *)
(***************************************************************************)
LEMMA StructNet ==
  ASSUME NEW S, NEW T, NEW i \in Instances, NEW U, NEW cur, Struct(S, T, cur),
         S[i].status # "none", S[i].enginesReady,
         NEW s \in Tasks, T[s].kind = "none", \A u \in Tasks : u # s => U[u] = T[u],
         U[s].kind = "reconnect", U[s].inst = i, ~U[s].cancelled
  PROVE  Struct(S, U, cur) /\ Steady(S, T, S, U)
<1>1. /\ \A k, j : k \in {"start", "die", "destroy"} => (Has(U, k, j) <=> Has(T, k, j))
      /\ \A j \in Instances : (\E u \in Tasks : ToDestroy(T[u], j)) => \E u \in Tasks : ToDestroy(U[u], j)
  BY DEF Has, ToDestroy
<1>2. TasksOK(S, U)
  <2> SUFFICES ASSUME NEW t \in Tasks
               PROVE  /\ U[t].kind # "none" => U[t].inst \in Instances /\ S[U[t].inst].status # "none"
                      /\ StartOK(S, U, t) /\ DieOK(S, U, t) /\ DestroyOK(S, U, t) /\ NetOK(S, U, t)
    BY DEF TasksOK
  <2>1. CASE t = s
    BY <2>1 DEF StartOK, DieOK, DestroyOK, NetOK
  <2>2. CASE t # s
    <3>1. /\ U[t] = T[t]
          /\ StartOK(S, T, t) /\ DieOK(S, T, t) /\ DestroyOK(S, T, t) /\ NetOK(S, T, t)
          /\ T[t].kind # "none" => T[t].inst \in Instances /\ S[T[t].inst].status # "none"
      BY <2>2 DEF Struct, TasksOK
    <3>2. StartOK(S, U, t) /\ DieOK(S, U, t) /\ NetOK(S, U, t)
      BY <1>1, <3>1 DEF StartOK, DieOK, NetOK
    <3>3. DestroyOK(S, U, t)
      BY <3>1 DEF DestroyOK
    <3> QED BY <3>1, <3>2, <3>3
  <2> QED BY <2>1, <2>2
<1>3. FieldsOK(S, U)
  <2>1. \A j \in Instances : JobOK(S, U, j)
    BY DEF Struct, FieldsOK, JobOK
  <2> QED BY <1>1, <2>1 DEF Struct, FieldsOK
<1>4. \A j \in Instances : /\ Touched(S, U, j) <=> Touched(S, T, j)
                           /\ Well(S, U, j) <=> Well(S, T, j)
                           /\ Vouches(S, U, j) <=> Vouches(S, T, j)
  BY <1>1 DEF Touched, Well, Vouches
<1>5. Steady(S, T, S, U)
  BY <1>1, <1>4 DEF Steady, KeepersStay, Keeper, StopsStay, VouchersStay, NoneRecovers
<1> QED BY <1>2, <1>3, <1>5 DEF Struct

LEMMA networkChangedGood == ASSUME IInv, RestInv, NEW i \in Instances, networkChanged(i) PROVE Good
<1> DEFINE c == Coroutines("reconnect", i, FALSE)
<1>1. /\ svc \in Services /\ task \in Coros /\ svc[i].enginesReady /\ ~svc[i].tearingDown
      /\ FreeSlots(task) # {} /\ task' = Launch(svc, task, i, c)
      /\ UNCHANGED <<svc, coreVars, proxyVars, current, command, orphaned, announced>>
  BY TypeSplit DEF IInv, networkChanged, reportVars
<1>2. svc[i].status # "none" /\ svc[i].status # "destroyed"
  BY <1>1 DEF RestInv, PlainInv, StructInv, Struct, FieldsOK
<1>3. svc[i].scopeActive
  <2>1. svc[i].status \in {"none", "live", "doomed", "destroyed"}
    BY <1>1 DEF Services, Fields
  <2> QED BY <1>2, <2>1 DEF RestInv, StructInv, Struct, FieldsOK, Alive
<1>4. c \in Coroutine /\ c.kind = "reconnect" /\ c.inst = i /\ ~c.cancelled
  <2>1. ~c.cancelled
    BY DEF Coroutines, Ended
  <2> QED BY <2>1, SwitchType
<1> HIDE DEF c
<1>5. /\ Slot(task) \in Tasks /\ task[Slot(task)].kind = "none" /\ task'[Slot(task)] = c
      /\ \A u \in Tasks : u # Slot(task) => task'[u] = task[u]
  BY <1>1, <1>3, <1>4, LaunchEffect
<1>6. Struct(svc, task', current) /\ Steady(svc, task, svc, task')
  BY <1>1, <1>2, <1>4, <1>5, StructNet DEF RestInv, StructInv
<1>7. StructInv' /\ Steadily
  BY <1>1, <1>6 DEF StructInv, Steadily
<1>8. StopInv'
  BY <1>1, <1>7, StopStays DEF RestInv, Steadily, Steady
<1>9. \A j \in Instances : /\ svc'[j].tunFd = svc[j].tunFd /\ svc'[j].proxyOnly = svc[j].proxyOnly
                           /\ ~svc'[j].zeptunOwnsTun /\ svc'[j].blockFd = NoFd
                           /\ svc'[j].status = "none" => ~svc'[j].polling /\ ~svc'[j].enginesReady
  BY <1>1 DEF RestInv, PlainInv
<1>10. \A u \in Tasks : /\ task'[u].kind # "switch"
                        /\ task'[u].kind = "start" => task'[u] = task[u]
                        /\ task[u].kind \in {"start", "reconnect"} => task'[u] = task[u]
  BY <1>4, <1>5 DEF RestInv, PlainInv
<1> QED BY <1>1, <1>7, <1>8, <1>9, <1>10, RestStays DEF SamePlace

-----------------------------------------------------------------------------
(***************************************************************************)
(* What the main thread and the engines do.                                *)
(***************************************************************************)
LEMMA Unmoved ==
  ASSUME RestInv, UNCHANGED <<svc, task, current, orphaned, coreVars, proxyVars>>,
         command' = "STOP" => command = "STOP",
         announced' = announced
         \/ (announced' = "CONNECTED" /\ \E i \in Instances : Vouches(svc, task, i))
  PROVE  Good
<1>1. \A i \in Instances : SameFields(svc'[i], svc[i]) /\ svc'[i].startJob = svc[i].startJob
  BY DEF SameFields
<1>2. \A u \in Tasks : /\ SameTask(task'[u], task[u])
                       /\ \A i \in Instances : ToDestroy(task[u], i) => ToDestroy(task'[u], i)
  BY DEF SameTask
<1>3. StructInv'
  BY <1>1, <1>2, StructSame DEF RestInv, StructInv
<1>4. Steadily
  BY <1>1, <1>2, SteadySame DEF Steadily
<1>5. StopInv'
  BY <1>4, StopStays DEF RestInv, Steadily, Steady
<1>6. \A i \in Instances : /\ svc'[i].tunFd = svc[i].tunFd /\ svc'[i].proxyOnly = svc[i].proxyOnly
                           /\ ~svc'[i].zeptunOwnsTun /\ svc'[i].blockFd = NoFd
                           /\ svc'[i].status = "none" => ~svc'[i].polling /\ ~svc'[i].enginesReady
  BY DEF RestInv, PlainInv
<1>7. \A u \in Tasks : task'[u].kind # "switch" /\ SamePlace(task'[u], task[u])
                       /\ (task[u].cancelled => task'[u].cancelled)
  BY DEF RestInv, PlainInv, SamePlace
<1> QED BY <1>3, <1>4, <1>5, <1>6, <1>7, RestStays

LEMMA DieMain ==
  ASSUME IInv, RestInv, NEW i \in Instances, svc[i].status # "none", NEW e \in BOOLEAN,
         die(svc, task, i, e), UNCHANGED <<current, orphaned, coreVars, proxyVars, announced>>
  PROVE  /\ Steadily
         /\ svc[i].status = "live" => Has(task', "die", i)
         /\ StopInv' => Good
<1>1. TypeOK /\ svc \in Services /\ task \in Coros /\ StructInv
  BY TypeSplit DEF IInv, RestInv
<1>2. CASE svc[i].tearingDown
  <2>1. svc' = svc /\ task' = task
    BY <1>2 DEF die
  <2>2. svc[i].status = "live" => Has(task', "die", i)
    BY <1>1, <1>2, <2>1 DEF StructInv, Struct, FieldsOK
  <2>3. Steadily
    <3>1. \A j \in Instances : SameFields(svc'[j], svc[j])
      BY <2>1 DEF SameFields
    <3>2. \A u \in Tasks : /\ SameTask(task'[u], task[u])
                           /\ \A j \in Instances : ToDestroy(task[u], j) => ToDestroy(task'[u], j)
      BY <2>1 DEF SameTask
    <3> QED BY <3>1, <3>2, SteadySame DEF Steadily
  <2>4. ASSUME StopInv' PROVE Good
    <3>1. StructInv'
      BY <1>1, <2>1 DEF StructInv, Struct, CurrentOK, TasksOK, FieldsOK
    <3>2. \A j \in Instances : /\ svc'[j].tunFd = svc[j].tunFd /\ svc'[j].proxyOnly = svc[j].proxyOnly
                               /\ ~svc'[j].zeptunOwnsTun /\ svc'[j].blockFd = NoFd
                               /\ svc'[j].status = "none" => ~svc'[j].polling /\ ~svc'[j].enginesReady
      BY <2>1 DEF RestInv, PlainInv
    <3>3. \A u \in Tasks : task'[u].kind # "switch" /\ SamePlace(task'[u], task[u])
                           /\ (task[u].cancelled => task'[u].cancelled)
      BY <2>1 DEF RestInv, PlainInv, SamePlace
    <3> QED BY <2>3, <2>4, <3>1, <3>2, <3>3, RestStays
  <2> QED BY <2>2, <2>3, <2>4
<1>3. CASE ~svc[i].tearingDown
  <2>1. svc[i].scopeActive
    <3>1. svc[i].status \in {"none", "live", "doomed", "destroyed"}
      BY <1>1 DEF Services, Fields
    <3> QED BY <1>1, <1>3, <3>1 DEF StructInv, Struct, FieldsOK, Alive
  <2>2. Condemns(svc', svc, i) /\ \E s \in Tasks : /\ task[s].kind = "none" /\ IsNew(task'[s], "die", i)
                                                   /\ Cancels(task', task, s, svc[i].startJob)
    BY <1>1, <1>3, <2>1, DieEffect
  <2>3. PICK s \in Tasks : /\ task[s].kind = "none" /\ IsNew(task'[s], "die", i)
                           /\ Cancels(task', task, s, svc[i].startJob)
    BY <2>2
  <2>4. Struct(svc', task', current) /\ Has(task', "die", i)
    BY <1>1, <1>3, <2>2, <2>3, StructDie DEF StructInv
  <2>5. Steadily
    BY <2>2, <2>3, SteadyDie DEF Steadily
  <2>6. ASSUME StopInv' PROVE Good
    <3>1. \A j \in Instances : /\ svc'[j].tunFd = svc[j].tunFd /\ svc'[j].proxyOnly = svc[j].proxyOnly
                               /\ ~svc'[j].zeptunOwnsTun /\ svc'[j].blockFd = NoFd
                               /\ svc'[j].status = "none" => ~svc'[j].polling /\ ~svc'[j].enginesReady
      BY <2>2 DEF RestInv, PlainInv, Condemns, SameRest, SameFields
    <3>2. \A u \in Tasks : u # s => /\ SamePlace(task'[u], task[u])
                                    /\ task[u].cancelled => task'[u].cancelled
      BY <2>3 DEF Cancels
    <3>3. \A u \in Tasks : /\ task'[u].kind # "switch"
                           /\ task'[u].kind = "start" => /\ SamePlace(task'[u], task[u])
                                                         /\ task[u].cancelled => task'[u].cancelled
                           /\ task[u].kind \in {"start", "reconnect"} => SamePlace(task'[u], task[u])
      BY <2>3, <3>2 DEF RestInv, PlainInv, SamePlace, IsNew
    <3>4. StructInv'
      BY <2>4 DEF StructInv
    <3> QED BY <2>5, <2>6, <3>1, <3>3, <3>4, RestStays
  <2> QED BY <2>4, <2>5, <2>6
<1> QED BY <1>2, <1>3

LEMMA CurrentAlive ==
  ASSUME StructInv, NEW i \in Instances, current = i PROVE Alive(svc, i)
BY DEF StructInv, Struct, CurrentOK

LEMMA onEmptyStartGood == ASSUME IInv, RestInv, NEW i \in Instances, onEmptyStart(i) PROVE Good
<1>1. /\ command' = "START" /\ current = i
      /\ UNCHANGED <<current, orphaned, coreVars, proxyVars, announced>>
  BY DEF onEmptyStart, Intent, reportVars
<1>2. CASE UNCHANGED <<svc, task>>
  BY <1>1, <1>2, Unmoved
<1>3. CASE die(svc, task, i, TRUE)
  <2>1. svc[i].status # "none"
    BY <1>1, CurrentAlive DEF RestInv, Alive
  <2>2. StopInv'
    BY <1>1 DEF StopInv
  <2> QED BY <1>1, <1>3, <2>1, <2>2, DieMain
<1> QED BY <1>2, <1>3 DEF onEmptyStart

LEMMA onStopGood == ASSUME IInv, RestInv, NEW i \in Instances, onStop(i) PROVE Good
<1>1. /\ current = i /\ UNCHANGED <<current, orphaned, core, coreFd, proxyVars, announced>>
      /\ svc \in Services /\ openFds' = openFds \ {svc[i].blockFd}
  BY TypeSplit DEF onStop, Intent, reportVars, IInv
<1>2. [svc EXCEPT ![i].blockFd = NoFd] = svc
  <2> DEFINE x == [svc[i] EXCEPT !.blockFd = NoFd]
  <2>1. x = svc[i]
    BY <1>1 DEF RestInv, PlainInv, Services, Fields
  <2>2. [svc EXCEPT ![i].blockFd = NoFd] = [svc EXCEPT ![i] = x]
    BY <1>1 DEF Services
  <2> HIDE DEF x
  <2> QED BY <1>1, <2>1, <2>2 DEF Services
<1>3. die(svc, task, i, FALSE)
  BY <1>2 DEF onStop
<1>4. UNCHANGED <<current, orphaned, coreVars, proxyVars, announced>>
  BY <1>1 DEF coreVars, RestInv, PlainInv
<1>5. Alive(svc, i) /\ svc[i].status # "none"
  BY <1>1, CurrentAlive DEF RestInv, Alive
<1>6. Steadily /\ (svc[i].status = "live" => Has(task', "die", i))
  BY <1>3, <1>4, <1>5, DieMain
<1>7. StopInv'
  <2> SUFFICES ASSUME NEW j \in Instances, Well(svc', task', j) PROVE FALSE
    BY DEF StopInv
  <2>1. Well(svc, task, j)
    BY <1>6 DEF Steadily, Steady, NoneRecovers
  <2>2. j = i
    BY <1>1, <2>1 DEF Well, RestInv, StructInv, Struct, CurrentOK, Alive
  <2> QED BY <1>6, <2>1, <2>2 DEF Well
<1> QED BY <1>3, <1>4, <1>5, <1>7, DieMain

LEMMA engineLostGood == ASSUME IInv, RestInv, NEW i \in Instances, engineLost(i) PROVE Good
<1>1. /\ die(svc, task, i, TRUE) /\ (side = i \/ svc[i].polling)
      /\ UNCHANGED <<current, command, orphaned, coreVars, proxyVars, announced>>
  BY DEF engineLost, inputVars, reportVars
<1>2. svc[i].status # "none"
  <2>1. CASE side = i
    BY <2>1 DEF RestInv, KeptInv
  <2>2. CASE svc[i].polling
    BY <2>2 DEF RestInv, PlainInv
  <2> QED BY <1>1, <2>1, <2>2
<1>3. Steadily
  BY <1>1, <1>2, DieMain
<1>4. StopInv'
  BY <1>1, <1>3, StopStays DEF RestInv, Steadily, Steady
<1> QED BY <1>1, <1>2, <1>4, DieMain

LEMMA onWarmGood == ASSUME RestInv, NEW i \in Instances, onWarm(i) PROVE Good
<1>1. /\ current = i /\ UNCHANGED <<svc, task, current, orphaned, coreVars, proxyVars, command>>
      /\ announced' = announced
         \/ (announced' = "CONNECTED" /\ svc[i].enginesReady /\ ~svc[i].tearingDown)
  BY DEF onWarm, Intent, Broadcast, Silent, reportVars
<1>2. Alive(svc, i)
  BY <1>1, CurrentAlive DEF RestInv
<1>3. svc[i].enginesReady /\ ~svc[i].tearingDown => Vouches(svc, task, i)
  BY <1>2 DEF Alive, Vouches
<1> QED BY <1>1, <1>3, Unmoved

LEMMA followGood == ASSUME RestInv, follow PROVE Good
<1>1. UNCHANGED <<svc, task, current, orphaned, coreVars, proxyVars, command, announced>>
  BY DEF follow, inputVars
<1> QED BY <1>1, Unmoved

LEMMA stutterGood == ASSUME RestInv, UNCHANGED vars PROVE Good
<1>1. UNCHANGED <<svc, task, current, orphaned, coreVars, proxyVars, command, announced>>
  BY DEF vars, inputVars, reportVars
<1> QED BY <1>1, Unmoved

(***************************************************************************)
(* The new start job of an instance without a session or a tun.            *)
(***************************************************************************)
LEMMA StartGood ==
  ASSUME IInv, RestInv, NEW i \in Instances, Alive(svc, i), ~svc[i].enginesReady, ~Owns(i),
         svc[i].startJob = NoTask \/ task[svc[i].startJob].cancelled,
         NEW s \in Tasks, Resets(svc', svc, i, s), Adds(task', task, s), IsNew(task'[s], "start", i),
         command' = "START", UNCHANGED <<current, orphaned, coreVars, proxyVars, announced>>
  PROVE  Good
<1>1. StructInv'
  BY StructStart DEF RestInv, StructInv
<1>2. /\ \A k, j : Has(task, k, j) /\ k # "none" => Has(task', k, j)
      /\ \A j : Has(task', "die", j) => Has(task, "die", j)
      /\ \A j \in Instances : (\E u \in Tasks : ToDestroy(task[u], j)) => \E u \in Tasks : ToDestroy(task'[u], j)
  BY DEF Has, Adds, IsNew, ToDestroy
<1>3. \A j \in Instances : /\ svc'[j].status = svc[j].status /\ svc'[j].enginesReady = svc[j].enginesReady
                           /\ svc'[j].tearingDown => svc[j].tearingDown
  BY DEF Resets
<1>4. KeepersStay(svc, task, svc', task')
  BY <1>2, <1>3 DEF KeepersStay, Keeper, Alive, Touched
<1>5. VouchersStay(svc, task, svc', task') /\ NoneRecovers(svc, task, svc', task')
  BY <1>2, <1>3 DEF VouchersStay, Vouches, NoneRecovers, Well
<1>6. PlainInv'
  <2>1. \A j \in Instances : /\ ~svc'[j].zeptunOwnsTun /\ svc'[j].blockFd = NoFd
                             /\ svc'[j].status = "none" => ~svc'[j].polling /\ ~svc'[j].enginesReady
    BY <1>3 DEF RestInv, PlainInv, Resets, SameRest
  <2>2. \A u \in Tasks : /\ task'[u].kind # "switch"
                         /\ task'[u].kind = "start" => task'[u].pc # "zeptunRun"
    BY DEF RestInv, PlainInv, Adds, IsNew
  <2> QED BY <2>1, <2>2 DEF RestInv, PlainInv, coreVars, proxyVars
<1>7. \A j \in Instances : svc'[j].tunFd = svc[j].tunFd /\ svc'[j].proxyOnly = svc[j].proxyOnly
  BY DEF Resets, SameRest
<1>8. \A u \in Tasks : u # s => task'[u] = task[u]
  BY DEF Adds
<1>9. KeptInv'
  <2>1. \A u \in Tasks : task'[u].kind = "start" /\ task'[u].pc # "queued" =>
           /\ task[u].kind = "start" /\ task[u].pc # "queued" /\ task'[u].inst = task[u].inst
           /\ task[u].inst \in Instances
    BY <1>8 DEF IsNew, RestInv, StructInv, Struct, TasksOK
  <2> QED BY <1>4, <1>7, <2>1, KeptStays DEF RestInv, Owns, coreVars, proxyVars
<1>10. TunInv'
  <2>1. \A u \in Tasks : task'[u].kind = "start" =>
           \/ /\ task'[u].inst \in Instances /\ ~Owns(task'[u].inst)
              /\ IsNew(task'[u], "start", task'[u].inst)
           \/ GoesOn(task'[u], task[u])
    BY <1>8 DEF IsNew, GoesOn
  <2>2. \A u \in Tasks : Holds(task[u]) => Holds(task'[u]) /\ task'[u].fd = task[u].fd
    BY <1>8 DEF Adds, Holds
  <2> QED BY <1>7, <2>1, <2>2, TunStays DEF RestInv, coreVars
<1>11. StopInv' /\ VouchInv'
  BY <1>5, VouchStays DEF RestInv, StopInv
<1>12. RealInv => RealInv'
  <2>1. \A u \in Tasks : /\ task'[u].kind = "start" => \/ task'[u].pc \in {"queued", "establish"}
                                                        \/ SamePlace(task'[u], task[u])
                         /\ task[u].kind = "reconnect" => /\ task'[u].kind = "reconnect"
                                                          /\ task'[u].inst = task[u].inst
    BY <1>8 DEF Adds, IsNew, SamePlace
  <2> QED BY <1>5, <1>7, <2>1, RealStays DEF coreVars, proxyVars
<1> QED BY <1>1, <1>6, <1>9, <1>10, <1>11, <1>12 DEF Good, RestInv

LEMMA onStartGood == ASSUME IInv, RestInv, NEW i \in Instances, onStart(i) PROVE Good
<1>1. /\ command' = "START" /\ current = i
      /\ UNCHANGED <<current, orphaned, coreVars, proxyVars, announced>>
  BY DEF onStart, Intent, reportVars
<1>2. CASE UNCHANGED <<svc, task>>
  BY <1>1, <1>2, Unmoved
<1>3. CASE ~Ignored(i) /\ startTunnel(svc, task, i)
  <2>1. Alive(svc, i) /\ svc[i].scopeActive
    BY <1>1, CurrentAlive DEF RestInv, StructInv, Struct, FieldsOK
  <2>2. /\ svc \in Services /\ task \in Coros /\ ~svc[i].enginesReady /\ svc[i].tunFd = Null
        /\ svc[i].startJob = NoTask \/ task[svc[i].startJob].cancelled
    BY <1>3, TypeSplit DEF IInv, Ignored, Active
  <2>3. PICK s \in Tasks : Resets(svc', svc, i, s) /\ Adds(task', task, s) /\ IsNew(task'[s], "start", i)
    BY <1>3, <2>1, <2>2, StartEffect
  <2>4. ~Owns(i)
    BY <2>2, NullType DEF Owns
  <2> QED BY <1>1, <2>1, <2>2, <2>3, <2>4, StartGood
<1> QED BY <1>2, <1>3 DEF onStart

(***************************************************************************)
(* Another VPN app takes over: onDestroy will follow.                      *)
(***************************************************************************)
LEMMA onRevokeGood == ASSUME IInv, RestInv, NEW i \in Instances, onRevoke(i) PROVE Good
<1> DEFINE s == "doomed"
           x == [svc[i] EXCEPT !.status = s]
<1>1. /\ svc \in Services /\ svc[i].status = "live"
      /\ UNCHANGED <<coreVars, proxyVars, current, task, command, orphaned, announced>>
  BY TypeSplit DEF IInv, onRevoke, reportVars
<1>2. svc' = [svc EXCEPT ![i] = x]
  BY <1>1 DEF onRevoke, Services
<1>3. /\ SameRest(x, svc[i]) /\ x.startJob = svc[i].startJob /\ x.proxyOnly = svc[i].proxyOnly
      /\ x.tearingDown = svc[i].tearingDown /\ x.enginesReady = svc[i].enginesReady
      /\ x.scopeActive = svc[i].scopeActive /\ x.status = "doomed"
  BY <1>1 DEF Services, Fields, SameRest
<1> HIDE DEF x
<1>4. Dooms(svc', svc, i)
  BY <1>1, <1>2, <1>3 DEF Dooms, Services, SameRest
<1>5. Struct(svc', task, current) /\ Steady(svc, task, svc', task)
  BY <1>4, StructDooms DEF RestInv, StructInv
<1>6. StructInv' /\ Steadily
  BY <1>1, <1>5 DEF StructInv, Steadily
<1>7. \A j \in Instances : /\ svc'[j].tunFd = svc[j].tunFd /\ svc'[j].proxyOnly = svc[j].proxyOnly
                           /\ ~svc'[j].zeptunOwnsTun /\ svc'[j].blockFd = NoFd
                           /\ svc'[j].status = "none" => ~svc'[j].polling /\ ~svc'[j].enginesReady
  BY <1>1, <1>4 DEF RestInv, PlainInv, SameRest, Dooms
<1>8. \A u \in Tasks : task'[u].kind # "switch" /\ SamePlace(task'[u], task[u])
                       /\ (task[u].cancelled => task'[u].cancelled)
  BY <1>1 DEF RestInv, PlainInv, SamePlace
<1>9. StopInv'
  BY <1>1, <1>6, StopStays DEF RestInv, Steadily, Steady
<1> QED BY <1>1, <1>6, <1>7, <1>8, <1>9, RestStays

(***************************************************************************)
(* What onDestroy does: the instance is gone, its start job is cancelled,  *)
(* and its last coroutine is launched.                                     *)
(***************************************************************************)
Buries(R, S, i) == \A j \in Instances :
  /\ R[j].tunFd = S[j].tunFd /\ R[j].blockFd = S[j].blockFd
  /\ R[j].startJob = S[j].startJob /\ R[j].proxyOnly = S[j].proxyOnly
  /\ R[j].scopeActive = S[j].scopeActive
  /\ j # i => SameFields(R[j], S[j]) /\ R[j].zeptunOwnsTun = S[j].zeptunOwnsTun
              /\ R[j].polling = S[j].polling
  /\ j = i => /\ R[j].status = "destroyed" /\ R[j].tearingDown
              /\ ~R[j].enginesReady /\ ~R[j].zeptunOwnsTun

LEMMA StructBuries ==
  ASSUME NEW S, NEW T, NEW i \in Instances, NEW R, NEW U, Struct(S, T, i), S[i].status = "doomed",
         Buries(R, S, i), NEW s \in Tasks, T[s].kind = "none", IsNew(U[s], "destroy", i),
         Cancels(U, T, s, S[i].startJob)
  PROVE  Struct(R, U, 0) /\ Steady(S, T, R, U)
<1>1. /\ \A k, j : Has(T, k, j) /\ k # "none" => Has(U, k, j)
      /\ \A k, j : k \in {"start", "die"} /\ Has(U, k, j) => Has(T, k, j)
      /\ \A j \in Instances : (\E u \in Tasks : ToDestroy(T[u], j)) => \E u \in Tasks : ToDestroy(U[u], j)
      /\ ToDestroy(U[s], i) /\ Has(U, "destroy", i)
  BY DEF Has, Cancels, SamePlace, IsNew, ToDestroy
<1>2. \A j \in Instances : /\ j # i => /\ R[j].status = S[j].status /\ R[j].tearingDown = S[j].tearingDown
                                       /\ R[j].enginesReady = S[j].enginesReady
                           /\ R[i].status = "destroyed" /\ R[i].tearingDown
                           /\ R[j].startJob = S[j].startJob /\ R[j].scopeActive = S[j].scopeActive
  BY DEF Buries, SameFields
<1>3. CurrentOK(R, 0)
  BY <1>2 DEF Struct, CurrentOK, Alive, Instances
<1>4. TasksOK(R, U)
  <2> SUFFICES ASSUME NEW t \in Tasks
               PROVE  /\ U[t].kind # "none" => U[t].inst \in Instances /\ R[U[t].inst].status # "none"
                      /\ StartOK(R, U, t) /\ DieOK(R, U, t) /\ DestroyOK(R, U, t) /\ NetOK(R, U, t)
    BY DEF TasksOK
  <2>1. CASE t = s
    <3>1. \A u \in Tasks : u # s => ~(U[u].kind = "destroy" /\ U[u].inst = i)
      BY DEF Struct, TasksOK, DestroyOK, Cancels, SamePlace
    <3> QED BY <1>2, <2>1, <3>1 DEF StartOK, DieOK, DestroyOK, NetOK, IsNew
  <2>2. CASE t # s
    <3>1. /\ SamePlace(U[t], T[t]) /\ (U[t].cancelled <=> T[t].cancelled \/ t = S[i].startJob)
          /\ StartOK(S, T, t) /\ DieOK(S, T, t) /\ DestroyOK(S, T, t) /\ NetOK(S, T, t)
          /\ T[t].kind # "none" => T[t].inst \in Instances /\ S[T[t].inst].status # "none"
      BY <2>2 DEF Cancels, Struct, TasksOK
    <3>2. t = S[i].startJob => T[t].kind = "start" /\ T[t].inst = i
      BY DEF Struct, FieldsOK, JobOK, Tasks, NoTask
    <3>3. U[t].kind # "none" => U[t].inst \in Instances /\ R[U[t].inst].status # "none"
      BY <1>2, <3>1 DEF SamePlace
    <3>4. StartOK(R, U, t)
      <4> SUFFICES ASSUME U[t].kind = "start" PROVE StartOK(R, U, t)
        BY DEF StartOK
      <4>1. T[t].kind = "start" /\ U[t].inst = T[t].inst /\ T[t].inst \in Instances
        BY <3>1 DEF SamePlace
      <4>2. CASE T[t].inst = i
        BY <1>2, <3>1, <4>1, <4>2 DEF StartOK
      <4>3. CASE T[t].inst # i
        BY <1>1, <1>2, <3>1, <3>2, <4>1, <4>3 DEF StartOK
      <4> QED BY <4>2, <4>3
    <3>5. DieOK(R, U, t)
      BY <1>2, <3>1, <3>2, <3>3 DEF SamePlace, DieOK
    <3>6. DestroyOK(R, U, t)
      <4> SUFFICES ASSUME U[t].kind = "destroy" PROVE DestroyOK(R, U, t)
        BY DEF DestroyOK
      <4>1. T[t].kind = "destroy" /\ U[t].inst = T[t].inst /\ T[t].inst \in Instances
        BY <3>1 DEF SamePlace
      <4>2. S[T[t].inst].status = "destroyed" /\ ~U[t].cancelled /\ T[t].inst # i
        BY <3>1, <3>2, <4>1 DEF DestroyOK
      <4>3. ASSUME NEW u \in Tasks, U[u].kind = "destroy", U[u].inst = U[t].inst PROVE u = t
        <5>1. u # s
          BY <4>1, <4>2, <4>3 DEF IsNew
        <5> QED BY <3>1, <4>1, <4>3, <5>1 DEF DestroyOK, Cancels, SamePlace
      <4> QED BY <1>2, <4>1, <4>2, <4>3 DEF DestroyOK
    <3>7. NetOK(R, U, t)
      <4> SUFFICES ASSUME U[t].kind = "reconnect" PROVE NetOK(R, U, t)
        BY DEF NetOK
      <4>1. /\ T[t].kind = "reconnect" /\ U[t].inst = T[t].inst /\ T[t].inst \in Instances
            /\ (U[t].cancelled <=> T[t].cancelled)
        BY <3>1, <3>2 DEF SamePlace
      <4> QED BY <1>1, <1>2, <3>1, <4>1 DEF NetOK
    <3> QED BY <3>3, <3>4, <3>5, <3>6, <3>7
  <2> QED BY <2>1, <2>2
<1>5. FieldsOK(R, U)
  <2> SUFFICES ASSUME NEW j \in Instances
               PROVE  /\ JobOK(R, U, j)
                      /\ Alive(R, j) => R[j].scopeActive
                      /\ R[j].status = "destroyed" => R[j].tearingDown
                      /\ R[j].status = "live" /\ R[j].tearingDown => Has(U, "die", j)
                      /\ R[j].status = "live" /\ R[j].enginesReady =>
                           Has(U, "die", j) \/ ~Has(U, "start", j)
    BY DEF FieldsOK
  <2>1. JobOK(R, U, j)
    BY <1>2 DEF Struct, FieldsOK, JobOK, Cancels, SamePlace
  <2>2. CASE j = i
    BY <1>2, <2>1, <2>2 DEF Alive
  <2>3. CASE j # i
    BY <1>1, <1>2, <2>1, <2>3 DEF Struct, FieldsOK, Alive
  <2> QED BY <2>2, <2>3
<1>6. KeepersStay(S, T, R, U)
  BY <1>1, <1>2 DEF KeepersStay, Keeper, Alive, Touched
<1>7. VouchersStay(S, T, R, U)
  BY <1>1, <1>2 DEF VouchersStay, Vouches
<1>8. StopsStay(S, T, R, U) /\ NoneRecovers(S, T, R, U)
  BY <1>1, <1>2 DEF StopsStay, NoneRecovers, Well, Touched
<1> QED BY <1>3, <1>4, <1>5, <1>6, <1>7, <1>8 DEF Struct, Steady

LEMMA onDestroyGood == ASSUME IInv, RestInv, NEW i \in Instances, onDestroy(i) PROVE Good
<1> DEFINE C == CancelStart(svc, task, i)
           c == Coroutines("destroy", i, FALSE)
           s == "destroyed"
           x == [svc[i] EXCEPT !.status = s, !.tearingDown = TRUE, !.enginesReady = FALSE,
                               !.polling = FALSE, !.tracking = FALSE, !.zeptunOwnsTun = FALSE]
<1>1. /\ svc \in Services /\ task \in Coros /\ svc[i].status = "doomed" /\ current = i /\ current' = 0
      /\ UNCHANGED <<coreVars, side, nextFd, command, orphaned, announced>>
  BY TypeSplit DEF IInv, onDestroy, reportVars
<1>2. /\ zeptun' = zeptun /\ svc[i].scopeActive
      /\ FreeSlots(task) # {} /\ task' = Launch(svc, C, i, c)
      /\ svc' = [svc EXCEPT ![i] = x]
  <2>1. zeptun' = zeptun
    BY DEF onDestroy, StopZeptun, RestInv, PlainInv
  <2>2. svc[i].scopeActive
    BY <1>1 DEF RestInv, StructInv, Struct, FieldsOK, Alive
  <2>3. svc' = [svc EXCEPT ![i] = x]
    BY <1>1 DEF onDestroy, Services
  <2> QED BY <2>1, <2>2, <2>3 DEF onDestroy
<1>3. /\ x.tunFd = svc[i].tunFd /\ x.blockFd = svc[i].blockFd
      /\ x.startJob = svc[i].startJob /\ x.proxyOnly = svc[i].proxyOnly
      /\ x.scopeActive = svc[i].scopeActive
      /\ x.status = "destroyed" /\ x.tearingDown /\ ~x.enginesReady /\ ~x.zeptunOwnsTun
  BY <1>1 DEF Services, Fields
<1> HIDE DEF x
<1>4. Buries(svc', svc, i)
  BY <1>1, <1>2, <1>3 DEF Buries, Services, SameFields
<1>5. C \in Coros /\ FreeSlots(C) # {}
  BY <1>1, <1>2, CancelStartType
<1>6. \A u \in Tasks : SamePlace(C[u], task[u]) /\ (C[u].cancelled <=> task[u].cancelled \/ u = svc[i].startJob)
  BY <1>1, CancelStartEffect
<1>7. c \in Coroutine /\ IsNew(c, "destroy", i)
  BY NewCoroutine
<1> HIDE DEF C, c
<1>8. /\ Slot(C) \in Tasks /\ C[Slot(C)].kind = "none" /\ task'[Slot(C)] = c
      /\ \A u \in Tasks : u # Slot(C) => task'[u] = C[u]
  BY <1>1, <1>2, <1>5, <1>7, LaunchEffect
<1>9. PICK n \in Tasks : /\ task[n].kind = "none" /\ IsNew(task'[n], "destroy", i)
                         /\ Cancels(task', task, n, svc[i].startJob)
  <2>1. task[Slot(C)].kind = "none" /\ Cancels(task', task, Slot(C), svc[i].startJob)
    BY <1>6, <1>8 DEF SamePlace, Cancels
  <2> QED BY <1>7, <1>8, <2>1
<1>10. Struct(svc', task', 0) /\ Steady(svc, task, svc', task')
  BY <1>1, <1>4, <1>9, StructBuries DEF RestInv, StructInv
<1>11. StructInv' /\ Steadily
  BY <1>1, <1>10 DEF StructInv, Steadily
<1>12. \A j \in Instances : /\ svc'[j].tunFd = svc[j].tunFd /\ svc'[j].proxyOnly = svc[j].proxyOnly
                            /\ ~svc'[j].zeptunOwnsTun /\ svc'[j].blockFd = NoFd
                            /\ svc'[j].status = "none" => ~svc'[j].polling /\ ~svc'[j].enginesReady
  BY <1>4 DEF RestInv, PlainInv, SameFields, Buries
<1>13. \A u \in Tasks : /\ task'[u].kind # "switch"
                        /\ task'[u].kind = "start" => /\ SamePlace(task'[u], task[u])
                                                      /\ task[u].cancelled => task'[u].cancelled
                        /\ task[u].kind \in {"start", "reconnect"} => SamePlace(task'[u], task[u])
  <2>1. \A u \in Tasks : u # n => SamePlace(task'[u], task[u]) /\ (task[u].cancelled => task'[u].cancelled)
    BY <1>9 DEF Cancels
  <2> QED BY <1>9, <2>1 DEF RestInv, PlainInv, SamePlace, IsNew
<1>14. StopInv'
  BY <1>1, <1>11, StopStays DEF RestInv, Steadily, Steady
<1>15. UNCHANGED <<coreVars, proxyVars, orphaned, announced>>
  BY <1>1, <1>2 DEF proxyVars
<1> QED BY <1>11, <1>12, <1>13, <1>14, <1>15, RestStays

(***************************************************************************)
(* A new instance has nothing, and nobody acts for it yet.                 *)
(***************************************************************************)
LEMMA CreatedGood ==
  ASSUME IInv, RestInv, current = 0, NEW i \in Instances, svc[i].status = "none",
         current' = i, svc' = [svc EXCEPT ![i] = Created],
         UNCHANGED <<coreVars, proxyVars, task, command, orphaned, announced>>
  PROVE  Good
<1> DEFINE x == Created
<1>1. svc'[i] = x /\ \A j \in Instances : j # i => svc'[j] = svc[j]
  BY TypeSplit DEF IInv, Services
<1>2. /\ x.status = "live" /\ ~x.tunFd.own /\ x.blockFd = NoFd /\ ~x.zeptunOwnsTun
      /\ ~x.enginesReady /\ ~x.tearingDown /\ x.startJob = NoTask /\ x.scopeActive
  BY DEF Created, Null
<1> HIDE DEF x
<1>3. \A t \in Tasks : task[t].kind # "none" => task[t].inst # i /\ task[t].inst \in Instances
  BY DEF RestInv, StructInv, Struct, TasksOK
<1>4. /\ \A k : k # "none" => ~Has(task, k, i)
      /\ \A t \in Tasks : ~ToDestroy(task[t], i)
  BY <1>3 DEF Has, ToDestroy
<1>5. \A j \in Instances : ~Alive(svc, j)
  BY DEF RestInv, StructInv, Struct, CurrentOK, Instances
<1>6. ~Owns(i)
  BY <1>4, <1>5 DEF RestInv, KeptInv, Kept, Keeper
<1>7. \A j \in Instances : Owns(j)' => j # i /\ Owns(j)
  BY <1>1, <1>2 DEF Owns
<1>8. StructInv'
  <2>1. CurrentOK(svc', i)
    BY <1>1, <1>2, <1>5 DEF CurrentOK, Alive
  <2>2. TasksOK(svc', task)
    BY <1>1, <1>3, <1>4 DEF RestInv, StructInv, Struct, TasksOK, StartOK, DieOK, DestroyOK, NetOK
  <2>3. FieldsOK(svc', task)
    <3> SUFFICES ASSUME NEW j \in Instances
                 PROVE  /\ JobOK(svc', task, j)
                        /\ Alive(svc', j) => svc'[j].scopeActive
                        /\ svc'[j].status = "destroyed" => svc'[j].tearingDown
                        /\ svc'[j].status = "live" /\ svc'[j].tearingDown => Has(task, "die", j)
                        /\ svc'[j].status = "live" /\ svc'[j].enginesReady =>
                             Has(task, "die", j) \/ ~Has(task, "start", j)
      BY DEF FieldsOK
    <3>1. CASE j = i
      BY <1>1, <1>2, <3>1 DEF JobOK
    <3>2. CASE j # i
      BY <1>1, <3>2 DEF RestInv, StructInv, Struct, FieldsOK, JobOK, Alive
    <3> QED BY <3>1, <3>2
  <2> QED BY <2>1, <2>2, <2>3 DEF StructInv, Struct
<1>9. PlainInv'
  <2>1. \A j \in Instances : /\ ~svc'[j].zeptunOwnsTun /\ svc'[j].blockFd = NoFd
                             /\ svc'[j].status = "none" => ~svc'[j].polling /\ ~svc'[j].enginesReady
    BY <1>1, <1>2 DEF RestInv, PlainInv
  <2> QED BY <2>1 DEF RestInv, PlainInv, coreVars, proxyVars
<1>10. /\ KeepersStay(svc, task, svc', task') /\ StopsStay(svc, task, svc', task')
       /\ VouchersStay(svc, task, svc', task')
  <2>1. \A j \in Instances : j # i => /\ Keeper(svc, task, j) => Keeper(svc', task, j)
                                      /\ Vouches(svc, task, j) => Vouches(svc', task, j)
                                      /\ Well(svc', task, j) /\ Touched(svc', task, j) =>
                                           Well(svc, task, j) /\ Touched(svc, task, j)
    BY <1>1 DEF Keeper, Alive, Touched, Vouches, Well
  <2>2. ~Keeper(svc, task, i) /\ ~Vouches(svc, task, i) /\ ~Touched(svc', task, i)
    BY <1>1, <1>2, <1>4 DEF Keeper, Alive, Vouches, Touched
  <2>3. \A j \in Instances : svc[j].status # "none" => svc'[j].status # "none"
    BY <1>1
  <2> QED BY <2>1, <2>2, <2>3 DEF KeepersStay, VouchersStay, StopsStay
<1>11. KeptInv'
  BY <1>3, <1>7, <1>10, KeptStays DEF RestInv, coreVars, proxyVars
<1>12. TunInv'
  <2>1. \A j \in Instances : Owns(j) => Owns(j)' /\ svc'[j].tunFd = svc[j].tunFd
    BY <1>1, <1>6 DEF Owns
  <2>2. NoTunYet'
    BY <1>3, <1>7 DEF RestInv, TunInv, NoTunYet, Early, Owns
  <2>3. CarryInv'
    BY <1>3, <1>7, <2>1 DEF RestInv, TunInv, CarryInv, Carries, Owns
  <2>4. ASSUME NEW f \in openFds' PROVE Held(f)'
    <3>1. Held(f) /\ coreFd' = coreFd
      BY <2>4 DEF RestInv, TunInv, coreVars
    <3> QED BY <2>1, <3>1 DEF Held
  <2> QED BY <2>2, <2>3, <2>4 DEF TunInv
<1>13. StopInv' /\ VouchInv'
  BY <1>10, StopStays, VouchStays DEF RestInv
<1>14. RealInv'
  <2> SUFFICES ASSUME NEW j \in Instances, Well(svc', task', j) PROVE Real(j)'
    BY DEF RealInv
  <2>1. j = i
    BY <1>1, <1>5 DEF Well, Alive
  <2>2. \A t \in Tasks : ProgressOK(t, j)'
    BY <1>3, <2>1 DEF ProgressOK
  <2> QED BY <1>1, <1>2, <2>1, <2>2 DEF Real
<1> QED BY <1>8, <1>9, <1>11, <1>12, <1>13, <1>14 DEF Good, RestInv

LEMMA onCreateGood == ASSUME IInv, RestInv, onCreate PROVE Good
<1>1. PICK i \in Instances : svc[i].status = "none" /\ current' = i /\ svc' = [svc EXCEPT ![i] = Created]
  BY DEF onCreate
<1>2. current = 0 /\ UNCHANGED <<coreVars, proxyVars, task, command, orphaned, announced>>
  BY DEF onCreate, reportVars
<1> QED BY <1>1, <1>2, CreatedGood

-----------------------------------------------------------------------------
(***************************************************************************)
(* Together: the invariants hold initially and every step keeps them.      *)
(***************************************************************************)
LEMMA AtFirst == Init => RestInv /\ RealInv
<1> SUFFICES ASSUME Init PROVE RestInv /\ RealInv
  OBVIOUS
<1> DEFINE x == [Created EXCEPT !.status = "none"]
<1>1. /\ x.status = "none" /\ ~x.tunFd.own /\ x.blockFd = NoFd /\ ~x.zeptunOwnsTun
      /\ ~x.enginesReady /\ ~x.tearingDown /\ ~x.polling /\ x.startJob = NoTask
  BY DEF Created, Null
<1>2. svc = [i \in Instances |-> x] /\ current = 0
  BY DEF Init
<1> HIDE DEF x
<1>3. \A i \in Instances : svc[i] = x
  BY <1>2
<1>4. \A t \in Tasks : task[t].kind = "none"
  BY DEF Init, Ended
<1>5. StructInv
  <2>1. CurrentOK(svc, current)
    BY <1>1, <1>2, <1>3 DEF CurrentOK, Alive, Instances
  <2>2. TasksOK(svc, task)
    BY <1>4 DEF TasksOK, StartOK, DieOK, DestroyOK, NetOK
  <2>3. FieldsOK(svc, task)
    BY <1>1, <1>3 DEF FieldsOK, JobOK, Alive
  <2> QED BY <2>1, <2>2, <2>3 DEF StructInv, Struct
<1>6. PlainInv
  BY <1>1, <1>3, <1>4 DEF PlainInv, Init, CoreInit, NoFd
<1>7. KeptInv
  BY <1>1, <1>3, <1>4 DEF KeptInv, Owns, Init, CoreInit, Instances
<1>8. TunInv
  BY <1>4 DEF TunInv, NoTunYet, Early, CarryInv, Carries, Init, CoreInit
<1>9. StopInv /\ VouchInv
  BY DEF StopInv, VouchInv, Init
<1>10. RealInv
  BY <1>1, <1>3 DEF RealInv, Well
<1> QED BY <1>5, <1>6, <1>7, <1>8, <1>9, <1>10 DEF RestInv

LEMMA RunGood == ASSUME Plain, IInv, RestInv, NEW t \in Tasks, Run(t) PROVE Good
BY lockGood, cancelledInQueueGood, establishGood, enginesGood, core_stopGood, zeptunChosenGood,
   zeptunStartGood, detachGood, xrayStartGood, xrayRetryGood, torGood, publishGood, teardownGood,
   enterKillSwitchGood, stopSelfGood, destroyTeardownGood, destroyReportGood, switchGood,
   reconnectStopGood, reconnectStartGood DEF Run

LEMMA MainGood == ASSUME Plain, IInv, RestInv, NEW i \in Instances, Main(i) PROVE Good
<1>1. ~onReconnect(i)
  BY DEF onReconnect, Intent, Plain
<1> QED BY <1>1, onStartGood, onEmptyStartGood, onStopGood, onWarmGood, onRevokeGood,
           onDestroyGood DEF Main

LEMMA NextGood == ASSUME Plain, IInv, RestInv, [Next]_vars PROVE Good
<1>1. \A i \in Instances : ~shareExpired(i)
  BY DEF shareExpired, Plain
<1> QED BY <1>1, RunGood, MainGood, onCreateGood, networkChangedGood, engineLostGood,
           followGood, stutterGood DEF Next

(***************************************************************************)
(* Without a kill switch, a switch of servers or zeptun, whoever keeps an  *)
(* engine or a tun will stop it, no tun is forgotten, the user's stop is   *)
(* remembered and a broadcast CONNECTED is answered for, in every          *)
(* reachable state.                                                        *)
(***************************************************************************)
THEOREM RestInvariance == ASSUME Plain PROVE Spec => []RestInv
<1>1. Init => RestInv
  BY AtFirst
<1>2. IInv /\ RestInv /\ [Next]_vars => RestInv'
  BY NextGood DEF Good
<1> QED BY <1>1, <1>2, Invariance, PTL DEF Spec

(***************************************************************************)
(* As long as a new instance finds no coroutine of an earlier one, a live  *)
(* instance that is not being torn down has the engine it started, and     *)
(* what it shows was broadcast.                                            *)
(***************************************************************************)
THEOREM RealInvariance == ASSUME Plain PROVE Spec /\ []Serial => []RealInv
<1>1. Init => RealInv
  BY AtFirst
<1>2. IInv /\ RestInv /\ RealInv /\ Serial /\ [Next]_vars => RealInv'
  BY NextGood DEF Good
<1> QED BY <1>1, <1>2, Invariance, RestInvariance, PTL DEF Spec

-----------------------------------------------------------------------------
(***************************************************************************)
(* At rest only a connected instance keeps anything.                       *)
(***************************************************************************)
LEMMA RestKept ==
  ASSUME RestInv, Quiet, NEW i \in Instances, Kept(i)
  PROVE  svc[i].status = "live" /\ LooksConnected(i)
<1>1. /\ \A k : k # "none" => ~Has(task, k, i)
      /\ \A t \in Tasks : ~ToDestroy(task[t], i)
      /\ svc[i].status # "doomed"
  BY DEF Quiet, Has, ToDestroy
<1>2. svc[i].status = "live" /\ svc[i].enginesReady
  BY <1>1 DEF Kept, Keeper, Alive, Touched
<1> QED BY <1>1, <1>2 DEF RestInv, StructInv, Struct, FieldsOK, LooksConnected

LEMMA RestWell ==
  ASSUME TypeOK, RestInv, Quiet, NEW i \in Instances, LooksConnected(i)
  PROVE  Well(svc, task, i) /\ Touched(svc, task, i)
<1>1. ~Has(task, "die", i)
  BY DEF Quiet, Has
<1>2. svc[i].status \in {"none", "live", "doomed", "destroyed"}
  BY TypeSplit DEF Services, Fields
<1>3. svc[i].status # "none" /\ svc[i].status # "destroyed" /\ svc[i].status # "doomed"
  BY DEF Quiet, LooksConnected, RestInv, PlainInv, StructInv, Struct, FieldsOK
<1> QED BY <1>1, <1>2, <1>3 DEF Well, Touched, LooksConnected

(***************************************************************************)
(* The last word of the user is ACTION_STOP: when everything has come to   *)
(* rest no engine runs and no tun is open, for any number of instances,    *)
(* coroutines, intents and descriptors, whatever failed, was refused or    *)
(* was revoked on the way and however often the network changed, without a *)
(* kill switch, a switch of servers or zeptun.  What may be left is        *)
(* sing-box, once a reconnect restarted it after onDestroy.                *)
(***************************************************************************)
THEOREM StopIsFinal == ASSUME Plain PROVE Spec => []StopWins
<1>1. IInv /\ RestInv => StopWins
  <2> SUFFICES ASSUME TypeOK, RestInv, Quiet, command = "STOP"
               PROVE  ~core /\ (side = 0 \/ orphaned) /\ zeptun = NoFd /\ openFds = {}
    BY DEF IInv, StopWins
  <2>1. \A i \in Instances : ~Kept(i)
    BY RestKept, RestWell DEF RestInv, StopInv
  <2>2. ~core /\ coreFd = NoFd /\ \A i \in Instances : ~Owns(i) /\ (side = i => orphaned)
    BY <2>1 DEF RestInv, KeptInv, SomeKeeper
  <2>3. (side = 0 \/ orphaned) /\ zeptun = NoFd
    BY <2>2 DEF TypeOK, RestInv, PlainInv
  <2>4. \A f \in openFds : f = NoFd
    BY <2>2 DEF RestInv, TunInv, Held, Holds, Quiet
  <2> QED BY <2>2, <2>3, <2>4 DEF RestInv, PlainInv
<1> QED BY <1>1, Invariance, RestInvariance, PTL

(***************************************************************************)
(* An instance that looks connected at rest has an engine, if no instance  *)
(* was created while coroutines of an earlier one were under way: one that *)
(* tears down late stops the engines of its successor.                     *)
(***************************************************************************)
THEOREM ConnectedHasEngine == ASSUME Plain PROVE Spec /\ []Serial => []ConnectedIsReal
<1>1. IInv /\ RestInv /\ RealInv => ConnectedIsReal
  BY RestWell DEF IInv, RealInv, Real, Engine, Has, Quiet, ConnectedIsReal, LooksConnected
<1> QED BY <1>1, Invariance, RestInvariance, RealInvariance, PTL

(***************************************************************************)
(* CONNECTED is never the last broadcast of a session that is over, for    *)
(* any number of instances, late teardowns included: whoever answered for  *)
(* it has reported the end by then.                                        *)
(***************************************************************************)
THEOREM NoEndUnreported == ASSUME Plain PROVE Spec => []EndsAreTold
<1>1. RestInv => EndsAreTold
  <2> SUFFICES ASSUME RestInv, Quiet, announced = "CONNECTED"
               PROVE  \E i \in Instances : LooksConnected(i)
    BY DEF EndsAreTold
  <2>1. PICK i \in Instances : Vouches(svc, task, i)
    BY DEF RestInv, VouchInv
  <2>2. LooksConnected(i)
    BY <2>1 DEF Vouches, LooksConnected, Has, Quiet
  <2> QED BY <2>2
<1> QED BY <1>1, RestInvariance, PTL

(***************************************************************************)
(* At rest the last broadcast says CONNECTED if and only if an instance    *)
(* looks connected, if no instance was created while coroutines of an      *)
(* earlier one were under way, which report their end late.                *)
(***************************************************************************)
THEOREM ReportsAreTrue == ASSUME Plain PROVE Spec /\ []Serial => []ReportIsTrue
<1>1. IInv /\ RestInv /\ RealInv /\ EndsAreTold => ReportIsTrue
  <2> SUFFICES ASSUME TypeOK, RestInv, RealInv, EndsAreTold, Quiet
               PROVE  announced = "CONNECTED" <=> \E i \in Instances : LooksConnected(i)
    BY DEF IInv, ReportIsTrue
  <2>1. ASSUME NEW i \in Instances, LooksConnected(i) PROVE announced = "CONNECTED"
    <3>1. Real(i)
      BY <2>1, RestWell DEF RealInv
    <3> QED BY <2>1, <3>1 DEF Real, LooksConnected
  <2>2. announced = "CONNECTED" => \E i \in Instances : LooksConnected(i)
    BY DEF EndsAreTold
  <2> QED BY <2>1, <2>2
<1> QED BY <1>1, Invariance, RestInvariance, RealInvariance, NoEndUnreported, PTL

(***************************************************************************)
(* The steps that touch Xray.  All but the one of a switch are taken with  *)
(* the lock held.                                                          *)
(***************************************************************************)
LEMMA CoreSteps ==
  ASSUME NEW t \in Tasks, Run(t)
  PROVE  \/ UNCHANGED <<core, coreFd>>
         \/ core_stop(t) \/ xrayStart(t) \/ xrayRetry(t) \/ teardown(t) \/ enterKillSwitch(t)
         \/ destroyTeardown(t) \/ switchStop(t)
<1>1. lock(t) \/ cancelledInQueue(t) \/ engines(t) \/ tor(t) => UNCHANGED <<core, coreFd>>
  BY DEF lock, cancelledInQueue, engines, tor, coreVars
<1>2. zeptunChosen(t) \/ zeptunStart(t) \/ detach(t) => UNCHANGED <<core, coreFd>>
  BY DEF zeptunChosen, zeptunStart, detach, coreVars
<1>3. publish(t) \/ stopSelf(t) \/ destroyReport(t) => UNCHANGED <<core, coreFd>>
  BY DEF publish, stopSelf, destroyReport, coreVars
<1>4. \/ establish(t) \/ switchBegin(t) \/ switchClose(t) \/ switchRestart(t)
      \/ reconnectStop(t) \/ reconnectStart(t)
      => UNCHANGED <<core, coreFd>>
  BY DEF establish, switchBegin, switchClose, switchRestart, reconnectStop, reconnectStart, coreVars
<1> QED BY <1>1, <1>2, <1>3, <1>4 DEF Run

LEMMA OutsideSteps ==
  ASSUME NEW i \in Instances, Main(i) \/ networkChanged(i) \/ engineLost(i) \/ shareExpired(i)
  PROVE  UNCHANGED <<core, coreFd>>
<1>1. Main(i) => UNCHANGED <<core, coreFd>>
  BY DEF Main, onStart, onEmptyStart, onStop, onWarm, onReconnect, onRevoke, onDestroy, coreVars
<1> QED BY <1>1 DEF networkChanged, engineLost, shareExpired, coreVars

(***************************************************************************)
(* The comment on engineLock (GozarVpnService.kt:917-925) keeps its        *)
(* promise: while a start job is at the engines nobody else starts or      *)
(* stops Xray, for any number of coroutines and instances.  A switch of    *)
(* servers is excluded, which stops Xray without the lock.                 *)
(***************************************************************************)
THEOREM StartAlone == ASSUME Plain PROVE Spec => StartIsAlone
<1>1. ASSUME IInv, IInv', RestInv, [Next]_vars, NEW t \in Tasks, Starting(t),
             task'[t] \in {task[t], [task[t] EXCEPT !.cancelled = TRUE]}
      PROVE  UNCHANGED <<core, coreFd>>
  <2>1. TypeOK /\ task \in Coros /\ LockInv /\ LockInv'
    BY <1>1, TypeSplit DEF IInv
  <2>2. /\ task[t].kind = "start" /\ task[t].pc \notin {"queued", "establish"} /\ task[t].tries \in Nat
        /\ task'[t].kind = task[t].kind /\ task'[t].pc = task[t].pc /\ task'[t].tries = task[t].tries
    BY <1>1, <2>1 DEF Starting, Coros, Coroutine
  <2>3. engineLock = t /\ engineLock' = t /\ t # NoTask
    BY <2>1, <2>2 DEF LockInv, InSection, Tasks, NoTask
  <2>4. \A u \in Tasks : InSection(task[u]) => u = t
    BY <2>1, <2>3 DEF LockInv
  <2>5. ASSUME NEW u \in Tasks, Run(u) PROVE UNCHANGED <<core, coreFd>>
    <3>1. ~core_stop(u)
      <4>1. core_stop(u) => u = t /\ task[t].pc = "core"
        BY <2>4 DEF core_stop, At, InSection
      <4>2. core_stop(t) => task'[t].pc # "core"
        <5>1. core_stop(t) => Proceed(t, "tor") \/ Proceed(t, "zeptun")
          BY <2>3 DEF core_stop, Leave
        <5> QED BY <2>1, <5>1 DEF Proceed, GotoTask, Coros, Coroutine
      <4> QED BY <2>2, <4>1, <4>2
    <3>2. ~xrayStart(u) \/ UNCHANGED <<core, coreFd>>
      <4>1. xrayStart(u) => u = t /\ task[t].pc = "xray"
        BY <2>4 DEF xrayStart, At, InSection
      <4>2. xrayStart(t) => task'[t].pc # "xray"
        <5>1. xrayStart(t) => Proceed(t, "tor")
          BY <2>3 DEF xrayStart, Fail
        <5> QED BY <2>1, <5>1 DEF Proceed, GotoTask, Coros, Coroutine
      <4> QED BY <2>2, <4>1, <4>2
    <3>3. ~xrayRetry(u)
      <4>1. xrayRetry(u) => u = t
        BY <2>4 DEF xrayRetry, At, InSection
      <4>2. xrayRetry(t) => task'[t].tries = task[t].tries + 1
        BY <2>1, <2>3 DEF xrayRetry, Leave, Coros, Coroutine
      <4> QED BY <2>2, <4>1, <4>2
    <3>4. ~teardown(u) /\ ~enterKillSwitch(u) /\ ~destroyTeardown(u)
      BY <2>2, <2>4 DEF teardown, enterKillSwitch, destroyTeardown, At, InSection
    <3>5. ~switchStop(u)
      BY <1>1 DEF switchStop, At, RestInv, PlainInv
    <3> QED BY <2>5, <3>1, <3>2, <3>3, <3>4, <3>5, CoreSteps
  <2> QED BY <1>1, <2>5, OutsideSteps DEF Next, onCreate, follow, vars, coreVars
<1>2. IInv /\ IInv' /\ RestInv /\ [Next]_vars
      => [\A t \in Tasks : Starting(t) /\ task'[t] \in {task[t], [task[t] EXCEPT !.cancelled = TRUE]}
                            => UNCHANGED <<core, coreFd>>]_vars
  BY <1>1
<1> QED BY <1>2, Invariance, RestInvariance, PTL DEF Spec, StartIsAlone

(***************************************************************************)
(* A process with a single instance meets the condition: what the service  *)
(* shows and reports at rest is true, for any number of coroutines,        *)
(* intents and descriptors.                                                *)
(***************************************************************************)
THEOREM OneInstanceIsTrue ==
  ASSUME Plain, MaxInstance = 1 PROVE Spec => [](ConnectedIsReal /\ ReportIsTrue)
<1>1. IInv /\ RestInv => Serial
  <2> SUFFICES ASSUME TypeOK, RestInv PROVE Serial
    BY DEF IInv
  <2>1. Instances = {1}
    BY DEF Instances
  <2>2. current \in {0, 1} /\ \A t \in Tasks : task[t].kind # "none" => task[t].inst = 1
    BY <2>1 DEF TypeOK, RestInv, StructInv, Struct, TasksOK
  <2> QED BY <2>2 DEF Serial
<1> QED BY <1>1, Invariance, RestInvariance, ConnectedHasEngine, ReportsAreTrue, PTL

=============================================================================
