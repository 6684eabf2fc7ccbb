------------------------ MODULE DownloadBytesProofs ------------------------
(***************************************************************************)
(* Proofs about the bytes of the downloads of GhajarDownloadService: a     *)
(* finished file has no hole.                                              *)
(***************************************************************************)
EXTENDS DownloadBooksProofs

(***************************************************************************)
(* The bytes that a record says were fetched are in the file.              *)
(***************************************************************************)
Full == 0..TotalBytes - 1

Covers(i, r, data) ==
  \A k \in DOMAIN r.segments : \A n \in 0..r.segments[k] - 1 :
    plan(i, r.total)[k].start + n \in data

(***************************************************************************)
(* What a job for download i has in its files.  A job that was cancelled   *)
(* may have lost its part file, but will not go on.                        *)
(***************************************************************************)
Fetching(j) == \/ thread[j].pc \in {"made", "run", "alloc", "fetch", "check"}
               \/ thread[j].pc \in {"load", "save"} /\ thread[j].item.state = "RUNNING"

JobHas(j, i) ==
  /\ Fetching(j) /\ ~thread[j].cancelled => Covers(i, thread[j].item, part[i].data)
  /\ thread[j].pc \in {"load", "save"} /\ thread[j].item.state = "PAUSED" =>
       Covers(i, thread[j].item, part[i].data)
  /\ thread[j].pc \in {"fetch", "check"} /\ ~thread[j].cancelled /\ thread[j].item.total > 0 =>
       part[i].size = TotalBytes
  /\ thread[j].pc = "fetch" /\ thread[j].left # {} => thread[j].paused \/ thread[j].cancelled
  /\ thread[j].pc = "check" /\ ~thread[j].paused /\ ~thread[j].cancelled /\ i \notin Unsized =>
       part[i].data = Full
  /\ thread[j].pc \in {"remove", "move"} /\ part[i].size = TotalBytes => part[i].data = Full
  /\ thread[j].pc \in {"load", "save"} /\ thread[j].item.state = "COMPLETED" =>
       target[i].data = Full
  /\ thread[j].pc = "fetch" => thread[j].item.segments # <<>>

(***************************************************************************)
(* What the list promises, but for a download whose cancel is under way,   *)
(* and what the main thread is about to promise.                           *)
(***************************************************************************)
ItemHas(i) ==
  /\ saved[i].state = "COMPLETED" => target[i].data = Full
  /\ saved[i].state \in {"QUEUED", "PAUSED"} /\ i \notin Cancelling =>
       Covers(i, saved[i], part[i].data)

MainHas(i) ==
  thread[Main].pc \in {"load", "save"} /\ thread[Main].it = i
    /\ thread[Main].item.state = "QUEUED" => Covers(i, thread[Main].item, part[i].data)

Sound(i) ==
  /\ i \in Unsized => part[i].size = 0
  /\ i \notin spoiled => /\ ItemHas(i) /\ MainHas(i)
                         /\ \A j \in Jobs : thread[j].it = i => JobHas(j, i)

Bytes == \A i \in Items \ NoRanges : Sound(i)

(***************************************************************************)
(* Only a job that fetches has segments whose threads left.                *)
(***************************************************************************)
Tidy == \A j \in Jobs : thread[j].pc # "fetch" => thread[j].left = {}

BytesInv == ~disturbed => Tidy /\ Bytes

-----------------------------------------------------------------------------
LEMMA CoversMore ==
  ASSUME NEW i, NEW r, NEW data, Covers(i, r, data), NEW more, data \subseteq more
  PROVE  Covers(i, r, more)
BY DEF Covers

LEMMA CoversSame ==
  ASSUME NEW i, NEW r, NEW data, Covers(i, r, data),
         NEW q, q.segments = r.segments, q.total = r.total
  PROVE  Covers(i, q, data)
BY DEF Covers

LEMMA CoversNone ==
  ASSUME NEW i, NEW r, r.segments = <<>>, NEW data
  PROVE  Covers(i, r, data)
<1>1. DOMAIN r.segments = {} OBVIOUS
<1> QED BY <1>1 DEF Covers

LEMMA CoversZero ==
  ASSUME NEW i, NEW r, \A k \in DOMAIN r.segments : r.segments[k] = 0, NEW data
  PROVE  Covers(i, r, data)
<1>1. \A k \in DOMAIN r.segments : 0..r.segments[k] - 1 = {} OBVIOUS
<1> QED BY <1>1 DEF Covers

(***************************************************************************)
(* One more byte of segment k.                                             *)
(***************************************************************************)
LEMMA CoversNext ==
  ASSUME NEW i, NEW r, NEW data, Covers(i, r, data),
         NEW k \in DOMAIN r.segments, r.segments \in Seq(Nat),
         NEW q, q.segments = [r.segments EXCEPT ![k] = @ + 1], q.total = r.total
  PROVE  Covers(i, q, data \cup {plan(i, r.total)[k].start + r.segments[k]})
<1> DEFINE s == r.segments
           z == [s EXCEPT ![k] = @ + 1]
           p == plan(i, r.total)
<1>1. s \in Seq(Nat) /\ k \in DOMAIN s /\ q.segments = z /\ q.total = r.total OBVIOUS
<1>2. \A m \in DOMAIN s : \A n \in 0..s[m] - 1 : p[m].start + n \in data BY DEF Covers
<1> HIDE DEF s, p
<1>3. DOMAIN z = DOMAIN s /\ \A m \in DOMAIN s : s[m] \in Nat /\ z[m] = IF m = k THEN s[m] + 1 ELSE s[m]
  BY <1>1
<1> HIDE DEF z
<1>4. ASSUME NEW m \in DOMAIN z, NEW n \in 0..z[m] - 1
      PROVE  p[m].start + n \in data \cup {p[k].start + s[k]}
  <2>1. CASE m = k /\ n = s[k] BY <2>1
  <2>2. CASE ~(m = k /\ n = s[k])
    <3>1. n \in 0..s[m] - 1 BY <1>3, <2>2
    <3> QED BY <1>2, <1>3, <3>1
  <2> QED BY <2>1, <2>2
<1> QED BY <1>1, <1>4 DEF Covers, s, p

(***************************************************************************)
(* When every segment is finished the file is whole: the segments of a     *)
(* plan leave out no byte.                                                 *)
(***************************************************************************)
LEMMA CoversAll ==
  ASSUME NEW i \in Items, NEW r, NEW data, Covers(i, r, data), data \subseteq Full,
         r.total = TotalBytes, r.segments \in Seq(Nat),
         DOMAIN r.segments = DOMAIN plan(i, r.total),
         \A k \in DOMAIN r.segments :
           ~(plan(i, r.total)[k].start + r.segments[k] <= plan(i, r.total)[k].end)
  PROVE  data = Full
<1> SUFFICES ASSUME NEW b \in Full PROVE b \in data OBVIOUS
<1> DEFINE p == plan(i, TotalBytes)
           s == r.segments
<1>1. Tiles(p, TotalBytes)
  <2>1. (i \notin NoRanges) \in BOOLEAN OBVIOUS
  <2> QED BY <2>1, PlanTiles, DownloadAssumption DEF plan
<1>2. PICK c \in Nat \ {0} :
        /\ DOMAIN p = 1..c
        /\ \A k \in 1..c : p[k].start \in Nat /\ p[k].end \in Int
  BY PlanFacts
<1>3. /\ s \in Seq(Nat) /\ DOMAIN s = DOMAIN p
      /\ \A k \in DOMAIN s : ~(p[k].start + s[k] <= p[k].end)
      /\ \A k \in DOMAIN s : \A n \in 0..s[k] - 1 : p[k].start + n \in data
  BY DEF Covers
<1> HIDE DEF p, s
<1>4. PICK k \in DOMAIN p : b \in p[k].start..p[k].end BY <1>1 DEF Tiles, Full
<1>5. s[k] \in Nat BY <1>3
<1>6. p[k].start \in Nat /\ p[k].end \in Int BY <1>2
<1>7. b \in Int BY DownloadAssumption DEF Full
<1>8. b - p[k].start \in 0..s[k] - 1 BY <1>3, <1>4, <1>5, <1>6, <1>7
<1>9. p[k].start + (b - p[k].start) \in data BY <1>3, <1>8
<1> QED BY <1>6, <1>7, <1>9

-----------------------------------------------------------------------------
(***************************************************************************)
(* Steps that do not concern a download, or concern it through one job.    *)
(***************************************************************************)
Carries(j) == /\ thread'[j].pc = thread[j].pc /\ thread'[j].it = thread[j].it
              /\ thread'[j].item = thread[j].item /\ thread'[j].left = thread[j].left
              /\ thread[j].cancelled => thread'[j].cancelled
              /\ thread[j].pc \in {"fetch", "check"} /\ thread[j].paused => thread'[j].paused

LEMMA DoneHas ==
  ASSUME NEW j, NEW i, thread'[j].pc \notin Transfer \cup {"made", "run", "load", "save"}
  PROVE  JobHas(j, i)'
<1>1. thread'[j].pc \notin {"made", "run", "alloc", "fetch", "check", "remove", "move", "load", "save"}
  BY DEF Transfer
<1> QED BY <1>1 DEF JobHas, Fetching

LEMMA IdleHas ==
  ASSUME NEW j, NEW i, ~AtWork(j)'
  PROVE  JobHas(j, i)'
BY DoneHas DEF AtWork, Working

LEMMA CarriesHas ==
  ASSUME NEW j, NEW i, JobHas(j, i), Carries(j), part'[i] = part[i], target'[i] = target[i]
  PROVE  JobHas(j, i)'
<1>1. Fetching(j)' <=> Fetching(j) BY DEF Fetching, Carries
<1>2. Fetching(j)' /\ ~thread'[j].cancelled => Covers(i, thread'[j].item, part'[i].data)
  BY <1>1 DEF JobHas, Carries
<1>3. /\ thread'[j].pc \in {"load", "save"} /\ thread'[j].item.state = "PAUSED" =>
           Covers(i, thread'[j].item, part'[i].data)
      /\ thread'[j].pc \in {"remove", "move"} /\ part'[i].size = TotalBytes => part'[i].data = Full
      /\ thread'[j].pc \in {"load", "save"} /\ thread'[j].item.state = "COMPLETED" =>
           target'[i].data = Full
      /\ thread'[j].pc = "fetch" => thread'[j].item.segments # <<>>
  BY DEF JobHas, Carries
<1>4. thread'[j].pc \in {"fetch", "check"} /\ ~thread'[j].cancelled /\ thread'[j].item.total > 0 =>
        part'[i].size = TotalBytes
  BY DEF JobHas, Carries
<1>5. /\ thread'[j].pc = "fetch" /\ thread'[j].left # {} => thread'[j].paused \/ thread'[j].cancelled
      /\ thread'[j].pc = "check" /\ ~thread'[j].paused /\ ~thread'[j].cancelled /\ i \notin Unsized
           => part'[i].data = Full
  BY DEF JobHas, Carries
<1> QED BY <1>2, <1>3, <1>4, <1>5 DEF JobHas, Full

LEMMA SoundFrame ==
  ASSUME NEW i, Sound(i), saved'[i] = saved[i], part'[i] = part[i], target'[i] = target[i],
         spoiled \subseteq spoiled',
         i \in Cancelling => i \in Cancelling' \cup spoiled',
         i \notin spoiled' =>
           /\ \A j \in Jobs : thread'[j].it = i => Carries(j) \/ JobHas(j, i)'
           /\ \/ /\ thread'[Main].pc = thread[Main].pc /\ thread'[Main].it = thread[Main].it
                 /\ thread'[Main].item = thread[Main].item
              \/ MainHas(i)'
  PROVE  Sound(i)'
<1>1. i \in Unsized => part'[i].size = 0 BY DEF Sound
<1>2. ASSUME i \notin spoiled'
      PROVE  ItemHas(i)' /\ MainHas(i)' /\ \A j \in Jobs : thread'[j].it = i => JobHas(j, i)'
  <2>1. ItemHas(i) /\ MainHas(i) /\ \A j \in Jobs : thread[j].it = i => JobHas(j, i)
    BY <1>2 DEF Sound
  <2>2. ItemHas(i)' BY <1>2, <2>1 DEF ItemHas, Full
  <2>3. MainHas(i)' BY <1>2, <2>1 DEF MainHas
  <2>4. ASSUME NEW j \in Jobs, thread'[j].it = i PROVE JobHas(j, i)'
    <3>1. CASE Carries(j)
      <4>1. JobHas(j, i) BY <2>1, <2>4, <3>1 DEF Carries
      <4> QED BY <3>1, <4>1, CarriesHas
    <3> QED BY <1>2, <2>4, <3>1
  <2> QED BY <2>2, <2>3, <2>4
<1> QED BY <1>1, <1>2 DEF Sound

(***************************************************************************)
(* A step of a job for another download.                                   *)
(***************************************************************************)
LEMMA SoundElsewhere ==
  ASSUME Inv, NEW i, Sound(i), NEW j \in Jobs, Others(j), thread'[j].it # i \/ ~AtWork(j)',
         saved'[i] = saved[i], part'[i] = part[i], target'[i] = target[i],
         spoiled \subseteq spoiled'
  PROVE  Sound(i)'
<1>1. /\ Main \in Threads /\ j # Main /\ \A u \in Jobs : u \in Threads BY PlaceTypes
<1>2. thread'[Main] = thread[Main] BY <1>1 DEF Others
<1>3. Cancelling' = Cancelling BY <1>2 DEF Cancelling
<1>4. ASSUME NEW u \in Jobs, thread'[u].it = i PROVE Carries(u) \/ JobHas(u, i)'
  <2>1. CASE u # j
    <3>1. thread'[u] = thread[u] BY <1>1, <2>1 DEF Others
    <3> QED BY <3>1 DEF Carries
  <2>2. CASE u = j BY <1>4, <2>2, IdleHas
  <2> QED BY <2>1, <2>2
<1> QED BY <1>2, <1>3, <1>4, SoundFrame

(***************************************************************************)
(* A step of the job of the download.  There is no other at work for it,   *)
(* and the main thread is not about to queue it.                           *)
(***************************************************************************)
LEMMA SoundJob ==
  ASSUME Inv, Place, ~Overlap, NEW i, Sound(i), NEW j \in Jobs, AtWork(j), thread[j].it = i,
         Others(j), saved'[i] = saved[i], spoiled \subseteq spoiled',
         i \in Unsized => part'[i].size = 0,
         i \notin spoiled' => JobHas(j, i)',
         saved[i].state = "COMPLETED" => target'[i] = target[i],
         saved[i].state \in {"QUEUED", "PAUSED"} => part'[i] = part[i]
  PROVE  Sound(i)'
<1>1. /\ Main \in Threads /\ j # Main /\ \A u \in Jobs : u \in Threads /\ u # Main BY PlaceTypes
<1>2. thread'[Main] = thread[Main] BY <1>1 DEF Others
<1>3. Cancelling' = Cancelling BY <1>2 DEF Cancelling
<1>4. ASSUME i \notin spoiled'
      PROVE  ItemHas(i)' /\ MainHas(i)' /\ \A u \in Jobs : thread'[u].it = i => JobHas(u, i)'
  <2>1. ItemHas(i) BY <1>4 DEF Sound
  <2>2. ItemHas(i)' BY <1>3, <2>1 DEF ItemHas, Full
  <2>3. MainHas(i)'
    <3> SUFFICES ASSUME thread[Main].pc \in {"load", "save"}, thread[Main].it = i,
                        thread[Main].item.state = "QUEUED"
                 PROVE  FALSE
      BY <1>2 DEF MainHas
    <3>1. NoJob(i) BY DEF Place, MainListed
    <3> QED BY <3>1 DEF NoJob
  <2>4. ASSUME NEW u \in Jobs, u # j, thread'[u].it = i PROVE JobHas(u, i)'
    <3>1. thread'[u] = thread[u] BY <1>1, <2>4 DEF Others
    <3>2. ~AtWork(u) BY <1>1, <2>4, <3>1, OneAtWork
    <3>3. ~AtWork(u)' BY <3>1, <3>2 DEF AtWork
    <3> QED BY <3>3, IdleHas
  <2> QED BY <1>4, <2>2, <2>3, <2>4
<1> QED BY <1>4 DEF Sound

LEMMA TidyStep ==
  ASSUME Inv, Place, Tidy, Step
  PROVE  Tidy'
<1>1. /\ thread \in [Threads -> Thread] /\ \A j \in Jobs : j \in Threads /\ thread[j] \in Thread
  BY PlaceTypes
<1>2. ASSUME NEW c \in Command, NEW i \in Items, onStartCommand(c, i) PROVE Tidy'
  <2>1. JobsHear(i) BY <1>2, CommandEffect DEF Effect
  <2> QED BY <2>1 DEF JobsHear, Hears, Tidy
<1>3. ASSUME NEW c \in Command, NEW i \in Items, userCommand(c, i) PROVE Tidy'
  BY <1>2, <1>3 DEF userCommand
<1>4. CASE redeliver
  <2>1. PICK c \in Command, i \in Items : onStartCommand(c, i) BY <1>4, Redelivered
  <2> QED BY <1>2, <2>1
<1>6. /\ \A t : End(t).left = {} /\ [End(t) EXCEPT !.pc = "run"].left = {}
      /\ Fresh("next").left = {}
  BY DEF End, Fresh
<1>5. CASE processDeath
  <2>1. \A j \in Jobs : thread'[j] = thread[j] \/ thread'[j] = End(j)
    BY <1>1, <1>5 DEF processDeath
  <2> QED BY <1>6, <2>1 DEF Tidy
<1>7. ASSUME NEW t \in Threads, Shared(t) PROVE Tidy'
  <2>1. CASE persistLoad(t)
    BY <1>1, <2>1 DEF persistLoad, Tidy, Thread, At
  <2>2. CASE persistSave(t)
    <3>1. At(t, "save") BY <2>2 DEF persistSave
    <3>2. \/ thread' = [thread EXCEPT ![t] = End(t)]
          \/ thread' = [thread EXCEPT ![t].copy = Nothing,
                                      ![t].pc = IF thread[t].item.state = "QUEUED" THEN "start"
                                                ELSE IF thread[t].item.state = "RUNNING" THEN "alloc"
                                                ELSE "terminal"]
      BY <2>2, Zenon DEF persistSave
    <3>3. CASE thread' = [thread EXCEPT ![t] = End(t)] BY <1>1, <1>6, <3>3 DEF Tidy
    <3>4. CASE thread' # [thread EXCEPT ![t] = End(t)]
      BY <1>1, <3>1, <3>2, <3>4 DEF Tidy, Thread, At
    <3> QED BY <3>3, <3>4
  <2>3. CASE startRefused(t) BY <1>1, <1>6, <2>3 DEF startRefused, Tidy
  <2>4. CASE startJob(t)
    <3>1. PICK j \in Jobs :
            /\ At(j, "new")
            /\ thread' = [thread EXCEPT ![t].pc = "inc", ![t].made = j, ![t].count = activeCount,
                                        ![j].pc = "made", ![j].it = thread[t].it,
                                        ![j].item = thread[t].item]
      BY <2>4, Zenon DEF startJob
    <3>2. At(t, "start") BY <2>4 DEF startJob
    <3>3. j # t BY <3>1, <3>2 DEF At
    <3>4. /\ thread'[t].left = thread[t].left /\ thread'[j].left = thread[j].left
          /\ \A u \in Threads : u # t /\ u # j => thread'[u] = thread[u]
      BY <1>1, <3>1, <3>3 DEF Thread
    <3> QED BY <1>1, <3>1, <3>2, <3>4 DEF Tidy, At
  <2>5. CASE jobStarted(t)
    <3> DEFINE m == thread[t].made
    <3>1. \A u \in Jobs : \/ thread'[u] = thread[u] \/ thread'[u] = End(t)
                          \/ u = m /\ thread'[u] = [thread[u] EXCEPT !.pc = "run"]
                          \/ u = m /\ thread'[u] = [End(t) EXCEPT !.pc = "run"]
      BY <1>1, <2>5 DEF jobStarted
    <3>2. At(t, "inc") BY <2>5 DEF jobStarted
    <3>3. thread[m].pc = "made" BY <3>2 DEF Place, BookOK, At
    <3>4. ASSUME NEW u \in Jobs, thread'[u].pc # "fetch" PROVE thread'[u].left = {}
      <4>1. CASE thread'[u] = thread[u] BY <3>4, <4>1 DEF Tidy
      <4>2. CASE u = m /\ thread'[u] = [thread[u] EXCEPT !.pc = "run"]
        <5>1. thread[u].left = {} BY <3>3, <4>2 DEF Tidy
        <5> QED BY <1>1, <4>2, <5>1 DEF Thread
      <4> QED BY <1>6, <3>1, <4>1, <4>2
    <3> QED BY <3>4 DEF Tidy
  <2> QED BY <1>7, <2>1, <2>2, <2>3, <2>4, <2>5 DEF Shared
<1>8. ASSUME NEW j \in Jobs, Job(j) PROVE Tidy'
  <2>1. CASE run(j)
    <3>1. thread[j].pc = "run" BY <2>1 DEF run, At
    <3>2. \/ \E r : thread' = [thread EXCEPT ![j].pc = "load", ![j].item = r]
          \/ thread' = [thread EXCEPT ![j].pc = "load", ![j].item.state = "FAILED"]
      BY <2>1, Zenon DEF run
    <3>3. thread'[j].left = thread[j].left /\ \A u \in Jobs : u # j => thread'[u] = thread[u]
      BY <1>1, <3>2 DEF Thread
    <3> QED BY <3>1, <3>3 DEF Tidy
  <2>2. CASE allocate(j) BY <1>1, <2>2 DEF allocate, Tidy, Thread, At
  <2>3. ASSUME NEW k, downloadSegment(j, k) \/ segmentLeft(j, k) PROVE Tidy'
    BY <1>1, <2>3 DEF downloadSegment, segmentLeft, Tidy, Thread, At
  <2>4. CASE joined(j) BY <1>1, <2>4 DEF joined, Tidy, Thread
  <2>5. ASSUME NEW st, ended(j, st), thread[j].pc # "fetch" PROVE Tidy'
    BY <1>1, <2>5 DEF ended, Tidy, Thread
  <2>6. ASSUME NEW l, goto(j, l), thread[j].pc # "fetch" PROVE Tidy'
    BY <1>1, <2>6 DEF goto, Tidy, Thread
  <2>7. CASE check(j)
    <3>1. thread[j].pc # "fetch" BY <2>7 DEF check, At
    <3>2. ended(j, "CANCELLED") \/ ended(j, "PAUSED") \/ goto(j, "remove")
      BY <2>7, Zenon DEF check
    <3> QED BY <2>5, <2>6, <3>1, <3>2
  <2>8. CASE remove(j)
    <3>1. thread[j].pc # "fetch" BY <2>8 DEF remove, At
    <3>2. ended(j, "FAILED") \/ goto(j, "move") BY <2>8, Zenon DEF remove
    <3> QED BY <2>5, <2>6, <3>1, <3>2
  <2>9. CASE move(j)
    <3>1. thread[j].pc # "fetch" BY <2>9 DEF move, At
    <3>2. ended(j, "FAILED") \/ ended(j, "COMPLETED") BY <2>9, Zenon DEF move, moved
    <3> QED BY <2>5, <3>1, <3>2
  <2>10. CASE onTerminal(j) BY <1>1, <2>10 DEF onTerminal, Tidy, Thread, At
  <2>11. CASE jobEnded(j) BY <1>1, <1>6, <2>11 DEF jobEnded, Tidy
  <2>12. CASE startNext(j)
    <3>1. thread[j].pc = "next" BY <2>12, Zenon DEF startNext, At
    <3>2. \/ \E i \in Waiting :
               thread' = [thread EXCEPT ![j].pc = "start", ![j].it = i, ![j].item = saved[i]]
          \/ goto(j, "gone")
      BY <2>12, Zenon DEF startNext
    <3>3. CASE goto(j, "gone") BY <2>6, <3>1, <3>3
    <3>4. ASSUME NEW i \in Waiting,
                 thread' = [thread EXCEPT ![j].pc = "start", ![j].it = i, ![j].item = saved[i]]
          PROVE  Tidy'
      BY <1>1, <3>1, <3>4 DEF Tidy, Thread
    <3> QED BY <3>2, <3>3, <3>4, Zenon
  <2> QED
    BY <1>8, <2>1, <2>2, <2>3, <2>4, <2>7, <2>8, <2>9, <2>10, <2>11, <2>12 DEF Job
<1> QED BY <1>3, <1>4, <1>5, <1>7, <1>8 DEF Step

-----------------------------------------------------------------------------
(***************************************************************************)
(* The transfer.                                                           *)
(***************************************************************************)
LEMMA TransferFiles ==
  ASSUME Inv, NEW j \in Jobs, Transfers(j), NEW i \in Items, thread[j].it # i
  PROVE  part'[i] = part[i] /\ target'[i] = target[i] /\ spoiled \subseteq spoiled'
<1>1. part \in [Items -> File] /\ target \in [Items -> File] BY DEF Inv, TypeOK
<1>2. CASE run(j) \/ joined(j) \/ check(j)
  BY <1>2 DEF run, joined, check, diskVars
<1>3. CASE allocate(j) BY <1>1, <1>3 DEF allocate
<1>4. ASSUME NEW k, downloadSegment(j, k)
      PROVE  part'[i] = part[i] /\ target'[i] = target[i] /\ spoiled' = spoiled
  <2>1. \E f : part' = [part EXCEPT ![thread[j].it] = f] BY <1>4 DEF downloadSegment
  <2>2. target' = target /\ spoiled' = spoiled BY <1>4 DEF downloadSegment
  <2> QED BY <1>1, <2>1, <2>2
<1>5. ASSUME NEW k, segmentLeft(j, k)
      PROVE  part'[i] = part[i] /\ target'[i] = target[i] /\ spoiled \subseteq spoiled'
  BY <1>5 DEF segmentLeft, diskVars
<1>6. CASE remove(j) BY <1>1, <1>6 DEF remove
<1>7. CASE move(j) BY <1>1, <1>7 DEF move, moved
<1> QED BY <1>2, <1>3, <1>4, <1>5, <1>6, <1>7 DEF Transfers

LEMMA LoadHas ==
  ASSUME NEW j, NEW i, thread'[j].pc = "load",
         \/ thread'[j].item.state \in {"RUNNING", "PAUSED"} =>
              thread'[j].cancelled \/ Covers(i, thread'[j].item, part'[i].data),
         thread'[j].item.state = "PAUSED" => Covers(i, thread'[j].item, part'[i].data),
         thread'[j].item.state = "COMPLETED" => target'[i].data = Full
  PROVE  JobHas(j, i)'
BY DEF JobHas, Fetching, Full

(***************************************************************************)
(* The facts that each of the following steps begins with.                 *)
(***************************************************************************)
Ready(i, j) == /\ Inv /\ Calm /\ Place /\ ~Overlap /\ Sound(i) /\ Tidy
               /\ j \in Jobs /\ thread[j].it = i /\ i \in Items \ NoRanges

LEMMA ReadyTypes ==
  ASSUME NEW i, NEW j, Ready(i, j)
  PROVE  /\ Inv /\ Place /\ ~Overlap /\ Sound(i) /\ i \in Items /\ j \in Jobs /\ j \in Threads
         /\ thread \in [Threads -> Thread] /\ thread[j] \in Thread /\ thread[j].it = i
         /\ thread[j].item \in DownloadItem /\ EntryOK(i, thread[j].item)
         /\ part \in [Items -> File] /\ target \in [Items -> File] /\ part[i] \in File
         /\ JobListed(j)
<1>1. Inv /\ Place /\ ~Overlap /\ Sound(i) /\ i \in Items /\ j \in Jobs /\ thread[j].it = i
  BY DEF Ready
<1>2. j \in Threads /\ thread \in [Threads -> Thread] /\ thread[j] \in Thread
  BY <1>1, JobIsThread
<1>3. thread[j].item \in DownloadItem BY <1>2 DEF Thread
<1>4. ThreadOK(thread[j]) BY <1>1, <1>2 DEF Inv
<1>5. EntryOK(i, thread[j].item) BY <1>1, <1>4 DEF ThreadOK
<1>6. part \in [Items -> File] /\ target \in [Items -> File] BY <1>1 DEF Inv, TypeOK
<1>7. part[i] \in File BY <1>1, <1>6
<1>8. JobListed(j) BY <1>1 DEF Place
<1> QED BY <1>1, <1>2, <1>3, <1>5, <1>6, <1>7, <1>8

LEMMA BytesRun ==
  ASSUME NEW i, NEW j, Ready(i, j), run(j)
  PROVE  Sound(i)'
<1> DEFINE item == thread[j].item
           total == IF item.total > 0 \/ i \in Unsized THEN item.total ELSE TotalBytes
           segments == IF item.segments # <<>> THEN item.segments
                       ELSE [k \in DOMAIN plan(i, total) |-> 0]
           running == [state |-> "RUNNING", total |-> total, segments |-> segments]
<1>1. /\ Inv /\ Place /\ ~Overlap /\ Sound(i) /\ i \in Items /\ j \in Jobs /\ j \in Threads
      /\ thread \in [Threads -> Thread] /\ thread[j] \in Thread /\ thread[j].it = i
      /\ item \in DownloadItem /\ EntryOK(i, item) /\ JobListed(j)
  BY ReadyTypes
<1>2. /\ thread[j].pc = "run" /\ UNCHANGED <<saved, part, target, spoiled>>
  BY DEF run, At, diskVars
<1>3. Others(j) BY <1>1, <1>2, TransferMoves DEF Transfers, Moves
<1>4. /\ thread'[j].pc = "load" /\ thread'[j].cancelled = thread[j].cancelled
      /\ thread'[j].item = running \/ thread'[j].item.state = "FAILED"
  <2>1. \/ thread' = [thread EXCEPT ![j].pc = "load", ![j].item = running]
        \/ thread' = [thread EXCEPT ![j].pc = "load", ![j].item.state = "FAILED"]
    BY <1>1, Zenon DEF run
  <2>2. CASE thread' = [thread EXCEPT ![j].pc = "load", ![j].item = running]
    BY <1>1, <2>2 DEF Thread
  <2>3. CASE thread' = [thread EXCEPT ![j].pc = "load", ![j].item.state = "FAILED"]
    BY <1>1, <2>3 DEF Thread, DownloadItem
  <2> QED BY <2>1, <2>2, <2>3
<1>5. ASSUME NEW data, Covers(i, item, data) PROVE Covers(i, running, data)
  <2>1. CASE item.segments # <<>>
    <3>1. running.segments = item.segments /\ running.total = item.total
      BY <1>1, <2>1, DownloadAssumption DEF EntryOK
    <3> QED BY <1>5, <3>1, CoversSame
  <2>2. CASE item.segments = <<>>
    <3>1. \A k \in DOMAIN running.segments : running.segments[k] = 0 BY <2>2
    <3> HIDE DEF running
    <3> QED BY <3>1, CoversZero
  <2> QED BY <2>1, <2>2
<1>6. running.state = "RUNNING" OBVIOUS
<1> HIDE DEF running
<1>7. ASSUME i \notin spoiled' PROVE JobHas(j, i)'
  <2>1. JobHas(j, i) BY <1>1, <1>2, <1>7 DEF Sound
  <2>2. ~thread[j].cancelled => Covers(i, item, part[i].data)
    BY <1>2, <2>1 DEF JobHas, Fetching
  <2>3. CASE thread'[j].item = running
    BY <1>2, <1>4, <1>5, <1>6, <2>2, <2>3, LoadHas
  <2>4. CASE thread'[j].item.state = "FAILED" BY <1>4, <2>4, LoadHas
  <2> QED BY <1>4, <2>3, <2>4
<1>8. AtWork(j) BY <1>2 DEF AtWork, Working
<1>9. i \in Unsized => part'[i].size = 0 BY <1>1, <1>2 DEF Sound
<1> QED BY <1>1, <1>2, <1>3, <1>7, <1>8, <1>9, SoundJob

LEMMA BytesAllocate ==
  ASSUME NEW i, NEW j, Ready(i, j), allocate(j)
  PROVE  Sound(i)'
<1> DEFINE item == thread[j].item
<1>1. /\ Inv /\ Place /\ ~Overlap /\ Sound(i) /\ i \in Items /\ j \in Jobs /\ j \in Threads
      /\ thread \in [Threads -> Thread] /\ thread[j] \in Thread /\ thread[j].it = i
      /\ item \in DownloadItem /\ EntryOK(i, item) /\ JobListed(j)
      /\ part \in [Items -> File] /\ part[i] \in File
  BY ReadyTypes
<1>2. /\ thread[j].pc = "alloc" /\ UNCHANGED <<saved, target, spoiled>>
  BY DEF allocate, At
<1>3. Others(j) BY <1>1, TransferMoves DEF Transfers, Moves
<1>4. /\ thread'[j].pc = "fetch" /\ thread'[j].item = item /\ thread'[j].left = thread[j].left
      /\ thread'[j].cancelled = thread[j].cancelled
  BY <1>1 DEF allocate, Thread
<1>5. /\ part'[i].data = part[i].data
      /\ item.total > 0 => part'[i].size = TotalBytes
      /\ ~(item.total > 0) => part'[i] = part[i]
  BY <1>1 DEF allocate, File
<1>6. thread[j].left = {} BY <1>1, <1>2 DEF Ready, Tidy
<1>11. item.segments # <<>>
  <2>1. ThreadOK(thread[j]) BY <1>1 DEF Inv
  <2> QED BY <1>1, <1>2, <2>1 DEF ThreadOK, EntryOK
<1>7. ASSUME i \notin spoiled' PROVE JobHas(j, i)'
  <2>1. JobHas(j, i) BY <1>1, <1>2, <1>7 DEF Sound
  <2>2. ~thread[j].cancelled => Covers(i, item, part[i].data)
    BY <1>2, <2>1 DEF JobHas, Fetching
  <2> QED BY <1>4, <1>5, <1>6, <1>11, <2>2 DEF JobHas, Fetching
<1>8. AtWork(j) BY <1>2 DEF AtWork, Working, Transfer
<1>9. i \in Unsized => part'[i].size = 0 BY <1>1, <1>5 DEF Sound, EntryOK
<1>10. saved[i].state \in {"RUNNING", "CANCELLED"} BY <1>1, <1>2 DEF JobListed, Transfer
<1> QED BY <1>1, <1>2, <1>3, <1>7, <1>8, <1>9, <1>10, SoundJob

(***************************************************************************)
(* A byte that was fetched is in the file: the file has its full length,   *)
(* so that it was not deleted.                                             *)
(***************************************************************************)
LEMMA BytesDownload ==
  ASSUME NEW i, NEW j, Ready(i, j), NEW k, downloadSegment(j, k)
  PROVE  Sound(i)'
<1> DEFINE item == thread[j].item
           b == Position(j, k)
           next == [item EXCEPT !.segments = [item.segments EXCEPT ![k] = @ + 1]]
<1>1. /\ Inv /\ Place /\ ~Overlap /\ Sound(i) /\ i \in Items /\ j \in Jobs /\ j \in Threads
      /\ thread \in [Threads -> Thread] /\ thread[j] \in Thread /\ thread[j].it = i
      /\ item \in DownloadItem /\ EntryOK(i, item) /\ JobListed(j)
      /\ part \in [Items -> File] /\ part[i] \in File
  BY ReadyTypes
<1>2. /\ thread[j].pc = "fetch" /\ ~thread[j].paused /\ ~thread[j].cancelled
      /\ k \in Unfinished(j) /\ UNCHANGED <<saved, target, spoiled>>
  BY DEF downloadSegment, At
<1>3. /\ k \in DOMAIN item.segments /\ item.segments \in Seq(Nat) /\ b \in 0..TotalBytes - 1
      /\ b = plan(i, item.total)[k].start + item.segments[k]
  BY <1>1, <1>2, PositionInFile DEF Position, Segment, DownloadItem
<1>4. /\ thread'[j].pc = "fetch" /\ thread'[j].item = next /\ thread'[j].left = thread[j].left
      /\ thread'[j].paused = thread[j].paused /\ thread'[j].cancelled = thread[j].cancelled
  <2>1. thread' = [thread EXCEPT ![j].item.segments[k] = @ + 1] BY DEF downloadSegment
  <2> QED BY <1>1, <1>2, <2>1 DEF Thread, DownloadItem
<1>5. next.total = item.total /\ next.segments = [item.segments EXCEPT ![k] = @ + 1]
  BY <1>1 DEF DownloadItem
<1>6. Others(j)
  <2>1. thread' = [thread EXCEPT ![j].item.segments[k] = @ + 1] BY DEF downloadSegment
  <2> QED BY <1>1, <2>1 DEF Others
<1>7. item.total = TotalBytes
  <2>1. item.total \in {-1, TotalBytes} BY <1>1 DEF DownloadItem
  <2>2. item.segments # <<>> BY <1>3
  <2>3. DOMAIN item.segments = DOMAIN plan(i, item.total) BY <1>1, <2>2 DEF EntryOK
  <2>4. /\ plan(i, item.total)[k].end \in Int /\ plan(i, item.total)[k].end < item.total
    BY <1>1, <1>3, <2>1, <2>3, PlanFacts
  <2>5. b <= plan(i, item.total)[k].end BY <1>1, <1>2 DEF Unfinished, Segment
  <2>6. PICK e \in Int : e = plan(i, item.total)[k].end BY <2>4
  <2>7. 0 <= b /\ b <= e /\ e < item.total /\ b \in Int BY <1>3, <2>4, <2>5, <2>6, DownloadAssumption
  <2>8. item.total # -1 BY <2>6, <2>7
  <2> QED BY <2>1, <2>8
<1>8. i \notin Unsized BY <1>1, <1>7, DownloadAssumption DEF EntryOK
<1> HIDE DEF b, next
<1>9. ASSUME i \notin spoiled' PROVE JobHas(j, i)'
  <2>1. JobHas(j, i) BY <1>1, <1>2, <1>9 DEF Sound
  <2>2. Covers(i, item, part[i].data) BY <1>2, <2>1 DEF JobHas, Fetching
  <2>3. part[i].size = TotalBytes BY <1>2, <1>7, <2>1, DownloadAssumption DEF JobHas
  <2>4. thread[j].left = {} BY <1>2, <2>1 DEF JobHas
  <2>5. part'[i] = [size |-> TotalBytes, data |-> part[i].data \cup {b}]
    <3> DEFINE written == [size |-> IF part[i].size > b THEN part[i].size ELSE b + 1,
                           data |-> IF i \notin NoRanges \/ thread[j].from = 0
                                    THEN part[i].data \cup {b} ELSE part[i].data \ {b}]
    <3>1. \E f \in {written} \cup {g \in {part[i]} : g.size < TotalBytes} :
            part' = [part EXCEPT ![i] = f]
      BY <1>1 DEF downloadSegment, b
    <3>2. part[i].size > b BY <1>3, <2>3, DownloadAssumption
    <3>3. i \notin NoRanges BY DEF Ready
    <3>4. written = [size |-> TotalBytes, data |-> part[i].data \cup {b}] BY <2>3, <3>2, <3>3
    <3> HIDE DEF written
    <3>5. {g \in {part[i]} : g.size < TotalBytes} = {} BY <2>3, DownloadAssumption
    <3>6. part' = [part EXCEPT ![i] = written] BY <3>1, <3>5
    <3> QED BY <1>1, <3>4, <3>6
  <2>6. Covers(i, next, part[i].data \cup {b}) BY <1>3, <1>5, <2>2, CoversNext
  <2>7. part'[i].size = TotalBytes /\ part'[i].data = part[i].data \cup {b} BY <2>5
  <2>8. next.segments # <<>>
    <3> DEFINE q == item.segments
    <3>1. q \in Seq(Nat) /\ k \in DOMAIN q BY <1>3
    <3> HIDE DEF q
    <3>2. [q EXCEPT ![k] = @ + 1] # <<>> BY <3>1
    <3> QED BY <1>5, <3>2 DEF q
  <2> QED BY <1>4, <2>4, <2>6, <2>7, <2>8 DEF JobHas, Fetching
<1>10. AtWork(j) BY <1>2 DEF AtWork, Working, Transfer
<1>11. saved[i].state \in {"RUNNING", "CANCELLED"} BY <1>1, <1>2 DEF JobListed, Transfer
<1> QED BY <1>1, <1>2, <1>6, <1>8, <1>9, <1>10, <1>11, SoundJob

LEMMA BytesSegmentLeft ==
  ASSUME NEW i, NEW j, Ready(i, j), NEW k, segmentLeft(j, k)
  PROVE  Sound(i)'
<1>1. /\ Inv /\ Place /\ ~Overlap /\ Sound(i) /\ j \in Jobs /\ j \in Threads
      /\ thread \in [Threads -> Thread] /\ thread[j] \in Thread /\ thread[j].it = i
  BY ReadyTypes
<1>2. /\ thread[j].pc = "fetch" /\ UNCHANGED <<saved, part, target>>
      /\ spoiled \subseteq spoiled'
      /\ i \notin spoiled' => thread[j].paused \/ thread[j].cancelled
  BY <1>1 DEF segmentLeft, At, diskVars
<1>3. /\ thread'[j].pc = "fetch" /\ thread'[j].item = thread[j].item
      /\ thread'[j].paused = thread[j].paused /\ thread'[j].cancelled = thread[j].cancelled
      /\ Others(j)
  BY <1>1, <1>2 DEF segmentLeft, Thread, Others
<1>4. ASSUME i \notin spoiled' PROVE JobHas(j, i)'
  <2>1. JobHas(j, i) BY <1>1, <1>2, <1>4 DEF Sound
  <2>2. ~thread'[j].cancelled => Covers(i, thread'[j].item, part'[i].data)
    BY <1>2, <1>3, <2>1 DEF JobHas, Fetching
  <2>3. ~thread'[j].cancelled /\ thread'[j].item.total > 0 => part'[i].size = TotalBytes
    BY <1>2, <1>3, <2>1 DEF JobHas
  <2>4. thread'[j].paused \/ thread'[j].cancelled BY <1>2, <1>3, <1>4
  <2>5. thread'[j].item.segments # <<>> BY <1>2, <1>3, <2>1 DEF JobHas
  <2> QED BY <1>3, <2>2, <2>3, <2>4, <2>5 DEF JobHas, Fetching
<1>5. AtWork(j) BY <1>2 DEF AtWork, Working, Transfer
<1>6. i \in Unsized => part'[i].size = 0 BY <1>1, <1>2 DEF Sound
<1> QED BY <1>1, <1>2, <1>3, <1>4, <1>5, <1>6, SoundJob

(***************************************************************************)
(* The threads of all segments are back.  Unless the job was told to stop  *)
(* none has left, so that every segment is finished.                       *)
(***************************************************************************)
LEMMA BytesJoined ==
  ASSUME NEW i, NEW j, Ready(i, j), joined(j)
  PROVE  Sound(i)'
<1> DEFINE item == thread[j].item
<1>1. /\ Inv /\ Place /\ ~Overlap /\ Sound(i) /\ i \in Items /\ j \in Jobs /\ j \in Threads
      /\ thread \in [Threads -> Thread] /\ thread[j] \in Thread /\ thread[j].it = i
      /\ item \in DownloadItem /\ EntryOK(i, item) /\ part[i] \in File
  BY ReadyTypes
<1>2. /\ thread[j].pc = "fetch" /\ UNCHANGED <<saved, part, target, spoiled>>
      /\ Unfinished(j) \subseteq thread[j].left
  BY DEF joined, At, diskVars
<1>3. /\ thread'[j].pc = "check" /\ thread'[j].item = item
      /\ thread'[j].paused = thread[j].paused /\ thread'[j].cancelled = thread[j].cancelled
      /\ Others(j)
  BY <1>1, <1>2 DEF joined, Thread, Others
<1>4. ASSUME i \notin spoiled' PROVE JobHas(j, i)'
  <2>1. JobHas(j, i) BY <1>1, <1>2, <1>4 DEF Sound
  <2>2. ~thread[j].cancelled => Covers(i, item, part[i].data)
    BY <1>2, <2>1 DEF JobHas, Fetching
  <2>3. ~thread[j].cancelled /\ item.total > 0 => part[i].size = TotalBytes
    BY <1>2, <2>1 DEF JobHas
  <2>4. ASSUME ~thread[j].paused, ~thread[j].cancelled, i \notin Unsized PROVE part[i].data = Full
    <3>1. Unfinished(j) = {} BY <1>2, <2>1, <2>4 DEF JobHas
    <3>2. item.segments # <<>> /\ item.segments \in Seq(Nat)
      BY <1>1, <1>2, <2>1 DEF DownloadItem, JobHas
    <3>3. DOMAIN item.segments = DOMAIN plan(i, item.total) /\ item.total = TotalBytes
      BY <1>1, <2>4, <3>2 DEF EntryOK
    <3>4. \A k \in DOMAIN item.segments :
            ~(plan(i, item.total)[k].start + item.segments[k] <= plan(i, item.total)[k].end)
      BY <1>1, <3>1 DEF Unfinished, Position, Segment
    <3>5. part[i].data \subseteq Full BY <1>1 DEF File, Full
    <3> QED BY <1>1, <2>2, <2>4, <3>2, <3>3, <3>4, <3>5, CoversAll
  <2>5. ~thread'[j].cancelled => Covers(i, thread'[j].item, part'[i].data) BY <1>2, <1>3, <2>2
  <2>6. ~thread'[j].cancelled /\ thread'[j].item.total > 0 => part'[i].size = TotalBytes
    BY <1>2, <1>3, <2>3
  <2>7. ~thread'[j].paused /\ ~thread'[j].cancelled /\ i \notin Unsized => part'[i].data = Full
    BY <1>2, <1>3, <2>4
  <2> QED BY <1>3, <2>5, <2>6, <2>7 DEF JobHas, Fetching, Full
<1>5. AtWork(j) BY <1>2 DEF AtWork, Working, Transfer
<1>6. i \in Unsized => part'[i].size = 0 BY <1>1, <1>2 DEF Sound
<1> QED BY <1>1, <1>2, <1>3, <1>4, <1>5, <1>6, SoundJob

LEMMA BytesCheck ==
  ASSUME NEW i, NEW j, Ready(i, j), check(j)
  PROVE  Sound(i)'
<1>1. /\ Inv /\ Place /\ ~Overlap /\ Sound(i) /\ j \in Jobs /\ j \in Threads
      /\ thread \in [Threads -> Thread] /\ thread[j] \in Thread /\ thread[j].it = i
      /\ thread[j].item \in DownloadItem
  BY ReadyTypes
<1>2. thread[j].pc = "check" /\ UNCHANGED <<saved, part, target, spoiled>>
  BY DEF check, At, diskVars
<1>3. \/ ended(j, "CANCELLED")
      \/ ~thread[j].cancelled /\ ended(j, "PAUSED")
      \/ ~thread[j].cancelled /\ ~thread[j].paused /\ goto(j, "remove")
  BY Zenon DEF check
<1>4. Others(j) BY <1>1, <1>3, EndedReports, GoesOn
<1>5. i \in Unsized => part'[i].size = 0 BY <1>1, <1>2 DEF Sound
<1>6. ASSUME i \notin spoiled' PROVE JobHas(j, i)'
  <2>1. JobHas(j, i) BY <1>1, <1>2, <1>6 DEF Sound
  <2>2. CASE ended(j, "CANCELLED")
    <3>1. thread'[j].pc = "load" /\ thread'[j].item.state = "CANCELLED"
      BY <1>1, <2>2, EndedReports
    <3> QED BY <3>1, LoadHas
  <2>3. CASE ~thread[j].cancelled /\ ended(j, "PAUSED")
    <3>1. /\ thread'[j].pc = "load" /\ thread'[j].item.state = "PAUSED"
          /\ thread'[j].item = [thread[j].item EXCEPT !.state = "PAUSED"]
      BY <1>1, <2>3, EndedReports
    <3>2. Covers(i, thread[j].item, part[i].data) BY <1>2, <2>1, <2>3 DEF JobHas, Fetching
    <3>3. /\ thread'[j].item.segments = thread[j].item.segments
          /\ thread'[j].item.total = thread[j].item.total
      BY <1>1, <3>1 DEF DownloadItem
    <3>4. Covers(i, thread'[j].item, part'[i].data) BY <1>2, <3>2, <3>3, CoversSame
    <3> QED BY <3>1, <3>4, LoadHas
  <2>4. CASE ~thread[j].cancelled /\ ~thread[j].paused /\ goto(j, "remove")
    <3>1. thread'[j].pc = "remove" BY <1>1, <2>4, GoesOn
    <3>2. i \notin Unsized => part'[i].data = Full BY <1>2, <2>1, <2>4 DEF JobHas
    <3>3. i \in Unsized => part'[i].size # TotalBytes BY <1>5, DownloadAssumption
    <3> QED BY <3>1, <3>2, <3>3 DEF JobHas, Fetching, Full
  <2> QED BY <1>3, <2>2, <2>3, <2>4
<1>7. AtWork(j) BY <1>2 DEF AtWork, Working, Transfer
<1> QED BY <1>1, <1>2, <1>4, <1>5, <1>6, <1>7, SoundJob

LEMMA BytesRemove ==
  ASSUME NEW i, NEW j, Ready(i, j), remove(j)
  PROVE  Sound(i)'
<1>1. /\ Inv /\ Place /\ ~Overlap /\ Sound(i) /\ j \in Jobs /\ thread[j].it = i /\ JobListed(j)
  BY ReadyTypes
<1>2. thread[j].pc = "remove" /\ UNCHANGED <<saved, part, spoiled>>
  BY DEF remove, At
<1>3. ended(j, "FAILED") \/ goto(j, "move") BY Zenon DEF remove
<1>4. Others(j) BY <1>1, <1>3, EndedReports, GoesOn
<1>5. i \in Unsized => part'[i].size = 0 BY <1>1, <1>2 DEF Sound
<1>6. ASSUME i \notin spoiled' PROVE JobHas(j, i)'
  <2>1. JobHas(j, i) BY <1>1, <1>2, <1>6 DEF Sound
  <2>2. CASE ended(j, "FAILED")
    <3>1. thread'[j].pc = "load" /\ thread'[j].item.state = "FAILED"
      BY <1>1, <2>2, EndedReports
    <3> QED BY <3>1, LoadHas
  <2>3. CASE goto(j, "move")
    <3>1. thread'[j].pc = "move" BY <1>1, <2>3, GoesOn
    <3>2. part'[i].size = TotalBytes => part'[i].data = Full BY <1>2, <2>1 DEF JobHas
    <3> QED BY <3>1, <3>2 DEF JobHas, Fetching, Full
  <2> QED BY <1>3, <2>2, <2>3
<1>7. AtWork(j) BY <1>2 DEF AtWork, Working, Transfer
<1>8. saved[i].state \in {"RUNNING", "CANCELLED"} BY <1>1, <1>2 DEF JobListed, Transfer
<1> QED BY <1>1, <1>2, <1>4, <1>5, <1>6, <1>7, <1>8, SoundJob

(***************************************************************************)
(* What is moved is whole: a part file that is not empty has its full      *)
(* length here.                                                            *)
(***************************************************************************)
LEMMA BytesMove ==
  ASSUME NEW i, NEW j, Ready(i, j), move(j)
  PROVE  Sound(i)'
<1>1. /\ Inv /\ Place /\ ~Overlap /\ Sound(i) /\ j \in Jobs /\ j \in Threads /\ thread[j].it = i
      /\ JobListed(j) /\ i \in Items
      /\ part \in [Items -> File] /\ target \in [Items -> File] /\ part[i] \in File
  BY ReadyTypes
<1>2. thread[j].pc = "move" /\ UNCHANGED <<saved, spoiled>> BY DEF move, At
<1>3. \/ part[i].size > 0 /\ moved(j)
      \/ ended(j, "FAILED") /\ UNCHANGED <<part, target>>
  BY <1>1 DEF move
<1>4. Others(j) BY <1>1, <1>3, EndedReports DEF moved
<1>5. i \in Unsized => part'[i].size = 0
  <2>1. i \in Unsized => part[i].size = 0 BY <1>1 DEF Sound
  <2> QED BY <1>1, <1>3, <2>1 DEF moved, NoFile
<1>6. ASSUME i \notin spoiled' PROVE JobHas(j, i)'
  <2>1. JobHas(j, i) BY <1>1, <1>2, <1>6 DEF Sound
  <2>2. CASE ended(j, "FAILED")
    <3>1. thread'[j].pc = "load" /\ thread'[j].item.state = "FAILED"
      BY <1>1, <2>2, EndedReports
    <3> QED BY <3>1, LoadHas
  <2>3. CASE part[i].size > 0 /\ moved(j)
    <3>1. thread'[j].pc = "load" /\ thread'[j].item.state = "COMPLETED"
      BY <1>1, <2>3, EndedReports DEF moved
    <3>2. part[i].size \in {0, TotalBytes} BY <1>1, <1>2 DEF Ready, Calm, ThreadCalm
    <3>3. part[i].data = Full BY <1>2, <2>1, <2>3, <3>2 DEF JobHas
    <3>4. target'[i] = part[i] BY <1>1, <2>3 DEF moved
    <3> QED BY <3>1, <3>3, <3>4, LoadHas
  <2> QED BY <1>3, <2>2, <2>3
<1>7. AtWork(j) BY <1>2 DEF AtWork, Working, Transfer
<1>8. saved[i].state \in {"RUNNING", "CANCELLED"} BY <1>1, <1>2 DEF JobListed, Transfer
<1> QED BY <1>1, <1>2, <1>4, <1>5, <1>6, <1>7, <1>8, SoundJob

LEMMA BytesTransfers ==
  ASSUME Inv, Calm, Place, Tidy, ~Overlap, NEW i \in Items \ NoRanges, Sound(i),
         NEW j \in Jobs, Transfers(j)
  PROVE  Sound(i)'
<1>1. CASE thread[j].it = i
  <2>1. Ready(i, j) BY <1>1 DEF Ready
  <2> QED
    BY <2>1, BytesRun, BytesAllocate, BytesDownload, BytesSegmentLeft, BytesJoined, BytesCheck,
       BytesRemove, BytesMove, Zenon DEF Transfers
<1>2. CASE thread[j].it # i
  <2>1. Others(j) /\ thread'[j].it # i /\ saved' = saved BY <1>2, TransferMoves DEF Moves
  <2>2. part'[i] = part[i] /\ target'[i] = target[i] /\ spoiled \subseteq spoiled'
    BY <1>2, TransferFiles
  <2> QED BY <2>1, <2>2, SoundElsewhere
<1> QED BY <1>1, <1>2

-----------------------------------------------------------------------------
(***************************************************************************)
(* The books.                                                              *)
(***************************************************************************)
LEMMA BytesPersistLoad ==
  ASSUME Inv, NEW i, Sound(i), NEW t \in Threads, persistLoad(t)
  PROVE  Sound(i)'
<1>1. /\ thread \in [Threads -> Thread] /\ thread[t] \in Thread /\ Main \in Threads
      /\ \A u \in Jobs : u \in Threads
  BY PlaceTypes
<1>2. UNCHANGED <<saved, part, target, spoiled>> BY DEF persistLoad, diskVars
<1>3. /\ thread[t].pc = "load" /\ thread'[t].pc = "save" /\ thread'[t].it = thread[t].it
      /\ thread'[t].item = thread[t].item /\ thread'[t].cancelled = thread[t].cancelled
      /\ \A u \in Threads : u # t => thread'[u] = thread[u]
  BY <1>1 DEF persistLoad, At, Thread
<1>4. Cancelling' = Cancelling BY <1>1, <1>3 DEF Cancelling
<1>5. ASSUME i \notin spoiled', NEW u \in Jobs, thread'[u].it = i
      PROVE  Carries(u) \/ JobHas(u, i)'
  <2>1. CASE u # t
    <3>1. thread'[u] = thread[u] BY <1>1, <1>3, <2>1
    <3> QED BY <3>1 DEF Carries
  <2>2. CASE u = t
    <3>1. JobHas(u, i) BY <1>2, <1>3, <1>5, <2>2 DEF Sound
    <3> QED BY <1>2, <1>3, <2>2, <3>1 DEF JobHas, Fetching, Full
  <2> QED BY <2>1, <2>2
<1>6. i \notin spoiled' => MainHas(i)'
  <2>1. i \notin spoiled' => MainHas(i) BY <1>2 DEF Sound
  <2>2. CASE t = Main BY <1>2, <1>3, <2>1, <2>2 DEF MainHas
  <2>3. CASE t # Main
    <3>1. thread'[Main] = thread[Main] BY <1>1, <1>3, <2>3
    <3> QED BY <1>2, <2>1, <3>1 DEF MainHas
  <2> QED BY <2>2, <2>3
<1> QED BY <1>2, <1>4, <1>5, <1>6, SoundFrame

(***************************************************************************)
(* The list gets a record whose bytes are in the file.                     *)
(***************************************************************************)
LEMMA BytesPersistSave ==
  ASSUME Inv, Calm, Place, ~Overlap, NEW i \in Items, Sound(i), NEW t \in Threads, persistSave(t)
  PROVE  Sound(i)'
<1> DEFINE m == thread[t].it
           item == thread[t].item
<1>1. /\ Main \in Threads /\ Main \notin Jobs /\ m \in Items /\ saved \in List
      /\ \A u \in Jobs : u \in Threads
      /\ t # Main => t \in Jobs
  BY PlaceTypes
<1>2. /\ thread[t].pc = "save" /\ Others(t) /\ saved' = [saved EXCEPT ![m] = item]
      /\ UNCHANGED <<part, target, spoiled>> /\ \A u \in Threads : u # t => ~AtBooks(u)
  BY Saves
<1>3. \/ /\ t = Main /\ item.state = "CANCELLED" /\ thread'[t] = End(t)
      \/ /\ t = Main /\ item.state = "QUEUED" /\ thread'[t].pc = "start"
      \/ /\ t # Main /\ item.state = "RUNNING" /\ thread'[t].pc = "alloc"
         /\ thread'[t].it = m /\ thread'[t].item = item
         /\ thread'[t].cancelled = thread[t].cancelled
      \/ /\ t # Main /\ item.state \notin {"QUEUED", "RUNNING"}
         /\ thread'[t].pc = "terminal" /\ thread'[t].it = m
  BY Saves
<1> HIDE DEF m, item
<1>4. saved'[m] = item /\ \A k \in Items : k # m => saved'[k] = saved[k]
  BY <1>1, <1>2 DEF List
<1>5. \A u \in Threads : u # t => thread'[u] = thread[u] BY <1>2 DEF Others
<1>6. thread'[Main].pc \notin {"load", "save"}
  <2>1. CASE t = Main BY <1>1, <1>3, <2>1, EndIsFree
  <2>2. CASE t # Main
    <3>1. thread'[Main] = thread[Main] /\ ~AtBooks(Main) BY <1>1, <1>2, <1>5, <2>2
    <3> QED BY <3>1 DEF AtBooks, Bookkeeping
  <2> QED BY <2>1, <2>2
<1>7. MainHas(i)' /\ Cancelling' = {} BY <1>6 DEF MainHas, Cancelling
<1>8. i \in Cancelling => i = m /\ item.state = "CANCELLED" /\ t = Main
  <2> SUFFICES ASSUME i \in Cancelling PROVE i = m /\ item.state = "CANCELLED" /\ t = Main
    OBVIOUS
  <2>1. /\ thread[Main].pc \in {"load", "save"} /\ thread[Main].it = i
        /\ thread[Main].item.state = "CANCELLED"
    BY DEF Cancelling
  <2>2. AtBooks(Main) BY <2>1 DEF AtBooks, Bookkeeping
  <2>3. t = Main BY <1>1, <1>2, <2>2
  <2> QED BY <2>1, <2>3 DEF m, item
<1>9. ASSUME i \notin spoiled', NEW u \in Jobs, thread'[u].it = i PROVE JobHas(u, i)'
  <2>1. CASE u # t
    <3>1. thread'[u] = thread[u] BY <1>1, <1>5, <2>1
    <3>2. JobHas(u, i) BY <1>2, <1>9, <3>1 DEF Sound
    <3>3. Carries(u) BY <3>1 DEF Carries
    <3> QED BY <1>2, <3>2, <3>3, CarriesHas
  <2>2. CASE u = t
    <3>1. CASE thread'[t].pc = "terminal" BY <2>2, <3>1, DoneHas DEF Transfer
    <3>2. CASE /\ item.state = "RUNNING" /\ thread'[t].pc = "alloc" /\ thread'[t].it = m
               /\ thread'[t].item = item /\ thread'[t].cancelled = thread[t].cancelled
      <4>1. JobHas(t, i) BY <1>2, <1>9, <2>2, <3>2 DEF Sound, m
      <4>2. ~thread'[t].cancelled => Covers(i, thread'[t].item, part'[i].data)
        BY <1>2, <3>2, <4>1 DEF JobHas, Fetching, item
      <4> QED BY <2>2, <3>2, <4>2 DEF JobHas, Fetching
    <3> QED BY <1>1, <1>3, <1>9, <2>2, <3>1, <3>2
  <2> QED BY <2>1, <2>2
<1>10. ASSUME i \notin spoiled' PROVE ItemHas(i)'
  <2>1. CASE i # m
    <3>1. ItemHas(i) /\ i \notin Cancelling BY <1>2, <1>8, <1>10, <2>1 DEF Sound
    <3> QED BY <1>2, <1>4, <2>1, <3>1 DEF ItemHas, Full
  <2>2. CASE i = m
    <3>1. CASE item.state \in {"CANCELLED", "RUNNING"} BY <1>4, <2>2, <3>1 DEF ItemHas
    <3>2. CASE t = Main /\ item.state = "QUEUED"
      <4>1. MainHas(i) BY <1>2, <1>10 DEF Sound
      <4>2. Covers(i, item, part[i].data) BY <1>2, <2>2, <3>2, <4>1 DEF MainHas, m, item
      <4> QED BY <1>2, <1>4, <2>2, <3>2, <4>2 DEF ItemHas
    <3>3. CASE t # Main /\ item.state \notin {"QUEUED", "RUNNING"}
      <4>1. JobHas(t, i) BY <1>1, <1>2, <1>10, <2>2, <3>3 DEF Sound, m
      <4>2. /\ item.state = "PAUSED" => Covers(i, item, part[i].data)
            /\ item.state = "COMPLETED" => target[i].data = Full
        BY <1>2, <4>1 DEF JobHas, item
      <4> QED BY <1>2, <1>4, <2>2, <3>3, <4>2 DEF ItemHas, Full
    <3> QED BY <1>3, <3>1, <3>2, <3>3
  <2> QED BY <2>1, <2>2
<1>11. i \in Unsized => part'[i].size = 0 BY <1>2 DEF Sound
<1> QED BY <1>7, <1>9, <1>10, <1>11 DEF Sound

LEMMA BytesRefused ==
  ASSUME Inv, NEW i, Sound(i), NEW t \in Threads, startRefused(t)
  PROVE  Sound(i)'
<1>1. /\ thread \in [Threads -> Thread] /\ Main \in Threads /\ \A u \in Jobs : u \in Threads
  BY PlaceTypes
<1>2. UNCHANGED <<saved, part, target, spoiled>> /\ thread[t].pc = "start"
  BY DEF startRefused, diskVars, At
<1>3. thread'[t] = End(t) /\ \A u \in Threads : u # t => thread'[u] = thread[u]
  BY <1>1 DEF startRefused
<1>4. ~AtWork(t)' /\ (t = Main => thread'[t].pc = "idle") BY <1>3, EndIsFree
<1>5. Cancelling \subseteq Cancelling'
  <2>1. CASE t = Main BY <1>2, <2>1 DEF Cancelling
  <2>2. CASE t # Main
    <3>1. thread'[Main] = thread[Main] BY <1>1, <1>3, <2>2
    <3> QED BY <3>1 DEF Cancelling
  <2> QED BY <2>1, <2>2
<1>6. ASSUME NEW u \in Jobs PROVE Carries(u) \/ JobHas(u, i)'
  <2>1. CASE u # t
    <3>1. thread'[u] = thread[u] BY <1>1, <1>3, <2>1
    <3> QED BY <3>1 DEF Carries
  <2>2. CASE u = t BY <1>4, <2>2, IdleHas
  <2> QED BY <2>1, <2>2
<1>7. thread'[Main] = thread[Main] \/ MainHas(i)'
  <2>1. CASE t = Main BY <1>4, <2>1 DEF MainHas
  <2>2. CASE t # Main BY <1>1, <1>3, <2>2
  <2> QED BY <2>1, <2>2
<1> QED BY <1>2, <1>5, <1>6, <1>7, SoundFrame

(***************************************************************************)
(* A new job begins with the record of the list.                           *)
(***************************************************************************)
LEMMA BytesStartJob ==
  ASSUME Inv, Place, ~Overlap, NEW i, Sound(i), NEW t \in Threads, startJob(t)
  PROVE  Sound(i)'
<1>1. Main \in Threads /\ Main \notin Jobs /\ \A u \in Jobs : u \in Threads BY PlaceTypes
<1>2. UNCHANGED <<saved, part, target, spoiled>>
  <2>1. UNCHANGED <<diskVars, activeCount, userVars, spoiled>> BY Zenon DEF startJob
  <2> QED BY <2>1 DEF diskVars
<1>3. PICK j \in Jobs :
        /\ At(t, "start") /\ At(j, "new") /\ j # t
        /\ \A u \in Threads : u # t /\ u # j => thread'[u] = thread[u] /\ ~AtBooks(u)
        /\ thread'[t].pc = "inc" /\ thread'[j].pc = "made" /\ thread'[j].it = thread[t].it
        /\ thread'[j].item = thread[t].item
  BY Starts
<1>4. i \notin Cancelling /\ thread'[Main].pc \notin {"load", "save"}
  <2>1. CASE t = Main BY <1>3, <2>1 DEF Cancelling, At
  <2>2. CASE t # Main
    <3>1. thread'[Main] = thread[Main] /\ ~AtBooks(Main) BY <1>1, <1>3, <2>2
    <3> QED BY <3>1 DEF Cancelling, AtBooks, Bookkeeping
  <2> QED BY <2>1, <2>2
<1>5. MainHas(i)' BY <1>4 DEF MainHas
<1>6. ASSUME i \notin spoiled', NEW u \in Jobs, thread'[u].it = i
      PROVE  Carries(u) \/ JobHas(u, i)'
  <2>1. CASE u # t /\ u # j
    <3>1. thread'[u] = thread[u] BY <1>1, <1>3, <2>1
    <3> QED BY <3>1 DEF Carries
  <2>2. CASE u = t BY <1>3, <2>2, DoneHas DEF Transfer
  <2>3. CASE u = j
    <3>1. thread[t].item = saved[i] /\ saved[i].state = "QUEUED"
      BY <1>3, <1>6, <2>3 DEF Place, BookOK
    <3>2. ItemHas(i) BY <1>2, <1>6 DEF Sound
    <3>3. Covers(i, thread'[j].item, part'[i].data) BY <1>2, <1>3, <1>4, <3>1, <3>2 DEF ItemHas
    <3> QED BY <1>3, <2>3, <3>3 DEF JobHas, Fetching
  <2> QED BY <2>1, <2>2, <2>3
<1> QED BY <1>2, <1>4, <1>5, <1>6, SoundFrame

LEMMA BytesJobStarted ==
  ASSUME Inv, Place, ~Overlap, NEW i, Sound(i), NEW t \in Threads, jobStarted(t)
  PROVE  Sound(i)'
<1>1. /\ At(t, "inc") /\ thread[t].made \in Jobs /\ At(thread[t].made, "made")
      /\ UNCHANGED <<saved, part, target, spoiled>>
  BY DEF Place, BookOK, jobStarted, At, diskVars
<1>2. PICK m \in Jobs : m = thread[t].made /\ thread[m].pc = "made" BY <1>1 DEF At
<1>3. /\ thread \in [Threads -> Thread] /\ thread[m] \in Thread /\ Main \in Threads
      /\ m \in Threads /\ m # t /\ m # Main /\ \A u \in Jobs : u \in Threads
  BY <1>1, <1>2, PlaceTypes DEF At
<1>4. /\ thread'[t] = End(t) /\ thread'[m] = [thread[m] EXCEPT !.pc = "run"]
      /\ \A u \in Threads : u # t /\ u # m => thread'[u] = thread[u]
  <2>1. thread' = [thread EXCEPT ![t] = End(t), ![m].pc = "run"] BY <1>2 DEF jobStarted
  <2> QED BY <1>3, <2>1
<1>5. /\ thread'[m].pc = "run" /\ thread'[m].it = thread[m].it
      /\ thread'[m].item = thread[m].item /\ thread'[m].cancelled = thread[m].cancelled
  BY <1>3, <1>4 DEF Thread
<1>6. ~AtWork(t)' /\ (t = Main => thread'[t].pc = "idle") BY <1>4, EndIsFree
<1>7. Cancelling \subseteq Cancelling' /\ (thread'[Main] = thread[Main] \/ MainHas(i)')
  <2>1. CASE t = Main BY <1>1, <1>6, <2>1 DEF Cancelling, MainHas, At
  <2>2. CASE t # Main
    <3>1. thread'[Main] = thread[Main] BY <1>3, <1>4, <2>2
    <3> QED BY <3>1 DEF Cancelling
  <2> QED BY <2>1, <2>2
<1>8. ASSUME i \notin spoiled', NEW u \in Jobs, thread'[u].it = i
      PROVE  Carries(u) \/ JobHas(u, i)'
  <2>1. CASE u # t /\ u # m
    <3>1. thread'[u] = thread[u] BY <1>3, <1>4, <2>1
    <3> QED BY <3>1 DEF Carries
  <2>2. CASE u = t BY <1>6, <2>2, IdleHas
  <2>3. CASE u = m
    <3>1. JobHas(m, i) BY <1>1, <1>5, <1>8, <2>3 DEF Sound
    <3>2. ~thread'[m].cancelled => Covers(i, thread'[m].item, part'[i].data)
      BY <1>1, <1>2, <1>5, <3>1 DEF JobHas, Fetching
    <3> QED BY <1>5, <2>3, <3>2 DEF JobHas, Fetching
  <2> QED BY <2>1, <2>2, <2>3
<1> QED BY <1>1, <1>7, <1>8, SoundFrame

LEMMA BytesTerminal ==
  ASSUME Inv, NEW i, Sound(i), NEW j \in Jobs, onTerminal(j) \/ jobEnded(j) \/ startNext(j)
  PROVE  Sound(i)'
<1>1. /\ thread \in [Threads -> Thread] /\ j \in Threads /\ j # Main /\ Main \in Threads
      /\ \A u \in Jobs : u \in Threads
  BY PlaceTypes
<1>2. /\ Others(j) /\ UNCHANGED <<saved, part, target, spoiled>>
      /\ thread'[j].pc \in {"dec", "next", "start", "gone"}
  <2>1. CASE onTerminal(j) BY <1>1, <2>1 DEF onTerminal, Others, diskVars, Thread
  <2>2. CASE jobEnded(j) BY <1>1, <2>2 DEF jobEnded, Others, diskVars, Fresh
  <2>3. CASE startNext(j) BY <2>3, NextStarts DEF diskVars
  <2> QED BY <2>1, <2>2, <2>3
<1>3. thread'[Main] = thread[Main] BY <1>1, <1>2 DEF Others
<1>4. Cancelling' = Cancelling BY <1>3 DEF Cancelling
<1>5. ASSUME NEW u \in Jobs PROVE Carries(u) \/ JobHas(u, i)'
  <2>1. CASE u # j
    <3>1. thread'[u] = thread[u] BY <1>1, <1>2, <2>1 DEF Others
    <3> QED BY <3>1 DEF Carries
  <2>2. CASE u = j BY <1>2, <2>2, DoneHas DEF Transfer
  <2> QED BY <2>1, <2>2
<1> QED BY <1>2, <1>3, <1>4, <1>5, SoundFrame

(***************************************************************************)
(* A death of the process.  The files stay as they are; a download whose   *)
(* cancel it cut short is spoiled.                                         *)
(***************************************************************************)
LEMMA BytesDeath ==
  ASSUME Inv, Place, NEW i, Sound(i), processDeath
  PROVE  Sound(i)'
<1>1. Main \in Threads /\ \A u \in Jobs : u \in Threads /\ u # Main BY PlaceTypes
<1>2. UNCHANGED <<saved, part, target>> /\ spoiled' = spoiled \cup Cancelling
  BY DEF processDeath, diskVars
<1>3. \A u \in Threads : thread'[u] = IF At(u, "new") THEN thread[u] ELSE End(u)
  BY DEF processDeath
<1>4. thread'[Main].pc = "idle"
  <2>1. ~At(Main, "new") BY DEF Place, MainListed, At
  <2> QED BY <1>1, <1>3, <2>1, EndIsFree
<1>5. ASSUME NEW u \in Jobs PROVE JobHas(u, i)'
  <2>1. CASE At(u, "new")
    <3>1. thread'[u].pc = "new" BY <1>1, <1>3, <2>1 DEF At
    <3> QED BY <3>1, DoneHas DEF Transfer
  <2>2. CASE ~At(u, "new") BY <1>1, <1>3, <2>2, EndIsFree, IdleHas
  <2> QED BY <2>1, <2>2
<1>6. MainHas(i)' BY <1>4 DEF MainHas
<1> QED BY <1>2, <1>5, <1>6, SoundFrame

-----------------------------------------------------------------------------
(***************************************************************************)
(* Commands.  A job hears of them and goes on: a pause is taken back only  *)
(* for a job that has ended its transfer.                                  *)
(***************************************************************************)
LEMMA HearsCarries ==
  ASSUME Inv, Place, NEW c \in Items, JobsHear(c), NEW u \in Jobs
  PROVE  Carries(u)
<1>1. Hears(u, c) BY DEF JobsHear
<1>2. ASSUME thread[u].pc \in {"fetch", "check"}, thread[u].paused PROVE thread'[u].paused
  <2> SUFFICES ASSUME saved[c].state = "PAUSED", jobs[c] = u PROVE FALSE
    BY <1>1, <1>2 DEF Hears
  <2>1. jobs[c] # 0 BY DEF Jobs
  <2>2. thread[u].it = c BY <2>1 DEF Place, MapOK
  <2>3. saved[c].state \in {"RUNNING", "CANCELLED"}
    BY <1>2, <2>2 DEF Place, JobListed, Transfer
  <2> QED BY <2>3
<1> QED BY <1>1, <1>2 DEF Hears, Carries

(***************************************************************************)
(* A retry deletes the part file of a download that no job is at work for, *)
(* a cancel tells the job first.                                           *)
(***************************************************************************)
LEMMA DeletedIsSound ==
  ASSUME Inv, Place, ~Overlap', NEW i \in Items, Sound(i), Effect(i), At(Main, "idle"),
         Retried(i) \/ Dropped(i)
  PROVE  Sound(i)'
<1>1. /\ Main \in Threads /\ part \in [Items -> File] /\ saved \in List
      /\ \A u \in Jobs : u \in Threads /\ u # Main
  BY PlaceTypes DEF Inv, TypeOK
<1>2. JobsHear(i) /\ MapForgets(i) /\ UNCHANGED <<saved, target, spoiled>> BY DEF Effect
<1>3. part'[i] = NoFile /\ thread'[Main].pc = "load" /\ thread'[Main].it = i
  BY <1>1 DEF Retried, Dropped, MainTakes
<1>4. part'[i].size = 0 /\ part'[i].size # TotalBytes
  BY <1>3, DownloadAssumption DEF NoFile
<1>5. ASSUME NEW u \in Jobs PROVE thread'[u].pc \notin {"load", "save"}
  <2>1. AtBooks(Main)' BY <1>3 DEF AtBooks, Bookkeeping
  <2>2. ~AtBooks(u)' BY <1>1, <2>1 DEF Overlap
  <2> QED BY <2>2 DEF AtBooks, Bookkeeping
<1>6. CASE Retried(i)
  <2>1. saved[i].state = "FAILED" BY <1>6 DEF Retried
  <2>2. ASSUME NEW u \in Jobs, thread'[u].it = i PROVE JobHas(u, i)'
    <3>1. /\ thread'[u].pc = thread[u].pc /\ thread[u].it = i
      BY <1>2, <2>2 DEF JobsHear, Hears
    <3>2. JobListed(u) BY DEF Place
    <3>3. thread[u].pc \notin Transfer \cup {"made", "run"}
      BY <2>1, <3>1, <3>2 DEF JobListed
    <3> QED BY <1>5, <3>1, <3>3, DoneHas
  <2>3. ItemHas(i)' BY <1>2, <2>1 DEF ItemHas
  <2>4. MainHas(i)'
    <3> DEFINE r == [saved[i] EXCEPT !.state = "QUEUED", !.segments = <<>>]
    <3>1. thread'[Main].item = r BY <1>6 DEF Retried, MainTakes
    <3>2. saved[i] \in DownloadItem
      <4>1. NotListed.state # "FAILED" BY DEF NotListed
      <4> QED BY <1>1, <2>1, <4>1 DEF List
    <3>3. r.segments = <<>> BY <3>2 DEF DownloadItem
    <3> HIDE DEF r
    <3>4. Covers(i, thread'[Main].item, part'[i].data) BY <3>1, <3>3, CoversNone
    <3> QED BY <3>4 DEF MainHas
  <2> QED BY <1>4, <2>2, <2>3, <2>4 DEF Sound
<1>7. CASE Dropped(i)
  <2>1. /\ thread'[Main].item.state = "CANCELLED" /\ jobs' = [jobs EXCEPT ![i] = 0]
    <3>1. saved[i] \in DownloadItem BY <1>1, <1>7 DEF List, Dropped
    <3>2. [saved[i] EXCEPT !.state = "CANCELLED"].state = "CANCELLED" BY <3>1 DEF DownloadItem
    <3> QED BY <1>7, <3>2 DEF Dropped, MainTakes
  <2>2. ASSUME i \notin spoiled', NEW u \in Jobs, thread'[u].it = i PROVE JobHas(u, i)'
    <3>1. /\ thread'[u].pc = thread[u].pc /\ thread[u].it = i
          /\ thread'[u].item = thread[u].item
          /\ thread[u].cancelled => thread'[u].cancelled
      BY <1>2, <2>2 DEF JobsHear, Hears
    <3>2. thread[u].pc \in OnDuty => thread'[u].cancelled
      <4>1. JobListed(u) BY DEF Place
      <4>2. CASE jobs[i] = u
        <5>1. jobs[i] # 0 BY <4>2 DEF Jobs
        <5>2. jobs'[i] = 0 BY <2>1 DEF Inv, TypeOK
        <5>3. jobs' # jobs BY <5>1, <5>2
        <5> QED BY <1>2, <4>2, <5>1, <5>3 DEF MapForgets
      <4> QED BY <3>1, <4>1, <4>2 DEF JobListed
    <3>3. CASE thread[u].pc \notin OnDuty
      BY <3>1, <3>3, DoneHas DEF OnDuty
    <3>4. CASE thread[u].pc \in OnDuty
      <4>1. JobHas(u, i) BY <1>2, <2>2, <3>1 DEF Sound
      <4>2. thread'[u].pc = "fetch" => thread'[u].item.segments # <<>> BY <3>1, <4>1 DEF JobHas
      <4>3. thread'[u].cancelled BY <3>2, <3>4
      <4> QED BY <1>4, <1>5, <4>2, <4>3 DEF JobHas
    <3> QED BY <3>3, <3>4
  <2>3. (ItemHas(i)' /\ MainHas(i)') \/ i \in spoiled'
    <3>1. i \in Cancelling' BY <1>3, <2>1 DEF Cancelling
    <3>2. MainHas(i)' BY <2>1 DEF MainHas
    <3>3. CASE i \notin spoiled'
      <4>1. ItemHas(i) BY <1>2, <3>3 DEF Sound
      <4>2. ItemHas(i)' BY <1>2, <3>1, <4>1 DEF ItemHas, Full
      <4> QED BY <3>2, <4>2
    <3> QED BY <3>3
  <2> QED BY <1>4, <2>2, <2>3 DEF Sound
<1> QED BY <1>6, <1>7

LEMMA BytesCommand ==
  ASSUME Inv, Place, ~Overlap', NEW i \in Items, Sound(i), NEW c \in Items, Effect(c),
         At(Main, "idle")
  PROVE  Sound(i)'
<1>1. CASE c = i /\ (Retried(i) \/ Dropped(i)) BY <1>1, DeletedIsSound
<1>2. CASE ~(c = i /\ (Retried(i) \/ Dropped(i)))
  <2>1. /\ JobsHear(c) /\ UNCHANGED <<saved, target, spoiled>>
        /\ MainStays \/ Resumed(c) \/ Retried(c) \/ Dropped(c) \/ Added
    BY DEF Effect
  <2>2. part \in [Items -> File] /\ saved \in List BY DEF Inv, TypeOK
  <2>3. part'[i] = part[i]
    BY <1>2, <2>1, <2>2 DEF MainStays, Resumed, Retried, Dropped, Added
  <2>4. Cancelling = {} BY DEF Cancelling, At
  <2>5. \A u \in Jobs : Carries(u) BY <2>1, HearsCarries
  <2>6. ASSUME i \notin spoiled' PROVE MainHas(i)'
    <3>1. CASE MainStays BY <3>1 DEF MainStays, MainHas, At
    <3>2. CASE Resumed(c)
      <4> SUFFICES ASSUME c = i PROVE MainHas(i)'
        BY <3>2 DEF MainHas, Resumed, MainTakes
      <4> DEFINE r == [saved[i] EXCEPT !.state = "QUEUED"]
      <4>1. thread'[Main].item = r /\ saved[i].state = "PAUSED"
        BY <3>2 DEF Resumed, MainTakes
      <4>2. saved[i] \in DownloadItem
        <5>1. NotListed.state # "PAUSED" BY DEF NotListed
        <5> QED BY <2>2, <4>1, <5>1 DEF List
      <4>3. r.segments = saved[i].segments /\ r.total = saved[i].total
        BY <4>2 DEF DownloadItem
      <4> HIDE DEF r
      <4>4. ItemHas(i) BY <2>1, <2>6 DEF Sound
      <4>5. Covers(i, saved[i], part[i].data) BY <2>4, <4>1, <4>4 DEF ItemHas
      <4>6. Covers(i, r, part[i].data) BY <4>3, <4>5, CoversSame
      <4> QED BY <2>3, <4>1, <4>6 DEF MainHas
    <3>3. CASE Retried(c) \/ Dropped(c)
      BY <1>2, <3>3 DEF MainHas, Retried, Dropped, MainTakes
    <3>4. CASE Added
      <4>1. thread'[Main].item = Requested BY <3>4 DEF Added, MainTakes
      <4>2. Requested.segments = <<>> BY DEF Requested
      <4>3. Covers(i, thread'[Main].item, part'[i].data) BY <4>1, <4>2, CoversNone
      <4> QED BY <4>3 DEF MainHas
    <3> QED BY <2>1, <3>1, <3>2, <3>3, <3>4
  <2> QED BY <2>1, <2>3, <2>4, <2>5, <2>6, SoundFrame
<1> QED BY <1>1, <1>2

-----------------------------------------------------------------------------
LEMMA BytesStep ==
  ASSUME Inv, Calm, Place, Tidy, ~Overlap, ~Overlap', NEW i \in Items \ NoRanges, Sound(i), Step
  PROVE  Sound(i)'
<1>1. ASSUME NEW c \in Command, NEW k \in Items, onStartCommand(c, k) PROVE Sound(i)'
  <2>1. Effect(k) BY <1>1, CommandEffect
  <2>2. At(Main, "idle") BY <1>1 DEF onStartCommand
  <2> QED BY <2>1, <2>2, BytesCommand
<1>2. ASSUME NEW c \in Command, NEW k \in Items, userCommand(c, k) PROVE Sound(i)'
  BY <1>1, <1>2 DEF userCommand
<1>3. CASE redeliver
  <2>1. PICK c \in Command, k \in Items : onStartCommand(c, k) BY <1>3, Redelivered
  <2> QED BY <1>1, <2>1
<1>4. CASE processDeath BY <1>4, BytesDeath
<1>5. ASSUME NEW t \in Threads, Shared(t) PROVE Sound(i)'
  <2>1. CASE persistLoad(t) \/ persistSave(t)
    BY <2>1, BytesPersistLoad, BytesPersistSave
  <2>2. CASE startRefused(t) \/ startJob(t) \/ jobStarted(t)
    BY <2>2, BytesRefused, BytesStartJob, BytesJobStarted
  <2> QED BY <1>5, <2>1, <2>2 DEF Shared
<1>6. ASSUME NEW j \in Jobs, Job(j) PROVE Sound(i)'
  <2>1. CASE Transfers(j) BY <2>1, BytesTransfers
  <2>2. CASE onTerminal(j) \/ jobEnded(j) \/ startNext(j) BY <2>2, BytesTerminal
  <2> QED BY <1>6, <2>1, <2>2, Zenon DEF Job, Transfers
<1> QED BY <1>2, <1>3, <1>4, <1>5, <1>6 DEF Step

LEMMA InitBytes == Init => BytesInv
<1> SUFFICES ASSUME Init PROVE Tidy /\ Bytes BY DEF BytesInv
<1>1. /\ \A t \in Threads : /\ thread[t].pc = IF t = Main THEN "idle" ELSE "new"
                            /\ thread[t].left = {}
  BY DEF Init, Fresh
<1>2. Main \in Threads /\ \A j \in Jobs : j \in Threads /\ j # Main
  BY DownloadAssumption DEF Main, Threads, Jobs
<1>3. thread[Main].pc = "idle" /\ \A j \in Jobs : thread[j].pc = "new" /\ thread[j].left = {}
  BY <1>1, <1>2
<1>4. Tidy BY <1>3 DEF Tidy
<1>5. ASSUME NEW i \in Items \ NoRanges PROVE Sound(i)
  <2>1. part[i].size = 0 BY DEF Init, NoFile
  <2>2. MainHas(i) BY <1>3 DEF MainHas
  <2>3. \A j \in Jobs : JobHas(j, i) BY <1>3 DEF JobHas, Fetching
  <2>4. ItemHas(i)
    <3>1. saved[i] = NotListed BY DEF Init, Nothing
    <3>2. NotListed.state \notin {"COMPLETED", "QUEUED", "PAUSED"} BY DEF NotListed
    <3> QED BY <3>1, <3>2 DEF ItemHas
  <2> QED BY <2>1, <2>2, <2>3, <2>4 DEF Sound
<1> QED BY <1>4, <1>5 DEF Bytes

LEMMA NextBytes ==
  Inv /\ CalmInv /\ CalmInv' /\ BooksInv /\ BytesInv /\ [Next]_vars => BytesInv'
<1> SUFFICES ASSUME Inv, CalmInv, CalmInv', BooksInv, BytesInv, [Next]_vars, ~disturbed'
             PROVE  Tidy' /\ Bytes'
  BY DEF BytesInv
<1>1. CASE Next
  <2>1. ~disturbed /\ Step BY <1>1, Zenon DEF Next
  <2>2. ~Overlap' BY Zenon DEF CalmInv
  <2>3. Calm /\ ~Overlap /\ Place BY <2>1, Zenon DEF CalmInv, BooksInv
  <2>4. Tidy /\ Bytes BY <2>1, Zenon DEF BytesInv
  <2>5. Tidy' BY <2>1, <2>3, <2>4, TidyStep
  <2>6. ASSUME NEW i \in Items \ NoRanges PROVE Sound(i)'
    <3>1. Sound(i) BY <2>4 DEF Bytes
    <3> QED BY <2>1, <2>2, <2>3, <2>4, <3>1, BytesStep
  <2> QED BY <2>5, <2>6 DEF Bytes
<1>2. CASE UNCHANGED vars
  <2>1. UNCHANGED <<saved, part, target, thread, disturbed, spoiled>>
    BY <1>2 DEF vars, diskVars, bookVars, userVars
  <2>2. Tidy /\ Bytes BY <2>1 DEF BytesInv
  <2>3. Tidy' BY <2>1, <2>2 DEF Tidy
  <2>4. ASSUME NEW i \in Items \ NoRanges PROVE Sound(i)'
    <3>1. Sound(i) BY <2>2 DEF Bytes
    <3>2. Cancelling' = Cancelling BY <2>1 DEF Cancelling
    <3>3. \A j \in Jobs : Carries(j) BY <2>1 DEF Carries
    <3> QED BY <2>1, <3>1, <3>2, <3>3, SoundFrame
  <2> QED BY <2>3, <2>4 DEF Bytes
<1> QED BY <1>1, <1>2

LEMMA BytesInvariance == Spec => []BytesInv
<1>1. Spec => [](Inv /\ CalmInv /\ BooksInv) BY BooksInvariance
<1> QED BY <1>1, InitBytes, NextBytes, PTL DEF Spec

(***************************************************************************)
(* A download that the list calls COMPLETED has all its bytes, when its    *)
(* server takes the Range header: segments that are fetched side by side,  *)
(* pauses, retries and deaths of the process leave no hole, as long as no  *)
(* two threads were at the books at once.                                  *)
(***************************************************************************)
RangedIsWhole ==
  ~disturbed =>
    \A i \in Items \ (spoiled \cup NoRanges) :
      saved[i].state = "COMPLETED" => target[i].data = 0..TotalBytes - 1

THEOREM RangedFilesAreWhole == Spec => []RangedIsWhole
<1>1. BytesInv => RangedIsWhole
  <2> SUFFICES ASSUME Bytes, NEW i \in Items \ (spoiled \cup NoRanges), saved[i].state = "COMPLETED"
               PROVE  target[i].data = 0..TotalBytes - 1
    BY DEF RangedIsWhole, BytesInv
  <2>1. ItemHas(i) BY DEF Bytes, Sound
  <2> QED BY <2>1 DEF ItemHas, Full
<1> QED BY <1>1, BytesInvariance, PTL

(***************************************************************************)
(* Where every server takes the Range header, this is CompletedIsWhole.    *)
(***************************************************************************)
THEOREM FilesAreWhole ==
  ASSUME NoRanges = {}
  PROVE  Spec => []CompletedIsWhole
<1>1. RangedIsWhole => CompletedIsWhole BY DEF RangedIsWhole, CompletedIsWhole
<1> QED BY <1>1, RangedFilesAreWhole, PTL

=============================================================================
