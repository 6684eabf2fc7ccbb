-------------------- MODULE GhajarDownloadServiceProofs --------------------
(***************************************************************************)
(* Proofs about the plans of DownloadPlanner and about                     *)
(* GhajarDownloadService.                                                  *)
(***************************************************************************)
EXTENDS GhajarDownloadService, TLAPS

LEMMA CountIsChoice ==
  ASSUME NEW n \in Int, NEW ranges \in BOOLEAN
  PROVE  segmentCount(ranges, n) \in SEGMENT_CHOICES
<1> DEFINE usable == {c \in SEGMENT_CHOICES : n >= c * Unit}
<1>1. CASE ~ranges \/ usable = {}
  BY <1>1 DEF segmentCount, SEGMENT_CHOICES
<1>2. CASE ranges /\ usable # {}
  <2>1. \E c \in usable : \A d \in usable : d <= c
    <3>1. usable \subseteq {1, 2, 4, 8} BY DEF SEGMENT_CHOICES
    <3> HIDE DEF usable
    <3>2. CASE 8 \in usable BY <3>1, <3>2
    <3>3. CASE 8 \notin usable /\ 4 \in usable BY <3>1, <3>3
    <3>4. CASE 8 \notin usable /\ 4 \notin usable /\ 2 \in usable BY <3>1, <3>4
    <3>5. CASE 8 \notin usable /\ 4 \notin usable /\ 2 \notin usable /\ 1 \in usable BY <3>1, <3>5
    <3> QED BY <3>1, <3>2, <3>3, <3>4, <3>5, <1>2
  <2>2. (CHOOSE c \in usable : \A d \in usable : d <= c) \in usable
    BY <2>1
  <2> QED BY <1>2, <2>2 DEF segmentCount
<1> QED BY <1>1, <1>2

LEMMA OneSegment ==
  ASSUME NEW n \in Nat \ {0}
  PROVE  Tiles(planSegments(n, 1), n)
<1>1. planSegments(n, 1) = <<[start |-> 0, end |-> n - 1]>> BY DEF planSegments
<1> QED BY <1>1 DEF Tiles

LEMMA SegmentBounds ==
  ASSUME NEW n \in Nat \ {0}, NEW c \in {2, 4, 8}
  PROVE  \E base \in Nat, r \in 0..c - 1 :
           /\ n = c * base + r
           /\ planSegments(n, c) = [k \in 1..c |-> [start |-> segmentStart(base, r, k),
                                                    end |-> segmentStart(base, r, k + 1) - 1]]
<1> DEFINE base == n \div c
           r == n % c
<1>1. base \in Nat /\ r \in 0..c - 1 /\ n = c * base + r
  <2>1. CASE c = 2 BY <2>1
  <2>2. CASE c = 4 BY <2>2
  <2>3. CASE c = 8 BY <2>3
  <2> QED BY <2>1, <2>2, <2>3
<1>2. planSegments(n, c) = [k \in 1..c |-> [start |-> segmentStart(base, r, k),
                                            end |-> segmentStart(base, r, k + 1) - 1]]
  <2>1. ~(n <= 0 \/ c <= 1) OBVIOUS
  <2> QED BY <2>1, Zenon DEF planSegments
<1> HIDE DEF base, r
<1> QED BY <1>1, <1>2, Zenon

LEMMA ManySegments ==
  ASSUME NEW n \in Nat \ {0}, NEW c \in {2, 4, 8}
  PROVE  Tiles(planSegments(n, c), n)
<1>1. PICK base \in Nat, r \in 0..c - 1 :
        /\ n = c * base + r
        /\ planSegments(n, c) = [k \in 1..c |-> [start |-> segmentStart(base, r, k),
                                                 end |-> segmentStart(base, r, k + 1) - 1]]
  BY SegmentBounds
<1> DEFINE p == planSegments(n, c)
<1> HIDE DEF p
<1>2. CASE c = 2
  BY <1>1, <1>2, SMTT(30) DEF Tiles, p, segmentStart
<1>3. CASE c = 4
  BY <1>1, <1>3, SMTT(30) DEF Tiles, p, segmentStart
<1>4. CASE c = 8
  BY <1>1, <1>4, SMTT(60) DEF Tiles, p, segmentStart
<1> QED BY <1>2, <1>3, <1>4 DEF p

LEMMA PlanTiles ==
  ASSUME NEW n \in Nat \ {0}, NEW ranges \in BOOLEAN
  PROVE  Tiles(Plan(ranges, n), n)
<1>1. segmentCount(ranges, n) \in {1, 2, 4, 8} BY CountIsChoice DEF SEGMENT_CHOICES
<1>2. CASE segmentCount(ranges, n) = 1 BY <1>2, OneSegment DEF Plan
<1>3. CASE segmentCount(ranges, n) \in {2, 4, 8} BY <1>3, ManySegments DEF Plan
<1> QED BY <1>1, <1>2, <1>3

THEOREM EveryPlanTiles == SegmentsTile
BY PlanTiles, PlannerAssumption DEF SegmentsTile

-----------------------------------------------------------------------------
(***************************************************************************)
(* The inductive invariant.  An entry of the list, wherever a thread has a *)
(* copy of it, has a plan that fits its length.                            *)
(***************************************************************************)
EntryOK(i, r) ==
  /\ i \in Unsized => r.total = -1
  /\ r.segments # <<>> => /\ DOMAIN r.segments = DOMAIN plan(i, r.total)
                          /\ i \notin Unsized => r.total = TotalBytes
  /\ r.state = "RUNNING" => r.segments # <<>>

ListOK(list) == \A i \in Items : EntryOK(i, list[i])

ThreadOK(th) == /\ EntryOK(th.it, th.item)
                /\ ListOK(th.copy)
                /\ th.pc = "alloc" => th.item.state = "RUNNING"

Inv == /\ TypeOK
       /\ ListOK(saved)
       /\ \A t \in Threads : ThreadOK(thread[t])

LEMMA SegmentsShape ==
  ASSUME NEW n \in Nat \ {0}, NEW c \in {2, 4, 8}
  PROVE  /\ DOMAIN planSegments(n, c) = 1..c
         /\ \A k \in 1..c : /\ planSegments(n, c)[k].start \in Nat
                            /\ planSegments(n, c)[k].end \in Int
                            /\ planSegments(n, c)[k].end < n
<1>1. PICK base \in Nat, r \in 0..c - 1 :
        /\ n = c * base + r
        /\ planSegments(n, c) = [k \in 1..c |-> [start |-> segmentStart(base, r, k),
                                                 end |-> segmentStart(base, r, k + 1) - 1]]
  BY SegmentBounds
<1>2. \A k \in 1..c : segmentStart(base, r, k) \in Nat /\ segmentStart(base, r, k + 1) \in Nat
  <2>1. CASE c = 2 BY <2>1 DEF segmentStart
  <2>2. CASE c = 4 BY <2>2 DEF segmentStart
  <2>3. CASE c = 8 BY <2>3 DEF segmentStart
  <2> QED BY <2>1, <2>2, <2>3
<1>3. DOMAIN planSegments(n, c) = 1..c BY <1>1
<1>4. \A k \in 1..c : planSegments(n, c)[k].end < n
  BY <1>3, ManySegments DEF Tiles
<1>5. ASSUME NEW k \in 1..c
      PROVE  /\ planSegments(n, c)[k].start = segmentStart(base, r, k)
             /\ planSegments(n, c)[k].end = segmentStart(base, r, k + 1) - 1
  BY <1>1
<1>6. ASSUME NEW k \in 1..c
      PROVE  planSegments(n, c)[k].start \in Nat /\ planSegments(n, c)[k].end \in Int
  <2>1. segmentStart(base, r, k + 1) - 1 \in Int BY <1>2
  <2> QED BY <1>2, <1>5, <2>1, Zenon
<1> QED BY <1>3, <1>4, <1>6, Zenon

LEMMA PlanFacts ==
  ASSUME NEW i \in Items, NEW total \in {-1, TotalBytes}
  PROVE  \E c \in Nat \ {0} :
           /\ DOMAIN plan(i, total) = 1..c
           /\ \A k \in 1..c : /\ plan(i, total)[k].start \in Nat
                              /\ plan(i, total)[k].end \in Int
                              /\ plan(i, total)[k].end < total
<1>1. total \in Int /\ (total = -1 \/ total \in Nat \ {0}) BY DownloadAssumption
<1>2. PICK c \in {1, 2, 4, 8} : plan(i, total) = planSegments(total, c)
  <2>1. (i \notin NoRanges) \in BOOLEAN OBVIOUS
  <2>2. segmentCount(i \notin NoRanges, total) \in {1, 2, 4, 8}
    BY <1>1, <2>1, CountIsChoice DEF SEGMENT_CHOICES
  <2> QED BY <2>2 DEF plan, Plan
<1>3. CASE total = -1 \/ c = 1
  <2>1. plan(i, total) = <<[start |-> 0, end |-> total - 1]>>
    BY <1>1, <1>2, <1>3 DEF planSegments
  <2>2. /\ DOMAIN plan(i, total) = 1..1
        /\ \A k \in 1..1 : /\ plan(i, total)[k].start \in Nat
                           /\ plan(i, total)[k].end \in Int
                           /\ plan(i, total)[k].end < total
    BY <1>1, <2>1
  <2> QED BY <2>2
<1>4. CASE total # -1 /\ c \in {2, 4, 8}
  <2>1. total \in Nat \ {0} BY <1>1, <1>4
  <2>2. c \in Nat \ {0} BY <1>4
  <2> QED BY <1>2, <1>4, <2>1, <2>2, SegmentsShape
<1> QED BY <1>2, <1>3, <1>4

-----------------------------------------------------------------------------
LEMMA FreshIsOK ==
  ASSUME NEW l \in Bookkeeping \cup Working \cup {"idle", "new", "gone"}, l # "alloc"
  PROVE  Fresh(l) \in Thread /\ ThreadOK(Fresh(l))
<1>1. 1 \in Items /\ 0 \in 0..MaxJobs BY DownloadAssumption DEF Items
<1>2. Requested \in DownloadItem /\ NotListed \in DownloadItem \cup {NotListed}
  BY DEF Requested, DownloadItem, DownloadState
<1>3. Nothing \in List BY <1>2 DEF Nothing, List
<1>4. NotListed = [state |-> "NOT LISTED", total |-> -1, segments |-> <<>>]
  BY DEF NotListed
<1>5. \A i \in Items : EntryOK(i, NotListed) /\ EntryOK(i, Requested)
  BY <1>4 DEF EntryOK, Requested
<1>6. ListOK(Nothing) BY <1>5 DEF ListOK, Nothing
<1>7. Fresh(l) \in Thread BY <1>1, <1>2, <1>3 DEF Fresh, Thread
<1> QED BY <1>1, <1>5, <1>6, <1>7 DEF Fresh, ThreadOK

LEMMA InitInv == Init => Inv
<1> SUFFICES ASSUME Init PROVE Inv OBVIOUS
<1> USE DownloadAssumption
<1>1. NotListed = [state |-> "NOT LISTED", total |-> -1, segments |-> <<>>]
  BY DEF NotListed
<1>2. saved \in List BY DEF Init, List, Nothing
<1>3. ListOK(saved) BY <1>1 DEF Init, ListOK, Nothing, EntryOK
<1>4. \A t \in Threads : thread[t] \in Thread /\ ThreadOK(thread[t])
  BY FreshIsOK DEF Init
<1>5. thread \in [Threads -> Thread] BY <1>4 DEF Init
<1>6. NoFile \in File BY DEF NoFile, File
<1>7. 0 \in 0..MaxJobs OBVIOUS
<1>8. part \in [Items -> File] /\ target \in [Items -> File] /\ jobs \in [Items -> 0..MaxJobs]
  BY <1>6, <1>7 DEF Init
<1> DEFINE intents == Command \X Items
<1>0. <<>> \in Seq(intents)
  <2> HIDE DEF intents
  <2> QED OBVIOUS
<1>9. /\ activeCount \in Nat /\ requests \in Nat /\ actions \in Nat /\ crashes \in Nat
      /\ delivered \in Seq(Command \X Items) /\ inbox \in Seq(Command \X Items)
      /\ disturbed \in BOOLEAN /\ spoiled \subseteq Items
  BY <1>0 DEF Init
<1>10. TypeOK BY <1>2, <1>5, <1>8, <1>9 DEF TypeOK
<1> QED BY <1>3, <1>4, <1>10 DEF Inv

(***************************************************************************)
(* What a step that changes one thread has to show.                        *)
(***************************************************************************)
LEMMA OneThread ==
  ASSUME Inv, NEW t \in Threads, NEW th, th \in Thread, ThreadOK(th),
         thread' = [thread EXCEPT ![t] = th]
  PROVE  /\ thread' \in [Threads -> Thread]
         /\ \A u \in Threads : ThreadOK(thread'[u])
BY DEF Inv, TypeOK

LEMMA PersistLoad ==
  ASSUME Inv, disturbed' \in BOOLEAN, NEW t \in Threads, persistLoad(t)
  PROVE  Inv'
<1> DEFINE th == [thread[t] EXCEPT !.copy = saved, !.pc = "save"]
<1>1. thread[t] \in Thread /\ ThreadOK(thread[t]) /\ ListOK(saved)
  BY DEF Inv, TypeOK
<1>2. th \in Thread BY <1>1 DEF Thread, Inv, TypeOK, Working, Transfer
<1>3. ThreadOK(th) BY <1>1 DEF ThreadOK, Thread
<1>4. thread' = [thread EXCEPT ![t] = th] BY DEF persistLoad, Inv, TypeOK
<1> QED
  BY <1>2, <1>3, <1>4, OneThread
  DEF Inv, TypeOK, persistLoad, diskVars, bookVars, userVars

LEMMA PersistSave ==
  ASSUME Inv, disturbed' \in BOOLEAN, NEW t \in Threads, persistSave(t)
  PROVE  Inv'
<1> DEFINE state == thread[t].item.state
           pc == IF state = "QUEUED" THEN "start"
                 ELSE IF state = "RUNNING" THEN "alloc" ELSE "terminal"
           th == [thread[t] EXCEPT !.copy = Nothing, !.pc = pc]
<1>1. thread[t] \in Thread /\ ThreadOK(thread[t])
  BY DEF Inv, TypeOK
<1>2. saved' \in List /\ ListOK(saved')
  <2>1. /\ thread[t].copy \in List /\ thread[t].it \in Items /\ thread[t].item \in DownloadItem
        /\ ListOK(thread[t].copy) /\ EntryOK(thread[t].it, thread[t].item)
    BY <1>1 DEF Thread, ThreadOK
  <2> QED BY <2>1 DEF persistSave, List, ListOK
<1>3. Nothing \in List /\ ListOK(Nothing) /\ End(t) \in Thread /\ ThreadOK(End(t))
  <2>1. End(t) \in Thread /\ ThreadOK(End(t)) BY FreshIsOK DEF End
  <2>2. End(t).copy = Nothing BY DEF End, Fresh
  <2> QED BY <2>1, <2>2 DEF Thread, ThreadOK
<1>4. th \in Thread /\ ThreadOK(th)
  <2>1. th \in Thread BY <1>1, <1>3 DEF Thread, Working, Transfer, Bookkeeping
  <2> QED BY <1>1, <1>3, <2>1 DEF ThreadOK, Thread
<1>5. thread' = [thread EXCEPT ![t] = th] \/ thread' = [thread EXCEPT ![t] = End(t)]
  <2>1. thread \in [Threads -> Thread] BY DEF Inv, TypeOK
  <2> QED BY <1>1, <2>1 DEF persistSave, Thread
<1>6. delivered' \in Seq(Command \X Items)
  <2>1. <<>> \in Seq(Command \X Items) OBVIOUS
  <2> QED BY <2>1 DEF persistSave, stopIfIdle, Inv, TypeOK
<1>8. /\ thread' \in [Threads -> Thread]
      /\ \A u \in Threads : ThreadOK(thread'[u])
  <2> HIDE DEF th
  <2> QED BY <1>3, <1>4, <1>5, OneThread
<1> QED BY <1>2, <1>6, <1>8 DEF Inv, TypeOK, persistSave, bookVars

LEMMA StartRefused ==
  ASSUME Inv, disturbed' \in BOOLEAN, NEW t \in Threads, startRefused(t)
  PROVE  Inv'
<1>1. End(t) \in Thread /\ ThreadOK(End(t)) BY FreshIsOK DEF End
<1> QED BY <1>1, OneThread DEF Inv, TypeOK, startRefused, diskVars, bookVars, userVars

LEMMA StartJob ==
  ASSUME Inv, disturbed' \in BOOLEAN, NEW t \in Threads, startJob(t)
  PROVE  Inv'
<1>1. PICK j \in Jobs :
        /\ jobs' = [jobs EXCEPT ![thread[t].it] = j]
        /\ At(t, "start") /\ At(j, "new")
        /\ thread' = [thread EXCEPT ![t].pc = "inc", ![t].made = j, ![t].count = activeCount,
                                    ![j].pc = "made", ![j].it = thread[t].it,
                                    ![j].item = thread[t].item]
  BY DEF startJob
<1>2. j \in Threads /\ j # t BY <1>1 DEF Jobs, Threads, At
<1>3. thread \in [Threads -> Thread] BY DEF Inv, TypeOK
<1> DEFINE th == [thread[t] EXCEPT !.pc = "inc", !.made = j, !.count = activeCount]
           jb == [thread[j] EXCEPT !.pc = "made", !.it = thread[t].it, !.item = thread[t].item]
<1>4. thread' = [thread EXCEPT ![t] = th, ![j] = jb] BY <1>1, <1>2, <1>3 DEF Thread
<1>5. /\ thread[t] \in Thread /\ ThreadOK(thread[t])
      /\ thread[j] \in Thread /\ ThreadOK(thread[j])
  BY <1>2 DEF Inv, TypeOK
<1>6. th \in Thread /\ jb \in Thread
  BY <1>2, <1>5 DEF Thread, Threads, Inv, TypeOK, Working, Transfer, Bookkeeping
<1>7. ThreadOK(th) /\ ThreadOK(jb) BY <1>5 DEF ThreadOK, Thread
<1>8. jobs' \in [Items -> 0..MaxJobs] BY <1>1, <1>2 DEF Inv, TypeOK, Threads
<1>10. /\ thread' \in [Threads -> Thread]
       /\ \A u \in Threads : ThreadOK(thread'[u])
  <2> HIDE DEF th, jb
  <2> QED BY <1>2, <1>3, <1>4, <1>6, <1>7 DEF Inv
<1> QED BY <1>8, <1>10 DEF Inv, TypeOK, startJob, diskVars, userVars

LEMMA JobStarted ==
  ASSUME Inv, disturbed' \in BOOLEAN, NEW t \in Threads, jobStarted(t)
  PROVE  Inv'
<1>1. thread \in [Threads -> Thread] BY DEF Inv, TypeOK
<1>2. thread[t] \in Thread BY <1>1
<1> DEFINE m == thread[t].made
           over == [thread EXCEPT ![t] = End(t)]
<1>3. m \in Threads /\ thread[t].count \in Nat BY <1>2 DEF Thread, Threads
<1>4. End(t) \in Thread /\ ThreadOK(End(t)) BY FreshIsOK DEF End
<1>5. /\ over \in [Threads -> Thread]
      /\ \A u \in Threads : ThreadOK(over[u])
  BY <1>1, <1>4 DEF Inv
<1> HIDE DEF over, m
<1> DEFINE th == [over[m] EXCEPT !.pc = "run"]
<1>6. thread' = [over EXCEPT ![m] = th] BY DEF jobStarted, over, m
<1>7. th \in Thread BY <1>3, <1>5 DEF Thread, Working, Transfer
<1>8. ThreadOK(th) BY <1>3, <1>5 DEF ThreadOK, Thread
<1>10. /\ thread' \in [Threads -> Thread]
       /\ \A u \in Threads : ThreadOK(thread'[u])
  <2> HIDE DEF th
  <2> QED BY <1>3, <1>5, <1>6, <1>7, <1>8
<1>11. activeCount' \in Nat BY <1>3 DEF jobStarted
<1> QED BY <1>10, <1>11 DEF Inv, TypeOK, jobStarted, diskVars, userVars

-----------------------------------------------------------------------------
LEMMA Persisted ==
  ASSUME Inv, NEW i \in Items, NEW item \in DownloadItem, EntryOK(i, item)
  PROVE  /\ persist(i, item) \in [Threads -> Thread]
         /\ \A u \in Threads : ThreadOK(persist(i, item)[u])
<1>1. Main \in Threads /\ thread \in [Threads -> Thread]
  BY DownloadAssumption DEF Main, Threads, Inv, TypeOK
<1>2. thread[Main] \in Thread /\ ThreadOK(thread[Main]) BY <1>1 DEF Inv
<1> DEFINE th == [thread[Main] EXCEPT !.pc = "load", !.it = i, !.item = item]
<1>3. th \in Thread /\ ThreadOK(th)
  BY <1>2 DEF Thread, ThreadOK, Working, Transfer
<1>4. persist(i, item) = [thread EXCEPT ![Main] = th] BY <1>1 DEF persist
<1> HIDE DEF th
<1> QED BY <1>1, <1>3, <1>4 DEF Inv

LEMMA FlagSet ==
  ASSUME NEW ths \in [Threads -> Thread], \A u \in Threads : ThreadOK(ths[u]),
         NEW j \in Threads, NEW b \in BOOLEAN
  PROVE  /\ [ths EXCEPT ![j].paused = b] \in [Threads -> Thread]
         /\ \A u \in Threads : ThreadOK([ths EXCEPT ![j].paused = b][u])
<1> DEFINE th == [ths[j] EXCEPT !.paused = b]
<1>1. th \in Thread /\ ThreadOK(th) BY DEF Thread, ThreadOK
<1> HIDE DEF th
<1>2. \A u \in Threads : [ths EXCEPT ![j] = th][u] = IF u = j THEN th ELSE ths[u] OBVIOUS
<1>3. [ths EXCEPT ![j].paused = b] = [ths EXCEPT ![j] = th] BY DEF th
<1> QED BY <1>1, <1>2, <1>3

(***************************************************************************)
(* What the five commands leave right.                                     *)
(***************************************************************************)
CommandOK ==
  /\ part' \in [Items -> File] /\ jobs' \in [Items -> 0..MaxJobs] /\ requests' \in Nat
  /\ thread' \in [Threads -> Thread]
  /\ \A u \in Threads : ThreadOK(thread'[u])

LEMMA Saved ==
  ASSUME Inv, NEW i \in Items
  PROVE  /\ saved[i] # NotListed => saved[i] \in DownloadItem
         /\ saved[i].state # "NOT LISTED" => saved[i] \in DownloadItem
         /\ EntryOK(i, saved[i])
<1>1. saved[i] \in DownloadItem \cup {NotListed} BY DEF Inv, TypeOK, List
<1>2. NotListed.state = "NOT LISTED" BY DEF NotListed
<1>3. EntryOK(i, saved[i]) BY DEF Inv, ListOK
<1> QED BY <1>1, <1>2, <1>3

LEMMA Enqueue == ASSUME Inv, enqueue PROVE CommandOK
<1>1. requests + 1 \in Items /\ Requested \in DownloadItem
  BY DEF enqueue, Requested, DownloadItem, DownloadState
<1>2. EntryOK(requests + 1, Requested) BY DEF EntryOK, Requested
<1>3. requests' \in Nat BY DEF enqueue, Inv, TypeOK
<1> QED BY <1>1, <1>2, <1>3, Persisted DEF enqueue, CommandOK, Inv, TypeOK

LEMMA Pause == ASSUME Inv, NEW i \in Items, pause(i) PROVE CommandOK
<1>1. jobs[i] \in Threads BY DEF Inv, TypeOK, Threads
<1>2. /\ thread' \in [Threads -> Thread]
      /\ \A u \in Threads : ThreadOK(thread'[u])
  BY <1>1, FlagSet DEF pause, Inv, TypeOK
<1> QED BY <1>2 DEF pause, CommandOK, Inv, TypeOK

LEMMA Resume == ASSUME Inv, NEW i \in Items, resume(i) PROVE CommandOK
<1>1. jobs[i] \in Threads BY DEF Inv, TypeOK, Threads
<1> DEFINE item == [saved[i] EXCEPT !.state = "QUEUED"]
<1>2. CASE saved[i].state = "PAUSED"
  <2>1. saved[i] \in DownloadItem /\ EntryOK(i, saved[i]) BY <1>2, Saved
  <2>2. item \in DownloadItem BY <2>1 DEF DownloadItem, DownloadState
  <2>3. EntryOK(i, item) BY <2>1 DEF EntryOK, DownloadItem
  <2> HIDE DEF item
  <2> DEFINE queued == persist(i, item)
  <2>4. /\ queued \in [Threads -> Thread]
        /\ \A u \in Threads : ThreadOK(queued[u])
    BY <2>2, <2>3, Persisted
  <2>5. thread' = queued \/ thread' = [queued EXCEPT ![jobs[i]].paused = FALSE]
    BY <1>2 DEF resume, item
  <2> HIDE DEF queued
  <2>6. CASE thread' = queued BY <2>4, <2>6 DEF resume, CommandOK, Inv, TypeOK
  <2>7. CASE thread' = [queued EXCEPT ![jobs[i]].paused = FALSE]
    <3>1. /\ thread' \in [Threads -> Thread]
          /\ \A u \in Threads : ThreadOK(thread'[u])
      BY <1>1, <2>4, <2>7, FlagSet
    <3> QED BY <3>1 DEF resume, CommandOK, Inv, TypeOK
  <2> QED BY <2>5, <2>6, <2>7
<1>3. CASE saved[i].state # "PAUSED"
  BY <1>3 DEF resume, CommandOK, Inv, TypeOK
<1> QED BY <1>2, <1>3

LEMMA Retry == ASSUME Inv, NEW i \in Items, retry(i) PROVE CommandOK
<1> DEFINE item == [saved[i] EXCEPT !.state = "QUEUED", !.segments = <<>>]
<1>1. CASE saved[i].state = "FAILED"
  <2>1. saved[i] \in DownloadItem /\ EntryOK(i, saved[i]) BY <1>1, Saved
  <2>0. <<>> \in Seq(Nat) OBVIOUS
  <2>2. item \in DownloadItem BY <2>1, <2>0 DEF DownloadItem, DownloadState
  <2>3. EntryOK(i, item) BY <2>1 DEF EntryOK, DownloadItem
  <2>4. thread' = persist(i, item) BY <1>1 DEF retry
  <2> HIDE DEF item
  <2>5. part' \in [Items -> File]
    <3>1. NoFile \in File BY DownloadAssumption DEF NoFile, File
    <3> QED BY <1>1, <3>1 DEF retry, Inv, TypeOK
  <2> QED BY <2>2, <2>3, <2>4, <2>5, Persisted DEF retry, CommandOK, Inv, TypeOK
<1>2. CASE saved[i].state # "FAILED"
  BY <1>2 DEF retry, CommandOK, Inv, TypeOK
<1> QED BY <1>1, <1>2

LEMMA Cancel == ASSUME Inv, NEW i \in Items, cancel(i) PROVE CommandOK
<1> DEFINE item == [saved[i] EXCEPT !.state = "CANCELLED"]
           next == IF saved[i] # NotListed THEN persist(i, item) ELSE thread
           told == IF jobs[i] = 0 THEN {} ELSE {jobs[i]}
<1>1. /\ next \in [Threads -> Thread]
      /\ \A u \in Threads : ThreadOK(next[u])
  <2>1. CASE saved[i] # NotListed
    <3>1. saved[i] \in DownloadItem /\ EntryOK(i, saved[i]) BY <2>1, Saved
    <3>2. item \in DownloadItem BY <3>1 DEF DownloadItem, DownloadState
    <3>3. EntryOK(i, item) BY <3>1 DEF EntryOK, DownloadItem
    <3> HIDE DEF item
    <3> QED BY <2>1, <3>2, <3>3, Persisted
  <2>2. CASE saved[i] = NotListed BY <2>2 DEF Inv, TypeOK
  <2> QED BY <2>1, <2>2
<1>2. thread' = [u \in Threads |-> IF u \in told THEN [next[u] EXCEPT !.cancelled = TRUE]
                                   ELSE next[u]]
  BY DEF cancel
<1> HIDE DEF next, told
<1>3. \A u \in Threads : /\ [next[u] EXCEPT !.cancelled = TRUE] \in Thread
                         /\ ThreadOK([next[u] EXCEPT !.cancelled = TRUE])
  BY <1>1 DEF Thread, ThreadOK
<1>4. /\ thread' \in [Threads -> Thread]
      /\ \A u \in Threads : ThreadOK(thread'[u])
  BY <1>1, <1>2, <1>3
<1>5. part' \in [Items -> File] /\ jobs' \in [Items -> 0..MaxJobs]
  BY DownloadAssumption DEF cancel, NoFile, File, Inv, TypeOK
<1> QED BY <1>4, <1>5 DEF cancel, CommandOK, Inv, TypeOK

LEMMA CommandsOK ==
  ASSUME Inv, disturbed' \in BOOLEAN, NEW c \in Command, NEW i \in Items,
         onStartCommand(c, i),
         inbox' \in Seq(Command \X Items), actions' \in Nat
  PROVE  Inv'
<1>1. CommandOK BY Enqueue, Pause, Resume, Retry, Cancel DEF onStartCommand
<1>2. delivered' \in Seq(Command \X Items)
  <2>1. <<>> \in Seq(Command \X Items) OBVIOUS
  <2>2. <<c, i>> \in Command \X Items OBVIOUS
  <2>3. delivered \in Seq(Command \X Items) BY DEF Inv, TypeOK
  <2> DEFINE intents == Command \X Items
  <2>4. Append(delivered, <<c, i>>) \in Seq(Command \X Items)
    <3>1. <<c, i>> \in intents /\ delivered \in Seq(intents) BY <2>2, <2>3
    <3> HIDE DEF intents
    <3>2. Append(delivered, <<c, i>>) \in Seq(intents) BY <3>1
    <3> QED BY <3>2 DEF intents
  <2> QED BY <2>1, <2>4 DEF onStartCommand
<1> QED BY <1>1, <1>2 DEF CommandOK, onStartCommand, Inv, TypeOK

LEMMA UserCommand ==
  ASSUME Inv, disturbed' \in BOOLEAN, NEW c \in Command, NEW i \in Items, userCommand(c, i)
  PROVE  Inv'
<1>1. onStartCommand(c, i) /\ inbox' = inbox /\ actions' \in Nat
  BY DEF userCommand, Inv, TypeOK
<1>2. inbox' \in Seq(Command \X Items) BY <1>1 DEF Inv, TypeOK
<1> QED BY <1>1, <1>2, CommandsOK

LEMMA Redeliver == ASSUME Inv, disturbed' \in BOOLEAN, redeliver PROVE Inv'
<1> DEFINE intents == Command \X Items
<1>1. inbox \in Seq(intents) /\ inbox # <<>> BY DEF redeliver, Inv, TypeOK
<1>2. Head(inbox) \in intents /\ Tail(inbox) \in Seq(intents)
  <2> HIDE DEF intents
  <2> QED BY <1>1
<1>3. Head(inbox)[1] \in Command /\ Head(inbox)[2] \in Items BY <1>2
<1>4. actions' \in Nat BY DEF redeliver, Inv, TypeOK
<1> QED BY <1>2, <1>3, <1>4, CommandsOK DEF redeliver

-----------------------------------------------------------------------------
LEMMA Run == ASSUME Inv, disturbed' \in BOOLEAN, NEW j \in Jobs, run(j) PROVE Inv'
<1> DEFINE i == thread[j].it
           item == thread[j].item
           total == IF item.total > 0 \/ i \in Unsized THEN item.total ELSE TotalBytes
           segments == IF item.segments # <<>> THEN item.segments
                       ELSE [k \in DOMAIN plan(i, total) |-> 0]
           running == [state |-> "RUNNING", total |-> total, segments |-> segments]
           failed == [item EXCEPT !.state = "FAILED"]
           th(r) == [thread[j] EXCEPT !.pc = "load", !.item = r]
<1>1. j \in Threads BY DEF Jobs, Threads
<1>2. thread[j] \in Thread /\ ThreadOK(thread[j]) BY <1>1 DEF Inv, TypeOK
<1>3. i \in Items /\ item \in DownloadItem /\ EntryOK(i, item)
  BY <1>2 DEF Thread, ThreadOK
<1>4. failed \in DownloadItem /\ EntryOK(i, failed)
  BY <1>3 DEF DownloadItem, DownloadState, EntryOK
<1>5. total \in {-1, TotalBytes} /\ (item.segments # <<>> => total = item.total)
      /\ (i \in Unsized => total = -1) /\ (i \notin Unsized => total = TotalBytes)
  BY <1>3, DownloadAssumption DEF DownloadItem, EntryOK
<1> HIDE DEF total
<1>6. PICK c \in Nat \ {0} : DOMAIN plan(i, total) = 1..c BY <1>3, <1>5, PlanFacts
<1>7. segments \in Seq(Nat) /\ segments # <<>> /\ DOMAIN segments = DOMAIN plan(i, total)
  <2>1. CASE item.segments # <<>> BY <1>3, <1>5, <2>1 DEF DownloadItem, EntryOK
  <2>2. CASE item.segments = <<>>
    <3>1. segments = [k \in 1..c |-> 0] BY <1>6, <2>2
    <3> QED BY <1>6, <3>1
  <2> QED BY <2>1, <2>2
<1> HIDE DEF segments
<1>8. running \in DownloadItem /\ EntryOK(i, running)
  BY <1>5, <1>7 DEF DownloadItem, DownloadState, EntryOK
<1>9. thread' = [thread EXCEPT ![j] = th(running)] \/ thread' = [thread EXCEPT ![j] = th(failed)]
  BY <1>1, <1>2 DEF run, Inv, TypeOK, total, segments, Thread
<1> HIDE DEF running, failed, item
<1>10. \A r \in DownloadItem : EntryOK(i, r) =>
         th(r) \in Thread /\ ThreadOK(th(r))
  BY <1>2 DEF Thread, ThreadOK, Working, Transfer
<1> HIDE DEF i, th
<1>12. /\ thread' \in [Threads -> Thread]
       /\ \A u \in Threads : ThreadOK(thread'[u])
  BY <1>1, <1>4, <1>8, <1>9, <1>10, OneThread
<1> QED BY <1>12 DEF Inv, TypeOK, run, diskVars, bookVars, userVars

LEMMA Allocate == ASSUME Inv, disturbed' \in BOOLEAN, NEW j \in Jobs, allocate(j) PROVE Inv'
<1> DEFINE i == thread[j].it
           item == thread[j].item
           th == [thread[j] EXCEPT !.pc = "fetch", !.from = item.segments[1]]
<1>1. j \in Threads BY DEF Jobs, Threads
<1>2. thread[j] \in Thread /\ ThreadOK(thread[j]) BY <1>1 DEF Inv, TypeOK
<1>3. i \in Items /\ item \in DownloadItem /\ EntryOK(i, item) /\ item.state = "RUNNING"
  BY <1>2 DEF Thread, ThreadOK, allocate, At
<1>4. item.segments \in Seq(Nat) /\ item.segments # <<>> BY <1>3 DEF DownloadItem, EntryOK
<1>5. item.segments[1] \in Nat
  <2> DEFINE s == item.segments
  <2>1. s \in Seq(Nat) /\ s # <<>> BY <1>4
  <2> HIDE DEF s
  <2>2. s[1] \in Nat BY <2>1
  <2> QED BY <2>2 DEF s
<1>6. th \in Thread BY <1>2, <1>5 DEF Thread, Working, Transfer
<1>7. ThreadOK(th) BY <1>2 DEF ThreadOK, Thread
<1>8. thread' = [thread EXCEPT ![j] = th] BY <1>1, <1>2 DEF allocate, Inv, TypeOK
<1>10. part' \in [Items -> File]
  <2>1. part[i] \in File /\ part \in [Items -> File] BY <1>3 DEF Inv, TypeOK
  <2> DEFINE f == [part[i] EXCEPT !.size = TotalBytes]
  <2>2. f \in File BY <2>1, DownloadAssumption DEF File
  <2>3. part' = [part EXCEPT ![i] = f] \/ part' = part BY DEF allocate
  <2> HIDE DEF f
  <2> QED BY <2>1, <2>2, <2>3
<1> HIDE DEF th
<1>11. /\ thread' \in [Threads -> Thread]
       /\ \A u \in Threads : ThreadOK(thread'[u])
  BY <1>1, <1>6, <1>7, <1>8, OneThread
<1> QED BY <1>10, <1>11 DEF Inv, TypeOK, allocate, bookVars, userVars

(***************************************************************************)
(* The next byte of a segment lies in the file.                            *)
(***************************************************************************)
LEMMA PositionInFile ==
  ASSUME Inv, NEW j \in Jobs, NEW k \in Unfinished(j)
  PROVE  /\ k \in DOMAIN thread[j].item.segments
         /\ thread[j].item.segments[k] \in Nat
         /\ Position(j, k) \in 0..TotalBytes - 1
<1> DEFINE i == thread[j].it
           item == thread[j].item
           s == item.segments
<1>1. j \in Threads BY DEF Jobs, Threads
<1>2. thread[j] \in Thread /\ ThreadOK(thread[j]) BY <1>1 DEF Inv, TypeOK
<1>3. i \in Items /\ item \in DownloadItem /\ EntryOK(i, item)
  BY <1>2 DEF Thread, ThreadOK
<1>4. k \in DOMAIN s /\ Position(j, k) <= Segment(j, k).end BY DEF Unfinished
<1>5. s \in Seq(Nat) /\ item.total \in {-1, TotalBytes} BY <1>3 DEF DownloadItem
<1> HIDE DEF s
<1>6. s # <<>> /\ s[k] \in Nat BY <1>4, <1>5
<1>7. DOMAIN s = DOMAIN plan(i, item.total) BY <1>3, <1>6 DEF EntryOK, s
<1>8. /\ Segment(j, k).start \in Nat
      /\ Segment(j, k).end \in Int
      /\ Segment(j, k).end < item.total
  BY <1>3, <1>4, <1>5, <1>7, PlanFacts DEF Segment
<1>9. Position(j, k) = Segment(j, k).start + s[k] BY DEF Position, s
<1> HIDE DEF item
<1>10. Position(j, k) \in 0..TotalBytes - 1
  BY <1>4, <1>5, <1>6, <1>8, <1>9, DownloadAssumption
<1> QED BY <1>4, <1>6, <1>10 DEF s, item

LEMMA DownloadSegmentStep ==
  ASSUME Inv, disturbed' \in BOOLEAN, NEW j \in Jobs, NEW k, downloadSegment(j, k)
  PROVE  Inv'
<1> DEFINE i == thread[j].it
           item == thread[j].item
           b == Position(j, k)
           s == [item.segments EXCEPT ![k] = @ + 1]
           r == [item EXCEPT !.segments = s]
           th == [thread[j] EXCEPT !.item = r]
<1>1. j \in Threads BY DEF Jobs, Threads
<1>2. thread[j] \in Thread /\ ThreadOK(thread[j]) BY <1>1 DEF Inv, TypeOK
<1>3. i \in Items /\ item \in DownloadItem /\ EntryOK(i, item)
  BY <1>2 DEF Thread, ThreadOK
<1>4. k \in Unfinished(j) BY DEF downloadSegment
<1>5. k \in DOMAIN item.segments /\ item.segments[k] \in Nat /\ b \in 0..TotalBytes - 1
  BY <1>4, PositionInFile
<1>6. item.segments \in Seq(Nat) BY <1>3 DEF DownloadItem
<1>7. s \in Seq(Nat) /\ DOMAIN s = DOMAIN item.segments /\ s # <<>>
  <2> DEFINE q == item.segments
  <2>1. q \in Seq(Nat) /\ k \in DOMAIN q /\ q[k] \in Nat BY <1>5, <1>6
  <2> HIDE DEF q
  <2>2. /\ [q EXCEPT ![k] = q[k] + 1] \in Seq(Nat)
        /\ DOMAIN [q EXCEPT ![k] = q[k] + 1] = DOMAIN q
        /\ [q EXCEPT ![k] = q[k] + 1] # <<>>
    BY <2>1
  <2> QED BY <2>2 DEF q
<1>8. item.segments # <<>> BY <1>5
<1> HIDE DEF s
<1>9. r \in DownloadItem /\ EntryOK(i, r)
  BY <1>3, <1>7, <1>8 DEF DownloadItem, EntryOK
<1>10. thread' = [thread EXCEPT ![j] = th]
  BY <1>1, <1>2, <1>3 DEF downloadSegment, Inv, TypeOK, Thread, DownloadItem, s
<1> HIDE DEF r
<1>11. th \in Thread /\ ThreadOK(th)
  BY <1>2, <1>9 DEF Thread, ThreadOK, downloadSegment, At
<1>13. part' \in [Items -> File]
  <2>1. part[i] \in File /\ part \in [Items -> File] BY <1>3 DEF Inv, TypeOK
  <2> DEFINE right == i \notin NoRanges \/ thread[j].from = 0
             written == [size |-> IF part[i].size > b THEN part[i].size ELSE b + 1,
                         data |-> IF right THEN part[i].data \cup {b} ELSE part[i].data \ {b}]
  <2>2. written \in File BY <1>5, <2>1, DownloadAssumption DEF File
  <2>3. \E f \in {written} \cup {part[i]} : part' = [part EXCEPT ![i] = f]
    BY DEF downloadSegment
  <2> HIDE DEF written
  <2> QED BY <2>1, <2>2, <2>3
<1> HIDE DEF th
<1>14. /\ thread' \in [Threads -> Thread]
       /\ \A u \in Threads : ThreadOK(thread'[u])
  BY <1>1, <1>10, <1>11, OneThread
<1> QED BY <1>13, <1>14 DEF Inv, TypeOK, downloadSegment, bookVars, userVars

(***************************************************************************)
(* Steps of a job after which it is elsewhere and otherwise the same, or   *)
(* its item has another state.                                             *)
(***************************************************************************)
LEMMA Moved ==
  ASSUME Inv, NEW j \in Jobs, NEW l \in Bookkeeping \cup Working \cup {"idle", "new", "gone"},
         l # "alloc"
  PROVE  [thread[j] EXCEPT !.pc = l] \in Thread /\ ThreadOK([thread[j] EXCEPT !.pc = l])
<1>1. j \in Threads BY DEF Jobs, Threads
<1>2. thread[j] \in Thread /\ ThreadOK(thread[j]) BY <1>1 DEF Inv, TypeOK
<1> QED BY <1>2 DEF Thread, ThreadOK

LEMMA SegmentLeftStep ==
  ASSUME Inv, disturbed' \in BOOLEAN, NEW j \in Jobs, NEW k, segmentLeft(j, k)
  PROVE  Inv'
<1>1. j \in Threads BY DEF Jobs, Threads
<1>2. thread[j] \in Thread /\ ThreadOK(thread[j]) BY <1>1 DEF Inv, TypeOK
<1>3. k \in Nat
  <2> DEFINE s == thread[j].item.segments
  <2>1. s \in Seq(Nat) BY <1>2 DEF Thread, DownloadItem
  <2>2. k \in DOMAIN s BY PositionInFile DEF segmentLeft
  <2> HIDE DEF s
  <2> QED BY <2>1, <2>2
<1> DEFINE th == [thread[j] EXCEPT !.left = @ \cup {k}]
<1>4. th \in Thread /\ ThreadOK(th) BY <1>2, <1>3 DEF Thread, ThreadOK
<1>5. thread' = [thread EXCEPT ![j] = th] BY DEF segmentLeft
<1>7. spoiled' \subseteq Items
  BY <1>2 DEF segmentLeft, Inv, TypeOK, Thread
<1> HIDE DEF th
<1>8. /\ thread' \in [Threads -> Thread]
      /\ \A u \in Threads : ThreadOK(thread'[u])
  BY <1>1, <1>4, <1>5, OneThread
<1> QED BY <1>7, <1>8 DEF Inv, TypeOK, segmentLeft, diskVars, bookVars, userVars

LEMMA Joined == ASSUME Inv, disturbed' \in BOOLEAN, NEW j \in Jobs, joined(j) PROVE Inv'
<1>1. j \in Threads BY DEF Jobs, Threads
<1>2. thread[j] \in Thread /\ ThreadOK(thread[j]) BY <1>1 DEF Inv, TypeOK
<1> DEFINE th == [thread[j] EXCEPT !.pc = "check", !.from = 0, !.left = {}]
<1>3. th \in Thread /\ ThreadOK(th) BY <1>2 DEF Thread, ThreadOK, Working, Transfer
<1>4. thread' = [thread EXCEPT ![j] = th] BY <1>1, <1>2 DEF joined, Inv, TypeOK, Thread
<1> HIDE DEF th
<1>6. /\ thread' \in [Threads -> Thread]
      /\ \A u \in Threads : ThreadOK(thread'[u])
  BY <1>1, <1>3, <1>4, OneThread
<1> QED BY <1>6 DEF Inv, TypeOK, joined, diskVars, bookVars, userVars

(***************************************************************************)
(* The end of a transfer, wherever it is.                                  *)
(***************************************************************************)
LEMMA Ended ==
  ASSUME Inv, NEW j \in Jobs, NEW st \in {"CANCELLED", "PAUSED", "FAILED", "COMPLETED"},
         ended(j, st)
  PROVE  /\ thread' \in [Threads -> Thread]
         /\ \A u \in Threads : ThreadOK(thread'[u])
<1> DEFINE th == [thread[j] EXCEPT !.pc = "load", !.item.state = st]
<1>1. j \in Threads BY DEF Jobs, Threads
<1>2. thread[j] \in Thread /\ ThreadOK(thread[j]) BY <1>1 DEF Inv, TypeOK
<1>3. th \in Thread /\ ThreadOK(th)
  BY <1>2 DEF Thread, ThreadOK, Working, Transfer, DownloadItem, DownloadState, EntryOK
<1>4. thread' = [thread EXCEPT ![j] = th] BY <1>1, <1>2 DEF ended, Inv, TypeOK, Thread
<1> HIDE DEF th
<1> QED BY <1>1, <1>3, <1>4, OneThread

LEMMA GoOn ==
  ASSUME Inv, NEW j \in Jobs, NEW l \in {"remove", "move"}, goto(j, l)
  PROVE  /\ thread' \in [Threads -> Thread]
         /\ \A u \in Threads : ThreadOK(thread'[u])
<1> DEFINE th == [thread[j] EXCEPT !.pc = l]
<1>1. j \in Threads BY DEF Jobs, Threads
<1>2. th \in Thread /\ ThreadOK(th) BY <1>1, Moved DEF Working, Transfer
<1>3. thread' = [thread EXCEPT ![j] = th] BY DEF goto
<1> HIDE DEF th
<1> QED BY <1>1, <1>2, <1>3, OneThread

LEMMA Check == ASSUME Inv, disturbed' \in BOOLEAN, NEW j \in Jobs, check(j) PROVE Inv'
<1>1. /\ thread' \in [Threads -> Thread]
      /\ \A u \in Threads : ThreadOK(thread'[u])
  <2>1. ended(j, "CANCELLED") \/ ended(j, "PAUSED") \/ goto(j, "remove")
    BY Zenon DEF check
  <2>2. CASE ended(j, "CANCELLED") BY <2>2, Ended, Zenon
  <2>3. CASE ended(j, "PAUSED") BY <2>3, Ended, Zenon
  <2>4. CASE goto(j, "remove") BY <2>4, GoOn, Zenon
  <2> QED BY <2>1, <2>2, <2>3, <2>4
<1> QED BY <1>1 DEF Inv, TypeOK, check, diskVars, bookVars, userVars

LEMMA RemoveStep == ASSUME Inv, disturbed' \in BOOLEAN, NEW j \in Jobs, remove(j) PROVE Inv'
<1>1. /\ thread' \in [Threads -> Thread]
      /\ \A u \in Threads : ThreadOK(thread'[u])
  <2>1. ended(j, "FAILED") \/ goto(j, "move") BY Zenon DEF remove
  <2>2. CASE ended(j, "FAILED") BY <2>2, Ended, Zenon
  <2>3. CASE goto(j, "move") BY <2>3, GoOn, Zenon
  <2> QED BY <2>1, <2>2, <2>3
<1>2. target' \in [Items -> File]
  <2>1. NoFile \in File BY DownloadAssumption DEF NoFile, File
  <2> QED BY <2>1 DEF remove, Inv, TypeOK
<1> QED BY <1>1, <1>2 DEF Inv, TypeOK, remove, bookVars, userVars

LEMMA MoveStep == ASSUME Inv, disturbed' \in BOOLEAN, NEW j \in Jobs, move(j) PROVE Inv'
<1>1. /\ thread' \in [Threads -> Thread]
      /\ \A u \in Threads : ThreadOK(thread'[u])
  BY Ended DEF move, moved
<1>2. target' \in [Items -> File] /\ part' \in [Items -> File]
  <2>1. NoFile \in File BY DownloadAssumption DEF NoFile, File
  <2>2. thread[j].it \in Items
    <3>1. j \in Threads BY DEF Jobs, Threads
    <3> QED BY <3>1 DEF Inv, TypeOK, Thread
  <2> QED BY <2>1, <2>2 DEF move, moved, Inv, TypeOK
<1> QED BY <1>1, <1>2 DEF Inv, TypeOK, move, bookVars, userVars

-----------------------------------------------------------------------------
LEMMA OnTerminal == ASSUME Inv, disturbed' \in BOOLEAN, NEW j \in Jobs, onTerminal(j) PROVE Inv'
<1> DEFINE th == [thread[j] EXCEPT !.pc = "dec", !.count = activeCount]
<1>1. j \in Threads BY DEF Jobs, Threads
<1>2. thread[j] \in Thread /\ ThreadOK(thread[j]) BY <1>1 DEF Inv, TypeOK
<1>3. th \in Thread BY <1>2 DEF Thread, Working, Transfer, Inv, TypeOK
<1>4. ThreadOK(th) BY <1>2 DEF Thread, ThreadOK
<1>5. thread' = [thread EXCEPT ![j] = th] BY DEF onTerminal
<1>7. jobs' \in [Items -> 0..MaxJobs]
  <2>1. 0 \in 0..MaxJobs BY DownloadAssumption
  <2> QED BY <2>1 DEF onTerminal, Inv, TypeOK
<1> HIDE DEF th
<1>8. /\ thread' \in [Threads -> Thread]
      /\ \A u \in Threads : ThreadOK(thread'[u])
  BY <1>1, <1>3, <1>4, <1>5, OneThread
<1> QED BY <1>7, <1>8 DEF Inv, TypeOK, onTerminal, diskVars, userVars

LEMMA JobEnded == ASSUME Inv, disturbed' \in BOOLEAN, NEW j \in Jobs, jobEnded(j) PROVE Inv'
<1>1. j \in Threads BY DEF Jobs, Threads
<1>2. thread[j] \in Thread BY <1>1 DEF Inv, TypeOK
<1>3. activeCount' \in Nat BY <1>2 DEF jobEnded, Thread
<1>4. Fresh("next") \in Thread /\ ThreadOK(Fresh("next"))
  BY FreshIsOK DEF Bookkeeping
<1>5. thread' = [thread EXCEPT ![j] = Fresh("next")] BY DEF jobEnded
<1>6. /\ thread' \in [Threads -> Thread]
      /\ \A u \in Threads : ThreadOK(thread'[u])
  BY <1>1, <1>4, <1>5, OneThread
<1> QED BY <1>3, <1>6 DEF Inv, TypeOK, jobEnded, diskVars, userVars

(***************************************************************************)
(* The next download gets the record that the list has of it.              *)
(***************************************************************************)
LEMMA StartNext == ASSUME Inv, disturbed' \in BOOLEAN, NEW j \in Jobs, startNext(j) PROVE Inv'
<1> DEFINE th(i) == [thread[j] EXCEPT !.pc = "start", !.it = i, !.item = saved[i]]
           gone == [thread[j] EXCEPT !.pc = "gone"]
<1>1. j \in Threads BY DEF Jobs, Threads
<1>2. thread[j] \in Thread /\ ThreadOK(thread[j]) BY <1>1 DEF Inv, TypeOK
<1>3. \A i \in Waiting : th(i) \in Thread /\ ThreadOK(th(i))
  <2> SUFFICES ASSUME NEW i \in Waiting PROVE th(i) \in Thread /\ ThreadOK(th(i))
    OBVIOUS
  <2>1. i \in Items /\ saved[i].state = "QUEUED" BY DEF Waiting
  <2>2. saved[i] \in DownloadItem /\ EntryOK(i, saved[i]) BY <2>1, Saved
  <2> QED BY <1>2, <2>1, <2>2 DEF Thread, ThreadOK, Working, Transfer, Bookkeeping
<1>4. gone \in Thread /\ ThreadOK(gone) BY Moved
<1>5. (\E i \in Waiting : thread' = [thread EXCEPT ![j] = th(i)])
      \/ thread' = [thread EXCEPT ![j] = gone]
  BY <1>1, <1>2 DEF startNext, goto, Inv, TypeOK, Thread
<1>7. delivered' \in Seq(Command \X Items)
  <2>1. <<>> \in Seq(Command \X Items) OBVIOUS
  <2> QED BY <2>1 DEF startNext, stopIfIdle, Inv, TypeOK
<1> HIDE DEF th, gone
<1>8. /\ thread' \in [Threads -> Thread]
      /\ \A u \in Threads : ThreadOK(thread'[u])
  BY <1>1, <1>3, <1>4, <1>5, OneThread
<1> QED BY <1>7, <1>8 DEF Inv, TypeOK, startNext, diskVars, bookVars

LEMMA ProcessDeath == ASSUME Inv, disturbed' \in BOOLEAN, processDeath PROVE Inv'
<1>1. \A u \in Threads : thread'[u] = thread[u] \/ thread'[u] = End(u)
  BY DEF processDeath
<1>2. \A u \in Threads : End(u) \in Thread /\ ThreadOK(End(u))
  BY FreshIsOK DEF End
<1>4. /\ thread' \in [Threads -> Thread]
      /\ \A u \in Threads : ThreadOK(thread'[u])
  <2>1. \A u \in Threads : thread[u] \in Thread /\ ThreadOK(thread[u])
    BY DEF Inv, TypeOK
  <2>2. thread' = [u \in Threads |-> thread'[u]] BY DEF processDeath
  <2>3. \A u \in Threads : thread'[u] \in Thread /\ ThreadOK(thread'[u])
    BY <1>1, <1>2, <2>1
  <2> QED BY <2>2, <2>3
<1>5. delivered' \in Seq(Command \X Items) /\ inbox' \in Seq(Command \X Items)
  <2> DEFINE intents == Command \X Items
  <2>1. delivered \in Seq(intents) /\ inbox \in Seq(intents) BY DEF Inv, TypeOK
  <2> HIDE DEF intents
  <2>2. delivered \o inbox \in Seq(intents) /\ <<>> \in Seq(intents) BY <2>1
  <2> QED BY <2>2 DEF processDeath, intents
<1>6. jobs' \in [Items -> 0..MaxJobs] /\ crashes' \in Nat /\ activeCount' \in Nat
  BY DownloadAssumption DEF processDeath, Inv, TypeOK
<1>7. spoiled' \subseteq Items BY DEF processDeath, Cancelling, Inv, TypeOK
<1> QED BY <1>4, <1>5, <1>6, <1>7 DEF Inv, TypeOK, processDeath, diskVars

-----------------------------------------------------------------------------
(***************************************************************************)
(* One case for each action of the specification.                          *)
(***************************************************************************)
LEMMA StepInv == ASSUME Inv, Step, disturbed' \in BOOLEAN PROVE Inv'
<1>1. ASSUME NEW c \in Command, NEW i \in Items, userCommand(c, i) PROVE Inv'
  BY <1>1, UserCommand
<1>2. CASE redeliver BY <1>2, Redeliver
<1>3. CASE processDeath BY <1>3, ProcessDeath
<1>4. ASSUME NEW t \in Threads, Shared(t) PROVE Inv'
  BY <1>4, PersistLoad, PersistSave, StartRefused, StartJob, JobStarted DEF Shared
<1>5. ASSUME NEW j \in Jobs, Job(j) PROVE Inv'
  <2>1. CASE run(j) BY <2>1, Run
  <2>2. CASE allocate(j) BY <2>2, Allocate
  <2>3. ASSUME NEW k, downloadSegment(j, k) \/ segmentLeft(j, k) PROVE Inv'
    BY <2>3, DownloadSegmentStep, SegmentLeftStep
  <2>4. CASE joined(j) BY <2>4, Joined
  <2>5. CASE check(j) BY <2>5, Check
  <2>6. CASE remove(j) \/ move(j) BY <2>6, RemoveStep, MoveStep
  <2>7. CASE onTerminal(j) BY <2>7, OnTerminal
  <2>8. CASE jobEnded(j) BY <2>8, JobEnded
  <2>9. CASE startNext(j) BY <2>9, StartNext
  <2> QED BY <1>5, <2>1, <2>2, <2>3, <2>4, <2>5, <2>6, <2>7, <2>8, <2>9 DEF Job
<1> QED BY <1>1, <1>2, <1>3, <1>4, <1>5 DEF Step

LEMMA NextInv == Inv /\ [Next]_vars => Inv'
<1> SUFFICES ASSUME Inv, [Next]_vars PROVE Inv' OBVIOUS
<1>1. CASE Next
  <2>1. disturbed' \in BOOLEAN BY <1>1 DEF Next, Inv, TypeOK
  <2> QED BY <1>1, <2>1, StepInv DEF Next
<1>2. CASE UNCHANGED vars
  BY <1>2 DEF vars, diskVars, bookVars, userVars, Inv, TypeOK
<1> QED BY <1>1, <1>2

LEMMA Invariance == Spec => []Inv
BY InitInv, NextInv, PTL DEF Spec

(***************************************************************************)
(* The service, its jobs and the list on disk keep their types in every    *)
(* behaviour, the disturbed ones included, in which persist and startJob   *)
(* of several threads overlap.                                             *)
(***************************************************************************)
THEOREM TypeCorrect == Spec => []TypeOK
<1>1. Inv => TypeOK BY DEF Inv
<1> QED BY <1>1, Invariance, PTL

-----------------------------------------------------------------------------
(***************************************************************************)
(* What keeps the list and the finished files together as long as nothing  *)
(* is disturbed.  For a thread:                                            *)
(*   - the list it is about to save is the one on disk;                    *)
(*   - the file of a record that says COMPLETED is there;                  *)
(*   - a job whose transfer runs is not listed as COMPLETED, so that it    *)
(*     may delete the finished file;                                       *)
(*   - the part file that is about to be moved is complete or gone;        *)
(*   - the main thread transfers nothing and completes nothing.            *)
(***************************************************************************)
ThreadCalm(t) ==
  /\ thread[t].pc = "save" => thread[t].copy = saved
  /\ thread[t].pc \in {"load", "save"} /\ thread[t].item.state = "COMPLETED"
       => target[thread[t].it].size = TotalBytes
  /\ thread[t].pc \in Transfer => saved[thread[t].it].state # "COMPLETED"
  /\ thread[t].pc = "move" => part[thread[t].it].size \in {0, TotalBytes}
  /\ t = Main => /\ thread[t].pc \notin Transfer
                 /\ thread[t].pc \in {"load", "save"} =>
                      thread[t].item.state \in {"QUEUED", "CANCELLED"}

FilesListed ==
  \A i \in Items : saved[i].state = "COMPLETED" => target[i].size = TotalBytes

Calm == FilesListed /\ \A t \in Threads : ThreadCalm(t)

CalmInv == /\ Overlap => disturbed
           /\ ~disturbed => Calm

LEMMA InitCalm == Init => CalmInv
<1> SUFFICES ASSUME Init PROVE CalmInv OBVIOUS
<1>1. \A t \in Threads : thread[t].pc \in {"idle", "new"} BY DEF Init, Fresh
<1>2. ~Overlap BY <1>1 DEF Overlap, AtBooks, AtWork, Bookkeeping, Working, Transfer, Jobs, Threads
<1>3. \A t \in Threads : ThreadCalm(t) BY <1>1 DEF ThreadCalm, Transfer
<1>4. FilesListed BY DEF Init, FilesListed, Nothing, NotListed
<1> QED BY <1>2, <1>3, <1>4 DEF CalmInv, Calm

LEMMA OneAtBooks ==
  ASSUME ~Overlap, NEW t \in Threads, NEW u \in Threads, AtBooks(t), AtBooks(u)
  PROVE  t = u
BY DEF Overlap

LEMMA OneAtWork ==
  ASSUME ~Overlap, NEW j \in Jobs, NEW t \in Threads, t # Main, AtWork(j), AtWork(t),
         thread[j].it = thread[t].it
  PROVE  t = j
<1>1. t \in Jobs BY DownloadAssumption DEF Jobs, Threads, Main
<1> QED BY <1>1 DEF Overlap

LEMMA JobIsThread ==
  ASSUME Inv, NEW j \in Jobs
  PROVE  /\ j \in Threads /\ j # Main
         /\ thread[j] \in Thread /\ thread[j].it \in Items /\ thread \in [Threads -> Thread]
<1>1. j \in Threads /\ j # Main BY DownloadAssumption DEF Jobs, Threads, Main
<1> QED BY <1>1 DEF Inv, TypeOK, Thread

(***************************************************************************)
(* Steps that change neither the list nor the finished files: it is enough *)
(* to look at the threads that go on.                                      *)
(***************************************************************************)
Same(t) == /\ thread'[t].pc = thread[t].pc /\ thread'[t].it = thread[t].it
           /\ thread'[t].item = thread[t].item /\ thread'[t].copy = thread[t].copy

LEMMA Frame ==
  ASSUME Calm, saved' = saved, target' = target,
         \A t \in Threads :
           \/ /\ Same(t)
              /\ thread[t].pc = "move" =>
                   part'[thread[t].it].size \in {0, part[thread[t].it].size}
           \/ ThreadCalm(t)'
  PROVE  Calm'
<1>1. FilesListed' BY DEF Calm, FilesListed
<1>2. ASSUME NEW t \in Threads PROVE ThreadCalm(t)'
  <2>1. ThreadCalm(t) BY DEF Calm
  <2>2. CASE /\ Same(t)
             /\ thread[t].pc = "move" =>
                  part'[thread[t].it].size \in {0, part[thread[t].it].size}
    BY <2>1, <2>2 DEF ThreadCalm, Same
  <2> QED BY <2>2
<1> QED BY <1>1, <1>2 DEF Calm

LEMMA Quiet ==
  ASSUME NEW t, thread'[t].pc \notin Transfer \cup {"load", "save"}
  PROVE  ThreadCalm(t)'
BY DEF ThreadCalm, Transfer

LEMMA EndIsQuiet ==
  ASSUME NEW t, thread'[t] = End(t)
  PROVE  ThreadCalm(t)'
BY Quiet DEF End, Fresh, Transfer

LEMMA CalmPersistLoad ==
  ASSUME Inv, Calm, NEW t \in Threads, persistLoad(t)
  PROVE  Calm'
<1>1. thread \in [Threads -> Thread] BY DEF Inv, TypeOK
<1>2. ThreadCalm(t)'
  <2>1. ThreadCalm(t) BY DEF Calm
  <2> QED BY <1>1, <2>1 DEF ThreadCalm, persistLoad, At, Thread, diskVars, Transfer
<1>3. \A u \in Threads : u # t => Same(u) BY <1>1 DEF persistLoad, Same
<1> QED BY <1>2, <1>3, Frame DEF persistLoad, diskVars

(***************************************************************************)
(* The one step that writes the list.  The thread is alone at the books:   *)
(* the list it saves is the one on disk but for its own record.            *)
(***************************************************************************)
LEMMA CalmPersistSave ==
  ASSUME Inv, Calm, ~Overlap, NEW t \in Threads, persistSave(t)
  PROVE  Calm'
<1> DEFINE i == thread[t].it
           item == thread[t].item
<1>1. /\ thread \in [Threads -> Thread] /\ thread[t] \in Thread /\ i \in Items
      /\ saved \in List /\ target' = target /\ part' = part /\ thread[t].pc = "save"
  BY DEF Inv, TypeOK, Thread, persistSave, At
<1>2. ThreadCalm(t) BY DEF Calm
<1>3. saved' = [saved EXCEPT ![i] = item] BY <1>1, <1>2 DEF ThreadCalm, persistSave
<1>4. item.state = "COMPLETED" => target[i].size = TotalBytes BY <1>1, <1>2 DEF ThreadCalm
<1>5. FilesListed' BY <1>1, <1>3, <1>4 DEF FilesListed, Calm, List
<1>6. ThreadCalm(t)'
  <2>1. CASE thread' = [thread EXCEPT ![t] = End(t)] BY <1>1, <2>1, EndIsQuiet
  <2>2. CASE thread' # [thread EXCEPT ![t] = End(t)]
    <3>1. /\ thread'[t].pc = IF item.state = "QUEUED" THEN "start"
                             ELSE IF item.state = "RUNNING" THEN "alloc" ELSE "terminal"
          /\ thread'[t].it = i
      BY <1>1, <2>2 DEF persistSave, Thread
    <3>2. CASE item.state = "RUNNING"
      <4>1. thread'[t].pc = "alloc" BY <3>1, <3>2
      <4>2. t # Main BY <1>1, <1>2, <3>2 DEF ThreadCalm
      <4>3. saved'[i].state = "RUNNING" BY <1>1, <1>3, <3>2 DEF List
      <4> QED BY <3>1, <4>1, <4>2, <4>3 DEF ThreadCalm
    <3>3. CASE item.state # "RUNNING"
      BY <3>1, <3>3, Quiet DEF Transfer
    <3> QED BY <3>2, <3>3
  <2> QED BY <2>1, <2>2
<1>7. ASSUME NEW u \in Threads, u # t PROVE ThreadCalm(u)'
  <2>1. ThreadCalm(u) /\ thread'[u] = thread[u]
    BY <1>1, <1>7 DEF Calm, persistSave
  <2>2. thread[u].pc \notin {"load", "save"}
    BY <1>1, <1>7, OneAtBooks DEF AtBooks, Bookkeeping
  <2>3. thread[u].pc \in Transfer => saved'[thread[u].it].state # "COMPLETED"
    <3> SUFFICES ASSUME thread[u].pc \in Transfer, saved'[thread[u].it].state = "COMPLETED"
                 PROVE  FALSE
      OBVIOUS
    <3>1. saved[thread[u].it].state # "COMPLETED" /\ u # Main BY <2>1 DEF ThreadCalm
    <3>2. thread[u].it = i /\ item.state = "COMPLETED"
      <4>1. thread[u].it \in Items BY <1>1 DEF Thread
      <4> QED BY <1>1, <1>3, <3>1, <4>1 DEF List
    <3>3. t # Main BY <1>1, <1>2, <3>2 DEF ThreadCalm
    <3>4. AtWork(u) /\ AtWork(t) BY <1>1 DEF AtWork, Working
    <3>5. u \in Jobs BY <3>1, DownloadAssumption DEF Jobs, Threads, Main
    <3> QED BY <1>7, <3>2, <3>3, <3>4, <3>5, OneAtWork
  <2> QED BY <1>1, <2>1, <2>2, <2>3 DEF ThreadCalm
<1> QED BY <1>5, <1>6, <1>7 DEF Calm

LEMMA CalmStart ==
  ASSUME Inv, Calm, NEW t \in Threads, startRefused(t) \/ startJob(t) \/ jobStarted(t)
  PROVE  Calm'
<1>1. thread \in [Threads -> Thread] /\ saved' = saved /\ target' = target /\ part' = part
  BY DEF Inv, TypeOK, startRefused, startJob, jobStarted, diskVars
<1>2. ASSUME NEW u \in Threads
      PROVE  Same(u) \/ thread'[u] = End(u) \/ thread'[u].pc \in {"inc", "made", "run"}
  <2>1. CASE startRefused(t) BY <1>1, <2>1 DEF startRefused, Same
  <2>2. CASE startJob(t)
    <3>1. PICK j \in Jobs :
            thread' = [thread EXCEPT ![t].pc = "inc", ![t].made = j, ![t].count = activeCount,
                                     ![j].pc = "made", ![j].it = thread[t].it,
                                     ![j].item = thread[t].item]
      BY <2>2 DEF startJob
    <3>2. j \in Threads BY DEF Jobs, Threads
    <3> QED BY <1>1, <3>1, <3>2 DEF Same, Thread
  <2>3. CASE jobStarted(t) BY <1>1, <2>3 DEF jobStarted, Same, Thread
  <2> QED BY <2>1, <2>2, <2>3
<1>3. \A u \in Threads : Same(u) \/ ThreadCalm(u)'
  BY <1>2, EndIsQuiet, Quiet DEF Transfer
<1> QED BY <1>1, <1>3, Frame

(***************************************************************************)
(* A job that goes on with its transfer or leaves it.                      *)
(***************************************************************************)
LEMMA CalmRun ==
  ASSUME Inv, Calm, NEW j \in Jobs, run(j)
  PROVE  Calm'
<1>1. /\ j \in Threads /\ j # Main /\ thread \in [Threads -> Thread] /\ thread[j] \in Thread
      /\ saved' = saved /\ target' = target /\ part' = part
  BY JobIsThread DEF run, diskVars
<1>2. thread'[j].pc = "load" /\ thread'[j].item.state \in {"RUNNING", "FAILED"}
  BY <1>1 DEF run, Thread, DownloadItem
<1>3. \A u \in Threads : u # j => Same(u) BY <1>1 DEF run, Same
<1>4. ThreadCalm(j)' BY <1>1, <1>2 DEF ThreadCalm, Transfer
<1> QED BY <1>1, <1>3, <1>4, Frame

LEMMA CalmSegments ==
  ASSUME Inv, Calm, ~Overlap, NEW j \in Jobs, NEW k, downloadSegment(j, k) \/ segmentLeft(j, k)
  PROVE  Calm'
<1>1. /\ j \in Threads /\ j # Main /\ thread \in [Threads -> Thread] /\ thread[j] \in Thread
      /\ thread[j].it \in Items
      /\ saved' = saved /\ target' = target /\ thread[j].pc = "fetch"
  BY JobIsThread DEF downloadSegment, segmentLeft, At, diskVars
<1>2. ThreadCalm(j)'
  <2>1. thread'[j].pc = "fetch" /\ thread'[j].it = thread[j].it
    BY <1>1 DEF downloadSegment, segmentLeft, Thread
  <2>2. ThreadCalm(j) BY <1>1 DEF Calm
  <2> QED BY <1>1, <2>1, <2>2 DEF ThreadCalm, Transfer
<1>3. ASSUME NEW u \in Threads, u # j
      PROVE  /\ Same(u)
             /\ thread[u].pc = "move" => part'[thread[u].it] = part[thread[u].it]
  <2>1. Same(u) BY <1>1, <1>3 DEF downloadSegment, segmentLeft, Same
  <2>2. CASE thread[u].pc = "move"
    <3>1. u # Main BY <2>2 DEF Calm, ThreadCalm, Transfer
    <3>2. thread[u].it # thread[j].it
      BY <1>1, <1>3, <2>2, <3>1, OneAtWork DEF AtWork, Working, Transfer
    <3>3. \A i \in Items : i # thread[j].it => part'[i] = part[i]
      BY DEF downloadSegment, segmentLeft, diskVars, Inv, TypeOK
    <3>4. thread[u].it \in Items BY <1>1 DEF Thread
    <3> QED BY <2>1, <3>2, <3>3, <3>4
  <2> QED BY <2>1, <2>2
<1> QED BY <1>1, <1>2, <1>3, Frame

LEMMA CalmAllocate ==
  ASSUME Inv, Calm, ~Overlap, NEW j \in Jobs, allocate(j)
  PROVE  Calm'
<1>1. /\ j \in Threads /\ j # Main /\ thread \in [Threads -> Thread] /\ thread[j] \in Thread
      /\ thread[j].it \in Items
      /\ saved' = saved /\ target' = target /\ thread[j].pc = "alloc"
  BY JobIsThread DEF allocate, At
<1>2. ThreadCalm(j)'
  <2>1. thread'[j].pc = "fetch" /\ thread'[j].it = thread[j].it
    BY <1>1 DEF allocate, Thread
  <2>2. ThreadCalm(j) BY <1>1 DEF Calm
  <2> QED BY <1>1, <2>1, <2>2 DEF ThreadCalm, Transfer
<1>3. ASSUME NEW u \in Threads, u # j
      PROVE  /\ Same(u)
             /\ thread[u].pc = "move" => part'[thread[u].it] = part[thread[u].it]
  <2>1. Same(u) BY <1>1, <1>3 DEF allocate, Same
  <2>2. CASE thread[u].pc = "move"
    <3>1. u # Main BY <2>2 DEF Calm, ThreadCalm, Transfer
    <3>2. thread[u].it # thread[j].it
      BY <1>1, <1>3, <2>2, <3>1, OneAtWork DEF AtWork, Working, Transfer
    <3>3. \A i \in Items : i # thread[j].it => part'[i] = part[i]
      BY DEF allocate, Inv, TypeOK
    <3>4. thread[u].it \in Items BY <1>1 DEF Thread
    <3> QED BY <2>1, <3>2, <3>3, <3>4
  <2> QED BY <2>1, <2>2
<1> QED BY <1>1, <1>2, <1>3, Frame

LEMMA CalmJoined ==
  ASSUME Inv, Calm, NEW j \in Jobs, joined(j)
  PROVE  Calm'
<1>1. /\ j \in Threads /\ j # Main /\ thread \in [Threads -> Thread] /\ thread[j] \in Thread
      /\ saved' = saved /\ target' = target /\ part' = part /\ thread[j].pc = "fetch"
  BY JobIsThread DEF joined, At, diskVars
<1>2. ThreadCalm(j)'
  <2>1. thread'[j].pc = "check" /\ thread'[j].it = thread[j].it
    BY <1>1 DEF joined, Thread
  <2>2. ThreadCalm(j) BY <1>1 DEF Calm
  <2> QED BY <1>1, <2>1, <2>2 DEF ThreadCalm, Transfer
<1>3. \A u \in Threads : u # j => Same(u) BY <1>1 DEF joined, Same
<1> QED BY <1>1, <1>2, <1>3, Frame

LEMMA CalmEnded ==
  ASSUME Inv, NEW j \in Jobs, NEW st \in {"CANCELLED", "PAUSED", "FAILED"}, ended(j, st)
  PROVE  ThreadCalm(j)' /\ \A u \in Threads : u # j => Same(u)
<1>1. j \in Threads /\ j # Main /\ thread \in [Threads -> Thread] /\ thread[j] \in Thread
  BY JobIsThread
<1>2. thread'[j].pc = "load" /\ thread'[j].item.state = st
  BY <1>1 DEF ended, Thread, DownloadItem
<1>3. ThreadCalm(j)' BY <1>1, <1>2 DEF ThreadCalm, Transfer
<1>4. \A u \in Threads : u # j => Same(u) BY <1>1 DEF ended, Same
<1> QED BY <1>3, <1>4

LEMMA CalmCheck ==
  ASSUME Inv, Calm, NEW j \in Jobs, check(j)
  PROVE  Calm'
<1>1. /\ j \in Threads /\ j # Main /\ thread \in [Threads -> Thread] /\ thread[j] \in Thread
      /\ saved' = saved /\ target' = target /\ part' = part /\ thread[j].pc = "check"
  BY JobIsThread DEF check, At, diskVars
<1>2. ThreadCalm(j)' /\ \A u \in Threads : u # j => Same(u)
  <2>1. ended(j, "CANCELLED") \/ ended(j, "PAUSED") \/ goto(j, "remove")
    BY Zenon DEF check
  <2>2. CASE ended(j, "CANCELLED") BY <2>2, CalmEnded
  <2>3. CASE ended(j, "PAUSED") BY <2>3, CalmEnded
  <2>4. CASE goto(j, "remove")
    <3>1. /\ thread'[j].pc = "remove" /\ thread'[j].it = thread[j].it
          /\ \A u \in Threads : u # j => Same(u)
      BY <1>1, <2>4 DEF goto, Thread, Same
    <3>2. ThreadCalm(j) BY <1>1 DEF Calm
    <3>3. ThreadCalm(j)' BY <1>1, <3>1, <3>2 DEF ThreadCalm, Transfer
    <3> QED BY <3>1, <3>3
  <2> QED BY <2>1, <2>2, <2>3, <2>4
<1> QED BY <1>1, <1>2, Frame

(***************************************************************************)
(* The finished file is deleted, then replaced.  No other job works for    *)
(* the download, and the list does not call it COMPLETED.                  *)
(***************************************************************************)
LEMMA OthersAreElsewhere ==
  ASSUME Inv, Calm, ~Overlap, NEW j \in Jobs, AtWork(j), NEW u \in Threads, u # j,
         \/ thread[u].pc \in {"load", "save"} /\ thread[u].item.state = "COMPLETED"
         \/ thread[u].pc \in Transfer
  PROVE  thread[u].it # thread[j].it
<1>1. u # Main BY DEF Calm, ThreadCalm
<1>2. AtWork(u) BY DEF AtWork, Working
<1> QED BY <1>1, <1>2, OneAtWork

LEMMA FilesOfOthers ==
  ASSUME Inv, Calm, ~Overlap, NEW j \in Jobs, AtWork(j), NEW u \in Threads, u # j, Same(u),
         saved' = saved,
         \A i \in Items : i # thread[j].it => target'[i] = target[i] /\ part'[i] = part[i]
  PROVE  ThreadCalm(u)'
<1>1. thread[u].it \in Items /\ ThreadCalm(u) BY DEF Inv, TypeOK, Thread, Calm
<1>2. thread[u].pc \in {"load", "save"} /\ thread[u].item.state = "COMPLETED"
        => target'[thread[u].it] = target[thread[u].it]
  BY <1>1, OthersAreElsewhere
<1>3. thread[u].pc = "move" => part'[thread[u].it] = part[thread[u].it]
  BY <1>1, OthersAreElsewhere DEF Transfer
<1> QED BY <1>1, <1>2, <1>3 DEF ThreadCalm, Same

LEMMA CalmRemove ==
  ASSUME Inv, Calm, ~Overlap, NEW j \in Jobs, remove(j)
  PROVE  Calm'
<1> DEFINE i == thread[j].it
<1>1. /\ j \in Threads /\ j # Main /\ thread \in [Threads -> Thread] /\ thread[j] \in Thread
      /\ i \in Items /\ saved' = saved /\ part' = part /\ thread[j].pc = "remove"
  BY JobIsThread DEF remove, At
<1>2. ThreadCalm(j) /\ AtWork(j) BY <1>1 DEF Calm, AtWork, Working, Transfer
<1>3. CASE /\ part[i].size = TotalBytes
           /\ target' = [target EXCEPT ![i] = NoFile]
           /\ goto(j, "move")
  <2>1. \A k \in Items : k # i => target'[k] = target[k] BY <1>3 DEF Inv, TypeOK
  <2>2. FilesListed'
    <3>1. saved[i].state # "COMPLETED" BY <1>1, <1>2 DEF ThreadCalm, Transfer
    <3> QED BY <1>1, <2>1, <3>1 DEF FilesListed, Calm
  <2>3. /\ thread'[j].pc = "move" /\ thread'[j].it = i
        /\ \A u \in Threads : u # j => Same(u)
    BY <1>1, <1>3 DEF goto, Thread, Same
  <2>4. ThreadCalm(j)' BY <1>1, <1>2, <1>3, <2>3 DEF ThreadCalm, Transfer
  <2>5. \A u \in Threads : u # j => ThreadCalm(u)'
    BY <1>1, <1>2, <2>1, <2>3, FilesOfOthers
  <2> QED BY <2>2, <2>4, <2>5 DEF Calm
<1>4. CASE ended(j, "FAILED") /\ UNCHANGED target
  BY <1>1, <1>4, CalmEnded, Frame
<1> QED BY <1>3, <1>4 DEF remove

LEMMA CalmMove ==
  ASSUME Inv, Calm, ~Overlap, NEW j \in Jobs, move(j)
  PROVE  Calm'
<1> DEFINE i == thread[j].it
<1>1. /\ j \in Threads /\ j # Main /\ thread \in [Threads -> Thread] /\ thread[j] \in Thread
      /\ i \in Items /\ saved' = saved /\ thread[j].pc = "move"
  BY JobIsThread DEF move, At
<1>2. ThreadCalm(j) /\ AtWork(j) BY <1>1 DEF Calm, AtWork, Working, Transfer
<1>3. CASE part[i].size > 0 /\ moved(j)
  <2>1. part[i].size = TotalBytes
    BY <1>1, <1>2, <1>3 DEF ThreadCalm
  <2>2. /\ target'[i].size = TotalBytes
        /\ \A k \in Items : k # i => target'[k] = target[k] /\ part'[k] = part[k]
    BY <1>1, <1>3, <2>1 DEF moved, Inv, TypeOK
  <2>3. FilesListed' BY <1>1, <2>2 DEF FilesListed, Calm
  <2>4. /\ thread'[j].pc = "load" /\ thread'[j].it = i
        /\ \A u \in Threads : u # j => Same(u)
    BY <1>1, <1>3 DEF moved, ended, Thread, Same
  <2>5. ThreadCalm(j)' BY <1>1, <2>2, <2>4 DEF ThreadCalm, Transfer
  <2>6. \A u \in Threads : u # j => ThreadCalm(u)'
    BY <1>1, <1>2, <2>2, <2>4, FilesOfOthers
  <2> QED BY <2>3, <2>5, <2>6 DEF Calm
<1>4. CASE ended(j, "FAILED") /\ UNCHANGED <<part, target>>
  BY <1>1, <1>4, CalmEnded, Frame
<1> QED BY <1>3, <1>4 DEF move

LEMMA CalmTerminal ==
  ASSUME Inv, Calm, NEW j \in Jobs, onTerminal(j) \/ jobEnded(j) \/ startNext(j)
  PROVE  Calm'
<1>1. /\ j \in Threads /\ thread \in [Threads -> Thread] /\ thread[j] \in Thread
      /\ saved' = saved /\ target' = target /\ part' = part
  BY JobIsThread DEF onTerminal, jobEnded, startNext, diskVars
<1>2. /\ thread'[j].pc \in {"dec", "next", "start", "gone"}
      /\ \A u \in Threads : u # j => Same(u)
  <2>1. CASE onTerminal(j) BY <1>1, <2>1 DEF onTerminal, Thread, Same
  <2>2. CASE jobEnded(j) BY <1>1, <2>2 DEF jobEnded, Fresh, Same
  <2>3. CASE startNext(j)
    <3>1. CASE \E i \in Waiting :
                 thread' = [thread EXCEPT ![j].pc = "start", ![j].it = i, ![j].item = saved[i]]
      BY <1>1, <3>1 DEF Thread, Same
    <3>2. CASE goto(j, "gone") BY <1>1, <3>2 DEF goto, Thread, Same
    <3> QED BY <2>3, <3>1, <3>2 DEF startNext
  <2> QED BY <2>1, <2>2, <2>3
<1>3. ThreadCalm(j)' BY <1>2, Quiet DEF Transfer
<1> QED BY <1>1, <1>2, <1>3, Frame

LEMMA CalmDeath ==
  ASSUME Inv, Calm, processDeath
  PROVE  Calm'
<1>1. saved' = saved /\ target' = target /\ part' = part BY DEF processDeath, diskVars
<1>2. \A u \in Threads : Same(u) \/ ThreadCalm(u)'
  BY EndIsQuiet DEF processDeath, Same
<1> QED BY <1>1, <1>2, Frame

(***************************************************************************)
(* The commands of the user reach the list through the main thread and     *)
(* take part files away; what they tell the jobs matters at check only.    *)
(***************************************************************************)
MainOnly ==
  /\ \A u \in Threads : u # Main => Same(u)
  /\ Same(Main) \/ /\ thread'[Main].pc = "load"
                   /\ thread'[Main].item.state \in {"QUEUED", "CANCELLED"}
  /\ \A i \in Items : part'[i].size \in {0, part[i].size}

LEMMA PersistTakes ==
  ASSUME Inv, NEW i \in Items, NEW item
  PROVE  /\ Main \in Threads /\ thread[Main] \in Thread /\ thread \in [Threads -> Thread]
         /\ \A u \in Threads : u # Main => persist(i, item)[u] = thread[u]
         /\ persist(i, item)[Main].pc = "load" /\ persist(i, item)[Main].item = item
<1>1. Main \in Threads BY DownloadAssumption DEF Main, Threads
<1>2. thread \in [Threads -> Thread] /\ thread[Main] \in Thread BY <1>1 DEF Inv, TypeOK
<1> QED BY <1>1, <1>2 DEF persist, Thread

LEMMA CommandCalm ==
  ASSUME Inv, NEW c \in Command, NEW i \in Items, onStartCommand(c, i)
  PROVE  MainOnly
<1>1. /\ Main \in Threads /\ thread \in [Threads -> Thread] /\ jobs[i] \in Threads
      /\ part \in [Items -> File] /\ \A k \in Items : part[k] \in File
  BY DownloadAssumption DEF Main, Threads, Inv, TypeOK
<1>2. NoFile.size = 0 BY DEF NoFile
<1>3. CASE enqueue
  <2>1. thread' = persist(requests + 1, Requested) /\ part' = part /\ requests + 1 \in Items
    BY <1>3 DEF enqueue
  <2>2. Requested.state = "QUEUED" BY DEF Requested
  <2> QED BY <1>1, <2>1, <2>2, PersistTakes DEF MainOnly, Same
<1>4. CASE pause(i)
  BY <1>1, <1>4 DEF pause, MainOnly, Same, Thread
<1>5. CASE resume(i)
  <2>1. CASE saved[i].state = "PAUSED"
    <3> DEFINE item == [saved[i] EXCEPT !.state = "QUEUED"]
               queued == persist(i, item)
    <3>1. item.state = "QUEUED"
      <4>1. saved[i] \in DownloadItem BY <2>1, Saved
      <4> QED BY <4>1 DEF DownloadItem
    <3>2. /\ thread' = queued \/ thread' = [queued EXCEPT ![jobs[i]].paused = FALSE]
          /\ part' = part
      BY <1>5, <2>1 DEF resume
    <3>3. /\ \A u \in Threads : u # Main => queued[u] = thread[u]
          /\ queued[Main].pc = "load" /\ queued[Main].item = item
      BY PersistTakes
    <3>4. queued = [u \in Threads |-> queued[u]] BY <1>1 DEF persist
    <3> HIDE DEF item, queued
    <3>5. CASE thread' = queued BY <1>1, <3>1, <3>2, <3>3, <3>5 DEF MainOnly, Same
    <3>6. CASE thread' = [queued EXCEPT ![jobs[i]].paused = FALSE]
      BY <1>1, <3>1, <3>2, <3>3, <3>4, <3>6 DEF MainOnly, Same
    <3> QED BY <3>2, <3>5, <3>6
  <2>2. CASE saved[i].state # "PAUSED" BY <1>5, <2>2 DEF resume, MainOnly, Same
  <2> QED BY <2>1, <2>2
<1>6. CASE retry(i)
  <2>1. CASE saved[i].state = "FAILED"
    <3> DEFINE item == [saved[i] EXCEPT !.state = "QUEUED", !.segments = <<>>]
    <3>1. item.state = "QUEUED"
      <4>1. saved[i] \in DownloadItem BY <2>1, Saved
      <4> QED BY <4>1 DEF DownloadItem
    <3>2. thread' = persist(i, item) /\ part' = [part EXCEPT ![i] = NoFile]
      BY <1>6, <2>1 DEF retry
    <3> HIDE DEF item
    <3>3. \A k \in Items : part'[k].size \in {0, part[k].size} BY <1>1, <1>2, <3>2
    <3> QED BY <3>1, <3>2, <3>3, PersistTakes DEF MainOnly, Same
  <2>2. CASE saved[i].state # "FAILED" BY <1>6, <2>2 DEF retry, MainOnly, Same
  <2> QED BY <2>1, <2>2
<1>7. CASE cancel(i)
  <2> DEFINE item == [saved[i] EXCEPT !.state = "CANCELLED"]
             next == IF saved[i] # NotListed THEN persist(i, item) ELSE thread
             told == IF jobs[i] = 0 THEN {} ELSE {jobs[i]}
  <2>1. thread' = [u \in Threads |-> IF u \in told THEN [next[u] EXCEPT !.cancelled = TRUE]
                                     ELSE next[u]]
    BY <1>7 DEF cancel
  <2>2. \A k \in Items : part'[k].size \in {0, part[k].size}
    BY <1>1, <1>2, <1>7 DEF cancel
  <2>3. /\ \A u \in Threads : u # Main => next[u] = thread[u]
        /\ next[Main] = thread[Main] \/ /\ next[Main].pc = "load"
                                        /\ next[Main].item.state = "CANCELLED"
    <3>1. CASE saved[i] # NotListed
      <4>1. item.state = "CANCELLED"
        <5>1. saved[i] \in DownloadItem BY <3>1, Saved
        <5> QED BY <5>1 DEF DownloadItem
      <4> HIDE DEF item
      <4> QED BY <3>1, <4>1, PersistTakes
    <3>2. CASE saved[i] = NotListed BY <3>2
    <3> QED BY <3>1, <3>2
  <2> HIDE DEF item, next, told
  <2>4. \A u \in Threads : /\ thread'[u].pc = next[u].pc /\ thread'[u].it = next[u].it
                           /\ thread'[u].item = next[u].item /\ thread'[u].copy = next[u].copy
    BY <2>1
  <2> QED BY <1>1, <2>2, <2>3, <2>4 DEF MainOnly, Same
<1> QED BY <1>3, <1>4, <1>5, <1>6, <1>7 DEF onStartCommand

LEMMA CalmCommand ==
  ASSUME Inv, Calm, NEW c \in Command, NEW i \in Items, onStartCommand(c, i)
  PROVE  Calm'
<1>1. saved' = saved /\ target' = target BY DEF onStartCommand
<1>2. MainOnly BY CommandCalm
<1>3. \A u \in Threads : thread[u].it \in Items BY DEF Inv, TypeOK, Thread
<1>4. Same(Main) \/ ThreadCalm(Main)' BY <1>2 DEF MainOnly, ThreadCalm, Transfer
<1> QED BY <1>1, <1>2, <1>3, <1>4, Frame DEF MainOnly

LEMMA CalmStep == ASSUME Inv, Calm, ~Overlap, Step PROVE Calm'
<1>1. ASSUME NEW c \in Command, NEW i \in Items, userCommand(c, i) PROVE Calm'
  BY <1>1, CalmCommand DEF userCommand
<1>2. CASE redeliver
  <2> DEFINE intents == Command \X Items
  <2>1. inbox \in Seq(intents) /\ inbox # <<>> BY <1>2 DEF redeliver, Inv, TypeOK
  <2> HIDE DEF intents
  <2>2. Head(inbox) \in intents BY <2>1
  <2>3. Head(inbox)[1] \in Command /\ Head(inbox)[2] \in Items BY <2>2 DEF intents
  <2> QED BY <1>2, <2>3, CalmCommand DEF redeliver
<1>3. CASE processDeath BY <1>3, CalmDeath
<1>4. ASSUME NEW t \in Threads, Shared(t) PROVE Calm'
  BY <1>4, CalmPersistLoad, CalmPersistSave, CalmStart DEF Shared
<1>5. ASSUME NEW j \in Jobs, Job(j) PROVE Calm'
  <2>1. CASE run(j) BY <2>1, CalmRun
  <2>2. CASE allocate(j) BY <2>2, CalmAllocate
  <2>3. ASSUME NEW k, downloadSegment(j, k) \/ segmentLeft(j, k) PROVE Calm'
    BY <2>3, CalmSegments
  <2>4. CASE joined(j) BY <2>4, CalmJoined
  <2>5. CASE check(j) BY <2>5, CalmCheck
  <2>6. CASE remove(j) \/ move(j) BY <2>6, CalmRemove, CalmMove
  <2>7. CASE onTerminal(j) \/ jobEnded(j) \/ startNext(j) BY <2>7, CalmTerminal
  <2> QED BY <1>5, <2>1, <2>2, <2>3, <2>4, <2>5, <2>6, <2>7 DEF Job
<1> QED BY <1>1, <1>2, <1>3, <1>4, <1>5 DEF Step

LEMMA NextCalm == Inv /\ CalmInv /\ [Next]_vars => CalmInv'
<1> SUFFICES ASSUME Inv, CalmInv, [Next]_vars PROVE CalmInv' OBVIOUS
<1>1. CASE Next
  <2>1. Overlap' => disturbed' BY <1>1 DEF Next
  <2>2. ASSUME ~disturbed' PROVE Calm'
    <3>1. ~disturbed BY <1>1, <2>2 DEF Next
    <3>2. Calm /\ ~Overlap BY <3>1 DEF CalmInv
    <3> QED BY <1>1, <3>2, CalmStep DEF Next
  <2> QED BY <2>1, <2>2 DEF CalmInv
<1>2. CASE UNCHANGED vars
  BY <1>2 DEF vars, diskVars, bookVars, userVars, CalmInv, Calm, FilesListed, ThreadCalm,
              Overlap, AtBooks, AtWork
<1> QED BY <1>1, <1>2

(***************************************************************************)
(* A download that the list calls COMPLETED has a file of full length, as  *)
(* long as no two threads were at the books at once: DownloadEngine says   *)
(* COMPLETED only of a file it has moved, deletes the old file only of a   *)
(* download that is listed otherwise, and a part file that the user takes  *)
(* away before the move makes the job fail.                                *)
(***************************************************************************)
THEOREM FilesAreThere == Spec => []CompletedHasFile
<1>1. CalmInv => CompletedHasFile BY DEF CalmInv, Calm, FilesListed, CompletedHasFile
<1> QED BY <1>1, InitCalm, NextCalm, Invariance, PTL DEF Spec

(***************************************************************************)
(* DownloadPlanner's planSegments covers each byte of each file once.      *)
(***************************************************************************)
THEOREM PlansAreRight == Spec => []PlansTile
<1>1. PlansTile BY EveryPlanTiles DEF PlansTile
<1> QED BY <1>1, PTL
=============================================================================
